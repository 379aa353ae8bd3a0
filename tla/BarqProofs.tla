----------------------------- MODULE BarqProofs -----------------------------
(***************************************************************************)
(* One Barq in its JavaScript thread: what write() promises, that what is  *)
(* read of it is consistent, which listeners a notification calls while    *)
(* they come and go, that its classes are those of its schema, and that    *)
(* what its calls make of objects is what they say; for all classes, rows, *)
(* collections, listeners, schemas and objects.                            *)
(***************************************************************************)
EXTENDS Reads, ClassMaps, Objects, SequenceTheorems, FunctionTheorems, FiniteSetTheorems,
        WellFoundedInduction, TLAPS

-----------------------------------------------------------------------------
(* Transactions                                                            *)

(* A write() whose transaction is still its own is the innermost: those    *)
(* around it have lost theirs, or it could not have begun one.             *)
OwnIsInnermost == \A i \in DOMAIN writes : ~writes[i].meddled => i = Len(writes)

TransactionsIInv == TransactionsTypeOK /\ NoHalfWrites /\ OwnIsInnermost

LEMMA TransactionsInitially == TransactionsInit => TransactionsIInv
  BY DEF TransactionsInit, TransactionsIInv, TransactionsTypeOK, NoHalfWrites, OwnIsInnermost,
         TableContents, StoredRow, NoTransaction, NeverFinished, IsInTransaction

(* No call of the application while there is a transaction: it is the own  *)
(* of no write().                                                          *)
LEMMA AllMeddled ==
  ASSUME TransactionsIInv, ~IsInTransaction
  PROVE  \A i \in DOMAIN writes : writes[i].meddled
  BY DEF TransactionsIInv, NoHalfWrites

LEMMA ByHand ==
  ASSUME TransactionsIInv, BeginByHand \/ CommitByHand \/ CancelByHand
  PROVE  TransactionsIInv'
<1> USE DEF TransactionsIInv, TransactionsTypeOK, Counted
<1>1. CASE BeginByHand
  <2>1. \A i \in DOMAIN writes : writes[i].meddled
    BY <1>1, AllMeddled DEF BeginByHand
  <2>2. TransactionsTypeOK'
    BY <1>1 DEF BeginByHand, Begins, IsInTransaction
  <2> QED  BY <1>1, <2>1, <2>2 DEF BeginByHand, Begins, NoHalfWrites, OwnIsInnermost
<1>2. CASE CommitByHand \/ CancelByHand
  <2> DEFINE Called == [before : TableContents, meddled : BOOLEAN]
  <2>0. writes' = Meddled /\ writes \in Seq(Called)
    BY <1>2 DEF CommitByHand, CancelByHand
  <2>1a. \A i \in DOMAIN writes : writes[i] \in Called
    <3> HIDE DEF Called
    <3> QED  BY <2>0
  <2>1b. \A i \in DOMAIN writes : Meddled[i] \in Called /\ Meddled[i].meddled
    BY <2>1a DEF Meddled
  <2>1. /\ writes' \in Seq(Called)
        /\ Len(writes') = Len(writes) /\ DOMAIN writes' = DOMAIN writes
        /\ \A i \in DOMAIN writes' : writes'[i].meddled
    <3>1. Len(writes) \in Nat /\ DOMAIN writes = 1..Len(writes)
      BY <2>0
    <3>2. Meddled = [i \in 1..Len(writes) |-> [writes[i] EXCEPT !.meddled = TRUE]]
      BY <3>1 DEF Meddled
    <3> HIDE DEF Called
    <3> QED  BY <2>0, <2>1b, <3>1, <3>2
  <2>2. begun' = NoTransaction /\ rows' \in TableContents
    BY <1>2 DEF CommitByHand, CancelByHand, Commits, Cancels
  <2>3. TransactionsTypeOK'
    BY <1>2, <2>1, <2>2 DEF CommitByHand, CancelByHand, NoTransaction, IsInTransaction
  <2>4. NoHalfWrites'
    BY <1>2, <2>1, <2>2 DEF CommitByHand, CancelByHand, NoTransaction, NoHalfWrites
  <2> QED  BY <2>1, <2>3, <2>4 DEF OwnIsInnermost
<1> QED  BY <1>1, <1>2

LEMMA Writing ==
  ASSUME TransactionsIInv, Write
  PROVE  TransactionsIInv'
<1> USE DEF TransactionsIInv
<1>1. \A i \in DOMAIN writes : writes[i].meddled
  BY AllMeddled DEF Write
<1>2. /\ writes' \in Seq([before : TableContents, meddled : BOOLEAN])
      /\ Len(writes') = Len(writes) + 1
      /\ \A i \in DOMAIN writes' : ~writes'[i].meddled => i = Len(writes') /\ writes'[i].before = rows
  BY <1>1 DEF Write, TransactionsTypeOK
<1>3. begun' = [rows |-> rows, within |-> Len(writes')] /\ rows' = rows /\ finished' = finished
  BY <1>2 DEF Write, Begins
<1>4. TransactionsTypeOK'
  BY <1>2, <1>3 DEF Write, Counted, TransactionsTypeOK, IsInTransaction
<1> QED  BY <1>2, <1>3, <1>4 DEF NoHalfWrites, OwnIsInnermost, IsInTransaction, TransactionsTypeOK

(* The end of a write(), whichever way: the transaction was its own or is  *)
(* that of no other.                                                       *)
LEMMA Ending ==
  ASSUME TransactionsIInv, CallbackReturned \/ CallbackThrew
  PROVE  TransactionsIInv'
<1> DEFINE n == Len(writes)
           Called == [before : TableContents, meddled : BOOLEAN]
<1>0. /\ writes \in Seq(Called) /\ writes # <<>> /\ rows \in TableContents
      /\ begun \in [rows : TableContents \cup {NoRow}, within : Nat \cup {-1}]
      /\ IsInTransaction => begun.rows \in TableContents
  BY DEF CallbackReturned, CallbackThrew, TransactionsIInv, TransactionsTypeOK
<1>1. n \in Nat /\ n > 0 /\ writes[n] \in Called
  <2> HIDE DEF Called
  <2> QED  BY <1>0
<1>2. /\ writes' \in Seq(Called)
      /\ Len(writes') = n - 1
      /\ \A i \in DOMAIN writes' : i \in DOMAIN writes /\ writes'[i] = writes[i]
  <2> HIDE DEF Called
  <2>1. writes' = SubSeq(writes, 1, n - 1)
    BY DEF CallbackReturned, CallbackThrew, Finished
  <2>2. \A i \in 1..(n - 1) : writes[i] \in Called
    BY <1>0, <1>1
  <2>3. writes' = [i \in 1..(n - 1) |-> writes[i]]
    BY <1>0, <1>1, <2>1
  <2> QED  BY <1>0, <1>1, <2>2, <2>3
<1>3. /\ begun'.within = -1
      /\ begun' \in [rows : TableContents \cup {NoRow}, within : Nat \cup {-1}]
      /\ rows' \in TableContents
  <2>1. CASE IsInTransaction
    <3>1. begun' = NoTransaction /\ (rows' = rows \/ rows' = begun.rows)
      BY <2>1 DEF CallbackReturned, CallbackThrew, Commits, Cancels
    <3> QED  BY <1>0, <2>1, <3>1 DEF NoTransaction
  <2>2. CASE ~IsInTransaction
    <3>1. begun' = begun /\ rows' = rows
      BY <2>2 DEF CallbackReturned, CallbackThrew
    <3>2. begun.within \in Nat \cup {-1}
      BY <1>0
    <3> QED  BY <1>0, <2>2, <3>1, <3>2 DEF IsInTransaction
  <2> QED  BY <2>1, <2>2
<1>4. \A i \in DOMAIN writes' : writes'[i].meddled
  BY <1>0, <1>1, <1>2 DEF OwnIsInnermost, TransactionsIInv
<1>5. /\ finished'.threw /\ ~finished'.meddled => finished'.after = finished'.before
      /\ ~finished'.threw => finished'.after = finished'.made
  <2>1. CASE CallbackReturned
    BY <1>0, <1>1, <2>1 DEF CallbackReturned, Finished, Commits, NoHalfWrites, TransactionsIInv
  <2>2. CASE CallbackThrew
    BY <1>0, <1>1, <2>2 DEF CallbackThrew, Finished, Cancels, NoHalfWrites, TransactionsIInv
  <2> QED  BY <2>1, <2>2
<1>6. TransactionsTypeOK'
  <2>1. finished' \in [threw : BOOLEAN, meddled : BOOLEAN, before : TableContents \cup {NoRow},
                       made : TableContents \cup {NoRow}, after : TableContents \cup {NoRow}]
    <3>1. PICK threw \in BOOLEAN : Finished(threw)
      BY DEF CallbackReturned, CallbackThrew, IsInTransaction
    <3>2. finished' = [threw |-> threw, meddled |-> writes[n].meddled, before |-> writes[n].before,
                       made |-> rows, after |-> rows']
      BY <3>1 DEF Finished
    <3> QED  BY <1>0, <1>1, <1>3, <3>2
  <2>2. calls' = calls /\ calls \in [{"writes", "edits"} -> Nat]
    BY DEF CallbackReturned, CallbackThrew, Finished, TransactionsIInv, TransactionsTypeOK
  <2> QED  BY <1>2, <1>3, <2>1, <2>2 DEF TransactionsTypeOK, IsInTransaction
<1> QED  BY <1>1, <1>2, <1>3, <1>4, <1>5, <1>6 DEF NoHalfWrites, OwnIsInnermost, TransactionsIInv

LEMMA Editing ==
  ASSUME TransactionsIInv, NEW new \in TableContents, Edited(new)
  PROVE  TransactionsIInv'
  BY DEF TransactionsIInv, TransactionsTypeOK, Edited, Counted, NoHalfWrites, OwnIsInnermost, IsInTransaction

LEMMA TransactionsStep == TransactionsIInv /\ [TransactionsNext]_transactionVars => TransactionsIInv'
<1> SUFFICES ASSUME TransactionsIInv, [TransactionsNext]_transactionVars PROVE TransactionsIInv'
  OBVIOUS
<1>0. rows \in TableContents
  BY DEF TransactionsIInv, TransactionsTypeOK
<1>1. CASE BeginByHand \/ CommitByHand \/ CancelByHand
  BY <1>1, ByHand
<1>2. CASE Write
  BY <1>2, Writing
<1>3. CASE CallbackReturned \/ CallbackThrew
  BY <1>3, Ending
<1>4. CASE DeleteAll
  <2>1. [t \in Tables |-> [k \in RowKeys |-> NoRow]] \in TableContents
    BY DEF TableContents
  <2> QED  BY <1>4, <2>1, Editing DEF DeleteAll
<1>5. ASSUME NEW t \in Tables, NEW k \in RowKeys, RemoveRow(t, k) PROVE TransactionsIInv'
  <2> DEFINE left == [u \in Tables |-> [other \in RowKeys |->
        IF u = t /\ other = k THEN NoRow ELSE Unlinked(rows[u][other], t, u, k)]]
  <2>1. ASSUME NEW row \in StoredRow \cup {NoRow}, NEW u \in Tables
        PROVE  Unlinked(row, t, u, k) \in StoredRow \cup {NoRow}
    BY DEF Unlinked, StoredRow
  <2>2. left \in TableContents
    BY <1>0, <2>1 DEF TableContents
  <2> QED  BY <1>5, <2>2, Editing DEF RemoveRow
<1>6. ASSUME NEW t \in Tables, NEW k \in RowKeys, NEW id \in PrimaryKeys \cup {NoKey},
             NEW to \in RowKeys \cup {NoRow}, PutRow(t, k, id, to)
      PROVE  TransactionsIInv'
  <2>1. [rows EXCEPT ![t][k] = [id |-> id, to |-> to]] \in TableContents
    BY <1>0 DEF TableContents, StoredRow
  <2> QED  BY <1>6, <2>1, Editing DEF PutRow
<1>7. CASE UNCHANGED transactionVars
  BY <1>7 DEF transactionVars, TransactionsIInv, TransactionsTypeOK, NoHalfWrites, OwnIsInnermost, IsInTransaction
<1> QED  BY <1>1, <1>2, <1>3, <1>4, <1>5, <1>6, <1>7 DEF TransactionsNext

(* A write() that threw has changed nothing and one that returned has kept *)
(* what its callback made, unless the callback ended its transaction       *)
(* itself, and no write() leaves a transaction open (Barq.ts, write).      *)
THEOREM WritesAreWhole == TransactionsSpec => []NoHalfWrites
<1>1. TransactionsIInv => NoHalfWrites
  BY DEF TransactionsIInv
<1> QED  BY <1>1, TransactionsInitially, TransactionsStep, PTL DEF TransactionsSpec

-----------------------------------------------------------------------------
(* Lookups of objects                                                      *)

(* Primary keys tell the rows of a table apart.                            *)
KeysApart(contents) ==
  \A t \in Tables : \A k \in RowKeys : contents[t][k] # NoRow =>
    /\ (contents[t][k].id = NoKey) <=> (t \notin PrimaryKeyed)
    /\ \A other \in RowKeys :
         (t \in PrimaryKeyed /\ contents[t][other] # NoRow
            /\ contents[t][other].id = contents[t][k].id) => other = k

(* They do so now and did when the transaction began, which may be         *)
(* cancelled.                                                              *)
RowsApart == KeysApart(rows) /\ (IsInTransaction => KeysApart(begun.rows))

LEMMA RowsInitially == TransactionsInit => RowsApart
  BY DEF TransactionsInit, RowsApart, KeysApart, IsInTransaction, NoTransaction

LEMMA RemovingRow ==
  ASSUME TransactionsIInv, KeysApart(rows), NEW t \in Tables, NEW k \in RowKeys, RemoveRow(t, k)
  PROVE  KeysApart(rows')
<1> DEFINE left == [u \in Tables |-> [other \in RowKeys |->
        IF u = t /\ other = k THEN NoRow ELSE Unlinked(rows[u][other], t, u, k)]]
<1>1. rows' = left
  BY DEF RemoveRow, Edited
<1>2. rows \in TableContents
  BY DEF TransactionsIInv, TransactionsTypeOK
<1>3. ASSUME NEW u \in Tables, NEW other \in RowKeys, left[u][other] # NoRow
      PROVE  rows[u][other] # NoRow /\ left[u][other].id = rows[u][other].id
  <2>1. rows[u][other] \in StoredRow \cup {NoRow}
    BY <1>2 DEF TableContents
  <2>2. left[u][other] = Unlinked(rows[u][other], t, u, k)
    BY <1>3
  <2> HIDE DEF left
  <2> QED  BY <1>3, <2>1, <2>2 DEF Unlinked, StoredRow
<1> HIDE DEF left
<1> QED  BY <1>1, <1>3 DEF KeysApart

LEMMA PuttingRow ==
  ASSUME TransactionsIInv, KeysApart(rows), NEW t \in Tables, NEW k \in RowKeys,
         NEW id, NEW to, PutRow(t, k, id, to)
  PROVE  KeysApart(rows')
<1> DEFINE row == [id |-> id, to |-> to]
<1>1. rows \in TableContents
  BY DEF TransactionsIInv, TransactionsTypeOK
<1>2. rows' = [rows EXCEPT ![t][k] = row] /\ rows[t][k] = NoRow
  BY DEF PutRow, Edited, Exists
<1>3. /\ (row.id = NoKey) <=> (t \notin PrimaryKeyed)
      /\ row.id # NoKey => \A other \in RowKeys : rows[t][other] # NoRow => rows[t][other].id # row.id
  BY DEF PutRow, Exists
<1> HIDE DEF row
<1>4. \A u \in Tables : \A other \in RowKeys :
        rows'[u][other] = IF u = t /\ other = k THEN row ELSE rows[u][other]
  BY <1>1, <1>2 DEF TableContents
<1> QED  BY <1>3, <1>4 DEF KeysApart

LEMMA RowsStep ==
  TransactionsIInv /\ RowsApart /\ [TransactionsNext]_transactionVars => RowsApart'
<1> SUFFICES ASSUME TransactionsIInv, RowsApart, [TransactionsNext]_transactionVars
             PROVE  RowsApart'
  OBVIOUS
<1>0. ASSUME UNCHANGED begun, KeysApart(rows') PROVE RowsApart'
  BY <1>0 DEF RowsApart, KeysApart, IsInTransaction
<1>1. CASE BeginByHand \/ Write
  BY <1>1 DEF BeginByHand, Write, Begins, RowsApart, KeysApart
<1>2. ASSUME begun' = NoTransaction, rows' = rows \/ (IsInTransaction /\ rows' = begun.rows)
      PROVE  RowsApart'
  BY <1>2 DEF NoTransaction, IsInTransaction, RowsApart, KeysApart
<1>3. CASE CommitByHand \/ CancelByHand
  BY <1>2, <1>3 DEF CommitByHand, CancelByHand, Commits, Cancels
<1>4. CASE CallbackReturned \/ CallbackThrew
  <2>1. CASE IsInTransaction
    BY <1>2, <1>4, <2>1 DEF CallbackReturned, CallbackThrew, Commits, Cancels
  <2>2. CASE ~IsInTransaction
    BY <1>4, <2>2, <1>0 DEF CallbackReturned, CallbackThrew, RowsApart, KeysApart
  <2> QED  BY <2>1, <2>2
<1>5. CASE DeleteAll
  <2>1. KeysApart(rows')
    BY <1>5 DEF DeleteAll, Edited, KeysApart
  <2> QED  BY <1>0, <1>5, <2>1 DEF DeleteAll, Edited
<1>6. ASSUME NEW t \in Tables, NEW k \in RowKeys, RemoveRow(t, k) PROVE RowsApart'
  <2>1. KeysApart(rows)
    BY DEF RowsApart
  <2>2. KeysApart(rows')
    BY <1>6, <2>1, RemovingRow
  <2> QED  BY <1>0, <1>6, <2>2 DEF RemoveRow, Edited
<1>7. ASSUME NEW t \in Tables, NEW k \in RowKeys, NEW id \in PrimaryKeys \cup {NoKey},
             NEW to \in RowKeys \cup {NoRow}, PutRow(t, k, id, to)
      PROVE  RowsApart'
  <2>1. KeysApart(rows)
    BY DEF RowsApart
  <2>2. KeysApart(rows')
    BY <1>7, <2>1, PuttingRow
  <2> QED  BY <1>0, <1>7, <2>2 DEF PutRow, Edited
<1>8. CASE UNCHANGED transactionVars
  BY <1>0, <1>8 DEF transactionVars, RowsApart, KeysApart
<1> QED  BY <1>1, <1>3, <1>4, <1>5, <1>6, <1>7, <1>8 DEF TransactionsNext

(* The ways to look for an object find the same rows.                      *)
LEMMA RowsFound ==
  ASSUME TransactionsIInv, RowsApart, NEW t \in Tables, t \in PrimaryKeyed,
         ObjectsOf(t) # NotAllowed
  PROVE  {ObjectForPrimaryKey(t, id) : id \in PrimaryKeys} \ {NoRow} = ObjectsOf(t)
<1> DEFINE WithId(id) == {k \in RowKeys : Exists(t, k) /\ rows[t][k].id = id}
<1>1. ~IsEmbedded(t) /\ ~IsAsymmetric(t)
  BY DEF ObjectsOf
<1>2. ObjectsOf(t) = {k \in RowKeys : Exists(t, k)}
  BY <1>1 DEF ObjectsOf
<1>3. ASSUME NEW id \in PrimaryKeys, ObjectForPrimaryKey(t, id) # NoRow
      PROVE  ObjectForPrimaryKey(t, id) \in ObjectsOf(t)
  <2>1. /\ WithId(id) # {}
        /\ ObjectForPrimaryKey(t, id) = CHOOSE k \in WithId(id) : TRUE
    BY <1>1, <1>3 DEF ObjectForPrimaryKey
  <2>2. ObjectForPrimaryKey(t, id) \in WithId(id)
    BY <2>1
  <2> QED  BY <1>2, <2>2
<1>4. ASSUME NEW k \in ObjectsOf(t)
      PROVE  k # NoRow /\ \E id \in PrimaryKeys : ObjectForPrimaryKey(t, id) = k
  <2> DEFINE id == rows[t][k].id
  <2>1. k \in RowKeys /\ rows[t][k] # NoRow
    BY <1>2 DEF Exists
  <2>2. k # NoRow
    BY <2>1, TransactionsAssumption
  <2>3. id \in PrimaryKeys
    <3>1. rows[t][k] \in StoredRow
      BY <2>1 DEF TransactionsIInv, TransactionsTypeOK, TableContents
    <3>2. id # NoKey
      BY <2>1 DEF RowsApart, KeysApart
    <3> QED  BY <3>1, <3>2 DEF StoredRow
  <2>4. WithId(id) = {k}
    BY <2>1 DEF RowsApart, KeysApart, Exists
  <2> HIDE DEF id
  <2>5. ObjectForPrimaryKey(t, id) = CHOOSE x \in {k} : TRUE
    BY <1>1, <2>4 DEF ObjectForPrimaryKey
  <2> QED  BY <2>2, <2>3, <2>5
<1> QED  BY <1>3, <1>4

(* The links to an object are those it counts.                             *)
LEMMA LinksCounted ==
  ASSUME NEW t \in Tables, NEW k \in RowKeys,
         NEW from \in SUBSET Tables,
         \A u \in Tables : u \in from <=> LinkingObjects(t, k, u) # NotAllowed
  PROVE  /\ LinkingObjectsCount(t, k) =
              Cardinality(UNION {{u} \X LinkingObjects(t, k, u) : u \in from})
         /\ \A u \in from \cap TopLevel : LinkingObjects(t, k, u) \subseteq ObjectsOf(u)
<1> DEFINE linking(u) == {other \in RowKeys : Exists(u, other) /\ rows[u][other].to = k}
           all == {x \in Tables \X RowKeys :
                     LinksTo[x[1]] = t /\ Exists(x[1], x[2]) /\ rows[x[1]][x[2]].to = k}
<1>1. \A u \in Tables : linking(u) # NotAllowed
  BY TransactionsAssumption
<1>2. \A u \in Tables : u \in from <=> LinksTo[u] = t
  BY <1>1 DEF LinkingObjects
<1>3. \A u \in from : LinkingObjects(t, k, u) = linking(u)
  BY <1>2 DEF LinkingObjects
<1>4. from \subseteq Tables
  OBVIOUS
<1> DEFINE pairs == UNION {{u} \X linking(u) : u \in from}
<1>5. UNION {{u} \X LinkingObjects(t, k, u) : u \in from} = pairs
  BY <1>3
<1>6. all = pairs
  <2>1. ASSUME NEW x \in all PROVE x \in pairs
    <3>1. x = <<x[1], x[2]>> /\ x[1] \in Tables /\ x[2] \in RowKeys
      OBVIOUS
    <3>2. x[1] \in from /\ x[2] \in linking(x[1])
      BY <1>2, <3>1
    <3> HIDE DEF linking
    <3>3. x \in {x[1]} \X linking(x[1])
      BY <3>1, <3>2
    <3> QED  BY <3>2, <3>3
  <2>2. ASSUME NEW u \in from, NEW x \in {u} \X linking(u) PROVE x \in all
    <3>1. x[1] = u /\ x[2] \in linking(u) /\ x = <<x[1], x[2]>>
      OBVIOUS
    <3>2. x \in Tables \X RowKeys /\ LinksTo[x[1]] = t
      BY <1>2, <1>4, <3>1
    <3> QED  BY <3>1, <3>2
  <2> HIDE DEF all, linking
  <2> QED  BY <2>1, <2>2
<1>7. LinkingObjectsCount(t, k) = Cardinality(all)
  BY DEF LinkingObjectsCount
<1>8. \A u \in from \cap TopLevel : linking(u) \subseteq ObjectsOf(u)
  BY <1>4 DEF TopLevel, ObjectsOf, IsEmbedded, IsAsymmetric
<1> HIDE DEF all, linking, pairs
<1> QED  BY <1>3, <1>5, <1>6, <1>7, <1>8

LEMMA Lookups == TransactionsIInv /\ RowsApart => LookupsAgree
<1> SUFFICES ASSUME TransactionsIInv, RowsApart, NEW t \in Tables, ObjectsOf(t) # NotAllowed
             PROVE  /\ \A k \in RowKeys : (ObjectForObjectKey(t, k) = k) <=> (k \in ObjectsOf(t))
                    /\ t \in PrimaryKeyed =>
                         {ObjectForPrimaryKey(t, id) : id \in PrimaryKeys} \ {NoRow} = ObjectsOf(t)
                    /\ \A k \in ObjectsOf(t) :
                         LET from == {u \in Tables : LinkingObjects(t, k, u) # NotAllowed}
                         IN /\ LinkingObjectsCount(t, k) =
                                 Cardinality(UNION {{u} \X LinkingObjects(t, k, u) : u \in from})
                            /\ \A u \in from \cap TopLevel :
                                 LinkingObjects(t, k, u) \subseteq ObjectsOf(u)
  BY DEF LookupsAgree
<1>1. ~IsEmbedded(t) /\ ~IsAsymmetric(t) /\ ObjectsOf(t) = {k \in RowKeys : Exists(t, k)}
  BY DEF ObjectsOf
<1>2. \A k \in RowKeys : (ObjectForObjectKey(t, k) = k) <=> (k \in ObjectsOf(t))
  BY <1>1, TransactionsAssumption DEF ObjectForObjectKey
<1>3. \A k \in ObjectsOf(t) : k \in RowKeys
  BY <1>1
<1> QED  BY <1>2, <1>3, RowsFound, LinksCounted

-----------------------------------------------------------------------------
(* Loops                                                                   *)

(* A set of naturals has a least member.                                   *)
LEMMA Least ==
  ASSUME NEW T \in SUBSET Nat, T # {}
  PROVE  \E x \in T : \A y \in T : x <= y
<1> DEFINE R == {ss \in Nat \X Nat : ss[1] < ss[2]}
<1>1. IsWellFoundedOn(R, Nat)
  BY NatLessThanWellFounded DEF OpToRel
<1>2. \A x, y \in Nat : y < x => <<y, x>> \in R
  OBVIOUS
<1> HIDE DEF R
<1>3. PICK x \in T : \A y \in T : ~(<<y, x>> \in R)
  BY <1>1, WFMin
<1>4. \A y \in T : x <= y
  <2> SUFFICES ASSUME NEW y \in T PROVE x <= y
    OBVIOUS
  <2>1. x \in Nat /\ y \in Nat /\ ~(y < x)
    BY <1>2, <1>3
  <2> QED  BY <2>1
<1> QED  BY <1>4

(* And a greatest, if it has a bound.                                      *)
LEMMA Greatest ==
  ASSUME NEW n \in Nat, NEW T \in SUBSET (0..n), T # {}
  PROVE  \E x \in T : \A y \in T : x >= y
<1> DEFINE U == {n - x : x \in T}
<1>1. U \in SUBSET Nat /\ U # {}
  <2>1. \A x \in T : n - x \in Nat
    <3>1. \A x \in 0..n : n - x \in Nat
      OBVIOUS
    <3> QED  BY <3>1
  <2> QED  BY <2>1
<1>2. PICK u \in U : \A y \in U : u <= y
  BY <1>1, Least
<1>3. PICK x \in T : u = n - x
  OBVIOUS
<1>4. \A y \in T : x >= y
  <2> SUFFICES ASSUME NEW y \in T PROVE x >= y
    OBVIOUS
  <2>1. n - y \in U
    OBVIOUS
  <2>2. n - x <= n - y
    BY <1>2, <1>3, <2>1
  <2>3. x \in 0..n /\ y \in 0..n
    OBVIOUS
  <2> HIDE DEF U
  <2> QED  BY <2>2, <2>3
<1> QED  BY <1>4

(* What holds at the start and of each next step holds of every step.      *)
LEMMA EveryStep ==
  ASSUME NEW n \in Nat, NEW T, 0 \in T, \A i \in 1..n : i - 1 \in T => i \in T
  PROVE  0..n \subseteq T
<1> DEFINE U == {i \in 0..n : i \notin T}
<1> SUFFICES ASSUME U # {} PROVE FALSE
  OBVIOUS
<1>1. PICK u \in U : \A y \in U : u <= y
  <2>1. U \in SUBSET Nat
    OBVIOUS
  <2> HIDE DEF U
  <2> QED  BY <2>1, Least
<1>2. u \in 1..n /\ u - 1 \in 0..n
  OBVIOUS
<1>3. u - 1 \notin U
  <2>1. u \in Nat /\ ~(u <= u - 1)
    BY <1>2
  <2> HIDE DEF U
  <2> QED  BY <1>1, <2>1
<1> QED  BY <1>2, <1>3

(* A loop that does the same at each step comes to a value at each.        *)
Runs(f, n, V, start, step) ==
  f \in [0..n -> V] /\ f[0] = start /\ \A i \in 1..n : f[i] = step[<<f[i - 1], i>>]

LEMMA LoopRuns ==
  ASSUME NEW n \in Nat, NEW V, NEW start \in V, NEW step \in [V \X (1..n) -> V]
  PROVE  \E f : Runs(f, n, V, start, step)
<1> DEFINE T == {k \in 0..n : \E f : Runs(f, k, V, start, step)}
<1>1. 0 \in T
  <2> DEFINE f == [i \in 0..0 |-> start]
  <2>1. Runs(f, 0, V, start, step)
    BY DEF Runs
  <2> HIDE DEF f
  <2> QED  BY <2>1
<1>2. ASSUME NEW k \in 1..n, k - 1 \in T PROVE k \in T
  <2>1. PICK f : Runs(f, k - 1, V, start, step)
    BY <1>2
  <2> DEFINE g == [i \in 0..k |-> IF i = k THEN step[<<f[k - 1], k>>] ELSE f[i]]
  <2>2. k - 1 \in 0..(k - 1) /\ f[k - 1] \in V
    BY <2>1 DEF Runs
  <2>3. <<f[k - 1], k>> \in V \X (1..n)
    BY <2>2
  <2>4. step[<<f[k - 1], k>>] \in V
    BY <2>3
  <2>5. g \in [0..k -> V]
    <3> SUFFICES ASSUME NEW i \in 0..k PROVE g[i] \in V
      OBVIOUS
    <3>1. i # k => i \in 0..(k - 1)
      OBVIOUS
    <3>2. i # k => f[i] \in V
      BY <2>1, <3>1 DEF Runs
    <3> QED  BY <2>4, <3>2
  <2>6. g[0] = start
    <3>1. 0 # k /\ 0 \in 0..k /\ f[0] = start
      BY <2>1 DEF Runs
    <3> QED  BY <3>1
  <2>7. ASSUME NEW i \in 1..k PROVE g[i] = step[<<g[i - 1], i>>]
    <3>1. i \in 0..k /\ i - 1 \in 0..k /\ i - 1 # k
      OBVIOUS
    <3>2. g[i - 1] = f[i - 1]
      BY <3>1
    <3>3. CASE i = k
      BY <3>1, <3>2, <3>3
    <3>4. CASE i # k
      <4>1. i \in 1..(k - 1)
        BY <3>4
      <4>2. f[i] = step[<<f[i - 1], i>>]
        BY <2>1, <4>1 DEF Runs
      <4>3. g[i] = f[i]
        BY <3>1, <3>4
      <4> HIDE DEF g
      <4> QED  BY <3>2, <4>2, <4>3
    <3> QED  BY <3>3, <3>4
  <2>8. Runs(g, k, V, start, step)
    <3> HIDE DEF g
    <3> QED  BY <2>5, <2>6, <2>7 DEF Runs
  <2>9. k \in 0..n
    OBVIOUS
  <2> HIDE DEF g
  <2> QED  BY <2>8, <2>9
<1>3. 0..n \subseteq T
  <2> HIDE DEF T
  <2> QED  BY <1>1, <1>2, EveryStep
<1>4. n \in T
  BY <1>3
<1> QED  BY <1>4

-----------------------------------------------------------------------------
(* Generators                                                              *)

(* The collection, as the engine keeps it.                                 *)
EntriesOK ==
  /\ type \in OrderedTypes \cup {"dictionary"}
  /\ entries \in Seq(Possible) /\ Len(entries) <= MaxSize /\ IsOrdered(entries)

(* What a loop goes by is what was in the collection when it began; none   *)
(* of that is read before.                                                 *)
StartIsKept(walk) ==
  /\ walk.from \in Seq(Possible)
  /\ walk.begun => /\ walk.values = ValuesIn(walk.from)
                   /\ walk.keys = IF type = "dictionary" THEN KeysIn(walk.from) ELSE <<>>
                   /\ walk.size = Len(walk.from)
  /\ ~walk.begun => walk.out = <<>> /\ walk.from = <<>>

(* What a loop has to see in the i-th place.                               *)
ExpectedOf(walk, i) ==
  LET key == IF type = "dictionary" THEN walk.from[i].key ELSE i - 1
      value == walk.from[i].value
  IN CASE walk.method = "keys" -> key
       [] walk.method = "values" -> value
       [] OTHER -> <<IF type = "set" THEN value ELSE key, value>>

WalkOK(walk) ==
  /\ walk = [method |-> walk.method, begun |-> walk.begun, keys |-> walk.keys,
             values |-> walk.values, size |-> walk.size, out |-> walk.out,
             done |-> walk.done, from |-> walk.from]
  /\ walk.method \in Methods \cup {"none"}
  /\ walk.method = "none" => walk.done /\ ~walk.begun
  /\ StartIsKept(walk)
  /\ Len(walk.out) \in 0..Len(walk.from)
  /\ walk.out = [i \in 1..Len(walk.out) |-> ExpectedOf(walk, i)]
  /\ walk.begun /\ walk.done => Len(walk.out) = Len(walk.from)

WalksIInv ==
  /\ EntriesOK
  /\ DOMAIN walks = Walkers
  /\ \A w \in Walkers : WalkOK(walks[w])

LEMMA UnstartedOK ==
  ASSUME NEW m \in Methods \cup {"none"}, NEW done \in BOOLEAN, m = "none" => done
  PROVE  WalkOK([method |-> m, begun |-> FALSE, keys |-> <<>>, values |-> <<>>, size |-> 0,
                 out |-> <<>>, done |-> done, from |-> <<>>])
<1> DEFINE walk == [method |-> m, begun |-> FALSE, keys |-> <<>>, values |-> <<>>, size |-> 0,
                    out |-> <<>>, done |-> done, from |-> <<>>]
<1>1. /\ walk.method = m /\ walk.begun = FALSE /\ walk.keys = <<>> /\ walk.values = <<>>
      /\ walk.size = 0 /\ walk.out = <<>> /\ walk.done = done /\ walk.from = <<>>
  OBVIOUS
<1>2. walk = [method |-> walk.method, begun |-> walk.begun, keys |-> walk.keys,
              values |-> walk.values, size |-> walk.size, out |-> walk.out,
              done |-> walk.done, from |-> walk.from]
  BY <1>1
<1> HIDE DEF walk
<1>3. StartIsKept(walk)
  BY <1>1 DEF StartIsKept
<1>4. Len(walk.out) \in 0..Len(walk.from)
  BY <1>1
<1>5. walk.out = [i \in 1..Len(walk.out) |-> ExpectedOf(walk, i)]
  <2>1. 1..Len(walk.out) = {}
    BY <1>1
  <2> QED  BY <1>1, <2>1
<1> QED  BY <1>1, <1>2, <1>3, <1>4, <1>5 DEF WalkOK, walk

LEMMA NewWalks ==
  ASSUME NEW m \in Methods
  PROVE  WalkOK(Unstarted(m)) /\ WalkOK(NotWalking)
<1> DEFINE start(n, done) ==
             [method |-> n, begun |-> FALSE, keys |-> <<>>, values |-> <<>>, size |-> 0,
              out |-> <<>>, done |-> done, from |-> <<>>]
<1>1. Unstarted(m) = start(m, FALSE)
  BY Zenon DEF Unstarted
<1>2. ASSUME NEW u, NEW done \in BOOLEAN, u = start("none", FALSE)
      PROVE  [u EXCEPT !.done = done] = start("none", done)
  <2> DEFINE fields == {"method", "begun", "keys", "values", "size", "out", "done", "from"}
             v == [u EXCEPT !.done = done]
             r == start("none", done)
  <2>1. u = [f \in fields |-> u[f]] /\ DOMAIN u = fields
    BY <1>2
  <2>2. v = [f \in fields |-> IF f = "done" THEN done ELSE u[f]]
    BY <2>1
  <2>3. r = [f \in fields |-> r[f]]
    OBVIOUS
  <2>4. \A f \in fields : r[f] = IF f = "done" THEN done ELSE u[f]
    <3>1. /\ r["method"] = u["method"] /\ r["keys"] = u["keys"]
          /\ r["values"] = u["values"] /\ r["size"] = u["size"] /\ r["out"] = u["out"]
          /\ r["from"] = u["from"]
      BY <1>2
    <3>2. r["begun"] = u["begun"]
      BY <1>2
    <3>3. r["done"] = done
      OBVIOUS
    <3> HIDE DEF r
    <3> QED  BY <3>1, <3>2, <3>3
  <2> HIDE DEF v, r, fields
  <2>5. v = r
    BY <2>2, <2>3, <2>4
  <2> QED  BY <2>5 DEF v, r
<1>3. NotWalking = start("none", TRUE)
  <2> DEFINE u == Unstarted("none")
  <2>1. u = start("none", FALSE)
    BY Zenon DEF Unstarted
  <2>2. NotWalking = [u EXCEPT !.done = TRUE]
    BY Zenon DEF NotWalking
  <2>3. TRUE \in BOOLEAN
    OBVIOUS
  <2> HIDE DEF u, start
  <2> QED  BY <1>2, <2>1, <2>2, <2>3, Zenon
<1>4. WalkOK(start(m, FALSE))
  <2>1. FALSE \in BOOLEAN /\ m # "none"
    BY DEF Methods
  <2> QED  BY <2>1, UnstartedOK, Zenon
<1>5. WalkOK(start("none", TRUE))
  <2>1. TRUE \in BOOLEAN /\ "none" \in Methods \cup {"none"}
    OBVIOUS
  <2> QED  BY <2>1, UnstartedOK, Zenon
<1> HIDE DEF start
<1> QED  BY <1>1, <1>3, <1>4, <1>5

(* A sequence that goes on.                                                *)
LEMMA Appended ==
  ASSUME NEW n \in Nat, NEW s, s = [i \in 1..n |-> s[i]], NEW e
  PROVE  /\ Append(s, e) = [i \in 1..(n + 1) |-> IF i = n + 1 THEN e ELSE s[i]]
         /\ Len(s) = n /\ Len(Append(s, e)) = n + 1
<1> DEFINE S == {s[i] : i \in 1..n} \cup {e}
           t == Append(s, e)
<1>1. s \in [1..n -> S]
  <2>1. \A i \in 1..n : s[i] \in S
    OBVIOUS
  <2>2. [i \in 1..n |-> s[i]] \in [1..n -> S]
    BY <2>1
  <2> HIDE DEF S
  <2> QED  BY <2>2
<1>2. e \in S
  OBVIOUS
<1> HIDE DEF S
<1>3. s \in Seq(S) /\ Len(s) = n
  BY <1>1
<1>4. /\ t \in Seq(S) /\ Len(t) = n + 1
      /\ \A i \in 1..n : t[i] = s[i]
      /\ t[n + 1] = e
  BY <1>2, <1>3, AppendProperties
<1> HIDE DEF t
<1>5. t = [i \in 1..(n + 1) |-> t[i]]
  BY <1>4
<1>6. \A i \in 1..(n + 1) : t[i] = IF i = n + 1 THEN e ELSE s[i]
  BY <1>4
<1>7. t = [i \in 1..(n + 1) |-> IF i = n + 1 THEN e ELSE s[i]]
  BY <1>5, <1>6
<1> QED  BY <1>3, <1>4, <1>7 DEF t

(* The first step of a loop takes what it goes by.                         *)
LEMMA WalkBegins ==
  ASSUME EntriesOK, NEW walk, WalkOK(walk), ~walk.done
  PROVE  /\ WalkOK(Begun(walk)) /\ Begun(walk).begun /\ ~Begun(walk).done
         /\ Begun(walk).method \in Methods
<1>0. walk.method \in Methods
  BY DEF WalkOK
<1>1. CASE walk.begun
  BY <1>0, <1>1 DEF Begun
<1>2. CASE ~walk.begun
  <2> DEFINE keys == IF type = "dictionary" THEN KeysIn(entries) ELSE <<>>
             values == ValuesIn(entries)
             b == [walk EXCEPT !.begun = TRUE, !.keys = keys, !.values = values, !.size = Size,
                               !.from = entries]
  <2>1. Begun(walk) = b
    BY <1>2, Zenon DEF Begun
  <2>2. walk.out = <<>>
    BY <1>2 DEF WalkOK, StartIsKept
  <2> HIDE DEF keys, values
  <2>3. /\ b.method = walk.method /\ b.keys = keys /\ b.values = values
        /\ b.size = Size /\ b.out = <<>> /\ b.from = entries
    BY <2>2 DEF WalkOK
  <2>4. b.begun /\ ~b.done
    BY DEF WalkOK
  <2>5. b = [method |-> b.method, begun |-> b.begun, keys |-> b.keys,
             values |-> b.values, size |-> b.size, out |-> b.out,
             done |-> b.done, from |-> b.from]
    <3> DEFINE c == [method |-> b.method, begun |-> b.begun, keys |-> b.keys,
             values |-> b.values, size |-> b.size, out |-> b.out,
             done |-> b.done, from |-> b.from]
               fields == {"method", "begun", "keys", "values", "size", "out", "done", "from"}
    <3>1. DOMAIN walk = fields
      BY DEF WalkOK
    <3>2. b = [f \in fields |-> b[f]]
      BY <3>1
    <3>3. c = [f \in fields |-> c[f]]
      OBVIOUS
    <3> HIDE DEF b
    <3>4. \A f \in fields : c[f] = b[f]
      OBVIOUS
    <3> HIDE DEF c, fields
    <3>5. b = c
      BY <3>2, <3>3, <3>4
    <3> QED  BY <3>5 DEF c
  <2> HIDE DEF b
  <2> QED  BY <1>0, <2>1, <2>3, <2>4, <2>5 DEF WalkOK, StartIsKept, EntriesOK, Size, keys, values
<1> QED  BY <1>1, <1>2

(* Each step yields what the loop has to see, until there is no more.      *)
LEMMA WalkGoesOn ==
  ASSUME EntriesOK, NEW walk, WalkOK(walk), walk.begun, ~walk.done, walk.method \in Methods,
         NEW i, i = Len(walk.out) + 1
  PROVE  /\ i > walk.size => WalkOK([walk EXCEPT !.done = TRUE])
         /\ ~(i > walk.size) => WalkOK([walk EXCEPT !.out = Append(@, Yielded(walk, i))])
<1> DEFINE fields == {"method", "begun", "keys", "values", "size", "out", "done", "from"}
           shaped(b) == b = [method |-> b.method, begun |-> b.begun, keys |-> b.keys,
             values |-> b.values, size |-> b.size, out |-> b.out,
             done |-> b.done, from |-> b.from]
<1>0. /\ walk.values = ValuesIn(walk.from)
      /\ walk.keys = IF type = "dictionary" THEN KeysIn(walk.from) ELSE <<>>
      /\ walk.size = Len(walk.from) /\ walk.from \in Seq(Possible)
      /\ Len(walk.out) \in 0..Len(walk.from) /\ Len(walk.from) \in Nat
      /\ walk.out = [j \in 1..Len(walk.out) |-> ExpectedOf(walk, j)]
  BY DEF WalkOK, StartIsKept
<1>1. DOMAIN walk = fields /\ walk = [f \in fields |-> walk[f]]
  BY DEF WalkOK
<1>2. ASSUME NEW b, b = [f \in fields |-> b[f]] PROVE shaped(b)
  <2> DEFINE c == [method |-> b.method, begun |-> b.begun, keys |-> b.keys,
             values |-> b.values, size |-> b.size, out |-> b.out,
             done |-> b.done, from |-> b.from]
  <2>1. c = [f \in fields |-> c[f]]
    OBVIOUS
  <2>2. \A f \in fields : c[f] = b[f]
    OBVIOUS
  <2> HIDE DEF c, fields
  <2>3. b = c
    BY <1>2, <2>1, <2>2
  <2> QED  BY <2>3 DEF c
<1>3. ASSUME i > walk.size PROVE WalkOK([walk EXCEPT !.done = TRUE])
  <2> DEFINE b == [walk EXCEPT !.done = TRUE]
  <2>1. b = [f \in fields |-> b[f]]
    BY <1>1
  <2>2. /\ b.method = walk.method /\ b.keys = walk.keys /\ b.values = walk.values
        /\ b.size = walk.size /\ b.out = walk.out /\ b.from = walk.from
    BY <1>1
  <2>3. b.begun
    BY <1>1
  <2>4. Len(walk.out) = Len(walk.from)
    BY <1>0, <1>3
  <2> HIDE DEF b
  <2>5. shaped(b)
    BY <1>2, <2>1
  <2>6. \A j : ExpectedOf(b, j) = ExpectedOf(walk, j)
    BY <2>2 DEF ExpectedOf
  <2>7. StartIsKept(b)
    BY <1>0, <2>2, <2>3 DEF StartIsKept
  <2>8. b.out = [j \in 1..Len(b.out) |-> ExpectedOf(b, j)]
    BY <1>0, <2>2, <2>6
  <2>9. b.method \in Methods
    BY <2>2
  <2>10. WalkOK(b)
    BY <1>0, <2>2, <2>3, <2>4, <2>5, <2>7, <2>8, <2>9 DEF WalkOK, Methods
  <2> QED  BY <2>10 DEF b
<1>4. ASSUME ~(i > walk.size)
      PROVE  WalkOK([walk EXCEPT !.out = Append(@, Yielded(walk, i))])
  <2> DEFINE e == Yielded(walk, i)
             out == Append(walk.out, e)
             n == Len(walk.out)
             b == [walk EXCEPT !.out = out]
  <2>1. i \in 1..Len(walk.from) /\ n \in Nat /\ n + 1 = i
    BY <1>0, <1>4
  <2>2. e = ExpectedOf(walk, i)
    <3>1. walk.values[i] = walk.from[i].value /\ i \in DOMAIN walk.values
      BY <1>0, <2>1 DEF ValuesIn
    <3>2. type = "dictionary" => walk.keys[i] = walk.from[i].key
      BY <1>0, <2>1 DEF KeysIn
    <3>3. Item(SnapshotOf(walk), i) = walk.from[i].value
      BY <3>1 DEF Item, SnapshotOf
    <3> DEFINE key == IF type = "dictionary" THEN walk.from[i].key ELSE i - 1
               value == walk.from[i].value
    <3>4. (IF type = "dictionary" THEN walk.keys[i] ELSE i - 1) = key
      BY <3>2
    <3> HIDE DEF key, value
    <3>5. e = CASE walk.method = "keys" -> key
                [] walk.method = "values" -> value
                [] walk.method = "entries" /\ type = "set" -> <<value, value>>
                [] OTHER -> <<key, value>>
      BY <3>3, <3>4, Zenon DEF Yielded, value
    <3>6. ExpectedOf(walk, i) = CASE walk.method = "keys" -> key
                [] walk.method = "values" -> value
                [] OTHER -> <<IF type = "set" THEN value ELSE key, value>>
      BY Zenon DEF ExpectedOf, key, value
    <3>7. CASE walk.method = "keys"
      BY <3>5, <3>6, <3>7
    <3>8. CASE walk.method = "values"
      BY <3>5, <3>6, <3>8
    <3>9. CASE walk.method = "entries"
      BY <3>5, <3>6, <3>9
    <3> QED  BY <3>7, <3>8, <3>9 DEF Methods
  <2>3. b = [f \in fields |-> b[f]]
    BY <1>1
  <2>4. /\ b.method = walk.method /\ b.keys = walk.keys /\ b.values = walk.values
        /\ b.size = walk.size /\ b.out = out /\ b.from = walk.from
    BY <1>1
  <2>5. b.begun
    BY <1>1
  <2>6. b.done = walk.done
    BY <1>1
  <2> HIDE DEF b
  <2>7. shaped(b)
    BY <1>2, <2>3
  <2>8. \A j : ExpectedOf(b, j) = ExpectedOf(walk, j)
    BY <2>4 DEF ExpectedOf
  <2>9. /\ walk.out = [j \in 1..n |-> walk.out[j]]
        /\ \A j \in 1..n : walk.out[j] = ExpectedOf(walk, j)
    BY <1>0
  <2> HIDE DEF e, n
  <2>10. /\ out = [j \in 1..(n + 1) |-> IF j = n + 1 THEN e ELSE walk.out[j]]
         /\ Len(out) = n + 1
    BY <2>1, <2>9, Appended
  <2>11. out = [j \in 1..Len(out) |-> ExpectedOf(b, j)]
    <3>1. \A j \in 1..(n + 1) : (IF j = n + 1 THEN e ELSE walk.out[j]) = ExpectedOf(b, j)
      BY <2>1, <2>2, <2>8, <2>9
    <3> HIDE DEF out
    <3> QED  BY <2>10, <3>1
  <2>12. StartIsKept(b)
    BY <1>0, <2>4, <2>5 DEF StartIsKept
  <2>13. Len(out) \in 0..Len(walk.from)
    BY <1>0, <2>1, <2>10
  <2> HIDE DEF out
  <2>14. b.method \in Methods
    BY <2>4
  <2>15. WalkOK(b)
    BY <2>4, <2>5, <2>6, <2>7, <2>11, <2>12, <2>13, <2>14 DEF WalkOK, Methods
  <2> QED  BY <2>15 DEF b, out, e
<1> QED  BY <1>3, <1>4

LEMMA WalksStep ==
  ASSUME WalksIInv, NEW w \in Walkers,
         \/ NextStep(w) \/ Break(w) \/ \E m \in Methods : Loop(w, m)
  PROVE  WalksIInv'
<1> DEFINE walk == walks[w]
<1>0. EntriesOK /\ WalkOK(walk) /\ DOMAIN walks = Walkers
  BY DEF WalksIInv
<1>1. UNCHANGED <<type, entries>>
  BY DEF NextStep, Break, Loop
<1>2. EntriesOK'
  BY <1>0, <1>1 DEF EntriesOK, IsOrdered, Possible, EntryKeys, Entry
<1>3. \A x : WalkOK(x)' <=> WalkOK(x)
  BY <1>1 DEF WalkOK, StartIsKept, ExpectedOf, Possible, EntryKeys, Entry, ValuesIn, KeysIn
<1>4. ASSUME NEW new, WalkOK(new), walks' = [walks EXCEPT ![w] = new] PROVE WalksIInv'
  <2>1. DOMAIN walks' = Walkers
    BY <1>0, <1>4
  <2>2. \A x \in Walkers : walks'[x] = IF x = w THEN new ELSE walks[x]
    BY <1>0, <1>4
  <2>3. \A x \in Walkers : WalkOK(walks'[x])
    BY <1>4, <2>2 DEF WalksIInv
  <2> QED  BY <1>2, <1>3, <2>1, <2>3 DEF WalksIInv
<1>5. CASE Break(w)
  <2>1. WalkOK(NotWalking)
    BY NewWalks DEF Methods
  <2> QED  BY <1>4, <1>5, <2>1 DEF Break
<1>6. ASSUME NEW m \in Methods, Loop(w, m) PROVE WalksIInv'
  <2>1. WalkOK(Unstarted(m))
    BY NewWalks
  <2> QED  BY <1>4, <1>6, <2>1 DEF Loop
<1>7. CASE NextStep(w)
  <2> DEFINE b == Begun(walk)
             i == Len(b.out) + 1
             new == IF i > b.size THEN [b EXCEPT !.done = TRUE]
                    ELSE [b EXCEPT !.out = Append(@, Yielded(b, i))]
  <2>1. ~walk.done /\ walks' = [walks EXCEPT ![w] = new]
    BY <1>7, Zenon DEF NextStep
  <2>2. WalkOK(b) /\ b.begun /\ ~b.done /\ b.method \in Methods
    BY <1>0, <2>1, WalkBegins
  <2> HIDE DEF b
  <2>3. /\ i > b.size => WalkOK([b EXCEPT !.done = TRUE])
        /\ ~(i > b.size) => WalkOK([b EXCEPT !.out = Append(@, Yielded(b, i))])
    BY <1>0, <2>2, WalkGoesOn
  <2>4. WalkOK(new)
    BY <2>3, Zenon
  <2> HIDE DEF new
  <2> QED  BY <1>4, <2>1, <2>4
<1> QED  BY <1>5, <1>6, <1>7

(* What is inserted and removed keeps the elements elements.               *)
LEMMA Splicing ==
  ASSUME NEW S, NEW s \in Seq(S)
  PROVE  /\ \A i \in 1..(Len(s) + 1), e \in S : InsertAt(s, i, e) \in Seq(S)
         /\ \A i \in 1..Len(s) : RemoveAt(s, i) \in Seq(S)
<1>0. Len(s) \in Nat /\ \A i \in 1..Len(s) : s[i] \in S
  BY LenProperties, ElementOfSeq
<1>1. ASSUME NEW m \in 1..(Len(s) + 2), NEW n \in 0..Len(s) PROVE SubSeq(s, m, n) \in Seq(S)
  <2>1. m \in Int /\ n \in Int /\ \A i \in m..n : i \in 1..Len(s)
    BY <1>0
  <2>2. \A i \in m..n : s[i] \in S
    BY <1>0, <2>1
  <2> QED  BY <2>1, <2>2, SubSeqProperties
<1>2. ASSUME NEW i \in 1..(Len(s) + 1), NEW e \in S PROVE InsertAt(s, i, e) \in Seq(S)
  <2> DEFINE a == SubSeq(s, 1, i - 1)
             b == SubSeq(s, i, Len(s))
             m == <<e>>
  <2>1. 1 \in 1..(Len(s) + 2) /\ i - 1 \in 0..Len(s) /\ i \in 1..(Len(s) + 2) /\ Len(s) \in 0..Len(s)
    BY <1>0
  <2>2. a \in Seq(S) /\ b \in Seq(S) /\ m \in Seq(S)
    BY <1>1, <2>1
  <2> HIDE DEF a, b, m
  <2>3. a \o m \in Seq(S)
    BY <2>2, ConcatProperties
  <2>4. (a \o m) \o b \in Seq(S)
    BY <2>2, <2>3, ConcatProperties
  <2> QED  BY <2>4 DEF InsertAt, a, b, m
<1>3. ASSUME NEW i \in 1..Len(s) PROVE RemoveAt(s, i) \in Seq(S)
  <2> DEFINE a == SubSeq(s, 1, i - 1)
             b == SubSeq(s, i + 1, Len(s))
  <2>1. 1 \in 1..(Len(s) + 2) /\ i - 1 \in 0..Len(s) /\ i + 1 \in 1..(Len(s) + 2) /\ Len(s) \in 0..Len(s)
    BY <1>0
  <2>2. a \in Seq(S) /\ b \in Seq(S)
    BY <1>1, <2>1
  <2> HIDE DEF a, b
  <2>3. a \o b \in Seq(S)
    BY <2>2, ConcatProperties
  <2> QED  BY <2>3 DEF RemoveAt, a, b
<1> QED  BY <1>2, <1>3

LEMMA ChangesStep ==
  ASSUME WalksIInv,
         \/ \E i \in 1..(Size + 1), k \in EntryKeys, v \in NullableNumbers : Inserted(i, k, v)
         \/ \E i \in DOMAIN entries : Removed(i) \/ \E v \in NullableNumbers : Replaced(i, v)
  PROVE  WalksIInv'
<1>0. EntriesOK /\ DOMAIN walks = Walkers /\ \A w \in Walkers : WalkOK(walks[w])
  BY DEF WalksIInv
<1>1. entries \in Seq(Possible) /\ DOMAIN entries = 1..Len(entries)
  BY <1>0, LenProperties DEF EntriesOK
<1>2. ASSUME NEW es \in Seq(Possible), Changed(es) PROVE WalksIInv'
  <2>1. UNCHANGED <<type, walks>> /\ entries' = es
    BY <1>2 DEF Changed
  <2>2. EntriesOK'
    BY <1>0, <1>2, <2>1 DEF Changed, EntriesOK, IsOrdered, Possible, EntryKeys, Entry
  <2>3. \A x : WalkOK(x)' <=> WalkOK(x)
    BY <2>1 DEF WalkOK, StartIsKept, ExpectedOf, Possible, EntryKeys, Entry, ValuesIn, KeysIn
  <2> QED  BY <1>0, <2>1, <2>2, <2>3 DEF WalksIInv
<1>3. ASSUME NEW i \in 1..(Size + 1), NEW k \in EntryKeys, NEW v \in NullableNumbers, Inserted(i, k, v)
      PROVE  WalksIInv'
  <2> DEFINE es == InsertAt(entries, i, Entry(k, v))
  <2>1. Entry(k, v) \in Possible
    BY DEF Possible
  <2>2. es \in Seq(Possible)
    BY <1>1, <2>1, Splicing DEF Size
  <2> HIDE DEF es
  <2>3. Changed(es)
    BY <1>3 DEF Inserted, es
  <2> QED  BY <1>2, <2>2, <2>3
<1>4. ASSUME NEW i \in DOMAIN entries, Removed(i) PROVE WalksIInv'
  <2> DEFINE es == RemoveAt(entries, i)
  <2>1. es \in Seq(Possible)
    BY <1>1, Splicing
  <2> HIDE DEF es
  <2>2. Changed(es)
    BY <1>4 DEF Removed, es
  <2> QED  BY <1>2, <2>1, <2>2
<1>5. ASSUME NEW i \in DOMAIN entries, NEW v \in NullableNumbers, Replaced(i, v) PROVE WalksIInv'
  <2> DEFINE e == [entries[i] EXCEPT !.value = v]
             es == [entries EXCEPT ![i] = e]
  <2>1. entries[i] \in Possible
    BY <1>1
  <2>2. e \in Possible
    BY <2>1 DEF Possible, Entry
  <2> HIDE DEF e
  <2>3. es \in Seq(Possible)
    BY <1>1, <2>2
  <2>4. Changed(es)
    BY <1>5, Zenon DEF Replaced, es, e
  <2> HIDE DEF es
  <2> QED  BY <1>2, <2>3, <2>4
<1> QED  BY <1>3, <1>4, <1>5

LEMMA ReadsInitially == ReadsInit => WalksIInv
<1> SUFFICES ASSUME ReadsInit PROVE WalksIInv
  OBVIOUS
<1>1. /\ type \in OrderedTypes \cup {"dictionary"} /\ IsOrdered(entries)
      /\ walks = [w \in Walkers |-> NotWalking]
  BY DEF ReadsInit
<1>2. PICK n \in 0..MaxSize : entries \in [1..n -> Possible]
  <2>1. entries \in BoundedSeq(Possible, MaxSize)
    BY DEF ReadsInit
  <2> QED  BY <2>1 DEF BoundedSeq, SeqOf
<1>3. EntriesOK
  BY <1>1, <1>2, ReadsAssumption DEF EntriesOK
<1>4. WalkOK(NotWalking)
  BY NewWalks DEF Methods
<1> QED  BY <1>1, <1>3, <1>4 DEF WalksIInv

LEMMA ReadsStep == WalksIInv /\ [ReadsNext]_readVars => WalksIInv'
<1> SUFFICES ASSUME WalksIInv, [ReadsNext]_readVars PROVE WalksIInv'
  OBVIOUS
<1>1. CASE UNCHANGED readVars
  <2>1. UNCHANGED <<type, entries, walks>>
    BY <1>1 DEF readVars
  <2>2. EntriesOK'
    BY <2>1 DEF WalksIInv, EntriesOK, IsOrdered, Possible, EntryKeys, Entry
  <2>3. \A x : WalkOK(x)' <=> WalkOK(x)
    BY <2>1 DEF WalkOK, StartIsKept, ExpectedOf, Possible, EntryKeys, Entry, ValuesIn, KeysIn
  <2> QED  BY <2>1, <2>2, <2>3 DEF WalksIInv
<1>2. CASE ReadsNext
  <2>1. ASSUME NEW w \in Walkers, NextStep(w) \/ Break(w) \/ \E m \in Methods : Loop(w, m)
        PROVE  WalksIInv'
    BY <2>1, WalksStep
  <2>2. ASSUME \/ \E i \in 1..(Size + 1), k \in EntryKeys, v \in NullableNumbers : Inserted(i, k, v)
               \/ \E i \in DOMAIN entries : Removed(i) \/ \E v \in NullableNumbers : Replaced(i, v)
        PROVE  WalksIInv'
    BY <2>2, ChangesStep
  <2> QED  BY <1>2, <2>1, <2>2, Zenon DEF ReadsNext
<1> QED  BY <1>1, <1>2

LEMMA LoopsSee == WalksIInv => LoopsSeeTheirStart
<1> SUFFICES ASSUME WalksIInv, NEW w \in Walkers
             PROVE  LET walk == walks[w] IN
                    /\ Len(walk.out) <= Len(walk.from)
                    /\ \A i \in DOMAIN walk.out : walk.out[i] = ExpectedOf(walk, i)
                    /\ walk.begun /\ walk.done => Len(walk.out) = Len(walk.from)
  BY Zenon DEF LoopsSeeTheirStart, ExpectedOf
<1> DEFINE walk == walks[w]
<1>1. WalkOK(walk)
  BY DEF WalksIInv
<1> HIDE DEF walk
<1>2. \A i \in DOMAIN walk.out : walk.out[i] = ExpectedOf(walk, i)
  <2> DEFINE n == Len(walk.out)
  <2>1. walk.out = [i \in 1..n |-> ExpectedOf(walk, i)]
    BY <1>1 DEF WalkOK
  <2> HIDE DEF n
  <2> QED  BY <2>1
<1>3. Len(walk.out) <= Len(walk.from)
  <2>1. walk.from \in Seq(Possible) /\ Len(walk.out) \in 0..Len(walk.from)
    BY <1>1 DEF WalkOK, StartIsKept
  <2> QED  BY <2>1
<1>4. walk.begun /\ walk.done => Len(walk.out) = Len(walk.from)
  BY <1>1 DEF WalkOK
<1> QED  BY <1>2, <1>3, <1>4 DEF walk

-----------------------------------------------------------------------------
(* Elements and their places                                               *)

LEMMA Spreading ==
  ASSUME EntriesOK
  PROVE  /\ Size \in 0..MaxSize /\ Size \in Nat /\ DOMAIN entries = 1..Size
         /\ Spread \in [1..Size -> NullableNumbers] /\ Spread \in Seq(NullableNumbers)
         /\ Len(Spread) = Size /\ DOMAIN Spread = 1..Size
         /\ \A i \in 1..Size : Spread[i] = entries[i].value
         /\ Absent \notin NullableNumbers /\ Stranger \notin NullableNumbers \cup {Absent}
<1>1. entries \in [1..Size -> Possible] /\ Size \in Nat /\ Size <= MaxSize /\ MaxSize \in Nat
  BY ReadsAssumption DEF EntriesOK, Size
<1>2. \A e \in Possible : e.value \in NullableNumbers
  BY DEF Possible, Entry
<1>3. \A i \in 1..Size : entries[i].value \in NullableNumbers
  BY <1>1, <1>2
<1>4. Spread = [i \in 1..Size |-> entries[i].value]
  BY <1>1 DEF Spread, ValuesIn
<1>5. Spread \in [1..Size -> NullableNumbers]
  BY <1>3, <1>4
<1>6. Spread \in Seq(NullableNumbers) /\ Len(Spread) = Size
  BY <1>1, <1>5
<1>7. Absent \notin NullableNumbers /\ Stranger \notin NullableNumbers \cup {Absent}
  BY ReadsAssumption DEF NullableNumbers
<1> QED  BY <1>1, <1>4, <1>5, <1>6, <1>7

LEMMA KeysRead ==
  ASSUME EntriesOK, type = "dictionary", NEW key
  PROVE  /\ DictionaryHasDescriptor(key) <=> key \in DictionaryOwnKeys
         /\ DictionaryHasDescriptor(key) <=> DictionaryGet(key) # Absent
<1> DEFINE found == {i \in DOMAIN entries : entries[i].key = key}
<1>1. DictionaryHasDescriptor(key) <=> key \in DictionaryOwnKeys
  BY DEF DictionaryHasDescriptor, DictionaryOwnKeys, ToSet, KeysIn
<1>2. DictionaryHasDescriptor(key) <=> found # {}
  BY DEF DictionaryHasDescriptor
<1>3. DictionaryGet(key) = IF found = {} THEN Absent ELSE entries[Min(found)].value
  BY DEF DictionaryGet
<1>4. found # {} => entries[Min(found)].value # Absent
  <2> SUFFICES ASSUME found # {} PROVE entries[Min(found)].value # Absent
    OBVIOUS
  <2>1. found \in SUBSET Nat /\ found \subseteq 1..Size
    BY Spreading
  <2> HIDE DEF found
  <2>2. Min(found) \in found
    BY <2>1, Least DEF Min
  <2>3. Spread[Min(found)] = entries[Min(found)].value /\ Spread[Min(found)] \in NullableNumbers
    BY <2>1, <2>2, Spreading
  <2> QED  BY <2>3, Spreading
<1> HIDE DEF found
<1> QED  BY <1>1, <1>2, <1>3, <1>4

LEMMA PlacesRead == EntriesOK => PlacesAgree
<1> SUFFICES ASSUME EntriesOK PROVE PlacesAgree
  OBVIOUS
<1>0. /\ Size \in Nat /\ DOMAIN Spread = 1..Size /\ Absent \notin NullableNumbers
      /\ \A i \in 1..Size : Spread[i] \in NullableNumbers
  BY Spreading
<1>1. ASSUME NEW index \in 0..MaxSize
      PROVE  /\ ProxyGet(index) = At(index)
             /\ index \in OwnKeys <=> HasDescriptor(index)
             /\ index \in OwnKeys <=> ProxyGet(index) # Absent
             /\ index < Size => At(index - Size) = ProxyGet(index)
  <2>1. index \in Nat
    BY ReadsAssumption
  <2>2. index \in OwnKeys <=> HasDescriptor(index)
    BY <1>0, <2>1 DEF OwnKeys, HasDescriptor
  <2>3. CASE index < Size
    <3>1. index + 1 \in 1..Size /\ ~(index < 0) /\ index - Size < 0 /\ Size + (index - Size) + 1 = index + 1
      BY <1>0, <2>1, <2>3
    <3>2. ProxyGet(index) = Spread[index + 1] /\ Spread[index + 1] # Absent
      BY <1>0, <2>1, <2>3, <3>1 DEF ProxyGet
    <3>3. At(index) = Spread[index + 1] /\ At(index - Size) = Spread[index + 1]
      BY <1>0, <3>1 DEF At, Item
    <3> QED  BY <2>2, <2>3, <3>2, <3>3 DEF HasDescriptor
  <2>4. CASE ~(index < Size)
    <3>1. index + 1 \notin 1..Size /\ ~(index < 0)
      BY <1>0, <2>1, <2>4
    <3>2. ProxyGet(index) = Absent
      BY <2>4 DEF ProxyGet
    <3>3. At(index) = Absent
      BY <1>0, <3>1 DEF At, Item
    <3> QED  BY <2>2, <2>4, <3>2, <3>3 DEF HasDescriptor
  <2> QED  BY <2>3, <2>4
<1>2. IsEmpty <=> OwnKeys = {}
  BY <1>0 DEF IsEmpty, OwnKeys
<1> QED  BY <1>1, <1>2 DEF PlacesAgree

(* What is searched for is found in some place, or in none: the first from *)
(* either end.                                                             *)
LEMMA Places ==
  ASSUME EntriesOK, NEW found \in SUBSET (1..Size), found # {}
  PROVE  /\ Min(found) \in found /\ Max(found) \in found
         /\ Min(found) - 1 # NotFound /\ Max(found) - 1 # NotFound
<1>1. Size \in Nat
  BY Spreading
<1>2. found \in SUBSET Nat /\ found \in SUBSET (0..Size)
  BY <1>1
<1>3. Min(found) \in found
  BY <1>2, Least DEF Min
<1>4. Max(found) \in found
  BY <1>1, <1>2, Greatest DEF Max
<1>5. Min(found) \in Nat /\ Min(found) >= 1 /\ Max(found) \in Nat /\ Max(found) >= 1
  <2>1. \A x \in 1..Size : x \in Nat /\ x >= 1
    BY <1>1
  <2>2. Min(found) \in 1..Size /\ Max(found) \in 1..Size
    BY <1>3, <1>4
  <2> QED  BY <2>1, <2>2
<1> QED  BY <1>3, <1>4, <1>5 DEF NotFound

LEMMA LastPlace ==
  ASSUME NEW array, NEW v, NEW from \in Int
  PROVE  ArrayLastIndexOf(array, v, <<from>>) =
           LET start == IF from < 0 THEN Len(array) + from ELSE from
               found == {i \in DOMAIN array : array[i] = v /\ i - 1 <= start}
           IN IF found = {} THEN NotFound ELSE Max(found) - 1
<1> DEFINE args == <<from>>
           start == IF from < 0 THEN Len(array) + from ELSE from
           chosen == CASE args = <<>> -> Len(array) - 1
                       [] args = <<Absent>> -> 0
                       [] OTHER -> IF args[1] < 0 THEN Len(array) + args[1] ELSE args[1]
<1>1. args # <<>> /\ args[1] = from
  OBVIOUS
<1>2. args # <<Absent>>
  <2>1. from # Absent
    BY ReadsAssumption
  <2> QED  BY <2>1
<1> HIDE DEF args
<1>3. chosen = start
  BY <1>1, <1>2
<1>4. ArrayLastIndexOf(array, v, args) =
        LET found == {i \in DOMAIN array : array[i] = v /\ i - 1 <= chosen}
        IN IF found = {} THEN NotFound ELSE Max(found) - 1
  BY Zenon DEF ArrayLastIndexOf
<1> HIDE DEF chosen, start
<1> QED  BY <1>3, <1>4 DEF args, start

LEMMA SearchesRead ==
  ASSUME EntriesOK, type \in OrderedTypes
  PROVE  SearchesAgree
<1> SUFFICES ASSUME NEW v \in NullableNumbers \cup {Stranger}
             PROVE  /\ IndexOf(v) = FindIndex({v})
                    /\ Includes(v) <=> LastIndexOf(v, MaxSize) # NotFound
                    /\ LastIndexOf(v, -1) = LastIndexOf(v, MaxSize)
                    /\ Has(v) <=> Find({v}) = v
                    /\ IndexOf(v) # NotFound => ProxyGet(IndexOf(v)) = v
                    /\ type = "set" => IndexOf(v) = LastIndexOf(v, MaxSize)
  BY DEF SearchesAgree
<1> DEFINE found == {i \in 1..Size : Spread[i] = v}
<1>0. /\ Size \in Nat /\ Size <= MaxSize /\ MaxSize \in Nat
      /\ DOMAIN Spread = 1..Size /\ DOMAIN entries = 1..Size /\ Len(Spread) = Size
      /\ \A i \in 1..Size : Spread[i] \in NullableNumbers /\ Spread[i] = entries[i].value
      /\ Absent \notin NullableNumbers /\ Stranger \notin NullableNumbers \cup {Absent}
  BY Spreading, ReadsAssumption
<1>1. IndexOf(v) = IF found = {} THEN NotFound ELSE Min(found) - 1
  <2>1. CASE v = Stranger
    BY <1>0, <2>1 DEF IndexOf
  <2>2. CASE v # Stranger
    <3>1. SearchedFor(v) = v
      BY <1>0, <2>2 DEF SearchedFor
    <3>2. {i \in DOMAIN entries : entries[i].value = SearchedFor(v)} = found
      BY <1>0, <3>1
    <3> HIDE DEF found
    <3> QED  BY <2>2, <3>2, Zenon DEF IndexOf
  <2> QED  BY <2>1, <2>2
<1>2. FindIndex({v}) = IF found = {} THEN NotFound ELSE Min(found) - 1
  <2>1. {i \in DOMAIN Spread : Spread[i] \in {v}} = found
    BY <1>0
  <2>2. SomeOf({v}) <=> found # {}
    BY <1>0 DEF SomeOf
  <2> HIDE DEF found
  <2> QED  BY <2>1, <2>2, Zenon DEF FindIndex
<1>3. ASSUME NEW from \in {MaxSize, -1}
      PROVE  LastIndexOf(v, from) = IF found = {} THEN NotFound ELSE Max(found) - 1
  <2> DEFINE start == IF from < 0 THEN Len(Spread) + from ELSE from
             within == {i \in DOMAIN Spread : Spread[i] = v /\ i - 1 <= start}
  <2>1. from \in Int
    BY <1>0
  <2>2. start \in Int /\ start >= Size - 1
    BY <1>0
  <2> HIDE DEF start
  <2>3. \A i \in 1..Size : i - 1 <= start
    BY <1>0, <2>2
  <2>4. within = found
    BY <1>0, <2>3
  <2>5. ArrayLastIndexOf(Spread, v, <<from>>) =
          IF within = {} THEN NotFound ELSE Max(within) - 1
    BY <2>1, LastPlace DEF start
  <2> HIDE DEF within, found
  <2> QED  BY <2>4, <2>5 DEF LastIndexOf
<1>4. found \in SUBSET (1..Size)
  OBVIOUS
<1>5. found # {} => /\ Min(found) \in found /\ Max(found) \in found
                    /\ Min(found) - 1 # NotFound /\ Max(found) - 1 # NotFound
  <2> HIDE DEF found
  <2> QED  BY <1>4, Places
<1>6. \A i \in found : i \in 1..Size /\ i \in Nat /\ i >= 1 /\ Spread[i] = v
  BY <1>0
<1>7. SomeOf({v}) <=> found # {}
  BY <1>0 DEF SomeOf
<1>8. type = "set" => \A i, j \in found : i = j
  <2> SUFFICES ASSUME type = "set", NEW i \in found, NEW j \in found, i # j PROVE FALSE
    OBVIOUS
  <2>1. i \in DOMAIN entries /\ j \in DOMAIN entries /\ entries[i].value = entries[j].value
    BY <1>0
  <2>2. entries[i] \in Possible /\ entries[j] \in Possible
    BY <2>1 DEF EntriesOK
  <2>3. \A e \in Possible : e = [key |-> Absent, value |-> e.value]
    BY DEF Possible, Entry, EntryKeys
  <2>4. entries[i] = entries[j]
    BY <2>1, <2>2, <2>3
  <2> QED  BY <2>1, <2>4 DEF EntriesOK, IsOrdered
<1> HIDE DEF found
<1>9. IndexOf(v) = FindIndex({v})
  BY <1>1, <1>2
<1>10. Includes(v) <=> LastIndexOf(v, MaxSize) # NotFound
  BY <1>1, <1>3, <1>5 DEF Includes
<1>11. LastIndexOf(v, -1) = LastIndexOf(v, MaxSize)
  BY <1>3
<1>12. Has(v) <=> Find({v}) = v
  <2>1. CASE found = {}
    BY <1>0, <1>1, <1>7, <2>1 DEF Has, Includes, Find
  <2>2. CASE found # {}
    <3> DEFINE m == Min(found)
    <3>1. m \in Nat /\ Spread[m] = v /\ (m - 1) + 1 = m
      BY <1>5, <1>6, <2>2
    <3>2. FindIndex({v}) = m - 1
      BY <1>2, <2>2
    <3>3. Find({v}) = Spread[FindIndex({v}) + 1]
      BY <1>7, <2>2 DEF Find
    <3>4. Has(v)
      BY <1>1, <1>5, <2>2 DEF Has, Includes
    <3> HIDE DEF m
    <3> QED  BY <3>1, <3>2, <3>3, <3>4
  <2> QED  BY <2>1, <2>2
<1>13. IndexOf(v) # NotFound => ProxyGet(IndexOf(v)) = v
  <2> SUFFICES ASSUME IndexOf(v) # NotFound PROVE ProxyGet(IndexOf(v)) = v
    OBVIOUS
  <2> DEFINE m == Min(found)
  <2>1. IndexOf(v) = m - 1 /\ found # {}
    BY <1>1
  <2>2. m \in 1..Size /\ Spread[m] = v
    BY <1>5, <1>6, <2>1
  <2> HIDE DEF m
  <2>3. m - 1 >= 0 /\ m - 1 < Size /\ (m - 1) + 1 = m
    BY <1>0, <2>2
  <2> QED  BY <2>1, <2>2, <2>3 DEF ProxyGet
<1>14. type = "set" => IndexOf(v) = LastIndexOf(v, MaxSize)
  <2> SUFFICES ASSUME type = "set" PROVE IndexOf(v) = LastIndexOf(v, MaxSize)
    OBVIOUS
  <2>1. found # {} => Min(found) = Max(found)
    BY <1>5, <1>8
  <2> QED  BY <1>1, <1>3, <2>1
<1> QED  BY <1>9, <1>10, <1>11, <1>12, <1>13, <1>14

-----------------------------------------------------------------------------
(* The methods of arrays                                                   *)

(* The loops of the array's methods, one element at a time.                *)
Kept(pred, v, seq) == IF v \in pred THEN Append(seq, v) ELSE seq

LEMMA Filtering ==
  ASSUME EntriesOK, NEW pred
  PROVE  \E after :
           /\ after[0] = <<>>
           /\ \A n \in 1..Size : after[n] = Kept(pred, Spread[n], after[n - 1])
           /\ Filter(pred) = after[Size]
<1> DEFINE V == Seq(NullableNumbers)
           step == [x \in V \X (1..Size) |-> Kept(pred, Spread[x[2]], x[1])]
           body(f) == [n \in 0..Size |->
                         IF n = 0 THEN <<>>
                         ELSE IF Spread[n] \in pred THEN Append(f[n - 1], Spread[n]) ELSE f[n - 1]]
           after == CHOOSE f : f = body(f)
<1>0. Size \in Nat /\ \A i \in 1..Size : Spread[i] \in NullableNumbers
  BY Spreading
<1>1. <<>> \in V
  OBVIOUS
<1>2. step \in [V \X (1..Size) -> V]
  <2> SUFFICES ASSUME NEW x \in V \X (1..Size) PROVE Kept(pred, Spread[x[2]], x[1]) \in V
    OBVIOUS
  <2>1. x[1] \in V /\ Spread[x[2]] \in NullableNumbers
    BY <1>0
  <2> QED  BY <2>1 DEF Kept
<1>3. PICK f : Runs(f, Size, V, <<>>, step)
  <2> DEFINE n == Size
             start == <<>>
  <2>1. n \in Nat /\ start \in V /\ step \in [V \X (1..n) -> V]
    BY <1>0, <1>1, <1>2
  <2> HIDE DEF V, step, n, start
  <2>2. \E f : Runs(f, n, V, start, step)
    BY <2>1, LoopRuns
  <2> QED  BY <2>2 DEF n, start
<1>4. \A i \in 1..Size : f[i] = Kept(pred, Spread[i], f[i - 1])
  <2> SUFFICES ASSUME NEW i \in 1..Size PROVE f[i] = Kept(pred, Spread[i], f[i - 1])
    OBVIOUS
  <2>1. f[i - 1] \in V
    BY <1>0, <1>3 DEF Runs
  <2>2. step[<<f[i - 1], i>>] = Kept(pred, Spread[i], f[i - 1])
    BY <2>1
  <2> QED  BY <1>3, <2>2 DEF Runs
<1>5. f = body(f)
  <2>1. \A n \in 0..Size : n # 0 => n \in 1..Size
    BY <1>0
  <2>2. \A n \in 0..Size :
          f[n] = IF n = 0 THEN <<>>
                 ELSE IF Spread[n] \in pred THEN Append(f[n - 1], Spread[n]) ELSE f[n - 1]
    BY <1>3, <1>4, <2>1 DEF Runs, Kept
  <2>3. f = [n \in 0..Size |-> f[n]]
    <3>1. f \in [0..Size -> V]
      BY <1>3 DEF Runs
    <3> HIDE DEF V
    <3> QED  BY <3>1
  <2> QED  BY <2>2, <2>3, Zenon
<1>6. after = body(after)
  <2> HIDE DEF body
  <2> QED  BY <1>5, Zenon
<1>7. after[0] = <<>> /\ \A n \in 1..Size : after[n] = Kept(pred, Spread[n], after[n - 1])
  <2>0. 0 \in 0..Size /\ \A n \in 1..Size : n \in 0..Size /\ n # 0
    BY <1>0
  <2> HIDE DEF after
  <2> QED  BY <1>6, <2>0 DEF Kept
<1>8. Filter(pred) = after[Size]
  BY Zenon DEF Filter
<1> HIDE DEF after
<1> QED  BY <1>7, <1>8

LEMMA FlatMapping ==
  ASSUME EntriesOK, NEW map, map \in [NullableNumbers -> Seq(NullableNumbers)]
  PROVE  \E after :
           /\ after[0] = <<>>
           /\ \A n \in 1..Size : after[n] = after[n - 1] \o map[Spread[n]]
           /\ FlatMap(map) = after[Size]
<1> DEFINE V == Seq(NullableNumbers)
           step == [x \in V \X (1..Size) |-> x[1] \o map[Spread[x[2]]]]
           body(f) == [n \in 0..Size |-> IF n = 0 THEN <<>> ELSE f[n - 1] \o map[Spread[n]]]
           after == CHOOSE f : f = body(f)
<1>0. Size \in Nat /\ \A i \in 1..Size : Spread[i] \in NullableNumbers /\ Spread[Size - i + 1] \in NullableNumbers
  <2>1. Size \in Nat /\ \A i \in 1..Size : Spread[i] \in NullableNumbers
    BY Spreading
  <2>2. \A i \in 1..Size : Size - i + 1 \in 1..Size
    BY <2>1
  <2> QED  BY <2>1, <2>2
<1>1. <<>> \in V
  OBVIOUS
<1>2. step \in [V \X (1..Size) -> V]
  <2> SUFFICES ASSUME NEW x \in V \X (1..Size) PROVE x[1] \o map[Spread[x[2]]] \in V
    OBVIOUS
  <2>1. x[1] \in V /\ x[2] \in 1..Size /\ Spread[x[2]] \in NullableNumbers /\ Spread[Size - x[2] + 1] \in NullableNumbers
    BY <1>0
  <2> QED  BY <2>1, ConcatProperties
<1>3. PICK f : Runs(f, Size, V, <<>>, step)
  <2> DEFINE n == Size
             start == <<>>
  <2>1. n \in Nat /\ start \in V /\ step \in [V \X (1..n) -> V]
    BY <1>0, <1>1, <1>2
  <2> HIDE DEF V, step, n, start
  <2>2. \E f : Runs(f, n, V, start, step)
    BY <2>1, LoopRuns
  <2> QED  BY <2>2 DEF n, start
<1>4. \A i \in 1..Size : f[i] = f[i - 1] \o map[Spread[i]]
  <2> SUFFICES ASSUME NEW i \in 1..Size PROVE f[i] = f[i - 1] \o map[Spread[i]]
    OBVIOUS
  <2>1. f[i - 1] \in V
    BY <1>0, <1>3 DEF Runs
  <2>2. step[<<f[i - 1], i>>] = f[i - 1] \o map[Spread[i]]
    BY <2>1
  <2> QED  BY <1>3, <2>2 DEF Runs
<1>5. f = body(f)
  <2>1. \A n \in 0..Size : n # 0 => n \in 1..Size
    BY <1>0
  <2>2. \A n \in 0..Size : f[n] = IF n = 0 THEN <<>> ELSE f[n - 1] \o map[Spread[n]]
    BY <1>3, <1>4, <2>1 DEF Runs
  <2>3. f = [n \in 0..Size |-> f[n]]
    <3>1. f \in [0..Size -> V]
      BY <1>3 DEF Runs
    <3> HIDE DEF V
    <3> QED  BY <3>1
  <2> QED  BY <2>2, <2>3, Zenon
<1>6. after = body(after)
  <2> HIDE DEF body
  <2> QED  BY <1>5, Zenon
<1>7. after[0] = <<>> /\ \A n \in 1..Size : after[n] = after[n - 1] \o map[Spread[n]]
  <2>0. 0 \in 0..Size /\ \A n \in 1..Size : n \in 0..Size /\ n # 0
    BY <1>0
  <2> HIDE DEF after
  <2> QED  BY <1>6, <2>0
<1>8. FlatMap(map) = after[Size]
  BY Zenon DEF FlatMap
<1> HIDE DEF after
<1> QED  BY <1>7, <1>8

LEMMA Reducing ==
  ASSUME EntriesOK, NEW x0 \in NullableNumbers
  PROVE  \E after :
           /\ after[0] = <<x0>>
           /\ \A n \in 1..Size : after[n] = Append(after[n - 1], Spread[n])
           /\ Reduce(x0) = after[Size]
<1> DEFINE V == Seq(NullableNumbers)
           step == [x \in V \X (1..Size) |-> Append(x[1], Spread[x[2]])]
           body(f) == [n \in 0..Size |-> IF n = 0 THEN <<x0>> ELSE Append(f[n - 1], Spread[n])]
           after == CHOOSE f : f = body(f)
<1>0. Size \in Nat /\ \A i \in 1..Size : Spread[i] \in NullableNumbers /\ Spread[Size - i + 1] \in NullableNumbers
  <2>1. Size \in Nat /\ \A i \in 1..Size : Spread[i] \in NullableNumbers
    BY Spreading
  <2>2. \A i \in 1..Size : Size - i + 1 \in 1..Size
    BY <2>1
  <2> QED  BY <2>1, <2>2
<1>1. <<x0>> \in V
  OBVIOUS
<1>2. step \in [V \X (1..Size) -> V]
  <2> SUFFICES ASSUME NEW x \in V \X (1..Size) PROVE Append(x[1], Spread[x[2]]) \in V
    OBVIOUS
  <2>1. x[1] \in V /\ x[2] \in 1..Size /\ Spread[x[2]] \in NullableNumbers /\ Spread[Size - x[2] + 1] \in NullableNumbers
    BY <1>0
  <2> QED  BY <2>1
<1>3. PICK f : Runs(f, Size, V, <<x0>>, step)
  <2> DEFINE n == Size
             start == <<x0>>
  <2>1. n \in Nat /\ start \in V /\ step \in [V \X (1..n) -> V]
    BY <1>0, <1>1, <1>2
  <2> HIDE DEF V, step, n, start
  <2>2. \E f : Runs(f, n, V, start, step)
    BY <2>1, LoopRuns
  <2> QED  BY <2>2 DEF n, start
<1>4. \A i \in 1..Size : f[i] = Append(f[i - 1], Spread[i])
  <2> SUFFICES ASSUME NEW i \in 1..Size PROVE f[i] = Append(f[i - 1], Spread[i])
    OBVIOUS
  <2>1. f[i - 1] \in V
    BY <1>0, <1>3 DEF Runs
  <2>2. step[<<f[i - 1], i>>] = Append(f[i - 1], Spread[i])
    BY <2>1
  <2> QED  BY <1>3, <2>2 DEF Runs
<1>5. f = body(f)
  <2>1. \A n \in 0..Size : n # 0 => n \in 1..Size
    BY <1>0
  <2>2. \A n \in 0..Size : f[n] = IF n = 0 THEN <<x0>> ELSE Append(f[n - 1], Spread[n])
    BY <1>3, <1>4, <2>1 DEF Runs
  <2>3. f = [n \in 0..Size |-> f[n]]
    <3>1. f \in [0..Size -> V]
      BY <1>3 DEF Runs
    <3> HIDE DEF V
    <3> QED  BY <3>1
  <2> QED  BY <2>2, <2>3, Zenon
<1>6. after = body(after)
  <2> HIDE DEF body
  <2> QED  BY <1>5, Zenon
<1>7. after[0] = <<x0>> /\ \A n \in 1..Size : after[n] = Append(after[n - 1], Spread[n])
  <2>0. 0 \in 0..Size /\ \A n \in 1..Size : n \in 0..Size /\ n # 0
    BY <1>0
  <2> HIDE DEF after
  <2> QED  BY <1>6, <2>0
<1>8. Reduce(x0) = after[Size]
  BY Zenon DEF Reduce
<1> HIDE DEF after
<1> QED  BY <1>7, <1>8

LEMMA ReducingRight ==
  ASSUME EntriesOK, NEW x0 \in NullableNumbers
  PROVE  \E after :
           /\ after[0] = <<x0>>
           /\ \A n \in 1..Size : after[n] = Append(after[n - 1], Spread[Size - n + 1])
           /\ ReduceRight(x0) = after[Size]
<1> DEFINE V == Seq(NullableNumbers)
           step == [x \in V \X (1..Size) |-> Append(x[1], Spread[Size - x[2] + 1])]
           body(f) == [n \in 0..Size |-> IF n = 0 THEN <<x0>> ELSE Append(f[n - 1], Spread[Size - n + 1])]
           after == CHOOSE f : f = body(f)
<1>0. Size \in Nat /\ \A i \in 1..Size : Spread[i] \in NullableNumbers /\ Spread[Size - i + 1] \in NullableNumbers
  <2>1. Size \in Nat /\ \A i \in 1..Size : Spread[i] \in NullableNumbers
    BY Spreading
  <2>2. \A i \in 1..Size : Size - i + 1 \in 1..Size
    BY <2>1
  <2> QED  BY <2>1, <2>2
<1>1. <<x0>> \in V
  OBVIOUS
<1>2. step \in [V \X (1..Size) -> V]
  <2> SUFFICES ASSUME NEW x \in V \X (1..Size) PROVE Append(x[1], Spread[Size - x[2] + 1]) \in V
    OBVIOUS
  <2>1. x[1] \in V /\ x[2] \in 1..Size /\ Spread[x[2]] \in NullableNumbers /\ Spread[Size - x[2] + 1] \in NullableNumbers
    BY <1>0
  <2> QED  BY <2>1
<1>3. PICK f : Runs(f, Size, V, <<x0>>, step)
  <2> DEFINE n == Size
             start == <<x0>>
  <2>1. n \in Nat /\ start \in V /\ step \in [V \X (1..n) -> V]
    BY <1>0, <1>1, <1>2
  <2> HIDE DEF V, step, n, start
  <2>2. \E f : Runs(f, n, V, start, step)
    BY <2>1, LoopRuns
  <2> QED  BY <2>2 DEF n, start
<1>4. \A i \in 1..Size : f[i] = Append(f[i - 1], Spread[Size - i + 1])
  <2> SUFFICES ASSUME NEW i \in 1..Size PROVE f[i] = Append(f[i - 1], Spread[Size - i + 1])
    OBVIOUS
  <2>1. f[i - 1] \in V
    BY <1>0, <1>3 DEF Runs
  <2>2. step[<<f[i - 1], i>>] = Append(f[i - 1], Spread[Size - i + 1])
    BY <2>1
  <2> QED  BY <1>3, <2>2 DEF Runs
<1>5. f = body(f)
  <2>1. \A n \in 0..Size : n # 0 => n \in 1..Size
    BY <1>0
  <2>2. \A n \in 0..Size : f[n] = IF n = 0 THEN <<x0>> ELSE Append(f[n - 1], Spread[Size - n + 1])
    BY <1>3, <1>4, <2>1 DEF Runs
  <2>3. f = [n \in 0..Size |-> f[n]]
    <3>1. f \in [0..Size -> V]
      BY <1>3 DEF Runs
    <3> HIDE DEF V
    <3> QED  BY <3>1
  <2> QED  BY <2>2, <2>3, Zenon
<1>6. after = body(after)
  <2> HIDE DEF body
  <2> QED  BY <1>5, Zenon
<1>7. after[0] = <<x0>> /\ \A n \in 1..Size : after[n] = Append(after[n - 1], Spread[Size - n + 1])
  <2>0. 0 \in 0..Size /\ \A n \in 1..Size : n \in 0..Size /\ n # 0
    BY <1>0
  <2> HIDE DEF after
  <2> QED  BY <1>6, <2>0
<1>8. ReduceRight(x0) = after[Size]
  BY Zenon DEF ReduceRight
<1> HIDE DEF after
<1> QED  BY <1>7, <1>8

(* What a predicate keeps is everything only if nothing is refused.        *)
LEMMA EveryKeptAll ==
  ASSUME EntriesOK, NEW pred, Every(pred)
  PROVE  Filter(pred) = Sliced(0, Size)
<1> DEFINE n == Size
<1>0. n \in Nat /\ Spread \in Seq(NullableNumbers) /\ Len(Spread) = n
  BY Spreading
<1>1. PICK after : /\ after[0] = <<>>
                   /\ \A i \in 1..n : after[i] = Kept(pred, Spread[i], after[i - 1])
                   /\ Filter(pred) = after[n]
  BY Filtering
<1> HIDE DEF n
<1> DEFINE T == {i \in 0..n : after[i] = SubSeq(Spread, 1, i)}
<1>2. 0 \in T
  <2>1. SubSeq(Spread, 1, 0) = <<>>
    BY <1>0, SubSeqEmpty
  <2>2. after[0] = SubSeq(Spread, 1, 0)
    BY <1>1, <2>1, Zenon
  <2>3. 0 \in 0..n
    BY <1>0
  <2> QED  BY <2>2, <2>3, Zenon
<1>3. \A i \in 1..n : i - 1 \in T => i \in T
  <2> SUFFICES ASSUME NEW i \in 1..n, i - 1 \in T PROVE i \in T
    OBVIOUS
  <2>1. Spread[i] \in pred
    BY <1>0 DEF Every
  <2>2. after[i] = Append(SubSeq(Spread, 1, i - 1), Spread[i])
    BY <1>1, <2>1 DEF Kept
  <2>3. SubSeq(Spread, 1, i) = Append(SubSeq(Spread, 1, i - 1), Spread[i])
    BY <1>0
  <2>4. after[i] = SubSeq(Spread, 1, i) /\ i \in 0..n
    BY <1>0, <2>2, <2>3
  <2> QED  BY <2>4, Zenon
<1>4. 0..n \subseteq T
  <2> HIDE DEF T
  <2> QED  BY <1>0, <1>2, <1>3, EveryStep
<1>5. Filter(pred) = SubSeq(Spread, 1, n)
  BY <1>0, <1>1, <1>4
<1> QED  BY <1>5 DEF Sliced, n

LEMMA KeptAllEvery ==
  ASSUME EntriesOK, NEW pred, Filter(pred) = Sliced(0, Size)
  PROVE  Every(pred)
<1> DEFINE n == Size
<1>0. n \in Nat /\ Spread \in Seq(NullableNumbers) /\ Len(Spread) = n
  BY Spreading
<1>1. PICK after : /\ after[0] = <<>>
                   /\ \A i \in 1..n : after[i] = Kept(pred, Spread[i], after[i - 1])
                   /\ Filter(pred) = after[n]
  BY Filtering
<1>a. Filter(pred) = SubSeq(Spread, 1, n)
  BY DEF Sliced
<1> HIDE DEF n
<1> DEFINE T == {i \in 0..n : after[i] \in Seq(pred)}
<1>2. 0 \in T
  <2>1. 0 \in 0..n /\ <<>> \in Seq(pred)
    BY <1>0
  <2>2. after[0] \in Seq(pred)
    BY <1>1, <2>1, Zenon
  <2> QED  BY <2>1, <2>2, Zenon
<1>3. \A i \in 1..n : i - 1 \in T => i \in T
  <2> SUFFICES ASSUME NEW i \in 1..n, i - 1 \in T PROVE i \in T
    OBVIOUS
  <2>1. after[i - 1] \in Seq(pred)
    OBVIOUS
  <2>2. after[i] \in Seq(pred)
    <3>1. Spread[i] \in pred => Append(after[i - 1], Spread[i]) \in Seq(pred)
      BY <2>1
    <3> QED  BY <1>1, <2>1, <3>1, Zenon DEF Kept
  <2>3. i \in 0..n
    BY <1>0
  <2> QED  BY <2>2, <2>3
<1>4. 0..n \subseteq T
  <2> HIDE DEF T
  <2> QED  BY <1>0, <1>2, <1>3, EveryStep
<1>5. SubSeq(Spread, 1, n) \in Seq(pred)
  <2>1. n \in T
    BY <1>0, <1>4
  <2>2. after[n] \in Seq(pred)
    BY <2>1, Zenon
  <2> QED  BY <1>1, <2>2, <1>a, Zenon
<1>6. SubSeq(Spread, 1, n) = Spread
  BY <1>0, SubSeqFull
<1>7. Spread \in Seq(pred)
  BY <1>5, <1>6
<1> QED  BY <1>7, <1>0 DEF Every

(* To map onto one element or none is to filter.                           *)
LEMMA FlatMapFilters ==
  ASSUME EntriesOK, NEW pred \in SUBSET NullableNumbers
  PROVE  FlatMap([v \in NullableNumbers |-> IF v \in pred THEN <<v>> ELSE <<>>]) = Filter(pred)
<1> DEFINE n == Size
           map == [v \in NullableNumbers |-> IF v \in pred THEN <<v>> ELSE <<>>]
<1>0. /\ n \in Nat /\ Spread \in Seq(NullableNumbers) /\ Len(Spread) = n
      /\ \A i \in 1..n : Spread[i] \in NullableNumbers
  BY Spreading
<1>1. PICK after : /\ after[0] = <<>>
                   /\ \A i \in 1..n : after[i] = Kept(pred, Spread[i], after[i - 1])
                   /\ Filter(pred) = after[n]
  BY Filtering
<1>m. map \in [NullableNumbers -> Seq(NullableNumbers)]
  OBVIOUS
<1>2. \E then : /\ then[0] = <<>>
                /\ \A i \in 1..n : then[i] = then[i - 1] \o map[Spread[i]]
                /\ FlatMap(map) = then[n]
  <2> HIDE DEF map
  <2> QED  BY <1>m, FlatMapping DEF n
<1>3. PICK then : /\ then[0] = <<>>
                  /\ \A i \in 1..n : then[i] = then[i - 1] \o map[Spread[i]]
                  /\ FlatMap(map) = then[n]
  <2> HIDE DEF map, n
  <2> QED  BY <1>2
<1> HIDE DEF n
<1> DEFINE T == {i \in 0..n : after[i] = then[i] /\ after[i] \in Seq(NullableNumbers)}
<1>4. 0 \in T
  <2>1. 0 \in 0..n /\ <<>> \in Seq(NullableNumbers)
    BY <1>0
  <2>2. after[0] = then[0] /\ after[0] \in Seq(NullableNumbers)
    BY <1>1, <1>3, <2>1, Zenon
  <2> QED  BY <2>1, <2>2, Zenon
<1>5. \A i \in 1..n : i - 1 \in T => i \in T
  <2> SUFFICES ASSUME NEW i \in 1..n, i - 1 \in T PROVE i \in T
    OBVIOUS
  <2> DEFINE x == after[i - 1]
             v == Spread[i]
  <2>1. x \in Seq(NullableNumbers) /\ x = then[i - 1] /\ v \in NullableNumbers
    BY <1>0
  <2>2. map[v] = IF v \in pred THEN <<v>> ELSE <<>>
    BY <2>1
  <2>3. after[i] = IF v \in pred THEN Append(x, v) ELSE x
    BY <1>1 DEF Kept
  <2>4. then[i] = x \o map[v]
    BY <1>3, <2>1
  <2> HIDE DEF x, v, map
  <2>5. x \o <<>> = x /\ x \o <<v>> = Append(x, v) /\ Append(x, v) \in Seq(NullableNumbers)
    BY <2>1, AppendIsConcat, ConcatEmptySeq
  <2>6. after[i] = then[i] /\ after[i] \in Seq(NullableNumbers)
    <3>1. CASE v \in pred
      BY <2>1, <2>2, <2>3, <2>4, <2>5, <3>1
    <3>2. CASE v \notin pred
      BY <2>1, <2>2, <2>3, <2>4, <2>5, <3>2
    <3> QED  BY <3>1, <3>2
  <2>7. i \in 0..n
    BY <1>0
  <2> QED  BY <2>6, <2>7
<1>6. 0..n \subseteq T
  <2> HIDE DEF T
  <2> QED  BY <1>0, <1>4, <1>5, EveryStep
<1>7. FlatMap(map) = Filter(pred)
  <2>1. n \in T
    BY <1>0, <1>6
  <2> HIDE DEF map
  <2> QED  BY <2>1, <1>1, <1>3
<1> QED  BY <1>7

(* An element appended to what is joined is appended to its end.           *)
LEMMA OneMore ==
  ASSUME NEW S, NEW x \in S, NEW q \in Seq(S), NEW i \in 1..Len(q)
  PROVE  Append(<<x>> \o SubSeq(q, 1, i - 1), q[i]) = <<x>> \o SubSeq(q, 1, i)
<1> DEFINE a == <<x>>
           b == SubSeq(q, 1, i - 1)
           c == <<q[i]>>
<1>1. a \in Seq(S) /\ b \in Seq(S) /\ c \in Seq(S)
  OBVIOUS
<1>2. SubSeq(q, 1, i) = b \o c
  <2>1. 1 \in 1..Len(q) /\ i \in 1..Len(q)
    OBVIOUS
  <2> QED  BY <2>1, SubSeqRecursiveSecond
<1>3. Append(a \o b, q[i]) = (a \o b) \o c
  <2>1. a \o b \in Seq(S) /\ q[i] \in S
    BY <1>1
  <2> HIDE DEF a, b
  <2> QED  BY <2>1, AppendIsConcat
<1>4. (a \o b) \o c = a \o (b \o c)
  <2> HIDE DEF a, b, c
  <2> QED  BY <1>1
<1> HIDE DEF a, b, c
<1> QED  BY <1>2, <1>3, <1>4 DEF a, b

(* A loop that gathers elements after a first has them in its order.       *)
LEMMA Gathered ==
  ASSUME NEW n \in Nat, NEW V, NEW x \in V, NEW q \in Seq(V), Len(q) = n, NEW after,
         after[0] = <<x>>, \A i \in 1..n : after[i] = Append(after[i - 1], q[i])
  PROVE  after[n] = <<x>> \o q
<1> DEFINE T == {i \in 0..n : after[i] = <<x>> \o SubSeq(q, 1, i)}
<1>1. 0 \in T
  <2>1. SubSeq(q, 1, 0) = <<>>
    BY SubSeqEmpty
  <2>2. <<x>> \o <<>> = <<x>>
    BY ConcatEmptySeq
  <2> QED  BY <2>1, <2>2
<1>2. \A i \in 1..n : i - 1 \in T => i \in T
  <2> SUFFICES ASSUME NEW i \in 1..n, i - 1 \in T PROVE i \in T
    OBVIOUS
  <2>1. after[i] = Append(<<x>> \o SubSeq(q, 1, i - 1), q[i])
    OBVIOUS
  <2>2. Append(<<x>> \o SubSeq(q, 1, i - 1), q[i]) = <<x>> \o SubSeq(q, 1, i)
    <3> HIDE DEF T
    <3> QED  BY OneMore
  <2>5. after[i] = <<x>> \o SubSeq(q, 1, i)
    BY <2>1, <2>2, Zenon
  <2>6. i \in 0..n
    OBVIOUS
  <2> QED  BY <2>5, <2>6
<1>3. 0..n \subseteq T
  <2> HIDE DEF T
  <2> QED  BY <1>1, <1>2, EveryStep
<1>4. after[n] = <<x>> \o SubSeq(q, 1, n)
  BY <1>3
<1>5. SubSeq(q, 1, n) = q
  BY SubSeqFull
<1> QED  BY <1>4, <1>5

LEMMA Reductions ==
  ASSUME EntriesOK
  PROVE  /\ Reduce(NoValue) = <<NoValue>> \o MapEach([v \in NullableNumbers |-> v])
         /\ ReduceRight(NoValue) = <<NoValue>> \o Reverse(Concat(<<>>))
<1> DEFINE n == Size
           V == NullableNumbers
<1>0. /\ n \in Nat /\ Spread \in Seq(V) /\ Len(Spread) = n
      /\ \A i \in 1..n : Spread[i] \in V
  BY Spreading
<1>n. NoValue \in V
  BY DEF NullableNumbers
<1>1. PICK after : /\ after[0] = <<NoValue>>
                   /\ \A i \in 1..n : after[i] = Append(after[i - 1], Spread[i])
                   /\ Reduce(NoValue) = after[n]
  BY <1>n, Reducing
<1>2. PICK then : /\ then[0] = <<NoValue>>
                  /\ \A i \in 1..n : then[i] = Append(then[i - 1], Spread[n - i + 1])
                  /\ ReduceRight(NoValue) = then[n]
  BY <1>n, ReducingRight
<1> HIDE DEF n, V
<1>3. MapEach([v \in NullableNumbers |-> v]) = Spread
  <2>1. DOMAIN Spread = 1..n
    BY <1>0
  <2>2. Spread = [i \in 1..n |-> Spread[i]]
    BY <1>0
  <2> QED  BY <1>0, <2>1, <2>2 DEF MapEach, V
<1>4. Concat(<<>>) = Spread
  BY <1>0, ConcatEmptySeq DEF Concat
<1>5. Reduce(NoValue) = <<NoValue>> \o Spread
  <2> DEFINE x == NoValue
             q == Spread
  <2>1. x \in V /\ q \in Seq(V) /\ Len(q) = n /\ after[0] = <<x>>
        /\ \A i \in 1..n : after[i] = Append(after[i - 1], q[i])
    BY <1>0, <1>1, <1>n
  <2> HIDE DEF x, q
  <2>2. after[n] = <<x>> \o q
    BY <1>0, <2>1, Gathered
  <2> QED  BY <1>1, <2>2 DEF x, q
<1>6. /\ Reverse(Spread) \in Seq(V) /\ Len(Reverse(Spread)) = n
      /\ \A i \in 1..n : Reverse(Spread)[i] = Spread[n - i + 1]
  <2>1. Reverse(Spread) = [i \in 1..n |-> Spread[(n - i) + 1]]
    BY <1>0 DEF Reverse
  <2>2. \A i \in 1..n : (n - i) + 1 \in 1..n /\ (n - i) + 1 = n - i + 1
    BY <1>0
  <2>3. [i \in 1..n |-> Spread[(n - i) + 1]] \in Seq(V)
    BY <1>0, <2>2
  <2> QED  BY <1>0, <2>1, <2>2, <2>3
<1>7. ReduceRight(NoValue) = <<NoValue>> \o Reverse(Spread)
  <2> DEFINE x == NoValue
             q == Reverse(Spread)
  <2>1. x \in V /\ q \in Seq(V) /\ Len(q) = n /\ then[0] = <<x>>
        /\ \A i \in 1..n : then[i] = Append(then[i - 1], q[i])
    BY <1>0, <1>2, <1>6, <1>n
  <2> HIDE DEF x, q
  <2>2. then[n] = <<x>> \o q
    BY <1>0, <2>1, Gathered
  <2> QED  BY <1>2, <2>2 DEF x, q
<1> QED  BY <1>3, <1>4, <1>5, <1>7

LEMMA FoldsRead ==
  ASSUME EntriesOK
  PROVE  FoldsAgree
<1>1. ASSUME NEW pred \in SUBSET NullableNumbers
      PROVE  /\ Every(pred) <=> Filter(pred) = Sliced(0, Size)
             /\ SomeOf(pred) <=> ~Every(NullableNumbers \ pred)
             /\ FlatMap([v \in NullableNumbers |-> IF v \in pred THEN <<v>> ELSE <<>>]) = Filter(pred)
  <2>1. Every(pred) => Filter(pred) = Sliced(0, Size)
    BY EveryKeptAll
  <2>2. Filter(pred) = Sliced(0, Size) => Every(pred)
    BY KeptAllEvery
  <2>3. SomeOf(pred) <=> ~Every(NullableNumbers \ pred)
    <3>1. \A i \in DOMAIN Spread : Spread[i] \in NullableNumbers
      BY Spreading
    <3> QED  BY <3>1 DEF SomeOf, Every
  <2>4. FlatMap([v \in NullableNumbers |-> IF v \in pred THEN <<v>> ELSE <<>>]) = Filter(pred)
    BY FlatMapFilters
  <2> QED  BY <2>1, <2>2, <2>3, <2>4
<1> QED  BY <1>1, Reductions DEF FoldsAgree

-----------------------------------------------------------------------------
(* Sorting                                                                 *)

(* Elements stand in one order: null first, the numbers by size.           *)
LEMMA Ranked ==
  \A x, y, z \in NullableNumbers :
    /\ ~Precedes(x, x)
    /\ Precedes(x, y) \/ x = y \/ Precedes(y, x)
    /\ Precedes(x, y) => ~Precedes(y, x)
    /\ Precedes(x, y) /\ Precedes(y, z) => Precedes(x, z)
    /\ Precedes(x, y) /\ ~Precedes(z, y) => Precedes(x, z)
    /\ Precedes(x, y) /\ ~Precedes(x, z) => Precedes(z, y)
<1>1. \A x \in NullableNumbers : x # NoValue => x \in Int
  BY ReadsAssumption DEF NullableNumbers
<1> QED  BY <1>1 DEF Precedes

(* p lists the n places of s from the least element to the greatest.       *)
Lists(p, n) ==
  /\ p \in [1..n -> 1..n]
  /\ \A i, j \in 1..n : p[i] = p[j] => i = j
  /\ \A k \in 1..n : \E i \in 1..n : p[i] = k

Ascends(p, n, s) == \A i, j \in 1..n : i < j => ~Precedes(s[p[j]], s[p[i]])
Descends(p, n, s) == \A i, j \in 1..n : i < j => ~Precedes(s[p[i]], s[p[j]])

LEMMA Bijections ==
  ASSUME NEW n \in Nat
  PROVE  \A p : p \in Bijection(1..n, 1..n) <=> Lists(p, n)
BY DEF Bijection, Injection, Surjection, IsInjective, Lists

(* Of two ascending lists none is behind the other: the places before the  *)
(* i-th would not do for the first i of the one that is.                   *)
LEMMA NoneBehind ==
  ASSUME NEW n \in Nat, NEW s \in [1..n -> NullableNumbers], NEW p, NEW q,
         Lists(p, n), Lists(q, n), Ascends(p, n, s), Ascends(q, n, s), NEW i \in 1..n
  PROVE  ~Precedes(s[p[i]], s[q[i]])
<1> SUFFICES ASSUME Precedes(s[p[i]], s[q[i]]) PROVE FALSE
  OBVIOUS
<1>1. /\ \A j \in 1..n : p[j] \in 1..n /\ q[j] \in 1..n
      /\ \A j \in 1..n : s[p[j]] \in NullableNumbers /\ s[q[j]] \in NullableNumbers
  BY DEF Lists
<1>2. ASSUME NEW j \in 1..i PROVE \E k \in 1..(i - 1) : q[k] = p[j]
  <2>1. j \in 1..n /\ (j = i \/ j < i)
    OBVIOUS
  <2>2. j = i \/ ~Precedes(s[p[i]], s[p[j]])
    BY <2>1 DEF Ascends
  <2>3. Precedes(s[p[j]], s[q[i]])
    BY <1>1, <2>1, <2>2, Ranked
  <2>4. PICK k \in 1..n : q[k] = p[j]
    BY <1>1, <2>1 DEF Lists
  <2>5. k < i
    <3> SUFFICES ASSUME ~(k < i) PROVE FALSE
      OBVIOUS
    <3>1. k = i \/ i < k
      OBVIOUS
    <3>2. k # i
      BY <1>1, <2>1, <2>3, <2>4, Ranked
    <3>3. ~Precedes(s[q[k]], s[q[i]])
      BY <3>1, <3>2 DEF Ascends
    <3> QED  BY <2>3, <2>4, <3>3
  <2>6. k \in 1..(i - 1)
    BY <2>5
  <2> QED  BY <2>4, <2>6
<1> DEFINE f == [j \in 1..i |-> CHOOSE k \in 1..(i - 1) : q[k] = p[j]]
<1>3. \A j \in 1..i : f[j] \in 1..(i - 1) /\ q[f[j]] = p[j]
  BY <1>2
<1>4. f \in [1..i -> 1..(i - 1)]
  BY <1>3
<1>5. IsFiniteSet(1..i) /\ IsFiniteSet(1..(i - 1)) /\ Cardinality(1..(i - 1)) < Cardinality(1..i)
  <2>1. Cardinality(1..i) = i /\ Cardinality(1..(i - 1)) = i - 1
    BY FS_Interval
  <2> QED  BY <2>1, FS_Interval
<1> HIDE DEF f
<1>6. PICK x, y \in 1..i : x # y /\ f[x] = f[y]
  BY <1>4, <1>5, FS_PigeonHole
<1>7. p[x] = p[y] /\ x \in 1..n /\ y \in 1..n
  BY <1>3, <1>6
<1> QED  BY <1>6, <1>7 DEF Lists

LEMMA OneAscent ==
  ASSUME NEW n \in Nat, NEW s \in [1..n -> NullableNumbers], NEW p, NEW q,
         Lists(p, n), Lists(q, n), Ascends(p, n, s), Ascends(q, n, s)
  PROVE  [i \in 1..n |-> s[p[i]]] = [i \in 1..n |-> s[q[i]]]
<1>1. ASSUME NEW i \in 1..n PROVE s[p[i]] = s[q[i]]
  <2>1. s[p[i]] \in NullableNumbers /\ s[q[i]] \in NullableNumbers
    BY DEF Lists
  <2>2. ~Precedes(s[p[i]], s[q[i]]) /\ ~Precedes(s[q[i]], s[p[i]])
    BY NoneBehind
  <2> QED  BY <2>1, <2>2, Ranked
<1> QED  BY <1>1

(* An ascending list read from its end descends, and the other way around. *)
LEMMA TurnedAround ==
  ASSUME NEW n \in Nat, NEW s \in [1..n -> NullableNumbers], NEW p, Lists(p, n),
         NEW q, q = [i \in 1..n |-> p[n - i + 1]]
  PROVE  /\ Lists(q, n)
         /\ Ascends(p, n, s) => Descends(q, n, s)
         /\ Descends(p, n, s) => Ascends(q, n, s)
<1>1. \A i \in 1..n : n - i + 1 \in 1..n /\ n - (n - i + 1) + 1 = i
  OBVIOUS
<1>2. \A i, j \in 1..n : /\ i < j => n - j + 1 < n - i + 1
                         /\ n - i + 1 = n - j + 1 => i = j
  OBVIOUS
<1>3. \A i \in 1..n : q[i] = p[n - i + 1]
  OBVIOUS
<1>4. q \in [1..n -> 1..n]
  BY <1>1 DEF Lists
<1>5. \A i, j \in 1..n : q[i] = q[j] => i = j
  <2> SUFFICES ASSUME NEW i \in 1..n, NEW j \in 1..n, q[i] = q[j] PROVE i = j
    OBVIOUS
  <2>1. p[n - i + 1] = p[n - j + 1]
    BY <1>3
  <2>2. n - i + 1 = n - j + 1
    BY <1>1, <2>1 DEF Lists
  <2> QED  BY <2>2
<1>6. \A k \in 1..n : \E i \in 1..n : q[i] = k
  <2> SUFFICES ASSUME NEW k \in 1..n PROVE \E i \in 1..n : q[i] = k
    OBVIOUS
  <2>1. PICK j \in 1..n : p[j] = k
    BY DEF Lists
  <2>2. n - j + 1 \in 1..n /\ n - (n - j + 1) + 1 = j
    BY <1>1
  <2>3. q[n - j + 1] = k
    BY <1>3, <2>1, <2>2
  <2> QED  BY <2>2, <2>3
<1>7. Lists(q, n)
  BY <1>4, <1>5, <1>6 DEF Lists
<1>8. ASSUME Ascends(p, n, s) PROVE Descends(q, n, s)
  <2> SUFFICES ASSUME NEW i \in 1..n, NEW j \in 1..n, i < j PROVE ~Precedes(s[q[i]], s[q[j]])
    BY DEF Descends
  <2>1. ~Precedes(s[p[n - i + 1]], s[p[n - j + 1]])
    BY <1>1, <1>2, <1>8 DEF Ascends
  <2> QED  BY <1>3, <2>1
<1>9. ASSUME Descends(p, n, s) PROVE Ascends(q, n, s)
  <2> SUFFICES ASSUME NEW i \in 1..n, NEW j \in 1..n, i < j PROVE ~Precedes(s[q[j]], s[q[i]])
    BY DEF Ascends
  <2>1. ~Precedes(s[p[n - j + 1]], s[p[n - i + 1]])
    BY <1>1, <1>2, <1>9 DEF Descends
  <2> QED  BY <1>3, <2>1
<1> QED  BY <1>7, <1>8, <1>9

(* There is an ascending list: each place comes after as many as come      *)
(* before it.                                                              *)
LEMMA AnAscent ==
  ASSUME NEW n \in Nat, NEW s \in [1..n -> NullableNumbers]
  PROVE  \E p : Lists(p, n) /\ Ascends(p, n, s)
<1> DEFINE N == 1..n
           Before(j, i) == Precedes(s[j], s[i]) \/ (s[j] = s[i] /\ j <= i)
           upTo(i) == {j \in N : Before(j, i)}
           rank == [i \in N |-> Cardinality(upTo(i))]
<1>1. IsFiniteSet(N) /\ Cardinality(N) = n
  BY FS_Interval
<1>2. \A i \in N : s[i] \in NullableNumbers /\ i \in Int
  OBVIOUS
<1>3. \A i, j, k \in N :
        /\ Before(i, i)
        /\ Before(i, j) \/ Before(j, i)
        /\ Before(i, j) /\ Before(j, i) => i = j
        /\ Before(i, j) /\ Before(j, k) => Before(i, k)
        /\ Before(i, j) => ~Precedes(s[j], s[i])
  <2>1. ASSUME NEW i \in N, NEW j \in N, NEW k \in N
        PROVE  /\ Before(i, i)
               /\ Before(i, j) \/ Before(j, i)
               /\ Before(i, j) /\ Before(j, i) => i = j
               /\ Before(i, j) /\ Before(j, k) => Before(i, k)
               /\ Before(i, j) => ~Precedes(s[j], s[i])
    <3>1. /\ s[i] \in NullableNumbers /\ s[j] \in NullableNumbers /\ s[k] \in NullableNumbers
          /\ i \in Int /\ j \in Int /\ k \in Int
      BY <1>2
    <3> QED  BY <3>1, Ranked
  <2> HIDE DEF Before
  <2> QED  BY <2>1
<1>4. \A i \in N : IsFiniteSet(upTo(i)) /\ Cardinality(upTo(i)) \in N
  <2> SUFFICES ASSUME NEW i \in N PROVE IsFiniteSet(upTo(i)) /\ Cardinality(upTo(i)) \in N
    OBVIOUS
  <2>1. upTo(i) \in SUBSET N /\ i \in upTo(i)
    BY <1>3
  <2> HIDE DEF upTo, N
  <2>2. IsFiniteSet(upTo(i)) /\ Cardinality(upTo(i)) <= n
    BY <1>1, <2>1, FS_Subset
  <2>3. Cardinality(upTo(i)) \in Nat /\ Cardinality(upTo(i)) # 0
    <3>1. Cardinality(upTo(i)) \in Nat
      BY <2>2, FS_CardinalityType
    <3>2. Cardinality(upTo(i)) = 0 <=> upTo(i) = {}
      BY <2>2, FS_EmptySet
    <3> QED  BY <2>1, <3>1, <3>2
  <2> QED  BY <2>2, <2>3 DEF N
<1>5. ASSUME NEW i \in N, NEW j \in N, Before(i, j), i # j PROVE rank[i] < rank[j]
  <2>1. upTo(i) \in SUBSET upTo(j) /\ j \in upTo(j) /\ j \notin upTo(i)
    BY <1>3, <1>5
  <2>2. IsFiniteSet(upTo(i)) /\ IsFiniteSet(upTo(j)) /\ rank[i] = Cardinality(upTo(i))
        /\ rank[j] = Cardinality(upTo(j)) /\ rank[i] \in N /\ rank[j] \in N
    BY <1>4
  <2> HIDE DEF upTo, rank
  <2>3. Cardinality(upTo(i)) <= Cardinality(upTo(j))
        /\ (Cardinality(upTo(j)) = Cardinality(upTo(i)) => upTo(j) = upTo(i))
    BY <2>1, <2>2, FS_Subset
  <2> QED  BY <2>1, <2>2, <2>3
<1>6. rank \in [N -> N]
  BY <1>4
<1> HIDE DEF rank, Before, upTo
<1>7. \A i, j \in N : rank[i] = rank[j] => i = j
  <2> SUFFICES ASSUME NEW i \in N, NEW j \in N, rank[i] = rank[j], i # j PROVE FALSE
    OBVIOUS
  <2>1. rank[i] < rank[j] \/ rank[j] < rank[i]
    BY <1>3, <1>5
  <2>2. rank[i] \in Int
    BY <1>6
  <2> QED  BY <2>1, <2>2
<1>8. rank \in Injection(N, N)
  BY <1>6, <1>7 DEF Injection, IsInjective
<1>9. \A k \in N : \E i \in N : rank[i] = k
  <2>1. rank \in Surjection(N, N)
    <3> HIDE DEF N
    <3> QED  BY <1>1, <1>8, FS_Injection
  <2> QED  BY <2>1 DEF Surjection
<1> DEFINE p == [k \in N |-> CHOOSE i \in N : rank[i] = k]
<1>10. \A k \in N : p[k] \in N /\ rank[p[k]] = k
  BY <1>9
<1>11. p \in [N -> N]
  BY <1>10
<1> HIDE DEF p
<1>12. \A i, j \in N : p[i] = p[j] => i = j
  BY <1>10
<1>13. \A k \in N : \E i \in N : p[i] = k
  <2> SUFFICES ASSUME NEW k \in N PROVE p[rank[k]] = k /\ rank[k] \in N
    OBVIOUS
  <2>1. rank[k] \in N
    BY <1>6
  <2> QED  BY <1>7, <1>10, <2>1
<1>14. ASSUME NEW i \in N, NEW j \in N, i < j PROVE ~Precedes(s[p[j]], s[p[i]])
  <2>1. p[i] \in N /\ p[j] \in N /\ rank[p[i]] = i /\ rank[p[j]] = j
    BY <1>10
  <2>2. Before(p[i], p[j])
    <3> SUFFICES ASSUME ~Before(p[i], p[j]) PROVE FALSE
      OBVIOUS
    <3>1. Before(p[j], p[i]) /\ p[i] # p[j]
      BY <1>3, <2>1
    <3>2. rank[p[j]] < rank[p[i]]
      BY <1>5, <2>1, <3>1
    <3> QED  BY <1>14, <2>1, <3>2
  <2> QED  BY <1>3, <2>1, <2>2
<1>15. Lists(p, n)
  BY <1>11, <1>12, <1>13 DEF Lists
<1>16. Ascends(p, n, s)
  BY <1>14 DEF Ascends
<1> QED  BY <1>15, <1>16

LEMMA TheOrders ==
  ASSUME EntriesOK
  PROVE  /\ \A p : p \in Orders(TRUE) <=> Lists(p, Size) /\ Ascends(p, Size, Spread)
         /\ \A p : p \in Orders(FALSE) <=> Lists(p, Size) /\ Descends(p, Size, Spread)
<1>1. DOMAIN Spread = 1..Size /\ Size \in Nat
  BY Spreading
<1>2. \A p : p \in Bijection(1..Size, 1..Size) <=> Lists(p, Size)
  BY <1>1, Bijections
<1>3. \A x, y : MayFollow(x, y, TRUE) <=> ~Precedes(y, x)
  BY Zenon DEF MayFollow
<1>4. \A x, y : MayFollow(x, y, FALSE) <=> ~Precedes(x, y)
  BY Zenon DEF MayFollow
<1>5. ASSUME NEW p
      PROVE  p \in Orders(TRUE) <=> Lists(p, Size) /\ Ascends(p, Size, Spread)
  BY <1>1, <1>2, <1>3, Zenon DEF Orders, Ascends
<1>6. ASSUME NEW p
      PROVE  p \in Orders(FALSE) <=> Lists(p, Size) /\ Descends(p, Size, Spread)
  BY <1>1, <1>2, <1>4, Zenon DEF Orders, Descends
<1> QED  BY <1>5, <1>6

(* The elements as sorted in a direction.                                  *)
SortedTo(ascending) ==
  LET p == CHOOSE p \in Orders(ascending) : TRUE IN [i \in DOMAIN Spread |-> Spread[p[i]]]

LEMMA SortedReversed ==
  ASSUME EntriesOK
  PROVE  SortedTo(TRUE) = Reverse(SortedTo(FALSE))
<1> DEFINE up == CHOOSE p \in Orders(TRUE) : TRUE
           down == CHOOSE p \in Orders(FALSE) : TRUE
           n == Size
           s == Spread
           turned == [i \in 1..n |-> down[n - i + 1]]
<1>1. n \in Nat /\ s \in [1..n -> NullableNumbers] /\ DOMAIN s = 1..n
  BY Spreading
<1>2. \E p : Lists(p, n) /\ Ascends(p, n, s)
  <2> HIDE DEF n, s
  <2> QED  BY <1>1, AnAscent
<1>3. \E p : Lists(p, n) /\ Descends(p, n, s)
  <2>1. PICK p : Lists(p, n) /\ Ascends(p, n, s)
    BY <1>2
  <2> DEFINE q == [i \in 1..n |-> p[n - i + 1]]
  <2> HIDE DEF n, s
  <2>2. Lists(q, n) /\ Descends(q, n, s)
    BY <1>1, <2>1, TurnedAround
  <2> HIDE DEF q
  <2> QED  BY <2>2
<1>4. /\ \A p : p \in Orders(TRUE) <=> Lists(p, n) /\ Ascends(p, n, s)
      /\ \A p : p \in Orders(FALSE) <=> Lists(p, n) /\ Descends(p, n, s)
  BY TheOrders
<1>5. Lists(up, n) /\ Ascends(up, n, s) /\ Lists(down, n) /\ Descends(down, n, s)
  <2>1. (\E p : p \in Orders(TRUE)) /\ (\E p : p \in Orders(FALSE))
    <3> HIDE DEF n, s
    <3> QED  BY <1>2, <1>3, <1>4, Zenon
  <2>2. up \in Orders(TRUE) /\ down \in Orders(FALSE)
    BY <2>1, Zenon
  <2> HIDE DEF n, s, up, down
  <2> QED  BY <1>4, <2>2, Zenon
<1>6. SortedTo(TRUE) = [i \in 1..n |-> s[up[i]]] /\ SortedTo(FALSE) = [i \in 1..n |-> s[down[i]]]
  BY <1>1, Zenon DEF SortedTo
<1> HIDE DEF n, s, up, down
<1>7. Lists(turned, n) /\ Ascends(turned, n, s)
  BY <1>1, <1>5, TurnedAround
<1>8. [i \in 1..n |-> s[up[i]]] = [i \in 1..n |-> s[turned[i]]]
  <2> HIDE DEF turned
  <2> QED  BY <1>1, <1>5, <1>7, OneAscent
<1>9. Reverse([i \in 1..n |-> s[down[i]]]) = [i \in 1..n |-> s[turned[i]]]
  <2> DEFINE d == [i \in 1..n |-> s[down[i]]]
  <2>1. \A i \in 1..n : s[down[i]] \in NullableNumbers
    BY <1>1, <1>5 DEF Lists
  <2>2. d \in Seq(NullableNumbers) /\ Len(d) = n
    BY <1>1, <2>1
  <2>3. Reverse(d) = [i \in 1..n |-> d[(n - i) + 1]]
    <3> HIDE DEF d
    <3> QED  BY <2>2 DEF Reverse
  <2>4. \A i \in 1..n : d[(n - i) + 1] = s[turned[i]]
    <3> SUFFICES ASSUME NEW i \in 1..n PROVE d[(n - i) + 1] = s[turned[i]]
      OBVIOUS
    <3>1. (n - i) + 1 \in 1..n
      BY <1>1
    <3> QED  BY <3>1
  <2> HIDE DEF d, turned
  <2>5. [i \in 1..n |-> d[(n - i) + 1]] = [i \in 1..n |-> s[turned[i]]]
    BY <2>4
  <2> QED  BY <2>3, <2>5 DEF d
<1> QED  BY <1>6, <1>8, <1>9, Zenon

LEMMA DirectionsGiven ==
  /\ Sorted([is |-> "none"]) = SortedTo(TRUE)
  /\ \A reverse \in BOOLEAN :
       /\ Sorted([is |-> "name", name |-> "self", reverse |-> reverse]) = SortedTo(~reverse)
       /\ Sorted([is |-> "descriptors", list |-> <<<<"self", reverse>>>>]) = SortedTo(~reverse)
       /\ Sorted([is |-> "reverse", reverse |-> reverse]) = SortedTo(~reverse)
<1> DEFINE descriptor(arg) == IF Len(arg) = 1 THEN <<arg[1], TRUE>> ELSE <<arg[1], ~arg[2]>>
<1>1. \A args : Sorted(args) = SortedTo(Descriptors(args)[1][2])
  BY Zenon DEF Sorted, SortByNames, SortedTo
<1>2. \A a, b : Len(<<a, b>>) # 1
  OBVIOUS
<1>3. \A a, b : descriptor(<<a, b>>) = <<a, ~b>>
  BY <1>2, Zenon
<1>4. \A a, b : <<<<a, b>>>>[1][2] = b
  BY Zenon
<1>5. Descriptors([is |-> "none"]) = <<descriptor(<<"self", FALSE>>)>>
  <2> DEFINE args == [is |-> "none"]
  <2>1. args.is = "none" /\ args.is # "descriptors" /\ args.is # "name" /\ args.is # "reverse"
    OBVIOUS
  <2> HIDE DEF args
  <2>2. Descriptors(args) = <<descriptor(<<"self", FALSE>>)>>
    BY <2>1, Zenon DEF Descriptors
  <2> QED  BY <2>2, Zenon DEF args
<1>6. ASSUME NEW args, NEW b, Descriptors(args) = <<descriptor(<<"self", b>>)>>
      PROVE  Sorted(args) = SortedTo(~b)
  <2>1. Descriptors(args) = <<<<"self", ~b>>>>
    <3> HIDE DEF descriptor
    <3> QED  BY <1>3, <1>6, Zenon
  <2>2. Descriptors(args)[1][2] = ~b
    <3> DEFINE c == ~b
    <3>1. Descriptors(args) = <<<<"self", c>>>>
      BY <2>1, Zenon
    <3> HIDE DEF c, descriptor
    <3>2. Descriptors(args)[1][2] = c
      BY <1>4, <3>1, Zenon
    <3> QED  BY <3>2, Zenon DEF c
  <2> QED  BY <1>1, <2>2, Zenon
<1>7. Sorted([is |-> "none"]) = SortedTo(TRUE)
  <2>1. Sorted([is |-> "none"]) = SortedTo(~FALSE)
    <3> HIDE DEF descriptor
    <3> QED  BY <1>5, <1>6, Zenon
  <2>2. ~FALSE = TRUE
    OBVIOUS
  <2> QED  BY <2>1, <2>2, Zenon
<1>8. ASSUME NEW reverse \in BOOLEAN
      PROVE  /\ Sorted([is |-> "name", name |-> "self", reverse |-> reverse]) = SortedTo(~reverse)
             /\ Sorted([is |-> "descriptors", list |-> <<<<"self", reverse>>>>]) = SortedTo(~reverse)
             /\ Sorted([is |-> "reverse", reverse |-> reverse]) = SortedTo(~reverse)
  <2> DEFINE named == [is |-> "name", name |-> "self", reverse |-> reverse]
             listed == [is |-> "descriptors", list |-> <<<<"self", reverse>>>>]
             turned == [is |-> "reverse", reverse |-> reverse]
  <2>1. named.is = "name" /\ named.is # "descriptors" /\ named.name = "self"
    OBVIOUS
  <2>2. named.reverse = reverse /\ turned.reverse = reverse
    BY Zenon
  <2>3. listed.is = "descriptors"
    BY Zenon
  <2>4. DOMAIN listed.list = 1..1 /\ listed.list[1] = <<"self", reverse>>
    <3>1. listed.list = <<<<"self", reverse>>>>
      BY Zenon
    <3>2. \A x : DOMAIN <<x>> = 1..1 /\ <<x>>[1] = x
      OBVIOUS
    <3> HIDE DEF listed
    <3> QED  BY <3>1, <3>2, Zenon
  <2>5. turned.is = "reverse" /\ turned.is # "descriptors" /\ turned.is # "name"
    <3>1. turned.is = "reverse"
      BY Zenon
    <3>2. "reverse" # "descriptors" /\ "reverse" # "name"
      OBVIOUS
    <3> HIDE DEF turned
    <3> QED  BY <3>1, <3>2, Zenon
  <2> HIDE DEF named, listed, turned
  <2>6. (reverse = TRUE) = reverse
    BY Zenon
  <2>7. Descriptors(named) = <<descriptor(<<"self", reverse>>)>>
    BY <2>1, <2>2, <2>6, Zenon DEF Descriptors
  <2>8. Descriptors(turned) = <<descriptor(<<"self", reverse>>)>>
    BY <2>2, <2>5, Zenon DEF Descriptors
  <2>9. Descriptors(listed) = <<descriptor(<<"self", reverse>>)>>
    <3>1. Descriptors(listed) = [i \in DOMAIN listed.list |-> descriptor(listed.list[i])]
      BY <2>3, Zenon DEF Descriptors
    <3>2. Descriptors(listed) = [i \in 1..1 |-> descriptor(listed.list[i])]
      BY <2>4, <3>1, Zenon
    <3>3. \A f : [i \in 1..1 |-> f[i]] = <<f[1]>>
      OBVIOUS
    <3> DEFINE f == [i \in 1..1 |-> descriptor(listed.list[i])]
    <3>4. f[1] = descriptor(<<"self", reverse>>) /\ f = [i \in 1..1 |-> f[i]]
      <4>1. 1 \in 1..1
        OBVIOUS
      <4> HIDE DEF descriptor
      <4> QED  BY <2>4, <4>1, Zenon
    <3> HIDE DEF f, descriptor
    <3>5. f = <<f[1]>>
      BY <3>3, <3>4, Zenon
    <3> QED  BY <3>2, <3>4, <3>5, Zenon DEF f
  <2> HIDE DEF descriptor
  <2>10. Sorted(named) = SortedTo(~reverse) /\ Sorted(listed) = SortedTo(~reverse)
        /\ Sorted(turned) = SortedTo(~reverse)
    BY <1>6, <2>7, <2>8, <2>9, Zenon
  <2> QED  BY <2>10, Zenon DEF named, listed, turned
<1> QED  BY <1>7, <1>8

LEMMA DirectionsRead ==
  ASSUME EntriesOK
  PROVE  DirectionsAgree
<1> SUFFICES ASSUME NEW reverse \in BOOLEAN
             PROVE  LET named == Sorted([is |-> "name", name |-> "self", reverse |-> reverse])
                    IN /\ named = Sorted([is |-> "descriptors", list |-> <<<<"self", reverse>>>>])
                       /\ named = Sorted([is |-> "reverse", reverse |-> reverse])
                       /\ Sorted([is |-> "none"]) = IF reverse THEN Reverse(named) ELSE named
  BY Zenon DEF DirectionsAgree
<1> DEFINE named == Sorted([is |-> "name", name |-> "self", reverse |-> reverse])
<1>1. /\ Sorted([is |-> "none"]) = SortedTo(TRUE)
      /\ named = SortedTo(~reverse)
      /\ Sorted([is |-> "descriptors", list |-> <<<<"self", reverse>>>>]) = SortedTo(~reverse)
      /\ Sorted([is |-> "reverse", reverse |-> reverse]) = SortedTo(~reverse)
  BY DirectionsGiven, Zenon
<1>2. reverse => named = SortedTo(FALSE)
  <2>1. reverse => (~reverse) = FALSE
    BY Zenon
  <2> QED  BY <1>1, <2>1, Zenon
<1>3. ~reverse => named = SortedTo(TRUE)
  <2>1. ~reverse => (~reverse) = TRUE
    BY Zenon
  <2> QED  BY <1>1, <2>1, Zenon
<1> HIDE DEF named
<1>4. Sorted([is |-> "none"]) = IF reverse THEN Reverse(named) ELSE named
  BY <1>1, <1>2, <1>3, SortedReversed, Zenon
<1> QED  BY <1>1, <1>4, Zenon DEF named

(* The ways to read a collection agree.                                    *)
LEMMA ReadsAlike ==
  ASSUME EntriesOK
  PROVE  ReadsAgree
<1>1. type = "dictionary" =>
        \A key \in DictionaryKeys :
          /\ DictionaryHasDescriptor(key) <=> key \in DictionaryOwnKeys
          /\ DictionaryHasDescriptor(key) <=> DictionaryGet(key) # Absent
  BY KeysRead
<1>2. type \in OrderedTypes => PlacesAgree /\ SearchesAgree /\ FoldsAgree /\ DirectionsAgree
  BY PlacesRead, SearchesRead, FoldsRead, DirectionsRead
<1> QED  BY <1>1, <1>2 DEF ReadsAgree

(* What is read is consistent: a collection reads the same through its     *)
(* proxy, the methods of arrays, the search and the sort of the engine,    *)
(* and a loop goes over what was in it when it began; objects are found by *)
(* every lookup or by none, and no write() leaves a half of its changes    *)
(* (OrderedCollection.ts, Dictionary.ts, Barq.ts).                         *)
THEOREM ReadsAgreeAlways == ReadsSpec /\ TransactionsSpec => []ReadsAreConsistent
<1> DEFINE RowsIInv == TransactionsIInv /\ RowsApart
<1>1. ReadsSpec => []WalksIInv
  BY ReadsInitially, ReadsStep, PTL DEF ReadsSpec
<1>2. TransactionsInit => RowsIInv
  BY TransactionsInitially, RowsInitially
<1>3. RowsIInv /\ [TransactionsNext]_transactionVars => RowsIInv'
  BY TransactionsStep, RowsStep
<1>4. WalksIInv => CollectionsReadAlike
  <2>1. WalksIInv => EntriesOK
    BY DEF WalksIInv
  <2> QED  BY <2>1, LoopsSee, ReadsAlike DEF CollectionsReadAlike
<1>5. RowsIInv => LookupsAgree /\ NoHalfWrites
  BY Lookups DEF TransactionsIInv
<1>6. WalksIInv /\ RowsIInv => ReadsAreConsistent
  BY <1>4, <1>5 DEF ReadsAreConsistent
<1>7. TransactionsSpec => []RowsIInv
  <2> HIDE DEF RowsIInv
  <2> QED  BY <1>2, <1>3, PTL DEF TransactionsSpec
<1> HIDE DEF RowsIInv
<1> QED  BY <1>1, <1>6, <1>7, PTL

-----------------------------------------------------------------------------
(* Lists of callbacks                                                      *)

Keys == Events \cup Holders

(* A list without its i-th element.                                        *)
LEMMA ListWithout ==
  ASSUME NEW S, NEW list \in Seq(S), NEW i \in 1..Len(list)
  PROVE  /\ RemoveAt(list, i) \in Seq(S) /\ Len(RemoveAt(list, i)) = Len(list) - 1
         /\ \A j \in 1..(Len(list) - 1) :
              RemoveAt(list, i)[j] = IF j < i THEN list[j] ELSE list[j + 1]
<1> DEFINE before == SubSeq(list, 1, i - 1)
           after == SubSeq(list, i + 1, Len(list))
           n == Len(list)
<1>1. n \in Nat /\ i \in 1..n /\ \A j \in 1..n : list[j] \in S
  OBVIOUS
<1>2. before \in Seq(S) /\ Len(before) = i - 1 /\ \A j \in 1..(i - 1) : before[j] = list[j]
  BY <1>1, SubSeqProperties
<1>3. after \in Seq(S) /\ Len(after) = n - i /\ \A j \in 1..(n - i) : after[j] = list[i + j]
  BY <1>1, SubSeqProperties
<1> HIDE DEF before, after
<1>4. /\ before \o after \in Seq(S) /\ Len(before \o after) = n - 1
      /\ \A j \in 1..(n - 1) : (before \o after)[j] = IF j <= i - 1 THEN before[j] ELSE after[j - (i - 1)]
  <2>1. /\ before \o after \in Seq(S) /\ Len(before \o after) = Len(before) + Len(after)
        /\ \A j \in 1..(Len(before) + Len(after)) :
             (before \o after)[j] = IF j <= Len(before) THEN before[j] ELSE after[j - Len(before)]
    BY <1>2, <1>3, ConcatProperties, Zenon
  <2> HIDE DEF n
  <2>2. Len(before) + Len(after) = n - 1
    BY <1>1, <1>2, <1>3
  <2> QED  BY <1>2, <2>1, <2>2
<1> HIDE DEF n
<1>5. ASSUME NEW j \in 1..(n - 1)
      PROVE  (before \o after)[j] = IF j < i THEN list[j] ELSE list[j + 1]
  <2>1. CASE j < i
    BY <1>1, <1>2, <1>4, <2>1
  <2>2. CASE ~(j < i)
    <3>1. j - (i - 1) \in 1..(n - i) /\ i + (j - (i - 1)) = j + 1 /\ ~(j <= i - 1)
      BY <1>1, <2>2
    <3>2. (before \o after)[j] = after[j - (i - 1)]
      BY <1>4, <3>1
    <3>3. after[j - (i - 1)] = list[j + 1]
      BY <1>3, <3>1
    <3> QED  BY <1>1, <2>2, <3>2, <3>3
  <2> QED  BY <2>1, <2>2
<1> QED  BY <1>4, <1>5 DEF RemoveAt, before, after, n

(* Removing a callback from a list that has each once leaves the others,   *)
(* each once.                                                              *)
LEMMA Dropping ==
  ASSUME NEW S, NEW list \in Seq(S), IsInjective(list), NEW c
  PROVE  LET left == RemoveFirst(list, c) IN
         left \in Seq(S) /\ IsInjective(left) /\ ToSet(left) = ToSet(list) \ {c}
<1> DEFINE left == RemoveFirst(list, c)
           n == Len(list)
<1>0. n \in Nat /\ DOMAIN list = 1..n /\ \A i, j \in 1..n : list[i] = list[j] => i = j
  BY DEF IsInjective
<1>1. CASE ~\E i \in 1..n : list[i] = c
  <2>1. left = list
    BY <1>1 DEF RemoveFirst
  <2> QED  BY <1>0, <1>1, <2>1 DEF ToSet
<1>2. CASE \E i \in 1..n : list[i] = c
  <2>1. PICK i \in 1..n : list[i] = c
    BY <1>2
  <2> DEFINE I == {x \in 1..n : list[x] = c}
  <2>2. I = {i}
    BY <1>0, <2>1
  <2>3. Min(I) = i
    <3>1. \E x \in I : \A y \in I : x <= y
      BY <2>1, <2>2, SMTT(30)
    <3> QED  BY <2>2, <3>1 DEF Min
  <2>4. left = RemoveAt(list, i)
    BY <2>1, <2>2, <2>3 DEF RemoveFirst, SelectInSeq
  <2>5. /\ left \in Seq(S) /\ Len(left) = n - 1
        /\ \A j \in 1..(n - 1) : left[j] = IF j < i THEN list[j] ELSE list[j + 1]
    BY <2>4, ListWithout
  <2> HIDE DEF left, n, I
  <2>6. n - 1 \in Nat /\ DOMAIN left = 1..(n - 1)
    BY <1>0, <2>1, <2>5
  <2>7. IsInjective(left)
    <3>1. ASSUME NEW j \in 1..(n - 1), NEW k \in 1..(n - 1), left[j] = left[k] PROVE j = k
      <4> DEFINE at(x) == IF x < i THEN x ELSE x + 1
      <4>1. at(j) \in 1..n /\ at(k) \in 1..n
        BY <1>0
      <4>2. left[j] = list[at(j)] /\ left[k] = list[at(k)]
        BY <2>5
      <4>3. at(j) = at(k)
        BY <1>0, <3>1, <4>1, <4>2
      <4> QED  BY <1>0, <4>3
    <3> QED  BY <2>6, <3>1 DEF IsInjective
  <2>8. ToSet(left) = ToSet(list) \ {c}
    <3>1. ASSUME NEW j \in 1..(n - 1) PROVE left[j] \in ToSet(list) \ {c}
      <4> DEFINE at == IF j < i THEN j ELSE j + 1
      <4>1. at \in 1..n /\ at # i
        BY <1>0, <2>1
      <4>2. left[j] = list[at]
        BY <2>5
      <4> HIDE DEF at
      <4>3. list[at] # c
        BY <1>0, <2>1, <4>1
      <4> QED  BY <1>0, <4>1, <4>2, <4>3 DEF ToSet
    <3>2. ASSUME NEW k \in 1..n, list[k] # c PROVE \E j \in 1..(n - 1) : left[j] = list[k]
      <4>1. CASE k < i
        <5>1. k \in 1..(n - 1)
          BY <1>0, <2>1, <4>1
        <5> QED  BY <2>5, <4>1, <5>1
      <4>2. CASE k > i
        <5>1. k - 1 \in 1..(n - 1) /\ ~(k - 1 < i) /\ (k - 1) + 1 = k
          BY <1>0, <2>1, <4>2
        <5>2. left[k - 1] = list[k]
          BY <2>5, <5>1
        <5> QED  BY <5>1, <5>2
      <4>3. k # i
        BY <2>1, <3>2
      <4> QED  BY <1>0, <2>1, <4>1, <4>2, <4>3
    <3>3. ASSUME NEW x \in ToSet(left) PROVE x \in ToSet(list) \ {c}
      BY <2>6, <3>1 DEF ToSet
    <3>4. ASSUME NEW x \in ToSet(list) \ {c} PROVE x \in ToSet(left)
      <4>1. PICK k \in 1..n : x = list[k]
        BY <1>0 DEF ToSet
      <4>2. PICK j \in 1..(n - 1) : left[j] = list[k]
        BY <3>2, <4>1
      <4> QED  BY <2>6, <4>1, <4>2 DEF ToSet
    <3> QED  BY <3>3, <3>4
  <2> QED  BY <2>5, <2>7, <2>8 DEF left
<1> QED  BY <1>1, <1>2

(* Appending one that is not in a list.                                    *)
LEMMA AppendingNew ==
  ASSUME NEW S, NEW list \in Seq(S), IsInjective(list), NEW c \in S, c \notin ToSet(list)
  PROVE  LET longer == Append(list, c) IN
         longer \in Seq(S) /\ IsInjective(longer) /\ ToSet(longer) = ToSet(list) \cup {c}
<1> DEFINE longer == Append(list, c)
           n == Len(list)
<1>1. n \in Nat /\ DOMAIN list = 1..n /\ \A i, j \in 1..n : list[i] = list[j] => i = j
  BY DEF IsInjective
<1>2. /\ longer \in Seq(S) /\ DOMAIN longer = 1..(n + 1)
      /\ longer[n + 1] = c /\ \A i \in 1..n : longer[i] = list[i]
  BY AppendProperties
<1> HIDE DEF longer, n
<1>3. \A i \in 1..(n + 1) : i \in 1..n \/ i = n + 1
  BY <1>1
<1>4. \A i \in 1..n : list[i] # c
  BY <1>1 DEF ToSet
<1>5. IsInjective(longer)
  <2>1. \A i, j \in 1..(n + 1) : longer[i] = longer[j] => i = j
    BY <1>1, <1>2, <1>3, <1>4
  <2> QED  BY <1>2, <2>1 DEF IsInjective
<1>6. ToSet(longer) = ToSet(list) \cup {c}
  BY <1>1, <1>2, <1>3 DEF ToSet
<1> QED  BY <1>2, <1>5, <1>6 DEF longer

(* Taking the first of a list.                                             *)
LEMMA TakingFirst ==
  ASSUME NEW S, NEW list \in Seq(S), IsInjective(list), list # <<>>
  PROVE  /\ Head(list) \in S /\ Tail(list) \in Seq(S) /\ IsInjective(Tail(list))
         /\ Head(list) \in ToSet(list) /\ ToSet(Tail(list)) = ToSet(list) \ {Head(list)}
<1> DEFINE rest == Tail(list)
           n == Len(list)
<1>1. n \in Nat /\ n > 0 /\ DOMAIN list = 1..n /\ \A i, j \in 1..n : list[i] = list[j] => i = j
  BY DEF IsInjective
<1>2. /\ Head(list) = list[1] /\ list[1] \in S /\ rest \in Seq(S) /\ DOMAIN rest = 1..(n - 1)
      /\ \A i \in 1..(n - 1) : rest[i] = list[i + 1]
  BY HeadTailProperties
<1> HIDE DEF rest, n
<1>3. \A i \in 1..(n - 1) : i + 1 \in 1..n /\ i + 1 # 1
  BY <1>1
<1>4. IsInjective(rest)
  <2>1. \A i, j \in 1..(n - 1) : rest[i] = rest[j] => i = j
    BY <1>1, <1>2, <1>3
  <2> QED  BY <1>2, <2>1 DEF IsInjective
<1>5. ToSet(rest) = ToSet(list) \ {list[1]}
  <2>1. 1 \in 1..n
    BY <1>1
  <2>2. ASSUME NEW i \in 1..(n - 1) PROVE rest[i] \in ToSet(list) \ {list[1]}
    <3>1. i + 1 \in 1..n /\ i + 1 # 1 /\ rest[i] = list[i + 1]
      BY <1>2, <1>3
    <3> DEFINE k == i + 1
    <3> HIDE DEF k
    <3>2. k \in 1..n /\ k # 1 /\ rest[i] = list[k]
      BY <3>1 DEF k
    <3>3. list[k] # list[1]
      BY <1>1, <2>1, <3>2
    <3> QED  BY <1>1, <3>2, <3>3 DEF ToSet
  <2>3. ASSUME NEW k \in 1..n, list[k] # list[1] PROVE \E i \in 1..(n - 1) : rest[i] = list[k]
    <3>1. k - 1 \in 1..(n - 1) /\ (k - 1) + 1 = k
      BY <1>1, <2>3
    <3>2. rest[k - 1] = list[k]
      BY <1>2, <3>1
    <3> QED  BY <3>1, <3>2
  <2>4. ASSUME NEW x \in ToSet(rest) PROVE x \in ToSet(list) \ {list[1]}
    BY <1>2, <2>2 DEF ToSet
  <2>5. ASSUME NEW x \in ToSet(list) \ {list[1]} PROVE x \in ToSet(rest)
    <3>1. PICK k \in 1..n : x = list[k]
      BY <1>1 DEF ToSet
    <3>2. PICK i \in 1..(n - 1) : rest[i] = list[k]
      BY <2>3, <3>1
    <3> QED  BY <1>2, <3>1, <3>2 DEF ToSet
  <2> QED  BY <2>4, <2>5
<1>6. list[1] \in ToSet(list)
  BY <1>1 DEF ToSet
<1> QED  BY <1>2, <1>4, <1>5, <1>6 DEF rest

-----------------------------------------------------------------------------
(* Rounds of calls                                                         *)

Rounds == [of : Keys, start : Seq(Callbacks), kept : SUBSET Callbacks, todo : Seq(Callbacks),
           called : Seq(Callbacks), running : BOOLEAN, threw : BOOLEAN]

(* A round has called and has yet to call different listeners, of those it *)
(* began with, and among them are all that have stayed, but for a round of *)
(* a Barq that has ended in an exception.                                  *)
InOrder(r) ==
  /\ IsInjective(r.called) /\ IsInjective(r.todo)
  /\ ToSet(r.called) \cap ToSet(r.todo) = {}
  /\ ToSet(r.called) \cup ToSet(r.todo) \subseteq ToSet(r.start)
  /\ (r.threw => r.of \in Holders) => r.kept \subseteq ToSet(r.called) \cup ToSet(r.todo)

AllInOrder(queue) == queue \in Seq(Rounds) /\ \A i \in 1..Len(queue) : InOrder(queue[i])

Listening == listeners \in [Keys -> Seq(Callbacks)] /\ \A key \in Keys : IsInjective(listeners[key])
Ended == ended # NoRound => ended \in Rounds /\ InOrder(ended) /\ ended.todo = <<>>

RoundsIInv == Listening /\ AllInOrder(rounds) /\ Ended

LEMMA RoundsAreCalledOnce == RoundsIInv => CalledOnce
<1> SUFFICES ASSUME RoundsIInv, ended # NoRound
             PROVE  /\ IsInjective(ended.called)
                    /\ ToSet(ended.called) \subseteq ToSet(ended.start)
                    /\ (ended.threw => ended.of \in Holders) => ended.kept \subseteq ToSet(ended.called)
  BY DEF CalledOnce
<1>1. InOrder(ended) /\ ended.todo = <<>>
  BY DEF RoundsIInv, Ended
<1>2. ToSet(ended.todo) = {}
  BY <1>1 DEF ToSet
<1> QED  BY <1>1, <1>2 DEF InOrder

LEMMA NothingInOrder == ToSet(<<>>) = {} /\ IsInjective(<<>>) /\ \A S : <<>> \in Seq(S)
  BY DEF ToSet, IsInjective

LEMMA RoundBegins ==
  ASSUME Listening, NEW key \in Keys
  PROVE  RoundOf(key) \in Rounds /\ InOrder(RoundOf(key))
<1> DEFINE r == RoundOf(key)
           list == listeners[key]
<1>1. list \in Seq(Callbacks) /\ IsInjective(list)
  BY DEF Listening
<1>2. r = [of |-> key, start |-> list, kept |-> ToSet(list), todo |-> list, called |-> <<>>,
           running |-> FALSE, threw |-> FALSE]
  <2>1. r = [NoRound EXCEPT !.of = key, !.start = list, !.todo = list, !.kept = ToSet(list)]
    BY DEF RoundOf
  <2> HIDE DEF r, list
  <2> QED  BY <2>1 DEF NoRound
<1> HIDE DEF r, list
<1>3. ToSet(list) \subseteq Callbacks
  BY <1>1 DEF ToSet
<1>4. r \in Rounds
  BY <1>1, <1>2, <1>3 DEF Rounds
<1>5. InOrder(r)
  BY <1>1, <1>2, NothingInOrder DEF InOrder
<1> QED  BY <1>4, <1>5 DEF r

(* The next of a round is called.                                          *)
LEMMA RoundCalls ==
  ASSUME NEW r \in Rounds, InOrder(r), r.todo # <<>>
  PROVE  LET next == [r EXCEPT !.todo = Tail(@), !.running = TRUE,
                               !.called = Append(@, Head(r.todo))] IN
         next \in Rounds /\ InOrder(next)
<1> DEFINE first == Head(r.todo)
           rest == Tail(r.todo)
           called == Append(r.called, first)
           next == [r EXCEPT !.todo = rest, !.running = TRUE, !.called = called]
<1>1. r.todo \in Seq(Callbacks) /\ r.called \in Seq(Callbacks)
  BY DEF Rounds
<1>2. /\ first \in Callbacks /\ rest \in Seq(Callbacks) /\ IsInjective(rest)
      /\ first \in ToSet(r.todo) /\ ToSet(rest) = ToSet(r.todo) \ {first}
  BY <1>1, TakingFirst DEF InOrder
<1> HIDE DEF first, rest
<1>3. first \notin ToSet(r.called)
  BY <1>2 DEF InOrder
<1>4. called \in Seq(Callbacks) /\ IsInjective(called) /\ ToSet(called) = ToSet(r.called) \cup {first}
  BY <1>1, <1>2, <1>3, AppendingNew DEF InOrder
<1> HIDE DEF called
<1>5. /\ next \in Rounds /\ next.of = r.of /\ next.start = r.start /\ next.kept = r.kept
      /\ next.todo = rest /\ next.called = called /\ next.threw = r.threw
  BY <1>2, <1>4 DEF Rounds
<1> HIDE DEF next
<1>6. InOrder(next)
  BY <1>2, <1>4, <1>5 DEF InOrder
<1> QED  BY <1>5, <1>6 DEF next, first, rest, called

LEMMA RoundReturns ==
  ASSUME NEW r \in Rounds, InOrder(r)
  PROVE  LET next == [r EXCEPT !.running = FALSE] IN next \in Rounds /\ InOrder(next)
<1> DEFINE next == [r EXCEPT !.running = FALSE]
<1>1. /\ next \in Rounds /\ next.of = r.of /\ next.start = r.start /\ next.kept = r.kept
      /\ next.todo = r.todo /\ next.called = r.called /\ next.threw = r.threw
  BY DEF Rounds
<1> HIDE DEF next
<1>2. InOrder(next)
  BY <1>1 DEF InOrder
<1> QED  BY <1>1, <1>2 DEF next

(* A listener of a Barq that throws ends its round; what a listener of a   *)
(* holder throws does not.                                                 *)
LEMMA RoundThrows ==
  ASSUME NEW r \in Rounds, InOrder(r), NEW todo,
         \/ r.of \in Events /\ todo = <<>>
         \/ r.of \in Holders /\ todo = r.todo
  PROVE  LET next == [r EXCEPT !.running = FALSE, !.threw = TRUE, !.todo = todo] IN
         next \in Rounds /\ InOrder(next)
<1> DEFINE next == [r EXCEPT !.running = FALSE, !.threw = TRUE, !.todo = todo]
<1>1. todo \in Seq(Callbacks)
  <2>1. r.todo \in Seq(Callbacks)
    BY DEF Rounds
  <2> QED  BY <2>1, NothingInOrder
<1>2. /\ next \in Rounds /\ next.of = r.of /\ next.start = r.start /\ next.kept = r.kept
      /\ next.todo = todo /\ next.called = r.called /\ next.threw = TRUE
  BY <1>1 DEF Rounds
<1> HIDE DEF next
<1>3. CASE r.of \in Events /\ todo = <<>>
  <2>1. r.of \notin Holders
    BY <1>3, BarqInstanceAssumption
  <2> QED  BY <1>2, <1>3, <2>1, NothingInOrder DEF InOrder, next
<1>4. CASE r.of \in Holders /\ todo = r.todo
  <2>1. InOrder(next)
    BY <1>2, <1>4 DEF InOrder
  <2> QED  BY <1>2, <2>1 DEF next
<1> QED  BY <1>3, <1>4

(* Listeners that are gone are missed by no round; an engine does not call *)
(* what was unregistered.                                                  *)
LEMMA RoundForgets ==
  ASSUME NEW r \in Rounds, InOrder(r), NEW gone
  PROVE  LET next == [r EXCEPT !.kept = @ \ gone] IN next \in Rounds /\ InOrder(next)
<1> DEFINE next == [r EXCEPT !.kept = @ \ gone]
<1>1. /\ next \in Rounds /\ next.of = r.of /\ next.start = r.start /\ next.kept = r.kept \ gone
      /\ next.todo = r.todo /\ next.called = r.called /\ next.threw = r.threw
  BY DEF Rounds
<1> HIDE DEF next
<1>2. InOrder(next)
  BY <1>1 DEF InOrder
<1> QED  BY <1>1, <1>2 DEF next

LEMMA RoundLoses ==
  ASSUME NEW r \in Rounds, InOrder(r), NEW callback
  PROVE  LET next == [r EXCEPT !.kept = @ \ {callback}, !.todo = RemoveFirst(@, callback)] IN
         next \in Rounds /\ InOrder(next)
<1> DEFINE left == RemoveFirst(r.todo, callback)
           stay == r.kept \ {callback}
           next == [r EXCEPT !.kept = stay, !.todo = left]
<1>1. r.todo \in Seq(Callbacks)
  BY DEF Rounds
<1>2. left \in Seq(Callbacks) /\ IsInjective(left) /\ ToSet(left) = ToSet(r.todo) \ {callback}
  BY <1>1, Dropping DEF InOrder
<1>0. stay \in SUBSET Callbacks
  BY DEF Rounds
<1> HIDE DEF left, stay
<1>3. /\ next \in Rounds /\ next.of = r.of /\ next.start = r.start
      /\ next.kept = stay
      /\ next.todo = left /\ next.called = r.called /\ next.threw = r.threw
  BY <1>0, <1>2 DEF Rounds
<1> HIDE DEF next
<1>4. InOrder(next)
  BY <1>2, <1>3 DEF InOrder, stay
<1> QED  BY <1>3, <1>4 DEF next, left, stay

LEMMA RoundLosesAll ==
  ASSUME NEW r \in Rounds, InOrder(r)
  PROVE  LET next == [r EXCEPT !.kept = {}, !.todo = <<>>] IN next \in Rounds /\ InOrder(next)
<1> DEFINE none == <<>>
           nobody == {}
           next == [r EXCEPT !.kept = nobody, !.todo = none]
<1>1. none \in Seq(Callbacks) /\ nobody \in SUBSET Callbacks
  BY NothingInOrder
<1> HIDE DEF none, nobody
<1>2. /\ next \in Rounds /\ next.of = r.of /\ next.start = r.start /\ next.kept = nobody
      /\ next.todo = none /\ next.called = r.called /\ next.threw = r.threw
  BY <1>1 DEF Rounds
<1> HIDE DEF next
<1>3. InOrder(next)
  BY <1>2, NothingInOrder DEF InOrder, none, nobody
<1> QED  BY <1>2, <1>3 DEF next, none, nobody

-----------------------------------------------------------------------------
(* Steps on the listeners                                                  *)

(* The listeners of each key remain lists of callbacks, each once.         *)
LEMMA ListenersKept ==
  ASSUME Listening, NEW key \in Keys, NEW list \in Seq(Callbacks), IsInjective(list),
         listeners' = [listeners EXCEPT ![key] = list]
  PROVE  Listening'
<1>1. listeners' \in [Keys -> Seq(Callbacks)]
  BY DEF Listening
<1>2. \A k \in Keys : listeners'[k] = IF k = key THEN list ELSE listeners[k]
  BY DEF Listening
<1> QED  BY <1>1, <1>2 DEF Listening, IsInjective

(* A round replaces the innermost.                                         *)
LEMMA InnermostKept ==
  ASSUME AllInOrder(rounds), rounds # <<>>, NEW r \in Rounds, InOrder(r)
  PROVE  AllInOrder(Innermost(r))
<1> DEFINE n == Len(rounds)
           queue == Innermost(r)
<1>1. n \in Nat /\ n > 0 /\ rounds \in Seq(Rounds)
  BY DEF AllInOrder
<1>2. queue \in Seq(Rounds) /\ Len(queue) = n /\ \A i \in 1..n : queue[i] = IF i = n THEN r ELSE rounds[i]
  BY <1>1, ExceptSeq DEF Innermost
<1> HIDE DEF queue
<1>3. \A i \in 1..n : InOrder(rounds[i])
  BY DEF AllInOrder
<1> QED  BY <1>2, <1>3 DEF AllInOrder, queue

LEMMA LastIsInOrder ==
  ASSUME AllInOrder(rounds), rounds # <<>>
  PROVE  Last(rounds) \in Rounds /\ InOrder(Last(rounds))
<1>1. Len(rounds) \in 1..Len(rounds) /\ rounds \in Seq(Rounds)
  BY DEF AllInOrder
<1> QED  BY <1>1 DEF AllInOrder, Last

(* Each round is replaced.                                                 *)
LEMMA EachKept ==
  ASSUME AllInOrder(rounds), NEW queue, queue = [i \in DOMAIN rounds |-> queue[i]],
         \A i \in DOMAIN rounds : queue[i] \in Rounds /\ InOrder(queue[i])
  PROVE  AllInOrder(queue)
<1>1. DOMAIN rounds = 1..Len(rounds) /\ Len(rounds) \in Nat
  BY DEF AllInOrder
<1>2. queue \in Seq(Rounds) /\ Len(queue) = Len(rounds)
  BY <1>1
<1> QED  BY <1>1, <1>2 DEF AllInOrder

LEMMA RoundAdded ==
  ASSUME AllInOrder(rounds), NEW r \in Rounds, InOrder(r)
  PROVE  AllInOrder(Append(rounds, r))
<1> DEFINE n == Len(rounds)
           queue == Append(rounds, r)
<1>1. n \in Nat /\ rounds \in Seq(Rounds)
  BY DEF AllInOrder
<1>2. /\ queue \in Seq(Rounds) /\ Len(queue) = n + 1
      /\ queue[n + 1] = r /\ \A i \in 1..n : queue[i] = rounds[i]
  BY <1>1, AppendProperties
<1> HIDE DEF queue, n
<1>3. \A i \in 1..(n + 1) : i \in 1..n \/ i = n + 1
  BY <1>1
<1>4. \A i \in 1..n : InOrder(rounds[i])
  BY DEF AllInOrder, n
<1>5. \A i \in 1..(n + 1) : InOrder(queue[i])
  BY <1>2, <1>3, <1>4
<1> QED  BY <1>2, <1>5 DEF AllInOrder, queue

LEMMA RoundTaken ==
  ASSUME AllInOrder(rounds), rounds # <<>>
  PROVE  AllInOrder(Front(rounds))
<1> DEFINE n == Len(rounds)
<1>1. n \in Nat /\ n > 0 /\ rounds \in Seq(Rounds)
  BY DEF AllInOrder
<1>2. /\ Front(rounds) \in Seq(Rounds) /\ Len(Front(rounds)) = n - 1
      /\ \A i \in 1..(n - 1) : Front(rounds)[i] = rounds[i]
  <2>1. n - 1 \in Nat /\ 1 \in Int /\ n - 1 \in Int
    BY <1>1
  <2>2. \A i \in 1..(n - 1) : rounds[i] \in Rounds
    BY <1>1
  <2>3. /\ Len(SubSeq(rounds, 1, n - 1)) = n - 1 /\ SubSeq(rounds, 1, n - 1) \in Seq(Rounds)
        /\ \A i \in 1..(n - 1) : SubSeq(rounds, 1, n - 1)[i] = rounds[i]
    <3> HIDE DEF n
    <3> DEFINE m == n - 1
    <3>1. m \in Nat /\ (IF 1 <= m THEN m - 1 + 1 ELSE 0) = m /\ m - 1 + 1 = m
          /\ \A i \in 1..m : 1 + i - 1 = i
      BY <2>1
    <3> HIDE DEF m
    <3>2. /\ SubSeq(rounds, 1, m) \in Seq(Rounds)
          /\ Len(SubSeq(rounds, 1, m)) = IF 1 <= m THEN m - 1 + 1 ELSE 0
          /\ \A i \in 1..(m - 1 + 1) : SubSeq(rounds, 1, m)[i] = rounds[1 + i - 1]
      <4>1. \A i \in 1..m : rounds[i] \in Rounds
        BY <2>2 DEF m
      <4>2. m \in Int /\ 1 \in Int
        BY <3>1
      <4> QED  BY ONLY <4>1, <4>2, SubSeqProperties
    <3>3. /\ Len(SubSeq(rounds, 1, m)) = m
          /\ \A i \in 1..m : SubSeq(rounds, 1, m)[i] = rounds[i]
      BY <3>1, <3>2
    <3> QED  BY <3>2, <3>3 DEF m
  <2> QED  BY <2>3 DEF Front
<1>3. \A i \in 1..(n - 1) : InOrder(rounds[i])
  BY <1>1 DEF AllInOrder
<1> QED  BY <1>2, <1>3 DEF AllInOrder

LEMMA NothingEnded == ended' = NoRound => Ended'
  BY DEF Ended

LEMMA StillInOrder == AllInOrder(rounds') => AllInOrder(rounds)'
  BY DEF AllInOrder, InOrder, IsInjective, ToSet, Rounds

(* Notifications and the calls they make.                                  *)
LEMMA RoundsGoOn ==
  ASSUME RoundsIInv, \/ \E key \in Keys : BeginRound(key)
                     \/ CallNext \/ CallbackReturns \/ EndRound
                     \/ BarqListenerThrows \/ HolderListenerThrows
  PROVE  RoundsIInv'
<1> USE DEF RoundsIInv
<1> DEFINE last == Last(rounds)
<1>1. ASSUME NEW key \in Keys, BeginRound(key) PROVE RoundsIInv'
  <2> DEFINE r == RoundOf(key)
  <2>1. /\ UNCHANGED listeners /\ ended' = NoRound /\ rounds' = <<r>>
    BY <1>1 DEF BeginRound
  <2>2. r \in Rounds /\ InOrder(r)
    BY RoundBegins
  <2> HIDE DEF r
  <2>3. AllInOrder(rounds')
    <3>1. <<r>> \in Seq(Rounds) /\ Len(<<r>>) = 1 /\ <<r>>[1] = r
      BY <2>2
    <3> QED  BY <2>1, <2>2, <3>1 DEF AllInOrder
  <2>4. Listening'
    BY <2>1 DEF Listening
  <2> QED  BY <2>1, <2>3, <2>4, NothingEnded, StillInOrder
<1>2. ASSUME rounds # <<>> PROVE last \in Rounds /\ InOrder(last)
  BY <1>2, LastIsInOrder
<1>3. ASSUME NEW r \in Rounds, InOrder(r), rounds # <<>>, rounds' = Innermost(r), UNCHANGED listeners,
             ended' \in {NoRound, ended}
      PROVE  RoundsIInv'
  <2>1. AllInOrder(rounds)'
    BY <1>3, InnermostKept, StillInOrder
  <2>2. Listening'
    BY <1>3 DEF Listening
  <2>3. Ended'
    BY <1>3 DEF Ended, InOrder
  <2> QED  BY <2>1, <2>2, <2>3
<1>4. CASE CallNext
  <2> DEFINE r == [last EXCEPT !.todo = Tail(@), !.running = TRUE,
                               !.called = Append(@, Head(last.todo))]
  <2>1. /\ rounds # <<>> /\ last.todo # <<>> /\ rounds' = Innermost(r)
        /\ UNCHANGED listeners /\ ended' = NoRound
    BY <1>4 DEF CallNext
  <2> HIDE DEF last
  <2>2. r \in Rounds /\ InOrder(r)
    BY <1>2, <2>1, RoundCalls
  <2> HIDE DEF r
  <2> QED  BY <1>3, <2>1, <2>2
<1>5. CASE CallbackReturns
  <2> DEFINE r == [last EXCEPT !.running = FALSE]
  <2>1. rounds # <<>> /\ rounds' = Innermost(r) /\ UNCHANGED <<listeners, ended>>
    BY <1>5 DEF CallbackReturns
  <2> HIDE DEF last
  <2>2. r \in Rounds /\ InOrder(r)
    BY <1>2, <2>1, RoundReturns
  <2> HIDE DEF r
  <2> QED  BY <1>3, <2>1, <2>2
<1>6. CASE BarqListenerThrows \/ HolderListenerThrows
  <2>1. PICK todo : /\ ListenerThrows(todo) /\ rounds # <<>>
                    /\ \/ last.of \in Events /\ todo = <<>>
                       \/ last.of \in Holders /\ todo = last.todo
    BY <1>6 DEF BarqListenerThrows, HolderListenerThrows
  <2> DEFINE r == [last EXCEPT !.running = FALSE, !.threw = TRUE, !.todo = todo]
  <2>2. rounds' = Innermost(r) /\ UNCHANGED <<listeners, ended>>
    BY <2>1 DEF ListenerThrows
  <2> HIDE DEF last
  <2>3. r \in Rounds /\ InOrder(r)
    BY <1>2, <2>1, RoundThrows
  <2> HIDE DEF r
  <2> QED  BY <1>3, <2>1, <2>2, <2>3
<1>7. CASE EndRound
  <2>1. /\ rounds # <<>> /\ last.todo = <<>> /\ rounds' = Front(rounds) /\ ended' = last
        /\ UNCHANGED listeners
    BY <1>7 DEF EndRound
  <2>2. AllInOrder(rounds)'
    BY <2>1, RoundTaken, StillInOrder
  <2>3. Listening'
    BY <2>1 DEF Listening
  <2> HIDE DEF last
  <2>4. Ended'
    BY <1>2, <2>1 DEF Ended, InOrder
  <2> QED  BY <2>2, <2>3, <2>4
<1> QED  BY <1>1, <1>4, <1>5, <1>6, <1>7

(* What the application does to the listeners.                             *)
LEMMA ListenersComeAndGo ==
  ASSUME RoundsIInv,
         \/ \E event \in Events, callback \in Callbacks :
              AddBarqListener(event, callback) \/ RemoveBarqListener(event, callback)
         \/ \E events \in {{event} : event \in Events} \cup {Events} : RemoveAllBarqListeners(events)
         \/ \E holder \in Holders, callback \in Callbacks :
              AddHolderListener(holder, callback) \/ RemoveHolderListener(holder, callback)
         \/ \E holder \in Holders : RemoveAllHolderListeners(holder)
  PROVE  RoundsIInv'
<1> USE DEF RoundsIInv
<1>1. \A i \in DOMAIN rounds : rounds[i] \in Rounds /\ InOrder(rounds[i])
  BY DEF AllInOrder
<1>2. ASSUME NEW key \in Keys, NEW c \in Callbacks, ~Contains(listeners[key], c),
             listeners' = [listeners EXCEPT ![key] = Append(@, c)]
      PROVE  Listening'
  <2>1. listeners[key] \in Seq(Callbacks) /\ IsInjective(listeners[key])
    BY DEF Listening
  <2>2. c \notin ToSet(listeners[key])
    BY <1>2, <2>1 DEF Contains, ToSet
  <2>3. Append(listeners[key], c) \in Seq(Callbacks) /\ IsInjective(Append(listeners[key], c))
    BY <2>1, <2>2, AppendingNew
  <2> QED  BY <1>2, <2>3, ListenersKept
<1>3. ASSUME NEW key \in Keys, NEW c, Drop(key, c)
      PROVE  Listening' /\ Ended'
  <2>1. listeners[key] \in Seq(Callbacks) /\ IsInjective(listeners[key])
    BY DEF Listening
  <2>2. RemoveFirst(listeners[key], c) \in Seq(Callbacks) /\ IsInjective(RemoveFirst(listeners[key], c))
    BY <2>1, Dropping
  <2>3. listeners' = [listeners EXCEPT ![key] = RemoveFirst(listeners[key], c)] /\ ended' = NoRound
    BY <1>3 DEF Drop
  <2> QED  BY <2>2, <2>3, ListenersKept, NothingEnded
<1>4. ASSUME NEW keys, DropAll(keys)
      PROVE  Listening' /\ Ended'
  <2>1. /\ listeners' = [key \in DOMAIN listeners |-> IF key \in keys THEN <<>> ELSE listeners[key]]
        /\ ended' = NoRound
    BY <1>4 DEF DropAll
  <2>2. DOMAIN listeners = Keys
    BY DEF Listening
  <2>3. \A key \in Keys : listeners'[key] \in Seq(Callbacks) /\ IsInjective(listeners'[key])
    BY <2>1, <2>2, NothingInOrder DEF Listening
  <2>4. Listening'
    BY <2>1, <2>2, <2>3 DEF Listening, IsInjective
  <2> QED  BY <2>1, <2>4, NothingEnded
<1>5. ASSUME NEW keys, NEW gone PROVE AllInOrder(Forgotten(keys, gone))
  <2> DEFINE queue == Forgotten(keys, gone)
  <2>1. ASSUME NEW i \in DOMAIN rounds PROVE queue[i] \in Rounds /\ InOrder(queue[i])
    <3> DEFINE r == rounds[i]
               next == [r EXCEPT !.kept = @ \ gone]
    <3>1. r \in Rounds /\ InOrder(r)
      BY <1>1
    <3>2. queue[i] = IF r.of \in keys THEN next ELSE r
      BY DEF Forgotten
    <3> HIDE DEF r, queue
    <3>3. next \in Rounds /\ InOrder(next)
      BY <3>1, RoundForgets
    <3> HIDE DEF next
    <3> QED  BY <3>1, <3>2, <3>3
  <2>2. queue = [i \in DOMAIN rounds |-> queue[i]]
    BY DEF Forgotten
  <2> HIDE DEF queue
  <2>3. AllInOrder(queue)
    BY <2>1, <2>2, EachKept
  <2> QED  BY <2>3 DEF queue
<1>6. ASSUME NEW holder, NEW callback PROVE AllInOrder(Unregistered(holder, callback))
  <2> DEFINE queue == Unregistered(holder, callback)
  <2>1. ASSUME NEW i \in DOMAIN rounds PROVE queue[i] \in Rounds /\ InOrder(queue[i])
    <3> DEFINE r == rounds[i]
               next == [r EXCEPT !.kept = @ \ {callback}, !.todo = RemoveFirst(@, callback)]
    <3>1. r \in Rounds /\ InOrder(r)
      BY <1>1
    <3>2. queue[i] = IF r.of = holder THEN next ELSE r
      BY DEF Unregistered
    <3> HIDE DEF r, queue
    <3>3. next \in Rounds /\ InOrder(next)
      BY <3>1, RoundLoses
    <3> HIDE DEF next
    <3> QED  BY <3>1, <3>2, <3>3
  <2>2. queue = [i \in DOMAIN rounds |-> queue[i]]
    BY DEF Unregistered
  <2> HIDE DEF queue
  <2>3. AllInOrder(queue)
    BY <2>1, <2>2, EachKept
  <2> QED  BY <2>3 DEF queue
<1>7. ASSUME NEW holder PROVE AllInOrder(AllUnregistered(holder))
  <2> DEFINE queue == AllUnregistered(holder)
  <2>1. ASSUME NEW i \in DOMAIN rounds PROVE queue[i] \in Rounds /\ InOrder(queue[i])
    <3> DEFINE r == rounds[i]
               next == [r EXCEPT !.kept = {}, !.todo = <<>>]
    <3>1. r \in Rounds /\ InOrder(r)
      BY <1>1
    <3>2. queue[i] = IF r.of = holder THEN next ELSE r
      BY DEF AllUnregistered
    <3> HIDE DEF r, queue
    <3>3. next \in Rounds /\ InOrder(next)
      BY <3>1, RoundLosesAll
    <3> HIDE DEF next
    <3> QED  BY <3>1, <3>2, <3>3
  <2>2. queue = [i \in DOMAIN rounds |-> queue[i]]
    BY DEF AllUnregistered
  <2> HIDE DEF queue
  <2>3. AllInOrder(queue)
    BY <2>1, <2>2, EachKept
  <2> QED  BY <2>3 DEF queue
<1>8. Events \subseteq Keys /\ Holders \subseteq Keys
  BY DEF Keys
<1>9. ASSUME NEW event \in Events, NEW c \in Callbacks, AddBarqListener(event, c) PROVE RoundsIInv'
  <2>1. rounds' = [i \in DOMAIN rounds |->
                     IF rounds[i].of = event THEN [rounds[i] EXCEPT !.todo = @] ELSE rounds[i]]
    BY <1>9 DEF AddBarqListener, AfterAdding
  <2>2. ASSUME NEW i \in DOMAIN rounds PROVE rounds'[i] = rounds[i]
    <3>1. rounds[i] \in Rounds
      BY <1>1
    <3>2. [rounds[i] EXCEPT !.todo = @] = rounds[i]
      <4> DEFINE r == rounds[i]
      <4> HIDE DEF r
      <4>1. r \in Rounds => [r EXCEPT !.todo = @] = r
        BY DEF Rounds
      <4> QED  BY <3>1, <4>1 DEF r
    <3> QED  BY <2>1, <3>2
  <2>3. AllInOrder(rounds')
    BY <1>1, <2>1, <2>2, EachKept
  <2>4. Listening'
    BY <1>2, <1>8, <1>9 DEF AddBarqListener
  <2>5. Ended'
    BY <1>9, NothingEnded DEF AddBarqListener
  <2> QED  BY <2>3, <2>4, <2>5, StillInOrder
<1>10. ASSUME NEW holder \in Holders, NEW c \in Callbacks, AddHolderListener(holder, c)
       PROVE  RoundsIInv'
  <2>1. UNCHANGED rounds /\ ended' = NoRound
    BY <1>10 DEF AddHolderListener
  <2>2. Listening'
    BY <1>2, <1>8, <1>10 DEF AddHolderListener
  <2> QED  BY <2>1, <2>2, NothingEnded, StillInOrder
<1>11. ASSUME NEW event \in Events, NEW c, RemoveBarqListener(event, c) PROVE RoundsIInv'
  <2>1. Drop(event, c) /\ rounds' = Forgotten({event}, {c})
    BY <1>11 DEF RemoveBarqListener
  <2> QED  BY <1>3, <1>5, <1>8, <2>1, StillInOrder
<1>12. ASSUME NEW events, RemoveAllBarqListeners(events) PROVE RoundsIInv'
  <2>1. DropAll(events) /\ rounds' = Forgotten(events, Callbacks)
    BY <1>12 DEF RemoveAllBarqListeners
  <2> QED  BY <1>4, <1>5, <2>1, StillInOrder
<1>13. ASSUME NEW holder \in Holders, NEW c, RemoveHolderListener(holder, c) PROVE RoundsIInv'
  <2>1. Drop(holder, c) /\ rounds' = Unregistered(holder, c)
    BY <1>13 DEF RemoveHolderListener
  <2> QED  BY <1>3, <1>6, <1>8, <2>1, StillInOrder
<1>14. ASSUME NEW holder \in Holders, RemoveAllHolderListeners(holder) PROVE RoundsIInv'
  <2>1. DropAll({holder}) /\ rounds' = AllUnregistered(holder)
    BY <1>14 DEF RemoveAllHolderListeners
  <2> QED  BY <1>4, <1>7, <2>1, StillInOrder
<1> QED  BY <1>9, <1>10, <1>11, <1>12, <1>13, <1>14

LEMMA RoundsInitially == BarqInit => RoundsIInv
<1> SUFFICES ASSUME BarqInit PROVE RoundsIInv
  OBVIOUS
<1>1. listeners = [key \in Keys |-> <<>>] /\ rounds = <<>> /\ ended = NoRound
  BY DEF BarqInit, Keys
<1>2. Listening
  BY <1>1, NothingInOrder DEF Listening
<1>3. AllInOrder(rounds)
  BY <1>1, NothingInOrder DEF AllInOrder
<1> QED  BY <1>1, <1>2, <1>3 DEF RoundsIInv, Ended

LEMMA RoundsStep == RoundsIInv /\ [BarqNext]_barqVars => RoundsIInv'
<1> SUFFICES ASSUME RoundsIInv, [BarqNext]_barqVars
             PROVE  RoundsIInv'
  OBVIOUS
<1>1. Events \subseteq Keys /\ Holders \subseteq Keys
  BY DEF Keys
<1>2. ASSUME UNCHANGED <<listeners, rounds>>, ended' \in {NoRound, ended}
      PROVE  RoundsIInv'
  BY <1>2, StillInOrder DEF RoundsIInv, Listening, Ended, InOrder
<1>3. ASSUME NEW internal, SchemaDidChange(internal), UNCHANGED listeners, ended' = NoRound
      PROVE  RoundsIInv'
  <2>1. "schema" \in Keys
    BY DEF Keys, Events
  <2>2. RoundOf("schema") \in Rounds /\ InOrder(RoundOf("schema"))
    BY <2>1, RoundBegins DEF RoundsIInv
  <2>3. rounds' \in {rounds, Append(rounds, RoundOf("schema"))}
    BY <1>3 DEF SchemaDidChange
  <2>4. AllInOrder(rounds')
    BY <2>2, <2>3, RoundAdded DEF RoundsIInv
  <2>5. Listening'
    BY <1>3 DEF RoundsIInv, Listening
  <2> QED  BY <1>3, <2>4, <2>5, StillInOrder, NothingEnded DEF RoundsIInv
<1>4. ASSUME NEW declarations, UpdateSchema(declarations) PROVE RoundsIInv'
  BY <1>3, <1>4 DEF UpdateSchema
<1>5. ASSUME NEW name, DeleteModel(name) PROVE RoundsIInv'
  BY <1>3, <1>5 DEF DeleteModel
<1>6. CASE BeginTransaction \/ CommitTransaction \/ Close
  BY <1>2, <1>6 DEF BeginTransaction, CommitTransaction, Close
<1>7. ASSUME NEW key \in Keys, BeginRound(key) PROVE RoundsIInv'
  BY <1>7, RoundsGoOn
<1>8. CASE (\E event \in Events : NotifyBarq(event)) \/ (\E holder \in Holders : NotifyHolder(holder))
  BY <1>1, <1>7, <1>8 DEF NotifyBarq, NotifyHolder
<1>9. CASE UNCHANGED barqVars
  BY <1>2, <1>9 DEF barqVars
<1> QED  BY <1>4, <1>5, <1>6, <1>8, <1>9, RoundsGoOn, ListenersComeAndGo DEF BarqNext

(* Whatever the listeners of a notification do to the listeners, each that *)
(* was there when it began and has stayed is called, none is called twice, *)
(* and none that was added on the way is, unless a listener of the Barq    *)
(* itself throws (BarqListeners.ts:58, Listeners.ts:36, Collection.ts:86). *)
THEOREM EachCalledOnce == BarqSpec => []CalledOnce
<1> QED  BY RoundsInitially, RoundsStep, RoundsAreCalledOnce, PTL DEF BarqSpec

-----------------------------------------------------------------------------
(* Classes                                                                 *)

(* The class map was made of the schema the engine has, which is that of   *)
(* the last declarations.                                                  *)
ClassesIInv ==
  /\ internalSchema = ToBinding(declared)
  /\ classes = NewClassMap(internalSchema, CanonicalSchema(internalSchema, schemaExtras))

LEMMA ClassesInitially == BarqInit => ClassesIInv
  BY DEF BarqInit, ClassesIInv

LEMMA ClassesOfSchema == ClassesIInv => ClassesAreOfSchema
<1> SUFFICES ASSUME ClassesIInv
             PROVE  /\ DOMAIN classes = DOMAIN internalSchema
                    /\ \A m \in DOMAIN internalSchema :
                         /\ classes[m].names = declared[m].properties
                         /\ m \in DOMAIN schemaExtras /\ declared[m].default = schemaExtras[m] =>
                              classes[m].default = declared[m].default
  BY DEF ClassesAreOfSchema
<1>1. DOMAIN internalSchema = DOMAIN declared
      /\ \A m \in DOMAIN internalSchema : internalSchema[m] = declared[m].properties
  BY DEF ClassesIInv, ToBinding
<1>2. DOMAIN classes = DOMAIN internalSchema
      /\ \A m \in DOMAIN internalSchema :
           /\ classes[m].names = internalSchema[m]
           /\ classes[m].default = IF m \in DOMAIN schemaExtras THEN schemaExtras[m] ELSE NoDefault
  BY DEF ClassesIInv, NewClassMap, PropertyMap, CanonicalSchema
<1> QED  BY <1>1, <1>2

LEMMA ClassesStep == ClassesIInv /\ [BarqNext]_barqVars => ClassesIInv'
<1> SUFFICES ASSUME ClassesIInv, [BarqNext]_barqVars
             PROVE  ClassesIInv'
  OBVIOUS
<1>1. ASSUME UNCHANGED <<internalSchema, declared, schemaExtras, classes>>
      PROVE  ClassesIInv'
  BY <1>1 DEF ClassesIInv, ToBinding, NewClassMap, PropertyMap, CanonicalSchema
<1>2. ASSUME NEW internal, SchemaDidChange(internal), internal = ToBinding(declared'),
             UNCHANGED schemaExtras
      PROVE  ClassesIInv'
  <2>1. /\ internalSchema' = internal
        /\ classes' = NewClassMap(internal, CanonicalSchema(internal, schemaExtras))
    BY <1>2 DEF SchemaDidChange, ClassesFor
  <2> QED  BY <1>2, <2>1 DEF ClassesIInv, ToBinding, NewClassMap, PropertyMap, CanonicalSchema
<1>3. ASSUME NEW declarations, UpdateSchema(declarations) PROVE ClassesIInv'
  BY <1>2, <1>3 DEF UpdateSchema
<1>4. ASSUME NEW name, DeleteModel(name) PROVE ClassesIInv'
  <2> DEFINE internal == [m \in DOMAIN internalSchema \ {name} |-> internalSchema[m]]
  <2>1. /\ declared' = [m \in DOMAIN declared \ {name} |-> declared[m]]
        /\ SchemaDidChange(internal) /\ UNCHANGED schemaExtras
    BY <1>4 DEF DeleteModel
  <2>2. internal = ToBinding(declared')
    BY <2>1 DEF ClassesIInv, ToBinding
  <2> HIDE DEF internal
  <2> QED  BY <1>2, <2>1, <2>2
<1>5. CASE \/ \E event \in Events : NotifyBarq(event)
           \/ \E holder \in Holders : NotifyHolder(holder)
           \/ CallNext \/ CallbackReturns \/ EndRound
           \/ BarqListenerThrows \/ HolderListenerThrows
  BY <1>1, <1>5 DEF NotifyBarq, NotifyHolder, BeginRound, CallNext, CallbackReturns, EndRound,
                    BarqListenerThrows, HolderListenerThrows, ListenerThrows
<1>6. CASE \/ \E event \in Events, callback \in Callbacks :
                AddBarqListener(event, callback) \/ RemoveBarqListener(event, callback)
           \/ \E events \in {{event} : event \in Events} \cup {Events} : RemoveAllBarqListeners(events)
           \/ \E holder \in Holders, callback \in Callbacks :
                AddHolderListener(holder, callback) \/ RemoveHolderListener(holder, callback)
           \/ \E holder \in Holders : RemoveAllHolderListeners(holder)
  <2>1. UNCHANGED <<internalSchema, declared, schemaExtras, classes>>
    BY <1>6 DEF AddBarqListener, RemoveBarqListener, RemoveAllBarqListeners, AddHolderListener,
                RemoveHolderListener, RemoveAllHolderListeners, Drop, DropAll
  <2> QED  BY <1>1, <2>1
<1>7. CASE BeginTransaction \/ CommitTransaction \/ Close
  BY <1>1, <1>7 DEF BeginTransaction, CommitTransaction, Close
<1>8. CASE UNCHANGED barqVars
  BY <1>1, <1>8 DEF barqVars
<1> QED  BY <1>3, <1>4, <1>5, <1>6, <1>7, <1>8 DEF BarqNext

-----------------------------------------------------------------------------
(* Class maps                                                              *)

(* The current map was made of the latest schema.                          *)
MapsIInv ==
  /\ modelsOf \in Seq(BarqSchemas) /\ modelsOf # <<>>
  /\ \E Mapped : maps \in Seq(Mapped)
  /\ Len(maps) = Len(modelsOf)
  /\ Current = NewMap(Last(modelsOf), Len(maps))
  /\ \A class \in wrappers : class.name \in ModelNames

(* In a schema each name stands for one model, and links stay within it.   *)
LEMMA SchemaIsWhole ==
  ASSUME NEW models \in BarqSchemas
  PROVE  /\ \A i \in DOMAIN models : models[i] \in ObjectSchemas
         /\ \A i, j \in DOMAIN models : models[i].name = models[j].name => i = j
         /\ \A i \in DOMAIN models : \A p \in DOMAIN models[i].properties :
              models[i].properties[p].objectType \in NamesIn(models) \cup {"none"}
  BY DEF BarqSchemas

(* What a new map has by the name of a model.                              *)
LEMMA MapHas ==
  ASSUME NEW models \in BarqSchemas, NEW n
  PROVE  /\ DOMAIN NewMap(models, n) = NamesIn(models)
         /\ \A i \in DOMAIN models :
              /\ NewMap(models, n)[models[i].name].class = CreateClass(models[i], n)
              /\ NewMap(models, n)[models[i].name].properties = InitializedFrom(models, models[i])
<1>1. ASSUME NEW i \in DOMAIN models
      PROVE  (CHOOSE j \in DOMAIN models : models[j].name = models[i].name) = i
  BY SchemaIsWhole
<1>2. \A i \in DOMAIN models : models[i].name \in NamesIn(models)
  BY DEF NamesIn
<1> QED  BY <1>1, <1>2 DEF NewMap, FoundBy

LEMMA ClassesAreMade ==
  ASSUME NEW model, NEW n
  PROVE  /\ CreateClass(model, n) # Refusal
         /\ CreateClass(model, n).map = n
         /\ CreateClass(model, n).name = model.name
<1>1. CreateClass(model, n).is = "class" /\ Refusal.is = "refusal"
  BY DEF CreateClass, Refusal
<1> QED  BY <1>1 DEF CreateClass

(* What is looked up by name is the class the current map has for it.      *)
LEMMA ByName ==
  ASSUME MapsIInv, NEW name
  PROVE  LET models == Last(modelsOf) IN
         /\ name \in NamesIn(models) =>
              \E i \in DOMAIN models : /\ models[i].name = name
                                       /\ GetByName(name) = CreateClass(models[i], Len(maps))
         /\ name \notin NamesIn(models) => GetByName(name) = Refusal
         /\ DOMAIN Current = NamesIn(models) /\ models \in BarqSchemas
<1> DEFINE models == Last(modelsOf)
           n == Len(maps)
<1>1. models \in BarqSchemas
  <2>1. Len(modelsOf) \in 1..Len(modelsOf)
    BY DEF MapsIInv
  <2> QED  BY <2>1 DEF MapsIInv, Last
<1>2. Current = NewMap(models, n)
  BY DEF MapsIInv
<1> HIDE DEF models, n
<1>3. DOMAIN Current = NamesIn(models)
  BY <1>1, <1>2, MapHas
<1>4. ASSUME NEW i \in DOMAIN models PROVE Current[models[i].name].class = CreateClass(models[i], n)
  BY <1>1, <1>2, MapHas
<1>5. name \in NamesIn(models) => \E i \in DOMAIN models : models[i].name = name
  BY DEF NamesIn
<1> QED  BY <1>1, <1>3, <1>4, <1>5 DEF GetByName, models, n

LEMMA MapsFindOwn == MapsIInv => LookupsFindOwn
<1> SUFFICES ASSUME MapsIInv PROVE LookupsFindOwn
  OBVIOUS
<1> DEFINE models == Last(modelsOf)
<1>1. ASSUME NEW class, GetByClass(class) # Refusal
      PROVE  /\ GetByClass(class).map = Len(maps)
             /\ class \in {GetByClass(class), GetByClass(class).extends}
  <2> DEFINE result == GetByName(StaticSchema(class))
  <2>1. /\ GetByClass(class) = result /\ result # Refusal
        /\ result = class \/ result.extends = class
    BY <1>1 DEF GetByClass, Registered
  <2>2. \E model : result = CreateClass(model, Len(maps))
    BY <2>1, ByName
  <2> HIDE DEF result
  <2> QED  BY <2>1, <2>2, ClassesAreMade
<1>2. ASSUME NEW class \in wrappers
      PROVE  /\ GetByObject(class) = GetByTableKey(TableKeyOf[class.name])
             /\ GetByObject(class) = Refusal <=> class.name \notin NamesIn(models)
  <2> DEFINE name == class.name
             key == TableKeyOf[name]
  <2>1. name \in ModelNames
    BY DEF MapsIInv
  <2>2. DOMAIN Current = NamesIn(models) /\ models \in BarqSchemas
    BY ByName
  <2>3. NamesIn(models) \subseteq ModelNames
    BY <2>2, SchemaIsWhole, ClassMapsAssumption DEF NamesIn
  <2> HIDE DEF models, name
  <2>4. \A other \in NamesIn(models) : TableKeyOf[other] = key => other = name
    BY <2>1, <2>3, ClassMapsAssumption
  <2>5. CASE name \in NamesIn(models)
    <3>1. key \in DOMAIN NameByTableKey /\ NameByTableKey[key] = name
      BY <2>2, <2>4, <2>5 DEF NameByTableKey
    <3>2. GetByName(name) # Refusal
      BY <2>5, ByName, ClassesAreMade DEF models
    <3> QED  BY <2>5, <3>1, <3>2 DEF GetByObject, GetByTableKey, name
  <2>6. CASE name \notin NamesIn(models)
    <3>1. key \notin DOMAIN NameByTableKey
      BY <2>2, <2>4, <2>6 DEF NameByTableKey
    <3>2. GetByName(name) = Refusal
      BY <2>6, ByName DEF models
    <3> QED  BY <2>6, <3>1, <3>2 DEF GetByObject, GetByTableKey, name
  <2> QED  BY <2>5, <2>6 DEF models, name
<1>3. ASSUME NEW i \in DOMAIN models, NEW p \in DOMAIN models[i].properties
      PROVE  LET helpers == Current[models[i].name].properties[p]
                 target == models[i].properties[p].objectType IN
             /\ helpers # Refusal
             /\ helpers.accessor # "linkingObjects"
             /\ target # "none" => helpers.embedded = (ModelOf(models, target).tableType = "Embedded")
  <2> DEFINE helpers == Current[models[i].name].properties[p]
             property == models[i].properties[p]
             target == property.objectType
             embedded == ModelOf(models, target).tableType = "Embedded"
  <2>1. models \in BarqSchemas
    BY ByName
  <2>2. Current = NewMap(models, Len(maps))
    BY DEF MapsIInv
  <2> HIDE DEF models
  <2>3. models[i] \in ObjectSchemas /\ target \in NamesIn(models) \cup {"none"}
    BY <2>1, SchemaIsWhole
  <2>4. Current[models[i].name].properties = InitializedFrom(models, models[i])
    BY <2>1, <2>2, MapHas
  <2>5. /\ target = "none" => helpers = CreatePropertyHelpers(property, FALSE)
        /\ target # "none" => helpers = CreatePropertyHelpers(property, embedded)
    BY <2>3, <2>4 DEF InitializedFrom
  <2> HIDE DEF helpers, embedded
  <2>6. \E e : helpers = CreatePropertyHelpers(property, e)
    BY <2>5
  <2>7. helpers.accessor = AccessorOf(property) /\ helpers # Refusal
    <3>1. ASSUME NEW e PROVE CreatePropertyHelpers(property, e) # Refusal
      <4>1. "accessor" \in DOMAIN CreatePropertyHelpers(property, e)
        BY DEF CreatePropertyHelpers
      <4>2. "accessor" \notin DOMAIN Refusal
        BY DEF Refusal
      <4> QED  BY <4>1, <4>2
    <3> QED  BY <2>6, <3>1 DEF CreatePropertyHelpers
  <2>8. AccessorOf(property) # "linkingObjects"
    <3>1. property.collection # "linkingObjects"
          /\ (property.item = "linkingObjects" => property.collection = "list")
      BY <2>3, ClassMapsAssumption
    <3> HIDE DEF property
    <3> QED  BY <3>1 DEF AccessorOf
  <2>9. target # "none" => helpers.embedded = embedded
    BY <2>5 DEF CreatePropertyHelpers
  <2> QED  BY <2>7, <2>8, <2>9 DEF helpers, embedded
<1> QED  BY <1>1, <1>2, <1>3 DEF LookupsFindOwn

LEMMA MapsInitially == ClassMapsInit => MapsIInv
<1> SUFFICES ASSUME ClassMapsInit PROVE MapsIInv
  OBVIOUS
<1>1. PICK models \in BarqSchemas : modelsOf = <<models>>
  BY DEF ClassMapsInit
<1>2. maps = <<NewMap(models, 1)>> /\ wrappers = {}
  BY <1>1 DEF ClassMapsInit
<1>3. /\ modelsOf \in Seq(BarqSchemas) /\ modelsOf # <<>> /\ Len(modelsOf) = 1
      /\ Last(modelsOf) = models
  BY <1>1 DEF Last
<1>4. maps \in Seq({NewMap(models, 1)}) /\ Len(maps) = 1 /\ Current = NewMap(models, 1)
  <2> DEFINE map == NewMap(models, 1)
  <2> HIDE DEF map
  <2>1. <<map>> \in Seq({map}) /\ Len(<<map>>) = 1 /\ <<map>>[1] = map
    OBVIOUS
  <2> QED  BY <1>2, <2>1 DEF Current, map
<1> QED  BY <1>2, <1>3, <1>4 DEF MapsIInv

LEMMA MapsStep == MapsIInv /\ [ClassMapsNext]_classMapVars => MapsIInv'
<1> SUFFICES ASSUME MapsIInv, [ClassMapsNext]_classMapVars
             PROVE  MapsIInv'
  OBVIOUS
<1>1. ASSUME UNCHANGED <<modelsOf, maps>>, \A class \in wrappers' : class.name \in ModelNames
      PROVE  MapsIInv'
  BY <1>1 DEF MapsIInv, Current, Last
<1>2. CASE SchemaChanges
  <2> DEFINE n == Len(maps)
  <2>1. PICK models \in BarqSchemas :
          /\ modelsOf' = Append(modelsOf, models)
          /\ maps' = Append(maps, NewMap(models, n + 1))
    BY <1>2 DEF SchemaChanges
  <2> DEFINE map == NewMap(models, n + 1)
  <2>2. n \in Nat /\ Len(modelsOf) = n /\ modelsOf \in Seq(BarqSchemas)
    BY DEF MapsIInv
  <2>3. PICK Mapped : maps \in Seq(Mapped)
    BY DEF MapsIInv
  <2> DEFINE S == Mapped \cup {map}
  <2>4. maps \in Seq(S) /\ map \in S
    BY <2>3, SeqMonotonic
  <2> HIDE DEF S, map
  <2>5. maps' \in Seq(S) /\ Len(maps') = n + 1 /\ maps'[n + 1] = map
    BY <2>1, <2>4, AppendProperties DEF map
  <2> HIDE DEF n
  <2>6. /\ modelsOf' \in Seq(BarqSchemas) /\ Len(modelsOf') = n + 1 /\ modelsOf'[n + 1] = models
        /\ modelsOf' # <<>>
    BY <2>1, <2>2, AppendProperties
  <2>7. maps'[Len(maps')] = NewMap(modelsOf'[Len(modelsOf')], Len(maps'))
    BY <2>5, <2>6 DEF map
  <2>8. \E M : maps' \in Seq(M)
    BY <2>5
  <2>9. modelsOf' \in Seq(BarqSchemas)'
    BY <2>6
  <2> QED  BY <1>2, <2>5, <2>6, <2>7, <2>8, <2>9 DEF MapsIInv, Current, Last, SchemaChanges
<1>3. ASSUME NEW name \in ModelNames, WrapObject(name) PROVE MapsIInv'
  <2>1. /\ name \in DOMAIN Current /\ wrappers' = wrappers \cup {Current[name].class}
        /\ UNCHANGED <<modelsOf, maps>>
    BY <1>3 DEF WrapObject
  <2>2. GetByName(name).name = name /\ GetByName(name) = Current[name].class
    BY <2>1, ByName, ClassesAreMade DEF GetByName
  <2>3. \A class \in wrappers' : class.name \in ModelNames
    BY <2>1, <2>2 DEF MapsIInv
  <2> QED  BY <1>1, <2>1, <2>3
<1>4. CASE UNCHANGED classMapVars
  BY <1>1, <1>4 DEF classMapVars, MapsIInv
<1> QED  BY <1>2, <1>3, <1>4 DEF ClassMapsNext

(* Wherever application code runs, each model has a class with exactly its *)
(* properties and, while its declaration stays, its default; and a class   *)
(* an application names by itself, by an object or by the key of a table   *)
(* is the one of the current map (Barq.ts:613, ClassMap.ts:104-181).       *)
THEOREM ClassesFollow == BarqSpec /\ ClassMapsSpec => []ClassesFollowSchema
<1>1. ClassesIInv /\ MapsIInv => ClassesFollowSchema
  BY ClassesOfSchema, MapsFindOwn DEF ClassesFollowSchema
<1> QED  BY <1>1, ClassesInitially, ClassesStep, MapsInitially, MapsStep, PTL
         DEF BarqSpec, ClassMapsSpec
-----------------------------------------------------------------------------
(* Objects: a call under way                                               *)

ObjectStates == [value : Amounts \cup {Zero}, link : Ids \cup {Null}]
ObjectContents == [Ids -> ObjectStates \cup {Gone}]
Doings == [objects : ObjectContents, mode : Modes \cup {NotGiven}, threw : BOOLEAN]

(* Whether a call has thrown.                                             *)
Failed(d) == d.threw

LEMMA ThrownDoing ==
  ASSUME NEW d \in Doings
  PROVE  /\ Thrown(d) \in Doings /\ Failed(Thrown(d)) /\ Thrown(d).objects = d.objects
         /\ Thrown(d).mode = d.mode
  BY DEF Thrown, Doings, Failed

LEMMA ObjectsSet ==
  ASSUME NEW d \in Doings, NEW objs \in ObjectContents, NEW r, r = [d EXCEPT !.objects = objs]
  PROVE  /\ r \in Doings /\ r.objects = objs /\ (Failed(r) <=> Failed(d)) /\ r.mode = d.mode
  BY DEF Doings, Failed

LEMMA ValueSet ==
  ASSUME NEW d \in Doings, NEW id \in Ids, d.objects[id] # Gone, NEW v \in Amounts,
         NEW r, r = [d EXCEPT !.objects[id].value = v]
  PROVE  /\ r \in Doings /\ (Failed(r) <=> Failed(d)) /\ r.mode = d.mode
         /\ r.objects[id] = [value |-> v, link |-> d.objects[id].link]
         /\ \A j \in Ids \ {id} : r.objects[j] = d.objects[j]
  BY DEF Doings, ObjectContents, ObjectStates, Failed

LEMMA LinkSet ==
  ASSUME NEW d \in Doings, NEW id \in Ids, d.objects[id] # Gone, NEW v \in Ids \cup {Null},
         NEW r, r = [d EXCEPT !.objects[id].link = v]
  PROVE  /\ r \in Doings /\ (Failed(r) <=> Failed(d)) /\ r.mode = d.mode
         /\ r.objects[id] = [value |-> d.objects[id].value, link |-> v]
         /\ \A j \in Ids \ {id} : r.objects[j] = d.objects[j]
  BY DEF Doings, ObjectContents, ObjectStates, Failed

LEMMA Removing ==
  ASSUME NEW objs \in ObjectContents, NEW id \in Ids
  PROVE  /\ RemoveObject(objs, id) \in ObjectContents
         /\ \A j \in Ids : RemoveObject(objs, id)[j] = Gone <=> objs[j] = Gone \/ j = id
  BY ObjectsAssumption DEF RemoveObject, ObjectContents, ObjectStates

LEMMA DoingStarts ==
  ASSUME NEW objs \in ObjectContents, NEW mode \in Modes \cup {NotGiven}
  PROVE  /\ Doing(objs, mode) \in Doings /\ Doing(objs, mode).objects = objs
         /\ Doing(objs, mode).mode = mode /\ ~Failed(Doing(objs, mode))
  BY DEF Doing, Doings, Failed

(* The setter has set what it was given, or thrown and set nothing.        *)
LEMMA Setting ==
  ASSUME NEW d \in Doings, NEW id \in Ids, d.objects[id] # Gone, NEW p \in {"value", "link"},
         NEW v, NEW created \in BOOLEAN, NEW r, r = SetGiven(d, id, p, v, created)
  PROVE  /\ r \in Doings /\ r.mode = d.mode
         /\ \A j \in Ids \ {id} : r.objects[j] = d.objects[j]
         /\ \/ /\ Failed(r) /\ r.objects = d.objects
               /\ p = "value" => v \notin Amounts \/ (schema.counter /\ ~created)
               /\ p = "link" => v # Null /\ (v \in Ids => d.objects[v] = Gone)
            \/ /\ (Failed(r) <=> Failed(d))
               /\ p = "value" => /\ v \in Amounts
                                 /\ r.objects[id] = [value |-> v, link |-> d.objects[id].link]
               /\ p = "link" => /\ v \in Ids \cup {Null}
                                /\ r.objects[id] = [value |-> d.objects[id].value, link |-> v]
<1>1. Thrown(d) \in Doings /\ Failed(Thrown(d)) /\ Thrown(d).objects = d.objects /\ Thrown(d).mode = d.mode
  BY ThrownDoing
<1>2. CASE p = "value" /\ v \in Amounts /\ (schema.counter => created)
  <2>1. r = [d EXCEPT !.objects[id].value = v]
    BY <1>2, Zenon DEF SetGiven
  <2> QED  BY <1>2, <2>1, ValueSet
<1>3. CASE p = "value" /\ ~(v \in Amounts /\ (schema.counter => created))
  <2>1. r = Thrown(d)
    BY <1>3, Zenon DEF SetGiven
  <2> QED  BY <1>1, <1>3, <2>1
<1>4. CASE p = "link" /\ (v = Null \/ (v \in Ids /\ d.objects[v] # Gone))
  <2>1. r = [d EXCEPT !.objects[id].link = v]
    <3>1. p # "value"
      BY <1>4
    <3> QED  BY <1>4, <3>1, Zenon DEF SetGiven
  <2>2. v \in Ids \cup {Null}
    BY <1>4
  <2> QED  BY <1>4, <2>1, <2>2, LinkSet
<1>5. CASE p = "link" /\ ~(v = Null \/ (v \in Ids /\ d.objects[v] # Gone))
  <2>1. r = Thrown(d)
    <3>1. p # "value"
      BY <1>5
    <3> QED  BY <1>5, <3>1, Zenon DEF SetGiven
  <2> QED  BY <1>1, <1>5, <2>1
<1> QED  BY <1>2, <1>3, <1>4, <1>5

LEMMA Deleting ==
  ASSUME NEW d \in Doings, NEW id \in Ids
  PROVE  /\ DeleteOne(d, id) \in Doings
         /\ ~Failed(DeleteOne(d, id)) =>
              /\ ~Failed(d)
              /\ \A j \in Ids : DeleteOne(d, id).objects[j] = Gone <=> d.objects[j] = Gone \/ j = id
<1>1. Thrown(d) \in Doings /\ Failed(Thrown(d))
  BY ThrownDoing
<1>2. CASE Failed(d) \/ d.objects[id] = Gone
  BY <1>1, <1>2, Zenon DEF DeleteOne, Failed
<1>3. CASE ~(Failed(d) \/ d.objects[id] = Gone)
  <2> DEFINE objs == RemoveObject(d.objects, id)
             r == [d EXCEPT !.objects = objs]
  <2>1. DeleteOne(d, id) = r
    BY <1>3, Zenon DEF DeleteOne, Failed
  <2>2. d.objects \in ObjectContents
    BY DEF Doings
  <2>3. objs \in ObjectContents /\ \A j \in Ids : objs[j] = Gone <=> d.objects[j] = Gone \/ j = id
    BY <2>2, Removing
  <2> HIDE DEF objs
  <2>4. r \in Doings /\ r.objects = objs /\ (Failed(r) <=> Failed(d))
    BY <2>3, ObjectsSet
  <2> HIDE DEF r
  <2> QED  BY <1>3, <2>1, <2>3, <2>4
<1> QED  BY <1>2, <1>3

(* A loop that deletes.                                                    *)
LEMMA DeleteLoops ==
  ASSUME NEW objs \in ObjectContents, NEW subjects \in Seq(Ids)
  PROVE  \E after :
           /\ after \in [0..Len(subjects) -> Doings] /\ after[0] = Doing(objs, NotGiven)
           /\ \A n \in 1..Len(subjects) : after[n] = DeleteOne(after[n - 1], subjects[n])
           /\ DeleteEach(objs, subjects) = after[Len(subjects)]
<1> DEFINE size == Len(subjects)
           start == Doing(objs, NotGiven)
           step == [x \in Doings \X (1..size) |-> DeleteOne(x[1], subjects[x[2]])]
           body(f) == [n \in 0..size |-> IF n = 0 THEN start ELSE DeleteOne(f[n - 1], subjects[n])]
           after == CHOOSE f : f = body(f)
<1>0. size \in Nat /\ \A i \in 1..size : subjects[i] \in Ids
  OBVIOUS
<1>1. start \in Doings
  BY DoingStarts
<1>2. step \in [Doings \X (1..size) -> Doings]
  <2> SUFFICES ASSUME NEW x \in Doings \X (1..size) PROVE DeleteOne(x[1], subjects[x[2]]) \in Doings
    OBVIOUS
  <2>1. x[1] \in Doings /\ subjects[x[2]] \in Ids
    BY <1>0
  <2> QED  BY <2>1, Deleting
<1>3. PICK f : Runs(f, size, Doings, start, step)
  <2> HIDE DEF size, start, step
  <2> QED  BY <1>0, <1>1, <1>2, LoopRuns
<1>4. \A i \in 1..size : f[i] = DeleteOne(f[i - 1], subjects[i])
  <2> SUFFICES ASSUME NEW i \in 1..size PROVE f[i] = DeleteOne(f[i - 1], subjects[i])
    OBVIOUS
  <2>1. f[i - 1] \in Doings
    BY <1>0, <1>3 DEF Runs
  <2>2. step[<<f[i - 1], i>>] = DeleteOne(f[i - 1], subjects[i])
    BY <2>1
  <2> QED  BY <1>3, <2>2 DEF Runs
<1> HIDE DEF size, start, step
<1>5. f = body(f)
  <2>1. \A n \in 0..size : n # 0 => n \in 1..size
    BY <1>0
  <2>2. \A n \in 0..size : f[n] = IF n = 0 THEN start ELSE DeleteOne(f[n - 1], subjects[n])
    BY <1>3, <1>4, <2>1 DEF Runs
  <2>3. f = [n \in 0..size |-> f[n]]
    <3>1. f \in [0..size -> Doings]
      BY <1>3 DEF Runs
    <3> HIDE DEF Doings
    <3> QED  BY <3>1
  <2> QED  BY <2>2, <2>3, Zenon
<1>6. after = body(after)
  <2> HIDE DEF body
  <2> QED  BY <1>5, Zenon
<1>7. after[0] = start /\ \A n \in 1..size : after[n] = DeleteOne(after[n - 1], subjects[n])
  <2>0. 0 \in 0..size /\ \A n \in 1..size : n \in 0..size /\ n # 0
    BY <1>0
  <2> HIDE DEF after
  <2> QED  BY <1>6, <2>0
<1>8. DeleteEach(objs, subjects) = after[size]
  BY Zenon DEF DeleteEach, size, start
<1> HIDE DEF after
<1>9. after \in [0..size -> Doings]
  <2> DEFINE T == {i \in 0..size : after[i] \in Doings}
  <2>1. 0 \in T
    BY <1>0, <1>1, <1>7
  <2>2. \A i \in 1..size : i - 1 \in T => i \in T
    <3> SUFFICES ASSUME NEW i \in 1..size, i - 1 \in T PROVE i \in T
      OBVIOUS
    <3>1. after[i - 1] \in Doings /\ subjects[i] \in Ids /\ i \in 0..size
      BY <1>0
    <3>2. after[i] \in Doings
      BY <1>7, <3>1, Deleting
    <3> QED  BY <3>1, <3>2
  <2>3. 0..size \subseteq T
    <3> HIDE DEF T
    <3> QED  BY <1>0, <2>1, <2>2, EveryStep
  <2>4. \A i \in 0..size : after[i] \in Doings
    BY <2>3
  <2>5. after = [n \in 0..size |-> after[n]]
    <3>1. body(after) = [n \in 0..size |-> body(after)[n]]
      BY Zenon
    <3> HIDE DEF body
    <3> QED  BY <1>6, <3>1, Zenon
  <2> QED  BY <2>4, <2>5
<1> QED  BY <1>7, <1>8, <1>9 DEF size, start

LEMMA DeletionsReachAll ==
  ASSUME NEW objs \in ObjectContents, NEW subjects \in Seq(Ids), ~Failed(DeleteEach(objs, subjects))
  PROVE  /\ DeleteEach(objs, subjects).objects \in ObjectContents
         /\ {id \in Ids : DeleteEach(objs, subjects).objects[id] # Gone} =
              {id \in Ids : objs[id] # Gone} \ ToSet(subjects)
<1> DEFINE size == Len(subjects)
<1>1. PICK after :
        /\ after \in [0..size -> Doings] /\ after[0] = Doing(objs, NotGiven)
        /\ \A n \in 1..size : after[n] = DeleteOne(after[n - 1], subjects[n])
        /\ DeleteEach(objs, subjects) = after[size]
  BY DeleteLoops
<1>2. size \in Nat /\ \A i \in 1..size : subjects[i] \in Ids
  OBVIOUS
<1>3. ToSet(subjects) = {subjects[i] : i \in 1..size}
  BY DEF ToSet
<1> HIDE DEF size
<1> DEFINE Fits(n) == ~Failed(after[n]) =>
             \A j \in Ids : after[n].objects[j] = Gone
                              <=> objs[j] = Gone \/ \E i \in 1..n : j = subjects[i]
           T == {n \in 0..size : Fits(n)}
<1>4. 0 \in T
  <2>1. after[0].objects = objs /\ 0 \in 0..size
    BY <1>1, <1>2, DoingStarts
  <2> QED  BY <2>1
<1>5. \A n \in 1..size : n - 1 \in T => n \in T
  <2> SUFFICES ASSUME NEW n \in 1..size, Fits(n - 1) PROVE Fits(n)
    BY <1>2
  <2> SUFFICES ASSUME ~Failed(after[n])
               PROVE  \A j \in Ids : after[n].objects[j] = Gone
                                       <=> objs[j] = Gone \/ \E i \in 1..n : j = subjects[i]
    OBVIOUS
  <2>1. after[n - 1] \in Doings /\ subjects[n] \in Ids
    BY <1>1, <1>2
  <2>2. /\ ~Failed(after[n - 1])
        /\ \A j \in Ids : after[n].objects[j] = Gone <=> after[n - 1].objects[j] = Gone \/ j = subjects[n]
    BY <1>1, <2>1, Deleting
  <2>3. \A i : i \in 1..n <=> i \in 1..(n - 1) \/ i = n
    BY <1>2
  <2> QED  BY <2>2, <2>3
<1>6. 0..size \subseteq T
  <2> HIDE DEF T
  <2> QED  BY <1>2, <1>4, <1>5, EveryStep
<1>7. size \in T /\ after[size] \in Doings
  BY <1>1, <1>2, <1>6
<1>8. \A j \in Ids : DeleteEach(objs, subjects).objects[j] = Gone
                       <=> objs[j] = Gone \/ \E i \in 1..size : j = subjects[i]
  BY <1>1, <1>7
<1>9. DeleteEach(objs, subjects).objects \in ObjectContents
  BY <1>1, <1>7 DEF Doings
<1> HIDE DEF T, Fits
<1> QED  BY <1>3, <1>8, <1>9

-----------------------------------------------------------------------------
(* Objects: new ones and their defaults                                    *)

Others == IF schema.default = "creates" THEN {Singleton} ELSE {}

LEMMA SchemaFacts ==
  ASSUME schema \in Schemas
  PROVE  /\ schema.counter \in BOOLEAN
         /\ schema.default \in Amounts \cup {NotGiven, "creates"}
         /\ \/ schema.order[1] = "value" /\ schema.order[2] = "link"
            \/ schema.order[1] = "link" /\ schema.order[2] = "value"
         /\ AnAmount \in Amounts /\ AnAmount # NotGiven
<1>1. schema.order \in {<<"value", "link">>, <<"link", "value">>}
  BY ObjectsAssumption
<1>2. \/ schema.order[1] = "value" /\ schema.order[2] = "link"
      \/ schema.order[1] = "link" /\ schema.order[2] = "value"
  BY <1>1
<1>3. AnAmount \in Amounts
  <2>1. \E v : v \in Amounts
    BY ObjectsAssumption
  <2> QED  BY <2>1, Zenon DEF AnAmount
<1>4. AnAmount # NotGiven
  BY <1>3, ObjectsAssumption
<1> QED  BY <1>2, <1>3, <1>4, ObjectsAssumption

(* The object with a key, which is new if there was none.                  *)
LEMMA Getting ==
  ASSUME NEW d \in Doings, NEW id \in Ids
  PROVE  /\ GotOrNew(d, id) \in Doings /\ (Failed(GotOrNew(d, id)) <=> Failed(d))
         /\ GotOrNew(d, id).mode = d.mode /\ GotOrNew(d, id).objects[id] # Gone
         /\ d.objects[id] # Gone => GotOrNew(d, id) = d
         /\ d.objects[id] = Gone => /\ GotOrNew(d, id).objects[id].value = Zero
                                   /\ GotOrNew(d, id).objects[id].link = Null
         /\ \A j \in Ids \ {id} : GotOrNew(d, id).objects[j] = d.objects[j]
<1>1. CASE d.objects[id] = Gone
  <2> DEFINE r == [d EXCEPT !.objects[id] = NewObject]
  <2>1. GotOrNew(d, id) = r
    BY <1>1, Zenon DEF GotOrNew
  <2>2. /\ r \in Doings /\ (Failed(r) <=> Failed(d)) /\ r.mode = d.mode
        /\ r.objects[id] = NewObject /\ NewObject # Gone
        /\ NewObject.value = Zero /\ NewObject.link = Null
        /\ \A j \in Ids \ {id} : r.objects[j] = d.objects[j]
    BY ObjectsAssumption DEF Doings, ObjectContents, ObjectStates, NewObject, Failed
  <2> HIDE DEF r
  <2> QED  BY <1>1, <2>1, <2>2
<1>2. CASE d.objects[id] # Gone
  <2>1. GotOrNew(d, id) = d
    BY <1>2, Zenon DEF GotOrNew
  <2> QED  BY <1>2, <2>1
<1> QED  BY <1>1, <1>2

LEMMA ModeSet ==
  ASSUME NEW d \in Doings, NEW mode \in Modes \cup {NotGiven}, NEW r, r = [d EXCEPT !.mode = mode]
  PROVE  r \in Doings /\ (Failed(r) <=> Failed(d)) /\ r.mode = mode /\ r.objects = d.objects
  BY DEF Doings, Failed

(* The object that a default function creates.                             *)
LEMMA InDefault ==
  ASSUME NEW d \in Doings, ~Failed(d), schema \in Schemas, NEW r, r = CreateInDefault(d)
  PROVE  /\ r \in Doings /\ r.mode = NotGiven
         /\ \A j \in Ids \ {Singleton} : r.objects[j] = d.objects[j]
         /\ d.objects[Singleton] # Gone =>
              /\ r.objects[Singleton] # Gone
              /\ r.objects[Singleton].link = d.objects[Singleton].link
         /\ Failed(r) => schema.counter
<1> DEFINE sv == [id |-> Singleton, value |-> AnAmount, link |-> NotGiven]
           e == [d EXCEPT !.mode = "all"]
           c == e.objects[Singleton] = Gone
           got == GotOrNew(e, Singleton)
           fill(x, p, created) == FillBy(SetGiven, NothingElse, x, sv, p, "all", created)
           made == CreateBy(SetGiven, NothingElse, e, sv, "all")
<1>0. /\ Singleton \in Ids /\ AnAmount \in Amounts /\ AnAmount # NotGiven
      /\ schema.counter \in BOOLEAN
      /\ \/ schema.order[1] = "value" /\ schema.order[2] = "link"
         \/ schema.order[1] = "link" /\ schema.order[2] = "value"
  BY SchemaFacts, ObjectsAssumption
<1>1. e \in Doings /\ (Failed(e) <=> Failed(d)) /\ e.objects = d.objects
  <2>1. "all" \in Modes \cup {NotGiven}
    BY DEF Modes
  <2> QED  BY <2>1, ModeSet
<1>2. /\ got \in Doings /\ (Failed(got) <=> Failed(d)) /\ got.objects[Singleton] # Gone
      /\ \A j \in Ids \ {Singleton} : got.objects[j] = d.objects[j]
      /\ d.objects[Singleton] # Gone => got = e
  <2> HIDE DEF e
  <2> QED  BY <1>0, <1>1, Getting
<1>3. \A x, created : fill(x, "link", created) = x
  <2>1. GivenFor(sv, "link") = NotGiven
    BY DEF GivenFor
  <2> HIDE DEF sv
  <2> QED  BY <2>1, Zenon DEF Failed, FillBy, NothingElse
<1>4. \A x, created : ~Failed(x) =>
      fill(x, "value", created) = SetGiven(x, Singleton, "value", AnAmount, created)
  <2>1. GivenFor(sv, "value") = AnAmount /\ sv.id = Singleton
    BY DEF GivenFor
  <2>2. "all" # "modified"
    OBVIOUS
  <2> HIDE DEF sv
  <2> QED  BY <1>0, <2>1, <2>2, Zenon DEF Failed, FillBy
<1> DEFINE set == SetGiven(got, Singleton, "value", AnAmount, c)
<1>5. made = set
  <2>1. made = fill(fill(got, schema.order[1], c), schema.order[2], c)
    <3>1. sv.id = Singleton
      OBVIOUS
    <3>2. "all" # "never"
      OBVIOUS
    <3> HIDE DEF sv, e
    <3> QED  BY <3>1, <3>2, Zenon DEF CreateBy
  <2>2. ~Failed(got)
    BY <1>2
  <2> HIDE DEF got, made, sv, c, fill
  <2>3. fill(got, "value", c) = set
    BY <1>4, <2>2, Zenon
  <2> HIDE DEF set
  <2>4. CASE schema.order[1] = "value" /\ schema.order[2] = "link"
    BY <1>3, <2>1, <2>3, <2>4, Zenon
  <2>5. CASE schema.order[1] = "link" /\ schema.order[2] = "value"
    BY <1>3, <2>1, <2>3, <2>5, Zenon
  <2> QED  BY <1>0, <2>4, <2>5
<1>6. r = [made EXCEPT !.mode = NotGiven]
  BY Zenon DEF CreateInDefault
<1>7. c \in BOOLEAN /\ (c <=> d.objects[Singleton] = Gone)
  BY <1>1
<1> HIDE DEF got, c, made, e, fill, sv
<1>8. /\ set \in Doings
      /\ \A j \in Ids \ {Singleton} : set.objects[j] = got.objects[j]
      /\ \/ Failed(set) /\ set.objects = got.objects /\ schema.counter
         \/ /\ (Failed(set) <=> Failed(got))
            /\ set.objects[Singleton] = [value |-> AnAmount, link |-> got.objects[Singleton].link]
  <2> DEFINE p == "value"
             v == AnAmount
  <2>1. p \in {"value", "link"} /\ p = "value" /\ p # "link"
    OBVIOUS
  <2> HIDE DEF p, set
  <2>2. set = SetGiven(got, Singleton, p, v, c)
    BY DEF set, p
  <2> HIDE DEF v
  <2> QED  BY <1>0, <1>2, <1>7, <2>1, <2>2, Setting DEF v
<1> HIDE DEF set
<1>9. r \in Doings /\ (Failed(r) <=> Failed(set)) /\ r.mode = NotGiven /\ r.objects = set.objects
  BY <1>5, <1>6, <1>8, ModeSet
<1>10. d.objects[Singleton] # Gone => got.objects[Singleton].link = d.objects[Singleton].link
  BY <1>1, <1>2
<1>11. d.objects[Singleton] # Gone =>
      r.objects[Singleton] # Gone /\ r.objects[Singleton].link = d.objects[Singleton].link
  <2> SUFFICES ASSUME d.objects[Singleton] # Gone
               PROVE  r.objects[Singleton] # Gone /\ r.objects[Singleton].link = d.objects[Singleton].link
    OBVIOUS
  <2>1. CASE set.objects = got.objects
    BY <1>2, <1>9, <1>10, <2>1
  <2>2. CASE set.objects[Singleton] = [value |-> AnAmount, link |-> got.objects[Singleton].link]
    <3>1. got.objects[Singleton] \in ObjectStates
      BY <1>0, <1>2 DEF Doings, ObjectContents
    <3>2. set.objects[Singleton] \in ObjectStates
      BY <1>0, <2>2, <3>1 DEF ObjectStates
    <3>3. set.objects[Singleton] # Gone
      BY <3>2, ObjectsAssumption DEF ObjectStates
    <3> QED  BY <1>9, <1>10, <2>2, <3>3
  <2> QED  BY <1>8, <2>1, <2>2
<1> QED  BY <1>2, <1>8, <1>9, <1>11

LEMMA States ==
  ASSUME NEW d \in Doings, NEW id \in Ids
  PROVE  /\ d.objects[id] # Gone => d.objects[id] \in ObjectStates
         /\ \A v \in Amounts, l \in Ids \cup {Null} : [value |-> v, link |-> l] # Gone
  BY ObjectsAssumption DEF Doings, ObjectContents, ObjectStates

LEMMA SettingValue ==
  ASSUME NEW d \in Doings, NEW id \in Ids, d.objects[id] # Gone, NEW v,
         NEW created \in BOOLEAN, NEW r, r = SetGiven(d, id, "value", v, created)
  PROVE  /\ r \in Doings /\ r.mode = d.mode
         /\ \A j \in Ids \ {id} : r.objects[j] = d.objects[j]
         /\ r.objects[id] # Gone /\ r.objects[id].link = d.objects[id].link
         /\ Failed(r) => Failed(d) \/ v \notin Amounts \/ (schema.counter /\ ~created)
         /\ ~Failed(r) => ~Failed(d) /\ v \in Amounts /\ r.objects[id].value = v
<1> DEFINE p == "value"
<1>1. p \in {"value", "link"} /\ p = "value" /\ p # "link" /\ r = SetGiven(d, id, p, v, created)
  OBVIOUS
<1> HIDE DEF p
<1>2. /\ r \in Doings /\ r.mode = d.mode
      /\ \A j \in Ids \ {id} : r.objects[j] = d.objects[j]
      /\ \/ Failed(r) /\ r.objects = d.objects /\ (v \notin Amounts \/ (schema.counter /\ ~created))
         \/ /\ (Failed(r) <=> Failed(d)) /\ v \in Amounts
            /\ r.objects[id] = [value |-> v, link |-> d.objects[id].link]
  BY <1>1, Setting
<1>3. d.objects[id].link \in Ids \cup {Null}
  BY States DEF ObjectStates
<1>4. v \in Amounts => [value |-> v, link |-> d.objects[id].link] # Gone
  BY <1>3, States
<1> QED  BY <1>2, <1>4

LEMMA SettingLink ==
  ASSUME NEW d \in Doings, NEW id \in Ids, d.objects[id] # Gone, NEW v,
         NEW created \in BOOLEAN, NEW r, r = SetGiven(d, id, "link", v, created)
  PROVE  /\ r \in Doings /\ r.mode = d.mode
         /\ \A j \in Ids \ {id} : r.objects[j] = d.objects[j]
         /\ r.objects[id] # Gone /\ r.objects[id].value = d.objects[id].value
         /\ Failed(r) => Failed(d) \/ (v # Null /\ (v \in Ids => d.objects[v] = Gone))
         /\ ~Failed(r) => ~Failed(d) /\ v \in Ids \cup {Null} /\ r.objects[id].link = v
<1> DEFINE p == "link"
<1>1. p \in {"value", "link"} /\ p = "link" /\ p # "value" /\ r = SetGiven(d, id, p, v, created)
  OBVIOUS
<1> HIDE DEF p
<1>2. /\ r \in Doings /\ r.mode = d.mode
      /\ \A j \in Ids \ {id} : r.objects[j] = d.objects[j]
      /\ \/ Failed(r) /\ r.objects = d.objects /\ v # Null /\ (v \in Ids => d.objects[v] = Gone)
         \/ /\ (Failed(r) <=> Failed(d)) /\ v \in Ids \cup {Null}
            /\ r.objects[id] = [value |-> d.objects[id].value, link |-> v]
  BY <1>1, Setting
<1>3. r.objects[id] # Gone
  <2>1. d.objects[id].value \in Amounts \cup {Zero}
    BY States DEF ObjectStates
  <2>2. v \in Ids \cup {Null} => [value |-> d.objects[id].value, link |-> v] # Gone
    BY <2>1, ObjectsAssumption
  <2> QED  BY <1>2, <2>2
<1> QED  BY <1>2, <1>3

SetNew(d, id, v) == SetGiven(d, id, "value", v, TRUE)

LEMMA SettingNew ==
  ASSUME NEW d \in Doings, NEW id \in Ids, d.objects[id] # Gone, NEW v \in Amounts, ~Failed(d),
         NEW r, r = SetNew(d, id, v)
  PROVE  /\ r \in Doings /\ r.mode = d.mode /\ ~Failed(r)
         /\ \A j \in Ids \ {id} : r.objects[j] = d.objects[j]
         /\ r.objects[id] # Gone /\ r.objects[id].link = d.objects[id].link
         /\ r.objects[id].value = v
<1>1. r = [d EXCEPT !.objects[id].value = v]
  BY Zenon DEF SetNew, SetGiven
<1>2. /\ r \in Doings /\ (Failed(r) <=> Failed(d)) /\ r.mode = d.mode
      /\ r.objects[id] = [value |-> v, link |-> d.objects[id].link]
      /\ \A j \in Ids \ {id} : r.objects[j] = d.objects[j]
  BY <1>1 DEF Doings, ObjectContents, ObjectStates, Failed
<1>3. d.objects[id].link \in Ids \cup {Null}
  BY States DEF ObjectStates
<1>4. [value |-> v, link |-> d.objects[id].link] # Gone
  BY <1>3, States
<1> QED  BY <1>2, <1>4

(* The default of a new object's value.                                    *)
DefaultValue == IF schema.default = "creates" THEN AnAmount ELSE schema.default

LEMMA Defaulting ==
  ASSUME schema \in Schemas, NEW d \in Doings, ~Failed(d), NEW id \in Ids, d.objects[id] # Gone,
         NEW r, r = SetDefault(d, id, "value")
  PROVE  /\ r \in Doings
         /\ r.mode = d.mode \/ (schema.default = "creates" /\ r.mode = NotGiven)
         /\ \A j \in Ids \ ({id} \cup Others) : r.objects[j] = d.objects[j]
         /\ \A j \in Ids : d.objects[j] # Gone =>
              r.objects[j] # Gone /\ r.objects[j].link = d.objects[j].link
         /\ Failed(r) => schema.default = NotGiven \/ (schema.default = "creates" /\ schema.counter)
         /\ ~Failed(r) => schema.default # NotGiven /\ r.objects[id].value = DefaultValue
<1>0. "value" # "link" /\ "creates" # NotGiven
  BY ObjectsAssumption
<1>1. CASE schema.default = NotGiven
  <2>1. r = Thrown(d)
    BY <1>0, <1>1, Zenon DEF SetDefault, SetNew, Failed
  <2>2. r \in Doings /\ Failed(r) /\ r.objects = d.objects /\ r.mode = d.mode
    BY <2>1, ThrownDoing
  <2> QED  BY <1>1, <2>2
<1>2. CASE schema.default = "creates"
  <2> DEFINE made == CreateInDefault(d)
  <2>1. r = IF Failed(made) THEN made ELSE SetNew(made, id, AnAmount)
    BY <1>0, <1>2, Zenon DEF SetDefault, SetNew, Failed
  <2>2. /\ made \in Doings /\ made.mode = NotGiven
        /\ \A j \in Ids \ {Singleton} : made.objects[j] = d.objects[j]
        /\ d.objects[Singleton] # Gone =>
             /\ made.objects[Singleton] # Gone
             /\ made.objects[Singleton].link = d.objects[Singleton].link
        /\ Failed(made) => schema.counter
    BY InDefault
  <2>3. \A j \in Ids : d.objects[j] # Gone =>
          made.objects[j] # Gone /\ made.objects[j].link = d.objects[j].link
    BY <2>2
  <2>4. Others = {Singleton}
    BY <1>2 DEF Others
  <2>5. AnAmount \in Amounts
    BY SchemaFacts
  <2> HIDE DEF made
  <2>6. CASE Failed(made)
    <3>1. r = made
      BY <2>1, <2>6
    <3> QED  BY <1>2, <2>2, <2>3, <2>4, <2>6, <3>1
  <2>7. CASE ~Failed(made)
    <3>1. r = SetNew(made, id, AnAmount)
      BY <2>1, <2>7, Zenon
    <3>2. made.objects[id] # Gone
      BY <2>3
    <3>3. /\ r \in Doings /\ r.mode = made.mode
          /\ \A j \in Ids \ {id} : r.objects[j] = made.objects[j]
          /\ r.objects[id] # Gone /\ r.objects[id].link = made.objects[id].link
          /\ ~Failed(r) /\ r.objects[id].value = AnAmount
      BY <2>2, <2>5, <2>7, <3>1, <3>2, SettingNew
    <3>4. DefaultValue = AnAmount
      BY <1>2 DEF DefaultValue
    <3> QED  BY <1>0, <1>2, <2>2, <2>3, <2>4, <3>3, <3>4
  <2> QED  BY <2>6, <2>7
<1>3. CASE schema.default # NotGiven /\ schema.default # "creates"
  <2>1. r = SetNew(d, id, schema.default)
    BY <1>0, <1>3, Zenon DEF SetDefault, SetNew, Failed
  <2>2. schema.default \in Amounts
    BY <1>3, SchemaFacts
  <2>3. /\ r \in Doings /\ r.mode = d.mode
        /\ \A j \in Ids \ {id} : r.objects[j] = d.objects[j]
        /\ r.objects[id] # Gone /\ r.objects[id].link = d.objects[id].link
        /\ ~Failed(r) /\ r.objects[id].value = schema.default
    BY <2>1, <2>2, SettingNew
  <2>4. DefaultValue = schema.default
    BY <1>3 DEF DefaultValue
  <2> QED  BY <1>3, <2>3, <2>4
<1> QED  BY <1>1, <1>2, <1>3

-----------------------------------------------------------------------------
(* Objects: what is filled in                                              *)

(* What is filled in: a given value, or the default of a new object.       *)
IsNew(b, o) == b.objects[o.id] = Gone
FillValue(d, o, mode, b) == FillBy(SetGiven, SetDefault, d, o, "value", mode, IsNew(b, o))
FillLink(d, o, mode, b) == FillBy(SetGiven, SetDefault, d, o, "link", mode, IsNew(b, o))

ValueIsPlain(o) == o.id \in Ids /\ o.value \in Amounts \cup {Unfit, NotGiven}
LinkIsPlain(o) == o.id \in Ids /\ o.link \in {NotGiven, Null, Unfit} \cup Ids

(* The update mode a step leaves.                                          *)
KeepsMode(d, r) == r.mode = d.mode
MayLoseMode(d, r) == r.mode = d.mode \/ r.mode = NotGiven

LEMMA ModeKept ==
  ASSUME NEW a, NEW b, NEW c
  PROVE  /\ KeepsMode(a, a) /\ MayLoseMode(a, a)
         /\ MayLoseMode(a, b) /\ MayLoseMode(b, c) => MayLoseMode(a, c)
         /\ KeepsMode(a, b) => MayLoseMode(a, b)
  BY DEF KeepsMode, MayLoseMode

ValueFilled(d, o, b, r) ==
  /\ r \in Doings
  /\ MayLoseMode(d, r)
  /\ KeepsMode(d, r) \/ (o.value = NotGiven /\ IsNew(b, o) /\ schema.default = "creates")
  /\ \A j \in Ids \ ({o.id} \cup Others) : r.objects[j] = d.objects[j]
  /\ \A j \in Ids : d.objects[j] # Gone =>
       r.objects[j] # Gone /\ r.objects[j].link = d.objects[j].link
  /\ Failed(r) =>
       \/ o.value = Unfit
       \/ schema.counter /\ ~IsNew(b, o) /\ o.value # NotGiven
       \/ /\ o.value = NotGiven /\ IsNew(b, o)
          /\ schema.default = NotGiven \/ (schema.default = "creates" /\ schema.counter)
  /\ ~Failed(r) =>
       /\ o.value # NotGiven => r.objects[o.id].value = o.value
       /\ o.value = NotGiven /\ IsNew(b, o) => r.objects[o.id].value = DefaultValue
       /\ o.value = NotGiven /\ ~IsNew(b, o) => r.objects[o.id].value = d.objects[o.id].value

LEMMA FillsValue ==
  ASSUME schema \in Schemas, NEW d \in Doings, ~Failed(d), NEW b, NEW o, ValueIsPlain(o),
         d.objects[o.id] # Gone, NEW mode, NEW r, r = FillValue(d, o, mode, b)
  PROVE  ValueFilled(d, o, b, r)
<1> DEFINE c == IsNew(b, o)
           v == o.value
           id == o.id
<1>1. c \in BOOLEAN /\ (c <=> IsNew(b, o))
  BY DEF IsNew
<1>2. GivenFor(o, "value") = v
  BY DEF GivenFor
<1>3. id \in Ids /\ id = o.id /\ v = o.value /\ v \in Amounts \cup {Unfit, NotGiven}
  BY DEF ValueIsPlain
<1>4. r = IF v # NotGiven
          THEN IF mode = "modified" /\ IsUnchanged(d, id, "value", v) THEN d
               ELSE SetGiven(d, id, "value", v, c)
          ELSE IF c THEN SetDefault(d, id, "value") ELSE d
  <2> HIDE DEF c, v
  <2>1. ~d.threw
    BY DEF Failed
  <2>2. r = FillBy(SetGiven, SetDefault, d, o, "value", mode, c)
    BY Zenon DEF FillValue, c
  <2> QED  BY <1>2, <2>1, <2>2, Zenon DEF FillBy
<1> HIDE DEF c, v, id
<1>5. CASE v # NotGiven /\ mode = "modified" /\ IsUnchanged(d, id, "value", v)
  <2>1. r = d
    BY <1>4, <1>5, Zenon
  <2>2. d.objects[id].value = v
    BY <1>5 DEF IsUnchanged
  <2> QED  BY <1>3, <1>5, <2>1, <2>2, ModeKept DEF ValueFilled
<1>6. CASE v # NotGiven /\ ~(mode = "modified" /\ IsUnchanged(d, id, "value", v))
  <2>1. r = SetGiven(d, id, "value", v, c)
    BY <1>4, <1>6, Zenon
  <2>2. d.objects[id] # Gone
    BY <1>3
  <2>3. /\ r \in Doings /\ r.mode = d.mode
        /\ \A j \in Ids \ {id} : r.objects[j] = d.objects[j]
        /\ r.objects[id] # Gone /\ r.objects[id].link = d.objects[id].link
        /\ Failed(r) => Failed(d) \/ v \notin Amounts \/ (schema.counter /\ ~c)
        /\ ~Failed(r) => ~Failed(d) /\ v \in Amounts /\ r.objects[id].value = v
    BY <1>1, <1>3, <2>1, <2>2, SettingValue
  <2> QED  BY <1>1, <1>3, <1>6, <2>3 DEF KeepsMode, MayLoseMode, ValueFilled
<1>7. CASE v = NotGiven /\ c
  <2>1. r = SetDefault(d, id, "value")
    BY <1>4, <1>7, Zenon
  <2>2. d.objects[id] # Gone
    BY <1>3
  <2>3. /\ r \in Doings
        /\ r.mode = d.mode \/ (schema.default = "creates" /\ r.mode = NotGiven)
        /\ \A j \in Ids \ ({id} \cup Others) : r.objects[j] = d.objects[j]
        /\ \A j \in Ids : d.objects[j] # Gone =>
             r.objects[j] # Gone /\ r.objects[j].link = d.objects[j].link
        /\ Failed(r) => schema.default = NotGiven \/ (schema.default = "creates" /\ schema.counter)
        /\ ~Failed(r) => schema.default # NotGiven /\ r.objects[id].value = DefaultValue
    BY <1>3, <2>1, <2>2, Defaulting
  <2> QED  BY <1>1, <1>3, <1>7, <2>3 DEF KeepsMode, MayLoseMode, ValueFilled
<1>8. CASE v = NotGiven /\ ~c
  <2>1. r = d
    BY <1>4, <1>8, Zenon
  <2> QED  BY <1>1, <1>3, <1>8, <2>1, ModeKept DEF ValueFilled
<1> QED  BY <1>5, <1>6, <1>7, <1>8

LEMMA FillsLink ==
  ASSUME NEW d \in Doings, ~Failed(d), NEW b, NEW o, LinkIsPlain(o),
         d.objects[o.id] # Gone, NEW mode, NEW r, r = FillLink(d, o, mode, b)
  PROVE  /\ r \in Doings /\ KeepsMode(d, r)
         /\ \A j \in Ids \ {o.id} : r.objects[j] = d.objects[j]
         /\ r.objects[o.id] # Gone /\ r.objects[o.id].value = d.objects[o.id].value
         /\ Failed(r) => o.link = Unfit \/ (o.link \in Ids /\ d.objects[o.link] = Gone)
         /\ ~Failed(r) =>
              /\ o.link # NotGiven => r.objects[o.id].link = o.link
              /\ o.link = NotGiven => r.objects[o.id].link = d.objects[o.id].link
<1> DEFINE c == IsNew(b, o)
           v == o.link
           id == o.id
<1>1. c \in BOOLEAN
  BY DEF IsNew
<1>2. GivenFor(o, "link") = v
  BY DEF GivenFor
<1>3. id \in Ids /\ id = o.id /\ v = o.link /\ v \in {NotGiven, Null, Unfit} \cup Ids
  BY DEF LinkIsPlain
<1>4. r = IF v # NotGiven
          THEN IF mode = "modified" /\ IsUnchanged(d, id, "link", v) THEN d
               ELSE SetGiven(d, id, "link", v, c)
          ELSE d
  <2> HIDE DEF c, v
  <2>1. ~d.threw
    BY DEF Failed
  <2>2. r = FillBy(SetGiven, SetDefault, d, o, "link", mode, c)
    BY Zenon DEF FillLink, c
  <2>3. SetDefault(d, id, "link") = d
    BY Zenon DEF SetDefault
  <2> QED  BY <1>2, <2>1, <2>2, <2>3, Zenon DEF FillBy
<1> HIDE DEF c, v, id
<1>5. CASE v # NotGiven /\ mode = "modified" /\ IsUnchanged(d, id, "link", v)
  <2>1. r = d
    BY <1>4, <1>5, Zenon
  <2>2. d.objects[id].link = v
    BY <1>5 DEF IsUnchanged
  <2> QED  BY <1>3, <1>5, <2>1, <2>2, ModeKept
<1>6. CASE v # NotGiven /\ ~(mode = "modified" /\ IsUnchanged(d, id, "link", v))
  <2>1. r = SetGiven(d, id, "link", v, c)
    BY <1>4, <1>6, Zenon
  <2>2. d.objects[id] # Gone
    BY <1>3
  <2>3. /\ r \in Doings /\ r.mode = d.mode
        /\ \A j \in Ids \ {id} : r.objects[j] = d.objects[j]
        /\ r.objects[id] # Gone /\ r.objects[id].value = d.objects[id].value
        /\ Failed(r) => Failed(d) \/ (v # Null /\ (v \in Ids => d.objects[v] = Gone))
        /\ ~Failed(r) => ~Failed(d) /\ v \in Ids \cup {Null} /\ r.objects[id].link = v
    BY <1>1, <1>3, <2>1, <2>2, SettingLink
  <2> QED  BY <1>3, <1>6, <2>3 DEF KeepsMode
<1>7. CASE v = NotGiven
  <2>1. r = d
    BY <1>4, <1>7, Zenon
  <2> QED  BY <1>3, <1>7, <2>1, ModeKept
<1> QED  BY <1>5, <1>6, <1>7

-----------------------------------------------------------------------------
(* Objects: one that is created                                            *)

(* Why creating an object with no other in it may throw.                   *)
MayThrow(o, d, mode) ==
  \/ o.value = Unfit \/ o.link = Unfit
  \/ schema.counter /\ ~IsNew(d, o) /\ o.value # NotGiven
  \/ /\ o.value = NotGiven /\ IsNew(d, o)
     /\ schema.default = NotGiven \/ (schema.default = "creates" /\ schema.counter)
  \/ o.link \in Ids /\ d.objects[o.link] = Gone
  \/ mode = "never" /\ ~IsNew(d, o)

(* What it makes of the object.                                            *)
ValueMade(o, d, r) ==
  /\ o.value # NotGiven => r.objects[o.id].value = o.value
  /\ o.value = NotGiven /\ IsNew(d, o) => r.objects[o.id].value = DefaultValue
  /\ o.value = NotGiven /\ ~IsNew(d, o) => r.objects[o.id].value = d.objects[o.id].value

LinkMade(o, d, r) ==
  /\ o.link # NotGiven => r.objects[o.id].link = o.link
  /\ o.link = NotGiven /\ IsNew(d, o) => r.objects[o.id].link = Null
  /\ o.link = NotGiven /\ ~IsNew(d, o) => r.objects[o.id].link = d.objects[o.id].link

PlainMade(d, o, mode, r) ==
  /\ r \in Doings /\ MayLoseMode(d, r)
  /\ \A j \in Ids \ ({o.id} \cup Others) : r.objects[j] = d.objects[j]
  /\ \A j \in Ids : d.objects[j] # Gone => r.objects[j] # Gone
  /\ \A j \in Ids \ {o.id} : d.objects[j] # Gone => r.objects[j].link = d.objects[j].link
  /\ Failed(r) => MayThrow(o, d, mode)
  /\ ~Failed(r) =>
       /\ r.objects[o.id] # Gone /\ ~(mode = "never" /\ ~IsNew(d, o))
       /\ ValueMade(o, d, r) /\ LinkMade(o, d, r)

LEMMA CreatesPlain ==
  ASSUME schema \in Schemas, NEW d \in Doings, ~Failed(d), NEW o, ValueIsPlain(o), LinkIsPlain(o),
         NEW mode, NEW r, r = CreateNested(d, o, mode)
  PROVE  PlainMade(d, o, mode, r)
<1> DEFINE g == GotOrNew(d, o.id)
<1>1. o.id \in Ids
  BY DEF ValueIsPlain
<1>2. /\ g \in Doings /\ ~Failed(g) /\ KeepsMode(d, g) /\ g.objects[o.id] # Gone
      /\ ~IsNew(d, o) => g = d
      /\ IsNew(d, o) => g.objects[o.id].link = Null
      /\ \A j \in Ids \ {o.id} : g.objects[j] = d.objects[j]
  BY <1>1, Getting DEF IsNew, KeepsMode
<1>3. \A j \in Ids : d.objects[j] # Gone => g.objects[j] # Gone
  BY <1>2
<1>4. \A j \in Ids \ {o.id} : d.objects[j] # Gone => g.objects[j].link = d.objects[j].link
  BY <1>2
<1>5. \/ schema.order[1] = "value" /\ schema.order[2] = "link"
      \/ schema.order[1] = "link" /\ schema.order[2] = "value"
  BY SchemaFacts
<1>6. CASE mode = "never" /\ ~IsNew(d, o)
  <2>1. r = Thrown(d)
    BY <1>6, Zenon DEF CreateNested, CreateBy, IsNew
  <2>2. r \in Doings /\ Failed(r) /\ r.objects = d.objects /\ KeepsMode(d, r)
    BY <2>1, ThrownDoing DEF KeepsMode
  <2> QED  BY <1>6, <2>2, ModeKept DEF MayThrow, PlainMade
<1>7. CASE ~(mode = "never" /\ ~IsNew(d, o)) /\ schema.order[1] = "value" /\ schema.order[2] = "link"
  <2> DEFINE f == FillValue(g, o, mode, d)
  <2>1. r = FillLink(f, o, mode, d)
    BY <1>7, Zenon DEF CreateNested, CreateBy, IsNew, FillValue, FillLink
  <2> HIDE DEF g
  <2>2. /\ f \in Doings /\ MayLoseMode(g, f)
        /\ \A j \in Ids \ ({o.id} \cup Others) : f.objects[j] = g.objects[j]
        /\ \A j \in Ids : g.objects[j] # Gone =>
             f.objects[j] # Gone /\ f.objects[j].link = g.objects[j].link
        /\ Failed(f) =>
             \/ o.value = Unfit
             \/ schema.counter /\ ~IsNew(d, o) /\ o.value # NotGiven
             \/ /\ o.value = NotGiven /\ IsNew(d, o)
                /\ schema.default = NotGiven \/ (schema.default = "creates" /\ schema.counter)
        /\ ~Failed(f) =>
             /\ o.value # NotGiven => f.objects[o.id].value = o.value
             /\ o.value = NotGiven /\ IsNew(d, o) => f.objects[o.id].value = DefaultValue
             /\ o.value = NotGiven /\ ~IsNew(d, o) => f.objects[o.id].value = g.objects[o.id].value
    <3>1. ValueFilled(g, o, d, f)
      BY <1>2, FillsValue
    <3> QED  BY <3>1 DEF ValueFilled
  <2> HIDE DEF f
  <2>3. CASE Failed(f)
    <3>1. r = f
      BY <2>1, <2>3, Zenon DEF FillLink, FillBy, Failed
    <3>2. MayThrow(o, d, mode)
      BY <2>2, <2>3 DEF MayThrow
    <3>3. MayLoseMode(d, r)
      BY <1>2, <2>2, <3>1, ModeKept
    <3> QED  BY <1>2, <1>3, <1>4, <2>2, <2>3, <3>1, <3>2, <3>3 DEF PlainMade
  <2>4. CASE ~Failed(f)
    <3>1. f.objects[o.id] # Gone
      BY <1>1, <1>2, <2>2
    <3>2. /\ r \in Doings /\ KeepsMode(f, r)
          /\ \A j \in Ids \ {o.id} : r.objects[j] = f.objects[j]
          /\ r.objects[o.id] # Gone /\ r.objects[o.id].value = f.objects[o.id].value
          /\ Failed(r) => o.link = Unfit \/ (o.link \in Ids /\ f.objects[o.link] = Gone)
          /\ ~Failed(r) =>
               /\ o.link # NotGiven => r.objects[o.id].link = o.link
               /\ o.link = NotGiven => r.objects[o.id].link = f.objects[o.id].link
      BY <2>1, <2>2, <2>4, <3>1, FillsLink
    <3>3. Failed(r) => MayThrow(o, d, mode)
      BY <1>3, <2>2, <3>2 DEF MayThrow
    <3>4. ValueMade(o, d, r)
      BY <1>2, <2>2, <2>4, <3>2 DEF ValueMade
    <3>5. ~Failed(r) => LinkMade(o, d, r)
      BY <1>1, <1>2, <2>2, <3>2 DEF LinkMade
    <3>6. \A j \in Ids : d.objects[j] # Gone => r.objects[j] # Gone
      BY <1>3, <2>2, <3>2
    <3>7. \A j \in Ids \ {o.id} : d.objects[j] # Gone => r.objects[j].link = d.objects[j].link
      BY <1>3, <1>4, <2>2, <3>2
    <3>8. \A j \in Ids \ ({o.id} \cup Others) : r.objects[j] = d.objects[j]
      BY <1>2, <2>2, <3>2
    <3>9. MayLoseMode(d, r)
      BY <1>2, <2>2, <3>2, ModeKept
    <3> QED  BY <1>7, <3>2, <3>3, <3>4, <3>5, <3>6, <3>7, <3>8, <3>9 DEF PlainMade
  <2> QED  BY <2>3, <2>4
<1>8. CASE ~(mode = "never" /\ ~IsNew(d, o)) /\ schema.order[1] = "link" /\ schema.order[2] = "value"
  <2> DEFINE f == FillLink(g, o, mode, d)
  <2>1. r = FillValue(f, o, mode, d)
    BY <1>8, Zenon DEF CreateNested, CreateBy, IsNew, FillValue, FillLink
  <2> HIDE DEF g
  <2>2. /\ f \in Doings /\ KeepsMode(g, f)
        /\ \A j \in Ids \ {o.id} : f.objects[j] = g.objects[j]
        /\ f.objects[o.id] # Gone /\ f.objects[o.id].value = g.objects[o.id].value
        /\ Failed(f) => o.link = Unfit \/ (o.link \in Ids /\ g.objects[o.link] = Gone)
        /\ ~Failed(f) =>
             /\ o.link # NotGiven => f.objects[o.id].link = o.link
             /\ o.link = NotGiven => f.objects[o.id].link = g.objects[o.id].link
    BY <1>2, FillsLink
  <2> HIDE DEF f
  <2>3. CASE Failed(f)
    <3>1. r = f
      BY <2>1, <2>3, Zenon DEF FillValue, FillBy, Failed
    <3>2. MayThrow(o, d, mode)
      BY <1>3, <2>2, <2>3 DEF MayThrow
    <3>3. MayLoseMode(d, r)
      BY <1>2, <2>2, <3>1, ModeKept
    <3> QED  BY <1>2, <1>3, <1>4, <2>2, <2>3, <3>1, <3>2, <3>3 DEF PlainMade
  <2>4. CASE ~Failed(f)
    <3>1. /\ r \in Doings /\ MayLoseMode(f, r)
          /\ \A j \in Ids \ ({o.id} \cup Others) : r.objects[j] = f.objects[j]
          /\ \A j \in Ids : f.objects[j] # Gone =>
               r.objects[j] # Gone /\ r.objects[j].link = f.objects[j].link
          /\ Failed(r) =>
               \/ o.value = Unfit
               \/ schema.counter /\ ~IsNew(d, o) /\ o.value # NotGiven
               \/ /\ o.value = NotGiven /\ IsNew(d, o)
                  /\ schema.default = NotGiven \/ (schema.default = "creates" /\ schema.counter)
          /\ ~Failed(r) =>
               /\ o.value # NotGiven => r.objects[o.id].value = o.value
               /\ o.value = NotGiven /\ IsNew(d, o) => r.objects[o.id].value = DefaultValue
               /\ o.value = NotGiven /\ ~IsNew(d, o) => r.objects[o.id].value = f.objects[o.id].value
      <4>1. ValueFilled(f, o, d, r)
        BY <2>1, <2>2, <2>4, FillsValue
      <4> QED  BY <4>1 DEF ValueFilled
    <3>2. Failed(r) => MayThrow(o, d, mode)
      BY <3>1 DEF MayThrow
    <3>3. ~Failed(r) => ValueMade(o, d, r)
      BY <1>2, <2>2, <2>4, <3>1 DEF ValueMade
    <3>4. LinkMade(o, d, r)
      BY <1>1, <1>2, <2>2, <2>4, <3>1 DEF LinkMade
    <3>5. \A j \in Ids : d.objects[j] # Gone => r.objects[j] # Gone
      BY <1>3, <2>2, <3>1
    <3>6. \A j \in Ids \ {o.id} : d.objects[j] # Gone => r.objects[j].link = d.objects[j].link
      BY <1>3, <1>4, <2>2, <3>1
    <3>7. \A j \in Ids \ ({o.id} \cup Others) : r.objects[j] = d.objects[j]
      BY <1>2, <2>2, <3>1
    <3>8. r.objects[o.id] # Gone
      BY <1>1, <2>2, <3>1
    <3>9. MayLoseMode(d, r)
      BY <1>2, <2>2, <3>1, ModeKept
    <3> QED  BY <1>8, <3>1, <3>2, <3>3, <3>4, <3>5, <3>6, <3>7, <3>8, <3>9 DEF PlainMade
  <2> QED  BY <2>3, <2>4
<1> QED  BY <1>5, <1>6, <1>7, <1>8

(* A plain object for a link: the object that is created, then the link.   *)
SetNested(d, id, v) ==
  LET made == CreateNested(d, v, LinkMode(d))
  IN IF made.threw THEN made ELSE [made EXCEPT !.objects[id].link = v.id]

NestedSet(d, id, v, r) ==
  /\ r \in Doings /\ MayLoseMode(d, r)
  /\ \A j \in Ids \ ({id, v.id} \cup Others) : r.objects[j] = d.objects[j]
  /\ \A j \in Ids : d.objects[j] # Gone => r.objects[j] # Gone
  /\ \A j \in Ids \ {id, v.id} : d.objects[j] # Gone => r.objects[j].link = d.objects[j].link
  /\ id \notin {v.id} \cup Others => r.objects[id].value = d.objects[id].value
  /\ Failed(r) => MayThrow(v, d, LinkMode(d))
  /\ ~Failed(r) =>
       /\ r.objects[id].link = v.id
       /\ ~(LinkMode(d) = "never" /\ ~IsNew(d, v))
       /\ r.objects[v.id] # Gone
       /\ ValueMade(v, d, r) /\ (id # v.id => LinkMade(v, d, r))

LEMMA SettingNested ==
  ASSUME schema \in Schemas, NEW d \in Doings, ~Failed(d), NEW id \in Ids, d.objects[id] # Gone,
         NEW v, ValueIsPlain(v), LinkIsPlain(v), NEW r, r = SetNested(d, id, v)
  PROVE  NestedSet(d, id, v, r)
<1> DEFINE made == CreateNested(d, v, LinkMode(d))
           mode == LinkMode(d)
           k == v.id
<1>1. made = CreateNested(d, v, mode) /\ k = v.id /\ k \in Ids
  BY DEF ValueIsPlain
<1>2. r = IF Failed(made) THEN made ELSE [made EXCEPT !.objects[id].link = k]
  BY Zenon DEF SetNested, Failed
<1> HIDE DEF made, mode, k
<1>3. /\ made \in Doings /\ MayLoseMode(d, made)
      /\ \A j \in Ids \ ({k} \cup Others) : made.objects[j] = d.objects[j]
      /\ \A j \in Ids : d.objects[j] # Gone => made.objects[j] # Gone
      /\ \A j \in Ids \ {k} : d.objects[j] # Gone => made.objects[j].link = d.objects[j].link
      /\ Failed(made) => MayThrow(v, d, mode)
      /\ ~Failed(made) =>
           /\ made.objects[k] # Gone /\ ~(mode = "never" /\ ~IsNew(d, v))
           /\ ValueMade(v, d, made) /\ LinkMade(v, d, made)
  <2>1. PlainMade(d, v, mode, made)
    BY <1>1, CreatesPlain
  <2> QED  BY <1>1, <2>1 DEF PlainMade
<1>4. CASE Failed(made)
  <2>1. r = made
    BY <1>2, <1>4, Zenon
  <2> QED  BY <1>1, <1>3, <1>4, <2>1 DEF mode, NestedSet
<1>5. CASE ~Failed(made)
  <2>1. r = [made EXCEPT !.objects[id].link = k]
    BY <1>2, <1>5, Zenon
  <2>2. made.objects[id] # Gone /\ k \in Ids \cup {Null}
    BY <1>1, <1>3
  <2>3. /\ r \in Doings /\ KeepsMode(made, r) /\ (Failed(r) <=> Failed(made))
        /\ r.objects[id] = [value |-> made.objects[id].value, link |-> k]
        /\ \A j \in Ids \ {id} : r.objects[j] = made.objects[j]
    BY <1>3, <2>1, <2>2 DEF Doings, ObjectContents, ObjectStates, Failed, KeepsMode
  <2>4. r.objects[id] # Gone
    <3>1. made.objects[id].value \in Amounts \cup {Zero}
      BY <1>3, <2>2, States DEF ObjectStates
    <3> QED  BY <2>2, <2>3, <3>1, ObjectsAssumption
  <2>5. r.objects[id].value = made.objects[id].value /\ r.objects[id].link = k
    BY <2>3
  <2>6. r.objects[k].value = made.objects[k].value
    BY <1>1, <2>3, <2>5
  <2>7. ValueMade(v, d, r)
    BY <1>1, <1>3, <1>5, <2>6 DEF ValueMade
  <2>8. id # k => LinkMade(v, d, r)
    BY <1>1, <1>3, <1>5, <2>3 DEF LinkMade
  <2>9. \A j \in Ids : d.objects[j] # Gone => r.objects[j] # Gone
    BY <1>3, <2>3, <2>4
  <2>10. \A j \in Ids \ {id, k} : d.objects[j] # Gone => r.objects[j].link = d.objects[j].link
    BY <1>3, <2>3
  <2>11. id \notin {k} \cup Others => r.objects[id].value = d.objects[id].value
    BY <1>3, <2>5
  <2>12. \A j \in Ids \ ({id, k} \cup Others) : r.objects[j] = d.objects[j]
    BY <1>3, <2>3
  <2>14. r.objects[k] # Gone
    BY <1>1, <1>3, <1>5, <2>3, <2>4
  <2>13. MayLoseMode(d, r)
    BY <1>3, <2>3, ModeKept
  <2> QED  BY <1>1, <1>3, <1>5, <2>14, <2>13, <2>3, <2>5,
        <2>7, <2>8, <2>9, <2>10, <2>11, <2>12 DEF mode, NestedSet
<1> QED  BY <1>4, <1>5

LEMMA SettingProperty ==
  ASSUME NEW d, NEW id, NEW p \in {"value", "link"}, NEW v, NEW created
  PROVE  /\ p = "value" \/ ~IsPlainObject(v) =>
              SetProperty(d, id, p, v, created) = SetGiven(d, id, p, v, created)
         /\ p = "link" /\ IsPlainObject(v) => SetProperty(d, id, p, v, created) = SetNested(d, id, v)
<1>1. "value" # "link"
  OBVIOUS
<1>2. CASE p = "value" \/ ~IsPlainObject(v)
  <2>1. ~(p = "link" /\ IsPlainObject(v))
    BY <1>1, <1>2
  <2> QED  BY <2>1, Zenon DEF SetProperty
<1>3. CASE p = "link" /\ IsPlainObject(v)
  <2>1. SetProperty(d, id, p, v, created) = SetNested(d, id, v)
    BY <1>3, Zenon DEF SetProperty, SetNested
  <2> QED  BY <1>1, <1>3, <2>1
<1> QED  BY <1>2, <1>3

-----------------------------------------------------------------------------
(* Objects: updates, one after the other                                   *)

(* Updates: one object after the other.                                    *)
Reached(r, j, p, t) == IF p = "value" THEN r.objects[j].value = t ELSE r.objects[j].link = t
Target(v) == IF IsPlainObject(v) THEN v.id ELSE v
Grown(objs) ==
  {d \in Doings : d.mode = NotGiven /\ \A j \in Ids : objs[j] # Gone => d.objects[j] # Gone}
Settable(p, v) ==
  \/ p = "value" /\ v \in Amounts \cup {Unfit}
  \/ p = "link" /\ v \in Ids \cup {Null, Unfit} \cup Plain

SetHere(d, id, p, v) == SetProperty(d, id, p, v, FALSE)

(* A step that has reached an object and left those reached before.        *)
Updated(objs, d, id, p, v, r) ==
  /\ r \in Grown(objs)
  /\ ~Failed(r) =>
       /\ Reached(r, id, p, Target(v))
       /\ \A j \in Ids : objs[j] # Gone /\ Reached(d, j, p, Target(v)) => Reached(r, j, p, Target(v))

LEMMA PlainObjects ==
  ASSUME NEW v \in Plain
  PROVE  IsPlainObject(v) /\ ValueIsPlain(v) /\ LinkIsPlain(v)
<1>1. v \in Nesting
  BY DEF Nesting
<1>2. IsPlainObject(v)
  BY <1>1, PlainObjectsAssumption
<1>3. ValueIsPlain(v)
  BY DEF Plain, ValueIsPlain
<1>4. LinkIsPlain(v)
  BY DEF Plain, LinkIsPlain
<1> QED  BY <1>2, <1>3, <1>4

LEMMA UpdatesValue ==
  ASSUME NEW objs \in ObjectContents, NEW d \in Grown(objs), ~Failed(d), NEW id \in Ids, objs[id] # Gone,
         NEW v \in Amounts \cup {Unfit}, NEW r, r = SetHere(d, id, "value", v)
  PROVE  Updated(objs, d, id, "value", v, r)
<1> DEFINE c == FALSE
<1>1. c \in BOOLEAN
  OBVIOUS
<1>2. r = SetGiven(d, id, "value", v, c)
  <2>1. "value" \in {"value", "link"}
    OBVIOUS
  <2>2. SetProperty(d, id, "value", v, FALSE) = SetGiven(d, id, "value", v, FALSE)
    BY Zenon DEF SetProperty
  <2> QED  BY <2>2, Zenon DEF SetHere
<1> HIDE DEF c
<1>3. Target(v) = v
  BY DEF Target, IsPlainObject
<1>4. d \in Doings /\ d.objects[id] # Gone /\ d.mode = NotGiven
      /\ \A j \in Ids : objs[j] # Gone => d.objects[j] # Gone
  BY DEF Grown
<1>5. /\ r \in Doings /\ r.mode = d.mode
      /\ \A j \in Ids \ {id} : r.objects[j] = d.objects[j]
      /\ r.objects[id] # Gone /\ r.objects[id].link = d.objects[id].link
      /\ Failed(r) => Failed(d) \/ v \notin Amounts \/ (schema.counter /\ ~c)
      /\ ~Failed(r) => ~Failed(d) /\ v \in Amounts /\ r.objects[id].value = v
  BY <1>1, <1>2, <1>4, SettingValue
<1>6. r \in Grown(objs)
  BY <1>4, <1>5 DEF Grown
<1>7. ~Failed(r) => /\ Reached(r, id, "value", v)
                    /\ \A j \in Ids : Reached(d, j, "value", v) => Reached(r, j, "value", v)
  BY <1>5 DEF Reached
<1> QED  BY <1>3, <1>6, <1>7 DEF Updated

LEMMA UpdatesLink ==
  ASSUME schema \in Schemas, NEW objs \in ObjectContents, NEW d \in Grown(objs), ~Failed(d),
         NEW id \in Ids, objs[id] # Gone, NEW v \in Ids \cup {Null, Unfit},
         NEW r, r = SetHere(d, id, "link", v)
  PROVE  Updated(objs, d, id, "link", v, r)
<1> DEFINE c == FALSE
<1>1. c \in BOOLEAN
  OBVIOUS
<1>2. ~IsPlainObject(v)
  BY DEF IsPlainObject
<1>3. r = SetGiven(d, id, "link", v, c)
  <2>1. SetProperty(d, id, "link", v, FALSE) = SetGiven(d, id, "link", v, FALSE)
    BY <1>2, Zenon DEF SetProperty
  <2> QED  BY <2>1, Zenon DEF SetHere
<1> HIDE DEF c
<1>4. Target(v) = v
  BY <1>2 DEF Target
<1>5. d \in Doings /\ d.objects[id] # Gone /\ d.mode = NotGiven
      /\ \A j \in Ids : objs[j] # Gone => d.objects[j] # Gone
  BY DEF Grown
<1>6. /\ r \in Doings /\ r.mode = d.mode
      /\ \A j \in Ids \ {id} : r.objects[j] = d.objects[j]
      /\ r.objects[id] # Gone /\ r.objects[id].value = d.objects[id].value
      /\ Failed(r) => Failed(d) \/ (v # Null /\ (v \in Ids => d.objects[v] = Gone))
      /\ ~Failed(r) => ~Failed(d) /\ v \in Ids \cup {Null} /\ r.objects[id].link = v
  BY <1>1, <1>3, <1>5, SettingLink
<1>7. r \in Grown(objs)
  BY <1>5, <1>6 DEF Grown
<1>8. "link" # "value"
  OBVIOUS
<1>9. ~Failed(r) => /\ Reached(r, id, "link", v)
                    /\ \A j \in Ids : Reached(d, j, "link", v) => Reached(r, j, "link", v)
  BY <1>6, <1>8 DEF Reached
<1> QED  BY <1>4, <1>7, <1>9 DEF Updated

LEMMA UpdatesNested ==
  ASSUME schema \in Schemas, NEW objs \in ObjectContents, NEW d \in Grown(objs), ~Failed(d),
         NEW id \in Ids, objs[id] # Gone, NEW v \in Plain, NEW r, r = SetHere(d, id, "link", v)
  PROVE  Updated(objs, d, id, "link", v, r)
<1>1. IsPlainObject(v) /\ ValueIsPlain(v) /\ LinkIsPlain(v) /\ v.id \in Ids
  BY PlainObjects DEF ValueIsPlain
<1>2. r = SetNested(d, id, v)
  BY <1>1, Zenon DEF SetHere, SetProperty, SetNested
<1>3. Target(v) = v.id
  BY <1>1 DEF Target
<1>4. d \in Doings /\ d.objects[id] # Gone /\ d.mode = NotGiven
      /\ \A j \in Ids : objs[j] # Gone => d.objects[j] # Gone
  BY DEF Grown
<1>5. LinkMode(d) = "never"
  BY <1>4 DEF LinkMode
<1>6. NestedSet(d, id, v, r)
  BY <1>1, <1>2, <1>4, SettingNested
<1>7. r.mode = NotGiven
  BY <1>4, <1>6 DEF NestedSet, MayLoseMode
<1>8. r \in Grown(objs)
  BY <1>4, <1>6, <1>7 DEF NestedSet, Grown
<1>9. "link" # "value"
  OBVIOUS
<1>10. ASSUME ~Failed(r)
       PROVE  /\ Reached(r, id, "link", v.id)
              /\ \A j \in Ids : objs[j] # Gone /\ Reached(d, j, "link", v.id) => Reached(r, j, "link", v.id)
  <2>1. r.objects[id].link = v.id /\ IsNew(d, v)
    BY <1>5, <1>6, <1>10 DEF NestedSet
  <2>2. d.objects[v.id] = Gone
    BY <2>1 DEF IsNew
  <2>3. \A j \in Ids \ {id, v.id} : d.objects[j] # Gone => r.objects[j].link = d.objects[j].link
    BY <1>6 DEF NestedSet
  <2>4. ASSUME NEW j \in Ids, objs[j] # Gone, d.objects[j].link = v.id PROVE r.objects[j].link = v.id
    <3>1. d.objects[j] # Gone /\ j # v.id
      BY <1>4, <2>2, <2>4
    <3> QED  BY <2>1, <2>3, <2>4, <3>1
  <2> QED  BY <1>9, <2>1, <2>4 DEF Reached
<1> QED  BY <1>3, <1>8, <1>10 DEF Updated

LEMMA Interval ==
  ASSUME NEW n \in Nat
  PROVE  IsFiniteSet(1..n) /\ Cardinality(1..n) = n
  BY FS_Interval

(* A finite set in a row: each of its members once.                        *)
LEMMA Listed ==
  ASSUME NEW S, IsFiniteSet(S), NEW n, n = Cardinality(S), NEW s, s = SetToSeq(S)
  PROVE  /\ n \in Nat /\ s \in [1..n -> S] /\ Len(s) = n
         /\ \A x \in S : \E i \in 1..n : s[i] = x
<1>1. n \in Nat /\ ExistsBijection(1..n, S)
  BY FS_CardinalityType
<1>2. \E f \in [1..n -> S] : IsInjective(f)
  BY <1>1 DEF ExistsBijection, Bijection, Injection
<1>3. s \in [1..n -> S] /\ IsInjective(s)
  BY <1>2, Zenon DEF SetToSeq
<1>4. s \in Injection(1..n, S)
  BY <1>3 DEF Injection
<1>5. IsFiniteSet(1..n) /\ Cardinality(1..n) = n
  BY <1>1, Interval
<1>6. s \in Surjection(1..n, S)
  BY <1>4, <1>5, FS_Injection
<1>7. Len(s) = n
  BY <1>1, <1>3
<1> QED  BY <1>1, <1>3, <1>6, <1>7 DEF Surjection


LEMMA Updating ==
  ASSUME schema \in Schemas, NEW objs \in ObjectContents, NEW n \in Nat, NEW found \in [1..n -> Ids],
         Len(found) = n, \A k \in 1..n : objs[found[k]] # Gone,
         NEW p \in {"value", "link"}, NEW v, Settable(p, v),
         NEW d \in Grown(objs), NEW i \in 1..n, NEW r, r = UpdateOne(d, found, i, p, v)
  PROVE  /\ r \in Grown(objs)
         /\ ~Failed(r) => ~Failed(d) /\ Updated(objs, d, found[i], p, v, r)
<1>1. CASE Failed(d)
  <2>1. r = d
    BY <1>1, Zenon DEF UpdateOne, Failed
  <2> QED  BY <1>1, <2>1
<1>2. CASE ~Failed(d)
  <2> DEFINE id == found[i]
  <2>1. ~(i > Len(found))
    OBVIOUS
  <2>2. r = SetHere(d, id, p, v)
    BY <1>2, <2>1, Zenon DEF UpdateOne, SetHere, Failed
  <2>3. id \in Ids /\ objs[id] # Gone
    OBVIOUS
  <2> HIDE DEF id
  <2>4. CASE p = "value"
    <3>1. v \in Amounts \cup {Unfit}
      BY <2>4 DEF Settable
    <3>2. Updated(objs, d, id, "value", v, r)
      BY <1>2, <2>2, <2>3, <2>4, <3>1, UpdatesValue
    <3> QED  BY <1>2, <2>4, <3>2 DEF Updated, id
  <2>5. CASE p = "link" /\ v \in Ids \cup {Null, Unfit}
    <3>1. Updated(objs, d, id, "link", v, r)
      BY <1>2, <2>2, <2>3, <2>5, UpdatesLink
    <3> QED  BY <1>2, <2>5, <3>1 DEF Updated, id
  <2>6. CASE p = "link" /\ v \in Plain
    <3>1. Updated(objs, d, id, "link", v, r)
      BY <1>2, <2>2, <2>3, <2>6, UpdatesNested
    <3> QED  BY <1>2, <2>6, <3>1 DEF Updated, id
  <2> QED  BY <2>4, <2>5, <2>6 DEF Settable
<1> QED  BY <1>1, <1>2

(* A loop that updates.                                                    *)
LEMMA UpdateLoops ==
  ASSUME schema \in Schemas, NEW objs \in ObjectContents, NEW filter,
         NEW p \in {"value", "link"}, NEW v, Settable(p, v),
         NEW n, n = Cardinality(Matching(objs, filter)),
         NEW found, found = SetToSeq(Matching(objs, filter))
  PROVE  \E after :
           /\ after[0] = Doing(objs, NotGiven)
           /\ \A i \in 1..n : after[i] = UpdateOne(after[i - 1], found, i, p, v)
           /\ \A i \in 0..n : after[i] \in Grown(objs)
           /\ UpdateEach(objs, filter, p, v) = after[n]
<1> DEFINE start == Doing(objs, NotGiven)
           step == [x \in Grown(objs) \X (1..n) |-> UpdateOne(x[1], found, x[2], p, v)]
           body(f) == [i \in 0..n |->
                         IF i = 0 THEN start
                         ELSE UpdateOne(f[i - 1], Snapshot(f[i - 1].objects, objs, filter), i, p, v)]
           after == CHOOSE f : f = body(f)
<1>1. /\ n \in Nat /\ found \in [1..n -> Ids] /\ Len(found) = n
      /\ \A k \in 1..n : objs[found[k]] # Gone
  <2> DEFINE S == Matching(objs, filter)
  <2>1. IsFiniteSet(S) /\ S \subseteq Ids /\ \A x \in S : objs[x] # Gone
    <3>1. S \in SUBSET Ids
      BY DEF Matching
    <3>2. IsFiniteSet(S)
      BY <3>1, FS_Subset, ObjectsAssumption
    <3> QED  BY <3>1, <3>2 DEF Matching
  <2> HIDE DEF S
  <2>2. n \in Nat /\ found \in [1..n -> S] /\ Len(found) = n
    BY <2>1, Listed DEF S
  <2> QED  BY <2>1, <2>2
<1>2. start \in Grown(objs)
  BY DoingStarts DEF Grown
<1>3. step \in [Grown(objs) \X (1..n) -> Grown(objs)]
  <2> SUFFICES ASSUME NEW x \in Grown(objs) \X (1..n) PROVE UpdateOne(x[1], found, x[2], p, v) \in Grown(objs)
    OBVIOUS
  <2>1. x[1] \in Grown(objs) /\ x[2] \in 1..n
    OBVIOUS
  <2> QED  BY <1>1, <2>1, Updating
<1>4. PICK f : Runs(f, n, Grown(objs), start, step)
  <2> HIDE DEF start, step
  <2> QED  BY <1>1, <1>2, <1>3, LoopRuns
<1>5. \A i \in 1..n : f[i] = UpdateOne(f[i - 1], found, i, p, v)
  <2> SUFFICES ASSUME NEW i \in 1..n PROVE f[i] = UpdateOne(f[i - 1], found, i, p, v)
    OBVIOUS
  <2>1. f[i - 1] \in Grown(objs)
    BY <1>1, <1>4 DEF Runs
  <2>2. step[<<f[i - 1], i>>] = UpdateOne(f[i - 1], found, i, p, v)
    BY <2>1
  <2> QED  BY <1>4, <2>2 DEF Runs
<1>6. \A x : Snapshot(x, objs, filter) = found
  BY DEF Snapshot
<1> HIDE DEF start, step
<1>7. f = body(f)
  <2>1. \A i \in 0..n : i # 0 => i \in 1..n
    BY <1>1
  <2>2. \A i \in 0..n : f[i] = IF i = 0 THEN start
                               ELSE UpdateOne(f[i - 1], Snapshot(f[i - 1].objects, objs, filter), i, p, v)
    <3>1. \A i \in 0..n : f[i] = IF i = 0 THEN start ELSE UpdateOne(f[i - 1], found, i, p, v)
      BY <1>4, <1>5, <2>1 DEF Runs
    <3> QED  BY <1>6, <3>1, Zenon
  <2>3. f = [i \in 0..n |-> f[i]]
    <3>1. f \in [0..n -> Grown(objs)]
      BY <1>4 DEF Runs
    <3> HIDE DEF Grown
    <3> QED  BY <3>1
  <2> QED  BY <2>2, <2>3, Zenon
<1>8. after = body(after)
  <2> HIDE DEF body
  <2> QED  BY <1>7, Zenon
<1>9. after[0] = start /\ \A i \in 1..n : after[i] = UpdateOne(after[i - 1], found, i, p, v)
  <2>0. 0 \in 0..n /\ \A i \in 1..n : i \in 0..n /\ i # 0
    BY <1>1
  <2> HIDE DEF after
  <2> QED  BY <1>6, <1>8, <2>0, Zenon
<1>10. UpdateEach(objs, filter, p, v) = after[n]
  BY Zenon DEF UpdateEach, start
<1> HIDE DEF after
<1>11. \A i \in 0..n : after[i] \in Grown(objs)
  <2> DEFINE T == {i \in 0..n : after[i] \in Grown(objs)}
  <2>1. 0 \in T
    BY <1>1, <1>2, <1>9
  <2>2. \A i \in 1..n : i - 1 \in T => i \in T
    <3> SUFFICES ASSUME NEW i \in 1..n, i - 1 \in T PROVE i \in T
      OBVIOUS
    <3>1. after[i - 1] \in Grown(objs) /\ i \in 0..n
      BY <1>1
    <3>2. after[i] \in Grown(objs)
      BY <1>1, <1>9, <3>1, Updating, ZenonT(30)
    <3> QED  BY <3>1, <3>2
  <2>3. 0..n \subseteq T
    <3> HIDE DEF T
    <3> QED  BY <1>1, <2>1, <2>2, EveryStep
  <2> QED  BY <2>3
<1> QED  BY <1>9, <1>10, <1>11 DEF start

LEMMA UpdatesReachAll ==
  ASSUME schema \in Schemas, NEW objs \in ObjectContents, NEW filter,
         NEW p \in {"value", "link"}, NEW v, Settable(p, v),
         NEW r, r = UpdateEach(objs, filter, p, v), ~Failed(r)
  PROVE  \A id \in Matching(objs, filter) : Reached(r, id, p, Target(v))
<1> DEFINE S == Matching(objs, filter)
           n == Cardinality(S)
           found == SetToSeq(S)
<1>1. PICK after :
        /\ after[0] = Doing(objs, NotGiven)
        /\ \A i \in 1..n : after[i] = UpdateOne(after[i - 1], found, i, p, v)
        /\ \A i \in 0..n : after[i] \in Grown(objs)
        /\ r = after[n]
  BY UpdateLoops
<1>2. IsFiniteSet(S) /\ S \subseteq Ids /\ \A x \in S : objs[x] # Gone
  <2>1. S \in SUBSET Ids
    BY DEF Matching
  <2>2. IsFiniteSet(S)
    BY <2>1, FS_Subset, ObjectsAssumption
  <2> QED  BY <2>1, <2>2 DEF Matching
<1>3. /\ n \in Nat /\ found \in [1..n -> S] /\ Len(found) = n
      /\ \A x \in S : \E i \in 1..n : found[i] = x
  <2> HIDE DEF S
  <2> QED  BY <1>2, Listed
<1> HIDE DEF n, found, S
<1>4. found \in [1..n -> Ids] /\ \A k \in 1..n : objs[found[k]] # Gone
  BY <1>2, <1>3
<1> DEFINE Fits(i) == ~Failed(after[i]) => \A k \in 1..i : Reached(after[i], found[k], p, Target(v))
           T == {i \in 0..n : Fits(i)}
<1>5. 0 \in T
  <2>1. 0 \in 0..n
    BY <1>3
  <2>2. 1..0 = {}
    OBVIOUS
  <2> QED  BY <2>1, <2>2
<1>6. \A i \in 1..n : i - 1 \in T => i \in T
  <2> SUFFICES ASSUME NEW i \in 1..n, Fits(i - 1) PROVE Fits(i)
    BY <1>3
  <2> SUFFICES ASSUME ~Failed(after[i]), NEW k \in 1..i PROVE Reached(after[i], found[k], p, Target(v))
    OBVIOUS
  <2>1. after[i - 1] \in Grown(objs)
    BY <1>1, <1>3
  <2>2. ~Failed(after[i - 1]) /\ Updated(objs, after[i - 1], found[i], p, v, after[i])
    <3> DEFINE d == after[i - 1]
               e == after[i]
    <3>1. e = UpdateOne(d, found, i, p, v)
      BY <1>1
    <3>2. d \in Grown(objs) /\ ~Failed(e)
      BY <2>1
    <3> HIDE DEF d, e
    <3>3. ~Failed(d) /\ Updated(objs, d, found[i], p, v, e)
      BY <1>3, <1>4, <3>1, <3>2, Updating
    <3> QED  BY <3>3 DEF d, e
  <2>3. k = i \/ k \in 1..(i - 1)
    BY <1>3
  <2>4. k \in 1..n
    BY <1>3
  <2>5. found[k] \in Ids /\ objs[found[k]] # Gone
    BY <1>4, <2>4
  <2>6. CASE k = i
    BY <2>2, <2>6 DEF Updated
  <2>7. CASE k \in 1..(i - 1)
    <3>1. Reached(after[i - 1], found[k], p, Target(v))
      BY <2>2, <2>7
    <3> QED  BY <2>2, <2>5, <3>1 DEF Updated
  <2> QED  BY <2>3, <2>6, <2>7
<1>7. 0..n \subseteq T
  <2> HIDE DEF T
  <2> QED  BY <1>3, <1>5, <1>6, EveryStep
<1>8. \A k \in 1..n : Reached(r, found[k], p, Target(v))
  <2>1. n \in T
    BY <1>3, <1>7
  <2> QED  BY <1>1, <2>1
<1> HIDE DEF T, Fits
<1> QED  BY <1>3, <1>8 DEF S

-----------------------------------------------------------------------------
(* Objects: what the calls walk                                            *)

(* What the calls walk, and what they make of it.                          *)
LEMMA WalkSubjects ==
  /\ BoundedSeq(Ids, 2) \subseteq Seq(Ids)
  /\ \A members \in SUBSET Ids : SetValues(members) \in Seq(Ids)
<1>1. BoundedSeq(Ids, 2) \subseteq Seq(Ids)
  <2> SUFFICES ASSUME NEW s \in BoundedSeq(Ids, 2) PROVE s \in Seq(Ids)
    OBVIOUS
  <2>1. PICK k \in 0..2 : s \in [1..k -> Ids]
    BY Zenon DEF BoundedSeq, SeqOf
  <2>2. k \in Nat
    OBVIOUS
  <2> QED  BY <2>1, <2>2
<1>2. ASSUME NEW members \in SUBSET Ids PROVE SetValues(members) \in Seq(Ids)
  <2>1. IsFiniteSet(members)
    BY FS_Subset, ObjectsAssumption
  <2> DEFINE n == Cardinality(members)
             s == SetToSeq(members)
  <2>2. n \in Nat /\ s \in [1..n -> members]
    BY <2>1, Listed
  <2> HIDE DEF n, s
  <2>3. s \in [1..n -> Ids]
    BY <2>2
  <2>4. s \in Seq(Ids)
    BY <2>2, <2>3
  <2> QED  BY <2>4 DEF SetValues, s
<1> QED  BY <1>1, <1>2

LEMMA DeleteStep ==
  ASSUME schema \in Schemas, objects \in ObjectContents, NEW s \in Seq(Ids),
         Made("delete", <<s>>, DeleteEach(objects, s))
  PROVE  WalksReachAll'
<1> DEFINE r == DeleteEach(objects, s)
<1>1. objects' = r.objects /\ did' = [op |-> "delete", args |-> <<s>>, from |-> objects, threw |-> r.threw]
  BY Zenon DEF Made
<1>2. did'.op = "delete" /\ did'.args[1] = s /\ did'.from = objects /\ did'.threw = r.threw
  BY <1>1
<1>3. ~Failed(r) => {id \in Ids : r.objects[id] # Gone} = {id \in Ids : objects[id] # Gone} \ ToSet(s)
  BY DeletionsReachAll
<1> HIDE DEF r
<1>4. ~did'.threw => {id \in Ids : objects'[id] # Gone} =
      {id \in Ids : did'.from[id] # Gone} \ ToSet(did'.args[1])
  BY <1>1, <1>2, <1>3, Zenon DEF Failed
<1>5. did'.op # "update"
  BY <1>2
<1> QED  BY <1>4, <1>5, Zenon DEF WalksReachAll

LEMMA UpdateStep ==
  ASSUME schema \in Schemas, objects \in ObjectContents, NEW filter, NEW p \in {"value", "link"},
         NEW v, Settable(p, v), Made("update", <<filter, p, v>>, UpdateEach(objects, filter, p, v))
  PROVE  WalksReachAll'
<1> DEFINE r == UpdateEach(objects, filter, p, v)
<1>1. /\ objects' = r.objects
      /\ did' = [op |-> "update", args |-> <<filter, p, v>>, from |-> objects, threw |-> r.threw]
  BY Zenon DEF Made
<1>2. /\ did'.op = "update" /\ did'.args[1] = filter /\ did'.args[2] = p /\ did'.args[3] = v
      /\ did'.from = objects /\ did'.threw = r.threw
  BY <1>1
<1>3. ~Failed(r) => \A id \in Matching(objects, filter) : Reached(r, id, p, Target(v))
  BY UpdatesReachAll
<1> HIDE DEF r
<1>4. \A id : Reached(r, id, p, Target(v)) => objects'[id][p] = Target(v)
  <2>1. CASE p = "value"
    BY <1>1, <2>1 DEF Reached
  <2>2. CASE p = "link"
    BY <1>1, <2>2 DEF Reached
  <2> QED  BY <2>1, <2>2
<1>5. ~did'.threw => \A id \in Matching(did'.from, did'.args[1]) :
      objects'[id][did'.args[2]] = Target(did'.args[3])
  BY <1>2, <1>3, <1>4, Zenon DEF Failed
<1>6. did'.op # "delete"
  BY <1>2
<1> QED  BY <1>5, <1>6, Zenon DEF WalksReachAll, Target, Matching

LEMMA OtherStep ==
  ASSUME NEW op \in {"create", "assign"}, NEW args, NEW r, Made(op, args, r)
  PROVE  WalksReachAll'
<1>1. did'.op = op
  BY DEF Made
<1>2. did'.op # "delete" /\ did'.op # "update"
  BY <1>1
<1> QED  BY <1>2, Zenon DEF WalksReachAll

LEMMA CallWalks ==
  ASSUME schema \in Schemas, objects \in ObjectContents, Calls
  PROVE  WalksReachAll'
<1>1. CASE \E values \in Nesting, mode \in Modes :
             Made("create", <<values, mode>>, Create(objects, values, mode))
  <2>1. "create" \in {"create", "assign"}
    OBVIOUS
  <2> QED  BY <1>1, <2>1, OtherStep, Zenon
<1>2. CASE \/ \E id \in Ids, v \in Amounts \cup {Unfit} :
                Made("assign", <<id, "value", v>>, Assign(objects, id, "value", v))
           \/ \E id \in Ids, v \in Ids \cup {Unfit, Null} \cup Plain :
                Made("assign", <<id, "link", v>>, Assign(objects, id, "link", v))
  <2>1. "assign" \in {"create", "assign"}
    OBVIOUS
  <2> QED  BY <1>2, <2>1, OtherStep, Zenon
<1>3. CASE \/ \E s \in BoundedSeq(Ids, 2) : Made("delete", <<s>>, DeleteEach(objects, s))
           \/ \E members \in SUBSET {id \in Ids : objects[id] # Gone} :
                Made("delete", <<SetValues(members)>>, DeleteEach(objects, SetValues(members)))
  <2>1. \E s \in Seq(Ids) : Made("delete", <<s>>, DeleteEach(objects, s))
    <3>1. \A members \in SUBSET {id \in Ids : objects[id] # Gone} : SetValues(members) \in Seq(Ids)
      BY WalkSubjects
    <3> QED  BY <1>3, <3>1, WalkSubjects, Zenon
  <2> QED  BY <2>1, DeleteStep
<1>4. CASE \E filter \in Amounts \cup {Zero}, v \in Amounts \cup {Unfit} :
             Made("update", <<filter, "value", v>>, UpdateEach(objects, filter, "value", v))
  <2>1. PICK filter \in Amounts \cup {Zero}, v \in Amounts \cup {Unfit} :
          Made("update", <<filter, "value", v>>, UpdateEach(objects, filter, "value", v))
    BY <1>4, Zenon
  <2> DEFINE p == "value"
  <2>2. p \in {"value", "link"} /\ Settable(p, v)
    BY DEF Settable
  <2>3. Made("update", <<filter, p, v>>, UpdateEach(objects, filter, p, v))
    BY <2>1
  <2> HIDE DEF p
  <2> QED  BY <2>2, <2>3, UpdateStep
<1>5. CASE \E filter \in Amounts \cup {Zero}, v \in Ids \cup {Null} \cup Plain :
             Made("update", <<filter, "link", v>>, UpdateEach(objects, filter, "link", v))
  <2>1. PICK filter \in Amounts \cup {Zero}, v \in Ids \cup {Null} \cup Plain :
          Made("update", <<filter, "link", v>>, UpdateEach(objects, filter, "link", v))
    BY <1>5, Zenon
  <2> DEFINE p == "link"
  <2>2. p \in {"value", "link"} /\ Settable(p, v)
    BY DEF Settable
  <2>3. Made("update", <<filter, p, v>>, UpdateEach(objects, filter, p, v))
    BY <2>1
  <2> HIDE DEF p
  <2> QED  BY <2>2, <2>3, UpdateStep
<1> QED  BY <1>1, <1>2, <1>3, <1>4, <1>5, Zenon DEF Calls

-----------------------------------------------------------------------------
(* Objects: what create() is told                                          *)

(* What create() is told, and why it may refuse.                           *)
Refused(o, d, mode) == Refusable(o, d.objects, mode) \/ ModeIsLost(o, d.objects)
MadeAsTold(o, d, r) == r.objects[o.id] = [value |-> ValueTold(o, d.objects), link |-> LinkTold(o, d.objects)]

LEMMA ToldOf ==
  ASSUME NEW d \in Doings, NEW r \in Doings, NEW o, o.id \in Ids, r.objects[o.id] # Gone,
         ValueMade(o, d, r), r.objects[o.id].link = LinkTold(o, d.objects)
  PROVE  MadeAsTold(o, d, r)
<1>1. r.objects[o.id] \in ObjectStates
  BY States
<1>2. r.objects[o.id].value = ValueTold(o, d.objects)
  <2>1. CASE o.value # NotGiven
    BY <2>1 DEF ValueMade, ValueTold
  <2>2. CASE o.value = NotGiven /\ IsNew(d, o)
    BY <2>2 DEF ValueMade, ValueTold, IsNew, DefaultValue
  <2>3. CASE o.value = NotGiven /\ ~IsNew(d, o)
    BY <2>3 DEF ValueMade, ValueTold, IsNew
  <2> QED  BY <2>1, <2>2, <2>3
<1>3. \A x \in ObjectStates : x = [value |-> x.value, link |-> x.link]
  BY DEF ObjectStates
<1> DEFINE v == ValueTold(o, d.objects)
           l == LinkTold(o, d.objects)
           x == r.objects[o.id]
<1>4. x \in ObjectStates /\ x.value = v /\ x.link = l
  BY <1>1, <1>2
<1> HIDE DEF v, l, x
<1>5. x = [value |-> v, link |-> l]
  BY <1>3, <1>4
<1> QED  BY <1>5 DEF MadeAsTold, v, l, x

LEMMA LinkOf ==
  ASSUME NEW d, NEW r, NEW o, ~IsPlainObject(o.link), LinkMade(o, d, r)
  PROVE  r.objects[o.id].link = LinkTold(o, d.objects)
<1>1. CASE o.link # NotGiven
  BY <1>1 DEF LinkMade, LinkTold
<1>2. CASE o.link = NotGiven /\ IsNew(d, o)
  BY <1>2 DEF LinkMade, LinkTold, IsNew
<1>3. CASE o.link = NotGiven /\ ~IsNew(d, o)
  BY <1>3 DEF LinkMade, LinkTold, IsNew
<1> QED  BY <1>1, <1>2, <1>3

LEMMA SameMade ==
  ASSUME NEW d, NEW f, NEW r, NEW o, f.objects[o.id] = d.objects[o.id]
  PROVE  /\ ValueMade(o, f, r) => ValueMade(o, d, r)
         /\ LinkMade(o, f, r) => LinkMade(o, d, r)
         /\ IsNew(f, o) <=> IsNew(d, o)
  BY DEF ValueMade, LinkMade, IsNew

LEMMA RefusedFor ==
  ASSUME NEW d, NEW f, NEW o, ~IsPlainObject(o.link), NEW mode, IsNew(f, o) <=> IsNew(d, o),
         \A j \in Ids : d.objects[j] # Gone => f.objects[j] # Gone, MayThrow(o, f, mode)
  PROVE  Refused(o, d, mode)
  BY DEF MayThrow, Refused, Refusable, ModeIsLost, IsNew

LEMMA PlainLinks ==
  ASSUME NEW v, LinkIsPlain(v)
  PROVE  ~IsPlainObject(v.link)
  BY DEF LinkIsPlain, IsPlainObject

(* An object with no other in it.                                          *)
LEMMA OneMade ==
  ASSUME schema \in Schemas, NEW d \in Doings, ~Failed(d), NEW o, ValueIsPlain(o), LinkIsPlain(o),
         NEW mode, NEW r, r = CreateObject(d, o, mode)
  PROVE  /\ r \in Doings
         /\ Failed(r) => Refused(o, d, mode)
         /\ ~Failed(r) => /\ MadeAsTold(o, d, r)
                          /\ \A j \in Ids \ ({o.id} \cup Others) : r.objects[j] = d.objects[j]
<1>1. ~IsPlainObject(o.link) /\ o.id \in Ids
  BY PlainLinks DEF LinkIsPlain
<1>2. r = CreateNested(d, o, mode)
  <2>1. \A x, id, c : SetProperty(x, id, "link", o.link, c) = SetGiven(x, id, "link", o.link, c)
    BY <1>1, Zenon DEF SetProperty
  <2>2. \A x, id, c : SetProperty(x, id, "value", o.value, c) = SetGiven(x, id, "value", o.value, c)
    <3>1. "value" # "link"
      OBVIOUS
    <3> QED  BY <3>1, Zenon DEF SetProperty
  <2>3. GivenFor(o, "link") = o.link /\ GivenFor(o, "value") = o.value
    BY DEF GivenFor
  <2> DEFINE c == d.objects[o.id] = Gone
             g == GotOrNew(d, o.id)
             outer(x, p) == FillBy(SetProperty, SetDefault, x, o, p, mode, c)
             inner(x, p) == FillBy(SetGiven, SetDefault, x, o, p, mode, c)
  <2>4. \A x : outer(x, "link") = inner(x, "link") /\ outer(x, "value") = inner(x, "value")
    <3> HIDE DEF c
    <3> QED  BY <2>1, <2>2, <2>3, Zenon DEF FillBy
  <2>5. CASE schema.order[1] = "value" /\ schema.order[2] = "link"
    <3>1. r = IF mode = "never" /\ ~c THEN Thrown(d) ELSE outer(outer(g, "value"), "link")
      BY <2>5, Zenon DEF CreateObject, CreateBy
    <3>2. CreateNested(d, o, mode) = IF mode = "never" /\ ~c THEN Thrown(d)
                                     ELSE inner(inner(g, "value"), "link")
      BY <2>5, Zenon DEF CreateNested, CreateBy
    <3> HIDE DEF outer, inner, c, g
    <3> QED  BY <2>4, <3>1, <3>2, Zenon
  <2>6. CASE schema.order[1] = "link" /\ schema.order[2] = "value"
    <3>1. r = IF mode = "never" /\ ~c THEN Thrown(d) ELSE outer(outer(g, "link"), "value")
      BY <2>6, Zenon DEF CreateObject, CreateBy
    <3>2. CreateNested(d, o, mode) = IF mode = "never" /\ ~c THEN Thrown(d)
                                     ELSE inner(inner(g, "link"), "value")
      BY <2>6, Zenon DEF CreateNested, CreateBy
    <3> HIDE DEF outer, inner, c, g
    <3> QED  BY <2>4, <3>1, <3>2, Zenon
  <2> QED  BY <2>5, <2>6, SchemaFacts
<1>3. PlainMade(d, o, mode, r)
  BY <1>2, CreatesPlain
<1>4. Failed(r) => Refused(o, d, mode)
  <2>1. Failed(r) => MayThrow(o, d, mode)
    BY <1>3 DEF PlainMade
  <2> QED  BY <1>1, <2>1, RefusedFor
<1>5. ~Failed(r) => MadeAsTold(o, d, r)
  <2> SUFFICES ASSUME ~Failed(r) PROVE MadeAsTold(o, d, r)
    OBVIOUS
  <2>1. r \in Doings /\ r.objects[o.id] # Gone /\ ValueMade(o, d, r) /\ LinkMade(o, d, r)
    BY <1>3 DEF PlainMade
  <2>2. r.objects[o.id].link = LinkTold(o, d.objects)
    BY <1>1, <2>1, LinkOf
  <2> QED  BY <1>1, <2>1, <2>2, ToldOf
<1> QED  BY <1>3, <1>4, <1>5 DEF PlainMade

(* An object and the one that is nested in it.                             *)
LEMMA TwoMade ==
  ASSUME schema \in Schemas, NEW d \in Doings, ~Failed(d), NEW o, ValueIsPlain(o), NEW i, i = o.link,
         IsPlainObject(i), ValueIsPlain(i), LinkIsPlain(i), NEW mode \in Modes, d.mode = mode,
         o.id # i.id, o.id \notin Others, i.id \notin Others, NEW r, r = CreateObject(d, o, mode)
  PROVE  /\ r \in Doings
         /\ Failed(r) => Refused(o, d, mode) \/ Refused(i, d, mode)
         /\ ~Failed(r) => /\ MadeAsTold(o, d, r) /\ MadeAsTold(i, d, r)
                          /\ \A j \in Ids \ ({o.id, i.id} \cup Others) : r.objects[j] = d.objects[j]
<1> DEFINE g == GotOrNew(d, o.id)
<1>1. o.id \in Ids /\ i.id \in Ids /\ ~IsPlainObject(i.link) /\ i # NotGiven /\ i # Null
  BY PlainLinks DEF ValueIsPlain, IsPlainObject
<1>2. mode # NotGiven /\ NotGiven \notin Modes
  BY ObjectsAssumption DEF Modes
<1>3. /\ g \in Doings /\ ~Failed(g) /\ g.mode = mode /\ g.objects[o.id] # Gone
      /\ ~IsNew(d, o) => g = d
      /\ \A j \in Ids \ {o.id} : g.objects[j] = d.objects[j]
      /\ \A j \in Ids : d.objects[j] # Gone => g.objects[j] # Gone
  BY <1>1, Getting DEF IsNew
<1>4. CASE mode = "never" /\ ~IsNew(d, o)
  <2>1. r = Thrown(d)
    BY <1>4, Zenon DEF CreateObject, CreateBy, IsNew
  <2>2. r \in Doings /\ Failed(r)
    BY <2>1, ThrownDoing
  <2>3. Refused(o, d, mode)
    BY <1>4 DEF Refused, Refusable, IsNew
  <2> QED  BY <2>2, <2>3
<1> DEFINE nested(x) == IF Failed(x) THEN x ELSE SetNested(x, o.id, i)
           value(x) == FillValue(x, o, mode, d)
<1>5. /\ schema.order[1] = "value" /\ schema.order[2] = "link" /\ ~(mode = "never" /\ ~IsNew(d, o))
           => r = nested(value(g))
      /\ schema.order[1] = "link" /\ schema.order[2] = "value" /\ ~(mode = "never" /\ ~IsNew(d, o))
           => r = value(nested(g))
  <2> DEFINE c == IsNew(d, o)
             outer(x, p) == FillBy(SetProperty, SetDefault, x, o, p, mode, c)
  <2>1. GivenFor(o, "link") = i /\ GivenFor(o, "value") = o.value
    BY DEF GivenFor
  <2>2. \A x, id, a : SetProperty(x, id, "link", i, a) = SetNested(x, id, i)
    BY Zenon DEF SetProperty, SetNested
  <2>3. \A x, id, a : SetProperty(x, id, "value", o.value, a) = SetGiven(x, id, "value", o.value, a)
    <3>1. "value" # "link"
      OBVIOUS
    <3> QED  BY <3>1, Zenon DEF SetProperty
  <2>4. \A x : ~IsUnchanged(x, o.id, "link", i)
    <3>1. "value" # "link"
      OBVIOUS
    <3> QED  BY <1>1, <3>1 DEF IsUnchanged
  <2>5. \A x : outer(x, "link") = nested(x)
    <3> HIDE DEF c
    <3> QED  BY <1>1, <2>1, <2>2, <2>4, Zenon DEF FillBy, Failed
  <2>6. \A x : outer(x, "value") = value(x)
    <3> HIDE DEF c
    <3> QED  BY <2>1, <2>3, Zenon DEF FillValue, FillBy, c
  <2>7. CASE schema.order[1] = "value" /\ schema.order[2] = "link" /\ ~(mode = "never" /\ ~IsNew(d, o))
    <3>1. r = outer(outer(g, "value"), "link")
      BY <2>7, Zenon DEF CreateObject, CreateBy, IsNew
    <3>2. schema.order[1] # "link"
      BY <2>7
    <3> HIDE DEF outer, nested, value, g
    <3> QED  BY <2>5, <2>6, <3>1, <3>2, Zenon
  <2>8. CASE schema.order[1] = "link" /\ schema.order[2] = "value" /\ ~(mode = "never" /\ ~IsNew(d, o))
    <3>1. r = outer(outer(g, "link"), "value")
      BY <2>8, Zenon DEF CreateObject, CreateBy, IsNew
    <3>2. schema.order[1] # "value"
      BY <2>8
    <3> HIDE DEF outer, nested, value, g
    <3> QED  BY <2>5, <2>6, <3>1, <3>2, Zenon
  <2> QED  BY <2>7, <2>8
<1>6. CASE ~(mode = "never" /\ ~IsNew(d, o)) /\ schema.order[1] = "value" /\ schema.order[2] = "link"
  <2> DEFINE f == value(g)
  <2>1. r = nested(f)
    BY <1>5, <1>6
  <2>2. ValueFilled(g, o, d, f)
    <3> HIDE DEF g
    <3> QED  BY <1>3, FillsValue
  <2> HIDE DEF g, f, value
  <2> USE DEF nested
  <2>3. /\ f \in Doings
        /\ KeepsMode(g, f) \/ (o.value = NotGiven /\ IsNew(d, o) /\ schema.default = "creates")
        /\ \A j \in Ids \ ({o.id} \cup Others) : f.objects[j] = g.objects[j]
        /\ \A j \in Ids : g.objects[j] # Gone => f.objects[j] # Gone
    BY <2>2 DEF ValueFilled
  <2>4. f.objects[i.id] = d.objects[i.id] /\ \A j \in Ids : d.objects[j] # Gone => f.objects[j] # Gone
    BY <1>1, <1>3, <2>3
  <2>5. CASE Failed(f)
    <3>1. r = f
      BY <2>1, <2>5
    <3>2. Refused(o, d, mode)
      <4>1. \/ o.value = Unfit
            \/ schema.counter /\ ~IsNew(d, o) /\ o.value # NotGiven
            \/ /\ o.value = NotGiven /\ IsNew(d, o)
               /\ schema.default = NotGiven \/ (schema.default = "creates" /\ schema.counter)
        BY <2>2, <2>5 DEF ValueFilled
      <4> QED  BY <4>1 DEF Refused, Refusable, ModeIsLost, IsNew
    <3> QED  BY <2>3, <2>5, <3>1, <3>2
  <2>6. CASE ~Failed(f)
    <3>1. r = SetNested(f, o.id, i)
      BY <2>1, <2>6
    <3>2. f.objects[o.id] # Gone
      BY <1>1, <1>3, <2>3
    <3>3. NestedSet(f, o.id, i, r)
      BY <1>1, <2>3, <2>6, <3>1, <3>2, SettingNested
    <3>4. r \in Doings
      BY <3>3 DEF NestedSet
    <3>5. Failed(r) => Refused(o, d, mode) \/ Refused(i, d, mode)
      <4> SUFFICES ASSUME Failed(r) PROVE Refused(o, d, mode) \/ Refused(i, d, mode)
        OBVIOUS
      <4>1. MayThrow(i, f, LinkMode(f))
        BY <3>3 DEF NestedSet
      <4>2. CASE KeepsMode(g, f)
        <5>1. LinkMode(f) = mode
          BY <1>2, <1>3, <4>2 DEF KeepsMode, LinkMode
        <5>2. IsNew(f, i) <=> IsNew(d, i)
          BY <2>4 DEF IsNew
        <5>3. MayThrow(i, f, mode)
          BY <4>1, <5>1
        <5> QED  BY <1>1, <2>4, <5>2, <5>3, RefusedFor
      <4>3. CASE o.value = NotGiven /\ IsNew(d, o) /\ schema.default = "creates"
        <5>1. Refused(o, d, mode)
          BY <4>3 DEF Refused, ModeIsLost, IsNew
        <5> QED  BY <5>1
      <4> QED  BY <2>3, <4>2, <4>3
    <3>6. ASSUME ~Failed(r)
          PROVE  /\ MadeAsTold(o, d, r) /\ MadeAsTold(i, d, r)
                 /\ \A j \in Ids \ ({o.id, i.id} \cup Others) : r.objects[j] = d.objects[j]
      <4>1. /\ r.objects[o.id].link = i.id /\ ValueMade(i, f, r) /\ LinkMade(i, f, r)
            /\ r.objects[o.id].value = f.objects[o.id].value
            /\ \A j \in Ids : f.objects[j] # Gone => r.objects[j] # Gone
            /\ \A j \in Ids \ ({o.id, i.id} \cup Others) : r.objects[j] = f.objects[j]
            /\ r.objects[i.id] # Gone
        BY <3>3, <3>6 DEF NestedSet
      <4>2. MadeAsTold(i, d, r)
        <5>1. ValueMade(i, d, r) /\ LinkMade(i, d, r)
          BY <2>4, <4>1, SameMade
        <5>2. r.objects[i.id].link = LinkTold(i, d.objects)
          BY <1>1, <5>1, LinkOf
        <5> QED  BY <1>1, <3>4, <4>1, <5>1, <5>2, ToldOf
      <4>3. MadeAsTold(o, d, r)
        <5>1. ValueMade(o, d, r)
          <6>1. /\ o.value # NotGiven => f.objects[o.id].value = o.value
                /\ o.value = NotGiven /\ IsNew(d, o) => f.objects[o.id].value = DefaultValue
                /\ o.value = NotGiven /\ ~IsNew(d, o) => f.objects[o.id].value = g.objects[o.id].value
            BY <2>2, <2>6 DEF ValueFilled
          <6> QED  BY <1>3, <4>1, <6>1 DEF ValueMade
        <5>2. r.objects[o.id].link = LinkTold(o, d.objects)
          BY <1>1, <4>1 DEF LinkTold
        <5>3. r.objects[o.id] # Gone
          BY <1>1, <3>2, <4>1
        <5> QED  BY <1>1, <3>4, <5>1, <5>2, <5>3, ToldOf
      <4>4. \A j \in Ids \ ({o.id, i.id} \cup Others) : r.objects[j] = d.objects[j]
        BY <1>3, <2>3, <4>1
      <4> QED  BY <4>2, <4>3, <4>4
    <3> QED  BY <3>4, <3>5, <3>6
  <2> QED  BY <2>5, <2>6
<1>7. CASE ~(mode = "never" /\ ~IsNew(d, o)) /\ schema.order[1] = "link" /\ schema.order[2] = "value"
  <2> DEFINE f == nested(g)
  <2>1. r = FillValue(f, o, mode, d) /\ f = SetNested(g, o.id, i)
    BY <1>3, <1>5, <1>7
  <2> HIDE DEF g, f, nested
  <2>2. NestedSet(g, o.id, i, f)
    BY <1>1, <1>3, <2>1, SettingNested
  <2>3. g.objects[i.id] = d.objects[i.id]
    BY <1>1, <1>3
  <2>4. CASE Failed(f)
    <3>1. r = f
      BY <2>1, <2>4, Zenon DEF FillValue, FillBy, Failed
    <3>2. MayThrow(i, g, LinkMode(g)) /\ f \in Doings
      BY <2>2, <2>4 DEF NestedSet
    <3>3. LinkMode(g) = mode
      BY <1>2, <1>3 DEF LinkMode
    <3>4. IsNew(g, i) <=> IsNew(d, i)
      BY <2>3 DEF IsNew
    <3>5. MayThrow(i, g, mode)
      BY <3>2, <3>3
    <3>6. Refused(i, d, mode)
      BY <1>1, <1>3, <3>4, <3>5, RefusedFor
    <3> QED  BY <2>4, <3>1, <3>2, <3>6
  <2>5. CASE ~Failed(f)
    <3>1. /\ f \in Doings
          /\ f.objects[o.id].link = i.id /\ ValueMade(i, g, f) /\ LinkMade(i, g, f)
          /\ f.objects[o.id].value = g.objects[o.id].value
          /\ \A j \in Ids : g.objects[j] # Gone => f.objects[j] # Gone
          /\ \A j \in Ids \ ({o.id, i.id} \cup Others) : f.objects[j] = g.objects[j]
          /\ f.objects[i.id] # Gone
      BY <2>2, <2>5 DEF NestedSet
    <3>2. f.objects[o.id] # Gone
      BY <1>1, <1>3, <3>1
    <3>3. ValueFilled(f, o, d, r)
      BY <2>1, <2>5, <3>1, <3>2, FillsValue
    <3>4. r \in Doings
      BY <3>3 DEF ValueFilled
    <3>5. Failed(r) => Refused(o, d, mode)
      <4>1. Failed(r) =>
              \/ o.value = Unfit
              \/ schema.counter /\ ~IsNew(d, o) /\ o.value # NotGiven
              \/ /\ o.value = NotGiven /\ IsNew(d, o)
                 /\ schema.default = NotGiven \/ (schema.default = "creates" /\ schema.counter)
        BY <3>3 DEF ValueFilled
      <4> QED  BY <4>1 DEF Refused, Refusable, ModeIsLost, IsNew
    <3>6. ASSUME ~Failed(r)
          PROVE  /\ MadeAsTold(o, d, r) /\ MadeAsTold(i, d, r)
                 /\ \A j \in Ids \ ({o.id, i.id} \cup Others) : r.objects[j] = d.objects[j]
      <4>1. /\ \A j \in Ids \ ({o.id} \cup Others) : r.objects[j] = f.objects[j]
            /\ \A j \in Ids : f.objects[j] # Gone =>
                  r.objects[j] # Gone /\ r.objects[j].link = f.objects[j].link
            /\ o.value # NotGiven => r.objects[o.id].value = o.value
            /\ o.value = NotGiven /\ IsNew(d, o) => r.objects[o.id].value = DefaultValue
            /\ o.value = NotGiven /\ ~IsNew(d, o) => r.objects[o.id].value = f.objects[o.id].value
        BY <3>3, <3>6 DEF ValueFilled
      <4>2. r.objects[i.id] = f.objects[i.id]
        BY <1>1, <4>1
      <4>3. MadeAsTold(i, d, r)
        <5>1. ValueMade(i, g, r) /\ LinkMade(i, g, r)
          BY <3>1, <4>2 DEF ValueMade, LinkMade
        <5>2. ValueMade(i, d, r) /\ LinkMade(i, d, r)
          BY <2>3, <5>1, SameMade
        <5>3. r.objects[i.id].link = LinkTold(i, d.objects)
          BY <1>1, <5>2, LinkOf
        <5>4. r.objects[i.id] # Gone
          BY <3>1, <4>2
        <5> QED  BY <1>1, <3>4, <5>2, <5>3, <5>4, ToldOf
      <4>4. MadeAsTold(o, d, r)
        <5>1. ValueMade(o, d, r)
          BY <1>3, <3>1, <4>1 DEF ValueMade
        <5>2. r.objects[o.id].link = LinkTold(o, d.objects)
          BY <1>1, <3>1, <3>2, <4>1 DEF LinkTold
        <5>3. r.objects[o.id] # Gone
          BY <1>1, <3>2, <4>1
        <5> QED  BY <1>1, <3>4, <5>1, <5>2, <5>3, ToldOf
      <4>5. \A j \in Ids \ ({o.id, i.id} \cup Others) : r.objects[j] = d.objects[j]
        BY <1>3, <3>1, <4>1
      <4> QED  BY <4>3, <4>4, <4>5
    <3> QED  BY <3>4, <3>5, <3>6
  <2> QED  BY <2>4, <2>5
<1> QED  BY <1>4, <1>6, <1>7, SchemaFacts

(* Three things counted apart are three.                                   *)
LEMMA CountedApart ==
  ASSUME NEW a, NEW b, NEW X, IsFiniteSet(X), Cardinality({a, b} \cup X) = 2 + Cardinality(X)
  PROVE  a # b /\ a \notin X /\ b \notin X
<1> DEFINE Y == X \cup {a}
           Z == Y \cup {b}
<1>1. IsFiniteSet(Y) /\ Cardinality(Y) = IF a \in X THEN Cardinality(X) ELSE Cardinality(X) + 1
  BY FS_AddElement
<1>2. Cardinality(X) \in Nat
  BY FS_CardinalityType
<1>3. b \in X => b \in Y
  OBVIOUS
<1>4. b = a => b \in Y
  OBVIOUS
<1>5. {a, b} \cup X = Z
  OBVIOUS
<1> HIDE DEF Y
<1>6. Cardinality(Z) = IF b \in Y THEN Cardinality(Y) ELSE Cardinality(Y) + 1
  BY <1>1, FS_AddElement
<1>7. Cardinality(Z) = 2 + Cardinality(X)
  BY <1>5, Zenon
<1> HIDE DEF Z
<1>8. b \notin Y /\ a \notin X
  BY <1>1, <1>2, <1>6, <1>7
<1> QED  BY <1>3, <1>4, <1>8

Parts(values) == {values} \cup (IF IsPlainObject(values.link) THEN {values.link} ELSE {})

ToldWell(values, mode, from, objs, threw) ==
  Cardinality(Named(values) \cup Others) = Cardinality(Parts(values)) + Cardinality(Others) =>
    IF threw THEN \E o \in Parts(values) : Refusable(o, from, mode) \/ ModeIsLost(o, from)
    ELSE /\ \A o \in Parts(values) :
              objs[o.id] = [value |-> ValueTold(o, from), link |-> LinkTold(o, from)]
         /\ \A id \in Ids \ (Named(values) \cup Others) : objs[id] = from[id]

LEMMA OthersCounted ==
  IsFiniteSet(Others) /\ Cardinality(Others) \in Nat
<1>1. IsFiniteSet(Others)
  BY FS_EmptySet, FS_Singleton DEF Others
<1> QED  BY <1>1, FS_CardinalityType

LEMMA CreateToldWell ==
  ASSUME schema \in Schemas, NEW objs \in ObjectContents, NEW values \in Nesting, NEW mode \in Modes,
         NEW r, r = Create(objs, values, mode)
  PROVE  ToldWell(values, mode, objs, r.objects, r.threw)
<1> DEFINE d == Doing(objs, mode)
<1>1. d \in Doings /\ d.objects = objs /\ d.mode = mode /\ ~Failed(d)
  BY DoingStarts
<1>2. r = CreateObject(d, values, mode)
  BY Zenon DEF Create
<1> HIDE DEF d
<1>3. IsPlainObject(values) /\ ValueIsPlain(values)
  <2>1. IsPlainObject(values)
    BY PlainObjectsAssumption
  <2>2. values \in Plain => ValueIsPlain(values)
    BY PlainObjects
  <2>3. \A q \in Plain : \A inner : ValueIsPlain([q EXCEPT !.link = inner])
    BY DEF Plain, ValueIsPlain
  <2>4. values \notin Plain => \E q \in Plain : \E inner : values = [q EXCEPT !.link = inner]
    BY DEF Nesting
  <2> QED  BY <2>1, <2>2, <2>3, <2>4
<1>4. LinkIsPlain(values) \/ values.link \in Plain
  <2>1. values \in Plain => LinkIsPlain(values)
    BY PlainObjects
  <2>2. \A q \in Plain : \A inner : [q EXCEPT !.link = inner].link = inner
    BY DEF Plain
  <2>3. values \notin Plain => \E q \in Plain, inner \in Plain \cup {Unfit} :
        values = [q EXCEPT !.link = inner]
    BY DEF Nesting
  <2>4. values.link = Unfit => LinkIsPlain(values)
    BY <1>3 DEF LinkIsPlain, ValueIsPlain
  <2> QED  BY <2>1, <2>2, <2>3, <2>4
<1>5. CASE LinkIsPlain(values)
  <2>1. /\ Failed(r) => Refused(values, d, mode)
        /\ ~Failed(r) => /\ MadeAsTold(values, d, r)
                         /\ \A j \in Ids \ ({values.id} \cup Others) : r.objects[j] = d.objects[j]
    BY <1>1, <1>2, <1>3, <1>5, OneMade
  <2>2. ~IsPlainObject(values.link)
    BY <1>5, PlainLinks
  <2>3. Parts(values) = {values} /\ Named(values) = {values.id}
    BY <2>2 DEF Parts, Named
  <2>4. Failed(r) => \E o \in Parts(values) : Refusable(o, objs, mode) \/ ModeIsLost(o, objs)
    BY <1>1, <2>1, <2>3 DEF Refused
  <2>5. ~Failed(r) => \A o \in Parts(values) :
           r.objects[o.id] = [value |-> ValueTold(o, objs), link |-> LinkTold(o, objs)]
    BY <1>1, <2>1, <2>3 DEF MadeAsTold
  <2>6. ~Failed(r) => \A j \in Ids \ (Named(values) \cup Others) : r.objects[j] = objs[j]
    BY <1>1, <2>1, <2>3
  <2> QED  BY <2>4, <2>5, <2>6, Zenon DEF ToldWell, Failed
<1>6. CASE values.link \in Plain
  <2> DEFINE i == values.link
  <2>1. IsPlainObject(i) /\ ValueIsPlain(i) /\ LinkIsPlain(i)
    BY <1>6, PlainObjects
  <2>2. Parts(values) = {values, i} /\ Named(values) = {values.id, i.id}
    BY <2>1 DEF Parts, Named
  <2>3. values # i
    BY <1>3, <2>1, PlainLinks
  <2>4. Cardinality(Parts(values)) = 2
    <3>1. IsFiniteSet({values}) /\ Cardinality({values}) = 1
      BY FS_Singleton
    <3>2. Cardinality({values} \cup {i}) = Cardinality({values}) + 1
      BY <2>3, <3>1, FS_AddElement
    <3>3. Parts(values) = {values} \cup {i}
      BY <2>2
    <3> QED  BY <3>1, <3>2, <3>3
  <2> SUFFICES ASSUME Cardinality(Named(values) \cup Others)
        = Cardinality(Parts(values)) + Cardinality(Others)
               PROVE  /\ Failed(r) => \E o \in Parts(values) : Refusable(o, objs, mode) \/ ModeIsLost(o, objs)
                      /\ ~Failed(r) =>
                           /\ \A o \in Parts(values) :
                                r.objects[o.id] = [value |-> ValueTold(o, objs), link |-> LinkTold(o, objs)]
                           /\ \A id \in Ids \ (Named(values) \cup Others) : r.objects[id] = objs[id]
    BY Zenon DEF ToldWell, Failed
  <2>5. values.id # i.id /\ values.id \notin Others /\ i.id \notin Others
    BY <2>2, <2>4, OthersCounted, CountedApart
  <2> HIDE DEF i
  <2>6. i = values.link
    BY DEF i
  <2>7. /\ Failed(r) => Refused(values, d, mode) \/ Refused(i, d, mode)
        /\ ~Failed(r) => /\ MadeAsTold(values, d, r) /\ MadeAsTold(i, d, r)
                         /\ \A j \in Ids \ ({values.id, i.id} \cup Others) : r.objects[j] = d.objects[j]
    BY <1>1, <1>2, <1>3, <2>1, <2>5, <2>6, TwoMade
  <2>8. Failed(r) => \E o \in Parts(values) : Refusable(o, objs, mode) \/ ModeIsLost(o, objs)
    BY <1>1, <2>2, <2>7 DEF Refused
  <2>9. ~Failed(r) => \A o \in Parts(values) :
           r.objects[o.id] = [value |-> ValueTold(o, objs), link |-> LinkTold(o, objs)]
    BY <1>1, <2>2, <2>7 DEF MadeAsTold
  <2>10. ~Failed(r) => \A j \in Ids \ (Named(values) \cup Others) : r.objects[j] = objs[j]
    BY <1>1, <2>2, <2>7
  <2> QED  BY <2>8, <2>9, <2>10
<1> QED  BY <1>4, <1>5, <1>6

LEMMA CallCreates ==
  ASSUME schema \in Schemas, objects \in ObjectContents, Calls
  PROVE  CreatesAsTold'
<1>1. CASE \E values \in Nesting, mode \in Modes :
             Made("create", <<values, mode>>, Create(objects, values, mode))
  <2>1. PICK values \in Nesting, mode \in Modes :
          Made("create", <<values, mode>>, Create(objects, values, mode))
    BY <1>1, Zenon
  <2> DEFINE r == Create(objects, values, mode)
  <2>2. /\ objects' = r.objects /\ schema' = schema
        /\ did' = [op |-> "create", args |-> <<values, mode>>, from |-> objects, threw |-> r.threw]
    BY <2>1, Zenon DEF Made
  <2>3. /\ did'.args[1] = values /\ did'.args[2] = mode
        /\ did'.from = objects /\ did'.threw = r.threw
    BY <2>2
  <2>4. ToldWell(values, mode, objects, r.objects, r.threw)
    BY CreateToldWell
  <2> HIDE DEF r
  <2>5. ToldWell(did'.args[1], did'.args[2], did'.from, objects', did'.threw)
    BY <2>2, <2>3, <2>4, Zenon
  <2>6. ToldWell(did'.args[1], did'.args[2], did'.from, objects', did'.threw)
          = ToldWell(did.args[1], did.args[2], did.from, objects, did.threw)'
    BY <2>2 DEF ToldWell, Others, Refusable, ModeIsLost, ValueTold, LinkTold, Named, Parts
  <2> QED  BY <2>5, <2>6, Zenon DEF CreatesAsTold, ToldWell, AsTold, Others, Parts
<1>2. CASE did'.op # "create"
  BY <1>2, Zenon DEF CreatesAsTold
<1>3. \A op, args, r : Made(op, args, r) => did'.op = op
  BY DEF Made
<1>4. "assign" # "create" /\ "delete" # "create" /\ "update" # "create"
  OBVIOUS
<1> QED  BY <1>1, <1>2, <1>3, <1>4, Zenon DEF Calls

-----------------------------------------------------------------------------
(* Objects: the calls                                                      *)

(***************************************************************************)
(* The objects before the one call are typed; after it, it has made what   *)
(* it was told to.                                                         *)
(***************************************************************************)
ObjectsIInv ==
  /\ schema \in Schemas
  /\ did.op = "none" => objects \in ObjectContents
  /\ WalksReachAll
  /\ CreatesAsTold

LEMMA ObjectsStart ==
  ObjectsInit => ObjectsIInv
<1> SUFFICES ASSUME ObjectsInit PROVE ObjectsIInv
  OBVIOUS
<1>1. schema \in Schemas /\ objects \in ObjectContents /\ did.op = "none"
  BY DEF ObjectsInit, Idle, ObjectContents, ObjectStates
<1>2. did.op # "delete" /\ did.op # "update" /\ did.op # "create"
  BY <1>1
<1>3. WalksReachAll
  BY <1>2, Zenon DEF WalksReachAll
<1>4. CreatesAsTold
  BY <1>2, Zenon DEF CreatesAsTold
<1> QED  BY <1>1, <1>3, <1>4 DEF ObjectsIInv

LEMMA ObjectsStep ==
  ObjectsIInv /\ [ObjectsNext]_objectVars => ObjectsIInv'
<1> SUFFICES ASSUME ObjectsIInv, [ObjectsNext]_objectVars PROVE ObjectsIInv'
  OBVIOUS
<1>1. CASE ObjectsNext
  <2>1. schema \in Schemas /\ objects \in ObjectContents /\ Calls
    BY <1>1 DEF ObjectsNext, ObjectsIInv
  <2>2. WalksReachAll' /\ CreatesAsTold'
    BY <2>1, CallWalks, CallCreates
  <2>3. \A op, args, r : Made(op, args, r) => did'.op = op /\ schema' = schema
    BY DEF Made
  <2>4. "create" # "none" /\ "assign" # "none" /\ "delete" # "none" /\ "update" # "none"
    OBVIOUS
  <2>5. did'.op # "none" /\ schema' = schema
    BY <2>1, <2>3, <2>4, Zenon DEF Calls
  <2> QED  BY <2>1, <2>2, <2>5 DEF ObjectsIInv
<1>2. CASE UNCHANGED objectVars
  <2>1. schema' = schema /\ objects' = objects /\ did' = did
    BY <1>2 DEF objectVars
  <2>2. WalksReachAll'
    BY <2>1, Zenon DEF ObjectsIInv, WalksReachAll, Matching
  <2>3. CreatesAsTold'
    <3>1. CreatesAsTold
      BY DEF ObjectsIInv
    <3> QED  BY <2>1, <3>1 DEF CreatesAsTold, AsTold, Refusable, ModeIsLost, ValueTold, LinkTold, Named
  <2> QED  BY <2>1, <2>2, <2>3 DEF ObjectsIInv
<1> QED  BY <1>1, <1>2

(* Every deletion and every update of results that returns has reached all *)
(* objects it was to (Barq.ts:944-973, Results.ts:118-131): for all        *)
(* objects, keys, values and classes of the schema.                        *)
THEOREM WalksReachAllAlways ==
  ObjectsSpec => []WalksReachAll
<1>1. ObjectsIInv => WalksReachAll
  BY DEF ObjectsIInv
<1> QED  BY <1>1, ObjectsStart, ObjectsStep, PTL DEF ObjectsSpec

(* And every create() that returns has made what it was told to, of the    *)
(* object and of the one nested in it, has left the others alone, and      *)
(* throws for a cause only (Object.ts:180-300, Barq.ts:904-936).           *)
THEOREM CreatesAsToldAlways ==
  ObjectsSpec => []CreatesAsTold
<1>1. ObjectsIInv => CreatesAsTold
  BY DEF ObjectsIInv
<1> QED  BY <1>1, ObjectsStart, ObjectsStep, PTL DEF ObjectsSpec
=============================================================================
