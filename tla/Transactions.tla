----------------------------- MODULE Transactions -----------------------------
(***************************************************************************)
(* The write transactions of one Barq and what its lookups find meanwhile. *)
(* write() begins a transaction, runs a callback of the application and    *)
(* commits, or cancels when the callback throws.  The callback may do all  *)
(* that the application may do: change rows, throw, begin, commit or       *)
(* cancel transactions itself and call write() again.                      *)
(*                                                                         *)
(* A row is known by its primary key and by the row it links to.  Rows of  *)
(* embedded and asymmetric classes are not kept here: their lookups throw. *)
(* External: the engine's transactions, keys of rows, and backlinks.       *)
(***************************************************************************)
EXTENDS Integers, Sequences, FiniteSets

CONSTANTS
  Tables,          \* classes
  TableType,       \* of each: "TopLevel", "Embedded" or "TopLevelAsymmetric"
  PrimaryKeyed,    \* those with a primary key
  LinksTo,         \* the class that the property "to" of each links to
  RowKeys,         \* the engine's names of the rows of a table
  PrimaryKeys,
  NoKey,           \* the primary key of a class without one
  NoRow,           \* null, and where there is no row
  NotAllowed,      \* what a call comes to that throws
  MaxWrites,       \* calls of write()
  MaxEdits         \* calls of everything else

ASSUME TransactionsAssumption ==
  /\ TableType \in [Tables -> {"TopLevel", "Embedded", "TopLevelAsymmetric"}]
  /\ PrimaryKeyed \subseteq Tables /\ LinksTo \in [Tables -> Tables]
  /\ NoRow \notin RowKeys /\ \A keys \in SUBSET RowKeys : NotAllowed # keys
  /\ MaxWrites \in Nat /\ MaxEdits \in Nat

VARIABLES
  rows,            \* of each class and key: [id, to] or NoRow
  begun,           \* the open transaction: the rows it began with, and within how many write()s
  writes,          \* the write()s under way, innermost last
  finished,        \* the write() that ended last
  calls            \* made so far, of write() and of everything else

transactionVars == <<rows, begun, writes, finished, calls>>

NoTransaction == [rows |-> NoRow, within |-> -1]
IsInTransaction == begun.within >= 0

NeverFinished == [threw |-> FALSE, meddled |-> FALSE, before |-> NoRow, made |-> NoRow, after |-> NoRow]

TopLevel == {t \in Tables : TableType[t] = "TopLevel"}
IsEmbedded(t) == TableType[t] = "Embedded"
IsAsymmetric(t) == TableType[t] = "TopLevelAsymmetric"

-----------------------------------------------------------------------------
(* The engine: of each of these, what it does when it does not throw.      *)

Begins(within) == begun' = [rows |-> rows, within |-> within]
Commits == begun' = NoTransaction /\ UNCHANGED rows
Cancels == begun' = NoTransaction /\ rows' = begun.rows

Counted(what) ==
  /\ calls[what] < (IF what = "writes" THEN MaxWrites ELSE MaxEdits)
  /\ calls' = [calls EXCEPT ![what] = @ + 1]

-----------------------------------------------------------------------------
(* beginTransaction(), commitTransaction() and cancelTransaction(): where  *)
(* they throw they do nothing.  Every write() under way has been meddled   *)
(* with once one of the last two succeeds.                                 *)

Meddled == [i \in DOMAIN writes |-> [writes[i] EXCEPT !.meddled = TRUE]]

BeginByHand ==
  /\ ~IsInTransaction
  /\ Counted("edits")
  /\ Begins(Len(writes))
  /\ UNCHANGED <<rows, writes, finished>>

CommitByHand ==
  /\ IsInTransaction
  /\ Counted("edits")
  /\ Commits
  /\ writes' = Meddled
  /\ UNCHANGED finished

CancelByHand ==
  /\ IsInTransaction
  /\ Counted("edits")
  /\ Cancels
  /\ writes' = Meddled
  /\ UNCHANGED finished

(* write(callback): in a transaction it throws before it has done anything.*)
Write ==
  /\ ~IsInTransaction
  /\ Counted("writes")
  /\ Begins(Len(writes) + 1)
  /\ writes' = Append(writes, [before |-> rows, meddled |-> FALSE])
  /\ UNCHANGED <<rows, finished>>

Finished(threw) ==
  LET write == writes[Len(writes)]
  IN /\ writes' = SubSeq(writes, 1, Len(writes) - 1)
     /\ finished' = [threw |-> threw, meddled |-> write.meddled, before |-> write.before,
                     made |-> rows, after |-> rows']
     /\ UNCHANGED calls

(* The callback returns; the commit throws without a transaction.          *)
CallbackReturned ==
  /\ writes # <<>>
  /\ IF IsInTransaction THEN Commits ELSE UNCHANGED <<rows, begun>>
  /\ Finished(~IsInTransaction)

(* The callback throws; so does cancelTransaction() without a transaction. *)
CallbackThrew ==
  /\ writes # <<>>
  /\ IF IsInTransaction THEN Cancels ELSE UNCHANGED <<rows, begun>>
  /\ Finished(TRUE)

-----------------------------------------------------------------------------
(* Changes of rows, in a transaction only.  Links to a row that is removed *)
(* become null.                                                            *)

Exists(t, k) == rows[t][k] # NoRow
Targets(t) == {k \in RowKeys : Exists(LinksTo[t], k)} \cup {NoRow}

Edited(new) ==
  /\ IsInTransaction
  /\ Counted("edits")
  /\ rows' = new
  /\ UNCHANGED <<begun, writes, finished>>

PutRow(t, k, id, to) ==
  /\ t \in TopLevel /\ ~Exists(t, k) /\ to \in Targets(t)
  /\ (id = NoKey) <=> (t \notin PrimaryKeyed)
  /\ id # NoKey => \A other \in RowKeys : Exists(t, other) => rows[t][other].id # id
  /\ Edited([rows EXCEPT ![t][k] = [id |-> id, to |-> to]])

Unlinked(row, t, u, k) ==
  IF row # NoRow /\ LinksTo[u] = t /\ row.to = k THEN [row EXCEPT !.to = NoRow] ELSE row

RemoveRow(t, k) ==
  /\ Exists(t, k)
  /\ Edited([u \in Tables |-> [other \in RowKeys |->
       IF u = t /\ other = k THEN NoRow ELSE Unlinked(rows[u][other], t, u, k)]])

DeleteAll == Edited([t \in Tables |-> [k \in RowKeys |-> NoRow]])

-----------------------------------------------------------------------------
(* Lookups                                                                 *)

ObjectForPrimaryKey(t, id) ==
  IF t \notin PrimaryKeyed \/ IsAsymmetric(t) THEN NotAllowed
  ELSE LET found == {k \in RowKeys : Exists(t, k) /\ rows[t][k].id = id}
       IN IF found = {} THEN NoRow ELSE CHOOSE k \in found : TRUE

ObjectForObjectKey(t, k) ==
  CASE IsEmbedded(t) \/ IsAsymmetric(t) -> NotAllowed
    [] Exists(t, k) -> k
    [] OTHER -> NoRow

ObjectsOf(t) ==
  IF IsEmbedded(t) \/ IsAsymmetric(t) THEN NotAllowed ELSE {k \in RowKeys : Exists(t, k)}

(* object.linkingObjects(u, "to"), for an object of t.                     *)
LinkingObjects(t, k, u) ==
  IF LinksTo[u] # t THEN NotAllowed ELSE {other \in RowKeys : Exists(u, other) /\ rows[u][other].to = k}

LinkingObjectsCount(t, k) ==
  Cardinality({from \in Tables \X RowKeys :
                 LinksTo[from[1]] = t /\ Exists(from[1], from[2]) /\ rows[from[1]][from[2]].to = k})

-----------------------------------------------------------------------------
TransactionsInit ==
  /\ rows = [t \in Tables |-> [k \in RowKeys |-> NoRow]]
  /\ begun = NoTransaction
  /\ writes = <<>>
  /\ finished = NeverFinished
  /\ calls = [writes |-> 0, edits |-> 0]

TransactionsNext ==
  \/ BeginByHand \/ CommitByHand \/ CancelByHand
  \/ Write \/ CallbackReturned \/ CallbackThrew
  \/ DeleteAll
  \/ \E t \in Tables, k \in RowKeys :
       \/ RemoveRow(t, k)
       \/ \E id \in PrimaryKeys \cup {NoKey}, to \in RowKeys \cup {NoRow} : PutRow(t, k, id, to)

TransactionsSpec == TransactionsInit /\ [][TransactionsNext]_transactionVars

-----------------------------------------------------------------------------
StoredRow == [id : PrimaryKeys \cup {NoKey}, to : RowKeys \cup {NoRow}]
TableContents == [Tables -> [RowKeys -> StoredRow \cup {NoRow}]]

(* The shapes of the variables (Barq.ts).                                  *)
TransactionsTypeOK ==
  /\ rows \in TableContents
  /\ begun \in [rows : TableContents \cup {NoRow}, within : Nat \cup {-1}]
  /\ IsInTransaction => begun.rows \in TableContents
  /\ writes \in Seq([before : TableContents, meddled : BOOLEAN])
  /\ finished \in [threw : BOOLEAN, meddled : BOOLEAN, before : TableContents \cup {NoRow},
                   made : TableContents \cup {NoRow}, after : TableContents \cup {NoRow}]
  /\ calls \in [{"writes", "edits"} -> Nat]

(* A write() that threw has changed nothing, and one that returned has     *)
(* kept what its callback made, unless the callback ended its transaction  *)
(* itself.  Whatever the callbacks do, no transaction is left open by the  *)
(* write() that it was begun in or within, and no changes are made between *)
(* transactions.                                                           *)
NoHalfWrites ==
  /\ finished.threw /\ ~finished.meddled => finished.after = finished.before
  /\ ~finished.threw => finished.after = finished.made
  /\ begun.within <= Len(writes)
  /\ \A i \in DOMAIN writes :
       ~writes[i].meddled => IsInTransaction /\ begun.within = i /\ begun.rows = writes[i].before

(* The ways to look for an object find the same ones, within a transaction *)
(* and after it, and the links that an object has are those it counts.     *)
LookupsAgree ==
  \A t \in Tables :
    LET all == ObjectsOf(t)
    IN all # NotAllowed =>
         /\ \A k \in RowKeys : (ObjectForObjectKey(t, k) = k) <=> (k \in all)
         /\ t \in PrimaryKeyed =>
              {ObjectForPrimaryKey(t, id) : id \in PrimaryKeys} \ {NoRow} = all
         /\ \A k \in all :
              LET from == {u \in Tables : LinkingObjects(t, k, u) # NotAllowed}
              IN /\ LinkingObjectsCount(t, k) =
                      Cardinality(UNION {{u} \X LinkingObjects(t, k, u) : u \in from})
                 /\ \A u \in from \cap TopLevel : LinkingObjects(t, k, u) \subseteq ObjectsOf(u)
=============================================================================
