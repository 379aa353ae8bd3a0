--------------------------- MODULE VectorIndexes ---------------------------
(***************************************************************************)
(* Barq.reconcileVectorIndexes: every process that opens a Barq brings the *)
(* vector indexes of the file in line with its own schema, in a write      *)
(* transaction of its own.                                                 *)
(*                                                                         *)
(* Several processes may open one file at once.  The read pass of each     *)
(* sees one version of the file; what it decides is carried out under the  *)
(* write lock of the file, by when other processes may have committed.     *)
(* The engine is not in the repository: a transaction is isolated until it *)
(* commits, and addVectorIndex creates an index, updates the efSearch of   *)
(* one that has the same shape, and throws for any other.                  *)
(***************************************************************************)
EXTENDS Naturals

CONSTANTS
  Processes,   \* the processes that open the file
  Properties,  \* the properties that may have a vector index
  Shapes,      \* dimensions, metric, encoding, m and efConstruction, as one value
  Breadths,    \* values of efSearch
  NoIndex,     \* what a property without an index has
  Schemas,     \* the indexes a schema may declare
  MaxCrashes,  \* bound on the number of crashes
  Nobody       \* nobody holds the write lock

Index == [shape: Shapes, efSearch: Breadths]
Indexes == [Properties -> Index \cup {NoIndex}]

ASSUME VectorIndexesAssumption ==
  /\ Schemas \subseteq Indexes
  /\ NoIndex \notin Index
  /\ Nobody \notin Processes
  /\ MaxCrashes \in Nat

VARIABLES
  declared,  \* the vector indexes in the schema of each process
  readOnly,  \* the processes that open the file read-only
  phase,     \* how far each process has come
  toCreate,  \* the properties each process has decided to write
  done,      \* those of them it has written in its transaction
  file,      \* the committed indexes
  writer,    \* the process that holds the write lock
  pending,   \* the indexes as the writer's transaction has them
  crashes    \* how many processes have crashed

vars == <<declared, readOnly, phase, toCreate, done, file, writer, pending, crashes>>

Phases == {"closed", "begin", "writing", "failing", "open", "failed"}

Declares(p, x) == declared[p][x] # NoIndex

\* The index of x is there, in the shape p's schema declares.
Fits(p, x, indexes) ==
  indexes[x] # NoIndex /\ indexes[x].shape = declared[p][x].shape

\* The index of x is there in another shape.
Clashes(p, x, indexes) ==
  indexes[x] # NoIndex /\ indexes[x].shape # declared[p][x].shape

\* What the read pass collects: missing indexes and a drifted efSearch.
NeedsWrite(p, x, indexes) == indexes[x] # declared[p][x]
----------------------------------------------------------------------------
\* A read-only open does nothing; a declared index in another shape throws;
\* with nothing to write the Barq is open.
ReadPass(p) ==
  LET wanted == {x \in Properties : Declares(p, x)}
      writes == {x \in wanted : NeedsWrite(p, x, file)}
  IN  /\ phase[p] = "closed"
      /\ \/ /\ p \in readOnly
            /\ phase' = [phase EXCEPT ![p] = "open"]
            /\ UNCHANGED toCreate
         \/ /\ p \notin readOnly
            /\ \E x \in wanted : Clashes(p, x, file)
            /\ phase' = [phase EXCEPT ![p] = "failed"]
            /\ UNCHANGED toCreate
         \/ /\ p \notin readOnly
            /\ ~\E x \in wanted : Clashes(p, x, file)
            /\ phase' = [phase EXCEPT ![p] = IF writes = {} THEN "open" ELSE "begin"]
            /\ toCreate' = [toCreate EXCEPT ![p] = writes]
      /\ UNCHANGED <<declared, readOnly, done, file, writer, pending, crashes>>

\* beginTransaction() waits for the write lock and moves to the latest version.
BeginTransaction(p) ==
  /\ phase[p] = "begin"
  /\ writer = Nobody
  /\ writer' = p
  /\ pending' = file
  /\ done' = [done EXCEPT ![p] = {}]
  /\ phase' = [phase EXCEPT ![p] = "writing"]
  /\ UNCHANGED <<declared, readOnly, toCreate, file, crashes>>

\* Mutated AddVectorIndex: replaces whatever another process has built.
ReplaceVectorIndex(p, x) ==
  /\ phase[p] = "writing"
  /\ x \in toCreate[p] \ done[p]
  /\ pending' = [pending EXCEPT ![x] = declared[p][x]]
  /\ done' = [done EXCEPT ![p] = @ \cup {x}]
  /\ UNCHANGED <<declared, readOnly, phase, toCreate, file, writer, crashes>>

\* One turn of the loop; another process may have built an index that clashes
\* since the read pass.
AddVectorIndex(p, x) ==
  /\ phase[p] = "writing"
  /\ x \in toCreate[p] \ done[p]
  /\ IF Clashes(p, x, pending)
     THEN /\ phase' = [phase EXCEPT ![p] = "failing"]
          /\ UNCHANGED <<pending, done>>
     ELSE /\ pending' = [pending EXCEPT ![x] = declared[p][x]]
          /\ done' = [done EXCEPT ![p] = @ \cup {x}]
          /\ UNCHANGED phase
  /\ UNCHANGED <<declared, readOnly, toCreate, file, writer, crashes>>

\* Mutated CommitTransaction: each index in a commit of its own.
CommitEach(p) ==
  /\ phase[p] = "writing"
  /\ done[p] # {}
  /\ file' = pending
  /\ IF done[p] = toCreate[p]
     THEN writer' = Nobody /\ phase' = [phase EXCEPT ![p] = "open"]
     ELSE UNCHANGED <<writer, phase>>
  /\ UNCHANGED <<declared, readOnly, toCreate, done, pending, crashes>>

\* commitTransaction() after the loop, which may fail itself.
CommitTransaction(p) ==
  /\ phase[p] = "writing"
  /\ done[p] = toCreate[p]
  /\ \/ /\ file' = pending
        /\ writer' = Nobody
        /\ phase' = [phase EXCEPT ![p] = "open"]
     \/ /\ phase' = [phase EXCEPT ![p] = "failing"]
        /\ UNCHANGED <<file, writer>>
  /\ UNCHANGED <<declared, readOnly, toCreate, done, pending, crashes>>

\* Mutated CancelTransaction: rethrows without it.
RethrowOnly(p) ==
  /\ phase[p] = "failing"
  /\ phase' = [phase EXCEPT ![p] = "failed"]
  /\ UNCHANGED <<declared, readOnly, toCreate, done, file, writer, pending, crashes>>

\* catch (err) { cancelTransaction(); throw err; }
CancelTransaction(p) ==
  /\ phase[p] = "failing"
  /\ writer' = Nobody
  /\ phase' = [phase EXCEPT ![p] = "failed"]
  /\ UNCHANGED <<declared, readOnly, toCreate, done, file, pending, crashes>>

\* The process dies; the lock goes with it, and it may open the file again.
Crash(p) ==
  /\ crashes < MaxCrashes
  /\ crashes' = crashes + 1
  /\ phase' = [phase EXCEPT ![p] = "closed"]
  /\ writer' = IF writer = p THEN Nobody ELSE writer
  /\ UNCHANGED <<declared, readOnly, toCreate, done, file, pending>>
----------------------------------------------------------------------------
Init ==
  /\ declared \in [Processes -> Schemas]
  /\ readOnly \in SUBSET Processes
  /\ phase = [p \in Processes |-> "closed"]
  /\ toCreate = [p \in Processes |-> {}]
  /\ done = [p \in Processes |-> {}]
  /\ file \in Schemas
  /\ writer = Nobody
  /\ pending = file
  /\ crashes = 0

Open(p) ==
  \/ ReadPass(p) \/ BeginTransaction(p) \/ CommitTransaction(p) \/ CancelTransaction(p)
  \/ \E x \in Properties : AddVectorIndex(p, x)

Next == \E p \in Processes : Open(p) \/ Crash(p)

Spec == Init /\ [][Next]_vars

\* Every constructor runs on, and gets the write lock if it stays free.
FairSpec == Spec /\ \A p \in Processes : WF_vars(Open(p))
----------------------------------------------------------------------------
(***************************************************************************)
(* Properties.                                                             *)
(***************************************************************************)

\* Type correctness; a process has written only what it decided to write.
TypeOK ==
  /\ declared \in [Processes -> Schemas]
  /\ readOnly \subseteq Processes
  /\ phase \in [Processes -> Phases]
  /\ toCreate \in [Processes -> SUBSET Properties]
  /\ done \in [Processes -> SUBSET Properties]
  /\ \A p \in Processes : phase[p] = "writing" => done[p] \subseteq toCreate[p]
  /\ file \in Indexes
  /\ pending \in Indexes
  /\ writer \in Processes \cup {Nobody}
  /\ crashes \in 0 .. MaxCrashes

\* A process that has the file open for writing finds the indexes its schema
\* declares, in the shape it declares, for as long as it has it open: nobody
\* replaces them, and nothing it decided on a stale read pass slips through.
OpenIndexesFit ==
  \A p \in Processes \ readOnly : phase[p] = "open" =>
    \A x \in Properties : Declares(p, x) => Fits(p, x, file)

\* The write lock is held by the process that is in a transaction and by nobody
\* else: a constructor that throws does not leave the file locked for others.
LockHeldInTransaction ==
  \A p \in Processes : writer = p <=> phase[p] \in {"writing", "failing"}

\* The file changes only by the commit of a whole reconciliation, after which
\* the process that committed finds every index its schema declares.
CommitsAreWhole ==
  [][file' # file =>
       \E p \in Processes \ readOnly :
         /\ phase[p] = "writing" /\ phase'[p] = "open"
         /\ \A x \in Properties : Declares(p, x) => Fits(p, x, file')]_vars

\* A process that tunes efSearch, and is alone with the file, finds the value
\* its schema declares once the file is open.
AdoptsEfSearch ==
  \A p \in Processes \ readOnly :
    phase[p] = "open" /\ (\A q \in Processes \ {p} : phase[q] = "closed") /\ crashes = 0 =>
      \A x \in Properties : Declares(p, x) => file[x] = declared[p][x]

\* What a schema declares is what the process has when its Barq is open
\* (Barq.ts:681-740).
OpenIndexesAreDeclared == OpenIndexesFit /\ AdoptsEfSearch

\* Every open ends: the Barq is open, or its constructor has thrown.
EventuallyOpens ==
  \A p \in Processes : (phase[p] # "open") ~> (phase[p] \in {"open", "failed"})
=============================================================================
