-------------------------------- MODULE Reads --------------------------------
(***************************************************************************)
(* What a Barq tells of what it holds: its collections, through all the    *)
(* ways to read one, and its objects, through all the ways to look for     *)
(* them, in transactions and between them.                                 *)
(***************************************************************************)
EXTENDS CollectionReads, Transactions

(* What is read is consistent (OrderedCollection.ts, Barq.ts): of a        *)
(* collection, with every other way to read it and with what it was when a *)
(* loop began; of a Barq, with the other lookups and with the transactions *)
(* that were committed and cancelled.                                      *)
ReadsAreConsistent == CollectionsReadAlike /\ LookupsAgree /\ NoHalfWrites
=============================================================================
