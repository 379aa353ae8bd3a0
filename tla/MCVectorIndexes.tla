-------------------------- MODULE MCVectorIndexes --------------------------
(***************************************************************************)
(* A small instance of VectorIndexes: two properties, an index of which    *)
(* may be missing, have drifted or clash with the file's.                  *)
(***************************************************************************)
EXTENDS VectorIndexes

CONSTANTS x1, x2, s1, s2, p1, p2

I(shape, efSearch) == [shape |-> shape, efSearch |-> efSearch]
Has(first, second) == [x \in {x1, x2} |-> IF x = x1 THEN first ELSE second]

MCSchemas ==
  {Has(NoIndex, NoIndex), Has(I(s1, 16), NoIndex), Has(I(s1, 64), I(s1, 16)),
   Has(I(s1, 16), I(s2, 16))}
=============================================================================
