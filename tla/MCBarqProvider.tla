--------------------------- MODULE MCBarqProvider ---------------------------
(***************************************************************************)
(* Small instances of BarqProvider.                                        *)
(***************************************************************************)
EXTENDS BarqProvider

CONSTANTS file1, file2, ann, bob

\* Another user for the same file, another file, and no user at all.
MCConfigs == {[path |-> file1, user |-> ann], [path |-> file1, user |-> bob],
              [path |-> file2, user |-> NoUser]}
=============================================================================
