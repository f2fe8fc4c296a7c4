------------------------------ MODULE MCShells ------------------------------
(* Two tracks in a list of two, for a session and for `headshell play`.    *)
EXTENDS Shells

CONSTANTS t1, t2

ListsA == {<<t1, t2>>}
=============================================================================
