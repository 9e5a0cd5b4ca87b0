---------------------------- MODULE MCSupervision -----------------------------
(***************************************************************************)
(* Supervision on a small instance: two Agent processes, a mouse button,   *)
(* one key, and one catalog to come that brings the key.                   *)
(***************************************************************************)
EXTENDS Supervision

CONSTANTS button, key

MCCatalogKeys == [v \in Versions |-> IF v = 0 THEN {} ELSE {key}]

\* A machine that has no catalog yet.
FirstCatalogSpec == Init /\ disk = 0 /\ [][Next]_vars

===============================================================================
