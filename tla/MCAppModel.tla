----------------------------- MODULE MCAppModel -----------------------------
(* Small instances of AppModel for TLC.                                    *)
EXTENDS AppModel, TLC

\* Task slots and ports are interchangeable.
Symmetry == Permutations(Tasks) \cup Permutations(Ports)
=============================================================================
