------------------------------ MODULE MCAdmins ------------------------------
(***************************************************************************)
(* Instances of Admins for TLC.                                            *)
(***************************************************************************)
EXTENDS Admins, TLC

\* Connections are treated alike, and so are names.
Symmetry == Permutations(Users) \cup Permutations(Names)

=============================================================================
