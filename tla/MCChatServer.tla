---------------------------- MODULE MCChatServer ----------------------------
(***************************************************************************)
(* Instances of ChatServer for TLC.  A configuration picks the actors, the *)
(* inputs they may produce and the size of a room.                         *)
(***************************************************************************)
EXTENDS ChatServer, TLC

CONSTANTS c1, c2, c3, h1, h2

\* Everybody comes from the same host.
OneHost == [x \in Conns |-> h1]
\* c1 has a host of its own.
TwoHosts == [x \in Conns |-> IF x = c1 THEN h1 ELSE h2]

\* With hosts of their own only those of h2 and the names are.
HostSymmetry == Permutations(Conns \ {c1}) \cup Permutations(Names)

\* With an administrator among them only the names are.
NameSymmetry == Permutations(Names)

\* Where all connections are treated alike they, and the names, are symmetric.
Symmetry == Permutations(Conns) \cup Permutations(Names)

=============================================================================
