----------------------------- MODULE WaitingLine -----------------------------
(***************************************************************************)
(* What the queues of the rooms promise, without queues, connections or    *)
(* commands: a customer who arrives at a place waits behind those who wait *)
(* there, is served when nobody is ahead of him any more, and at most      *)
(* once; any of those waiting may leave at any time, and nobody else's     *)
(* turn changes by it.                                                     *)
(***************************************************************************)
CONSTANTS
  Customers,
  Places

VARIABLES
  line,   \* who waits at a place
  ahead,  \* who has to be served or to leave before a customer is served
  served  \* who has been served

lineVars == <<line, ahead, served>>

Init ==
  /\ line = [p \in Places |-> {}]
  /\ ahead = [c \in Customers |-> {}]
  /\ served = {}

(* The customers of C do not wait any more. *)
Depart(C) ==
  /\ line' = [p \in Places |-> line[p] \ C]
  /\ ahead' = [c \in Customers |-> IF c \in C THEN {} ELSE ahead[c] \ C]

Arrive(c, p) ==
  /\ c \notin served
  /\ \A r \in Places : c \notin line[r]
  /\ line' = [line EXCEPT ![p] = @ \cup {c}]
  /\ ahead' = [ahead EXCEPT ![c] = line[p]]
  /\ UNCHANGED served

Serve(c, p) ==
  /\ c \in line[p]
  /\ ahead[c] = {}
  /\ Depart({c})
  /\ served' = served \cup {c}

Leave(C) ==
  /\ \A c \in C : \E p \in Places : c \in line[p]
  /\ Depart(C)
  /\ UNCHANGED served

Next ==
  \/ \E C \in SUBSET Customers : Leave(C)
  \/ \E c \in Customers, p \in Places : Arrive(c, p) \/ Serve(c, p)

Spec == Init /\ [][Next]_lineVars

=============================================================================
