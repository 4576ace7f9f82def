------------------------------ MODULE MCHistory ------------------------------
(***************************************************************************)
(* Instances of History for TLC.  Users and rooms are strings because      *)
(* rooms have texts.  The name of "bob" contains the bracket and colon     *)
(* that end a name in the log.                                             *)
(***************************************************************************)
EXTENDS History

People == [a \in Actors |->
  CASE a = "bob" -> <<"b", "]:", "b">> [] a = "ann" -> <<"a">>
    [] OTHER     -> <<"Server">>]

RoomTexts == [k \in RoomKeys |-> IF k = NoRoom THEN Empty ELSE <<k>>]

Alphabet == <<"", "den", "general">>

\* A line that ends in a blank.
Hello == {<<"hello", " ">>}
OtherNames == {<<"c">>}

=============================================================================
