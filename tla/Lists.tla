-------------------------------- MODULE Lists --------------------------------
(***************************************************************************)
(* What a server of the routeguide examples finds in a list that it goes   *)
(* through from the beginning to the end.                                  *)
(***************************************************************************)
EXTENDS Naturals, Sequences

\* What a list has that is among some, in the order of the list.
Among(list, some) ==
  LET upTo[i \in 0 .. Len(list)] ==
        IF i = 0 THEN << >>
        ELSE IF list[i] \in some THEN Append(upTo[i - 1], list[i]) ELSE upTo[i - 1]
  IN upTo[Len(list)]
=============================================================================
