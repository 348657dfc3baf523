------------------------------- MODULE Lists -------------------------------
(***************************************************************************)
(* What std::remove_if() and erase() make of a vector.                     *)
(***************************************************************************)
EXTENDS Naturals, Sequences

\* `list` without the entries x, the others in their order.
Without(list, x) ==
  LET kept[n \in 0..Len(list)] ==
        IF n = 0 THEN <<>>
        ELSE IF list[n] = x THEN kept[n - 1] ELSE Append(kept[n - 1], list[n])
  IN kept[Len(list)]
=============================================================================
