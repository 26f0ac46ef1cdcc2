-------------------------------- MODULE Lists --------------------------------
(***************************************************************************)
(* What the program does to its std::lists beyond what Sequences has.      *)
(***************************************************************************)
EXTENDS SequencesExt

(* list with every entry that is one of gone erased; the rest keeps its    *)
(* order.  (SelectSeq, in a form with no operator for an argument.)        *)
Without(list, gone) ==
  LET kept[n \in 0..Len(list)] ==
        IF n = 0 THEN <<>>
          ELSE IF list[n] \in gone THEN kept[n - 1]
                                   ELSE Append(kept[n - 1], list[n])
  IN  kept[Len(list)]

(* What arrives of s over a connection that breaks and is made again:      *)
(* everything but one run of messages, or all of it.                       *)
Torn(s) ==
  UNION {{SubSeq(s, 1, i) \o SubSeq(s, j, Len(s)) : j \in (i + 1)..(Len(s) + 1)} :
           i \in 0..Len(s)}
=============================================================================
