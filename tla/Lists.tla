------------------------------- MODULE Lists -------------------------------
(***************************************************************************)
(* What the program does to lists with the library's iterators.  They are  *)
(* recursive functions along the list, so that they can be reasoned about. *)
(***************************************************************************)
EXTENDS Naturals, Sequences

\* The elements of a list that are among some, in their order.
Those(list, some) ==
    LET kept[i \in 0..Len(list)] ==
            IF i = 0 THEN <<>>
            ELSE IF list[i] \in some THEN Append(kept[i - 1], list[i]) ELSE kept[i - 1]
    IN  kept[Len(list)]

\* The sum of the numbers in a list.
Total(numbers) ==
    LET sum[i \in 0..Len(numbers)] == IF i = 0 THEN 0 ELSE sum[i - 1] + numbers[i]
    IN  sum[Len(numbers)]
=============================================================================
