----------------------------- MODULE AtomicFile -----------------------------
(***************************************************************************)
(* What the code that replaces a private file promises its callers: the    *)
(* file holds what was there before the operation or what the operation    *)
(* writes, whole, through failures and crashes; and an operation that      *)
(* reports success has taken effect.                                       *)
(***************************************************************************)
CONSTANT Value        \* what the file may hold

VARIABLES value,      \* what a reader would be given now
          busy,       \* an operation is replacing the file
          before,     \* what the file held when the operation began
          wanted,     \* what the operation is to leave
          told        \* what the last operation told its caller

avars == <<value, busy, before, wanted, told>>

AInit ==
    /\ value \in Value
    /\ busy = FALSE
    /\ before = value
    /\ wanted = value
    /\ told = "nothing"

\* An operation has read the file and knows what it wants to leave.
ABegin(v) ==
    /\ ~busy
    /\ busy' = TRUE
    /\ before' = value
    /\ wanted' = v
    /\ UNCHANGED <<value, told>>

\* While it works the file may go over, and back when it undoes its work.
AMove ==
    /\ busy
    /\ value' \in {before, wanted}
    /\ UNCHANGED <<busy, before, wanted, told>>

ASucceed ==
    /\ busy => value = wanted
    /\ busy' = FALSE
    /\ told' = "done"
    /\ UNCHANGED <<value, before, wanted>>

\* The operation failed and reports that it undid what it had done.
AUndone ==
    /\ busy /\ value = before
    /\ busy' = FALSE
    /\ told' = "undone"
    /\ UNCHANGED <<value, before, wanted>>

AFail ==
    /\ busy' = FALSE
    /\ told' = "failed"
    /\ UNCHANGED <<value, before, wanted>>

\* The process dies; an operation under way is left done or not done.
ACrash ==
    /\ busy' = FALSE
    /\ told' = "nothing"
    /\ IF busy THEN value' \in {before, wanted} ELSE value' = value
    /\ UNCHANGED <<before, wanted>>

ANext == (\E v \in Value : ABegin(v)) \/ AMove \/ ASucceed \/ AUndone \/ AFail \/ ACrash

ASpec == AInit /\ [][ANext]_avars
=============================================================================
