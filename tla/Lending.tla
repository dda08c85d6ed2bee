------------------------------- MODULE Lending -------------------------------
(***************************************************************************)
(* What a buffer pool promises: each buffer has one owner at a time.  It   *)
(* is new, free in the pool, lent to one user, or gone for good; only a    *)
(* free buffer is lent, and only the borrower parts with it.               *)
(***************************************************************************)
CONSTANTS
    Items,      \* what the pool lends
    Borrowers,  \* to whom
    Unborn,     \* not in the pool yet
    Free,       \* in the pool, nobody's
    Gone        \* destroyed

VARIABLE owner  \* owner[i]: where item i is

LInit == owner = [i \in Items |-> Unborn]

Add(i)         == owner[i] = Unborn /\ owner' = [owner EXCEPT ![i] = Free]
Lend(i, b)     == owner[i] = Free   /\ owner' = [owner EXCEPT ![i] = b]
Pass(i, b, c)  == owner[i] = b      /\ owner' = [owner EXCEPT ![i] = c]
GiveBack(i, b) == owner[i] = b      /\ owner' = [owner EXCEPT ![i] = Free]
Discard(i, b)  == owner[i] = b      /\ owner' = [owner EXCEPT ![i] = Gone]

(* The pool is closed: every free item goes, every lent one stays lent.    *)
Close == owner' = [i \in Items |-> IF owner[i] = Free THEN Gone ELSE owner[i]]

LNext ==
    \/ \E i \in Items : Add(i)
    \/ \E i \in Items, b \in Borrowers : Lend(i, b) \/ GiveBack(i, b) \/ Discard(i, b)
    \/ \E i \in Items, b \in Borrowers, c \in Borrowers : Pass(i, b, c)
    \/ Close

LSpec == LInit /\ [][LNext]_owner
=============================================================================
