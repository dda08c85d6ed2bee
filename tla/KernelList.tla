------------------------------ MODULE KernelList ------------------------------
(***************************************************************************)
(* rt_kernel_list.h: list_head, a ring through its own head, and hlist,    *)
(* a list whose nodes point back at the pointer that points at them.       *)
(*                                                                         *)
(* next and prev are the fields of the heads and the nodes of rings.  For  *)
(* hlists cell[x] is the pointer that x holds, first of a head or next of  *)
(* a node, and pprev[n] names the x whose pointer n's pprev points at.     *)
(* ring and chain are what a caller believes the lists to hold.            *)
(***************************************************************************)
EXTENDS Integers, SequencesExt

CONSTANTS RingHeads, RingNodes, HashHeads, HashNodes, NULL

VARIABLES next, prev, ring, cell, pprev, chain
listVars == <<next, prev, ring>>
hashVars == <<cell, pprev, chain>>
klVars == <<next, prev, ring, cell, pprev, chain>>

Links == RingHeads \cup RingNodes

Init ==
    /\ next = [x \in Links |-> IF x \in RingHeads THEN x ELSE NULL]
    /\ prev = next
    /\ ring = [h \in RingHeads |-> <<>>]
    /\ cell = [x \in HashHeads \cup HashNodes |-> NULL]
    /\ pprev = [n \in HashNodes |-> NULL]
    /\ chain = [h \in HashHeads |-> <<>>]

-----------------------------------------------------------------------------
(* The helpers, on a pair of the fields next and prev.                     *)

Fields == [n |-> next, p |-> prev]
Keep(f) == next' = f.n /\ prev' = f.p /\ UNCHANGED hashVars

INIT_LIST_HEAD(f, x) == [n |-> [f.n EXCEPT ![x] = x], p |-> [f.p EXCEPT ![x] = x]]

(* Mutant: the new entry is not made the one before the next.              *)
AddNoBackLink(f, x, before, after) ==
    [n |-> [f.n EXCEPT ![x] = after, ![before] = x], p |-> [f.p EXCEPT ![x] = before]]

(* __list_add(): the order of the four stores does not matter to the       *)
(* result, before and after may be the same head.                          *)
ListAdd(f, x, before, after) ==
    [n |-> [f.n EXCEPT ![x] = after, ![before] = x],
     p |-> [f.p EXCEPT ![after] = x, ![x] = before]]

ListDel(f, before, after) ==
    [n |-> [f.n EXCEPT ![before] = after], p |-> [f.p EXCEPT ![after] = before]]

Unlink(f, x) == ListDel(f, f.p[x], f.n[x])

Splice(f, list, before, after) ==
    LET first == f.n[list]
        last == f.p[list]
    IN  [n |-> [f.n EXCEPT ![before] = first, ![last] = after],
         p |-> [f.p EXCEPT ![first] = before, ![after] = last]]

list_empty(h) == next[h] = h
list_is_singular(h) == ~list_empty(h) /\ next[h] = prev[h]

-----------------------------------------------------------------------------
(* Rings.                                                                  *)

Linked(x) == \E h \in RingHeads : x \in ToSet(ring[h])

list_add(x, h) ==
    /\ ~Linked(x) /\ Keep(ListAdd(Fields, x, h, next[h]))
    /\ ring' = [ring EXCEPT ![h] = <<x>> \o @]

list_add_tail(x, h) ==
    /\ ~Linked(x) /\ Keep(ListAdd(Fields, x, prev[h], h))
    /\ ring' = [ring EXCEPT ![h] = Append(@, x)]

Removed(x) == [h \in RingHeads |-> RemoveFirst(ring[h], x)]

list_del(x) ==
    /\ Linked(x) /\ ring' = Removed(x)
    /\ LET f == Unlink(Fields, x)
       IN  Keep([n |-> [f.n EXCEPT ![x] = NULL], p |-> [f.p EXCEPT ![x] = NULL]])

(* Also of an entry that is on no ring but its own.                        *)
list_del_init(x) ==
    /\ Linked(x) \/ next[x] = x
    /\ ring' = Removed(x) /\ Keep(INIT_LIST_HEAD(Unlink(Fields, x), x))

Replace(f, old, x) ==
    LET n == [f.n EXCEPT ![x] = f.n[old]]
        p == [f.p EXCEPT ![n[x]] = x]
        q == [p EXCEPT ![x] = p[old]]
    IN  [n |-> [n EXCEPT ![q[x]] = x], p |-> q]

Replaced(old, x) == [h \in RingHeads |-> [i \in DOMAIN ring[h] |->
                        IF ring[h][i] = old THEN x ELSE ring[h][i]]]

list_replace(old, x) ==
    /\ Linked(old) /\ ~Linked(x) /\ ring' = Replaced(old, x)
    /\ Keep(Replace(Fields, old, x))
list_replace_init(old, x) ==
    /\ Linked(old) /\ ~Linked(x) /\ ring' = Replaced(old, x)
    /\ Keep(INIT_LIST_HEAD(Replace(Fields, old, x), old))

list_move(x, h) ==
    /\ Linked(x) /\ ring' = [Removed(x) EXCEPT ![h] = <<x>> \o @]
    /\ LET f == Unlink(Fields, x) IN Keep(ListAdd(f, x, h, f.n[h]))

list_move_tail(x, h) ==
    /\ Linked(x) /\ ring' = [Removed(x) EXCEPT ![h] = Append(@, x)]
    /\ LET f == Unlink(Fields, x) IN Keep(ListAdd(f, x, f.p[h], h))

list_rotate_left(h) ==
    /\ ~list_empty(h)
    /\ LET f == Unlink(Fields, next[h]) IN Keep(ListAdd(f, next[h], f.p[h], h))
    /\ ring' = [ring EXCEPT ![h] = Append(Tail(@), Head(@))]

CutPosition(f, list, h, x) ==
    [n |-> [f.n EXCEPT ![list] = f.n[h], ![x] = list, ![h] = f.n[x]],
     p |-> [f.p EXCEPT ![f.n[h]] = list, ![list] = x, ![f.n[x]] = h]]

(* The head of the list means: cut nothing.                                *)
list_cut_position(list, h, x) ==
    /\ ring[list] = <<>> /\ list # h
    /\ x = h \/ x \in ToSet(ring[h])
    /\ ~list_empty(h) /\ ~(list_is_singular(h) /\ next[h] # x /\ x # h)
    /\ Keep(IF x = h THEN INIT_LIST_HEAD(Fields, list) ELSE CutPosition(Fields, list, h, x))
    /\ LET k == CHOOSE k \in 0..Len(ring[h]) : IF x = h THEN k = 0 ELSE k > 0 /\ ring[h][k] = x
       IN  ring' = [ring EXCEPT ![list] = SubSeq(ring[h], 1, k),
                                ![h] = SubSeq(@, k + 1, Len(@))]

list_splice_init(list, h) ==
    /\ list # h /\ ~list_empty(list)
    /\ Keep(INIT_LIST_HEAD(Splice(Fields, list, h, next[h]), list))
    /\ ring' = [ring EXCEPT ![h] = ring[list] \o @, ![list] = <<>>]

list_splice_tail_init(list, h) ==
    /\ list # h /\ ~list_empty(list)
    /\ Keep(INIT_LIST_HEAD(Splice(Fields, list, prev[h], h), list))
    /\ ring' = [ring EXCEPT ![h] = @ \o ring[list], ![list] = <<>>]

-----------------------------------------------------------------------------
(* hlists.                                                                 *)

KeepHash == UNCHANGED listVars
Hashed(n) == \E h \in HashHeads : n \in ToSet(chain[h])

(* p[n] = x where n is a node, and nothing where it is NULL.               *)
BackTo(p, n, x) == IF n = NULL THEN p ELSE [p EXCEPT ![n] = x]

HlistDel(n) ==
    /\ cell' = [cell EXCEPT ![pprev[n]] = cell[n], ![n] = NULL]
    /\ pprev' = [BackTo(pprev, cell[n], pprev[n]) EXCEPT ![n] = NULL]
    /\ chain' = [h \in HashHeads |-> RemoveFirst(chain[h], n)]

hlist_del(n) == Hashed(n) /\ HlistDel(n) /\ KeepHash

(* A node that was never added is left alone; one added to itself by       *)
(* hlist_add_fake() is a list of its own.                                  *)
hlist_del_init(n) ==
    /\ pprev[n] # NULL
    /\ IF pprev[n] = n
       THEN cell' = [cell EXCEPT ![n] = NULL] /\ pprev' = [pprev EXCEPT ![n] = NULL]
            /\ UNCHANGED chain
       ELSE HlistDel(n)
    /\ KeepHash

hlist_add_head(n, h) ==
    /\ ~Hashed(n) /\ KeepHash
    /\ cell' = [cell EXCEPT ![n] = cell[h], ![h] = n]
    /\ pprev' = [BackTo(pprev, cell[h], n) EXCEPT ![n] = h]
    /\ chain' = [chain EXCEPT ![h] = <<n>> \o @]

Beside(s, m, both) == [i \in 1..Len(s) + 1 |->
    LET k == CHOOSE k \in 1..Len(s) : s[k] = m
    IN  IF i < k THEN s[i] ELSE IF i > k + 1 THEN s[i - 1] ELSE both[i - k + 1]]

hlist_add_before(n, m) ==
    /\ ~Hashed(n) /\ Hashed(m) /\ KeepHash
    /\ cell' = [cell EXCEPT ![n] = m, ![pprev[m]] = n]
    /\ pprev' = [pprev EXCEPT ![n] = pprev[m], ![m] = n]
    /\ chain' = [h \in HashHeads |-> IF m \in ToSet(chain[h])
                                     THEN Beside(chain[h], m, <<n, m>>) ELSE chain[h]]

hlist_add_behind(n, m) ==
    /\ ~Hashed(n) /\ Hashed(m) /\ KeepHash
    /\ cell' = [cell EXCEPT ![n] = cell[m], ![m] = n]
    /\ pprev' = BackTo([pprev EXCEPT ![n] = m], cell[m], n)
    /\ chain' = [h \in HashHeads |-> IF m \in ToSet(chain[h])
                                     THEN Beside(chain[h], m, <<m, n>>) ELSE chain[h]]

hlist_add_fake(n) ==
    /\ ~Hashed(n) /\ pprev' = [pprev EXCEPT ![n] = n]
    /\ UNCHANGED <<cell, chain>> /\ KeepHash

hlist_move_list(old, h) ==
    /\ old # h /\ chain[h] = <<>> /\ KeepHash
    /\ cell' = [cell EXCEPT ![h] = cell[old], ![old] = NULL]
    /\ pprev' = BackTo(pprev, cell[old], h)
    /\ chain' = [chain EXCEPT ![h] = chain[old], ![old] = <<>>]

-----------------------------------------------------------------------------
RingStep ==
    \/ \E x \in RingNodes :
         \/ list_del(x) \/ list_del_init(x)
         \/ \E h \in RingHeads : list_add(x, h) \/ list_add_tail(x, h)
                                 \/ list_move(x, h) \/ list_move_tail(x, h)
         \/ \E y \in RingNodes : list_replace(x, y) \/ list_replace_init(x, y)
    \/ \E h \in RingHeads :
         \/ list_rotate_left(h)
         \/ \E l \in RingHeads : list_splice_init(l, h) \/ list_splice_tail_init(l, h)
         \/ \E l \in RingHeads : \E x \in Links : list_cut_position(l, h, x)

HashStep ==
    \/ \E n \in HashNodes :
         \/ hlist_del(n) \/ hlist_del_init(n) \/ hlist_add_fake(n)
         \/ \E h \in HashHeads : hlist_add_head(n, h)
         \/ \E m \in HashNodes : hlist_add_before(n, m) \/ hlist_add_behind(n, m)
    \/ \E h, l \in HashHeads : hlist_move_list(h, l)

Next == RingStep \/ HashStep

Spec == Init /\ [][Next]_klVars

-----------------------------------------------------------------------------
(* Properties.                                                             *)

(* RingsKept: whatever calls came before, and from both ends, a walk of a  *)
(* ring finds the entries that the calls should have left on it, in their  *)
(* order: the fields of one ring never lead into another or into an entry  *)
(* that was removed.                                                       *)
RingsKept ==
    \A h \in RingHeads :
        LET full == <<h>> \o ring[h] \o <<h>>
        IN  \A i \in 1..Len(full) - 1 : next[full[i]] = full[i + 1] /\ prev[full[i + 1]] = full[i]

(* ChainsKept: the same of the hlists, and each node points back at the    *)
(* one pointer that points at it.                                          *)
ChainsKept ==
    \A h \in HashHeads :
        LET full == <<h>> \o chain[h] \o <<NULL>>
        IN  \A i \in 1..Len(full) - 1 :
                cell[full[i]] = full[i + 1] /\ (full[i + 1] # NULL => pprev[full[i + 1]] = full[i])

(* ListsKept: rings and hlists hold what the calls should have left.       *)
ListsKept == RingsKept /\ ChainsKept
=============================================================================
