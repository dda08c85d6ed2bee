--------------------------------- MODULE Lists ---------------------------------
(***************************************************************************)
(* The lists of rt_base: RT_Deque, with entries from the heap or from an   *)
(* array of its own, RtLinkedList and RtArrayList.  An action is a call,   *)
(* on entries as the code links them; the variables dequeIs, linkedIs and  *)
(* arrayIs are what the calls have put into the lists.  RT_ASSERT does     *)
(* nothing in any build.                                                   *)
(* deque_insert() and deque_del_index(), which the message looper calls,   *)
(* are part of MsgLooper.                                                  *)
(***************************************************************************)
EXTENDS Integers, Sequences, FiniteSets

CONSTANTS
    Data,            \* what the lists hold
    Cells,           \* the entries that the heap, or the array, has
    InitialCapacity, \* INITIAL_CAPACITY of the array list
    MinCapacity,     \* the capacity it is created with
    MaxLen,          \* bound on the length of the linked and the array list
    NULL, Junk       \* no pointer; what memory holds that was never written

VARIABLES
    used,     \* the list that this run is about
    ownArray, \* the deque has entries of its own: deque_create(max_size)
    dq,       \* head, tail and size of the deque
    dqEntry,  \* its entries: used, data, next
    dequeIs,
    ll,       \* head, tail and size of the linked list
    llEntry,  \* its entries: used, data, next, prev
    linkedIs,
    al,       \* entries, size and capacity of the array list
    arrayIs,
    fault     \* the call of this run that nothing can follow, as the code
              \* writes through NULL ("memory", "first", "array"), or that
              \* left the linked list's tail wrong ("tail"); "none" before

dqVars == <<ownArray, dq, dqEntry, dequeIs>>
llVars == <<ll, llEntry, linkedIs>>
alVars == <<al, arrayIs>>
vars == <<used, dqVars, llVars, alVars, fault>>

Capacity == IF MinCapacity <= InitialCapacity \div 2 THEN InitialCapacity ELSE MinCapacity

Init ==
    /\ used \in {"deque", "linked", "array"}
    /\ ownArray \in BOOLEAN
    /\ dq = [head |-> NULL, tail |-> NULL, size |-> 0]
    /\ dqEntry = [c \in Cells |-> [used |-> FALSE, data |-> NULL, next |-> NULL]]
    /\ dequeIs = <<>>
    /\ ll = [head |-> NULL, tail |-> NULL, size |-> 0]
    /\ llEntry = [c \in Cells |-> [used |-> FALSE, data |-> NULL, next |-> NULL, prev |-> NULL]]
    /\ linkedIs = <<>>
    /\ al = [entries |-> [i \in 0..Capacity - 1 |-> NULL], size |-> 0, capacity |-> Capacity]
    /\ arrayIs = <<>>
    /\ fault = "none"

-----------------------------------------------------------------------------
(* The deque.                                                              *)

(* deque_entry_malloc(): an entry of the array that is unused, while the   *)
(* size says that there is one, or any entry of the heap.                  *)
deque_entry_malloc(c) ==
    /\ ~dqEntry[c].used
    /\ ownArray => dq.size < Cardinality(Cells)

(* Mutant: the entry that was the last is not linked to the new one.       *)
PushUnlinked(x, header) ==
    /\ UNCHANGED <<ownArray, llVars, alVars, fault>>
    /\ \E c \in Cells :
         /\ deque_entry_malloc(c)
         /\ dqEntry' = [dqEntry EXCEPT ![c] = [used |-> TRUE, data |-> x, next |-> IF header THEN dq.head ELSE NULL]]
         /\ dq' = [head |-> IF dq.size = 0 \/ header THEN c ELSE dq.head,
                   tail |-> IF dq.size = 0 \/ ~header THEN c ELSE dq.tail, size |-> dq.size + 1]
    /\ dequeIs' = IF header THEN <<x>> \o dequeIs ELSE Append(dequeIs, x)

(* A full array refuses the entry, and nothing changes.                    *)
deque_push(x, header) ==
    /\ UNCHANGED <<ownArray, llVars, alVars, fault>>
    /\ \E c \in Cells :
         /\ deque_entry_malloc(c)
         /\ LET entry == [used |-> TRUE, data |-> x,
                          next |-> IF dq.size > 0 /\ header THEN dq.head ELSE NULL]
                stored == [dqEntry EXCEPT ![c] = entry]
            IN  IF dq.size = 0
                THEN dqEntry' = stored /\ dq' = [head |-> c, tail |-> c, size |-> 1]
                ELSE IF header
                THEN dqEntry' = stored /\ dq' = [dq EXCEPT !.head = c, !.size = @ + 1]
                ELSE /\ dqEntry' = [stored EXCEPT ![dq.tail].next = c]
                     /\ dq' = [dq EXCEPT !.tail = c, !.size = @ + 1]
    /\ dequeIs' = IF header THEN <<x>> \o dequeIs ELSE Append(dequeIs, x)

(* The tail is left behind, pointing at an entry that is free.             *)
deque_pop ==
    /\ dq.size > 0
    /\ dqEntry' = [dqEntry EXCEPT ![dq.head] =
                      [used |-> FALSE, data |-> IF ownArray THEN NULL ELSE @.data,
                       next |-> IF ownArray THEN NULL ELSE @.next]]
    /\ dq' = [dq EXCEPT !.head = dqEntry[@].next, !.size = @ - 1]
    /\ dequeIs' = Tail(dequeIs)
    /\ UNCHANGED <<ownArray, llVars, alVars, fault>>

(* deque_get() counts the entries down from the head, to the end of the    *)
(* list at the latest.                                                     *)
deque_get(index) ==
    LET at[i \in 0..index] == IF i = 0 THEN dq.head
                              ELSE IF at[i - 1] = NULL THEN NULL ELSE dqEntry[at[i - 1]].next
    IN  IF at[index] = NULL THEN NULL ELSE dqEntry[at[index]].data

-----------------------------------------------------------------------------
(* The linked list.                                                        *)

linked_list_get_entry(index) ==
    LET up[i \in 0..index] == IF i = 0 THEN ll.head ELSE llEntry[up[i - 1]].next
        down[i \in index..ll.size - 1] == IF i = ll.size - 1 THEN ll.tail
                                          ELSE llEntry[down[i + 1]].prev
    IN  IF index >= ll.size THEN NULL
        ELSE IF index < ll.size \div 2 THEN up[index] ELSE down[index]

NewEntry(c, x, p, n) == [llEntry EXCEPT ![c] = [used |-> TRUE, data |-> x, next |-> n, prev |-> p]]

linked_list_add(x, header) ==
    /\ Len(linkedIs) < MaxLen
    /\ \E c \in Cells :
         /\ ~llEntry[c].used
         /\ IF ll.size = 0
            THEN llEntry' = NewEntry(c, x, NULL, NULL) /\ ll' = [head |-> c, tail |-> c, size |-> 1]
            ELSE IF header
            THEN /\ llEntry' = [NewEntry(c, x, NULL, ll.head) EXCEPT ![ll.head].prev = c]
                 /\ ll' = [ll EXCEPT !.head = c, !.size = @ + 1]
            ELSE /\ llEntry' = [NewEntry(c, x, ll.tail, NULL) EXCEPT ![ll.tail].next = c]
                 /\ ll' = [ll EXCEPT !.tail = c, !.size = @ + 1]
    /\ linkedIs' = IF header THEN <<x>> \o linkedIs ELSE Append(linkedIs, x)
    /\ UNCHANGED <<dqVars, alVars, fault>>

Inserted(s, index, x) == SubSeq(s, 1, index) \o <<x>> \o SubSeq(s, index + 1, Len(s))
Dropped(s, index) == SubSeq(s, 1, index) \o SubSeq(s, index + 2, Len(s))

(* Before the last entry the new one becomes the tail, although the last   *)
(* is still behind it: the code has set dst_entry->prev by then, and looks *)
(* at dst_entry->next.                                                     *)
linked_list_insert_at(index, x) ==
    /\ Len(linkedIs) < MaxLen /\ index \in 1..ll.size - 1
    /\ LET dst == linked_list_get_entry(index)
           last == llEntry[dst].next = NULL
       IN  /\ \E c \in Cells :
                /\ ~llEntry[c].used
                /\ llEntry' = [NewEntry(c, x, llEntry[dst].prev, dst)
                                  EXCEPT ![llEntry[dst].prev].next = c, ![dst].prev = c]
                /\ ll' = [ll EXCEPT !.size = @ + 1, !.tail = IF last THEN c ELSE @]
           /\ fault' = IF last THEN "tail" ELSE fault
    /\ linkedIs' = Inserted(linkedIs, index, x)
    /\ UNCHANGED <<dqVars, alVars>>

(* Before the first there is no entry to link the new one to, and without  *)
(* memory there is no new one.                                             *)
InsertFirst == ll.size > 0 /\ fault' = "first" /\ UNCHANGED <<dqVars, llVars, alVars>>
EntryDenied == fault' = "memory" /\ UNCHANGED <<dqVars, llVars, alVars>>

UnlinkEntry(c) ==
    LET e == llEntry[c]
        n == IF e.prev = NULL THEN llEntry ELSE [llEntry EXCEPT ![e.prev].next = e.next]
        p == IF e.next = NULL THEN n ELSE [n EXCEPT ![e.next].prev = e.prev]
    IN  /\ llEntry' = [p EXCEPT ![c].used = FALSE]
        /\ ll' = [head |-> IF e.prev = NULL THEN e.next ELSE ll.head,
                  tail |-> IF e.next = NULL THEN e.prev ELSE ll.tail, size |-> ll.size - 1]

linked_list_remove_at(index) ==
    /\ index < ll.size /\ UnlinkEntry(linked_list_get_entry(index))
    /\ linkedIs' = Dropped(linkedIs, index)
    /\ UNCHANGED <<dqVars, alVars, fault>>

(* The first entry with the data, from the head on.                        *)
FirstWith(x) ==
    LET at[i \in 0..ll.size] == IF i = 0 THEN ll.head
                                ELSE IF at[i - 1] = NULL THEN NULL ELSE llEntry[at[i - 1]].next
        found == {i \in 0..ll.size - 1 : at[i] # NULL /\ llEntry[at[i]].data = x}
    IN  IF found = {} THEN NULL ELSE at[CHOOSE i \in found : \A j \in found : i <= j]

linked_list_contains(x) == FirstWith(x) # NULL

Least(s, x) == CHOOSE i \in DOMAIN s : s[i] = x /\ \A j \in 1..i - 1 : s[j] # x

linked_list_remove(x) ==
    /\ linked_list_contains(x) /\ UnlinkEntry(FirstWith(x))
    /\ linkedIs' = Dropped(linkedIs, Least(linkedIs, x) - 1)
    /\ UNCHANGED <<dqVars, alVars, fault>>

linked_list_remove_all ==
    /\ ll' = [head |-> NULL, tail |-> NULL, size |-> 0] /\ linkedIs' = <<>>
    /\ llEntry' = [c \in Cells |-> [llEntry[c] EXCEPT !.used = FALSE]]
    /\ UNCHANGED <<dqVars, alVars, fault>>

linked_list_set(index, x) ==
    /\ index < ll.size
    /\ llEntry' = [llEntry EXCEPT ![linked_list_get_entry(index)].data = x]
    /\ linkedIs' = [linkedIs EXCEPT ![index + 1] = x]
    /\ UNCHANGED <<ll, dqVars, alVars, fault>>

-----------------------------------------------------------------------------
(* The array list.  realloc() keeps what fits into the new capacity; what  *)
(* it adds is undefined.  When it fails the list has no array, and nothing *)
(* in it.                                                                  *)

Resized(e, n) == [i \in 0..n - 1 |-> IF i \in DOMAIN e THEN e[i] ELSE Junk]

NoArray == [i \in {} |-> Junk]
ArrayLost ==
    /\ al' = [entries |-> NoArray, size |-> 0, capacity |-> InitialCapacity]
    /\ arrayIs' = <<>>

Grows == al.size + 1 >= al.capacity

array_list_insert_at(index, x) ==
    /\ Len(arrayIs) < MaxLen /\ index <= al.size
    /\ Grows \/ al.entries # NoArray
    /\ LET n == IF Grows THEN al.capacity * 2 ELSE al.capacity
           e == Resized(al.entries, n)
       IN  al' = [entries |-> [i \in 0..n - 1 |-> IF i < index \/ i > al.size THEN e[i]
                                                  ELSE IF i = index THEN x ELSE e[i - 1]],
                  size |-> al.size + 1, capacity |-> n]
    /\ arrayIs' = Inserted(arrayIs, index, x)
    /\ UNCHANGED <<dqVars, llVars, fault>>

array_list_add(x) == array_list_insert_at(al.size, x)

GrowthFails == Grows /\ ArrayLost /\ UNCHANGED <<dqVars, llVars, fault>>

(* A list that has lost its array has the capacity of a new one.           *)
InsertNowhere ==
    /\ ~Grows /\ al.entries = NoArray
    /\ fault' = "array" /\ UNCHANGED <<dqVars, llVars, alVars>>

Shrinks(size) == al.capacity > Capacity /\ size <= al.capacity \div 4

(* Each entry from index on takes the next one's data, the last of them    *)
(* that of the entry after the end: see InBounds.  An index past the end   *)
(* moves nothing, and the last entry is taken off all the same.            *)
array_list_remove_at(index) ==
    /\ LET size == IF al.size = 0 THEN 0 ELSE al.size - 1
           n == IF Shrinks(size) THEN al.capacity \div 2 ELSE al.capacity
           e == [i \in DOMAIN al.entries |->
                    IF i = al.size - 1 THEN NULL
                    ELSE IF i \in index..al.size - 1 THEN al.entries[i + 1] ELSE al.entries[i]]
       IN  \/ /\ al' = [entries |-> IF Shrinks(size) THEN Resized(e, n) ELSE e,
                        size |-> size, capacity |-> n]
              /\ arrayIs' = IF al.size = 0 THEN <<>>
                            ELSE Dropped(arrayIs, IF index < al.size THEN index ELSE al.size - 1)
           \/ Shrinks(size) /\ ArrayLost
    /\ UNCHANGED <<dqVars, llVars, fault>>

array_list_get_data(index) == IF index < al.size THEN al.entries[index] ELSE NULL
array_list_contains(x) == \E i \in 0..al.size - 1 : al.entries[i] = x

array_list_remove(x) ==
    /\ array_list_contains(x)
    /\ array_list_remove_at((CHOOSE i \in 0..al.size - 1 :
                                al.entries[i] = x /\ \A j \in 0..i - 1 : al.entries[j] # x))

(* Whether there is an array is not looked at.                             *)
array_list_remove_all ==
    /\ \E e \in {Resized(al.entries, Capacity), NoArray} :
           al' = [entries |-> e, size |-> 0, capacity |-> Capacity]
    /\ arrayIs' = <<>>
    /\ UNCHANGED <<dqVars, llVars, fault>>

array_list_set(index, x) ==
    /\ index < al.size /\ al' = [al EXCEPT !.entries[index] = x]
    /\ arrayIs' = [arrayIs EXCEPT ![index + 1] = x]
    /\ UNCHANGED <<dqVars, llVars, fault>>

-----------------------------------------------------------------------------
DequeStep ==
    /\ used = "deque" /\ UNCHANGED used
    /\ deque_pop \/ \E x \in Data, h \in BOOLEAN : deque_push(x, h)

LinkedStep ==
    /\ used = "linked" /\ fault = "none" /\ UNCHANGED used
    /\ \/ linked_list_remove_all \/ InsertFirst \/ EntryDenied
       \/ \E x \in Data : linked_list_remove(x) \/ \E h \in BOOLEAN : linked_list_add(x, h)
       \/ \E i \in 0..MaxLen - 1 : \/ linked_list_remove_at(i)
                                  \/ \E x \in Data : linked_list_insert_at(i, x) \/ linked_list_set(i, x)

ArrayStep ==
    /\ used = "array" /\ fault = "none" /\ UNCHANGED used
    /\ \/ array_list_remove_all \/ GrowthFails \/ InsertNowhere
       \/ \E x \in Data : array_list_add(x) \/ array_list_remove(x)
       \/ \E i \in 0..MaxLen : array_list_remove_at(i)
       \/ \E i \in 0..MaxLen - 1 : \E x \in Data : array_list_insert_at(i, x) \/ array_list_set(i, x)

Next == DequeStep \/ LinkedStep \/ ArrayStep

Spec == Init /\ [][Next]_vars

-----------------------------------------------------------------------------
(* Properties.                                                             *)

(* The entry after the end that array_list_remove_at() reads is inside of  *)
(* the array.                                                              *)
InBounds ==
    /\ al.size < al.capacity
    /\ DOMAIN al.entries = 0..al.capacity - 1 \/ (al.entries = NoArray /\ al.size = 0)

DequeKept ==
    /\ dq.size = Len(dequeIs)
    /\ \A i \in 0..MaxLen : i < dq.size => deque_get(i) = dequeIs[i + 1]

(* LinkedKept: linked_list_insert_at() puts the data at the index, and     *)
(* moves the others up.  The code violates this.                           *)
LinkedKept ==
    /\ ll.size = Len(linkedIs)
    /\ \A i \in 0..MaxLen : i < ll.size => llEntry[linked_list_get_entry(i)].data = linkedIs[i + 1]

ArrayKept ==
    /\ al.size = Len(arrayIs)
    /\ \A i \in 0..MaxLen : i < al.size => array_list_get_data(i) = arrayIs[i + 1]
    /\ InBounds

(* After any calls the three lists answer with the elements that were put  *)
(* into them, in order: the deque although a pop leaves its tail behind    *)
(* and its entries are reused at once, the linked list from both of its    *)
(* ends, the array list over each growth and shrinking, or with nothing    *)
(* once its array is lost.  The one exception is a linked list in which an *)
(* entry was inserted before the last; and only a list that has lost its   *)
(* array is written to through NULL.                                       *)
SequencesKept ==
    /\ DequeKept /\ ArrayKept
    /\ fault # "tail" => LinkedKept
    /\ fault = "array" => al.entries = NoArray
=============================================================================
