-------------------------------- MODULE Memory --------------------------------
(***************************************************************************)
(* The heap of rt_mem with the record that RTMemService keeps of it, and   *)
(* two users that keep what they allocate in an RtHashTable: RtMetaData    *)
(* and the persistent objects.  An action is one call; the calls of one    *)
(* thread are modelled, as neither the record nor the objects have a lock. *)
(***************************************************************************)
EXTENDS Integers, Sequences, FiniteSets

CONSTANTS
    Blocks,   \* addresses the system's heap has: 1..n
    NodesMax, \* nodes_max of the record
    Buckets,  \* num_buckets of a hash table
    Keys, Values, \* what is stored in a RtMetaData, under which keys
    Uuids, Objects, \* the persistent objects, and how they are named
    None,     \* nothing
    MaxCnt    \* bound on nodes_cnt, which blocks of no size drive up

VARIABLES
    user,   \* who uses the heap in this run: raw, meta or persist
    heap,   \* live blocks, the record's nodes, its nodes_cnt and total_size,
            \* the blocks that were freed when they were not live, and what
            \* the record names beside live blocks: NULL, once a realloc failed
    table,  \* the user's hash table: a chain of [key, data, node] per bucket
    typed,  \* the typed_data in a block: type, size, value and ext_data
    known,  \* what the caller of RtMetaData believes it has stored
    given,  \* the objects handed to persist_object_register() and freed since
    crashed \* memory ran out where the code does not look: it wrote through NULL

vars == <<user, heap, table, typed, known, given, crashed>>

Slots == 0..NodesMax - 1
Least(S) == CHOOSE x \in S : \A y \in S : x <= y

Types == {"int32", "int64", "string"}
SizeOf == [int32 |-> 1, int64 |-> 2, string |-> 2, typed_data |-> 3, node |-> 3, zero |-> 0]
Reservoir == 1

Emptied == [type |-> "none", size |-> 0, value |-> "nothing", ext |-> None]
Unset == [type |-> "none", value |-> "nothing", lost |-> FALSE]

Init ==
    /\ user \in {"raw", "meta", "persist"}
    /\ heap = [live |-> {}, node |-> [i \in Slots |-> [ptr |-> None, size |-> 0]],
               cnt |-> 0, total |-> 0, twice |-> {}, refused |-> {}]
    /\ table = [b \in 0..Buckets - 1 |-> <<>>]
    /\ typed = [b \in Blocks |-> Emptied]
    /\ known = [k \in Keys |-> Unset]
    /\ given = [held |-> {}, freed |-> {}]
    /\ crashed = FALSE

-----------------------------------------------------------------------------
(* The record.  A block of no size counts as a node and takes no slot.     *)

addNode(h, b, size) ==
    LET free == {i \in Slots : h.node[i].size = 0}
    IN  IF free = {} THEN h
        ELSE [h EXCEPT !.node[Least(free)] = [ptr |-> b, size |-> size],
                       !.cnt = @ + 1, !.total = @ + size]

(* A slot without a size is free, whatever its ptr.                         *)
removeNode(h, b) ==
    LET hit == {i \in Slots : h.node[i].size > 0 /\ h.node[i].ptr = b}
    IN  IF hit = {} THEN h
        ELSE [h EXCEPT !.node[Least(hit)] = [ptr |-> None, size |-> 0], !.cnt = @ - 1,
                       !.total = @ - h.node[Least(hit)].size]

(* The system hands out any free block; which one does not matter here.    *)
Block(h) == IF h.live = Blocks THEN None ELSE Least(Blocks \ h.live)

rt_mem_malloc(h, size) ==
    IF Block(h) = None THEN h
    ELSE addNode([h EXCEPT !.live = @ \cup {Block(h)}], Block(h), size)

rt_mem_free(h, b) ==
    IF b = None THEN h
    ELSE removeNode([h EXCEPT !.live = @ \ {b}, !.twice = @ \cup ({b} \ h.live)], b)

(* The block may move or stay; nothing is done for a size of 0.  When the  *)
(* system refuses, the block stays allocated, and the record forgets it    *)
(* and notes NULL with the new size in its place.                          *)
rt_mem_realloc(h, b, to, size) ==
    IF size = 0 THEN h
    ELSE addNode(removeNode(IF to = None THEN [h EXCEPT !.refused = {None}]
                            ELSE [h EXCEPT !.live = (@ \ {b}) \cup {to}], b), to, size)

-----------------------------------------------------------------------------
(* RTMemService::reset() forgets all blocks and frees none.                *)

RawMalloc(size) ==
    /\ heap.live # Blocks /\ heap.cnt < MaxCnt /\ heap' = rt_mem_malloc(heap, size)
    /\ UNCHANGED <<table, typed, known, given, crashed>>
RawFree(b) ==
    /\ b \in heap.live /\ heap' = rt_mem_free(heap, b)
    /\ UNCHANGED <<table, typed, known, given, crashed>>
RawRealloc(b, to, size) ==
    /\ b \in heap.live /\ to \in (Blocks \ heap.live) \cup {b, None}
    /\ heap' = rt_mem_realloc(heap, b, to, size)
    /\ UNCHANGED <<table, typed, known, given, crashed>>

-----------------------------------------------------------------------------
(* RtHashTable: a key is its own hash.                                     *)

Bucket(key) == key % Buckets
Chain(key) == table[Bucket(key)]
Position(key) ==
    LET hit == {i \in DOMAIN Chain(key) : Chain(key)[i].key = key}
    IN  IF hit = {} THEN 0 ELSE Least(hit)

rt_hash_table_find(key) == IF Position(key) = 0 THEN None ELSE Chain(key)[Position(key)].data

rt_hash_table_insert(key, x, node) ==
    [table EXCEPT ![Bucket(key)] = <<[key |-> key, data |-> x, node |-> node]>> \o @]

(* The entries of the table.                                               *)
Entries == UNION {{Chain(k)[i] : i \in DOMAIN Chain(k)} : k \in Keys}

CutAt(s, i) == SubSeq(s, 1, i - 1) \o SubSeq(s, i + 1, Len(s))

(* Mutant: the first node of the chain is unlinked, not the one found.     *)
RemoveFirst(key) == [table EXCEPT ![Bucket(key)] = Tail(@)]

rt_hash_table_remove(key) == [table EXCEPT ![Bucket(key)] = CutAt(@, Position(key))]

FreeAll(h, blocks) ==
    LET Freed[n \in 0..Cardinality(Blocks)] ==
            IF n = 0 THEN h
            ELSE IF n \in blocks THEN rt_mem_free(Freed[n - 1], n) ELSE Freed[n - 1]
    IN  Freed[Cardinality(Blocks)]

(* The nodes of the entries go, and their data stays with its owner.       *)
rt_hash_table_clear(h, entries) == FreeAll(h, {e.node : e \in entries})

-----------------------------------------------------------------------------
(* RtMetaData.                                                             *)

freeStorage(h, item) == IF item.size > Reservoir THEN rt_mem_free(h, item.ext) ELSE h

(* typed_data::setData(): what does not fit into the item itself gets a    *)
(* block, and nothing if there is none.                                    *)
typed_setData(h, b, type, value) ==
    LET cleared == freeStorage(h, typed[b])
        size == SizeOf[type]
        stored == [type |-> type, size |-> size, value |-> value, ext |-> None]
    IN  IF size <= Reservoir THEN [heap |-> cleared, item |-> stored]
        ELSE IF Block(cleared) = None
        THEN [heap |-> cleared, item |-> [stored EXCEPT !.size = 0]]
        ELSE [heap |-> rt_mem_malloc(cleared, size), item |-> [stored EXCEPT !.ext = Block(cleared)]]

(* A new key for which there is no item is refused, and nothing changes.   *)
setData(key, type, value) ==
    /\ UNCHANGED <<given, crashed>>
    /\ LET old == rt_hash_table_find(key)
           h1 == IF old = None THEN rt_mem_malloc(heap, SizeOf["typed_data"]) ELSE heap
           b == IF old = None THEN Block(heap) ELSE old
           h2 == IF old = None THEN rt_mem_malloc(h1, SizeOf["node"]) ELSE h1
           r == typed_setData(h2, b, type, value)
       IN  /\ old = None => Block(heap) # None /\ Block(h1) # None
           /\ heap' = r.heap /\ typed' = [typed EXCEPT ![b] = r.item]
           /\ table' = IF old = None THEN rt_hash_table_insert(key, b, Block(h1)) ELSE table
           /\ known' = [known EXCEPT ![key] = [type |-> type, value |-> value,
                                               lost |-> SizeOf[type] > Reservoir /\ r.item.ext = None]]

(* rt_hash_table_insert() does not look whether it got a node.             *)
SetDenied(key) ==
    /\ rt_hash_table_find(key) = None /\ Block(heap) # None
    /\ heap' = rt_mem_malloc(heap, SizeOf["typed_data"])
    /\ Block(heap') = None /\ crashed' = TRUE
    /\ UNCHANGED <<table, typed, known, given>>

findData(key) ==
    IF rt_hash_table_find(key) = None THEN Emptied ELSE typed[rt_hash_table_find(key)]

(* findInt32() and the others look at the type and the size, except        *)
(* findCString(), which answers with an empty string for one that is lost. *)
find(key, type) ==
    LET item == findData(key)
    IN  IF item.type # type THEN "nothing"
        ELSE IF type = "string" /\ item.size = 0 THEN "empty"
        ELSE IF item.size # SizeOf[type] THEN "nothing"
        ELSE item.value

(* remove() frees the item, and then has rt_hash_table_remove() free the   *)
(* data of the node, which is the item again.                              *)
remove(key) ==
    /\ rt_hash_table_find(key) # None /\ UNCHANGED <<given, crashed>>
    /\ LET b == rt_hash_table_find(key)
           h == rt_mem_free(rt_mem_free(freeStorage(heap, typed[b]), b), b)
       IN  heap' = rt_mem_free(h, Chain(key)[Position(key)].node)
    /\ typed' = [typed EXCEPT ![rt_hash_table_find(key)] = Emptied]
    /\ table' = rt_hash_table_remove(key) /\ known' = [known EXCEPT ![key] = Unset]

(* ~RtMetaData() clears too; the items first, and then the nodes.           *)
clear ==
    LET items == {e.data : e \in Entries}
    IN  /\ heap' = rt_hash_table_clear(FreeAll(heap, items \union {typed[b].ext : b \in items}), Entries)
        /\ typed' = [b \in Blocks |-> Emptied]
        /\ table' = [b \in DOMAIN table |-> <<>>] /\ known' = [k \in Keys |-> Unset]
        /\ UNCHANGED <<given, crashed>>

-----------------------------------------------------------------------------
(* The persistent objects: the table has the key's bucket searched for the *)
(* uuid, whatever the keys of the entries are.                             *)

WithUuid(uuid, key) == {i \in DOMAIN Chain(key) : Chain(key)[i].data.uuid = uuid}

(* A second object under the same name is dropped, and nobody frees it.    *)
persist_object_register(uuid, key, object) ==
    /\ object \notin given.held \cup given.freed
    /\ IF WithUuid(uuid, key) # {} THEN UNCHANGED <<heap, table, given>>
       ELSE LET h == rt_mem_malloc(heap, SizeOf["typed_data"])
            IN  /\ Block(heap) # None /\ Block(h) # None
                /\ heap' = rt_mem_malloc(h, SizeOf["node"])
                /\ table' = rt_hash_table_insert(key,
                        [uuid |-> uuid, object |-> object, item |-> Block(heap)], Block(h))
                /\ given' = [given EXCEPT !.held = @ \cup {object}]
    /\ UNCHANGED <<typed, known, crashed>>

(* Nobody looks whether there is an item either.                           *)
RegisterDenied(uuid, key) ==
    /\ WithUuid(uuid, key) = {}
    /\ heap' = rt_mem_malloc(heap, SizeOf["typed_data"])
    /\ Block(heap') = None /\ crashed' = TRUE
    /\ UNCHANGED <<table, typed, known, given>>

persist_object_find(uuid, key) ==
    IF WithUuid(uuid, key) = {} THEN None
    ELSE Chain(key)[Least(WithUuid(uuid, key))].data.object

persist_object_delete(uuid, key) ==
    /\ WithUuid(uuid, key) # {}
    /\ LET i == Least(WithUuid(uuid, key))
           e == Chain(key)[i]
       IN  /\ table' = [table EXCEPT ![Bucket(key)] = CutAt(@, i)]
           /\ given' = [held |-> given.held \ {e.data.object}, freed |-> given.freed \cup {e.data.object}]
           /\ heap' = rt_mem_free(rt_mem_free(heap, e.data.item), e.node)
    /\ UNCHANGED <<typed, known, crashed>>

-----------------------------------------------------------------------------
RawStep ==
    /\ user = "raw" /\ UNCHANGED user
    /\ \/ \E t \in {"zero", "int32", "int64"} : RawMalloc(SizeOf[t])
       \/ \E b \in Blocks : RawFree(b)
       \/ \E b \in Blocks, to \in Blocks \cup {None} : \E t \in {"zero", "int32", "node"} : RawRealloc(b, to, SizeOf[t])
MetaStep ==
    /\ user = "meta" /\ ~crashed /\ UNCHANGED user
    /\ \/ \E k \in Keys : \E t \in Types : \E v \in Values : setData(k, t, v)
       \/ \E k \in Keys : remove(k) \/ SetDenied(k)
       \/ clear
PersistStep ==
    /\ user = "persist" /\ ~crashed /\ UNCHANGED user
    /\ \/ \E u \in Uuids : \E k \in Keys : \E v \in Objects : persist_object_register(u, k, v)
       \/ \E u \in Uuids : \E k \in Keys : persist_object_delete(u, k) \/ RegisterDenied(u, k)

Next == RawStep \/ MetaStep \/ PersistStep
Spec == Init /\ [][Next]_vars

-----------------------------------------------------------------------------
(* Properties.                                                             *)

Owned ==
    CASE user = "raw" -> heap.live
      [] user = "meta" -> {e.node : e \in Entries} \cup {e.data : e \in Entries}
                          \cup ({typed[e.data].ext : e \in Entries} \ {None})
      [] user = "persist" -> {e.node : e \in Entries} \cup {e.data.item : e \in Entries}

Recorded == {i \in Slots : heap.node[i].size > 0}
RecordedSize ==
    LET upTo[n \in 0..NodesMax] == IF n = 0 THEN 0 ELSE upTo[n - 1] + heap.node[n - 1].size
    IN  upTo[NodesMax]

(* HeapBalanced: whatever was stored, replaced by a longer or a shorter    *)
(* value, lost for want of memory or removed, the live blocks are those    *)
(* that the user still reaches: none leaks and none is used when freed.    *)
(* The record names live blocks only, each once, with their sizes in       *)
(* total_size, and its count is never less than the blocks it names; but   *)
(* a realloc() that fails has it name NULL, as often as that happens.      *)
(* Where the code writes through NULL, all memory is used up.              *)
HeapBalanced ==
    /\ IF crashed THEN heap.live = Blocks ELSE heap.live = Owned
    /\ heap.total = RecordedSize /\ heap.cnt >= Cardinality(Recorded)
    /\ \A i \in Recorded : heap.node[i].ptr \in heap.live \cup heap.refused
    /\ \A i, j \in Recorded : heap.node[i].ptr = heap.node[j].ptr => i = j \/ heap.node[i].ptr = None

(* StoreKept: a key answers with what was stored under it last, also when  *)
(* keys share a bucket, with nothing for another type or once it is        *)
(* removed, and with nothing, or an empty string, when there was no memory *)
(* for it.  A persistent object can be found until it is deleted, and it   *)
(* is freed then and only then.                                            *)
StoreKept ==
    /\ user = "meta" => \A k \in Keys : \A t \in Types :
        find(k, t) = IF known[k].type # t THEN "nothing"
                     ELSE IF ~known[k].lost THEN known[k].value
                     ELSE IF t = "string" THEN "empty" ELSE "nothing"
    /\ user = "persist" =>
        /\ given.held = {e.data.object : e \in Entries} /\ given.held \cap given.freed = {}
        /\ \A o \in given.held : \E u \in Uuids, k \in Keys : persist_object_find(u, k) = o

(* The heap and what is stored in it agree.                                *)
MemoryKept == HeapBalanced /\ StoreKept

(* No block is freed that is not live.  The code violates this: remove()   *)
(* of RtMetaData frees a block that the hash table frees again.            *)
FreedOnce == heap.twice = {}
=============================================================================
