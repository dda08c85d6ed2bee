------------------------------ MODULE MCLibrary ------------------------------
(* Small instances of the libraries for TLC: the kernel lists, the three   *)
(* containers, the memory record with its users, the allocators, and the   *)
(* conversions.  They share nothing, so that a run is about one of them:   *)
(* its part.                                                               *)
EXTENDS Integers, FiniteSets

CONSTANTS
    NULL, RingHeads, RingNodes, HashHeads, HashNodes,
    Data, Cells, InitialCapacity, MinCapacity, MaxLen, Junk,
    Blocks, NodesMax, Buckets, Keys, Values, Objects, Uuids, Nothing, MaxCnt,
    None, Failed, OS_LINUX, HAVE_DRM, Capacities, Align, Page, Word, Ids,
    Sizes, Samples, MaxPuts

(* Handles, descriptors and mappings are numbers, and neither what stands  *)
(* for nothing nor MAP_FAILED is one of them.                              *)
ASSUME AllocAssumption ==
    /\ Ids \subseteq Nat
    /\ None \notin Ids /\ Failed \notin Ids
    /\ None \notin {"ion", "drm", "malloc"}

(* Decoders give pictures of even width and height; a sample is a byte.    *)
ASSUME SamplesAssumption ==
    /\ \A s \in Sizes : s \in Nat \ {0} /\ s % 2 = 0
    /\ Samples \subseteq 0..255

(* A head is no node, and the NULL that ends a hlist is neither.           *)
ASSUME LinksAssumption ==
    /\ RingHeads \cap RingNodes = {}
    /\ HashHeads \cap HashNodes = {}
    /\ NULL \notin HashHeads \union HashNodes

(* NULL points at no entry; INITIAL_CAPACITY is 16.                        *)
ASSUME ListsAssumption ==
    /\ NULL \notin Cells
    /\ InitialCapacity \in Nat \ {0} /\ MinCapacity \in Nat /\ MaxLen \in Nat

(* The blocks of the heap are numbered, and NULL is none of them.          *)
ASSUME MemoryAssumption ==
    /\ IsFiniteSet(Blocks) /\ Blocks = 1..Cardinality(Blocks)
    /\ Nothing \notin Blocks
    /\ NodesMax \in Nat /\ Buckets \in Nat \ {0} /\ Keys \subseteq Nat

VARIABLES
    part,
    next, prev, ring, cell, pprev, chain,
    used, ownArray, dq, dqEntry, dequeIs, ll, llEntry, linkedIs, al, arrayIs, fault,
    user, record, table, typed, known, given, crashed,
    devices, secure, allocator, kernel, heap, buffers, lost, stray,
    task, buffer, put, puts, picture, at, dest, colours

kernelVars    == <<next, prev, ring, cell, pprev, chain>>
listsVars     == <<used, ownArray, dq, dqEntry, dequeIs, ll, llEntry, linkedIs, al, arrayIs, fault>>
memoryVars    == <<user, record, table, typed, known, given, crashed>>
allocatorVars == <<devices, secure, allocator, kernel, heap, buffers, lost, stray>>
conversionVars == <<task, buffer, put, puts, picture, at, dest, colours>>

K == INSTANCE KernelList
L == INSTANCE Lists
M == INSTANCE Memory WITH heap <- record, None <- Nothing
A == INSTANCE Allocators
C == INSTANCE Conversions

(* A part that the run is not about keeps one initial state.               *)
LibraryInit ==
    /\ part \in {"kernel list", "lists", "memory", "allocators", "conversions"}
    /\ K!Init /\ L!Init /\ M!Init /\ A!AllocInit /\ C!Init
    /\ part # "lists" => used = "deque" /\ ownArray
    /\ part # "memory" => user = "raw"
    /\ part # "allocators" => devices = {} /\ ~secure
    /\ part # "conversions" => task = "carry" /\ picture = [width |-> 2, height |-> 2]

LibraryNext ==
    /\ part' = part
    /\ \/ part = "kernel list" /\ K!Next /\ UNCHANGED <<listsVars, memoryVars, allocatorVars, conversionVars>>
       \/ part = "lists" /\ L!Next /\ UNCHANGED <<kernelVars, memoryVars, allocatorVars, conversionVars>>
       \/ part = "memory" /\ M!Next /\ UNCHANGED <<kernelVars, listsVars, allocatorVars, conversionVars>>
       \/ part = "allocators" /\ A!AllocNext /\ UNCHANGED <<kernelVars, listsVars, memoryVars, conversionVars>>
       \/ part = "conversions" /\ C!Next /\ UNCHANGED <<kernelVars, listsVars, memoryVars, allocatorVars>>

LibrarySpec == LibraryInit /\ [][LibraryNext]_<<part, kernelVars, listsVars, memoryVars, allocatorVars, conversionVars>>

(* The properties of the parts, where they are stated; the kernel lists    *)
(* are sequences and sets as well.                                         *)
SequencesKept ==
    /\ part = "kernel list" => K!ListsKept
    /\ part = "lists" => L!SequencesKept
LinkedKept      == part = "lists" => L!LinkedKept
MemoryKept      == part = "memory" => M!MemoryKept
HeldByBuffers   == part = "allocators" => A!HeldByBuffers
ConversionsKept == part = "conversions" => C!ConversionsKept
=============================================================================
