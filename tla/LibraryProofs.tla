---------------------------- MODULE LibraryProofs ----------------------------
(***************************************************************************)
(* Proofs about what the whole system builds on: the allocators, the       *)
(* conversions and the kernel lists of MCLibrary, for any numbers,         *)
(* pictures, samples and nodes, and the buffers of MediaBufferPool, for    *)
(* any users, buffers and sizes; ContainerProofs has the other two parts   *)
(* of MCLibrary.  An invariant of a part holds in behaviours about other   *)
(* parts as well, since those leave it in one of its initial states.       *)
(***************************************************************************)
EXTENDS MediaBufferPool, ContainerProofs

-----------------------------------------------------------------------------
Kinds == {"handles", "fds", "maps"}
Handled(b) == b.handle \in Ids /\ b.fd \in Ids \union {None} /\ b.data \in Ids \union {Failed}
Plain(b) == b.handle = None /\ b.fd = None /\ b.data \in Ids
AnyBuffer == [handle : Ids \union {None}, fd : Ids \union {None}, data : Ids \union {Failed}]
Use == [Kinds -> SUBSET Ids]

(* What the allocator in use made, and nothing before one is.              *)
AllocTypeOK ==
    /\ allocator \in {None, "ion", "drm", "malloc"}
    /\ kernel \in Use /\ lost \in Use /\ heap \subseteq Ids
    /\ buffers \subseteq AnyBuffer
    /\ allocator = None => buffers = {}
    /\ allocator \in {"ion", "drm"} => \A b \in buffers : Handled(b)
    /\ allocator = "malloc" => \A b \in buffers : Plain(b)
AllocInv == AllocTypeOK /\ A!HeldByBuffers

allocVars == <<devices, secure, allocator, kernel, heap, buffers, lost, stray>>

LEMMA LeastOf ==
    ASSUME NEW S \in SUBSET Nat, S # {}
    PROVE  A!Min(S) \in S
<1>1. \E x \in S : \A y \in S : ~ (<<y, x>> \in OpToRel(<, Nat))
  BY NatLessThanWellFounded, WFMin
<1>2. PICK x \in S : \A y \in S : ~ (<<y, x>> \in OpToRel(<, Nat))
  BY <1>1
<1>3. \A y \in S : x =< y
  <2> SUFFICES ASSUME NEW y \in S, ~(x =< y) PROVE FALSE
    OBVIOUS
  <2>1. y \in Nat /\ x \in Nat /\ y < x
    OBVIOUS
  <2>2. <<y, x>> \in OpToRel(<, Nat)
    BY <2>1 DEF OpToRel
  <2> QED
    BY <1>2, <2>2
<1> QED
  BY <1>3 DEF A!Min

(* What the kernel gives is in nobody's use.                               *)
LEMMA FreeNumber ==
    ASSUME NEW used_ \in SUBSET Ids, A!Free(used_) # {}
    PROVE  A!Min(A!Free(used_)) \in Ids /\ A!Min(A!Free(used_)) \notin used_
<1>1. A!Free(used_) \in SUBSET Nat
  BY AllocAssumption DEF A!Free
<1>2. A!Min(A!Free(used_)) \in A!Free(used_)
  BY <1>1, LeastOf
<1> QED
  BY <1>2 DEF A!Free

LEMMA AllocStart == A!AllocInit => AllocInv
<1> SUFFICES ASSUME A!AllocInit PROVE AllocInv
  OBVIOUS
<1>1. AllocTypeOK
  BY AllocAssumption DEF A!AllocInit, A!Resources, AllocTypeOK, Use, Kinds
<1>2. A!HeldByBuffers
  BY DEF A!AllocInit, A!Resources, A!HeldByBuffers
<1> QED
  BY <1>1, <1>2 DEF AllocInv

LEMMA HeldUse ==
    ASSUME NEW b \in AnyBuffer
    PROVE  A!Held(b) \in Use
BY AllocAssumption DEF A!Held, A!Taken, A!Real, AnyBuffer, Use, Kinds

LEMMA AddSub ==
    ASSUME NEW r \in Use, NEW s \in Use
    PROVE  /\ A!Add(r, s) \in Use /\ A!Sub(r, s) \in Use
           /\ \A k \in Kinds : A!Add(r, s)[k] = r[k] \union s[k] /\ A!Sub(r, s)[k] = r[k] \ s[k]
BY DEF A!Add, A!Sub, Use

(* A request that fails after it took some numbers: they are lost.         *)
LEMMA LoseKeeps ==
    ASSUME AllocInv, NEW taken \in Use, A!Lose(taken),
           \A k \in Kinds : taken[k] \intersect kernel[k] = {},
           UNCHANGED <<devices, secure, allocator, stray>>
    PROVE  AllocInv'
<1>0. /\ kernel' = A!Add(kernel, taken) /\ lost' = A!Add(lost, taken)
      /\ buffers' = buffers /\ heap' = heap /\ stray' = stray /\ allocator' = allocator
  BY DEF A!Lose
<1>1. kernel \in Use /\ lost \in Use /\ kernel' \in Use /\ lost' \in Use
  BY <1>0, AddSub DEF AllocInv, AllocTypeOK
<1>2. AllocTypeOK'
  BY <1>0, <1>1 DEF AllocInv, AllocTypeOK
<1>3. DOMAIN kernel = Kinds /\ DOMAIN kernel' = Kinds
  BY <1>1 DEF Use
<1>4. \A k \in Kinds : kernel'[k] = kernel[k] \union taken[k] /\ lost'[k] = lost[k] \union taken[k]
  BY <1>0, <1>1, AddSub
<1>5. A!HeldByBuffers'
  <2>1. ASSUME NEW k \in Kinds
        PROVE  kernel'[k] = lost'[k] \union UNION {A!Held(b)[k] : b \in buffers'}
    BY <1>0, <1>3, <1>4 DEF AllocInv, A!HeldByBuffers
  <2>2. ASSUME NEW k \in Kinds, NEW b \in buffers'
        PROVE  A!Held(b)[k] \intersect lost'[k] = {}
    BY <1>0, <1>3, <1>4 DEF AllocInv, A!HeldByBuffers
  <2>3. ASSUME NEW k \in Kinds, NEW b \in buffers', NEW c \in buffers', b # c
        PROVE  A!Held(b)[k] \intersect A!Held(c)[k] = {}
    BY <1>0, <1>3, <2>3 DEF AllocInv, A!HeldByBuffers
  <2> QED
    BY <1>0, <1>3, <2>1, <2>2, <2>3 DEF AllocInv, A!HeldByBuffers
<1> QED
  BY <1>2, <1>5 DEF AllocInv

(* A request that succeeds: the buffer holds what it took.                 *)
LEMMA HoldKeeps ==
    ASSUME AllocInv, NEW b \in AnyBuffer, Handled(b), A!Hold(b, A!Held(b)),
           allocator \in {"ion", "drm"},
           \A k \in Kinds : A!Held(b)[k] \intersect kernel[k] = {},
           UNCHANGED <<devices, secure, allocator, stray>>
    PROVE  AllocInv'
<1>0. /\ kernel' = A!Add(kernel, A!Held(b)) /\ buffers' = buffers \union {b}
      /\ lost' = lost /\ heap' = heap /\ stray' = stray /\ allocator' = allocator
  BY DEF A!Hold
<1>1. kernel \in Use /\ A!Held(b) \in Use /\ kernel' \in Use
  BY <1>0, HeldUse, AddSub DEF AllocInv, AllocTypeOK
<1>2. AllocTypeOK'
  BY <1>0, <1>1, AllocAssumption DEF AllocInv, AllocTypeOK
<1>3. DOMAIN kernel = Kinds /\ DOMAIN kernel' = Kinds
  BY <1>1 DEF Use
<1>4. \A k \in Kinds : kernel'[k] = kernel[k] \union A!Held(b)[k]
  BY <1>0, <1>1, AddSub
<1>5. \A k \in Kinds : \A c \in buffers : A!Held(c)[k] \subseteq kernel[k]
  BY <1>3 DEF AllocInv, A!HeldByBuffers
<1>6. A!HeldByBuffers'
  <2>1. ASSUME NEW k \in Kinds
        PROVE  kernel'[k] = lost'[k] \union UNION {A!Held(c)[k] : c \in buffers'}
    <3>1. kernel[k] = lost[k] \union UNION {A!Held(c)[k] : c \in buffers}
      BY <1>3 DEF AllocInv, A!HeldByBuffers
    <3> QED
      BY <3>1, <1>0, <1>4
  <2>2. ASSUME NEW k \in Kinds, NEW c \in buffers'
        PROVE  A!Held(c)[k] \intersect lost'[k] = {}
    <3>1. lost[k] \subseteq kernel[k]
      BY <1>3 DEF AllocInv, A!HeldByBuffers
    <3> QED
      BY <3>1, <1>0, <1>3 DEF AllocInv, A!HeldByBuffers
  <2>3. ASSUME NEW k \in Kinds, NEW c \in buffers', NEW d \in buffers', c # d
        PROVE  A!Held(c)[k] \intersect A!Held(d)[k] = {}
    BY <1>0, <1>3, <1>5, <2>3 DEF AllocInv, A!HeldByBuffers
  <2>4. heap' = UNION {IF c.handle = None THEN A!Real(c.data) ELSE {} : c \in buffers'}
    <3>1. b.handle # None
      BY AllocAssumption DEF Handled
    <3>2. heap = UNION {IF c.handle = None THEN A!Real(c.data) ELSE {} : c \in buffers}
      BY DEF AllocInv, A!HeldByBuffers
    <3> QED
      BY <3>1, <3>2, <1>0
  <2> QED
    BY <1>0, <1>3, <2>1, <2>2, <2>3, <2>4 DEF AllocInv, A!HeldByBuffers
<1> QED
  BY <1>2, <1>6 DEF AllocInv

(* Numbers that the buffer held are given back, the others are lost.       *)
LEMMA GiveBackKeeps ==
    ASSUME AllocInv, NEW b \in buffers, NEW gives \in Use, A!GiveBack(b, gives),
           \A k \in Kinds : gives[k] \subseteq A!Held(b)[k],
           allocator \in {"ion", "drm"}, UNCHANGED <<devices, secure, allocator, heap>>
    PROVE  AllocInv'
<1>0. /\ kernel' = A!Sub(kernel, gives) /\ buffers' = buffers \ {b}
      /\ lost' = A!Add(lost, A!Sub(A!Held(b), gives))
      /\ stray' = (stray \/ \E k \in DOMAIN gives : ~(gives[k] \subseteq kernel[k]))
      /\ heap' = heap /\ allocator' = allocator
  BY DEF A!GiveBack
<1>1. /\ kernel \in Use /\ lost \in Use /\ A!Held(b) \in Use
      /\ A!Sub(A!Held(b), gives) \in Use /\ kernel' \in Use /\ lost' \in Use
  BY <1>0, HeldUse, AddSub DEF AllocInv, AllocTypeOK
<1>2. AllocTypeOK'
  BY <1>0, <1>1, AllocAssumption DEF AllocInv, AllocTypeOK
<1>3. DOMAIN kernel = Kinds /\ DOMAIN kernel' = Kinds /\ DOMAIN gives = Kinds
  BY <1>1 DEF Use
<1>4. \A k \in Kinds : /\ kernel'[k] = kernel[k] \ gives[k]
                       /\ lost'[k] = lost[k] \union (A!Held(b)[k] \ gives[k])
  BY <1>0, <1>1, AddSub
<1>5. \A k \in Kinds :
        /\ kernel[k] = lost[k] \union UNION {A!Held(c)[k] : c \in buffers}
        /\ \A c, d \in buffers : c # d => A!Held(c)[k] \intersect A!Held(d)[k] = {}
        /\ \A c \in buffers : A!Held(c)[k] \intersect lost[k] = {}
  BY <1>3 DEF AllocInv, A!HeldByBuffers
<1>6. A!HeldByBuffers'
  <2>1. ASSUME NEW k \in Kinds
        PROVE  kernel'[k] = lost'[k] \union UNION {A!Held(c)[k] : c \in buffers'}
    BY <1>0, <1>4, <1>5
  <2>2. ASSUME NEW k \in Kinds, NEW c \in buffers'
        PROVE  A!Held(c)[k] \intersect lost'[k] = {}
    BY <1>0, <1>4, <1>5
  <2>3. ASSUME NEW k \in Kinds, NEW c \in buffers', NEW d \in buffers', c # d
        PROVE  A!Held(c)[k] \intersect A!Held(d)[k] = {}
    BY <1>0, <1>5, <2>3
  <2>4. heap' = UNION {IF c.handle = None THEN A!Real(c.data) ELSE {} : c \in buffers'}
    <3>1. b.handle # None
      BY AllocAssumption DEF AllocInv, AllocTypeOK, Handled
    <3>2. heap = UNION {IF c.handle = None THEN A!Real(c.data) ELSE {} : c \in buffers}
      BY DEF AllocInv, A!HeldByBuffers
    <3> QED
      BY <3>1, <3>2, <1>0
  <2>5. ~stray'
    <3>1. \A k \in DOMAIN gives : gives[k] \subseteq kernel[k]
      BY <1>3, <1>5
    <3>2. ~stray
      BY DEF AllocInv, A!HeldByBuffers
    <3> QED
      BY <3>1, <3>2, <1>0, Zenon
  <2> QED
    BY <1>3, <2>1, <2>2, <2>3, <2>4, <2>5 DEF A!HeldByBuffers
<1> QED
  BY <1>2, <1>6 DEF AllocInv

-----------------------------------------------------------------------------
LEMMA FetchKeeps == ASSUME AllocInv, A!Fetch PROVE AllocInv'
<1>1. allocator' \in {None, "ion", "drm", "malloc"} /\ allocator' # None /\ allocator = None
  BY DEF A!Fetch, A!priorAvailLinearAllocator, A!fetchAllocator, A!fetchIonAllocator,
         A!fetchDrmAllocator, A!fetchMallocAllocator
<1>2. UNCHANGED <<kernel, heap, buffers, lost, stray>>
  BY DEF A!Fetch
<1>3. AllocTypeOK'
  BY <1>1, <1>2 DEF AllocInv, AllocTypeOK
<1>4. A!HeldByBuffers'
  BY <1>2 DEF AllocInv, A!HeldByBuffers
<1> QED
  BY <1>3, <1>4 DEF AllocInv

LEMMA DeinitKeeps == ASSUME AllocInv, A!deinit PROVE AllocInv'
<1>1. /\ buffers = {} /\ buffers' = {} /\ heap' = heap /\ stray' = stray /\ allocator' = None
      /\ kernel' = [kernel EXCEPT !.handles = {}] /\ lost' = [lost EXCEPT !.handles = {}]
  BY DEF A!deinit
<1>2. kernel \in Use /\ lost \in Use /\ kernel' \in Use /\ lost' \in Use
  BY <1>1 DEF AllocInv, AllocTypeOK, Use, Kinds
<1>3. AllocTypeOK'
  BY <1>1, <1>2 DEF AllocInv, AllocTypeOK
<1>4. DOMAIN kernel = Kinds /\ DOMAIN kernel' = Kinds
  BY <1>2 DEF Use
<1>5. \A k \in Kinds : kernel'[k] = lost'[k]
  <2>1. \A k \in Kinds : kernel[k] = lost[k]
    BY <1>1, <1>4 DEF AllocInv, A!HeldByBuffers
  <2> QED
    BY <2>1, <1>1, <1>2 DEF Use, Kinds
<1>6. heap' = {} /\ ~stray'
  BY <1>1 DEF AllocInv, A!HeldByBuffers
<1>7. A!HeldByBuffers'
  BY <1>1, <1>4, <1>5, <1>6 DEF A!HeldByBuffers
<1> QED
  BY <1>3, <1>7 DEF AllocInv

(* The numbers that newBuffer() is given.                                  *)
Numbers(h, fd, map) ==
    /\ h \in Ids \ kernel.handles /\ fd \in Ids \ kernel.fds /\ map \in Ids \ kernel.maps

LEMMA TakenUse ==
    ASSUME NEW h, NEW fd, NEW map, Numbers(h, fd, map),
           NEW H \in SUBSET {h}, NEW F \in SUBSET {fd}, NEW M_ \in SUBSET {map}
    PROVE  /\ A!Taken(H, F, M_) \in Use
           /\ \A k \in Kinds : A!Taken(H, F, M_)[k] \intersect kernel[k] = {}
BY DEF Numbers, A!Taken, Use, Kinds

LEMMA DrmNewKeeps ==
    ASSUME AllocInv, allocator = "drm", NEW len, NEW fails, NEW h, NEW fd, NEW map,
           Numbers(h, fd, map), A!DrmNewBuffer(len, h, fd, map, fails),
           UNCHANGED <<devices, secure, allocator, stray>>
    PROVE  AllocInv'
<1> DEFINE mapped == A!drm_map(fd, map, len, fails)
           b == A!Buffer(h, mapped.fd, mapped.data)
<1>1. CASE A!Lose(A!Resources)
  <2>1. A!Resources = A!Taken({}, {}, {})
    BY DEF A!Resources, A!Taken
  <2> QED
    BY <1>1, <2>1, TakenUse, LoseKeeps
<1>2. CASE A!Lose(A!Taken({h}, {}, {}))
  BY <1>2, TakenUse, LoseKeeps
<1>3. CASE mapped # None /\ A!Hold(b, A!Held(b))
  <2>1. \/ mapped.fd = fd /\ mapped.data = map
        \/ mapped.fd = None /\ mapped.data = Failed
    BY <1>3 DEF A!drm_map
  <2>2. b.handle = h /\ b.fd = mapped.fd /\ b.data = mapped.data
        /\ b = [handle |-> h, fd |-> mapped.fd, data |-> mapped.data]
    BY DEF A!Buffer
  <2>3. b \in AnyBuffer /\ Handled(b)
    BY <2>1, <2>2 DEF AnyBuffer, Handled, Numbers
  <2>4. \A k \in Kinds : A!Held(b)[k] \intersect kernel[k] = {}
    <3>1. A!Real(b.handle) \subseteq {h} /\ A!Real(b.fd) \subseteq {fd} /\ A!Real(b.data) \subseteq {map}
      BY <2>1, <2>2 DEF A!Real
    <3> HIDE DEF b
    <3> QED
      BY <3>1, TakenUse DEF A!Held
  <2> HIDE DEF b
  <2> QED
    BY <1>3, <2>3, <2>4, HoldKeeps
<1> QED
  BY <1>1, <1>2, <1>3 DEF A!DrmNewBuffer

LEMMA IonNewKeeps ==
    ASSUME AllocInv, allocator = "ion", NEW len, NEW fails, NEW h, NEW fd, NEW map,
           Numbers(h, fd, map), A!IonNewBuffer(len, h, fd, map, fails),
           UNCHANGED <<devices, secure, allocator, stray>>
    PROVE  AllocInv'
<1> DEFINE mapped == A!ion_map_fd(fd, fails)
           b == A!Buffer(h, mapped, map)
<1>1. CASE A!Lose(A!Resources)
  <2>1. A!Resources = A!Taken({}, {}, {})
    BY DEF A!Resources, A!Taken
  <2> QED
    BY <1>1, <2>1, TakenUse, LoseKeeps
<1>2. mapped \in {fd, None}
  BY DEF A!ion_map_fd
<1>3. CASE A!Lose(A!Taken({h}, A!Real(mapped), {}))
  <2>1. A!Real(mapped) \in SUBSET {fd}
    BY <1>2 DEF A!Real
  <2> QED
    BY <1>3, <2>1, TakenUse, LoseKeeps
<1>4. CASE A!Hold(b, A!Held(b))
  <2>1. b = [handle |-> h, fd |-> mapped, data |-> map]
    BY DEF A!Buffer
  <2>2. b \in AnyBuffer /\ Handled(b)
    BY <1>2, <2>1 DEF AnyBuffer, Handled, Numbers
  <2>3. \A k \in Kinds : A!Held(b)[k] \intersect kernel[k] = {}
    <3>1. A!Real(b.handle) \subseteq {h} /\ A!Real(b.fd) \subseteq {fd} /\ A!Real(b.data) \subseteq {map}
      BY <1>2, <2>1 DEF A!Real
    <3> HIDE DEF b
    <3> QED
      BY <3>1, TakenUse DEF A!Held
  <2> HIDE DEF b
  <2> QED
    BY <1>4, <2>2, <2>3, HoldKeeps
<1> QED
  BY <1>1, <1>3, <1>4 DEF A!IonNewBuffer

LEMMA MallocNewKeeps ==
    ASSUME AllocInv, allocator = "malloc", NEW fails, NEW block \in Ids \ heap,
           A!MallocNewBuffer(block, fails), UNCHANGED <<devices, secure, allocator, stray>>
    PROVE  AllocInv'
<1> DEFINE b == A!Buffer(None, None, block)
<1>1. CASE A!Lose(A!Resources)
  <2>1. A!Resources \in Use /\ \A k \in Kinds : A!Resources[k] \intersect kernel[k] = {}
    BY DEF A!Resources, Use, Kinds
  <2> QED
    BY <1>1, <2>1, LoseKeeps
<1>2. CASE /\ heap' = heap \union {block} /\ buffers' = buffers \union {b}
           /\ UNCHANGED <<kernel, lost>>
  <2>1. b = [handle |-> None, fd |-> None, data |-> block]
    BY DEF A!Buffer
  <2>2. b \in AnyBuffer /\ Plain(b) /\ b.handle = None /\ A!Real(b.data) = {block}
    BY <2>1, AllocAssumption DEF AnyBuffer, Plain, A!Real
  <2>3. A!Held(b) = A!Taken({}, {}, {})
    BY <2>1 DEF A!Held, A!Real
  <2>4. \A k \in Kinds : A!Held(b)[k] = {}
    BY <2>3 DEF A!Taken, Kinds
  <2> HIDE DEF b
  <2>5. AllocTypeOK'
    BY <1>2, <2>2, AllocAssumption DEF AllocInv, AllocTypeOK
  <2>6. DOMAIN kernel = Kinds /\ kernel' = kernel /\ lost' = lost /\ stray' = stray
    BY <1>2 DEF AllocInv, AllocTypeOK, Use
  <2>7. \A k \in Kinds : UNION {A!Held(c)[k] : c \in buffers'} = UNION {A!Held(c)[k] : c \in buffers}
    BY <1>2, <2>4
  <2>8. heap' = UNION {IF c.handle = None THEN A!Real(c.data) ELSE {} : c \in buffers'}
    <3>1. heap = UNION {IF c.handle = None THEN A!Real(c.data) ELSE {} : c \in buffers}
      BY DEF AllocInv, A!HeldByBuffers
    <3> QED
      BY <3>1, <1>2, <2>2
  <2>9. A!HeldByBuffers'
    BY <1>2, <2>4, <2>6, <2>7, <2>8 DEF AllocInv, A!HeldByBuffers
  <2> QED
    BY <2>5, <2>9 DEF AllocInv
<1> QED
  BY <1>1, <1>2 DEF A!MallocNewBuffer

LEMMA NewBufferKeeps == ASSUME AllocInv, NEW len, A!newBuffer(len) PROVE AllocInv'
<1> PICK fails \in A!Requests :
        /\ \A k \in DOMAIN kernel : A!Free(kernel[k]) # {}
        /\ LET h == A!Min(A!Free(kernel.handles))
               fd == A!Min(A!Free(kernel.fds))
               map == A!Min(A!Free(kernel.maps))
           IN  \/ allocator = "drm" /\ A!DrmNewBuffer(len, h, fd, map, fails)
               \/ allocator = "ion" /\ A!IonNewBuffer(len, h, fd, map, fails)
               \/ /\ allocator = "malloc" /\ A!Free(heap) # {}
                  /\ A!MallocNewBuffer(A!Min(A!Free(heap)), fails)
  BY DEF A!newBuffer
<1> DEFINE h == A!Min(A!Free(kernel.handles))
           fd == A!Min(A!Free(kernel.fds))
           map == A!Min(A!Free(kernel.maps))
<1>1. UNCHANGED <<devices, secure, allocator, stray>>
  BY DEF A!newBuffer
<1>2. /\ kernel.handles \in SUBSET Ids /\ kernel.fds \in SUBSET Ids /\ kernel.maps \in SUBSET Ids
      /\ A!Free(kernel.handles) # {} /\ A!Free(kernel.fds) # {} /\ A!Free(kernel.maps) # {}
  BY DEF AllocInv, AllocTypeOK, Use, Kinds
<1>3. Numbers(h, fd, map)
  BY <1>2, FreeNumber DEF Numbers
<1>4. CASE allocator = "drm"
  <2>1. A!DrmNewBuffer(len, h, fd, map, fails)
    BY <1>4
  <2> HIDE DEF h, fd, map
  <2> QED
    BY <2>1, <1>1, <1>3, <1>4, DrmNewKeeps
<1>5. CASE allocator = "ion"
  <2>1. A!IonNewBuffer(len, h, fd, map, fails)
    BY <1>5
  <2> HIDE DEF h, fd, map
  <2> QED
    BY <2>1, <1>1, <1>3, <1>5, IonNewKeeps
<1>6. CASE allocator = "malloc"
  <2>1. A!Min(A!Free(heap)) \in Ids \ heap
    BY <1>6, FreeNumber DEF AllocInv, AllocTypeOK
  <2>2. A!MallocNewBuffer(A!Min(A!Free(heap)), fails)
    BY <1>6
  <2> QED
    BY <2>1, <2>2, <1>1, <1>6, MallocNewKeeps
<1> QED
  BY <1>4, <1>5, <1>6

LEMMA FreeBufferKeeps == ASSUME AllocInv, NEW b \in buffers, A!freeBuffer(b) PROVE AllocInv'
<1>1. UNCHANGED <<devices, secure, allocator>>
  BY DEF A!freeBuffer
<1>2. b \in AnyBuffer /\ A!Held(b) \in Use
  BY HeldUse DEF AllocInv, AllocTypeOK
<1>3. ASSUME NEW some \in SUBSET A!Held(b).handles
      PROVE  /\ [A!Held(b) EXCEPT !.handles = some] \in Use
             /\ \A k \in Kinds : [A!Held(b) EXCEPT !.handles = some][k] \subseteq A!Held(b)[k]
  BY <1>2, <1>3 DEF Use, Kinds
<1>4. ASSUME NEW fails \in BOOLEAN, A!DrmFreeBuffer(b, fails), allocator = "drm"
      PROVE  AllocInv'
  <2> DEFINE some == IF A!drm_free(fails) THEN A!Held(b).handles ELSE {}
  <2>1. some \in SUBSET A!Held(b).handles
    OBVIOUS
  <2>2. A!GiveBack(b, [A!Held(b) EXCEPT !.handles = some]) /\ UNCHANGED heap
    BY <1>4 DEF A!DrmFreeBuffer
  <2> HIDE DEF some
  <2> QED
    BY <1>1, <1>3, <1>4, <2>1, <2>2, GiveBackKeeps
<1>5. ASSUME NEW fails \in BOOLEAN, A!IonFreeBuffer(b, fails), allocator = "ion"
      PROVE  AllocInv'
  <2> DEFINE some == IF A!ion_free(fails) THEN A!Held(b).handles ELSE {}
  <2>1. some \in SUBSET A!Held(b).handles
    OBVIOUS
  <2>2. A!GiveBack(b, [A!Held(b) EXCEPT !.handles = some]) /\ UNCHANGED heap
    BY <1>5 DEF A!IonFreeBuffer
  <2> HIDE DEF some
  <2> QED
    BY <1>1, <1>3, <1>5, <2>1, <2>2, GiveBackKeeps
<1>6. ASSUME A!FreeMalloc(b), allocator = "malloc"
      PROVE  AllocInv'
  <2>1. /\ heap' = heap \ A!Real(b.data) /\ buffers' = buffers \ {b}
        /\ kernel' = kernel /\ lost' = lost /\ stray' = stray
    BY <1>6 DEF A!FreeMalloc
  <2>2. AllocTypeOK'
    BY <1>1, <1>6, <2>1, AllocAssumption DEF AllocInv, AllocTypeOK
  <2>3. DOMAIN kernel = Kinds
    BY DEF AllocInv, AllocTypeOK, Use
  <2>4. \A c \in buffers : c.handle = None /\ c = [handle |-> None, fd |-> None, data |-> c.data]
                           /\ A!Real(c.data) = {c.data}
    BY <1>6, AllocAssumption DEF AllocInv, AllocTypeOK, Plain, AnyBuffer, A!Real
  <2>5. \A c \in buffers : \A k \in Kinds : A!Held(c)[k] = {}
    BY <2>4 DEF A!Held, A!Real, A!Taken, Kinds
  <2>6. \A k \in Kinds : UNION {A!Held(c)[k] : c \in buffers'} = UNION {A!Held(c)[k] : c \in buffers}
    BY <2>1, <2>5
  <2>7. heap = {c.data : c \in buffers}
    BY <2>4 DEF AllocInv, A!HeldByBuffers
  <2>8. \A c \in buffers : c # b => c.data # b.data
    BY <2>4
  <2>9. heap' = {c.data : c \in buffers'}
    BY <2>1, <2>4, <2>7, <2>8
  <2>10. heap' = UNION {IF c.handle = None THEN A!Real(c.data) ELSE {} : c \in buffers'}
    BY <2>1, <2>4, <2>9
  <2>11. A!HeldByBuffers'
    BY <2>1, <2>3, <2>5, <2>6, <2>10 DEF AllocInv, A!HeldByBuffers
  <2> QED
    BY <2>2, <2>11 DEF AllocInv
<1> QED
  BY <1>4, <1>5, <1>6 DEF A!freeBuffer

LEMMA AllocStep == ASSUME AllocInv, A!AllocNext PROVE AllocInv'
BY FetchKeeps, DeinitKeeps, NewBufferKeeps, FreeBufferKeeps DEF A!AllocNext

(* The other parts leave the allocators alone.                             *)
LEMMA AllocStays == ASSUME AllocInv, UNCHANGED allocVars PROVE AllocInv'
<1>1. UNCHANGED <<allocator, kernel, heap, buffers, lost, stray>>
  BY DEF allocVars
<1> QED
  BY <1>1 DEF AllocInv, AllocTypeOK, A!HeldByBuffers

(* HeldByBuffers: frees undo what allocations took.                        *)
THEOREM ResourcesAreHeld == LibrarySpec => []HeldByBuffers
<1>1. LibraryInit => AllocInv
  BY AllocStart DEF LibraryInit
<1>2. AllocInv /\ [LibraryNext]_<<part, kernelVars, listsVars, memoryVars, allocatorVars, conversionVars>> => AllocInv'
  <2> SUFFICES ASSUME AllocInv, LibraryNext \/ UNCHANGED allocatorVars PROVE AllocInv'
    BY DEF allocatorVars
  <2> QED
    BY AllocStep, AllocStays DEF LibraryNext, allocVars, allocatorVars
<1>3. AllocInv => HeldByBuffers
  BY DEF AllocInv, HeldByBuffers
<1> QED
  BY <1>1, <1>2, <1>3, PTL DEF LibrarySpec

-----------------------------------------------------------------------------
(* What was put into the buffer is all that it tells of.                   *)
CarryInv ==
    /\ puts \in Nat /\ put.kind \in {"none", "packet", "frame"} /\ put.number \in Nat
    /\ DOMAIN buffer = {"data", "meta"}
    /\ put.kind = "packet" => buffer = [data |-> put.number, meta |-> C!Stored(C!PacketFields, put.number)]
    /\ put.kind = "frame" =>
          buffer = [data |-> put.number, meta |-> C!Stored(C!FrameFields \union C!FrameOnly, put.number)]

(* The pointers stand where the line and the column say.                   *)
PaintInv ==
    LET w == picture.width
        h == picture.height
    IN  /\ picture \in [width : Sizes, height : Sizes]
        /\ at \in [iy : Nat, ix : Nat, y : Nat, u : Nat, v : Nat]
        /\ at.iy <= h /\ at.ix <= w /\ at.ix % 2 = 0 /\ (at.iy = h => at.ix = 0)
        /\ dest \in Seq(Int \X Int \X Int) /\ Len(dest) = at.y
        /\ at.y = at.iy * w + at.ix
        /\ at.u = h * w + (at.iy \div 2) * (w \div 2) + at.ix \div 2
        /\ at.v = at.u + (h * w) \div 4

ConvInv == CarryInv /\ PaintInv /\ C!PixelsPlaced /\ C!ColoursNear

-----------------------------------------------------------------------------
(* Searching a table: the only row with x is the one that is found.        *)
LEMMA TranslateRow ==
    ASSUME NEW table_, NEW from, NEW to, NEW x, NEW default,
           DOMAIN table_ \subseteq Int, NEW i \in DOMAIN table_, table_[i][from] = x,
           \A j \in DOMAIN table_ : table_[j][from] = x => j = i
    PROVE  C!Translate(table_, from, to, x, default) = table_[i][to]
<1> DEFINE rows == {j \in DOMAIN table_ : table_[j][from] = x}
<1>1. rows = {i}
  OBVIOUS
<1>2. (CHOOSE k \in rows : \A j \in rows : k <= j) = i
  BY <1>1
<1> QED
  BY <1>1, <1>2 DEF C!Translate

LEMMA TranslateNone ==
    ASSUME NEW table_, NEW from, NEW to, NEW default, NEW x,
           \A j \in DOMAIN table_ : table_[j][from] # x
    PROVE  C!Translate(table_, from, to, x, default) = default
BY DEF C!Translate

LEMMA FdTable ==
    ASSUME NEW T, T = C!kFdCodecMappingList
    PROVE  /\ DOMAIN T \subseteq Int
           /\ \A i, j \in DOMAIN T : i # j => T[i][1] # T[j][1] /\ T[i][2] # T[j][2]
           /\ \A i \in DOMAIN T : T[i][1] # "Unused" /\ T[i][2] \notin {"NONE", "OPUS", "AV1"}
BY DEF C!kFdCodecMappingList

LEMMA MaTable ==
    ASSUME NEW T, T = C!kMACodecIDMappingList
    PROVE  /\ DOMAIN T \subseteq Int
           /\ \A i, j \in DOMAIN T : i # j => T[i][1] # T[j][1] /\ T[i][2] # T[j][2]
           /\ \A i \in DOMAIN T : T[i][1] # "Unused" /\ T[i][2] # "CodingUnused"
BY DEF C!kMACodecIDMappingList

(* A codec of FFmpeg that is in the table comes back as what it was, and   *)
(* another is no codec at all.                                             *)
LEMMA SoftwareRow ==
    ASSUME NEW T, T = C!kFdCodecMappingList, NEW i \in DOMAIN T
    PROVE  /\ C!fa_utils_to_rt_codec_id(T[i][2]) = T[i][1]
           /\ C!Software(T[i][2]) = T[i][2]
<1>0. DOMAIN T \subseteq Int 
  BY FdTable
<1>1. \A j \in DOMAIN T : T[j][2] = T[i][2] => j = i
  BY FdTable
<1>2. \A j \in DOMAIN T : T[j][1] = T[i][1] => j = i
  BY FdTable
<1>3. C!Translate(T, 2, 1, T[i][2], "Unused") = T[i][1]
  BY <1>0, <1>1, TranslateRow
<1>4. C!Translate(T, 1, 2, T[i][1], "NONE") = T[i][2]
  BY <1>0, <1>2, TranslateRow
<1> QED
  BY <1>3, <1>4 DEF C!Software, C!fa_utils_to_rt_codec_id, C!fa_utils_to_av_codec_id

LEMMA SoftwareNone ==
    ASSUME NEW av \in {"OPUS", "AV1"}
    PROVE  C!Software(av) = "NONE" /\ C!Hardware(av) = "CodingUnused"
<1> DEFINE T == C!kFdCodecMappingList
           U == C!kMACodecIDMappingList
<1>1. /\ \A j \in DOMAIN T : T[j][2] # av /\ T[j][1] # "Unused"
      /\ \A j \in DOMAIN U : U[j][1] # "Unused"
  BY FdTable, MaTable
<1> HIDE DEF T, U
<1>2. C!Translate(T, 2, 1, av, "Unused") = "Unused"
  BY <1>1, TranslateNone
<1>3. C!Translate(T, 1, 2, "Unused", "NONE") = "NONE"
  BY <1>1, TranslateNone
<1>4. C!Translate(U, 1, 2, "Unused", "CodingUnused") = "CodingUnused"
  BY <1>1, TranslateNone
<1> QED
  BY <1>2, <1>3, <1>4 DEF T, U, C!Software, C!Hardware, C!fa_utils_to_rt_codec_id,
     C!fa_utils_to_av_codec_id, C!ma_rt_to_mpp_codec_id

(* Only one codec of Rockit has a coding of mpp.                           *)
LEMMA HardwareRow ==
    ASSUME NEW rt, C!ma_rt_to_mpp_codec_id(rt) # "CodingUnused",
           NEW T, T = C!kMACodecIDMappingList
    PROVE  \E i \in DOMAIN T : T[i][1] = rt /\ C!ma_rt_to_mpp_codec_id(rt) = T[i][2]
<1>1. PICK i \in DOMAIN T : T[i][1] = rt
  BY TranslateNone DEF C!ma_rt_to_mpp_codec_id
<1>2. \A j \in DOMAIN T : T[j][1] = rt => j = i
  BY <1>1, MaTable
<1>3. C!Translate(T, 1, 2, rt, "CodingUnused") = T[i][2]
  BY <1>1, <1>2, MaTable, TranslateRow
<1> QED
  BY <1>1, <1>3 DEF C!ma_rt_to_mpp_codec_id

LEMMA HardwareOne ==
    ASSUME NEW rt, NEW other, C!ma_rt_to_mpp_codec_id(rt) = C!ma_rt_to_mpp_codec_id(other),
           C!ma_rt_to_mpp_codec_id(rt) # "CodingUnused"
    PROVE  rt = other
<1> DEFINE T == C!kMACodecIDMappingList
<1>1. PICK i \in DOMAIN T : T[i][1] = rt /\ C!ma_rt_to_mpp_codec_id(rt) = T[i][2]
  BY HardwareRow
<1>2. PICK j \in DOMAIN T : T[j][1] = other /\ C!ma_rt_to_mpp_codec_id(other) = T[j][2]
  BY HardwareRow
<1>3. i = j
  BY <1>1, <1>2, MaTable
<1> QED
  BY <1>1, <1>2, <1>3

LEMMA CodecsAreReached == C!CodecsReached
<1> DEFINE T == C!kFdCodecMappingList
<1>1. \A a \in C!AvCodecs : a \in {"OPUS", "AV1"} \/ \E i \in DOMAIN T : a = T[i][2]
  BY DEF C!AvCodecs
<1>2. \A i \in DOMAIN T : T[i][2] # "NONE"
  BY FdTable
<1> HIDE DEF T
<1>3. ASSUME NEW a \in C!AvCodecs
      PROVE  C!Software(a) \in {a, "NONE"} /\ (C!Software(a) = "NONE" => C!Hardware(a) = "CodingUnused")
  <2>1. CASE a \in {"OPUS", "AV1"}
    BY <2>1, SoftwareNone
  <2>2. CASE \E i \in DOMAIN T : a = T[i][2]
    <3>1. C!Software(a) = a
      BY <2>2, SoftwareRow DEF T
    <3> QED
      BY <3>1, <2>2, <1>2
  <2> QED
    BY <1>1, <2>1, <2>2
<1>4. ASSUME NEW a \in C!AvCodecs, NEW b \in C!AvCodecs \ {a}, C!Hardware(a) = C!Hardware(b),
             C!Hardware(a) # "CodingUnused"
      PROVE  FALSE
  <2>1. PICK i \in DOMAIN T : a = T[i][2]
    BY <1>1, <1>4, SoftwareNone
  <2>2. PICK j \in DOMAIN T : b = T[j][2]
    BY <1>1, <1>4, SoftwareNone
  <2>3. C!fa_utils_to_rt_codec_id(a) = C!fa_utils_to_rt_codec_id(b)
    BY <1>4, HardwareOne DEF C!Hardware
  <2>4. T[i][1] = T[j][1]
    BY <2>1, <2>2, <2>3, SoftwareRow DEF T
  <2>5. i = j
    BY <2>4, FdTable DEF T
  <2> QED
    BY <2>1, <2>2, <2>5
<1> QED
  BY <1>3, <1>4 DEF C!CodecsReached

LEMMA EncoderIsAsked == C!EncoderAsked
<1> DEFINE F == C!kMAFormatMappingList
           R == C!kMARCModeMappingList
<1>1. /\ DOMAIN F = {1, 2} /\ F[1][1] = "YUV420SP" /\ F[1][2] = "FMT_YUV420SP"
      /\ F[2][1] = "YUV420P" /\ F[2][2] = "FMT_YUV420P"
  BY DEF C!kMAFormatMappingList
<1>2. /\ DOMAIN R = {1, 2, 3} /\ R[1][1] = "CBR" /\ R[1][2] = "MODE_CBR"
      /\ R[2][1] = "VBR" /\ R[2][2] = "MODE_VBR" /\ R[3][1] = "CQP" /\ R[3][2] = "MODE_VBR"
  BY DEF C!kMARCModeMappingList
<1> HIDE DEF F, R
<1>3. C!Translate(F, 1, 2, "YUV420SP", "FMT_YUV420SP") = "FMT_YUV420SP"
  BY <1>1, TranslateRow
<1>4. C!Translate(F, 1, 2, "YUV420P", "FMT_YUV420SP") = "FMT_YUV420P"
  BY <1>1, TranslateRow
<1>5. C!Translate(R, 1, 2, "CBR", "MODE_VBR") = "MODE_CBR"
  BY <1>2, TranslateRow
<1>6. C!Translate(R, 1, 2, "VBR", "MODE_VBR") = "MODE_VBR"
  BY <1>2, TranslateRow
<1>7. C!Translate(R, 1, 2, "CQP", "MODE_VBR") = "MODE_VBR"
  BY <1>2, TranslateRow
<1>8. C!Translate(R, 1, 2, "DISABLE", "MODE_VBR") = "MODE_VBR"
  BY <1>2, TranslateNone
<1> QED
  BY <1>3, <1>4, <1>5, <1>6, <1>7, <1>8 DEF F, R, C!EncoderAsked,
     C!ma_rt_to_mpp_color_format, C!ma_rt_to_mpp_rc_mode

-----------------------------------------------------------------------------
(* What a buffer carries.                                                  *)
LEMMA CarryStart == C!Init => CarryInv
BY DEF C!Init, C!setData, CarryInv

LEMMA CarryKeeps == ASSUME CarryInv, C!Carry PROVE CarryInv'
<1>0. puts' = puts + 1 /\ puts \in Nat /\ DOMAIN buffer = {"data", "meta"}
  BY DEF C!Carry, CarryInv
<1>1. CASE C!PutPacket
  <2>1. buffer' = [C!setData(puts + 1) EXCEPT !.meta = C!Stored(C!PacketFields, puts + 1)]
    <3>1. C!setData(puts + 1).meta = C!Stored({}, puts + 1)
      BY DEF C!setData
    <3>2. DOMAIN C!Stored({}, puts + 1) = {}
      BY DEF C!Stored
    <3> QED
      BY <1>1, <3>1, <3>2 DEF C!PutPacket, C!rt_mediabuf_from_packet, C!Stored
  <2>2. buffer' = [data |-> puts + 1, meta |-> C!Stored(C!PacketFields, puts + 1)]
    BY <2>1 DEF C!setData
  <2> QED
    BY <1>0, <1>1, <2>2 DEF C!PutPacket, CarryInv
<1>2. CASE C!PutFrame
  <2>1. buffer' = [data |-> puts + 1, meta |-> C!Stored(C!FrameFields \union C!FrameOnly, puts + 1)]
    BY <1>2 DEF C!PutFrame, C!rt_mediabuf_from_frame, C!setData
  <2> QED
    BY <1>0, <1>2, <2>1 DEF C!PutFrame, CarryInv
<1> QED
  BY <1>1, <1>2 DEF C!Carry

LEMMA CarryWhole == CarryInv => C!CarriedWhole
<1> SUFFICES ASSUME CarryInv PROVE C!CarriedWhole
  OBVIOUS
<1> DEFINE fields == C!FrameFields \union C!FrameOnly
<1>1. CASE put.kind = "frame"
  <2>1. buffer = [data |-> put.number, meta |-> C!Stored(fields, put.number)]
    BY <1>1 DEF CarryInv
  <2>2. DOMAIN buffer.meta = fields /\ \A f \in fields : buffer.meta[f] = put.number
    BY <2>1 DEF C!Stored
  <2>3. \A f \in DOMAIN C!rt_mediabuf_goto_frame(buffer) : C!rt_mediabuf_goto_frame(buffer)[f] = put.number
    BY <2>1, <2>2 DEF C!rt_mediabuf_goto_frame
  <2>4. C!PacketFields \intersect fields = {}
    BY DEF C!PacketFields, C!FrameFields, C!FrameOnly
  <2>5. C!rt_mediabuf_goto_packet(buffer, C!Stored(C!PacketFields, -1)) = C!Stored(C!PacketFields, -1)
    BY <2>2, <2>4 DEF C!rt_mediabuf_goto_packet, C!Stored
  <2> QED
    BY <1>1, <2>3, <2>5 DEF C!CarriedWhole
<1>2. CASE put.kind = "packet"
  <2>1. buffer.meta = C!Stored(C!PacketFields, put.number)
    BY <1>2 DEF CarryInv
  <2>2. C!rt_mediabuf_goto_packet(buffer, C!Stored(C!PacketFields, -1)) = C!Stored(C!PacketFields, put.number)
    BY <2>1 DEF C!rt_mediabuf_goto_packet, C!Stored
  <2> QED
    BY <1>2, <2>2 DEF C!CarriedWhole
<1> QED
  BY <1>1, <1>2 DEF C!CarriedWhole

-----------------------------------------------------------------------------
(* The colours of a pixel, for every byte of Y, U and V.                   *)
LEMMA PixelNear ==
    ASSUME NEW y \in Int, NEW u \in Int, NEW v \in Int,
           0 <= y, y <= 255, 0 <= u, u <= 255, 0 <= v, v <= 255
    PROVE  /\ C!Near(C!YUV2R(y, u, v), 1000 * y + 1402 * (v - 128))
           /\ C!Near(C!YUV2G(y, u, v), 1000 * y - 344 * (u - 128) - 714 * (v - 128))
           /\ C!Near(C!YUV2B(y, u, v), 1000 * y + 1772 * (u - 128))
<1> DEFINE r == ((v - 128) * 1436) \div 1024
           g == ((u - 128) * 352 + (v - 128) * 731) \div 1024
           b == ((u - 128) * 1814) \div 1024
<1>1. r \in Int /\ 1024 * r <= (v - 128) * 1436 /\ (v - 128) * 1436 < 1024 * r + 1024
  OBVIOUS
<1>2. g \in Int /\ 1024 * g <= (u - 128) * 352 + (v - 128) * 731
      /\ (u - 128) * 352 + (v - 128) * 731 < 1024 * g + 1024
  OBVIOUS
<1>3. b \in Int /\ 1024 * b <= (u - 128) * 1814 /\ (u - 128) * 1814 < 1024 * b + 1024
  OBVIOUS
<1>4. /\ C!YUV2R(y, u, v) = C!Clamp(y + r) /\ C!YUV2G(y, u, v) = C!Clamp(y - g)
      /\ C!YUV2B(y, u, v) = C!Clamp(y + b)
  BY DEF C!YUV2R, C!YUV2G, C!YUV2B
<1> HIDE DEF r, g, b
<1>5. C!Near(C!Clamp(y + r), 1000 * y + 1402 * (v - 128))
  BY <1>1 DEF C!Near, C!Clamp
<1>6. C!Near(C!Clamp(y - g), 1000 * y - 344 * (u - 128) - 714 * (v - 128))
  BY <1>2 DEF C!Near, C!Clamp
<1>7. C!Near(C!Clamp(y + b), 1000 * y + 1772 * (u - 128))
  BY <1>3 DEF C!Near, C!Clamp
<1> QED
  BY <1>4, <1>5, <1>6, <1>7

LEMMA ColoursKeep == ASSUME C!PaintPair PROVE C!ColoursNear'
<1>1. PICK y1 \in Samples, y2 \in Samples, u \in Samples, v \in Samples :
          colours' = {C!Pixel(y1, u, v), C!Pixel(y2, u, v)}
  BY DEF C!PaintPair
<1>2. ASSUME NEW y \in Samples, NEW p, p = C!Pixel(y, u, v)
      PROVE  /\ C!Near(p.rgb[1], 1000 * p.of[1] + 1402 * (p.of[3] - 128))
             /\ C!Near(p.rgb[2], 1000 * p.of[1] - 344 * (p.of[2] - 128) - 714 * (p.of[3] - 128))
             /\ C!Near(p.rgb[3], 1000 * p.of[1] + 1772 * (p.of[2] - 128))
  <2>1. /\ p.of[1] = y /\ p.of[2] = u /\ p.of[3] = v
        /\ p.rgb[1] = C!YUV2R(y, u, v) /\ p.rgb[2] = C!YUV2G(y, u, v) /\ p.rgb[3] = C!YUV2B(y, u, v)
    BY <1>2 DEF C!Pixel
  <2>2. /\ y \in Int /\ u \in Int /\ v \in Int
        /\ 0 <= y /\ y <= 255 /\ 0 <= u /\ u <= 255 /\ 0 <= v /\ v <= 255
    BY SamplesAssumption
  <2> QED
    BY <2>1, <2>2, PixelNear
<1> QED
  BY <1>1, <1>2 DEF C!ColoursNear

-----------------------------------------------------------------------------
(* The place of a pixel.                                                   *)
LEMMA Divides ==
    ASSUME NEW w \in Nat \ {0}, NEW q \in Nat, NEW r \in Nat, r < w
    PROVE  (q * w + r) \div w = q /\ (q * w + r) % w = r
OBVIOUS

(* A line more, as long as there is one.                                   *)
LEMMA LineFits ==
    ASSUME NEW w \in Nat, NEW h \in Nat, NEW q \in Nat, q < h
    PROVE  q * w + w <= h * w
OBVIOUS

LEMMA PaintStart ==
    ASSUME C!Init PROVE PaintInv /\ C!PixelsPlaced /\ C!ColoursNear
<1> DEFINE w == picture.width
           h == picture.height
<1>1. w \in Nat \ {0} /\ h \in Nat \ {0} /\ picture \in [width : Sizes, height : Sizes]
  BY SamplesAssumption DEF C!Init
<1>2. at = [iy |-> 0, ix |-> 0, y |-> 0, u |-> w * h, v |-> w * h + (w * h) \div 4]
  BY DEF C!Init, C!Begin
<1>3. w * h = h * w /\ h * w \in Nat /\ (h * w) \div 4 \in Nat
  BY <1>1
<1>4. dest = <<>> /\ colours = {}
  BY DEF C!Init
<1>5. PaintInv
  <2> HIDE DEF w, h
  <2>1. at \in [iy : Nat, ix : Nat, y : Nat, u : Nat, v : Nat]
    BY <1>2, <1>3
  <2>2. dest \in Seq(Int \X Int \X Int) /\ Len(dest) = 0
    BY <1>4, EmptySeq
  <2> QED
    BY <1>1, <1>2, <1>3, <2>1, <2>2 DEF PaintInv, w, h
<1> QED
  BY <1>4, <1>5 DEF C!PixelsPlaced, C!ColoursNear

LEMMA NextColumn ==
    ASSUME NEW x \in Nat, NEW w \in Nat, x % 2 = 0, w % 2 = 0, x < w
    PROVE  /\ x + 2 <= w /\ (x + 2) % 2 = 0 /\ (x + 2) \div 2 = x \div 2 + 1
           /\ (x + 1) \div 2 = x \div 2 /\ x + 1 < w
OBVIOUS

LEMMA NextHalf ==
    ASSUME NEW i \in Nat
    PROVE  /\ i % 2 = 0 => (i + 1) \div 2 = i \div 2
           /\ i % 2 # 0 => (i + 1) \div 2 = i \div 2 + 1
OBVIOUS

(* The samples pointed at, where they are naturals.                         *)
Pointers == [iy : Nat, ix : Nat, y : Nat, u : Nat, v : Nat]

LEMMA PairMoves ==
    ASSUME NEW r, r \in Pointers, NEW s, s = [r EXCEPT !.ix = @ + 2, !.y = @ + 2, !.u = @ + 1, !.v = @ + 1]
    PROVE  s.iy = r.iy /\ s.ix = r.ix + 2 /\ s.y = r.y + 2 /\ s.u = r.u + 1 /\ s.v = r.v + 1
           /\ s \in Pointers
<1>1. s = [iy |-> r.iy, ix |-> r.ix + 2, y |-> r.y + 2, u |-> r.u + 1, v |-> r.v + 1]
  BY DEF Pointers
<1>2. r.iy \in Nat /\ r.ix \in Nat /\ r.y \in Nat /\ r.u \in Nat /\ r.v \in Nat
  BY DEF Pointers
<1> QED
  BY ONLY <1>1, <1>2 DEF Pointers

LEMMA LineMoves ==
    ASSUME NEW r, r \in Pointers, NEW b, r.u - b \in Nat, r.v - b \in Nat,
           NEW s, s = [r EXCEPT !.iy = @ + 1, !.ix = 0, !.u = @ - b, !.v = @ - b]
    PROVE  s.iy = r.iy + 1 /\ s.ix = 0 /\ s.y = r.y /\ s.u = r.u - b /\ s.v = r.v - b
           /\ s \in Pointers
<1>1. s = [iy |-> r.iy + 1, ix |-> 0, y |-> r.y, u |-> r.u - b, v |-> r.v - b]
  BY DEF Pointers
<1>2. r.iy + 1 \in Nat /\ 0 \in Nat /\ r.y \in Nat
  BY DEF Pointers
<1> QED
  BY ONLY <1>1, <1>2, r.u - b \in Nat, r.v - b \in Nat DEF Pointers

LEMMA TwoMore ==
    ASSUME NEW S, NEW s \in Seq(S), NEW a \in S, NEW b \in S, NEW m \in Nat, Len(s) = m
    PROVE  /\ s \o <<a, b>> \in Seq(S) /\ Len(s \o <<a, b>>) = m + 2
           /\ \A n \in 1..m : (s \o <<a, b>>)[n] = s[n]
           /\ (s \o <<a, b>>)[m + 1] = a /\ (s \o <<a, b>>)[m + 2] = b
           /\ DOMAIN s = 1..m /\ DOMAIN (s \o <<a, b>>) = 1..m + 2
OBVIOUS

LEMMA PaintPairKeeps ==
    ASSUME PaintInv, C!PixelsPlaced, C!PaintPair, UNCHANGED picture
    PROVE  PaintInv' /\ C!PixelsPlaced'
<1> DEFINE w == picture.width
           h == picture.height
           e1 == <<at.y, at.u, at.v>>
           e2 == <<at.y + 1, at.u, at.v>>
           line == at.iy * w
           size == h * w
           above == (at.iy \div 2) * (w \div 2)
           half == at.ix \div 2
           quarter == (h * w) \div 4
<1>1. /\ w \in Nat \ {0} /\ h \in Nat \ {0} /\ w % 2 = 0
      /\ picture \in [width : Sizes, height : Sizes]
  BY SamplesAssumption DEF PaintInv
<1>2. /\ at.iy \in Nat /\ at.ix \in Nat /\ at.y \in Nat /\ at.u \in Nat /\ at.v \in Nat
      /\ at.iy < h /\ at.ix < w /\ at.ix % 2 = 0
      /\ at.y = line + at.ix /\ at.u = size + above + half /\ at.v = at.u + quarter
      /\ at \in [iy : Nat, ix : Nat, y : Nat, u : Nat, v : Nat]
  BY DEF PaintInv, C!PaintPair
<1>3. line \in Nat /\ size \in Nat /\ above \in Nat /\ half \in Nat /\ quarter \in Nat
  BY <1>1, <1>2
<1>4. line + w <= size
  BY <1>1, <1>2, LineFits
<1>5. w * h = size
  BY <1>1
<1>6. at' = [at EXCEPT !.ix = @ + 2, !.y = @ + 2, !.u = @ + 1, !.v = @ + 1]
  BY DEF C!PaintPair
<1>7. dest \in Seq(Int \X Int \X Int) /\ Len(dest) = at.y
  BY DEF PaintInv
<1>8. dest' = dest \o <<e1, e2>>
  BY DEF C!PaintPair
<1>9. (line + at.ix) \div w = at.iy /\ (line + at.ix) % w = at.ix
  BY <1>1, <1>2, Divides
<1>10. at.ix + 2 <= w /\ (at.ix + 2) % 2 = 0 /\ (at.ix + 2) \div 2 = half + 1
       /\ (at.ix + 1) \div 2 = half /\ at.ix + 1 < w
  BY ONLY <1>1, <1>2, NextColumn
<1>11. (line + (at.ix + 1)) \div w = at.iy /\ (line + (at.ix + 1)) % w = at.ix + 1
  <2>1. at.ix + 1 \in Nat /\ at.ix + 1 < w /\ at.iy \in Nat /\ w \in Nat \ {0}
    BY ONLY <1>1, <1>2, <1>10
  <2> DEFINE r == at.ix + 1
  <2> HIDE DEF r, w
  <2>2. (at.iy * w + r) \div w = at.iy /\ (at.iy * w + r) % w = r
    BY ONLY <2>1, Divides DEF r
  <2> QED
    BY ONLY <2>2 DEF r, line
<1> HIDE DEF line, size, above, half, quarter
<1>12. e1 \in Int \X Int \X Int /\ e2 \in Int \X Int \X Int
  BY <1>2
<1>13. /\ at'.iy = at.iy /\ at'.ix = at.ix + 2 /\ at'.y = at.y + 2 /\ at'.u = at.u + 1
       /\ at'.v = at.v + 1 /\ at' \in [iy : Nat, ix : Nat, y : Nat, u : Nat, v : Nat]
  BY ONLY <1>2, <1>6, PairMoves DEF Pointers
<1> DEFINE Shared(n) == (((n - 1) \div w) \div 2) * (w \div 2) + ((n - 1) % w) \div 2
           Placed(n, p) == n <= size /\ p = <<n - 1, size + Shared(n), size + quarter + Shared(n)>>
<1>14. \A n \in DOMAIN dest : Placed(n, dest[n])
  BY <1>5 DEF C!PixelsPlaced, size, quarter
<1>15. Shared(at.y + 1) = above + half
  <2>1. (at.y + 1) - 1 = line + at.ix
    BY ONLY <1>2, <1>3
  <2> QED
    BY ONLY <2>1, <1>9 DEF above, half
<1>16. Shared(at.y + 2) = above + half
  <2>1. (at.y + 2) - 1 = line + (at.ix + 1)
    BY ONLY <1>2, <1>3
  <2> QED
    BY ONLY <2>1, <1>10, <1>11 DEF above
<1> HIDE DEF Shared
<1>17. Placed(at.y + 1, e1) /\ Placed(at.y + 2, e2)
  <2>1. at.y + 2 <= size
    <3>1. at.y = line + at.ix /\ at.ix + 2 <= w /\ line \in Nat /\ at.ix \in Nat /\ w \in Nat /\ size \in Nat
      BY ONLY <1>1, <1>2, <1>3, <1>10
    <3> HIDE DEF w
    <3> QED
      BY ONLY <3>1, <1>4
  <2>2. (at.y + 1) - 1 = at.y /\ (at.y + 2) - 1 = at.y + 1 /\ at.y + 1 <= size
    BY ONLY <1>2, <1>3, <2>1
  <2>3. at.u = size + Shared(at.y + 1) /\ at.u = size + Shared(at.y + 2)
    BY ONLY <1>2, <1>3, <1>15, <1>16
  <2>4. at.v = size + quarter + Shared(at.y + 1) /\ at.v = size + quarter + Shared(at.y + 2)
    BY ONLY <1>2, <1>3, <1>15, <1>16
  <2> QED
    BY <2>1, <2>2, <2>3, <2>4
<1> HIDE DEF Placed, e1, e2
<1>18. at.y \in Nat /\ at.y + 2 \in Nat
  BY ONLY <1>2
<1>19. /\ dest' \in Seq(Int \X Int \X Int) /\ Len(dest') = at.y + 2
       /\ \A n \in 1..at.y : dest'[n] = dest[n]
       /\ dest'[at.y + 1] = e1 /\ dest'[at.y + 2] = e2
       /\ DOMAIN dest = 1..at.y /\ DOMAIN dest' = 1..at.y + 2
  <2> DEFINE T == Int \X Int \X Int
             m == at.y
  <2> HIDE DEF T, m
  <2>1. dest \in Seq(T) /\ Len(dest) = m /\ e1 \in T /\ e2 \in T /\ m \in Nat /\ dest' = dest \o <<e1, e2>>
    BY ONLY <1>7, <1>8, <1>12, <1>18 DEF T, m
  <2>2. /\ dest \o <<e1, e2>> \in Seq(T) /\ Len(dest \o <<e1, e2>>) = m + 2
        /\ \A n \in 1..m : (dest \o <<e1, e2>>)[n] = dest[n]
        /\ (dest \o <<e1, e2>>)[m + 1] = e1 /\ (dest \o <<e1, e2>>)[m + 2] = e2
        /\ DOMAIN dest = 1..m /\ DOMAIN (dest \o <<e1, e2>>) = 1..m + 2
    BY ONLY <2>1, TwoMore
  <2> QED
    BY ONLY <2>1, <2>2 DEF T, m
<1>20. 1..at.y + 2 = 1..at.y \union {at.y + 1, at.y + 2}
  BY ONLY <1>18
<1>21. \A n \in DOMAIN dest' : Placed(n, dest'[n])
  BY ONLY <1>14, <1>17, <1>19, <1>20
<1>22. C!PixelsPlaced'
  BY ONLY <1>5, <1>21, UNCHANGED picture DEF C!PixelsPlaced, Placed, Shared, w, h, size, quarter
<1>23. /\ at'.y = at'.iy * w + at'.ix
       /\ at'.u = h * w + (at'.iy \div 2) * (w \div 2) + at'.ix \div 2
       /\ at'.v = at'.u + (h * w) \div 4
  <2>1. at'.y = line + at'.ix /\ at'.u = size + above + (half + 1) /\ at'.v = at'.u + quarter
    BY ONLY <1>2, <1>3, <1>13
  <2> QED
    BY ONLY <2>1, <1>10, <1>13 DEF line, size, above, quarter
<1>24. at'.iy <= h /\ at'.ix <= w /\ at'.ix % 2 = 0 /\ (at'.iy = h => at'.ix = 0)
  BY ONLY <1>1, <1>2, <1>10, <1>13
<1>25. PaintInv'
  BY ONLY <1>1, <1>13, <1>19, <1>23, <1>24, UNCHANGED picture DEF PaintInv, w, h
<1> QED
  BY <1>22, <1>25

LEMMA NextLineKeeps ==
    ASSUME PaintInv, C!PixelsPlaced, C!NextLine, UNCHANGED picture
    PROVE  PaintInv' /\ C!PixelsPlaced'
<1> DEFINE w == picture.width
           h == picture.height
           half == w \div 2
           row == at.iy \div 2
           size == h * w
           quarter == (h * w) \div 4
           back == IF at.iy % 2 = 0 THEN half ELSE 0
<1>1. /\ w \in Nat \ {0} /\ h \in Nat \ {0} /\ w % 2 = 0
      /\ picture \in [width : Sizes, height : Sizes]
  BY SamplesAssumption DEF PaintInv
<1>2. /\ at.iy \in Nat /\ at.ix \in Nat /\ at.y \in Nat /\ at.u \in Nat /\ at.v \in Nat
      /\ at.iy < h /\ at.ix = w
      /\ at.y = at.iy * w + at.ix
      /\ at.u = size + row * half + at.ix \div 2 /\ at.v = at.u + quarter
      /\ at \in [iy : Nat, ix : Nat, y : Nat, u : Nat, v : Nat]
  BY <1>1 DEF PaintInv, C!NextLine
<1>3. at' = [at EXCEPT !.iy = @ + 1, !.ix = 0, !.u = @ - back, !.v = @ - back]
  BY DEF C!NextLine
<1>4. half \in Nat /\ row \in Nat /\ back \in Nat /\ size \in Nat /\ quarter \in Nat
      /\ at.ix \div 2 = half
  BY ONLY <1>1, <1>2
<1>5. (at.iy + 1) \div 2 = IF at.iy % 2 = 0 THEN row ELSE row + 1
  BY ONLY <1>2, NextHalf
<1>6. at.iy * w + w = (at.iy + 1) * w
  BY ONLY <1>1, <1>2
<1> HIDE DEF half, row, size, quarter
<1>7. (row + 1) * half = row * half + half /\ row * half \in Nat /\ (row + 1) * half \in Nat
  BY ONLY <1>4
<1> DEFINE below == ((at.iy + 1) \div 2) * half
<1>8. below \in Nat /\ row * half + half = below + back
  <2>1. CASE at.iy % 2 = 0
    <3>1. below = row * half /\ back = half
      BY ONLY <2>1, <1>5
    <3> QED
      BY ONLY <3>1, <1>7
  <2>2. CASE at.iy % 2 # 0
    <3>1. below = (row + 1) * half /\ back = 0
      BY ONLY <2>2, <1>5
    <3> QED
      BY ONLY <3>1, <1>7
  <2> QED
    BY ONLY <2>1, <2>2
<1>9. at.u = size + row * half + half
  BY ONLY <1>2, <1>4
<1> DEFINE before == row * half
<1>10. at.u = size + before + half /\ before + half = below + back /\ before \in Nat
  BY ONLY <1>7, <1>8, <1>9
<1> HIDE DEF back, below, before
<1>11. at.u - back = size + below /\ at.v - back = at.u - back + quarter
       /\ at.u - back \in Nat /\ at.v - back \in Nat
  BY ONLY <1>2, <1>4, <1>8, <1>10
<1>12. /\ at'.iy = at.iy + 1 /\ at'.ix = 0 /\ at'.y = at.y /\ at'.u = at.u - back /\ at'.v = at.v - back
       /\ at' \in [iy : Nat, ix : Nat, y : Nat, u : Nat, v : Nat]
  BY ONLY <1>2, <1>3, <1>4, <1>11, LineMoves DEF Pointers
<1>13. dest \in Seq(Int \X Int \X Int) /\ Len(dest) = at.y /\ dest' = dest
  BY DEF PaintInv, C!NextLine
<1>14. at'.y = at'.iy * w + at'.ix
  <2>1. (at.iy + 1) * w \in Nat
    BY ONLY <1>1, <1>2
  <2> QED
    BY ONLY <2>1, <1>2, <1>6, <1>12
<1>15. at'.u = h * w + (at'.iy \div 2) * (w \div 2) + at'.ix \div 2 /\ at'.v = at'.u + (h * w) \div 4
  <2>1. at'.u = size + below + 0 \div 2 /\ at'.v = at'.u + quarter
    BY ONLY <1>4, <1>8, <1>11, <1>12
  <2> QED
    BY ONLY <2>1, <1>12 DEF below, half, size, quarter
<1>16. at'.iy <= h /\ at'.ix <= w /\ at'.ix % 2 = 0
  BY ONLY <1>1, <1>2, <1>12
<1>17. PaintInv'
  BY ONLY <1>1, <1>12, <1>13, <1>14, <1>15, <1>16, UNCHANGED picture DEF PaintInv, w, h
<1>18. C!PixelsPlaced'
  BY <1>13 DEF C!PixelsPlaced
<1> QED
  BY <1>17, <1>18

LEMMA ConvStart == C!Init => ConvInv
BY CarryStart, PaintStart DEF ConvInv

LEMMA ConvStep == ASSUME ConvInv, C!Next PROVE ConvInv'
<1>1. CASE C!Carry
  <2>1. CarryInv'
    BY <1>1, CarryKeeps DEF ConvInv
  <2>2. UNCHANGED <<picture, at, dest, colours>>
    BY <1>1 DEF C!Carry
  <2> QED
    BY <2>1, <2>2 DEF ConvInv, PaintInv, C!PixelsPlaced, C!ColoursNear
<1>2. CASE C!fa_utils_yuv420_to_rgb
  <2>1. UNCHANGED <<buffer, put, puts, picture>>
    BY <1>2 DEF C!fa_utils_yuv420_to_rgb
  <2>2. CarryInv'
    BY <2>1 DEF ConvInv, CarryInv
  <2>3. CASE C!PaintPair
    BY <2>1, <2>2, <2>3, PaintPairKeeps, ColoursKeep DEF ConvInv
  <2>4. CASE C!NextLine
    <3>1. colours' = colours
      BY <2>4 DEF C!NextLine
    <3>2. C!ColoursNear'
      BY <3>1 DEF ConvInv, C!ColoursNear
    <3> QED
      BY <2>1, <2>2, <2>4, <3>2, NextLineKeeps DEF ConvInv
  <2> QED
    BY <1>2, <2>3, <2>4 DEF C!fa_utils_yuv420_to_rgb
<1> QED
  BY <1>1, <1>2 DEF C!Next

LEMMA ConvStays ==
    ASSUME ConvInv, UNCHANGED conversionVars PROVE ConvInv'
BY DEF ConvInv, CarryInv, PaintInv, C!PixelsPlaced, C!ColoursNear, conversionVars

(* ConversionsKept: whatever is converted arrives as what it was.          *)
THEOREM ConversionsAreKept == LibrarySpec => []ConversionsKept
<1>1. LibraryInit => ConvInv
  <2>1. LibraryInit => C!Init
    BY DEF LibraryInit
  <2> QED
    BY <2>1, ConvStart
<1>2. ConvInv /\ [LibraryNext]_<<part, kernelVars, listsVars, memoryVars, allocatorVars, conversionVars>> => ConvInv'
  <2>1. [LibraryNext]_<<part, kernelVars, listsVars, memoryVars, allocatorVars, conversionVars>>
           => C!Next \/ UNCHANGED conversionVars
    BY DEF LibraryNext
  <2> QED
    BY <2>1, ConvStep, ConvStays
<1>3. ConvInv => ConversionsKept
  BY CodecsAreReached, EncoderIsAsked, CarryWhole DEF ConvInv, ConversionsKept, C!ConversionsKept
<1> QED
  BY <1>1, <1>2, <1>3, PTL DEF LibrarySpec

-----------------------------------------------------------------------------
(* Sequences of nodes, by their places.                                    *)
LEMMA RemovedAt ==
    ASSUME NEW S, NEW s \in Seq(S), NEW k \in 1..Len(s)
    PROVE  /\ K!RemoveAt(s, k) \in Seq(S) /\ Len(K!RemoveAt(s, k)) = Len(s) - 1
           /\ \A i \in 1..Len(s) - 1 : K!RemoveAt(s, k)[i] = IF i < k THEN s[i] ELSE s[i + 1]
<1> DEFINE a == SubSeq(s, 1, k - 1)
           b == SubSeq(s, k + 1, Len(s))
<1>1. a \in Seq(S) /\ Len(a) = k - 1 /\ \A i \in 1..k - 1 : a[i] = s[i]
  BY SubSeqProperties
<1>2. b \in Seq(S) /\ Len(b) = Len(s) - k /\ \A i \in 1..Len(s) - k : b[i] = s[k + i]
  BY SubSeqProperties
<1>3. K!RemoveAt(s, k) = a \o b
  BY DEF K!RemoveAt
<1> HIDE DEF a, b
<1>4. /\ a \o b \in Seq(S) /\ Len(a \o b) = Len(a) + Len(b)
      /\ \A i \in 1..Len(a) + Len(b) : (a \o b)[i] = IF i <= Len(a) THEN a[i] ELSE b[i - Len(a)]
  BY <1>1, <1>2, ConcatProperties
<1> DEFINE c == a \o b
<1>6. \A i \in 1..Len(a) + Len(b) : c[i] = IF i <= Len(a) THEN a[i] ELSE b[i - Len(a)]
  BY <1>4
<1> HIDE DEF c
<1>7. Len(a) = k - 1 /\ Len(a) + Len(b) = Len(s) - 1 /\ k \in Int /\ Len(s) \in Int
  BY <1>1, <1>2
<1>5. ASSUME NEW i \in 1..Len(s) - 1
      PROVE  c[i] = IF i < k THEN s[i] ELSE s[i + 1]
  <2>1. CASE i < k
    <3>1. i \in 1..Len(a) + Len(b) /\ i <= Len(a) /\ i \in 1..k - 1
      BY ONLY <1>7, <2>1, i \in 1..Len(s) - 1
    <3> QED
      BY ONLY <1>1, <1>6, <2>1, <3>1
  <2>2. CASE ~(i < k)
    <3>1. i \in 1..Len(a) + Len(b) /\ ~(i <= Len(a)) /\ i - Len(a) \in 1..Len(s) - k /\ k + (i - Len(a)) = i + 1
      BY ONLY <1>7, <2>2, i \in 1..Len(s) - 1
    <3> QED
      BY ONLY <1>2, <1>6, <2>2, <3>1
  <2> QED
    BY <2>1, <2>2
<1>8. \A i \in 1..Len(s) - 1 : (a \o b)[i] = IF i < k THEN s[i] ELSE s[i + 1]
  BY <1>5 DEF c
<1> QED
  BY ONLY <1>3, <1>4, <1>7, <1>8

LEMMA RemovedFirst ==
    ASSUME NEW S, NEW s \in Seq(S), NEW k \in 1..Len(s), \A j \in 1..Len(s) : s[j] = s[k] => j = k
    PROVE  /\ K!RemoveFirst(s, s[k]) \in Seq(S) /\ Len(K!RemoveFirst(s, s[k])) = Len(s) - 1
           /\ \A i \in 1..Len(s) - 1 : K!RemoveFirst(s, s[k])[i] = IF i < k THEN s[i] ELSE s[i + 1]
<1> SUFFICES K!RemoveFirst(s, s[k]) = K!RemoveAt(s, k)
  BY RemovedAt
<1> DEFINE x == s[k]
<1> SUFFICES K!SelectInSeq(s, LAMBDA v : v = x) = k
  BY DEF K!RemoveFirst
<1>1. {i \in 1..Len(s) : s[i] = x} = {k}
  OBVIOUS
<1>2. K!Min({k}) = k
  BY DEF K!Min
<1> QED
  BY <1>1, <1>2 DEF K!SelectInSeq

LEMMA NotRemoved ==
    ASSUME NEW S, NEW s \in Seq(S), NEW x, \A j \in 1..Len(s) : s[j] # x
    PROVE  K!RemoveFirst(s, x) = s
BY DEF K!RemoveFirst

LEMMA PutFirst ==
    ASSUME NEW S, NEW s \in Seq(S), NEW x \in S
    PROVE  /\ <<x>> \o s \in Seq(S) /\ Len(<<x>> \o s) = Len(s) + 1
           /\ \A i \in 1..Len(s) + 1 : (<<x>> \o s)[i] = IF i = 1 THEN x ELSE s[i - 1]
OBVIOUS

LEMMA PutLast ==
    ASSUME NEW S, NEW s \in Seq(S), NEW x \in S
    PROVE  /\ Append(s, x) \in Seq(S) /\ Len(Append(s, x)) = Len(s) + 1
           /\ \A i \in 1..Len(s) + 1 : Append(s, x)[i] = IF i <= Len(s) THEN s[i] ELSE x
OBVIOUS

(* The lists r of all heads hold every entry once.                         *)
Occurs(x, r) == \E h \in DOMAIN r : \E i \in 1..Len(r[h]) : r[h][i] = x
Apart(r) ==
    \A g, h \in DOMAIN r : \A i \in 1..Len(r[g]), j \in 1..Len(r[h]) :
        r[g][i] = r[h][j] => g = h /\ i = j

LEMMA OccursIs ==
    ASSUME NEW H, NEW N, NEW r \in [H -> Seq(N)], NEW y
    PROVE  Occurs(y, r) <=> \E g \in H : \E i \in 1..Len(r[g]) : r[g][i] = y
BY DEF Occurs

(* The k-th entry of one list is taken away.                               *)
CutAt(r, t, h, k) ==
    /\ \A g \in DOMAIN r \ {h} : t[g] = r[g]
    /\ Len(t[h]) = Len(r[h]) - 1
    /\ \A i \in 1..Len(r[h]) - 1 : t[h][i] = IF i < k THEN r[h][i] ELSE r[h][i + 1]

LEMMA CutApart ==
    ASSUME NEW H, NEW N, NEW r \in [H -> Seq(N)], NEW t \in [H -> Seq(N)], Apart(r),
           NEW h \in H, NEW k \in 1..Len(r[h]), CutAt(r, t, h, k)
    PROVE  /\ Apart(t)
           /\ \A y : Occurs(y, t) <=> Occurs(y, r) /\ y # r[h][k]
<1>0. \A g1, g2 \in H : \A i1 \in 1..Len(r[g1]), i2 \in 1..Len(r[g2]) :
          r[g1][i1] = r[g2][i2] => g1 = g2 /\ i1 = i2
  BY DEF Apart
<1>1. \A g \in H : Len(r[g]) \in Nat
  OBVIOUS
<1> DEFINE Old(g, i) == IF g = h /\ i >= k THEN i + 1 ELSE i
<1>2. ASSUME NEW g \in H, NEW i \in 1..Len(t[g])
      PROVE  Old(g, i) \in 1..Len(r[g]) /\ t[g][i] = r[g][Old(g, i)] /\ (g = h => Old(g, i) # k)
  <2>1. CASE g # h
    BY <2>1 DEF CutAt
  <2>2. CASE g = h
    <3>1. i \in 1..Len(r[h]) - 1 /\ k \in Int /\ i \in Int
      BY <1>1, <2>2 DEF CutAt
    <3>2. t[h][i] = IF i < k THEN r[h][i] ELSE r[h][i + 1]
      BY <3>1 DEF CutAt
    <3> QED
      BY <1>1, <2>2, <3>1, <3>2
  <2> QED
    BY <2>1, <2>2
<1>3. Apart(t)
  <2> SUFFICES ASSUME NEW g1 \in H, NEW g2 \in H,
                      NEW i1 \in 1..Len(t[g1]), NEW i2 \in 1..Len(t[g2]), t[g1][i1] = t[g2][i2]
               PROVE  g1 = g2 /\ i1 = i2
    BY DEF Apart
  <2>1. g1 = g2 /\ Old(g1, i1) = Old(g2, i2)
    <3> HIDE DEF Old
    <3> DEFINE j1 == Old(g1, i1)
               j2 == Old(g2, i2)
    <3>1. j1 \in 1..Len(r[g1]) /\ t[g1][i1] = r[g1][j1] /\ j2 \in 1..Len(r[g2]) /\ t[g2][i2] = r[g2][j2]
      BY <1>2
    <3> HIDE DEF j1, j2
    <3>2. r[g1][j1] = r[g2][j2]
      BY <3>1
    <3>3. g1 = g2 /\ j1 = j2
      BY ONLY <1>0, <3>1, <3>2, g1 \in H, g2 \in H
    <3> QED
      BY <3>3 DEF j1, j2
  <2>2. i1 \in Int /\ i2 \in Int /\ k \in Int
    OBVIOUS
  <2> QED
    BY <2>1, <2>2
<1>4. ASSUME NEW y, Occurs(y, t) PROVE Occurs(y, r) /\ y # r[h][k]
  <2>1. PICK g \in H : \E i \in 1..Len(t[g]) : t[g][i] = y
    BY <1>4 DEF Occurs
  <2>2. PICK i \in 1..Len(t[g]) : t[g][i] = y
    BY <2>1
  <2> HIDE DEF Old
  <2>3. Old(g, i) \in 1..Len(r[g]) /\ r[g][Old(g, i)] = y /\ (g = h => Old(g, i) # k)
    BY <1>2, <2>2
  <2>4. Occurs(y, r)
    BY <2>3, OccursIs
  <2>5. y # r[h][k]
    BY <1>0, <2>3
  <2> QED
    BY <2>4, <2>5
<1>5. ASSUME NEW y, Occurs(y, r), y # r[h][k] PROVE Occurs(y, t)
  <2>1. PICK g \in H : \E i \in 1..Len(r[g]) : r[g][i] = y
    BY <1>5, OccursIs
  <2>2. PICK i \in 1..Len(r[g]) : r[g][i] = y
    BY <2>1
  <2>3. g = h => i # k
    BY <1>5, <2>2
  <2>4. i \in Int /\ k \in Int
    OBVIOUS
  <2>5. \E j \in 1..Len(t[g]) : t[g][j] = y
    <3>1. CASE g # h
      BY <2>2, <3>1 DEF CutAt
    <3>2. CASE g = h /\ i < k
      BY <1>1, <2>2, <2>4, <3>2 DEF CutAt
    <3>3. CASE g = h /\ i > k
      <4>1. i - 1 \in 1..Len(t[h]) /\ i - 1 \in 1..Len(r[h]) - 1 /\ ~(i - 1 < k) /\ (i - 1) + 1 = i
        BY <1>1, <2>4, <3>3 DEF CutAt
      <4>2. t[h][i - 1] = r[h][i]
        BY <4>1 DEF CutAt
      <4> QED
        BY <2>2, <3>3, <4>1, <4>2
    <3> QED
      BY <2>3, <2>4, <3>1, <3>2, <3>3
  <2> QED
    BY <2>5, OccursIs
<1> QED
  BY <1>3, <1>4, <1>5

(* An entry is put behind the k-th of one list.                            *)
PutAt(r, t, h, k, x) ==
    /\ \A g \in DOMAIN r \ {h} : t[g] = r[g]
    /\ Len(t[h]) = Len(r[h]) + 1
    /\ \A i \in 1..Len(r[h]) + 1 :
          t[h][i] = IF i <= k THEN r[h][i] ELSE IF i = k + 1 THEN x ELSE r[h][i - 1]

LEMMA PutApart ==
    ASSUME NEW H, NEW N, NEW r \in [H -> Seq(N)], NEW t \in [H -> Seq(N)], Apart(r),
           NEW h \in H, NEW k \in 0..Len(r[h]), NEW x, PutAt(r, t, h, k, x), ~Occurs(x, r)
    PROVE  /\ Apart(t)
           /\ \A y : Occurs(y, t) <=> Occurs(y, r) \/ y = x
<1>0. \A g1, g2 \in H : \A i1 \in 1..Len(r[g1]), i2 \in 1..Len(r[g2]) :
          r[g1][i1] = r[g2][i2] => g1 = g2 /\ i1 = i2
  BY DEF Apart
<1>1. \A g \in H : Len(r[g]) \in Nat
  OBVIOUS
<1> DEFINE Old(g, i) == IF g = h /\ i > k THEN i - 1 ELSE i
<1>2. ASSUME NEW g \in H, NEW i \in 1..Len(t[g])
      PROVE  IF g = h /\ i = k + 1 THEN t[g][i] = x
             ELSE Old(g, i) \in 1..Len(r[g]) /\ t[g][i] = r[g][Old(g, i)]
  <2>1. CASE g # h
    BY <2>1 DEF PutAt
  <2>2. CASE g = h
    <3>1. i \in 1..Len(r[h]) + 1 /\ k \in Int /\ i \in Int
      BY <1>1, <2>2 DEF PutAt
    <3>2. t[h][i] = IF i <= k THEN r[h][i] ELSE IF i = k + 1 THEN x ELSE r[h][i - 1]
      BY <3>1 DEF PutAt
    <3> QED
      BY <1>1, <2>2, <3>1, <3>2
  <2> QED
    BY <2>1, <2>2
<1>3. \A g \in H : \A i \in 1..Len(r[g]) : r[g][i] # x
  BY OccursIs
<1>4. Apart(t)
  <2> SUFFICES ASSUME NEW g1 \in H, NEW g2 \in H,
                      NEW i1 \in 1..Len(t[g1]), NEW i2 \in 1..Len(t[g2]), t[g1][i1] = t[g2][i2]
               PROVE  g1 = g2 /\ i1 = i2
    BY DEF Apart
  <2>1. CASE g1 = h /\ i1 = k + 1
    <3>1. g2 = h /\ i2 = k + 1
      <4> HIDE DEF Old
      <4> QED
        BY <1>2, <1>3, <2>1
    <3> QED
      BY <2>1, <3>1
  <2>2. CASE ~(g1 = h /\ i1 = k + 1)
    <3>1. ~(g2 = h /\ i2 = k + 1)
      <4> HIDE DEF Old
      <4> QED
        BY <1>2, <1>3, <2>2
    <3>2. g1 = g2 /\ Old(g1, i1) = Old(g2, i2)
      <4> HIDE DEF Old
      <4>1. /\ Old(g1, i1) \in 1..Len(r[g1]) /\ Old(g2, i2) \in 1..Len(r[g2])
            /\ r[g1][Old(g1, i1)] = r[g2][Old(g2, i2)]
        BY <1>2, <2>2, <3>1
      <4> QED
        BY <1>0, <4>1
    <3>3. i1 \in Int /\ i2 \in Int /\ k \in Int
      OBVIOUS
    <3> QED
      BY <2>2, <3>1, <3>2, <3>3
  <2> QED
    BY <2>1, <2>2
<1>5. ASSUME NEW y, Occurs(y, t) PROVE Occurs(y, r) \/ y = x
  <2>1. PICK g \in H : \E i \in 1..Len(t[g]) : t[g][i] = y
    BY <1>5 DEF Occurs
  <2>2. PICK i \in 1..Len(t[g]) : t[g][i] = y
    BY <2>1
  <2> HIDE DEF Old
  <2>3. t[g][i] = x \/ (Old(g, i) \in 1..Len(r[g]) /\ t[g][i] = r[g][Old(g, i)])
    BY <1>2
  <2> QED
    BY <2>2, <2>3, OccursIs
<1>6. ASSUME NEW y, Occurs(y, r) PROVE Occurs(y, t)
  <2>1. PICK g \in H : \E i \in 1..Len(r[g]) : r[g][i] = y
    BY <1>6, OccursIs
  <2>2. PICK i \in 1..Len(r[g]) : r[g][i] = y
    BY <2>1
  <2>3. i \in Int /\ k \in Int
    OBVIOUS
  <2>4. \E j \in 1..Len(t[g]) : t[g][j] = y
    <3>1. CASE g # h
      BY <2>2, <3>1 DEF PutAt
    <3>2. CASE g = h /\ i <= k
      <4>1. i \in 1..Len(t[h]) /\ i \in 1..Len(r[h]) + 1
        BY <1>1, <2>3, <3>2 DEF PutAt
      <4>2. t[h][i] = r[h][i]
        BY <3>2, <4>1 DEF PutAt
      <4> QED
        BY <2>2, <3>2, <4>1, <4>2
    <3>3. CASE g = h /\ i > k
      <4>1. i + 1 \in 1..Len(t[h]) /\ i + 1 \in 1..Len(r[h]) + 1 /\ ~(i + 1 <= k) /\ i + 1 # k + 1 /\ (i + 1) - 1 = i
        BY <1>1, <2>3, <3>3 DEF PutAt
      <4>2. t[h][i + 1] = r[h][i]
        BY <4>1 DEF PutAt
      <4> QED
        BY <2>2, <3>3, <4>1, <4>2
    <3> QED
      BY <2>3, <3>1, <3>2, <3>3
  <2> QED
    BY <2>4, OccursIs
<1>7. Occurs(x, t)
  <2>1. k + 1 \in 1..Len(t[h]) /\ ~(k + 1 <= k) /\ k + 1 \in 1..Len(r[h]) + 1
    BY <1>1 DEF PutAt
  <2>2. t[h][k + 1] = x
    BY <2>1 DEF PutAt
  <2> QED
    BY <2>1, <2>2, OccursIs
<1> QED
  BY <1>4, <1>5, <1>6, <1>7

(* One list is put into another, behind the k-th entry, and left empty.    *)
JoinAt(r, t, l, h, k) ==
    LET m == Len(r[l])
    IN  /\ \A g \in DOMAIN r \ {h, l} : t[g] = r[g]
        /\ t[l] = <<>> /\ Len(t[h]) = Len(r[h]) + m
        /\ \A i \in 1..Len(r[h]) + m :
              t[h][i] = IF i <= k THEN r[h][i] ELSE IF i <= k + m THEN r[l][i - k] ELSE r[h][i - m]

LEMMA JoinApart ==
    ASSUME NEW H, NEW N, NEW r \in [H -> Seq(N)], NEW t \in [H -> Seq(N)], Apart(r),
           NEW h \in H, NEW l \in H, l # h, NEW k \in 0..Len(r[h]), JoinAt(r, t, l, h, k)
    PROVE  /\ Apart(t)
           /\ \A y : Occurs(y, t) <=> Occurs(y, r)
<1> DEFINE m == Len(r[l])
           Ln == Len(r[h])
           From(g, i) == IF g = h /\ k < i /\ i <= k + m THEN l ELSE g
           Old(g, i) == IF g # h \/ i <= k THEN i ELSE IF i <= k + m THEN i - k ELSE i - m
<1>0. \A g1, g2 \in H : \A i1 \in 1..Len(r[g1]), i2 \in 1..Len(r[g2]) :
          r[g1][i1] = r[g2][i2] => g1 = g2 /\ i1 = i2
  BY DEF Apart
<1>1. m \in Nat /\ Ln \in Nat /\ k \in 0..Ln /\ Len(t[l]) = 0 /\ Len(t[h]) = Ln + m
      /\ \A g \in H \ {h, l} : t[g] = r[g]
  BY DEF JoinAt
<1>a. \A i \in 1..Ln + m :
          t[h][i] = IF i <= k THEN r[h][i] ELSE IF i <= k + m THEN r[l][i - k] ELSE r[h][i - m]
  BY DEF JoinAt
<1> HIDE DEF m, Ln
<1>2. ASSUME NEW g \in H, NEW i \in 1..Len(t[g])
      PROVE  From(g, i) \in H /\ Old(g, i) \in 1..Len(r[From(g, i)]) /\ t[g][i] = r[From(g, i)][Old(g, i)]
  <2>1. CASE g \notin {h, l}
    BY <1>1, <2>1
  <2>2. CASE g = h
    <3>1. i \in 1..Ln + m /\ k \in Int /\ i \in Int
      BY <1>1, <2>2
    <3>2. t[h][i] = IF i <= k THEN r[h][i] ELSE IF i <= k + m THEN r[l][i - k] ELSE r[h][i - m]
      BY ONLY <1>a, <3>1
    <3> QED
      BY <1>1, <2>2, <3>1, <3>2 DEF m, Ln
  <2>3. CASE g = l
    BY <1>1, <2>3
  <2> QED
    BY <2>1, <2>2, <2>3
<1>3. Apart(t)
  <2> SUFFICES ASSUME NEW g1 \in H, NEW g2 \in H,
                      NEW i1 \in 1..Len(t[g1]), NEW i2 \in 1..Len(t[g2]), t[g1][i1] = t[g2][i2]
               PROVE  g1 = g2 /\ i1 = i2
    BY DEF Apart
  <2> DEFINE f1 == From(g1, i1)
             f2 == From(g2, i2)
             j1 == Old(g1, i1)
             j2 == Old(g2, i2)
  <2>1. /\ f1 \in H /\ j1 \in 1..Len(r[f1]) /\ t[g1][i1] = r[f1][j1]
        /\ f2 \in H /\ j2 \in 1..Len(r[f2]) /\ t[g2][i2] = r[f2][j2]
    BY <1>2
  <2>2. f1 = f2 /\ j1 = j2
    <3> HIDE DEF f1, f2, j1, j2
    <3>1. r[f1][j1] = r[f2][j2]
      BY <2>1
    <3>2. \A a1 \in 1..Len(r[f1]), a2 \in 1..Len(r[f2]) : r[f1][a1] = r[f2][a2] => f1 = f2 /\ a1 = a2
      BY ONLY <1>0, <2>1
    <3> QED
      BY ONLY <2>1, <3>1, <3>2
  <2>3. i1 \in Int /\ i2 \in Int /\ k \in Int /\ m \in Int /\ g1 # l /\ g2 # l
    BY <1>1
  <2> QED
    BY ONLY <2>2, <2>3, l # h
<1>4. ASSUME NEW y, Occurs(y, t) PROVE Occurs(y, r)
  <2>1. PICK g \in H : \E i \in 1..Len(t[g]) : t[g][i] = y
    BY <1>4 DEF Occurs
  <2>2. PICK i \in 1..Len(t[g]) : t[g][i] = y
    BY <2>1
  <2> HIDE DEF From, Old
  <2> QED
    BY <1>2, <2>2 DEF Occurs
<1>5. ASSUME NEW y, Occurs(y, r) PROVE Occurs(y, t)
  <2>1. PICK g \in H : \E i \in 1..Len(r[g]) : r[g][i] = y
    BY <1>5 DEF Occurs
  <2>2. PICK i \in 1..Len(r[g]) : r[g][i] = y
    BY <2>1
  <2>3. i \in Int /\ k \in Int
    BY <1>1
  <2>4. \E e \in H : \E j \in 1..Len(t[e]) : t[e][j] = y
    <3>1. CASE g \notin {h, l}
      BY <1>1, <2>2, <3>1
    <3>2. CASE g = h /\ i <= k
      <4>1. i \in 1..Ln + m /\ i \in 1..Len(t[h])
        BY <1>1, <2>3, <3>2
      <4>2. t[h][i] = r[h][i]
        BY ONLY <1>a, <3>2, <4>1
      <4> QED
        BY <2>2, <3>2, <4>1, <4>2
    <3>3. CASE g = h /\ i > k
      <4>1. i + m \in 1..Ln + m /\ ~(i + m <= k) /\ ~(i + m <= k + m) /\ (i + m) - m = i
            /\ i + m \in 1..Len(t[h])
        BY <1>1, <2>3, <3>3 DEF Ln
      <4>2. t[h][i + m] = r[h][i]
        BY ONLY <1>a, <4>1
      <4> QED
        BY <2>2, <3>3, <4>1, <4>2
    <3>4. CASE g = l
      <4>1. i + k \in 1..Ln + m /\ ~(i + k <= k) /\ i + k <= k + m /\ (i + k) - k = i
            /\ i + k \in 1..Len(t[h])
        BY <1>1, <2>3, <3>4 DEF m
      <4>2. t[h][i + k] = r[l][i]
        BY ONLY <1>a, <4>1
      <4> QED
        BY <2>2, <3>4, <4>1, <4>2
    <3> QED
      BY <2>3, <3>1, <3>2, <3>3, <3>4
  <2> QED
    BY <2>4 DEF Occurs
<1> QED
  BY <1>3, <1>4, <1>5

(* The first k entries of one list become those of another, an empty one.  *)
SplitAt(r, t, l, h, k) ==
    /\ \A g \in DOMAIN r \ {h, l} : t[g] = r[g]
    /\ Len(t[l]) = k /\ \A i \in 1..k : t[l][i] = r[h][i]
    /\ Len(t[h]) = Len(r[h]) - k /\ \A i \in 1..Len(r[h]) - k : t[h][i] = r[h][i + k]

LEMMA SplitApart ==
    ASSUME NEW H, NEW N, NEW r \in [H -> Seq(N)], NEW t \in [H -> Seq(N)], Apart(r),
           NEW h \in H, NEW l \in H, l # h, NEW k \in 0..Len(r[h]), r[l] = <<>>, SplitAt(r, t, l, h, k)
    PROVE  /\ Apart(t)
           /\ \A y : Occurs(y, t) <=> Occurs(y, r)
<1> DEFINE Ln == Len(r[h])
           From(g) == IF g = l THEN h ELSE g
           Old(g, i) == IF g = h THEN i + k ELSE i
<1>0. \A g1, g2 \in H : \A i1 \in 1..Len(r[g1]), i2 \in 1..Len(r[g2]) :
          r[g1][i1] = r[g2][i2] => g1 = g2 /\ i1 = i2
  BY DEF Apart
<1>1. /\ Ln \in Nat /\ k \in 0..Ln /\ k \in Int
      /\ \A g \in H \ {h, l} : t[g] = r[g]
      /\ Len(t[l]) = k /\ \A i \in 1..k : t[l][i] = r[h][i]
      /\ Len(t[h]) = Ln - k /\ \A i \in 1..Ln - k : t[h][i] = r[h][i + k]
  BY DEF SplitAt
<1> HIDE DEF Ln
<1>2. ASSUME NEW g \in H, NEW i \in 1..Len(t[g])
      PROVE  From(g) \in H /\ Old(g, i) \in 1..Len(r[From(g)]) /\ t[g][i] = r[From(g)][Old(g, i)]
             /\ (g = h => Old(g, i) > k) /\ (g = l => Old(g, i) <= k) /\ i \in Int
  <2>1. CASE g \notin {h, l}
    BY <1>1, <2>1
  <2>2. CASE g = h
    <3>1. i \in 1..Ln - k /\ i \in Int /\ i + k \in 1..Ln
      BY <1>1, <2>2
    <3> QED
      BY <1>1, <2>2, <3>1 DEF Ln
  <2>3. CASE g = l
    <3>1. i \in 1..k /\ i \in Int /\ i \in 1..Ln
      BY <1>1, <2>3
    <3> QED
      BY <1>1, <2>3, <3>1 DEF Ln
  <2> QED
    BY <2>1, <2>2, <2>3
<1>3. Apart(t)
  <2> SUFFICES ASSUME NEW g1 \in H, NEW g2 \in H,
                      NEW i1 \in 1..Len(t[g1]), NEW i2 \in 1..Len(t[g2]), t[g1][i1] = t[g2][i2]
               PROVE  g1 = g2 /\ i1 = i2
    BY DEF Apart
  <2> DEFINE f1 == From(g1)
             f2 == From(g2)
             j1 == Old(g1, i1)
             j2 == Old(g2, i2)
  <2>1. /\ f1 \in H /\ j1 \in 1..Len(r[f1]) /\ t[g1][i1] = r[f1][j1]
        /\ f2 \in H /\ j2 \in 1..Len(r[f2]) /\ t[g2][i2] = r[f2][j2]
    BY <1>2
  <2>2. f1 = f2 /\ j1 = j2
    <3> HIDE DEF f1, f2, j1, j2
    <3>1. r[f1][j1] = r[f2][j2]
      BY <2>1
    <3>2. \A a1 \in 1..Len(r[f1]), a2 \in 1..Len(r[f2]) : r[f1][a1] = r[f2][a2] => f1 = f2 /\ a1 = a2
      BY ONLY <1>0, <2>1
    <3> QED
      BY ONLY <2>1, <3>1, <3>2
  <2>3. i1 \in Int /\ i2 \in Int /\ (g1 = h => j1 > k) /\ (g1 = l => j1 <= k)
        /\ (g2 = h => j2 > k) /\ (g2 = l => j2 <= k)
    BY <1>2
  <2>4. g1 = g2
    BY ONLY <1>1, <2>2, <2>3
  <2> QED
    BY ONLY <1>1, <2>2, <2>3, <2>4
<1>4. ASSUME NEW y, Occurs(y, t) PROVE Occurs(y, r)
  <2>1. PICK g \in H : \E i \in 1..Len(t[g]) : t[g][i] = y
    BY <1>4 DEF Occurs
  <2>2. PICK i \in 1..Len(t[g]) : t[g][i] = y
    BY <2>1
  <2> HIDE DEF From, Old
  <2> QED
    BY <1>2, <2>2 DEF Occurs
<1>5. ASSUME NEW y, Occurs(y, r) PROVE Occurs(y, t)
  <2>1. PICK g \in H : \E i \in 1..Len(r[g]) : r[g][i] = y
    BY <1>5 DEF Occurs
  <2>2. PICK i \in 1..Len(r[g]) : r[g][i] = y
    BY <2>1
  <2>3. i \in Int
    OBVIOUS
  <2>4. \E e \in H : \E j \in 1..Len(t[e]) : t[e][j] = y
    <3>1. CASE g \notin {h, l}
      BY <1>1, <2>2, <3>1
    <3>2. CASE g = h /\ i <= k
      <4>1. i \in 1..k /\ i \in 1..Len(t[l])
        BY <1>1, <2>3, <3>2
      <4> QED
        BY <1>1, <2>2, <3>2, <4>1
    <3>3. CASE g = h /\ i > k
      <4>1. i - k \in 1..Ln - k /\ i - k \in 1..Len(t[h]) /\ (i - k) + k = i
        BY <1>1, <2>3, <3>3 DEF Ln
      <4>2. t[h][i - k] = r[h][i]
        BY <1>1, <4>1
      <4> QED
        BY <2>2, <3>3, <4>1, <4>2
    <3>4. CASE g = l
      BY <3>4
    <3> QED
      BY <1>1, <2>3, <3>1, <3>2, <3>3, <3>4
  <2> QED
    BY <2>4 DEF Occurs
<1> QED
  BY <1>3, <1>4, <1>5

(* The i-th entry of the ring of h, which is h itself before the first and *)
(* after the last.                                                         *)
Nd(h, s, i) == IF i \in 1..Len(s) THEN s[i] ELSE h
RingAt(f, h, s) ==
    \A i \in 0..Len(s) : f.n[Nd(h, s, i)] = Nd(h, s, i + 1) /\ f.p[Nd(h, s, i + 1)] = Nd(h, s, i)

(* The fields f hold the rings r; an entry that is on none is one that     *)
(* list_del_init() left, or its next is not itself.                        *)
Rings == [RingHeads -> Seq(RingNodes)]
Good(f, r) ==
    /\ r \in Rings /\ Apart(r)
    /\ f \in [n : [K!Links -> K!Links \union {NULL}], p : [K!Links -> K!Links \union {NULL}]]
    /\ \A h \in RingHeads : RingAt(f, h, r[h])
    /\ \A x \in RingNodes : ~Occurs(x, r) /\ f.n[x] = x => f.p[x] = x

LEMMA NdIs ==
    ASSUME NEW r \in Rings, NEW h \in RingHeads
    PROVE  /\ Len(r[h]) \in Nat
           /\ \A i \in 1..Len(r[h]) : r[h][i] \in RingNodes
           /\ \A i \in Int : Nd(h, r[h], i) \in K!Links
           /\ \A i \in 1..Len(r[h]) : Nd(h, r[h], i) = r[h][i]
           /\ Nd(h, r[h], 0) = h /\ Nd(h, r[h], Len(r[h]) + 1) = h
<1>1. r[h] \in Seq(RingNodes)
  BY DEF Rings
<1> QED
  BY <1>1 DEF Nd, K!Links

LEMMA Distinct ==
    ASSUME NEW r \in Rings, Apart(r), NEW g \in RingHeads, NEW h \in RingHeads
    PROVE  /\ \A i \in 0..Len(r[g]), j \in 0..Len(r[h]) :
                 Nd(g, r[g], i) = Nd(h, r[h], j) => g = h /\ i = j
           /\ \A i \in 1..Len(r[g]) + 1, j \in 1..Len(r[h]) + 1 :
                 Nd(g, r[g], i) = Nd(h, r[h], j) => g = h /\ i = j
<1>1. /\ Len(r[g]) \in Nat /\ Len(r[h]) \in Nat
      /\ \A i \in 1..Len(r[g]) : r[g][i] \in RingNodes
      /\ \A i \in 1..Len(r[h]) : r[h][i] \in RingNodes
  BY NdIs
<1>2. \A i \in 1..Len(r[g]), j \in 1..Len(r[h]) : r[g][i] = r[h][j] => g = h /\ i = j
  BY DEF Apart, Rings
<1>3. g \notin RingNodes /\ h \notin RingNodes
  BY LinksAssumption
<1> QED
  BY <1>1, <1>2, <1>3 DEF Nd

(* An entry leaves its ring.                                               *)
LEMMA UnlinkKeeps ==
    ASSUME NEW r, NEW f, Good(f, r), NEW h \in RingHeads, NEW k \in 1..Len(r[h]),
           NEW t, NEW x, x = r[h][k],
           t \in Rings, CutAt(r, t, h, k)
    PROVE  Good(K!Unlink(f, x), t) /\ \A y : Occurs(y, t) <=> Occurs(y, r) /\ y # x
<1> DEFINE a == Nd(h, r[h], k - 1)
           b == Nd(h, r[h], k + 1)
           f2 == K!Unlink(f, x)
           Ln == Len(r[h])
<1>1. r \in Rings /\ Apart(r) /\ \A g \in RingHeads : RingAt(f, g, r[g])
  BY DEF Good
<1>0. /\ \A g \in RingHeads \ {h} : t[g] = r[g]
      /\ Len(t[h]) = Ln - 1
      /\ \A i \in 1..Ln - 1 : t[h][i] = IF i < k THEN r[h][i] ELSE r[h][i + 1]
  BY <1>1 DEF CutAt, Rings
<1>2. Ln \in Nat /\ k \in 1..Ln /\ x = Nd(h, r[h], k)
  BY <1>1, NdIs
<1>3. f.n[a] = x /\ f.p[x] = a /\ f.n[x] = b /\ f.p[b] = x
  <2>1. k - 1 \in 0..Ln /\ k \in 0..Ln /\ (k - 1) + 1 = k
    BY <1>2
  <2> QED
    BY <1>1, <1>2, <2>1 DEF RingAt
<1>4. a \in K!Links /\ b \in K!Links /\ x \in K!Links
  BY <1>1, <1>2, NdIs
<1>5. f2 = [n |-> [f.n EXCEPT ![a] = b], p |-> [f.p EXCEPT ![b] = a]]
  BY <1>3 DEF K!Unlink, K!ListDel
<1>6. /\ f.n \in [K!Links -> K!Links \union {NULL}] /\ f.p \in [K!Links -> K!Links \union {NULL}]
  BY DEF Good
<1> HIDE DEF f2
<1>7. /\ f2 \in [n : [K!Links -> K!Links \union {NULL}], p : [K!Links -> K!Links \union {NULL}]]
      /\ f2.n[a] = b /\ f2.p[b] = a
      /\ \A y \in K!Links \ {a} : f2.n[y] = f.n[y]
      /\ \A y \in K!Links \ {b} : f2.p[y] = f.p[y]
  BY <1>4, <1>5, <1>6
<1>8. \A g \in RingHeads \ {h} : RingAt(f2, g, t[g])
  <2> SUFFICES ASSUME NEW g \in RingHeads \ {h}, NEW i \in 0..Len(r[g])
               PROVE  /\ f2.n[Nd(g, r[g], i)] = Nd(g, r[g], i + 1)
                      /\ f2.p[Nd(g, r[g], i + 1)] = Nd(g, r[g], i)
    BY <1>0 DEF RingAt
  <2>1. Len(r[g]) \in Nat /\ Nd(g, r[g], i) \in K!Links /\ Nd(g, r[g], i + 1) \in K!Links
    BY <1>1, NdIs
  <2>2. Nd(g, r[g], i) # a /\ Nd(g, r[g], i + 1) # b
    BY <1>1, <1>2, <2>1, Distinct
  <2> QED
    BY <1>1, <1>7, <2>1, <2>2 DEF RingAt
<1>9. \A i \in 0..Ln : Nd(h, t[h], i) = IF i < k THEN Nd(h, r[h], i) ELSE Nd(h, r[h], i + 1)
  BY <1>0, <1>2 DEF Nd
<1>10. RingAt(f2, h, t[h])
  <2> SUFFICES ASSUME NEW i \in 0..Ln - 1
               PROVE  /\ f2.n[Nd(h, t[h], i)] = Nd(h, t[h], i + 1)
                      /\ f2.p[Nd(h, t[h], i + 1)] = Nd(h, t[h], i)
    BY <1>0 DEF RingAt
  <2>1. i \in 0..Ln /\ i + 1 \in 0..Ln /\ i + 1 \in 1..Ln + 1
    BY <1>2
  <2>2. CASE i < k - 1
    <3>1. Nd(h, t[h], i) = Nd(h, r[h], i) /\ Nd(h, t[h], i + 1) = Nd(h, r[h], i + 1)
      BY <1>2, <1>9, <2>1, <2>2
    <3>2. Nd(h, r[h], i) # a /\ Nd(h, r[h], i + 1) # b
      BY <1>1, <1>2, <2>1, <2>2, Distinct
    <3>3. Nd(h, r[h], i) \in K!Links /\ Nd(h, r[h], i + 1) \in K!Links
      BY <1>1, NdIs
    <3> QED
      BY <1>1, <1>7, <2>1, <3>1, <3>2, <3>3 DEF RingAt
  <2>3. CASE i = k - 1
    <3>1. Nd(h, t[h], i) = a /\ Nd(h, t[h], i + 1) = b
      BY <1>2, <1>9, <2>1, <2>3
    <3> QED
      BY <1>7, <3>1
  <2>4. CASE i > k - 1
    <3>1. Nd(h, t[h], i) = Nd(h, r[h], i + 1) /\ Nd(h, t[h], i + 1) = Nd(h, r[h], (i + 1) + 1)
      BY <1>2, <1>9, <2>1, <2>4
    <3>2. i + 1 # k - 1 /\ (i + 1) + 1 # k + 1 /\ k - 1 \in 0..Ln /\ k + 1 \in 1..Ln + 1
          /\ (i + 1) + 1 \in 1..Ln + 1
      BY <1>2, <2>4
    <3>3. Nd(h, r[h], i + 1) # a /\ Nd(h, r[h], (i + 1) + 1) # b
      BY <1>1, <2>1, <3>2, Distinct
    <3>4. Nd(h, r[h], i + 1) \in K!Links /\ Nd(h, r[h], (i + 1) + 1) \in K!Links
      BY <1>1, <2>1, <3>2, NdIs
    <3> QED
      BY <1>1, <1>7, <2>1, <3>1, <3>3, <3>4 DEF RingAt
  <2> QED
    BY <1>2, <2>2, <2>3, <2>4
<1>11. Apart(t) /\ \A y : Occurs(y, t) <=> Occurs(y, r) /\ y # x
  <2>1. r \in [RingHeads -> Seq(RingNodes)] /\ t \in [RingHeads -> Seq(RingNodes)]
    BY <1>1 DEF Rings
  <2>2. Apart(t) /\ \A y : Occurs(y, t) <=> Occurs(y, r) /\ y # r[h][k]
    BY ONLY <1>1, <2>1, CutAt(r, t, h, k), h \in RingHeads, k \in 1..Len(r[h]), CutApart
  <2> QED
    BY <2>2
<1>14. ASSUME NEW y \in RingNodes, ~Occurs(y, t), f2.n[y] = y PROVE f2.p[y] = y
  <2>1. y # x
    <3>1. f2.n[x] = b \/ x = a
      BY <1>3, <1>4, <1>7
    <3>2. x # b /\ x # a
      BY <1>1, <1>2, Distinct
    <3>3. f2.n[x] = b
      BY <3>1, <3>2
    <3> QED
      BY <1>14, <3>2, <3>3
  <2>2. ~Occurs(y, r)
    BY <1>11, <1>14, <2>1
  <2>3. y # a /\ y # b
    <3>1. a \in RingNodes => Occurs(a, r)
      BY <1>1, <1>2, LinksAssumption DEF Nd, Occurs, Rings
    <3>2. b \in RingNodes => Occurs(b, r)
      BY <1>1, <1>2, LinksAssumption DEF Nd, Occurs, Rings
    <3> QED
      BY <2>2, <3>1, <3>2
  <2>4. f.n[y] = y /\ y \in K!Links
    BY <1>7, <1>14, <2>3 DEF K!Links
  <2> QED
    BY <1>7, <2>2, <2>3, <2>4 DEF Good
<1>15. \A g \in RingHeads : RingAt(f2, g, t[g])
  BY <1>8, <1>10
<1>16. Good(f2, t)
  BY <1>7, <1>11, <1>14, <1>15 DEF Good
<1> QED
  BY <1>11, <1>16 DEF f2

(* An entry on no ring is put between two neighbours.                      *)
LEMMA AddKeeps ==
    ASSUME NEW r, NEW f, Good(f, r), NEW h \in RingHeads, NEW k \in 0..Len(r[h]),
           NEW t, NEW x \in RingNodes, ~Occurs(x, r), t \in Rings, PutAt(r, t, h, k, x)
    PROVE  /\ Good(K!ListAdd(f, x, Nd(h, r[h], k), Nd(h, r[h], k + 1)), t)
           /\ \A y : Occurs(y, t) <=> Occurs(y, r) \/ y = x
<1> DEFINE a == Nd(h, r[h], k)
           b == Nd(h, r[h], k + 1)
           f2 == K!ListAdd(f, x, a, b)
           Ln == Len(r[h])
<1>1. r \in Rings /\ Apart(r) /\ \A g \in RingHeads : RingAt(f, g, r[g])
  BY DEF Good
<1>0. /\ \A g \in RingHeads \ {h} : t[g] = r[g]
      /\ Len(t[h]) = Ln + 1
      /\ \A i \in 1..Ln + 1 : t[h][i] = IF i <= k THEN r[h][i] ELSE IF i = k + 1 THEN x ELSE r[h][i - 1]
  BY <1>1 DEF PutAt, Rings
<1>2. Ln \in Nat /\ k \in 0..Ln
  BY <1>1, NdIs
<1>3. \A g \in RingHeads : \A i \in Int : Nd(g, r[g], i) # x
  BY <1>1, LinksAssumption DEF Nd, Occurs, Rings
<1>4. a \in K!Links /\ b \in K!Links /\ x \in K!Links /\ x # a /\ x # b
  <2>1. k \in Int /\ k + 1 \in Int
    BY <1>2
  <2> QED
    BY <1>1, <1>3, <2>1, NdIs DEF K!Links
<1>5. f2 = [n |-> [f.n EXCEPT ![x] = b, ![a] = x], p |-> [f.p EXCEPT ![b] = x, ![x] = a]]
  BY DEF K!ListAdd
<1>6. /\ f.n \in [K!Links -> K!Links \union {NULL}] /\ f.p \in [K!Links -> K!Links \union {NULL}]
  BY DEF Good
<1> HIDE DEF f2
<1>7. /\ f2 \in [n : [K!Links -> K!Links \union {NULL}], p : [K!Links -> K!Links \union {NULL}]]
      /\ f2.n[a] = x /\ f2.n[x] = b /\ f2.p[b] = x /\ f2.p[x] = a
      /\ \A y \in K!Links \ {a, x} : f2.n[y] = f.n[y]
      /\ \A y \in K!Links \ {b, x} : f2.p[y] = f.p[y]
  BY <1>4, <1>5, <1>6
<1> DEFINE Pair(u, v) == f2.n[u] = v /\ f2.p[v] = u
<1>8. ASSUME NEW g \in RingHeads, NEW i \in 0..Len(r[g]), g = h => i # k
      PROVE  Pair(Nd(g, r[g], i), Nd(g, r[g], i + 1))
  <2>1. Len(r[g]) \in Nat /\ i + 1 \in 1..Len(r[g]) + 1 /\ i + 1 \in Int /\ i \in Int
    BY <1>1, NdIs
  <2>2. Nd(g, r[g], i) \in K!Links /\ Nd(g, r[g], i + 1) \in K!Links
    BY <1>1, <2>1, NdIs
  <2>3. Nd(g, r[g], i) # a /\ Nd(g, r[g], i + 1) # b
    BY <1>1, <1>2, <1>8, <2>1, Distinct
  <2>4. Nd(g, r[g], i) # x /\ Nd(g, r[g], i + 1) # x
    BY <1>3, <2>1
  <2>5. f.n[Nd(g, r[g], i)] = Nd(g, r[g], i + 1) /\ f.p[Nd(g, r[g], i + 1)] = Nd(g, r[g], i)
    BY <1>1 DEF RingAt
  <2> QED
    BY <1>7, <2>2, <2>3, <2>4, <2>5
<1>9. \A i \in 0..Ln + 2 : Nd(h, t[h], i) = IF i <= k THEN Nd(h, r[h], i)
                                             ELSE IF i = k + 1 THEN x ELSE Nd(h, r[h], i - 1)
  BY <1>0, <1>2 DEF Nd
<1>10. RingAt(f2, h, t[h])
  <2> SUFFICES ASSUME NEW i \in 0..Ln + 1 PROVE Pair(Nd(h, t[h], i), Nd(h, t[h], i + 1))
    BY <1>0 DEF RingAt
  <2>1. i \in 0..Ln + 2 /\ i + 1 \in 0..Ln + 2 /\ i \in Int /\ k \in Int
    BY <1>2
  <2>2. CASE i < k
    <3>1. Nd(h, t[h], i) = Nd(h, r[h], i) /\ Nd(h, t[h], i + 1) = Nd(h, r[h], i + 1)
      BY <1>9, <2>1, <2>2
    <3>2. i \in 0..Ln /\ i # k
      BY <1>2, <2>1, <2>2
    <3> QED
      BY <1>8, <3>1, <3>2
  <2>3. CASE i = k
    <3>1. Nd(h, t[h], i) = a /\ Nd(h, t[h], i + 1) = x
      BY <1>9, <2>1, <2>3
    <3> QED
      BY <1>7, <3>1
  <2>4. CASE i = k + 1
    <3>1. Nd(h, t[h], i) = x /\ Nd(h, t[h], i + 1) = b
      BY <1>9, <2>1, <2>4
    <3> QED
      BY <1>7, <3>1
  <2>5. CASE i > k + 1
    <3>1. Nd(h, t[h], i) = Nd(h, r[h], i - 1) /\ Nd(h, t[h], i + 1) = Nd(h, r[h], (i + 1) - 1)
      BY <1>9, <2>1, <2>5
    <3>2. i - 1 \in 0..Ln /\ i - 1 # k /\ (i + 1) - 1 = (i - 1) + 1
      BY <1>2, <2>1, <2>5
    <3> QED
      BY <1>8, <3>1, <3>2
  <2> QED
    BY <2>1, <2>2, <2>3, <2>4, <2>5
<1>11. Apart(t) /\ \A y : Occurs(y, t) <=> Occurs(y, r) \/ y = x
  <2>1. r \in [RingHeads -> Seq(RingNodes)] /\ t \in [RingHeads -> Seq(RingNodes)]
    BY <1>1 DEF Rings
  <2> QED
    BY ONLY <1>1, <2>1, PutAt(r, t, h, k, x), h \in RingHeads, k \in 0..Len(r[h]), ~Occurs(x, r), PutApart
<1>12. ASSUME NEW y \in RingNodes, ~Occurs(y, t), f2.n[y] = y PROVE f2.p[y] = y
  <2>1. y # x /\ ~Occurs(y, r)
    BY <1>11, <1>12
  <2>2. y # a /\ y # b
    BY <1>1, <1>2, <2>1, LinksAssumption DEF Nd, Occurs, Rings
  <2>3. f.n[y] = y /\ y \in K!Links
    BY <1>7, <1>12, <2>1, <2>2 DEF K!Links
  <2> QED
    BY <1>7, <2>1, <2>2, <2>3 DEF Good
<1>13. \A g \in RingHeads : RingAt(f2, g, t[g])
  BY <1>0, <1>8, <1>10 DEF RingAt
<1>14. Good(f2, t)
  BY <1>1, <1>7, <1>11, <1>12, <1>13 DEF Good
<1> QED
  BY <1>11, <1>14 DEF f2

(* What an entry on no ring says does not matter to any.                   *)
LEMMA LooseKeeps ==
    ASSUME NEW r, NEW f, Good(f, r), NEW x \in RingNodes, ~Occurs(x, r), NEW a \in {x, NULL}
    PROVE  Good([n |-> [f.n EXCEPT ![x] = a], p |-> [f.p EXCEPT ![x] = a]], r)
<1> DEFINE f2 == [n |-> [f.n EXCEPT ![x] = a], p |-> [f.p EXCEPT ![x] = a]]
<1>1. r \in Rings /\ Apart(r) /\ \A g \in RingHeads : RingAt(f, g, r[g])
  BY DEF Good
<1>2. \A g \in RingHeads : \A i \in Int : Nd(g, r[g], i) # x
  BY <1>1, LinksAssumption DEF Nd, Occurs, Rings
<1>3. /\ f.n \in [K!Links -> K!Links \union {NULL}] /\ f.p \in [K!Links -> K!Links \union {NULL}]
      /\ x \in K!Links
  BY DEF Good, K!Links
<1>4. /\ f2 \in [n : [K!Links -> K!Links \union {NULL}], p : [K!Links -> K!Links \union {NULL}]]
      /\ f2.n[x] = a /\ f2.p[x] = a
      /\ \A y \in K!Links \ {x} : f2.n[y] = f.n[y] /\ f2.p[y] = f.p[y]
  BY <1>3
<1> HIDE DEF f2
<1>5. ASSUME NEW g \in RingHeads, NEW i \in 0..Len(r[g])
      PROVE  f2.n[Nd(g, r[g], i)] = Nd(g, r[g], i + 1) /\ f2.p[Nd(g, r[g], i + 1)] = Nd(g, r[g], i)
  <2>1. i \in Int /\ i + 1 \in Int
    BY <1>1, NdIs
  <2>2. Nd(g, r[g], i) \in K!Links \ {x} /\ Nd(g, r[g], i + 1) \in K!Links \ {x}
    BY <1>1, <1>2, <2>1, NdIs
  <2> QED
    BY <1>1, <1>4, <2>2 DEF RingAt
<1>6. \A y \in RingNodes : ~Occurs(y, r) /\ f2.n[y] = y => f2.p[y] = y
  BY <1>4 DEF Good, K!Links
<1>7. Good(f2, r)
  BY <1>1, <1>4, <1>5, <1>6 DEF Good, RingAt
<1> QED
  BY <1>7 DEF f2

FieldTypes == [n : [K!Links -> K!Links \union {NULL}], p : [K!Links -> K!Links \union {NULL}]]
Pair(f, u, v) == f.n[u] = v /\ f.p[v] = u

(* An entry with a neighbour is on a ring.                                 *)
LEMMA OnRing ==
    ASSUME NEW r \in Rings, NEW g \in RingHeads, NEW i \in Int, NEW y \in RingNodes, ~Occurs(y, r)
    PROVE  Nd(g, r[g], i) # y
BY LinksAssumption DEF Nd, Occurs, Rings

(* A ring that is not empty goes to another.                               *)
LEMMA SpliceKeeps ==
    ASSUME NEW r, NEW f, Good(f, r), NEW h \in RingHeads, NEW l \in RingHeads, l # h, r[l] # <<>>,
           NEW k \in 0..Len(r[h]), NEW t, t \in Rings, JoinAt(r, t, l, h, k)
    PROVE  Good(K!INIT_LIST_HEAD(K!Splice(f, l, Nd(h, r[h], k), Nd(h, r[h], k + 1)), l), t)
<1> DEFINE a == Nd(h, r[h], k)
           b == Nd(h, r[h], k + 1)
           m == Len(r[l])
           Ln == Len(r[h])
           first == Nd(l, r[l], 1)
           last == Nd(l, r[l], m)
           f2 == K!INIT_LIST_HEAD(K!Splice(f, l, a, b), l)
<1>1. r \in Rings /\ Apart(r) /\ \A g \in RingHeads : RingAt(f, g, r[g])
  BY DEF Good
<1>2. Ln \in Nat /\ k \in 0..Ln /\ m \in Nat /\ m >= 1 /\ k + 1 \in 1..Ln + 1 /\ m \in 0..m /\ 0 \in 0..m
      /\ 1 \in 1..m + 1 /\ m + 1 \in 1..m + 1 /\ k \in Int /\ k + 1 \in Int
  BY <1>1, NdIs DEF Rings
<1>3. Nd(l, r[l], 0) = l /\ Nd(l, r[l], m + 1) = l
  BY <1>1, NdIs
<1>4. f.n[l] = first /\ f.p[l] = last
  <2>1. 0 \in 0..m /\ m \in 0..m /\ 0 + 1 = 1
    BY <1>2
  <2> QED
    BY <1>1, <1>3, <2>1 DEF RingAt
<1>5. /\ a \in K!Links /\ b \in K!Links /\ first \in K!Links /\ last \in K!Links /\ l \in K!Links
      /\ a # last /\ a # l /\ last # l /\ first # b /\ first # l /\ b # l
  <2>1. a # last /\ a # l
    BY <1>1, <1>2, <1>3, Distinct
  <2>2. last # l
    BY <1>1, <1>2, <1>3, Distinct
  <2>3. first # b /\ b # l
    BY <1>1, <1>2, <1>3, Distinct
  <2>4. first # l
    BY <1>1, <1>2, <1>3, Distinct
  <2> QED
    BY <1>1, <1>2, <2>1, <2>2, <2>3, <2>4, NdIs DEF K!Links
<1>6. f2 = [n |-> [[f.n EXCEPT ![a] = first, ![last] = b] EXCEPT ![l] = l],
            p |-> [[f.p EXCEPT ![first] = a, ![b] = last] EXCEPT ![l] = l]]
  BY <1>4 DEF K!INIT_LIST_HEAD, K!Splice
<1>7. /\ f.n \in [K!Links -> K!Links \union {NULL}] /\ f.p \in [K!Links -> K!Links \union {NULL}]
  BY DEF Good
<1> HIDE DEF f2, first, last, a, b
<1>8. /\ f2 \in FieldTypes
      /\ Pair(f2, a, first) /\ Pair(f2, last, b) /\ Pair(f2, l, l)
      /\ \A y \in K!Links \ {a, last, l} : f2.n[y] = f.n[y]
      /\ \A y \in K!Links \ {first, b, l} : f2.p[y] = f.p[y]
  BY ONLY <1>5, <1>6, <1>7 DEF Pair, FieldTypes
<1>9. ASSUME NEW g \in RingHeads, NEW i \in 0..Len(r[g]), g = h => i # k, g = l => i # 0 /\ i # m
      PROVE  Pair(f2, Nd(g, r[g], i), Nd(g, r[g], i + 1))
  <2>1. Len(r[g]) \in Nat /\ i + 1 \in 1..Len(r[g]) + 1 /\ i \in Int
    BY <1>1, NdIs
  <2>2. Nd(g, r[g], i) # a /\ Nd(g, r[g], i + 1) # b
    BY <1>1, <1>2, <1>9, <2>1, Distinct DEF a, b
  <2>3. Nd(g, r[g], i) # last /\ Nd(g, r[g], i + 1) # first
    BY <1>1, <1>2, <1>9, <2>1, Distinct DEF last, first
  <2>4. Nd(g, r[g], i) # l /\ Nd(g, r[g], i + 1) # l
    BY <1>1, <1>2, <1>3, <1>9, <2>1, Distinct
  <2>6. Nd(g, r[g], i) \in K!Links /\ Nd(g, r[g], i + 1) \in K!Links
    BY <1>1, <2>1, NdIs
  <2>7. f.n[Nd(g, r[g], i)] = Nd(g, r[g], i + 1) /\ f.p[Nd(g, r[g], i + 1)] = Nd(g, r[g], i)
    BY <1>1 DEF RingAt
  <2> QED
    BY <1>8, <2>2, <2>3, <2>4, <2>6, <2>7 DEF Pair
<1>0. /\ \A g \in RingHeads \ {h, l} : t[g] = r[g]
      /\ t[l] = <<>> /\ Len(t[h]) = Ln + m
  BY <1>1 DEF JoinAt, Rings
<1>a. \A i \in 1..Ln + m :
          t[h][i] = IF i <= k THEN r[h][i] ELSE IF i <= k + m THEN r[l][i - k] ELSE r[h][i - m]
  BY <1>1 DEF JoinAt, Rings
<1>10. \A i \in 0..Ln + m + 1 :
          Nd(h, t[h], i) = IF i <= k THEN Nd(h, r[h], i)
                           ELSE IF i <= k + m THEN Nd(l, r[l], i - k) ELSE Nd(h, r[h], i - m)
  <2> SUFFICES ASSUME NEW i \in 0..Ln + m + 1
               PROVE  Nd(h, t[h], i) = IF i <= k THEN Nd(h, r[h], i)
                           ELSE IF i <= k + m THEN Nd(l, r[l], i - k) ELSE Nd(h, r[h], i - m)
    OBVIOUS
  <2> HIDE DEF Ln, m
  <2>0. Ln \in Nat /\ m \in Nat /\ k \in 0..Ln /\ i \in Int
    BY <1>2
  <2>1. CASE i = 0
    BY <1>0, <2>0, <2>1 DEF Nd
  <2>2. CASE i = Ln + m + 1
    <3>1. ~(i \in 1..Len(t[h])) /\ i - m = Ln + 1 /\ ~(i <= k) /\ ~(i <= k + m) /\ ~(Ln + 1 \in 1..Ln)
      BY <1>0, <2>0, <2>2
    <3> QED
      BY <3>1 DEF Nd, Ln
  <2>3. CASE i \in 1..Ln + m
    <3>1. t[h][i] = IF i <= k THEN r[h][i] ELSE IF i <= k + m THEN r[l][i - k] ELSE r[h][i - m]
      BY ONLY <1>a, <2>3
    <3>2. /\ i \in 1..Len(t[h]) /\ (i <= k => i \in 1..Ln)
          /\ (~(i <= k) /\ i <= k + m => i - k \in 1..m)
          /\ (~(i <= k + m) => i - m \in 1..Ln)
      BY <1>0, <2>0, <2>3
    <3> QED
      BY <2>0, <3>1, <3>2 DEF Nd, Ln, m
  <2> QED
    BY <2>0, <2>1, <2>2, <2>3
<1>11. ASSUME NEW i \in 0..Ln + m PROVE Pair(f2, Nd(h, t[h], i), Nd(h, t[h], i + 1))
  <2> HIDE DEF Ln, m
  <2>1. i \in 0..Ln + m + 1 /\ i + 1 \in 0..Ln + m + 1 /\ i \in Int
    BY <1>2
  <2>7. Nd(h, t[h], i) = IF i <= k THEN Nd(h, r[h], i)
                         ELSE IF i <= k + m THEN Nd(l, r[l], i - k) ELSE Nd(h, r[h], i - m)
    BY ONLY <1>10, <2>1
  <2>8. Nd(h, t[h], i + 1) = IF i + 1 <= k THEN Nd(h, r[h], i + 1)
                             ELSE IF i + 1 <= k + m THEN Nd(l, r[l], (i + 1) - k) ELSE Nd(h, r[h], (i + 1) - m)
    BY ONLY <1>10, <2>1
  <2>2. CASE i < k
    <3>1. Nd(h, t[h], i) = Nd(h, r[h], i) /\ Nd(h, t[h], i + 1) = Nd(h, r[h], i + 1)
      <4>1. i <= k /\ i + 1 <= k
        BY <1>2, <2>1, <2>2
      <4> QED
        BY ONLY <2>7, <2>8, <4>1
    <3>2. i \in 0..Len(r[h]) /\ i # k
      BY <1>2, <2>1, <2>2 DEF Ln
    <3> QED
      BY <1>9, <3>1, <3>2
  <2>3. CASE i = k
    <3>1. Nd(h, t[h], i) = Nd(h, r[h], k) /\ Nd(h, t[h], i + 1) = Nd(l, r[l], 1)
      <4>1. i <= k /\ ~(i + 1 <= k) /\ i + 1 <= k + m /\ (i + 1) - k = 1
        BY <1>2, <2>3
      <4> QED
        BY ONLY <2>3, <2>7, <2>8, <4>1
    <3> QED
      BY <1>8, <3>1 DEF a, first
  <2>4. CASE k < i /\ i < k + m
    <3>1. Nd(h, t[h], i) = Nd(l, r[l], i - k) /\ Nd(h, t[h], i + 1) = Nd(l, r[l], (i + 1) - k)
      <4>1. ~(i <= k) /\ i <= k + m /\ ~(i + 1 <= k) /\ i + 1 <= k + m
        BY <1>2, <2>1, <2>4
      <4> QED
        BY ONLY <2>7, <2>8, <4>1
    <3>2. i - k \in 0..Len(r[l]) /\ i - k # 0 /\ i - k # m /\ (i + 1) - k = (i - k) + 1
      BY <1>2, <2>1, <2>4 DEF m
    <3> QED
      BY <1>9, <3>1, <3>2
  <2>5. CASE i = k + m
    <3>1. Nd(h, t[h], i) = Nd(l, r[l], m) /\ Nd(h, t[h], i + 1) = Nd(h, r[h], k + 1)
      <4>1. ~(i <= k) /\ i <= k + m /\ ~(i + 1 <= k) /\ ~(i + 1 <= k + m) /\ i - k = m /\ (i + 1) - m = k + 1
        BY <1>2, <2>1, <2>5
      <4> QED
        BY ONLY <2>7, <2>8, <4>1
    <3> QED
      BY <1>8, <3>1 DEF b, last
  <2>6. CASE i > k + m
    <3>1. Nd(h, t[h], i) = Nd(h, r[h], i - m) /\ Nd(h, t[h], i + 1) = Nd(h, r[h], (i + 1) - m)
      <4>1. ~(i <= k) /\ ~(i <= k + m) /\ ~(i + 1 <= k) /\ ~(i + 1 <= k + m)
        BY <1>2, <2>1, <2>6
      <4> QED
        BY ONLY <2>7, <2>8, <4>1
    <3>2. i - m \in 0..Len(r[h]) /\ i - m # k /\ (i + 1) - m = (i - m) + 1
      BY <1>2, <2>1, <2>6 DEF Ln
    <3> QED
      BY <1>9, <3>1, <3>2
  <2> QED
    BY <1>2, <2>1, <2>2, <2>3, <2>4, <2>5, <2>6
<1>12. RingAt(f2, l, t[l])
  <2>1. Len(t[l]) = 0 /\ \A i \in Int : Nd(l, t[l], i) = l
    BY <1>0 DEF Nd
  <2> QED
    BY <1>8, <2>1 DEF RingAt, Pair
<1>13. RingAt(f2, h, t[h])
  BY <1>0, <1>11 DEF RingAt, Pair
<1>14. \A g \in RingHeads \ {h, l} : RingAt(f2, g, t[g])
  BY <1>0, <1>9 DEF RingAt, Pair
<1>15. Apart(t) /\ \A y : Occurs(y, t) <=> Occurs(y, r)
  <2>1. r \in [RingHeads -> Seq(RingNodes)] /\ t \in [RingHeads -> Seq(RingNodes)]
    BY <1>1 DEF Rings
  <2> QED
    BY ONLY <1>1, <2>1, JoinAt(r, t, l, h, k), h \in RingHeads, l \in RingHeads, l # h,
            k \in 0..Len(r[h]), JoinApart
<1>16. ASSUME NEW y \in RingNodes, ~Occurs(y, t), f2.n[y] = y PROVE f2.p[y] = y
  <2>1. ~Occurs(y, r) /\ y \in K!Links
    BY <1>15, <1>16 DEF K!Links
  <2>2. y \notin {a, last, l} /\ y \notin {first, b, l}
    <3>1. y # a /\ y # b
      BY <1>1, <1>2, <2>1, OnRing DEF a, b
    <3>2. y # first /\ y # last /\ y # l
      BY <1>1, <1>2, <1>3, <2>1, OnRing DEF first, last
    <3> QED
      BY <3>1, <3>2
  <2> QED
    BY <1>8, <1>16, <2>1, <2>2 DEF Good
<1>17. Good(f2, t)
  BY <1>8, <1>12, <1>13, <1>14, <1>15, <1>16 DEF Good, FieldTypes
<1> QED
  BY <1>17 DEF f2, a, b

(* A ring is cut behind an entry, and its first part goes to another head. *)
LEMMA SplitKeeps ==
    ASSUME NEW r, NEW f, Good(f, r), NEW h \in RingHeads, NEW l \in RingHeads, l # h, r[l] = <<>>,
           NEW k \in 1..Len(r[h]), NEW t, t \in Rings, SplitAt(r, t, l, h, k)
    PROVE  Good(K!CutPosition(f, l, h, r[h][k]), t)
<1> DEFINE Ln == Len(r[h])
           x == Nd(h, r[h], k)
           b == Nd(h, r[h], k + 1)
           first == Nd(h, r[h], 1)
           f2 == K!CutPosition(f, l, h, x)
<1>1. r \in Rings /\ Apart(r) /\ \A g \in RingHeads : RingAt(f, g, r[g])
  BY DEF Good
<1>2. Ln \in Nat /\ k \in 1..Ln /\ Ln >= 1 /\ k + 1 \in 1..Ln + 1 /\ k \in 0..Ln /\ 0 \in 0..Ln
      /\ 1 \in 1..Ln + 1 /\ Ln + 1 \in 1..Ln + 1 /\ k \in Int /\ k + 1 \in Int /\ k # 0 /\ 1 # k + 1
  BY <1>1, NdIs
<1>3. /\ Nd(h, r[h], 0) = h /\ Nd(h, r[h], Ln + 1) = h /\ r[h][k] = x
      /\ \A i \in Int : Nd(l, r[l], i) = l
      /\ Len(r[l]) = 0 /\ 0 \in 0..Len(r[l]) /\ 1 \in 1..Len(r[l]) + 1
  BY <1>1, <1>2, NdIs DEF Nd
<1>4. f.n[h] = first /\ f.n[x] = b
  <2>1. 0 + 1 = 1
    OBVIOUS
  <2> QED
    BY <1>1, <1>2, <1>3, <2>1 DEF RingAt
<1>5. /\ h \in K!Links /\ l \in K!Links /\ x \in K!Links /\ b \in K!Links /\ first \in K!Links
      /\ h # x /\ h # l /\ x # l /\ first # b /\ first # l /\ b # l
  <2>1. h # x
    BY <1>1, <1>2, <1>3, Distinct
  <2>2. x # l
    <3>1. Nd(l, r[l], 0) = l /\ 0 \in 0..Len(r[l])
      BY <1>3
    <3> QED
      BY <1>1, <1>2, <3>1, Distinct
  <2>3. first # b
    BY <1>1, <1>2, Distinct
  <2>4. first # l /\ b # l
    <3>1. Nd(l, r[l], 1) = l /\ 1 \in 1..Len(r[l]) + 1
      BY <1>3
    <3> QED
      BY <1>1, <1>2, <3>1, Distinct
  <2> QED
    BY <1>1, <1>2, <2>1, <2>2, <2>3, <2>4, NdIs DEF K!Links
<1>6. f2 = [n |-> [f.n EXCEPT ![l] = first, ![x] = l, ![h] = b],
            p |-> [f.p EXCEPT ![first] = l, ![l] = x, ![b] = h]]
  BY <1>4 DEF K!CutPosition
<1>7. /\ f.n \in [K!Links -> K!Links \union {NULL}] /\ f.p \in [K!Links -> K!Links \union {NULL}]
  BY DEF Good
<1> HIDE DEF f2, first, b, x
<1>8. /\ f2 \in FieldTypes
      /\ Pair(f2, l, first) /\ Pair(f2, x, l) /\ Pair(f2, h, b)
      /\ \A y \in K!Links \ {l, x, h} : f2.n[y] = f.n[y]
      /\ \A y \in K!Links \ {first, l, b} : f2.p[y] = f.p[y]
  BY ONLY <1>5, <1>6, <1>7 DEF Pair, FieldTypes
<1>9. ASSUME NEW g \in RingHeads, NEW i \in 0..Len(r[g]), g = h => i # k /\ i # 0, g # l
      PROVE  Pair(f2, Nd(g, r[g], i), Nd(g, r[g], i + 1))
  <2>1. Len(r[g]) \in Nat /\ i + 1 \in 1..Len(r[g]) + 1 /\ i \in Int
    BY <1>1, NdIs
  <2>2. Nd(g, r[g], i) # x /\ Nd(g, r[g], i + 1) # b
    BY <1>1, <1>2, <1>9, <2>1, Distinct DEF x, b
  <2>3. Nd(g, r[g], i) # h /\ Nd(g, r[g], i + 1) # first
    <3>1. Nd(g, r[g], i) # h
      BY <1>1, <1>2, <1>3, <1>9, <2>1, Distinct
    <3>2. Nd(g, r[g], i + 1) # first
      BY <1>1, <1>2, <1>9, <2>1, Distinct DEF first
    <3> QED
      BY <3>1, <3>2
  <2>4. Nd(g, r[g], i) # l /\ Nd(g, r[g], i + 1) # l
    <3>1. Nd(l, r[l], 1) = l /\ 1 \in 1..Len(r[l]) + 1 /\ Nd(l, r[l], 0) = l /\ 0 \in 0..Len(r[l])
      BY <1>3
    <3> QED
      BY <1>1, <1>9, <2>1, <3>1, Distinct
  <2>6. Nd(g, r[g], i) \in K!Links /\ Nd(g, r[g], i + 1) \in K!Links
    BY <1>1, <2>1, NdIs
  <2>7. f.n[Nd(g, r[g], i)] = Nd(g, r[g], i + 1) /\ f.p[Nd(g, r[g], i + 1)] = Nd(g, r[g], i)
    BY <1>1 DEF RingAt
  <2> QED
    BY <1>8, <2>2, <2>3, <2>4, <2>6, <2>7 DEF Pair
<1>0. /\ \A g \in RingHeads \ {h, l} : t[g] = r[g]
      /\ Len(t[l]) = k /\ Len(t[h]) = Ln - k
  BY <1>1 DEF SplitAt, Rings
<1>a. \A i \in 1..k : t[l][i] = r[h][i]
  BY DEF SplitAt
<1>b. \A i \in 1..Ln - k : t[h][i] = r[h][i + k]
  BY DEF SplitAt
<1>10. ASSUME NEW i \in 0..k PROVE Pair(f2, Nd(l, t[l], i), Nd(l, t[l], i + 1))
  <2>1. \A j \in 1..k : Nd(l, t[l], j) = Nd(h, r[h], j)
    <3> SUFFICES ASSUME NEW j \in 1..k PROVE Nd(l, t[l], j) = Nd(h, r[h], j)
      OBVIOUS
    <3>1. j \in 1..Len(t[l]) /\ j \in 1..Len(r[h])
      BY <1>0, <1>2
    <3> QED
      BY <1>a, <3>1 DEF Nd
  <2>2. Nd(l, t[l], 0) = l /\ Nd(l, t[l], k + 1) = l
    <3>1. 0 \notin 1..Len(t[l]) /\ k + 1 \notin 1..Len(t[l])
      BY <1>0, <1>2
    <3> QED
      BY <3>1 DEF Nd
  <2>3. CASE i = 0
    <3>1. Nd(l, t[l], i) = l /\ Nd(l, t[l], i + 1) = Nd(h, r[h], 1)
      BY <1>2, <2>1, <2>2, <2>3
    <3> QED
      BY <1>8, <3>1 DEF first
  <2>4. CASE i # 0 /\ i # k
    <3>1. i \in 1..k /\ i + 1 \in 1..k /\ i \in 0..Len(r[h])
      BY <1>2, <2>4
    <3> QED
      BY <1>9, <2>1, <2>4, <3>1
  <2>5. CASE i = k
    <3>1. Nd(l, t[l], i) = Nd(h, r[h], k) /\ Nd(l, t[l], i + 1) = l
      BY <1>2, <2>1, <2>2, <2>5
    <3> QED
      BY <1>8, <3>1 DEF x
  <2> QED
    BY <1>2, <2>3, <2>4, <2>5
<1>11. ASSUME NEW i \in 0..Ln - k PROVE Pair(f2, Nd(h, t[h], i), Nd(h, t[h], i + 1))
  <2>1. \A j \in 1..(Ln - k) + 1 : Nd(h, t[h], j) = Nd(h, r[h], j + k)
    <3> SUFFICES ASSUME NEW j \in 1..(Ln - k) + 1 PROVE Nd(h, t[h], j) = Nd(h, r[h], j + k)
      OBVIOUS
    <3>1. CASE j \in 1..Ln - k
      <4>1. j \in 1..Len(t[h]) /\ j + k \in 1..Len(r[h])
        BY <1>0, <1>2, <3>1
      <4> QED
        BY <1>b, <3>1, <4>1 DEF Nd
    <3>2. CASE j = (Ln - k) + 1
      <4>1. j \notin 1..Len(t[h]) /\ j + k \notin 1..Len(r[h])
        BY <1>0, <1>2, <3>2
      <4> QED
        BY <4>1 DEF Nd
    <3> QED
      BY <1>2, <3>1, <3>2
  <2>2. Nd(h, t[h], 0) = h
    BY DEF Nd
  <2>3. CASE i = 0
    <3>1. 1 \in 1..(Ln - k) + 1 /\ 1 + k = k + 1 /\ i + 1 = 1
      BY <1>2, <2>3
    <3>2. Nd(h, t[h], i) = h /\ Nd(h, t[h], i + 1) = Nd(h, r[h], k + 1)
      BY <2>1, <2>2, <2>3, <3>1
    <3> QED
      BY <1>8, <3>2 DEF b
  <2>4. CASE i # 0
    <3>1. i \in 1..(Ln - k) + 1 /\ i + 1 \in 1..(Ln - k) + 1 /\ (i + 1) + k = (i + k) + 1
          /\ i + k \in 0..Len(r[h]) /\ i + k # k /\ i + k # 0
      BY <1>2, <2>4
    <3>2. Nd(h, t[h], i) = Nd(h, r[h], i + k) /\ Nd(h, t[h], i + 1) = Nd(h, r[h], (i + k) + 1)
      BY <2>1, <3>1
    <3> QED
      BY <1>9, <3>1, <3>2
  <2> QED
    BY <2>3, <2>4
<1>12. RingAt(f2, l, t[l])
  BY <1>0, <1>10 DEF RingAt, Pair
<1>13. RingAt(f2, h, t[h])
  BY <1>0, <1>11 DEF RingAt, Pair
<1>14. \A g \in RingHeads \ {h, l} : RingAt(f2, g, t[g])
  BY <1>0, <1>9 DEF RingAt, Pair
<1>15. Apart(t) /\ \A y : Occurs(y, t) <=> Occurs(y, r)
  <2>1. r \in [RingHeads -> Seq(RingNodes)] /\ t \in [RingHeads -> Seq(RingNodes)] /\ k \in 0..Len(r[h])
    BY <1>1, <1>2 DEF Rings
  <2> QED
    BY ONLY <1>1, <2>1, SplitAt(r, t, l, h, k), h \in RingHeads, l \in RingHeads, l # h, r[l] = <<>>,
            SplitApart
<1>16. ASSUME NEW y \in RingNodes, ~Occurs(y, t), f2.n[y] = y PROVE f2.p[y] = y
  <2>1. ~Occurs(y, r) /\ y \in K!Links
    BY <1>15, <1>16 DEF K!Links
  <2>2. y \notin {l, x, h} /\ y \notin {first, l, b}
    <3>1. y # x /\ y # b
      BY <1>1, <1>2, <2>1, OnRing DEF x, b
    <3>2. y # first /\ y # h /\ y # l
      BY <1>1, <2>1, OnRing, LinksAssumption DEF first
    <3> QED
      BY <3>1, <3>2
  <2> QED
    BY <1>8, <1>16, <2>1, <2>2 DEF Good
<1>17. Good(f2, t)
  BY <1>8, <1>12, <1>13, <1>14, <1>15, <1>16 DEF Good, FieldTypes
<1> QED
  BY <1>3, <1>17 DEF f2

(* What the operations do to the sequences, by places.                     *)
LEMMA CutOf ==
    ASSUME NEW r \in Rings, Apart(r), NEW h \in RingHeads, NEW k \in 1..Len(r[h])
    PROVE  LET t == [g \in RingHeads |-> K!RemoveFirst(r[g], r[h][k])]
           IN  t \in Rings /\ CutAt(r, t, h, k)
<1> DEFINE x == r[h][k]
           t == [g \in RingHeads |-> K!RemoveFirst(r[g], x)]
<1>1. \A g \in RingHeads : r[g] \in Seq(RingNodes)
  BY DEF Rings
<1>2. /\ t[h] \in Seq(RingNodes) /\ Len(t[h]) = Len(r[h]) - 1
      /\ \A i \in 1..Len(r[h]) - 1 : t[h][i] = IF i < k THEN r[h][i] ELSE r[h][i + 1]
  <2>1. \A j \in 1..Len(r[h]) : r[h][j] = r[h][k] => j = k
    BY DEF Apart, Rings
  <2> QED
    BY <1>1, <2>1, RemovedFirst
<1>3. ASSUME NEW g \in RingHeads \ {h} PROVE t[g] = r[g]
  <2>1. \A j \in 1..Len(r[g]) : r[g][j] # x
    BY DEF Apart, Rings
  <2> QED
    BY <1>1, <2>1, NotRemoved
<1>4. t \in Rings
  BY <1>1, <1>2, <1>3 DEF Rings
<1>5. CutAt(r, t, h, k)
  BY <1>2, <1>3 DEF CutAt, Rings
<1> QED
  BY <1>4, <1>5

LEMMA FirstOf ==
    ASSUME NEW r \in Rings, NEW h \in RingHeads, NEW x \in RingNodes
    PROVE  LET t == [r EXCEPT ![h] = <<x>> \o @] IN t \in Rings /\ PutAt(r, t, h, 0, x)
<1> DEFINE t == [r EXCEPT ![h] = <<x>> \o @]
<1>1. r[h] \in Seq(RingNodes) /\ t[h] = <<x>> \o r[h] /\ \A g \in RingHeads \ {h} : t[g] = r[g]
  BY DEF Rings
<1>2. /\ t[h] \in Seq(RingNodes) /\ Len(t[h]) = Len(r[h]) + 1
      /\ \A i \in 1..Len(r[h]) + 1 : t[h][i] = IF i = 1 THEN x ELSE r[h][i - 1]
  BY <1>1, PutFirst
<1>3. t \in Rings
  BY <1>1, <1>2 DEF Rings
<1>4. PutAt(r, t, h, 0, x)
  BY <1>1, <1>2 DEF PutAt, Rings
<1> QED
  BY <1>3, <1>4

LEMMA LastOf ==
    ASSUME NEW r \in Rings, NEW h \in RingHeads, NEW x \in RingNodes
    PROVE  LET t == [r EXCEPT ![h] = Append(@, x)] IN t \in Rings /\ PutAt(r, t, h, Len(r[h]), x)
<1> DEFINE t == [r EXCEPT ![h] = Append(@, x)]
<1>1. r[h] \in Seq(RingNodes) /\ t[h] = Append(r[h], x) /\ \A g \in RingHeads \ {h} : t[g] = r[g]
  BY DEF Rings
<1>2. /\ t[h] \in Seq(RingNodes) /\ Len(t[h]) = Len(r[h]) + 1
      /\ \A i \in 1..Len(r[h]) + 1 : t[h][i] = IF i <= Len(r[h]) THEN r[h][i] ELSE x
  BY <1>1, PutLast
<1>3. t \in Rings
  BY <1>1, <1>2 DEF Rings
<1>4. PutAt(r, t, h, Len(r[h]), x)
  BY <1>1, <1>2 DEF PutAt, Rings
<1> QED
  BY <1>3, <1>4

(* At either end of a ring.                                                *)
LEMMA AddFirst ==
    ASSUME NEW r, NEW f, Good(f, r), NEW h \in RingHeads, NEW x \in RingNodes, ~Occurs(x, r)
    PROVE  LET t == [r EXCEPT ![h] = <<x>> \o @]
           IN  Good(K!ListAdd(f, x, h, f.n[h]), t) /\ \A y : Occurs(y, t) <=> Occurs(y, r) \/ y = x
<1> DEFINE t == [r EXCEPT ![h] = <<x>> \o @]
<1>1. r \in Rings /\ RingAt(f, h, r[h]) /\ 0 \in 0..Len(r[h]) /\ 0 + 1 = 1
  BY NdIs DEF Good
<1>2. Nd(h, r[h], 0) = h /\ Nd(h, r[h], 0 + 1) = f.n[h]
  BY <1>1, NdIs DEF RingAt
<1>3. t \in Rings /\ PutAt(r, t, h, 0, x)
  BY <1>1, FirstOf
<1> HIDE DEF t
<1>4. /\ Good(K!ListAdd(f, x, Nd(h, r[h], 0), Nd(h, r[h], 0 + 1)), t)
      /\ \A y : Occurs(y, t) <=> Occurs(y, r) \/ y = x
  BY <1>1, <1>3, AddKeeps
<1> QED
  BY <1>2, <1>4 DEF t

LEMMA AddLast ==
    ASSUME NEW r, NEW f, Good(f, r), NEW h \in RingHeads, NEW x \in RingNodes, ~Occurs(x, r)
    PROVE  LET t == [r EXCEPT ![h] = Append(@, x)]
           IN  Good(K!ListAdd(f, x, f.p[h], h), t) /\ \A y : Occurs(y, t) <=> Occurs(y, r) \/ y = x
<1> DEFINE t == [r EXCEPT ![h] = Append(@, x)]
           Ln == Len(r[h])
<1>1. r \in Rings /\ RingAt(f, h, r[h]) /\ Ln \in 0..Ln
  BY NdIs DEF Good
<1>2. Nd(h, r[h], Ln + 1) = h /\ Nd(h, r[h], Ln) = f.p[h]
  BY <1>1, NdIs DEF RingAt
<1>3. t \in Rings /\ PutAt(r, t, h, Ln, x)
  BY <1>1, LastOf
<1> HIDE DEF t
<1>4. /\ Good(K!ListAdd(f, x, Nd(h, r[h], Ln), Nd(h, r[h], Ln + 1)), t)
      /\ \A y : Occurs(y, t) <=> Occurs(y, r) \/ y = x
  BY <1>1, <1>3, AddKeeps
<1> QED
  BY <1>2, <1>4 DEF t

LEMMA RemoveKeeps ==
    ASSUME NEW f, Good(f, ring), NEW x, K!Linked(x)
    PROVE  /\ Good(K!Unlink(f, x), K!Removed(x))
           /\ \A y : Occurs(y, K!Removed(x)) <=> Occurs(y, ring) /\ y # x
<1>1. ring \in Rings /\ Apart(ring)
  BY DEF Good
<1>2. PICK h \in RingHeads : \E k \in 1..Len(ring[h]) : ring[h][k] = x
  BY <1>1 DEF K!Linked, K!ToSet, Rings
<1>3. PICK k \in 1..Len(ring[h]) : ring[h][k] = x
  BY <1>2
<1>4. K!Removed(x) \in Rings /\ CutAt(ring, K!Removed(x), h, k)
  BY <1>1, <1>3, CutOf DEF K!Removed
<1> QED
  BY <1>3, <1>4, UnlinkKeeps

(* The rings as they stand.                                                *)
RingInv == Good(K!Fields, ring)

LEMMA LinkedIs == ASSUME RingInv, NEW x PROVE K!Linked(x) <=> Occurs(x, ring)
<1>1. ring \in Rings
  BY DEF RingInv, Good
<1>2. \A h \in RingHeads : DOMAIN ring[h] = 1..Len(ring[h])
  BY <1>1 DEF Rings
<1> QED
  BY <1>1, <1>2 DEF K!Linked, K!ToSet, Occurs, Rings

LEMMA Stored ==
    ASSUME NEW f, NEW t, Good(f, t), K!Keep(f), ring' = t
    PROVE  RingInv'
<1>1. f \in [n : [K!Links -> K!Links \union {NULL}], p : [K!Links -> K!Links \union {NULL}]]
  BY DEF Good
<1>2. K!Fields' = f
  BY <1>1 DEF K!Keep, K!Fields
<1>3. Good(K!Fields', ring')
  BY <1>2
<1> QED
  BY <1>3 DEF RingInv, Good, Rings, Apart, RingAt, Nd, Occurs, K!Links

LEMMA RingStart == ASSUME K!Init PROVE RingInv
<1>1. \A h \in RingHeads : ring[h] = <<>> /\ next[h] = h /\ prev[h] = h /\ h \in K!Links
  BY DEF K!Init, K!Links
<1>2. ring \in Rings /\ DOMAIN ring = RingHeads
  <2>1. ring = [h \in RingHeads |-> <<>>] /\ <<>> \in Seq(RingNodes)
    BY EmptySeq DEF K!Init
  <2> QED
    BY <2>1 DEF Rings
<1>3. Apart(ring) /\ \A x : ~Occurs(x, ring)
  BY <1>1, <1>2 DEF Apart, Occurs
<1>4. next \in [K!Links -> K!Links \union {NULL}] /\ prev \in [K!Links -> K!Links \union {NULL}]
  BY DEF K!Init, K!Links
<1>5. \A h \in RingHeads : RingAt(K!Fields, h, ring[h])
  BY <1>1 DEF RingAt, Nd, K!Fields
<1>6. \A x \in RingNodes : next[x] = x => prev[x] = x
  BY DEF K!Init
<1> QED
  BY <1>2, <1>3, <1>4, <1>5, <1>6 DEF RingInv, Good, K!Fields

LEMMA ListAddKeeps ==
    ASSUME RingInv, NEW x \in RingNodes, NEW h \in RingHeads, K!list_add(x, h) \/ K!list_add_tail(x, h)
    PROVE  RingInv'
<1>1. ~Occurs(x, ring) /\ K!Fields.n = next /\ K!Fields.p = prev
  BY LinkedIs DEF K!list_add, K!list_add_tail, K!Fields
<1>2. CASE K!list_add(x, h)
  <2>1. Good(K!ListAdd(K!Fields, x, h, next[h]), ring')
    BY <1>1, <1>2, AddFirst DEF RingInv, K!list_add
  <2> QED
    BY <1>2, <2>1, Stored DEF K!list_add
<1>3. CASE K!list_add_tail(x, h)
  <2>1. Good(K!ListAdd(K!Fields, x, prev[h], h), ring')
    BY <1>1, <1>3, AddLast DEF RingInv, K!list_add_tail
  <2> QED
    BY <1>3, <2>1, Stored DEF K!list_add_tail
<1> QED
  BY <1>2, <1>3

LEMMA ListDelKeeps == ASSUME RingInv, NEW x \in RingNodes, K!list_del(x) PROVE RingInv'
<1> DEFINE f == K!Unlink(K!Fields, x)
           f2 == [n |-> [f.n EXCEPT ![x] = NULL], p |-> [f.p EXCEPT ![x] = NULL]]
<1>1. Good(f, K!Removed(x)) /\ ~Occurs(x, K!Removed(x))
  BY RemoveKeeps DEF RingInv, K!list_del
<1>2. K!Keep(f2) /\ ring' = K!Removed(x)
  BY DEF K!list_del
<1> HIDE DEF f
<1>3. Good(f2, K!Removed(x))
  BY <1>1, LooseKeeps
<1> QED
  BY <1>2, <1>3, Stored

LEMMA ListDelInitKeeps == ASSUME RingInv, NEW x \in RingNodes, K!list_del_init(x) PROVE RingInv'
<1> DEFINE f == K!Unlink(K!Fields, x)
           f2 == [n |-> [f.n EXCEPT ![x] = x], p |-> [f.p EXCEPT ![x] = x]]
<1>1. K!Keep(f2) /\ ring' = K!Removed(x)
  BY DEF K!list_del_init, K!INIT_LIST_HEAD
<1>2. CASE K!Linked(x)
  <2>1. Good(f, K!Removed(x)) /\ ~Occurs(x, K!Removed(x))
    BY <1>2, RemoveKeeps DEF RingInv
  <2> HIDE DEF f
  <2>2. Good(f2, K!Removed(x))
    BY <2>1, LooseKeeps
  <2> QED
    BY <1>1, <2>2, Stored
<1>3. CASE ~K!Linked(x)
  <2>1. ~Occurs(x, ring) /\ next[x] = x /\ ring \in Rings /\ DOMAIN ring = RingHeads
    BY <1>3, LinkedIs DEF K!list_del_init, RingInv, Good, Rings
  <2>2. prev[x] = x
    BY <2>1 DEF RingInv, Good, K!Fields
  <2>3. /\ next \in [K!Links -> K!Links \union {NULL}] /\ prev \in [K!Links -> K!Links \union {NULL}]
        /\ x \in K!Links
    BY DEF RingInv, Good, K!Fields, K!Links
  <2>4. f2 = K!Fields
    BY <2>1, <2>2, <2>3 DEF K!Fields, K!Unlink, K!ListDel
  <2>5. \A h \in RingHeads : K!RemoveFirst(ring[h], x) = ring[h]
    <3> SUFFICES ASSUME NEW h \in RingHeads PROVE K!RemoveFirst(ring[h], x) = ring[h]
      OBVIOUS
    <3>1. ring[h] \in Seq(RingNodes) /\ \A j \in 1..Len(ring[h]) : ring[h][j] # x
      BY <2>1 DEF Occurs, Rings
    <3> QED
      BY <3>1, NotRemoved
  <2>6. K!Removed(x) = ring
    BY <2>1, <2>5 DEF K!Removed, Rings
  <2> HIDE DEF f2
  <2> QED
    BY <1>1, <2>4, <2>6, Stored DEF RingInv
<1> QED
  BY <1>2, <1>3

LEMMA ListMoveKeeps ==
    ASSUME RingInv, NEW x \in RingNodes, NEW h \in RingHeads, K!list_move(x, h) \/ K!list_move_tail(x, h)
    PROVE  RingInv'
<1> DEFINE f == K!Unlink(K!Fields, x)
           r == K!Removed(x)
<1>1. Good(f, r) /\ ~Occurs(x, r)
  BY RemoveKeeps DEF RingInv, K!list_move, K!list_move_tail
<1>2. CASE K!list_move(x, h)
  <2>1. K!Keep(K!ListAdd(f, x, h, f.n[h])) /\ ring' = [r EXCEPT ![h] = <<x>> \o @]
    BY <1>2 DEF K!list_move
  <2> HIDE DEF f, r
  <2>2. Good(K!ListAdd(f, x, h, f.n[h]), [r EXCEPT ![h] = <<x>> \o @])
    BY <1>1, AddFirst
  <2> QED
    BY <2>1, <2>2, Stored
<1>3. CASE K!list_move_tail(x, h)
  <2>1. K!Keep(K!ListAdd(f, x, f.p[h], h)) /\ ring' = [r EXCEPT ![h] = Append(@, x)]
    BY <1>3 DEF K!list_move_tail
  <2> HIDE DEF f, r
  <2>2. Good(K!ListAdd(f, x, f.p[h], h), [r EXCEPT ![h] = Append(@, x)])
    BY <1>1, AddLast
  <2> QED
    BY <2>1, <2>2, Stored
<1> QED
  BY <1>2, <1>3

(* The first entry of a ring that is not empty.                            *)
LEMMA NotEmpty ==
    ASSUME RingInv, NEW h \in RingHeads, ~K!list_empty(h)
    PROVE  /\ ring[h] \in Seq(RingNodes) /\ ring[h] # <<>> /\ Len(ring[h]) >= 1
           /\ next[h] = ring[h][1]
<1>1. ring \in Rings /\ RingAt(K!Fields, h, ring[h]) /\ K!Fields.n = next
  BY DEF RingInv, Good, K!Fields
<1>2. ring[h] \in Seq(RingNodes) /\ 0 \in 0..Len(ring[h]) /\ 0 + 1 = 1
  BY <1>1 DEF Rings
<1>3. next[h] = Nd(h, ring[h], 1)
  BY <1>1, <1>2, NdIs DEF RingAt
<1>4. 1 \in 1..Len(ring[h])
  BY <1>3 DEF K!list_empty, Nd
<1> QED
  BY <1>2, <1>3, <1>4 DEF Nd

LEMMA ListRotateKeeps == ASSUME RingInv, NEW h \in RingHeads, K!list_rotate_left(h) PROVE RingInv'
<1> DEFINE x == next[h]
           f == K!Unlink(K!Fields, x)
           c == [ring EXCEPT ![h] = Tail(@)]
<1>1. /\ ring[h] \in Seq(RingNodes) /\ ring[h] # <<>> /\ Len(ring[h]) >= 1 /\ x = ring[h][1]
      /\ ring \in Rings /\ Good(K!Fields, ring)
  BY NotEmpty DEF K!list_rotate_left, RingInv, Good
<1>2. /\ K!Keep(K!ListAdd(f, x, f.p[h], h))
      /\ ring' = [ring EXCEPT ![h] = Append(Tail(@), Head(@))]
  BY DEF K!list_rotate_left
<1>3. /\ Tail(ring[h]) \in Seq(RingNodes) /\ Len(Tail(ring[h])) = Len(ring[h]) - 1
      /\ \A i \in 1..Len(ring[h]) - 1 : Tail(ring[h])[i] = ring[h][i + 1]
      /\ Head(ring[h]) = x /\ x \in RingNodes /\ 1 \in 1..Len(ring[h])
  BY <1>1, HeadTailProperties
<1>4. c \in Rings /\ c[h] = Tail(ring[h]) /\ \A g \in RingHeads \ {h} : c[g] = ring[g]
  BY <1>1, <1>3 DEF Rings
<1>5. CutAt(ring, c, h, 1)
  <2>1. \A i \in 1..Len(ring[h]) - 1 : ~(i < 1)
    OBVIOUS
  <2>2. DOMAIN ring = RingHeads
    BY <1>1 DEF Rings
  <2> QED
    BY <1>3, <1>4, <2>1, <2>2 DEF CutAt
<1>6. ring' = [c EXCEPT ![h] = Append(@, x)]
  <2>1. c \in [RingHeads -> Seq(RingNodes)] /\ ring \in [RingHeads -> Seq(RingNodes)]
    BY <1>1, <1>4 DEF Rings
  <2> HIDE DEF x
  <2> QED
    BY <1>2, <1>3, <2>1
<1> HIDE DEF c, x, f
<1>7. Good(f, c) /\ ~Occurs(x, c)
  BY <1>1, <1>3, <1>4, <1>5, UnlinkKeeps DEF f
<1>8. Good(K!ListAdd(f, x, f.p[h], h), [c EXCEPT ![h] = Append(@, x)])
  BY <1>3, <1>7, AddLast
<1> QED
  BY <1>2, <1>6, <1>8, Stored

(* The new entry takes the place of the old one: it is as if the old one   *)
(* had left and the new one had come.                                      *)
LEMMA ReplaceKeeps ==
    ASSUME RingInv, NEW old \in RingNodes, NEW x \in RingNodes, K!Linked(old), ~K!Linked(x)
    PROVE  /\ Good(K!Replace(K!Fields, old, x), K!Replaced(old, x))
           /\ ~Occurs(old, K!Replaced(old, x))
<1> DEFINE F == K!Fields
           c == K!Removed(old)
           f == K!Unlink(F, old)
           t == K!Replaced(old, x)
<1>1. /\ Good(F, ring) /\ ring \in Rings /\ Apart(ring) /\ DOMAIN ring = RingHeads
      /\ \A g \in RingHeads : RingAt(F, g, ring[g])
      /\ \A g \in RingHeads : ring[g] \in Seq(RingNodes) /\ DOMAIN ring[g] = 1..Len(ring[g]) /\ Len(ring[g]) \in Nat
  BY DEF RingInv, Good, Rings
<1>2. PICK h \in RingHeads : \E k \in 1..Len(ring[h]) : ring[h][k] = old
  BY <1>1 DEF K!Linked, K!ToSet
<1>3. PICK k \in 1..Len(ring[h]) : ring[h][k] = old
  BY <1>2
<1>4. c \in Rings /\ CutAt(ring, c, h, k)
  BY <1>1, <1>3, CutOf DEF K!Removed
<1>5. Good(f, c) /\ \A y : Occurs(y, c) <=> Occurs(y, ring) /\ y # old
  BY <1>1, <1>3, <1>4, UnlinkKeeps
<1>6. ~Occurs(x, c) /\ x # old
  BY <1>5, LinkedIs
<1>7. /\ t \in Rings /\ \A g \in RingHeads \ {h} : t[g] = ring[g]
      /\ Len(t[h]) = Len(ring[h])
      /\ \A i \in 1..Len(ring[h]) : t[h][i] = IF i = k THEN x ELSE ring[h][i]
  <2>1. \A g \in RingHeads : /\ t[g] = [i \in 1..Len(ring[g]) |-> IF ring[g][i] = old THEN x ELSE ring[g][i]]
                              /\ t[g] \in Seq(RingNodes) /\ Len(t[g]) = Len(ring[g])
    <3> SUFFICES ASSUME NEW g \in RingHeads
                 PROVE  /\ t[g] = [i \in 1..Len(ring[g]) |-> IF ring[g][i] = old THEN x ELSE ring[g][i]]
                        /\ t[g] \in Seq(RingNodes) /\ Len(t[g]) = Len(ring[g])
      OBVIOUS
    <3>1. t[g] = [i \in 1..Len(ring[g]) |-> IF ring[g][i] = old THEN x ELSE ring[g][i]]
      BY <1>1 DEF K!Replaced
    <3> QED
      BY <1>1, <3>1
  <2>2. \A g \in RingHeads : \A i \in 1..Len(ring[g]) : ring[g][i] = old => g = h /\ i = k
    BY <1>1, <1>3 DEF Apart
  <2>3. \A g \in RingHeads \ {h} : t[g] = ring[g]
    <3> SUFFICES ASSUME NEW g \in RingHeads \ {h} PROVE t[g] = ring[g]
      OBVIOUS
    <3>1. t[g] \in Seq(RingNodes) /\ ring[g] \in Seq(RingNodes) /\ Len(t[g]) = Len(ring[g])
          /\ \A i \in 1..Len(ring[g]) : t[g][i] = ring[g][i]
      BY <1>1, <2>1, <2>2
    <3> QED
      BY <3>1, SeqEqual
  <2>4. t = [g \in RingHeads |-> t[g]]
    BY DEF K!Replaced
  <2> HIDE DEF t
  <2>5. t \in Rings
    BY <2>1, <2>4 DEF Rings
  <2>6. \A i \in 1..Len(ring[h]) : t[h][i] = IF i = k THEN x ELSE ring[h][i]
    <3>1. \A i \in 1..Len(ring[h]) : t[h][i] = IF ring[h][i] = old THEN x ELSE ring[h][i]
      BY <2>1
    <3>2. \A i \in 1..Len(ring[h]) : ring[h][i] = old <=> i = k
      BY <1>3, <2>2
    <3> QED
      BY ONLY <3>1, <3>2
  <2> QED
    BY <2>1, <2>3, <2>5, <2>6
<1> HIDE DEF c, f, t
<1>8. /\ \A g \in RingHeads \ {h} : c[g] = ring[g]
      /\ Len(c[h]) = Len(ring[h]) - 1
      /\ \A i \in 1..Len(ring[h]) - 1 : c[h][i] = IF i < k THEN ring[h][i] ELSE ring[h][i + 1]
  BY <1>1, <1>4 DEF CutAt
<1>9. k - 1 \in 0..Len(c[h]) /\ k \in Int /\ (k - 1) + 1 = k /\ DOMAIN c = RingHeads
  BY <1>1, <1>4, <1>8 DEF Rings
<1>10. PutAt(c, t, h, k - 1, x)
  <2>1. ASSUME NEW i \in 1..Len(c[h]) + 1
        PROVE  t[h][i] = IF i <= k - 1 THEN c[h][i] ELSE IF i = (k - 1) + 1 THEN x ELSE c[h][i - 1]
    <3>1. i \in 1..Len(ring[h]) /\ i \in Int
      BY <1>1, <1>8
    <3>2. t[h][i] = IF i = k THEN x ELSE ring[h][i]
      BY <1>7, <3>1
    <3>3. CASE i < k
      <4>1. i \in 1..Len(ring[h]) - 1
        BY <1>1, <1>9, <3>1, <3>3
      <4> QED
        BY <1>8, <1>9, <3>1, <3>2, <3>3, <4>1
    <3>4. CASE i = k
      BY <1>9, <3>2, <3>4
    <3>5. CASE i > k
      <4>1. i - 1 \in 1..Len(ring[h]) - 1 /\ ~(i - 1 < k) /\ (i - 1) + 1 = i
        BY <1>1, <1>9, <3>1, <3>5
      <4>2. c[h][i - 1] = ring[h][i]
        BY <1>8, <4>1
      <4> QED
        BY <1>9, <3>1, <3>2, <3>5, <4>2
    <3> QED
      BY <1>9, <3>1, <3>3, <3>4, <3>5
  <2>2. Len(t[h]) = Len(c[h]) + 1 /\ \A g \in RingHeads \ {h} : t[g] = c[g]
    BY <1>1, <1>7, <1>8
  <2> QED
    BY <1>9, <2>1, <2>2 DEF PutAt
<1> DEFINE a == Nd(h, c[h], k - 1)
           b == Nd(h, c[h], (k - 1) + 1)
<1>11. Good(K!ListAdd(f, x, a, b), t) /\ \A y : Occurs(y, t) <=> Occurs(y, c) \/ y = x
  BY <1>5, <1>6, <1>7, <1>9, <1>10, AddKeeps
<1>12. a = Nd(h, ring[h], k - 1) /\ b = Nd(h, ring[h], k + 1)
  <2>1. a = Nd(h, ring[h], k - 1)
    <3>1. CASE k = 1
      BY <3>1 DEF Nd
    <3>2. CASE k > 1
      <4>1. k - 1 \in 1..Len(c[h]) /\ k - 1 \in 1..Len(ring[h]) /\ k - 1 < k /\ k - 1 \in 1..Len(ring[h]) - 1
        BY <1>1, <1>8, <1>9, <3>2
      <4> QED
        BY <1>8, <4>1 DEF Nd
    <3> QED
      BY <1>9, <3>1, <3>2
  <2>2. b = Nd(h, ring[h], k + 1)
    <3>1. CASE k = Len(ring[h])
      <4>1. k \notin 1..Len(c[h]) /\ k + 1 \notin 1..Len(ring[h])
        BY <1>1, <1>8, <1>9, <3>1
      <4> QED
        BY <1>9, <4>1 DEF Nd
    <3>2. CASE k < Len(ring[h])
      <4>1. k \in 1..Len(c[h]) /\ k + 1 \in 1..Len(ring[h]) /\ k \in 1..Len(ring[h]) - 1 /\ ~(k < k)
        BY <1>1, <1>8, <1>9, <3>2
      <4> QED
        BY <1>8, <1>9, <4>1 DEF Nd
    <3> QED
      BY <1>1, <1>9, <3>1, <3>2
  <2> QED
    BY <2>1, <2>2
<1>13. /\ F.n[a] = old /\ F.p[old] = a /\ F.n[old] = b /\ F.p[b] = old
       /\ a \in K!Links /\ b \in K!Links /\ old # a /\ old # b /\ old \in K!Links
  <2>1. k - 1 \in 0..Len(ring[h]) /\ k \in 0..Len(ring[h]) /\ k + 1 \in 1..Len(ring[h]) + 1
        /\ k \in 1..Len(ring[h]) + 1 /\ k - 1 # k /\ k + 1 # k /\ k - 1 \in Int /\ k + 1 \in Int
    BY <1>1, <1>9
  <2>2. Nd(h, ring[h], k) = old
    BY <1>3 DEF Nd
  <2>3. F.n[a] = old /\ F.p[old] = a /\ F.n[old] = b /\ F.p[b] = old
    BY <1>1, <1>9, <1>12, <2>1, <2>2 DEF RingAt
  <2>4. a \in K!Links /\ b \in K!Links
    BY <1>1, <1>12, <2>1, NdIs
  <2>5. old # a /\ old # b
    BY <1>1, <1>12, <2>1, <2>2, Distinct
  <2> QED
    BY <2>3, <2>4, <2>5 DEF K!Links
<1>14. /\ F.n \in [K!Links -> K!Links \union {NULL}] /\ F.p \in [K!Links -> K!Links \union {NULL}]
       /\ x \in K!Links /\ x # a /\ x # b
  <2>1. x # a /\ x # b
    <3>1. k - 1 \in Int /\ k + 1 \in Int /\ ~Occurs(x, ring)
      BY <1>9, LinkedIs
    <3> QED
      BY <1>1, <1>12, <3>1, OnRing
  <2> QED
    BY <1>1, <2>1 DEF Good, K!Links
<1>15. K!ListAdd(f, x, a, b) = K!Replace(F, old, x)
  <2> HIDE DEF a, b, F
  <2>1. f = [n |-> [F.n EXCEPT ![a] = b], p |-> [F.p EXCEPT ![b] = a]]
    BY <1>13 DEF f, K!Unlink, K!ListDel
  <2>2. K!ListAdd(f, x, a, b) =
          [n |-> [[F.n EXCEPT ![a] = b] EXCEPT ![x] = b, ![a] = x],
           p |-> [[F.p EXCEPT ![b] = a] EXCEPT ![b] = x, ![x] = a]]
    BY <2>1 DEF K!ListAdd
  <2> DEFINE n1 == [F.n EXCEPT ![x] = F.n[old]]
             p1 == [F.p EXCEPT ![n1[x]] = x]
             q1 == [p1 EXCEPT ![x] = p1[old]]
  <2>3. n1[x] = b /\ p1[old] = a /\ q1[x] = a
    BY ONLY <1>6, <1>13, <1>14
  <2>4. K!Replace(F, old, x) = [n |-> [n1 EXCEPT ![q1[x]] = x], p |-> q1]
    BY DEF K!Replace
  <2>5. [n1 EXCEPT ![q1[x]] = x] = [[F.n EXCEPT ![x] = b] EXCEPT ![a] = x]
        /\ q1 = [[F.p EXCEPT ![b] = x] EXCEPT ![x] = a]
    BY <1>13, <2>3
  <2>6. [[F.n EXCEPT ![x] = b] EXCEPT ![a] = x] = [[F.n EXCEPT ![a] = b] EXCEPT ![x] = b, ![a] = x]
    BY ONLY <1>13, <1>14
  <2>7. [[F.p EXCEPT ![b] = x] EXCEPT ![x] = a] = [[F.p EXCEPT ![b] = a] EXCEPT ![b] = x, ![x] = a]
    BY ONLY <1>13, <1>14
  <2> QED
    BY ONLY <2>2, <2>4, <2>5, <2>6, <2>7
<1>16. ~Occurs(old, t)
  BY <1>5, <1>6, <1>11
<1> QED
  BY <1>11, <1>15, <1>16 DEF t

LEMMA ListReplaceKeeps ==
    ASSUME RingInv, NEW old \in RingNodes, NEW x \in RingNodes,
           K!list_replace(old, x) \/ K!list_replace_init(old, x)
    PROVE  RingInv'
<1> DEFINE f == K!Replace(K!Fields, old, x)
           t == K!Replaced(old, x)
<1>1. Good(f, t) /\ ~Occurs(old, t) /\ ring' = t
  BY ReplaceKeeps DEF K!list_replace, K!list_replace_init
<1>2. CASE K!list_replace(old, x)
  BY <1>1, <1>2, Stored DEF K!list_replace
<1>3. CASE K!list_replace_init(old, x)
  <2>1. K!Keep(K!INIT_LIST_HEAD(f, old))
    BY <1>3 DEF K!list_replace_init
  <2> HIDE DEF f, t
  <2>2. Good(K!INIT_LIST_HEAD(f, old), t)
    BY <1>1, LooseKeeps DEF K!INIT_LIST_HEAD
  <2> QED
    BY <1>1, <2>1, <2>2, Stored
<1> QED
  BY <1>2, <1>3

LEMMA Joined ==
    ASSUME NEW S, NEW a \in Seq(S), NEW b \in Seq(S)
    PROVE  /\ a \o b \in Seq(S) /\ Len(a \o b) = Len(a) + Len(b)
           /\ \A i \in 1..Len(a) + Len(b) : (a \o b)[i] = IF i <= Len(a) THEN a[i] ELSE b[i - Len(a)]
BY ConcatProperties

LEMMA ListSpliceKeeps ==
    ASSUME RingInv, NEW l \in RingHeads, NEW h \in RingHeads,
           K!list_splice_init(l, h) \/ K!list_splice_tail_init(l, h)
    PROVE  RingInv'
<1> DEFINE Ln == Len(ring[h])
           m == Len(ring[l])
<1>1. l # h /\ ~K!list_empty(l)
  BY DEF K!list_splice_init, K!list_splice_tail_init
<1>2. /\ ring \in Rings /\ DOMAIN ring = RingHeads /\ Good(K!Fields, ring) /\ RingAt(K!Fields, h, ring[h])
      /\ ring[l] # <<>> /\ ring[h] \in Seq(RingNodes) /\ ring[l] \in Seq(RingNodes)
      /\ Ln \in Nat /\ m \in Nat
      /\ K!Fields.n = next /\ K!Fields.p = prev
  BY <1>1, NotEmpty DEF RingInv, Good, Rings, K!Fields
<1>3. /\ Nd(h, ring[h], 0) = h /\ Nd(h, ring[h], Ln + 1) = h
      /\ Nd(h, ring[h], 0 + 1) = next[h] /\ Nd(h, ring[h], Ln) = prev[h]
  <2>1. 0 \in 0..Ln /\ Ln \in 0..Ln
    BY <1>2
  <2> QED
    BY <1>2, <2>1, NdIs DEF RingAt
<1>4. CASE K!list_splice_init(l, h)
  <2> DEFINE t == [ring EXCEPT ![h] = ring[l] \o @, ![l] = <<>>]
  <2>1. ring' = t /\ K!Keep(K!INIT_LIST_HEAD(K!Splice(K!Fields, l, h, next[h]), l))
    BY <1>4 DEF K!list_splice_init
  <2>2. t[h] = ring[l] \o ring[h] /\ t[l] = <<>> /\ \A g \in RingHeads \ {h, l} : t[g] = ring[g]
    BY <1>1, <1>2
  <2>3. /\ t[h] \in Seq(RingNodes) /\ Len(t[h]) = m + Ln
        /\ \A i \in 1..m + Ln : t[h][i] = IF i <= m THEN ring[l][i] ELSE ring[h][i - m]
    <3> DEFINE u == ring[l] \o ring[h]
    <3>1. /\ u \in Seq(RingNodes) /\ Len(u) = Len(ring[l]) + Len(ring[h])
          /\ \A i \in 1..Len(ring[l]) + Len(ring[h]) : u[i] = IF i <= Len(ring[l]) THEN ring[l][i] ELSE ring[h][i - Len(ring[l])]
      BY <1>2, Joined
    <3>2. t[h] = u
      BY <2>2
    <3> HIDE DEF t, u
    <3> QED
      BY <3>1, <3>2
  <2>4. t \in Rings
    BY <1>2, <2>2, <2>3, EmptySeq DEF Rings
  <2> HIDE DEF t
  <2>5. JoinAt(ring, t, l, h, 0)
    <3> HIDE DEF Ln, m
    <3>1. \A i \in 1..Ln + m :
             t[h][i] = IF i <= 0 THEN ring[h][i] ELSE IF i <= 0 + m THEN ring[l][i - 0] ELSE ring[h][i - m]
      <4> SUFFICES ASSUME NEW i \in 1..Ln + m
                   PROVE  t[h][i] = IF i <= 0 THEN ring[h][i] ELSE IF i <= 0 + m THEN ring[l][i - 0] ELSE ring[h][i - m]
        OBVIOUS
      <4>1. i \in 1..m + Ln /\ ~(i <= 0) /\ 0 + m = m /\ i - 0 = i
        BY <1>2
      <4> QED
        BY <2>3, <4>1
    <3>2. Len(t[h]) = Ln + m
      BY <1>2, <2>3
    <3> QED
      BY <1>2, <2>2, <3>1, <3>2 DEF JoinAt, Ln, m
  <2>6. Good(K!INIT_LIST_HEAD(K!Splice(K!Fields, l, Nd(h, ring[h], 0), Nd(h, ring[h], 0 + 1)), l), t)
    <3>1. 0 \in 0..Len(ring[h])
      BY <1>2
    <3> QED
      BY <1>1, <1>2, <2>4, <2>5, <3>1, SpliceKeeps
  <2> QED
    BY <1>3, <2>1, <2>6, Stored
<1>5. CASE K!list_splice_tail_init(l, h)
  <2> DEFINE t == [ring EXCEPT ![h] = @ \o ring[l], ![l] = <<>>]
  <2>1. ring' = t /\ K!Keep(K!INIT_LIST_HEAD(K!Splice(K!Fields, l, prev[h], h), l))
    BY <1>5 DEF K!list_splice_tail_init
  <2>2. t[h] = ring[h] \o ring[l] /\ t[l] = <<>> /\ \A g \in RingHeads \ {h, l} : t[g] = ring[g]
    BY <1>1, <1>2
  <2>3. /\ t[h] \in Seq(RingNodes) /\ Len(t[h]) = Ln + m
        /\ \A i \in 1..Ln + m : t[h][i] = IF i <= Ln THEN ring[h][i] ELSE ring[l][i - Ln]
    <3> DEFINE u == ring[h] \o ring[l]
    <3>1. /\ u \in Seq(RingNodes) /\ Len(u) = Len(ring[h]) + Len(ring[l])
          /\ \A i \in 1..Len(ring[h]) + Len(ring[l]) : u[i] = IF i <= Len(ring[h]) THEN ring[h][i] ELSE ring[l][i - Len(ring[h])]
      BY <1>2, Joined
    <3>2. t[h] = u
      BY <2>2
    <3> HIDE DEF t, u
    <3> QED
      BY <3>1, <3>2
  <2>4. t \in Rings
    BY <1>2, <2>2, <2>3, EmptySeq DEF Rings
  <2> HIDE DEF t
  <2>5. JoinAt(ring, t, l, h, Ln)
    <3> HIDE DEF Ln, m
    <3>1. \A i \in 1..Ln + m :
             t[h][i] = IF i <= Ln THEN ring[h][i] ELSE IF i <= Ln + m THEN ring[l][i - Ln] ELSE ring[h][i - m]
      BY <2>3
    <3> QED
      BY <1>2, <2>2, <2>3, <3>1 DEF JoinAt, Ln, m
  <2>6. Good(K!INIT_LIST_HEAD(K!Splice(K!Fields, l, Nd(h, ring[h], Ln), Nd(h, ring[h], Ln + 1)), l), t)
    <3>1. Ln \in 0..Len(ring[h])
      BY <1>2
    <3> QED
      BY <1>1, <1>2, <2>4, <2>5, <3>1, SpliceKeeps
  <2> QED
    BY <1>3, <2>1, <2>6, Stored
<1> QED
  BY <1>4, <1>5

LEMMA CutSequence ==
    ASSUME NEW S, NEW s \in Seq(S), NEW k \in 0..Len(s)
    PROVE  /\ SubSeq(s, 1, k) \in Seq(S) /\ Len(SubSeq(s, 1, k)) = k
           /\ \A i \in 1..k : SubSeq(s, 1, k)[i] = s[i]
           /\ SubSeq(s, k + 1, Len(s)) \in Seq(S) /\ Len(SubSeq(s, k + 1, Len(s))) = Len(s) - k
           /\ \A i \in 1..Len(s) - k : SubSeq(s, k + 1, Len(s))[i] = s[i + k]
           /\ k = 0 => SubSeq(s, 1, k) = <<>> /\ SubSeq(s, k + 1, Len(s)) = s
<1>1. /\ SubSeq(s, 1, k) \in Seq(S) /\ Len(SubSeq(s, 1, k)) = k
      /\ \A i \in 1..k : SubSeq(s, 1, k)[i] = s[i]
  OBVIOUS
<1>2. /\ SubSeq(s, k + 1, Len(s)) \in Seq(S) /\ Len(SubSeq(s, k + 1, Len(s))) = Len(s) - k
      /\ \A i \in 1..Len(s) - k : SubSeq(s, k + 1, Len(s))[i] = s[i + k]
  OBVIOUS
<1>3. k = 0 => SubSeq(s, 1, k) = <<>> /\ SubSeq(s, k + 1, Len(s)) = s
  BY <1>1, <1>2, SeqEqual
<1> QED
  BY <1>1, <1>2, <1>3

LEMMA ListCutKeeps ==
    ASSUME RingInv, NEW l \in RingHeads, NEW h \in RingHeads, NEW x, K!list_cut_position(l, h, x)
    PROVE  RingInv'
<1> DEFINE s == ring[h]
           Ln == Len(s)
           k == CHOOSE k \in 0..Ln : IF x = h THEN k = 0 ELSE k > 0 /\ s[k] = x
           t == [ring EXCEPT ![l] = SubSeq(s, 1, k), ![h] = SubSeq(@, k + 1, Len(@))]
<1>1. ring[l] = <<>> /\ l # h /\ (x = h \/ x \in K!ToSet(s)) /\ ring' = t
      /\ K!Keep(IF x = h THEN K!INIT_LIST_HEAD(K!Fields, l) ELSE K!CutPosition(K!Fields, l, h, x))
  BY DEF K!list_cut_position
<1>2. /\ ring \in Rings /\ DOMAIN ring = RingHeads /\ Good(K!Fields, ring) /\ s \in Seq(RingNodes)
      /\ Ln \in Nat /\ RingAt(K!Fields, l, ring[l]) /\ K!Fields.n = next /\ K!Fields.p = prev
  BY DEF RingInv, Good, Rings, K!Fields
<1>3. k \in 0..Ln /\ IF x = h THEN k = 0 ELSE k > 0 /\ s[k] = x
  <2>1. \E j \in 0..Ln : IF x = h THEN j = 0 ELSE j > 0 /\ s[j] = x
    <3>1. CASE x = h
      BY <1>2, <3>1
    <3>2. CASE x # h
      <4>1. PICK j \in 1..Ln : s[j] = x
        BY <1>1, <1>2, <3>2 DEF K!ToSet
      <4> QED
        BY <1>2, <3>2, <4>1
    <3> QED
      BY <3>1, <3>2
  <2> HIDE DEF Ln, s
  <2> QED
    BY <2>1
<1> HIDE DEF k
<1>4. /\ SubSeq(s, 1, k) \in Seq(RingNodes) /\ Len(SubSeq(s, 1, k)) = k
      /\ \A i \in 1..k : SubSeq(s, 1, k)[i] = s[i]
      /\ SubSeq(s, k + 1, Ln) \in Seq(RingNodes) /\ Len(SubSeq(s, k + 1, Ln)) = Ln - k
      /\ \A i \in 1..Ln - k : SubSeq(s, k + 1, Ln)[i] = s[i + k]
      /\ k = 0 => SubSeq(s, 1, k) = <<>> /\ SubSeq(s, k + 1, Ln) = s
  BY <1>2, <1>3, CutSequence
<1>5. /\ t[l] = SubSeq(s, 1, k) /\ t[h] = SubSeq(s, k + 1, Ln)
      /\ \A g \in RingHeads \ {h, l} : t[g] = ring[g]
  BY <1>1, <1>2
<1>6. t \in Rings
  BY <1>2, <1>4, <1>5 DEF Rings
<1>7. CASE x = h
  <2>1. \A g \in RingHeads : t[g] = ring[g]
    BY <1>1, <1>3, <1>4, <1>5, <1>7
  <2>2. t = ring
    BY <1>2, <1>6, <2>1 DEF Rings
  <2>3. next[l] = l /\ prev[l] = l
    <3>1. 0 \in 0..Len(ring[l]) /\ \A i \in Int : Nd(l, ring[l], i) = l
      BY <1>1 DEF Nd
    <3> QED
      BY <1>2, <3>1 DEF RingAt
  <2>4. K!INIT_LIST_HEAD(K!Fields, l) = K!Fields
    <3>1. /\ next \in [K!Links -> K!Links \union {NULL}] /\ prev \in [K!Links -> K!Links \union {NULL}]
          /\ l \in K!Links
      BY DEF RingInv, Good, K!Fields, K!Links
    <3> QED
      BY <2>3, <3>1 DEF K!INIT_LIST_HEAD, K!Fields
  <2> HIDE DEF t
  <2> QED
    BY <1>1, <1>2, <1>7, <2>2, <2>4, Stored
<1>8. CASE x # h
  <2>1. k \in 1..Ln /\ s[k] = x
    BY <1>2, <1>3, <1>8
  <2> HIDE DEF t
  <2>2. SplitAt(ring, t, l, h, k)
    BY <1>2, <1>4, <1>5 DEF SplitAt
  <2>3. Good(K!CutPosition(K!Fields, l, h, ring[h][k]), t)
    BY <1>1, <1>2, <1>6, <2>1, <2>2, SplitKeeps
  <2> QED
    BY <1>1, <1>8, <2>1, <2>3, Stored
<1> QED
  BY <1>7, <1>8

(* Every call keeps the rings.                                             *)
LEMMA RingStep == ASSUME RingInv, K!RingStep PROVE RingInv'
BY ListDelKeeps, ListDelInitKeeps, ListAddKeeps, ListMoveKeeps, ListReplaceKeeps, ListRotateKeeps,
   ListSpliceKeeps, ListCutKeeps
DEF K!RingStep

LEMMA RingStays == ASSUME RingInv, UNCHANGED <<next, prev, ring>> PROVE RingInv'
BY DEF RingInv, K!Fields, Good, Rings, Apart, RingAt, Nd, Occurs, K!Links

(* What the invariant says of a walk from the head and back to it.         *)
LEMMA RingsAre == ASSUME RingInv PROVE K!RingsKept
<1> SUFFICES ASSUME NEW h \in RingHeads,
                    NEW i \in 1..Len(<<h>> \o ring[h] \o <<h>>) - 1
             PROVE  LET full == <<h>> \o ring[h] \o <<h>>
                    IN  next[full[i]] = full[i + 1] /\ prev[full[i + 1]] = full[i]
  BY DEF K!RingsKept
<1> DEFINE s == ring[h]
           full == <<h>> \o s \o <<h>>
<1>1. s \in Seq(RingNodes) /\ RingAt(K!Fields, h, s) /\ K!Fields.n = next /\ K!Fields.p = prev
      /\ Len(s) \in Nat
  BY DEF RingInv, Good, Rings, K!Fields
<1>2. /\ Len(full) = Len(s) + 2
      /\ \A j \in 1..Len(s) + 2 : full[j] = Nd(h, s, j - 1)
  <2> DEFINE S == RingNodes \union {h}
             a == <<h>> \o s
  <2>1. s \in Seq(S) /\ <<h>> \in Seq(S) /\ Len(<<h>>) = 1 /\ <<h>>[1] = h
    BY <1>1
  <2> HIDE DEF S, s
  <2>2. a \in Seq(S) /\ Len(a) = 1 + Len(s) /\ \A j \in 1..1 + Len(s) : a[j] = IF j <= 1 THEN <<h>>[j] ELSE s[j - 1]
    BY <2>1, ConcatProperties
  <2> HIDE DEF a
  <2>3. /\ Len(a \o <<h>>) = Len(a) + 1
        /\ \A j \in 1..Len(a) + 1 : (a \o <<h>>)[j] = IF j <= Len(a) THEN a[j] ELSE <<h>>[j - Len(a)]
    BY <2>1, <2>2, ConcatProperties
  <2>4. full = a \o <<h>>
    BY DEF a
  <2>5. ASSUME NEW j \in 1..Len(s) + 2 PROVE (a \o <<h>>)[j] = Nd(h, s, j - 1)
    <3>1. CASE j = 1
      BY <1>1, <2>1, <2>2, <2>3, <3>1 DEF Nd
    <3>2. CASE j > 1 /\ j < Len(s) + 2
      <4>1. j \in 1..1 + Len(s) /\ ~(j <= 1) /\ j \in 1..Len(a) + 1 /\ j <= Len(a) /\ j - 1 \in 1..Len(s)
        BY <1>1, <2>2, <3>2
      <4> QED
        BY <2>2, <2>3, <4>1 DEF Nd
    <3>3. CASE j = Len(s) + 2
      <4>1. j \in 1..Len(a) + 1 /\ ~(j <= Len(a)) /\ j - Len(a) = 1 /\ ~(j - 1 \in 1..Len(s))
        BY <1>1, <2>2, <3>3
      <4> QED
        BY <2>1, <2>3, <4>1 DEF Nd
    <3>4. j = 1 \/ (j > 1 /\ j < Len(s) + 2) \/ j = Len(s) + 2
      <4>1. Len(s) \in Nat /\ j \in 1..Len(s) + 2
        BY <1>1
      <4> QED
        BY ONLY <4>1
    <3> QED
      BY ONLY <3>1, <3>2, <3>3, <3>4
  <2> QED
    BY <1>1, <2>2, <2>3, <2>4, <2>5
<1> HIDE DEF full
<1>3. i - 1 \in 0..Len(s) /\ i \in 1..Len(s) + 2 /\ i + 1 \in 1..Len(s) + 2 /\ (i + 1) - 1 = (i - 1) + 1
  BY <1>1, <1>2 DEF full
<1>4. full[i] = Nd(h, s, i - 1) /\ full[i + 1] = Nd(h, s, (i - 1) + 1)
  BY <1>2, <1>3
<1>5. next[full[i]] = full[i + 1] /\ prev[full[i + 1]] = full[i]
  BY <1>1, <1>3, <1>4 DEF RingAt
<1> QED
  BY <1>5 DEF full

-----------------------------------------------------------------------------
(* The i-th entry of the chain of h: h is before the first, NULL behind    *)
(* the last.  A node on no chain was never added, left one, or was added   *)
(* to itself.                                                              *)
HNd(h, s, i) == IF i \in 1..Len(s) THEN s[i] ELSE IF i = 0 THEN h ELSE NULL
ChainAt(c, q, h, s) ==
    \A i \in 0..Len(s) :
        c[HNd(h, s, i)] = HNd(h, s, i + 1) /\ (i < Len(s) => q[HNd(h, s, i + 1)] = HNd(h, s, i))

HashLinks == HashHeads \union HashNodes
Chains == [HashHeads -> Seq(HashNodes)]
HashGood(c, q, r) ==
    /\ r \in Chains /\ Apart(r)
    /\ c \in [HashLinks -> HashNodes \union {NULL}] /\ q \in [HashNodes -> HashLinks \union {NULL}]
    /\ \A h \in HashHeads : ChainAt(c, q, h, r[h])
    /\ \A n \in HashNodes : ~Occurs(n, r) => q[n] \in {NULL, n}

LEMMA HNdIs ==
    ASSUME NEW r \in Chains, NEW h \in HashHeads
    PROVE  /\ Len(r[h]) \in Nat
           /\ \A i \in 1..Len(r[h]) : r[h][i] \in HashNodes /\ HNd(h, r[h], i) = r[h][i]
           /\ \A i \in 0..Len(r[h]) : HNd(h, r[h], i) \in HashLinks
           /\ HNd(h, r[h], 0) = h /\ HNd(h, r[h], Len(r[h]) + 1) = NULL
<1>1. r[h] \in Seq(HashNodes)
  BY DEF Chains
<1> QED
  BY <1>1 DEF HNd, HashLinks

LEMMA HDistinct ==
    ASSUME NEW r \in Chains, Apart(r), NEW g \in HashHeads, NEW h \in HashHeads
    PROVE  /\ \A i \in 0..Len(r[g]), j \in 0..Len(r[h]) :
                 HNd(g, r[g], i) = HNd(h, r[h], j) => g = h /\ i = j
           /\ \A i \in 1..Len(r[g]), j \in 1..Len(r[h]) + 1 :
                 HNd(g, r[g], i) = HNd(h, r[h], j) => g = h /\ i = j
<1>1. /\ Len(r[g]) \in Nat /\ Len(r[h]) \in Nat
      /\ \A i \in 1..Len(r[g]) : r[g][i] \in HashNodes
      /\ \A i \in 1..Len(r[h]) : r[h][i] \in HashNodes
  BY HNdIs
<1>2. \A i \in 1..Len(r[g]), j \in 1..Len(r[h]) : r[g][i] = r[h][j] => g = h /\ i = j
  BY DEF Apart, Chains
<1>3. g \notin HashNodes /\ h \notin HashNodes /\ NULL \notin HashNodes /\ g # NULL /\ h # NULL
  BY LinksAssumption
<1> QED
  BY <1>1, <1>2, <1>3 DEF HNd

LEMMA OnChain ==
    ASSUME NEW r \in Chains, NEW g \in HashHeads, NEW i \in Int, NEW y \in HashNodes, ~Occurs(y, r)
    PROVE  HNd(g, r[g], i) # y
BY LinksAssumption DEF HNd, Occurs, Chains

(* A node leaves its chain.                                                *)
LEMMA HashCut ==
    ASSUME NEW r, NEW c, NEW q, HashGood(c, q, r), NEW h \in HashHeads, NEW k \in 1..Len(r[h]),
           NEW t, t \in Chains, CutAt(r, t, h, k), NEW n, n = r[h][k]
    PROVE  /\ HashGood([c EXCEPT ![q[n]] = c[n], ![n] = NULL],
                       [K!BackTo(q, c[n], q[n]) EXCEPT ![n] = NULL], t)
           /\ q[n] # n /\ q[n] # NULL
<1> DEFINE Ln == Len(r[h])
           a == HNd(h, r[h], k - 1)
           b == HNd(h, r[h], k + 1)
           c2 == [c EXCEPT ![a] = b, ![n] = NULL]
           q2 == [K!BackTo(q, b, a) EXCEPT ![n] = NULL]
<1>1. r \in Chains /\ Apart(r) /\ \A g \in HashHeads : ChainAt(c, q, g, r[g])
  BY DEF HashGood
<1>2. Ln \in Nat /\ k \in 1..Ln /\ k \in Int /\ k - 1 \in 0..Ln /\ k \in 0..Ln /\ (k - 1) + 1 = k /\ k - 1 < Ln
      /\ k + 1 \in 1..Ln + 1 /\ n = HNd(h, r[h], k) /\ n \in HashNodes
  BY <1>1, HNdIs
<1>3. c[a] = n /\ q[n] = a /\ c[n] = b /\ (b # NULL => k < Ln /\ q[b] = n)
  <2>1. c[a] = n /\ q[n] = a /\ c[n] = b
    BY <1>1, <1>2 DEF ChainAt
  <2>2. b # NULL => k < Ln
    BY <1>1, <1>2, HNdIs
  <2> QED
    BY <1>1, <1>2, <2>1, <2>2 DEF ChainAt
<1>4. /\ a \in HashLinks /\ b \in HashNodes \union {NULL} /\ n \in HashLinks
      /\ a # n /\ b # n /\ a # NULL /\ n # NULL
  <2>1. a # n
    BY <1>1, <1>2, HDistinct
  <2>2. b # n
    BY <1>1, <1>2, HDistinct
  <2>3. b \in HashNodes \union {NULL}
    <3>1. CASE k = Ln
      BY <1>1, <1>2, <3>1, HNdIs
    <3>2. CASE k # Ln
      <4>1. k + 1 \in 1..Ln
        BY <1>2, <3>2
      <4> QED
        BY <1>1, <4>1, HNdIs
    <3> QED
      BY <3>1, <3>2
  <2> QED
    BY <1>1, <1>2, <2>1, <2>2, <2>3, HNdIs, LinksAssumption DEF HashLinks
<1>5. /\ c \in [HashLinks -> HashNodes \union {NULL}] /\ q \in [HashNodes -> HashLinks \union {NULL}]
  BY DEF HashGood
<1> HIDE DEF a, b
<1>6. /\ c2 \in [HashLinks -> HashNodes \union {NULL}] /\ c2[a] = b
      /\ \A y \in HashLinks \ {a, n} : c2[y] = c[y]
  BY <1>4, <1>5
<1>7. /\ q2 \in [HashNodes -> HashLinks \union {NULL}] /\ q2[n] = NULL
      /\ b # NULL => q2[b] = a
      /\ \A y \in HashNodes \ {b, n} : q2[y] = q[y]
  BY <1>2, <1>4, <1>5 DEF K!BackTo
<1> HIDE DEF c2, q2
<1> DEFINE Pair_(u, v) == c2[u] = v /\ (v # NULL => q2[v] = u)
<1>8. ASSUME NEW g \in HashHeads, NEW i \in 0..Len(r[g]), g = h => i # k - 1 /\ i # k
      PROVE  Pair_(HNd(g, r[g], i), HNd(g, r[g], i + 1))
  <2>1. Len(r[g]) \in Nat /\ i + 1 \in 1..Len(r[g]) + 1 /\ i \in Int /\ HNd(g, r[g], i) \in HashLinks
    BY <1>1, HNdIs
  <2>2. HNd(g, r[g], i) # a /\ HNd(g, r[g], i) # n
    BY <1>1, <1>2, <1>8, <2>1, HDistinct DEF a
  <2>3. c[HNd(g, r[g], i)] = HNd(g, r[g], i + 1)
    BY <1>1 DEF ChainAt
  <2>4. CASE i < Len(r[g])
    <3>1. i + 1 \in 1..Len(r[g]) /\ HNd(g, r[g], i + 1) \in HashNodes
      BY <1>1, <2>1, <2>4, HNdIs
    <3>2. HNd(g, r[g], i + 1) # b /\ HNd(g, r[g], i + 1) # n
      <4>1. HNd(g, r[g], i + 1) # b
        BY <1>1, <1>2, <1>8, <2>1, <3>1, HDistinct DEF b
      <4>2. HNd(g, r[g], i + 1) # n
        BY <1>1, <1>2, <1>8, <2>1, <3>1, HDistinct
      <4> QED
        BY <4>1, <4>2
    <3>3. q[HNd(g, r[g], i + 1)] = HNd(g, r[g], i)
      BY <1>1, <2>4 DEF ChainAt
    <3> QED
      BY <1>6, <1>7, <2>1, <2>2, <2>3, <3>1, <3>2, <3>3
  <2>5. CASE i = Len(r[g])
    <3>1. HNd(g, r[g], i + 1) = NULL
      BY <1>1, <2>5, HNdIs
    <3> QED
      BY <1>6, <2>1, <2>2, <2>3, <3>1
  <2> QED
    BY <2>1, <2>4, <2>5
<1>0. /\ \A g \in HashHeads \ {h} : t[g] = r[g]
      /\ Len(t[h]) = Ln - 1
      /\ \A i \in 1..Ln - 1 : t[h][i] = IF i < k THEN r[h][i] ELSE r[h][i + 1]
  BY <1>1 DEF CutAt, Chains
<1>9. \A i \in 0..Ln : HNd(h, t[h], i) = IF i < k THEN HNd(h, r[h], i) ELSE HNd(h, r[h], i + 1)
  BY <1>0, <1>2 DEF HNd
<1>10. ASSUME NEW i \in 0..Ln - 1 PROVE Pair_(HNd(h, t[h], i), HNd(h, t[h], i + 1))
  <2>1. i \in 0..Ln /\ i + 1 \in 0..Ln /\ i \in Int
    BY <1>2
  <2>2. CASE i < k - 1
    <3>1. HNd(h, t[h], i) = HNd(h, r[h], i) /\ HNd(h, t[h], i + 1) = HNd(h, r[h], i + 1)
      BY <1>2, <1>9, <2>1, <2>2
    <3>2. i # k - 1 /\ i # k
      BY <1>2, <2>1, <2>2
    <3> QED
      BY <1>8, <2>1, <3>1, <3>2
  <2>3. CASE i = k - 1
    <3>1. HNd(h, t[h], i) = a /\ HNd(h, t[h], i + 1) = b
      BY <1>2, <1>9, <2>1, <2>3 DEF a, b
    <3> QED
      BY <1>6, <1>7, <3>1
  <2>4. CASE i > k - 1
    <3>1. HNd(h, t[h], i) = HNd(h, r[h], i + 1) /\ HNd(h, t[h], i + 1) = HNd(h, r[h], (i + 1) + 1)
      BY <1>2, <1>9, <2>1, <2>4
    <3>2. i + 1 # k - 1 /\ i + 1 # k
      BY <1>2, <2>1, <2>4
    <3> QED
      BY <1>8, <2>1, <3>1, <3>2
  <2> QED
    BY <1>2, <2>1, <2>2, <2>3, <2>4
<1>11. ASSUME NEW g \in HashHeads PROVE ChainAt(c2, q2, g, t[g])
  <2>0. t[g] \in Seq(HashNodes) /\ Len(t[g]) \in Nat
    BY DEF Chains
  <2>1. ASSUME NEW i \in 0..Len(t[g]) PROVE Pair_(HNd(g, t[g], i), HNd(g, t[g], i + 1))
    BY <1>0, <1>8, <1>10
  <2>2. ASSUME NEW i \in 0..Len(t[g]), i < Len(t[g]) PROVE HNd(g, t[g], i + 1) # NULL
    <3>1. i + 1 \in 1..Len(t[g])
      BY <2>0, <2>2
    <3> QED
      BY <3>1, HNdIs, LinksAssumption
  <2> QED
    BY <2>1, <2>2 DEF ChainAt
<1>12. Apart(t) /\ \A y : Occurs(y, t) <=> Occurs(y, r) /\ y # n
  <2>1. r \in [HashHeads -> Seq(HashNodes)] /\ t \in [HashHeads -> Seq(HashNodes)]
    BY <1>1 DEF Chains
  <2>2. Apart(t) /\ \A y : Occurs(y, t) <=> Occurs(y, r) /\ y # r[h][k]
    BY ONLY <1>1, <2>1, CutAt(r, t, h, k), h \in HashHeads, k \in 1..Len(r[h]), CutApart
  <2> QED
    BY <2>2
<1>13. ASSUME NEW y \in HashNodes, ~Occurs(y, t) PROVE q2[y] \in {NULL, y}
  <2>1. CASE y = n
    BY <1>7, <2>1
  <2>2. CASE y # n
    <3>1. ~Occurs(y, r)
      BY <1>12, <1>13, <2>2
    <3>2. y # b
      BY <1>1, <1>2, <3>1, OnChain DEF b
    <3> QED
      BY <1>7, <2>2, <3>1, <3>2 DEF HashGood
  <2> QED
    BY <2>1, <2>2
<1>14. HashGood(c2, q2, t)
  BY <1>6, <1>7, <1>11, <1>12, <1>13 DEF HashGood
<1> QED
  BY <1>3, <1>4, <1>14 DEF c2, q2

(* A node on no chain is put behind the k-th entry of one.                 *)
LEMMA HashPut ==
    ASSUME NEW r, NEW c, NEW q, HashGood(c, q, r), NEW h \in HashHeads, NEW k \in 0..Len(r[h]),
           NEW t, t \in Chains, NEW n \in HashNodes, ~Occurs(n, r), PutAt(r, t, h, k, n),
           NEW a, NEW b, a = HNd(h, r[h], k), b = HNd(h, r[h], k + 1),
           NEW c2, c2 \in [HashLinks -> HashNodes \union {NULL}], c2[n] = b, c2[a] = n,
           \A y \in HashLinks \ {a, n} : c2[y] = c[y],
           NEW q2, q2 \in [HashNodes -> HashLinks \union {NULL}], q2[n] = a, b # NULL => q2[b] = n,
           \A y \in HashNodes \ {b, n} : q2[y] = q[y]
    PROVE  HashGood(c2, q2, t)
<1> DEFINE Ln == Len(r[h])
<1>1. r \in Chains /\ Apart(r) /\ \A g \in HashHeads : ChainAt(c, q, g, r[g])
  BY DEF HashGood
<1>2. Ln \in Nat /\ k \in 0..Ln /\ k \in Int /\ k + 1 \in 1..Ln + 1
  BY <1>1, HNdIs
<1>3. \A g \in HashHeads : \A i \in Int : HNd(g, r[g], i) # n
  BY <1>1, OnChain
<1>4. a # n /\ b # n /\ n # NULL
  BY <1>2, <1>3, LinksAssumption
<1> DEFINE Pair_(u, v) == c2[u] = v /\ (v # NULL => q2[v] = u)
<1>8. ASSUME NEW g \in HashHeads, NEW i \in 0..Len(r[g]), g = h => i # k
      PROVE  Pair_(HNd(g, r[g], i), HNd(g, r[g], i + 1))
  <2>1. Len(r[g]) \in Nat /\ i + 1 \in 1..Len(r[g]) + 1 /\ i \in Int /\ HNd(g, r[g], i) \in HashLinks
        /\ i + 1 \in Int
    BY <1>1, HNdIs
  <2>2. HNd(g, r[g], i) # a /\ HNd(g, r[g], i) # n
    BY <1>1, <1>2, <1>3, <1>8, <2>1, HDistinct
  <2>3. c[HNd(g, r[g], i)] = HNd(g, r[g], i + 1)
    BY <1>1 DEF ChainAt
  <2>4. CASE i < Len(r[g])
    <3>1. i + 1 \in 1..Len(r[g]) /\ HNd(g, r[g], i + 1) \in HashNodes
      BY <1>1, <2>1, <2>4, HNdIs
    <3>2. HNd(g, r[g], i + 1) # b /\ HNd(g, r[g], i + 1) # n
      <4>1. HNd(g, r[g], i + 1) # b
        BY <1>1, <1>2, <1>8, <2>1, <3>1, HDistinct
      <4> QED
        BY <1>3, <2>1, <4>1
    <3>3. q[HNd(g, r[g], i + 1)] = HNd(g, r[g], i)
      BY <1>1, <2>4 DEF ChainAt
    <3> QED
      BY <2>1, <2>2, <2>3, <3>1, <3>2, <3>3
  <2>5. CASE i = Len(r[g])
    <3>1. HNd(g, r[g], i + 1) = NULL
      BY <1>1, <2>5, HNdIs
    <3> QED
      BY <2>1, <2>2, <2>3, <3>1
  <2> QED
    BY <2>1, <2>4, <2>5
<1>0. /\ \A g \in HashHeads \ {h} : t[g] = r[g]
      /\ Len(t[h]) = Ln + 1
      /\ \A i \in 1..Ln + 1 : t[h][i] = IF i <= k THEN r[h][i] ELSE IF i = k + 1 THEN n ELSE r[h][i - 1]
  BY <1>1 DEF PutAt, Chains
<1>9. \A i \in 0..Ln + 2 : HNd(h, t[h], i) = IF i <= k THEN HNd(h, r[h], i)
                                              ELSE IF i = k + 1 THEN n ELSE HNd(h, r[h], i - 1)
  BY <1>0, <1>2 DEF HNd
<1>10. ASSUME NEW i \in 0..Ln + 1 PROVE Pair_(HNd(h, t[h], i), HNd(h, t[h], i + 1))
  <2>1. i \in 0..Ln + 2 /\ i + 1 \in 0..Ln + 2 /\ i \in Int
    BY <1>2
  <2>2. CASE i < k
    <3>1. HNd(h, t[h], i) = HNd(h, r[h], i) /\ HNd(h, t[h], i + 1) = HNd(h, r[h], i + 1)
      BY <1>2, <1>9, <2>1, <2>2
    <3>2. i \in 0..Ln /\ i # k
      BY <1>2, <2>1, <2>2
    <3> QED
      BY <1>8, <3>1, <3>2
  <2>3. CASE i = k
    <3>1. HNd(h, t[h], i) = a /\ HNd(h, t[h], i + 1) = n
      BY <1>2, <1>9, <2>1, <2>3
    <3> QED
      BY <3>1
  <2>4. CASE i = k + 1
    <3>1. HNd(h, t[h], i) = n /\ HNd(h, t[h], i + 1) = b
      BY <1>2, <1>9, <2>1, <2>4
    <3> QED
      BY <3>1
  <2>5. CASE i > k + 1
    <3>1. HNd(h, t[h], i) = HNd(h, r[h], i - 1) /\ HNd(h, t[h], i + 1) = HNd(h, r[h], (i + 1) - 1)
      BY <1>2, <1>9, <2>1, <2>5
    <3>2. i - 1 \in 0..Ln /\ i - 1 # k /\ (i + 1) - 1 = (i - 1) + 1
      BY <1>2, <2>1, <2>5
    <3> QED
      BY <1>8, <3>1, <3>2
  <2> QED
    BY <1>2, <2>1, <2>2, <2>3, <2>4, <2>5
<1>11. ASSUME NEW g \in HashHeads PROVE ChainAt(c2, q2, g, t[g])
  <2>0. t[g] \in Seq(HashNodes) /\ Len(t[g]) \in Nat
    BY DEF Chains
  <2>1. ASSUME NEW i \in 0..Len(t[g]) PROVE Pair_(HNd(g, t[g], i), HNd(g, t[g], i + 1))
    BY <1>0, <1>8, <1>10
  <2>2. ASSUME NEW i \in 0..Len(t[g]), i < Len(t[g]) PROVE HNd(g, t[g], i + 1) # NULL
    <3>1. i + 1 \in 1..Len(t[g])
      BY <2>0, <2>2
    <3> QED
      BY <3>1, HNdIs, LinksAssumption
  <2> QED
    BY <2>1, <2>2 DEF ChainAt
<1>12. Apart(t) /\ \A y : Occurs(y, t) <=> Occurs(y, r) \/ y = n
  <2>1. r \in [HashHeads -> Seq(HashNodes)] /\ t \in [HashHeads -> Seq(HashNodes)]
    BY <1>1 DEF Chains
  <2> QED
    BY ONLY <1>1, <2>1, PutAt(r, t, h, k, n), h \in HashHeads, k \in 0..Len(r[h]), ~Occurs(n, r), PutApart
<1>13. ASSUME NEW y \in HashNodes, ~Occurs(y, t) PROVE q2[y] \in {NULL, y}
  <2>1. y # n /\ ~Occurs(y, r)
    BY <1>12, <1>13
  <2>2. y # b
    BY <1>1, <1>2, <2>1, OnChain
  <2> QED
    BY <2>1, <2>2 DEF HashGood
<1> QED
  BY <1>11, <1>12, <1>13 DEF HashGood

LEMMA ChainCutOf ==
    ASSUME NEW r \in Chains, Apart(r), NEW h \in HashHeads, NEW k \in 1..Len(r[h])
    PROVE  LET t == [g \in HashHeads |-> K!RemoveFirst(r[g], r[h][k])]
           IN  t \in Chains /\ CutAt(r, t, h, k)
<1> DEFINE x == r[h][k]
           t == [g \in HashHeads |-> K!RemoveFirst(r[g], x)]
<1>1. \A g \in HashHeads : r[g] \in Seq(HashNodes)
  BY DEF Chains
<1>2. /\ t[h] \in Seq(HashNodes) /\ Len(t[h]) = Len(r[h]) - 1
      /\ \A i \in 1..Len(r[h]) - 1 : t[h][i] = IF i < k THEN r[h][i] ELSE r[h][i + 1]
  <2>1. \A j \in 1..Len(r[h]) : r[h][j] = r[h][k] => j = k
    BY DEF Apart, Chains
  <2> QED
    BY <1>1, <2>1, RemovedFirst
<1>3. ASSUME NEW g \in HashHeads \ {h} PROVE t[g] = r[g]
  <2>1. \A j \in 1..Len(r[g]) : r[g][j] # x
    BY DEF Apart, Chains
  <2> QED
    BY <1>1, <2>1, NotRemoved
<1>4. t \in Chains
  BY <1>1, <1>2, <1>3 DEF Chains
<1>5. CutAt(r, t, h, k)
  BY <1>2, <1>3 DEF CutAt, Chains
<1> QED
  BY <1>4, <1>5

(* The chains as they stand.                                               *)
HashInv == HashGood(cell, pprev, chain)

LEMMA HashedIs == ASSUME HashInv, NEW x PROVE K!Hashed(x) <=> Occurs(x, chain)
<1>1. chain \in Chains
  BY DEF HashInv, HashGood
<1>2. \A h \in HashHeads : DOMAIN chain[h] = 1..Len(chain[h])
  BY <1>1 DEF Chains
<1> QED
  BY <1>1, <1>2 DEF K!Hashed, K!ToSet, Occurs, Chains

LEMMA HashPlace ==
    ASSUME HashInv, NEW n, K!Hashed(n)
    PROVE  \E h \in HashHeads : \E k \in 1..Len(chain[h]) : chain[h][k] = n
BY HashedIs DEF Occurs, HashInv, HashGood, Chains

LEMMA HashStored ==
    ASSUME NEW c, NEW q, NEW t, HashGood(c, q, t), cell' = c, pprev' = q, chain' = t
    PROVE  HashInv'
<1>1. HashGood(cell', pprev', chain')
  OBVIOUS
<1> QED
  BY <1>1 DEF HashInv, HashGood, Chains, Apart, ChainAt, HNd, Occurs, HashLinks

LEMMA HashStart == ASSUME K!Init PROVE HashInv
<1>1. chain = [h \in HashHeads |-> <<>>] /\ <<>> \in Seq(HashNodes) /\ Len(<<>>) = 0
  BY EmptySeq DEF K!Init
<1>2. chain \in Chains /\ DOMAIN chain = HashHeads /\ \A h \in HashHeads : chain[h] = <<>>
  BY <1>1 DEF Chains
<1>3. Apart(chain) /\ \A x : ~Occurs(x, chain)
  BY <1>2 DEF Apart, Occurs
<1>4. /\ cell \in [HashLinks -> HashNodes \union {NULL}] /\ pprev \in [HashNodes -> HashLinks \union {NULL}]
      /\ \A h \in HashHeads : cell[h] = NULL
      /\ \A n \in HashNodes : pprev[n] = NULL
  BY DEF K!Init, HashLinks
<1>5. \A h \in HashHeads : ChainAt(cell, pprev, h, chain[h])
  BY <1>2, <1>4 DEF ChainAt, HNd
<1> QED
  BY <1>2, <1>3, <1>4, <1>5 DEF HashInv, HashGood

LEMMA HlistDelKeeps == ASSUME HashInv, NEW n \in HashNodes, K!Hashed(n), K!HlistDel(n) PROVE HashInv'
<1>1. PICK h \in HashHeads : \E k \in 1..Len(chain[h]) : chain[h][k] = n
  BY HashPlace
<1>2. PICK k \in 1..Len(chain[h]) : chain[h][k] = n
  BY <1>1
<1>3. chain \in Chains /\ Apart(chain) /\ HashGood(cell, pprev, chain)
  BY DEF HashInv, HashGood
<1>4. chain' \in Chains /\ CutAt(chain, chain', h, k)
  <2>1. chain' = [g \in HashHeads |-> K!RemoveFirst(chain[g], chain[h][k])]
    BY <1>2 DEF K!HlistDel
  <2> QED
    BY <1>3, <2>1, ChainCutOf
<1>5. HashGood([cell EXCEPT ![pprev[n]] = cell[n], ![n] = NULL],
               [K!BackTo(pprev, cell[n], pprev[n]) EXCEPT ![n] = NULL], chain')
  BY <1>2, <1>3, <1>4, HashCut
<1> QED
  BY <1>5, HashStored DEF K!HlistDel

LEMMA FakeKeeps ==
    ASSUME HashInv, NEW n \in HashNodes, ~K!Hashed(n), NEW v, v \in {NULL, n}, NEW u, u \in {NULL, cell[n]},
           cell' = [cell EXCEPT ![n] = u], pprev' = [pprev EXCEPT ![n] = v], UNCHANGED chain
    PROVE  HashInv'
<1>1. /\ chain \in Chains /\ Apart(chain) /\ ~Occurs(n, chain)
      /\ cell \in [HashLinks -> HashNodes \union {NULL}] /\ pprev \in [HashNodes -> HashLinks \union {NULL}]
  BY HashedIs DEF HashInv, HashGood
<1>2. /\ cell' \in [HashLinks -> HashNodes \union {NULL}] /\ pprev' \in [HashNodes -> HashLinks \union {NULL}]
  BY <1>1 DEF HashLinks
<1>3. /\ \A y \in HashLinks \ {n} : cell'[y] = cell[y]
      /\ \A y \in HashNodes \ {n} : pprev'[y] = pprev[y]
      /\ pprev'[n] \in {NULL, n}
  BY <1>1
<1>4. ASSUME NEW h \in HashHeads PROVE ChainAt(cell', pprev', h, chain[h])
  <2>1. ChainAt(cell, pprev, h, chain[h]) /\ Len(chain[h]) \in Nat
    BY <1>1, HNdIs DEF HashInv, HashGood
  <2>2. ASSUME NEW i \in 0..Len(chain[h])
        PROVE  cell'[HNd(h, chain[h], i)] = HNd(h, chain[h], i + 1)
    BY <1>1, <1>3, <2>1, HNdIs, OnChain DEF ChainAt
  <2>3. ASSUME NEW i \in 0..Len(chain[h]), i < Len(chain[h])
        PROVE  pprev'[HNd(h, chain[h], i + 1)] = HNd(h, chain[h], i)
    <3>1. i + 1 \in 1..Len(chain[h]) /\ i + 1 \in Int
      BY <2>1, <2>3
    <3>2. HNd(h, chain[h], i + 1) \in HashNodes \ {n}
      BY <1>1, <3>1, HNdIs, OnChain
    <3> QED
      BY <1>3, <2>1, <2>3, <3>2 DEF ChainAt
  <2> QED
    BY <2>2, <2>3 DEF ChainAt
<1>5. ASSUME NEW y \in HashNodes, ~Occurs(y, chain) PROVE pprev'[y] \in {NULL, y}
  BY <1>3, <1>5 DEF HashInv, HashGood
<1>6. HashGood(cell', pprev', chain)
  BY <1>1, <1>2, <1>4, <1>5 DEF HashGood
<1> QED
  BY <1>6, HashStored

LEMMA HlistDelInitKeeps == ASSUME HashInv, NEW n \in HashNodes, K!hlist_del_init(n) PROVE HashInv'
<1>1. CASE pprev[n] = n
  <2>1. ~K!Hashed(n)
    <3> SUFFICES ASSUME K!Hashed(n) PROVE FALSE
      OBVIOUS
    <3>1. PICK h \in HashHeads : \E k \in 1..Len(chain[h]) : chain[h][k] = n
      BY HashPlace
    <3>2. PICK k \in 1..Len(chain[h]) : chain[h][k] = n
      BY <3>1
    <3>3. chain \in Chains /\ Apart(chain) /\ HashGood(cell, pprev, chain)
      BY DEF HashInv, HashGood
    <3> DEFINE t == [g \in HashHeads |-> K!RemoveFirst(chain[g], chain[h][k])]
    <3>4. t \in Chains /\ CutAt(chain, t, h, k)
      BY <3>3, ChainCutOf
    <3> HIDE DEF t
    <3>5. pprev[n] # n
      BY <3>2, <3>3, <3>4, HashCut
    <3> QED
      BY <1>1, <3>5
  <2> QED
    BY <1>1, <2>1, FakeKeeps DEF K!hlist_del_init
<1>2. CASE pprev[n] # n
  <2>1. K!HlistDel(n) /\ pprev[n] # NULL
    BY <1>2 DEF K!hlist_del_init
  <2>2. K!Hashed(n)
    BY <1>2, <2>1, HashedIs DEF HashInv, HashGood
  <2> QED
    BY <2>1, <2>2, HlistDelKeeps
<1> QED
  BY <1>1, <1>2

LEMMA HlistAddFakeKeeps == ASSUME HashInv, NEW n \in HashNodes, K!hlist_add_fake(n) PROVE HashInv'
<1>1. cell \in [HashLinks -> HashNodes \union {NULL}]
  BY DEF HashInv, HashGood
<1>2. cell' = [cell EXCEPT ![n] = cell[n]]
  BY <1>1 DEF K!hlist_add_fake
<1> QED
  BY <1>2, FakeKeeps DEF K!hlist_add_fake

LEMMA HlistAddHeadKeeps ==
    ASSUME HashInv, NEW n \in HashNodes, NEW h \in HashHeads, K!hlist_add_head(n, h)
    PROVE  HashInv'
<1>1. /\ HashGood(cell, pprev, chain) /\ chain \in Chains /\ ~Occurs(n, chain)
      /\ cell \in [HashLinks -> HashNodes \union {NULL}] /\ pprev \in [HashNodes -> HashLinks \union {NULL}]
      /\ n \in HashLinks /\ h \in HashLinks /\ n # h /\ n # NULL
  BY HashedIs, LinksAssumption DEF HashInv, HashGood, K!hlist_add_head, HashLinks
<1>2. chain' \in Chains /\ PutAt(chain, chain', h, 0, n)
  <2>1. /\ chain[h] \in Seq(HashNodes) /\ chain'[h] = <<n>> \o chain[h]
        /\ \A g \in HashHeads \ {h} : chain'[g] = chain[g] /\ chain[g] \in Seq(HashNodes)
        /\ chain' = [chain EXCEPT ![h] = <<n>> \o chain[h]]
    BY <1>1 DEF Chains, K!hlist_add_head
  <2>2. /\ chain'[h] \in Seq(HashNodes) /\ Len(chain'[h]) = Len(chain[h]) + 1
        /\ \A i \in 1..Len(chain[h]) + 1 : chain'[h][i] = IF i = 1 THEN n ELSE chain[h][i - 1]
    BY <2>1, PutFirst
  <2>3. chain' \in Chains
    BY <1>1, <2>1, <2>2 DEF Chains
  <2> QED
    BY <1>1, <2>1, <2>2, <2>3 DEF PutAt, Chains
<1> DEFINE b == cell[h]
<1>3. h = HNd(h, chain[h], 0) /\ b = HNd(h, chain[h], 0 + 1) /\ 0 \in 0..Len(chain[h])
  BY <1>1, HNdIs DEF HashGood, ChainAt
<1>4. b # n /\ b \in HashNodes \union {NULL}
  <2>1. 0 + 1 \in Int
    OBVIOUS
  <2>2. HNd(h, chain[h], 0 + 1) # n
    BY <1>1, <2>1, OnChain
  <2> QED
    BY <1>1, <1>3, <2>2
<1>5. /\ cell' = [cell EXCEPT ![n] = b, ![h] = n]
      /\ pprev' = [K!BackTo(pprev, b, n) EXCEPT ![n] = h]
  BY DEF K!hlist_add_head
<1> HIDE DEF b
<1>6. /\ cell' \in [HashLinks -> HashNodes \union {NULL}] /\ cell'[n] = b /\ cell'[h] = n
      /\ \A y \in HashLinks \ {h, n} : cell'[y] = cell[y]
  BY <1>1, <1>4, <1>5
<1>7. /\ pprev' \in [HashNodes -> HashLinks \union {NULL}] /\ pprev'[n] = h /\ (b # NULL => pprev'[b] = n)
      /\ \A y \in HashNodes \ {b, n} : pprev'[y] = pprev[y]
  BY <1>1, <1>4, <1>5 DEF K!BackTo
<1>8. HashGood(cell', pprev', chain')
  BY <1>1, <1>2, <1>3, <1>6, <1>7, HashPut
<1> QED
  BY <1>8, HashStored

LEMMA BesideIs ==
    ASSUME NEW S, NEW s \in Seq(S), NEW k \in 1..Len(s), NEW m, s[k] = m,
           \A j \in 1..Len(s) : s[j] = m => j = k,
           NEW x \in S, NEW y \in S, NEW t, t = K!Beside(s, m, <<x, y>>)
    PROVE  /\ t \in Seq(S) /\ Len(t) = Len(s) + 1
           /\ \A i \in 1..Len(s) + 1 :
                 t[i] = IF i < k THEN s[i] ELSE IF i = k THEN x ELSE IF i = k + 1 THEN y ELSE s[i - 1]
<1>1. (CHOOSE j \in 1..Len(s) : s[j] = m) = k
  OBVIOUS
<1> DEFINE both == <<x, y>>
<1>2. t = [i \in 1..Len(s) + 1 |-> IF i < k THEN s[i] ELSE IF i > k + 1 THEN s[i - 1] ELSE both[i - k + 1]]
  BY <1>1 DEF K!Beside
<1>3. both[1] = x /\ both[2] = y
  OBVIOUS
<1> HIDE DEF both
<1>4. Len(s) \in Nat /\ k \in Int /\ k <= Len(s) /\ 1 <= k /\ \A i \in 1..Len(s) : s[i] \in S
  OBVIOUS
<1>5. ASSUME NEW i \in 1..Len(s) + 1
      PROVE  /\ t[i] = IF i < k THEN s[i] ELSE IF i = k THEN x ELSE IF i = k + 1 THEN y ELSE s[i - 1]
             /\ t[i] \in S
  <2>1. CASE i < k
    <3>1. i \in 1..Len(s) /\ i \in 1..Len(s) + 1
      BY <1>4, <2>1
    <3>2. t[i] = s[i]
      BY ONLY <1>2, <2>1, <3>1
    <3> QED
      BY <1>4, <2>1, <3>1, <3>2
  <2>2. CASE i = k
    <3>1. i - k + 1 = 1 /\ ~(i < k) /\ ~(i > k + 1)
      BY <1>4, <2>2
    <3> QED
      BY <1>2, <1>3, <2>2, <3>1
  <2>3. CASE i = k + 1
    <3>1. i - k + 1 = 2 /\ ~(i < k) /\ ~(i > k + 1) /\ i # k
      BY <1>4, <2>3
    <3> QED
      BY <1>2, <1>3, <2>3, <3>1
  <2>4. CASE i > k + 1
    <3>1. ~(i < k) /\ i # k /\ i # k + 1 /\ i - 1 \in 1..Len(s)
      BY <1>4, <2>4
    <3> QED
      BY <1>2, <1>4, <2>4, <3>1
  <2> QED
    BY <1>4, <2>1, <2>2, <2>3, <2>4
<1>6. t \in [1..Len(s) + 1 -> S]
  BY <1>2, <1>5
<1>7. t \in Seq(S) /\ Len(t) = Len(s) + 1
  <2>1. Len(s) + 1 \in Nat
    BY <1>4
  <2> QED
    BY ONLY <1>6, <2>1
<1> QED
  BY <1>5, <1>7

LEMMA PutBeside ==
    ASSUME NEW r \in Chains, Apart(r), NEW h \in HashHeads, NEW k \in 1..Len(r[h]),
           NEW m, m = r[h][k], NEW n \in HashNodes
    PROVE  \A t :
             /\ t = [g \in HashHeads |-> IF m \in K!ToSet(r[g]) THEN K!Beside(r[g], m, <<n, m>>) ELSE r[g]]
                   => t \in Chains /\ PutAt(r, t, h, k - 1, n)
             /\ t = [g \in HashHeads |-> IF m \in K!ToSet(r[g]) THEN K!Beside(r[g], m, <<m, n>>) ELSE r[g]]
                   => t \in Chains /\ PutAt(r, t, h, k, n)
<1>1. \A g \in HashHeads : r[g] \in Seq(HashNodes) /\ DOMAIN r[g] = 1..Len(r[g]) /\ Len(r[g]) \in Nat
  BY DEF Chains
<1>2. m \in HashNodes /\ k \in Int /\ 1 <= k /\ k <= Len(r[h])
  BY <1>1
<1>3. m \in K!ToSet(r[h]) /\ \A g \in HashHeads \ {h} : m \notin K!ToSet(r[g])
  BY <1>1 DEF K!ToSet, Apart, Chains
<1>4. \A j \in 1..Len(r[h]) : r[h][j] = m => j = k
  BY DEF Apart, Chains
<1>6. ASSUME NEW x \in HashNodes, NEW y \in HashNodes,
             NEW t, t = [g \in HashHeads |-> IF m \in K!ToSet(r[g]) THEN K!Beside(r[g], m, <<x, y>>) ELSE r[g]]
      PROVE  /\ t \in Chains /\ Len(t[h]) = Len(r[h]) + 1
             /\ \A g \in DOMAIN r \ {h} : t[g] = r[g]
             /\ \A i \in 1..Len(r[h]) + 1 :
                     t[h][i] = IF i < k THEN r[h][i] ELSE IF i = k THEN x ELSE IF i = k + 1 THEN y ELSE r[h][i - 1]
  <2>1. t[h] = K!Beside(r[h], m, <<x, y>>) /\ \A g \in HashHeads \ {h} : t[g] = r[g]
    BY <1>3, <1>6
  <2>2. /\ t[h] \in Seq(HashNodes) /\ Len(t[h]) = Len(r[h]) + 1
        /\ \A i \in 1..Len(r[h]) + 1 :
                     t[h][i] = IF i < k THEN r[h][i] ELSE IF i = k THEN x ELSE IF i = k + 1 THEN y ELSE r[h][i - 1]
    <3> DEFINE s == r[h]
               u == t[h]
    <3>1. s \in Seq(HashNodes) /\ k \in 1..Len(s) /\ s[k] = m /\ u = K!Beside(s, m, <<x, y>>)
          /\ \A j \in 1..Len(s) : s[j] = m => j = k
      BY <1>1, <1>4, <2>1
    <3> HIDE DEF s, u
    <3>2. /\ u \in Seq(HashNodes) /\ Len(u) = Len(s) + 1
          /\ \A i \in 1..Len(s) + 1 :
                 u[i] = IF i < k THEN s[i] ELSE IF i = k THEN x ELSE IF i = k + 1 THEN y ELSE s[i - 1]
      BY ONLY <3>1, x \in HashNodes, y \in HashNodes, BesideIs
    <3> QED
      BY <3>2 DEF s, u
  <2>3. t \in Chains
    BY <1>1, <1>6, <2>1, <2>2 DEF Chains
  <2> QED
    BY <2>1, <2>2, <2>3 DEF Chains
<1> DEFINE t1 == [g \in HashHeads |-> IF m \in K!ToSet(r[g]) THEN K!Beside(r[g], m, <<n, m>>) ELSE r[g]]
           t2 == [g \in HashHeads |-> IF m \in K!ToSet(r[g]) THEN K!Beside(r[g], m, <<m, n>>) ELSE r[g]]
<1>7. t1 \in Chains /\ PutAt(r, t1, h, k - 1, n)
  <2>1. /\ t1 \in Chains /\ Len(t1[h]) = Len(r[h]) + 1
        /\ \A g \in DOMAIN r \ {h} : t1[g] = r[g]
        /\ \A i \in 1..Len(r[h]) + 1 :
              t1[h][i] = IF i < k THEN r[h][i] ELSE IF i = k THEN n ELSE IF i = k + 1 THEN m ELSE r[h][i - 1]
    BY <1>2, <1>6
  <2> HIDE DEF t1
  <2>2. ASSUME NEW i \in 1..Len(r[h]) + 1
        PROVE  t1[h][i] = IF i <= k - 1 THEN r[h][i] ELSE IF i = (k - 1) + 1 THEN n ELSE r[h][i - 1]
    <3>1. (i <= k - 1 <=> i < k) /\ (k - 1) + 1 = k /\ (i = k + 1 => i - 1 = k)
      BY <1>2
    <3> QED
      BY <2>1, <3>1
  <2> QED
    BY <2>1, <2>2 DEF PutAt
<1>8. t2 \in Chains /\ PutAt(r, t2, h, k, n)
  <2>1. /\ t2 \in Chains /\ Len(t2[h]) = Len(r[h]) + 1
        /\ \A g \in DOMAIN r \ {h} : t2[g] = r[g]
        /\ \A i \in 1..Len(r[h]) + 1 :
              t2[h][i] = IF i < k THEN r[h][i] ELSE IF i = k THEN m ELSE IF i = k + 1 THEN n ELSE r[h][i - 1]
    BY <1>2, <1>6
  <2> HIDE DEF t2
  <2>2. ASSUME NEW i \in 1..Len(r[h]) + 1
        PROVE  t2[h][i] = IF i <= k THEN r[h][i] ELSE IF i = k + 1 THEN n ELSE r[h][i - 1]
    <3>1. (i <= k <=> (i < k \/ i = k)) /\ (i = k + 1 => i # k /\ ~(i < k))
      BY <1>2
    <3> QED
      BY <2>1, <3>1
  <2> QED
    BY <2>1, <2>2 DEF PutAt
<1> QED
  BY <1>7, <1>8

LEMMA HlistAddBesideKeeps ==
    ASSUME HashInv, NEW n \in HashNodes, NEW m \in HashNodes,
           K!hlist_add_before(n, m) \/ K!hlist_add_behind(n, m)
    PROVE  HashInv'
<1>1. /\ HashGood(cell, pprev, chain) /\ chain \in Chains /\ Apart(chain)
      /\ ~Occurs(n, chain) /\ K!Hashed(m)
      /\ cell \in [HashLinks -> HashNodes \union {NULL}] /\ pprev \in [HashNodes -> HashLinks \union {NULL}]
      /\ n \in HashLinks /\ m \in HashLinks /\ n # NULL
  BY HashedIs, LinksAssumption DEF HashInv, HashGood, K!hlist_add_before, K!hlist_add_behind, HashLinks
<1>2. PICK h \in HashHeads : \E k \in 1..Len(chain[h]) : chain[h][k] = m
  BY <1>1, HashPlace
<1>3. PICK k \in 1..Len(chain[h]) : chain[h][k] = m
  BY <1>2
<1>4. /\ Len(chain[h]) \in Nat /\ k \in Int /\ k - 1 \in 0..Len(chain[h]) /\ k \in 0..Len(chain[h])
      /\ (k - 1) + 1 = k /\ k - 1 < Len(chain[h]) /\ m = HNd(h, chain[h], k) /\ k + 1 \in Int
  BY <1>1, <1>3, HNdIs
<1> DEFINE a == HNd(h, chain[h], k - 1)
           b == HNd(h, chain[h], k + 1)
<1>5. pprev[m] = a /\ cell[m] = b /\ a \in HashLinks /\ a # n /\ b # n /\ m # n /\ b \in HashNodes \union {NULL}
  <2>1. pprev[m] = a /\ cell[m] = b
    BY <1>1, <1>4 DEF HashGood, ChainAt
  <2>2. a \in HashLinks
    BY <1>1, <1>4, HNdIs
  <2> QED
    BY <1>1, <1>4, <2>1, <2>2, OnChain
<1>9. m = chain[h][k]
  BY <1>3
<1>10. \A t :
          /\ t = [g \in HashHeads |-> IF m \in K!ToSet(chain[g]) THEN K!Beside(chain[g], m, <<n, m>>) ELSE chain[g]]
                => t \in Chains /\ PutAt(chain, t, h, k - 1, n)
          /\ t = [g \in HashHeads |-> IF m \in K!ToSet(chain[g]) THEN K!Beside(chain[g], m, <<m, n>>) ELSE chain[g]]
                => t \in Chains /\ PutAt(chain, t, h, k, n)
  BY ONLY <1>1, <1>9, PutBeside, h \in HashHeads, k \in 1..Len(chain[h]), n \in HashNodes
<1>6. CASE K!hlist_add_before(n, m)
  <2>1. chain' \in Chains /\ PutAt(chain, chain', h, k - 1, n)
    <3>1. chain' = [g \in HashHeads |-> IF m \in K!ToSet(chain[g]) THEN K!Beside(chain[g], m, <<n, m>>) ELSE chain[g]]
      BY <1>6 DEF K!hlist_add_before
    <3> QED
      BY ONLY <1>10, <3>1
  <2>2. cell' = [cell EXCEPT ![n] = m, ![a] = n] /\ pprev' = [pprev EXCEPT ![n] = a, ![m] = n]
    BY <1>5, <1>6 DEF K!hlist_add_before
  <2>0. a = HNd(h, chain[h], k - 1) /\ m = HNd(h, chain[h], (k - 1) + 1)
    BY <1>4
  <2> HIDE DEF a, b
  <2>3. /\ cell' \in [HashLinks -> HashNodes \union {NULL}] /\ cell'[n] = m /\ cell'[a] = n
        /\ \A y \in HashLinks \ {a, n} : cell'[y] = cell[y]
    BY <1>1, <1>5, <2>2
  <2>4. /\ pprev' \in [HashNodes -> HashLinks \union {NULL}] /\ pprev'[n] = a /\ (m # NULL => pprev'[m] = n)
        /\ \A y \in HashNodes \ {m, n} : pprev'[y] = pprev[y]
    BY <1>1, <1>5, <2>2
  <2>5. HashGood(cell', pprev', chain')
    BY <1>1, <1>4, <2>0, <2>1, <2>3, <2>4, HashPut
  <2> QED
    BY <2>5, HashStored
<1>7. CASE K!hlist_add_behind(n, m)
  <2>1. chain' \in Chains /\ PutAt(chain, chain', h, k, n)
    <3>1. chain' = [g \in HashHeads |-> IF m \in K!ToSet(chain[g]) THEN K!Beside(chain[g], m, <<m, n>>) ELSE chain[g]]
      BY <1>7 DEF K!hlist_add_behind
    <3> QED
      BY ONLY <1>10, <3>1
  <2>2. cell' = [cell EXCEPT ![n] = b, ![m] = n] /\ pprev' = K!BackTo([pprev EXCEPT ![n] = m], b, n)
    BY <1>5, <1>7 DEF K!hlist_add_behind
  <2>0. m = HNd(h, chain[h], k) /\ b = HNd(h, chain[h], k + 1)
    BY <1>4
  <2> HIDE DEF a, b
  <2>3. /\ cell' \in [HashLinks -> HashNodes \union {NULL}] /\ cell'[n] = b /\ cell'[m] = n
        /\ \A y \in HashLinks \ {m, n} : cell'[y] = cell[y]
    BY <1>1, <1>5, <2>2
  <2>4. /\ pprev' \in [HashNodes -> HashLinks \union {NULL}] /\ pprev'[n] = m /\ (b # NULL => pprev'[b] = n)
        /\ \A y \in HashNodes \ {b, n} : pprev'[y] = pprev[y]
    BY <1>1, <1>5, <2>2 DEF K!BackTo
  <2>5. HashGood(cell', pprev', chain')
    BY <1>1, <1>4, <2>0, <2>1, <2>3, <2>4, HashPut
  <2> QED
    BY <2>5, HashStored
<1> QED
  BY <1>6, <1>7

LEMMA HlistMoveListKeeps ==
    ASSUME HashInv, NEW old \in HashHeads, NEW h \in HashHeads, K!hlist_move_list(old, h)
    PROVE  HashInv'
<1> DEFINE m == Len(chain[old])
           b == cell[old]
           t == chain'
           c2 == cell'
           q2 == pprev'
<1>1. /\ HashGood(cell, pprev, chain) /\ chain \in Chains /\ Apart(chain)
      /\ cell \in [HashLinks -> HashNodes \union {NULL}] /\ pprev \in [HashNodes -> HashLinks \union {NULL}]
      /\ old \in HashLinks /\ h \in HashLinks /\ old # h /\ chain[h] = <<>>
      /\ chain[old] \in Seq(HashNodes) /\ m \in Nat
  BY LinksAssumption DEF HashInv, HashGood, K!hlist_move_list, HashLinks, Chains
<1>2. /\ t \in Chains /\ t[h] = chain[old] /\ t[old] = <<>>
      /\ \A g \in HashHeads \ {h, old} : t[g] = chain[g]
  <2>1. chain' = [chain EXCEPT ![h] = chain[old], ![old] = <<>>]
    BY DEF K!hlist_move_list
  <2> QED
    BY <1>1, <2>1, EmptySeq DEF Chains
<1>3. b = HNd(old, chain[old], 1) /\ b \in HashNodes \union {NULL} /\ (b # NULL => m > 0)
  <2>1. 0 \in 0..m /\ HNd(old, chain[old], 0) = old /\ 0 + 1 = 1
    BY <1>1, HNdIs
  <2>2. b = HNd(old, chain[old], 1)
    BY <1>1, <2>1 DEF HashGood, ChainAt
  <2> QED
    BY <1>1, <2>2 DEF HNd
<1>4. cell' = [cell EXCEPT ![h] = b, ![old] = NULL] /\ pprev' = K!BackTo(pprev, b, h)
  BY DEF K!hlist_move_list
<1> HIDE DEF t, b, c2, q2
<1>5. /\ c2 \in [HashLinks -> HashNodes \union {NULL}] /\ c2[h] = b /\ c2[old] = NULL
      /\ \A y \in HashLinks \ {h, old} : c2[y] = cell[y]
  BY <1>1, <1>3, <1>4 DEF c2
<1>6. /\ q2 \in [HashNodes -> HashLinks \union {NULL}] /\ (b # NULL => q2[b] = h)
      /\ \A y \in HashNodes \ {b} : q2[y] = pprev[y]
  BY <1>1, <1>3, <1>4 DEF q2, K!BackTo
<1>7. ASSUME NEW g \in HashHeads, NEW i \in 0..Len(chain[g]), i = 0 => g # h /\ g # old
      PROVE  /\ c2[HNd(g, chain[g], i)] = HNd(g, chain[g], i + 1)
             /\ i < Len(chain[g]) => q2[HNd(g, chain[g], i + 1)] = HNd(g, chain[g], i)
  <2>1. /\ Len(chain[g]) \in Nat /\ i \in Int /\ i + 1 \in Int /\ HNd(g, chain[g], i) \in HashLinks
        /\ 0 \in 0..Len(chain[h]) /\ 0 \in 0..m
        /\ HNd(h, chain[h], 0) = h /\ HNd(old, chain[old], 0) = old
    BY <1>1, HNdIs
  <2>2. HNd(g, chain[g], i) # h /\ HNd(g, chain[g], i) # old
    <3>1. HNd(g, chain[g], i) = HNd(h, chain[h], 0) => g = h /\ i = 0
      BY <1>1, <2>1, HDistinct
    <3>2. HNd(g, chain[g], i) = HNd(old, chain[old], 0) => g = old /\ i = 0
      BY <1>1, <2>1, HDistinct
    <3> QED
      BY <1>7, <2>1, <3>1, <3>2
  <2>3. c2[HNd(g, chain[g], i)] = HNd(g, chain[g], i + 1)
    BY <1>1, <1>5, <2>1, <2>2 DEF HashGood, ChainAt
  <2>4. ASSUME i < Len(chain[g]) PROVE q2[HNd(g, chain[g], i + 1)] = HNd(g, chain[g], i)
    <3>1. i + 1 \in 1..Len(chain[g]) /\ HNd(g, chain[g], i + 1) \in HashNodes
      BY <1>1, <2>1, <2>4, HNdIs
    <3>2. HNd(g, chain[g], i + 1) # b
      <4> SUFFICES ASSUME HNd(g, chain[g], i + 1) = HNd(old, chain[old], 1) PROVE FALSE
        BY <1>3
      <4>1. 1 \in 1..m + 1
        BY <1>1
      <4>2. g = old /\ i + 1 = 1
        BY <1>1, <3>1, <4>1, HDistinct
      <4> QED
        BY <1>7, <2>1, <4>2
    <3> QED
      BY <1>1, <1>6, <2>4, <3>1, <3>2 DEF HashGood, ChainAt
  <2> QED
    BY <2>3, <2>4
<1>8. ChainAt(c2, q2, old, t[old])
  <2>1. Len(t[old]) = 0
    BY <1>2
  <2> QED
    BY <1>2, <1>5, <2>1 DEF ChainAt, HNd
<1>9. ChainAt(c2, q2, h, t[h])
  <2> SUFFICES ASSUME NEW i \in 0..m
               PROVE  /\ c2[HNd(h, chain[old], i)] = HNd(h, chain[old], i + 1)
                      /\ i < m => q2[HNd(h, chain[old], i + 1)] = HNd(h, chain[old], i)
    BY <1>2 DEF ChainAt
  <2>0. \A j \in Int : j # 0 => HNd(h, chain[old], j) = HNd(old, chain[old], j)
    BY <1>1 DEF HNd
  <2>1. CASE i = 0
    <3>1. HNd(h, chain[old], i) = h /\ HNd(h, chain[old], i + 1) = b
      BY <1>3, <2>0, <2>1, <1>1 DEF HNd
    <3>2. i < m => b # NULL
      <4>1. i < m => 1 \in 1..m
        BY <1>1, <2>1
      <4> QED
        BY <1>1, <1>3, <4>1, HNdIs, LinksAssumption
    <3> QED
      BY <1>5, <1>6, <3>1, <3>2
  <2>2. CASE i # 0
    <3>1. i \in Int /\ i + 1 \in Int /\ i + 1 # 0
      BY <1>1
    <3> QED
      BY <1>7, <2>0, <2>2, <3>1
  <2> QED
    BY <2>1, <2>2
<1>10. ASSUME NEW g \in HashHeads PROVE ChainAt(c2, q2, g, t[g])
  <2>1. CASE g # h /\ g # old
    BY <1>2, <1>7, <2>1 DEF ChainAt
  <2> QED
    BY <1>8, <1>9, <2>1
<1>11. Apart(t) /\ \A y : Occurs(y, t) <=> Occurs(y, chain)
  <2>1. JoinAt(chain, t, old, h, 0)
    <3>1. Len(chain[h]) = 0 /\ Len(t[h]) = m
      BY <1>1, <1>2
    <3>2. \A i \in 1..Len(chain[h]) + m :
              t[h][i] = IF i <= 0 THEN chain[h][i] ELSE IF i <= 0 + m THEN chain[old][i - 0] ELSE chain[h][i - m]
      BY <1>1, <1>2, <3>1
    <3> QED
      BY <1>1, <1>2, <3>1, <3>2 DEF JoinAt, Chains
  <2>2. chain \in [HashHeads -> Seq(HashNodes)] /\ t \in [HashHeads -> Seq(HashNodes)]
    BY <1>1, <1>2 DEF Chains
  <2>3. 0 \in 0..Len(chain[h])
    BY <1>1
  <2> QED
    BY ONLY <1>1, <2>1, <2>2, <2>3, h \in HashHeads, old \in HashHeads, JoinApart
<1>12. ASSUME NEW y \in HashNodes, ~Occurs(y, t) PROVE q2[y] \in {NULL, y}
  <2>1. ~Occurs(y, chain)
    BY <1>11, <1>12
  <2>2. y # b
    BY <1>1, <1>3, <2>1, OnChain
  <2> QED
    BY <1>1, <1>6, <2>1, <2>2 DEF HashGood
<1>13. HashGood(c2, q2, t)
  BY <1>2, <1>5, <1>6, <1>10, <1>11, <1>12 DEF HashGood
<1> QED
  BY <1>13, HashStored DEF t, c2, q2

(* Every call keeps the hlists.                                            *)
LEMMA HashStep == ASSUME HashInv, K!HashStep PROVE HashInv'
<1>1. \A n \in HashNodes : K!hlist_del(n) => HashInv'
  BY HlistDelKeeps DEF K!hlist_del
<1> QED
  BY <1>1, HlistDelInitKeeps, HlistAddFakeKeeps, HlistAddHeadKeeps, HlistAddBesideKeeps, HlistMoveListKeeps
  DEF K!HashStep

LEMMA HashStays == ASSUME HashInv, UNCHANGED <<cell, pprev, chain>> PROVE HashInv'
BY DEF HashInv, HashGood, Chains, Apart, ChainAt, HNd, Occurs, HashLinks

(* What the invariant says of a walk from the head down to NULL.           *)
LEMMA ChainsAre == ASSUME HashInv PROVE K!ChainsKept
<1> SUFFICES ASSUME NEW h \in HashHeads,
                    NEW i \in 1..Len(<<h>> \o chain[h] \o <<NULL>>) - 1
             PROVE  LET full == <<h>> \o chain[h] \o <<NULL>>
                    IN  cell[full[i]] = full[i + 1] /\ (full[i + 1] # NULL => pprev[full[i + 1]] = full[i])
  BY DEF K!ChainsKept
<1> DEFINE s == chain[h]
           full == <<h>> \o s \o <<NULL>>
<1>1. s \in Seq(HashNodes) /\ ChainAt(cell, pprev, h, s) /\ Len(s) \in Nat
  BY DEF HashInv, HashGood, Chains
<1>2. /\ Len(full) = Len(s) + 2
      /\ \A j \in 1..Len(s) + 2 : full[j] = HNd(h, s, j - 1)
  <2> DEFINE S == HashNodes \union {h, NULL}
             a == <<h>> \o s
  <2>1. /\ s \in Seq(S) /\ <<h>> \in Seq(S) /\ Len(<<h>>) = 1 /\ <<h>>[1] = h
        /\ <<NULL>> \in Seq(S) /\ Len(<<NULL>>) = 1 /\ <<NULL>>[1] = NULL
    BY <1>1
  <2> HIDE DEF S, s
  <2>2. a \in Seq(S) /\ Len(a) = 1 + Len(s) /\ \A j \in 1..1 + Len(s) : a[j] = IF j <= 1 THEN <<h>>[j] ELSE s[j - 1]
    BY <2>1, ConcatProperties
  <2> HIDE DEF a
  <2>3. /\ Len(a \o <<NULL>>) = Len(a) + 1
        /\ \A j \in 1..Len(a) + 1 : (a \o <<NULL>>)[j] = IF j <= Len(a) THEN a[j] ELSE <<NULL>>[j - Len(a)]
    BY <2>1, <2>2, ConcatProperties
  <2>4. full = a \o <<NULL>>
    BY DEF a
  <2>5. ASSUME NEW j \in 1..Len(s) + 2 PROVE (a \o <<NULL>>)[j] = HNd(h, s, j - 1)
    <3>1. CASE j = 1
      <4>1. j \in 1..1 + Len(s) /\ j <= 1 /\ j \in 1..Len(a) + 1 /\ j <= Len(a) /\ ~(j - 1 \in 1..Len(s)) /\ j - 1 = 0
        BY <1>1, <2>2, <3>1
      <4> QED
        BY <2>1, <2>2, <2>3, <3>1, <4>1 DEF HNd
    <3>2. CASE j > 1 /\ j < Len(s) + 2
      <4>1. j \in 1..1 + Len(s) /\ ~(j <= 1) /\ j \in 1..Len(a) + 1 /\ j <= Len(a) /\ j - 1 \in 1..Len(s)
        BY <1>1, <2>2, <3>2
      <4> QED
        BY <2>2, <2>3, <4>1 DEF HNd
    <3>3. CASE j = Len(s) + 2
      <4>1. j \in 1..Len(a) + 1 /\ ~(j <= Len(a)) /\ j - Len(a) = 1 /\ ~(j - 1 \in 1..Len(s)) /\ j - 1 # 0
        BY <1>1, <2>2, <3>3
      <4> QED
        BY <2>1, <2>3, <4>1 DEF HNd
    <3>4. j = 1 \/ (j > 1 /\ j < Len(s) + 2) \/ j = Len(s) + 2
      <4>1. Len(s) \in Nat /\ j \in 1..Len(s) + 2
        BY <1>1
      <4> QED
        BY ONLY <4>1
    <3> QED
      BY ONLY <3>1, <3>2, <3>3, <3>4
  <2> QED
    BY <1>1, <2>2, <2>3, <2>4, <2>5
<1> HIDE DEF full
<1>3. i - 1 \in 0..Len(s) /\ i \in 1..Len(s) + 2 /\ i + 1 \in 1..Len(s) + 2 /\ (i + 1) - 1 = (i - 1) + 1
  BY <1>1, <1>2 DEF full
<1>4. full[i] = HNd(h, s, i - 1) /\ full[i + 1] = HNd(h, s, (i - 1) + 1)
  BY <1>2, <1>3
<1>5. full[i + 1] # NULL => i - 1 < Len(s)
  <2>1. i - 1 = Len(s) => HNd(h, s, (i - 1) + 1) = NULL
    BY <1>1, <1>3 DEF HNd
  <2> QED
    BY <1>1, <1>3, <1>4, <2>1
<1>6. cell[full[i]] = full[i + 1] /\ (full[i + 1] # NULL => pprev[full[i + 1]] = full[i])
  BY <1>1, <1>3, <1>4, <1>5 DEF ChainAt
<1> QED
  BY <1>6 DEF full

(* The kernel lists, in their part of the run and in the others.           *)
KernelInv == RingInv /\ HashInv

LEMMA KernelStep == ASSUME KernelInv, LibraryNext PROVE KernelInv'
<1>1. CASE K!RingStep
  <2>1. ASSUME NEW x \in RingNodes, K!list_del(x) PROVE UNCHANGED K!hashVars
    BY <2>1 DEF K!list_del, K!Keep
  <2>2. ASSUME NEW x \in RingNodes, K!list_del_init(x) PROVE UNCHANGED K!hashVars
    BY <2>2 DEF K!list_del_init, K!Keep
  <2>3. ASSUME NEW x \in RingNodes, NEW h \in RingHeads, K!list_add(x, h) PROVE UNCHANGED K!hashVars
    BY <2>3 DEF K!list_add, K!Keep
  <2>4. ASSUME NEW x \in RingNodes, NEW h \in RingHeads, K!list_add_tail(x, h) PROVE UNCHANGED K!hashVars
    BY <2>4 DEF K!list_add_tail, K!Keep
  <2>5. ASSUME NEW x \in RingNodes, NEW h \in RingHeads, K!list_move(x, h) PROVE UNCHANGED K!hashVars
    BY <2>5 DEF K!list_move, K!Keep
  <2>6. ASSUME NEW x \in RingNodes, NEW h \in RingHeads, K!list_move_tail(x, h) PROVE UNCHANGED K!hashVars
    BY <2>6 DEF K!list_move_tail, K!Keep
  <2>7. ASSUME NEW x \in RingNodes, NEW y \in RingNodes, K!list_replace(x, y) PROVE UNCHANGED K!hashVars
    BY <2>7 DEF K!list_replace, K!Keep
  <2>8. ASSUME NEW x \in RingNodes, NEW y \in RingNodes, K!list_replace_init(x, y) PROVE UNCHANGED K!hashVars
    BY <2>8 DEF K!list_replace_init, K!Keep
  <2>9. ASSUME NEW h \in RingHeads, K!list_rotate_left(h) PROVE UNCHANGED K!hashVars
    BY <2>9 DEF K!list_rotate_left, K!Keep
  <2>10. ASSUME NEW l \in RingHeads, NEW h \in RingHeads, K!list_splice_init(l, h) PROVE UNCHANGED K!hashVars
    BY <2>10 DEF K!list_splice_init, K!Keep
  <2>11. ASSUME NEW l \in RingHeads, NEW h \in RingHeads, K!list_splice_tail_init(l, h) PROVE UNCHANGED K!hashVars
    BY <2>11 DEF K!list_splice_tail_init, K!Keep
  <2>12. ASSUME NEW l \in RingHeads, NEW h \in RingHeads, NEW x \in K!Links, K!list_cut_position(l, h, x) PROVE UNCHANGED K!hashVars
    BY <2>12 DEF K!list_cut_position, K!Keep
  <2>20. UNCHANGED K!hashVars
    BY <1>1, <2>1, <2>2, <2>3, <2>4, <2>5, <2>6,
       <2>7, <2>8, <2>9, <2>10, <2>11, <2>12 DEF K!RingStep
  <2>21. UNCHANGED <<cell, pprev, chain>>
    BY <2>20 DEF K!hashVars
  <2> QED
    BY <1>1, <2>21, RingStep, HashStays DEF KernelInv
<1>2. CASE K!HashStep
  <2>1. ASSUME NEW n \in HashNodes, K!hlist_del(n) PROVE UNCHANGED K!listVars
    BY <2>1 DEF K!hlist_del, K!KeepHash
  <2>2. ASSUME NEW n \in HashNodes, K!hlist_del_init(n) PROVE UNCHANGED K!listVars
    BY <2>2 DEF K!hlist_del_init, K!KeepHash
  <2>3. ASSUME NEW n \in HashNodes, K!hlist_add_fake(n) PROVE UNCHANGED K!listVars
    BY <2>3 DEF K!hlist_add_fake, K!KeepHash
  <2>4. ASSUME NEW n \in HashNodes, NEW h \in HashHeads, K!hlist_add_head(n, h) PROVE UNCHANGED K!listVars
    BY <2>4 DEF K!hlist_add_head, K!KeepHash
  <2>5. ASSUME NEW n \in HashNodes, NEW m \in HashNodes, K!hlist_add_before(n, m) PROVE UNCHANGED K!listVars
    BY <2>5 DEF K!hlist_add_before, K!KeepHash
  <2>6. ASSUME NEW n \in HashNodes, NEW m \in HashNodes, K!hlist_add_behind(n, m) PROVE UNCHANGED K!listVars
    BY <2>6 DEF K!hlist_add_behind, K!KeepHash
  <2>7. ASSUME NEW h \in HashHeads, NEW l \in HashHeads, K!hlist_move_list(h, l) PROVE UNCHANGED K!listVars
    BY <2>7 DEF K!hlist_move_list, K!KeepHash
  <2>20. UNCHANGED K!listVars
    BY <1>2, <2>1, <2>2, <2>3, <2>4, <2>5, <2>6, <2>7 DEF K!HashStep
  <2>21. UNCHANGED <<next, prev, ring>>
    BY <2>20 DEF K!listVars
  <2> QED
    BY <1>2, <2>21, HashStep, RingStays DEF KernelInv
<1>3. CASE UNCHANGED kernelVars
  BY <1>3, RingStays, HashStays DEF KernelInv, kernelVars
<1> QED
  BY <1>1, <1>2, <1>3 DEF LibraryNext, K!Next

(* KernelListsAreKept: whatever the heads and the nodes are, every walk    *)
(* of a ring and of a hlist finds what the calls should have left on it.   *)
THEOREM KernelListsAreKept == LibrarySpec => [](part = "kernel list" => K!ListsKept)
<1>1. LibraryInit => KernelInv
  BY RingStart, HashStart DEF LibraryInit, KernelInv
<1>2. KernelInv /\ [LibraryNext]_<<part, kernelVars, listsVars, memoryVars, allocatorVars, conversionVars>> => KernelInv'
  BY KernelStep, RingStays, HashStays DEF KernelInv, kernelVars
<1>3. KernelInv => K!ListsKept
  BY RingsAre, ChainsAre DEF KernelInv, K!ListsKept
<1> QED
  BY <1>1, <1>2, <1>3, PTL DEF LibrarySpec

-----------------------------------------------------------------------------
(* SequencesAreKept: whatever the calls were, the kernel lists and the     *)
(* three containers answer with the elements that were put into them, also *)
(* when memory runs out and with indices that no element has, with the     *)
(* exceptions SequencesKept names: a linked list whose tail was set to the *)
(* entry before the last, and an array that a failed realloc() took away.  *)
THEOREM SequencesAreKept == LibrarySpec => []SequencesKept
<1>1. LibraryInit => ListsInv
  BY ListsStart DEF LibraryInit
<1>2. ListsInv /\ [LibraryNext]_<<part, kernelVars, listsVars, memoryVars, allocatorVars, conversionVars>> => ListsInv'
  BY ListsStep, ListsStay
<1>3. ListsInv => L!SequencesKept
  BY ListsAnswer
<1>4. (part = "kernel list" => K!ListsKept) /\ L!SequencesKept => SequencesKept
  BY DEF SequencesKept
<1> QED
  BY <1>1, <1>2, <1>3, <1>4, KernelListsAreKept, PTL DEF LibrarySpec

-----------------------------------------------------------------------------
(* MediaBufferPool.  Its inductive invariant Inv relates the counts to the *)
(* holders, the release under way to what it still owns, and the scan to   *)
(* the lock.                                                               *)

USE PoolAssumption

(* The count of a buffer is 1 when somebody holds it, and 0 otherwise.     *)
CountInv ==
    /\ \A u, v \in Users : \A b \in Buffers : b \in holds[u] /\ b \in holds[v] => u = v
    /\ \A b \in Buffers : refs[b] \in {0, 1}
    /\ \A b \in Buffers : refs[b] = 1 <=> \E u \in Users : b \in holds[u]

(* Who scans has the lock, and looks at buffers of the pool.               *)
ScanInv ==
    \A u \in Users : pc[u] = "scan" => lock = u /\ todo[u] \subseteq pool

(* A thread that releases a buffer still holds it until it drops the count,*)
(* and by then it has freed the payload.                                   *)
ReleaseInv ==
    \A u \in Users :
        /\ pc[u] \in {"release", "drop"} => rel[u] \in holds[u] /\ rel[u] \notin filled
        /\ pc[u] = "drop" => rel[u] \notin raw
        /\ pc[u] = "observer" => rel[u] \in Buffers

PayloadInv == filled \subseteq raw /\ \A b \in raw : refs[b] = 1

(* The buffers with an observer are those of the pool, which are not       *)
(* deleted, and neither are those that somebody holds.                     *)
GoneInv ==
    /\ observed = pool
    /\ pool \cap gone = {}
    /\ \A b \in Buffers : refs[b] = 1 => b \notin gone

(* A buffer out of the pool has at most one thread about to delete it, and *)
(* none while somebody holds it.                                           *)
ObserverInv ==
    \A u \in Users :
        pc[u] = "observer" /\ rel[u] \notin pool =>
            /\ rel[u] \notin gone
            /\ refs[rel[u]] = 0
            /\ \A v \in Users : pc[v] = "observer" /\ rel[v] = rel[u] => v = u

Inv == TypeOK /\ CountInv /\ ScanInv /\ ReleaseInv /\ PayloadInv /\ GoneInv /\ ObserverInv

LEMMA TypeNext == ASSUME Inv, [Next]_vars PROVE TypeOK'
<1> USE DEF Inv, TypeOK, Users, Threads, acqVars, bufVars, Goto, ReturnFromAcquire,
            ReturnFromRelease, Rets, NoRequest
<1>1. CASE OwnerCall
  <2>1. CASE Start
    BY <2>1 DEF Start
  <2>2. CASE Stop
    BY <2>2 DEF Stop
  <2>3. CASE ReleaseAllBuffers
    BY <2>3 DEF ReleaseAllBuffers
  <2>4. ASSUME NEW b \in Buffers, Register(b) PROVE TypeOK'
    BY <2>4 DEF Register
  <2> QED
    BY <1>1, <2>1, <2>2, <2>3, <2>4 DEF OwnerCall
<1>2. ASSUME NEW u \in Acquirers, NEW r \in Nat, NEW k \in BOOLEAN, Acquire(u, r, k)
      PROVE TypeOK'
  BY <1>2 DEF Acquire
<1>3. ASSUME NEW u \in Acquirers, Enter(u) PROVE TypeOK'
  <2>1. CASE running /\ pool # {}
    BY <1>3, <2>1 DEF Enter
  <2>2. CASE ~(running /\ pool # {})
    <3>1. PICK r \in Rets : ReturnFromAcquire(u, r)
      BY <1>3, <2>2 DEF Enter
    <3> QED
      BY <1>3, <2>2, <3>1 DEF Enter
  <2> QED
    BY <2>1, <2>2
<1>4. ASSUME NEW u \in Acquirers, NEW b \in Buffers, Take(u, b) PROVE TypeOK'
  BY <1>4 DEF Take, Suits
<1>14. ASSUME NEW u \in Acquirers, NEW b \in Buffers, Skip(u, b) PROVE TypeOK'
  BY <1>14 DEF Skip
<1>5. ASSUME NEW u \in Acquirers, NoneSuits(u) PROVE TypeOK'
  <2>1. CASE want[u].block
    BY <1>5, <2>1 DEF NoneSuits
  <2>2. CASE ~want[u].block
    <3>1. ReturnFromAcquire(u, "RT_ERR_NULL_PTR")
      BY <1>5, <2>2 DEF NoneSuits
    <3>2. UNCHANGED <<pool, running, holds, rel, bufVars>> /\ lock' = Nobody
      BY <1>5 DEF NoneSuits
    <3> QED
      BY <3>1, <3>2
  <2> QED
    BY <2>1, <2>2
<1>6. ASSUME NEW u \in Users, NEW b \in Buffers, Fill(u, b) PROVE TypeOK'
  BY <1>6 DEF Fill
<1>7. ASSUME NEW u \in Users, NEW v \in Users, NEW b \in Buffers, Hand(u, v, b)
      PROVE TypeOK'
  BY <1>7 DEF Hand
<1>8. ASSUME NEW u \in Users, NEW b \in Buffers, Release(u, b) PROVE TypeOK'
  BY <1>8 DEF Release
<1>9. ASSUME NEW u \in Users, FreePayload(u) PROVE TypeOK'
  <2>1. CASE refs[rel[u]] = 0
    BY <1>9, <2>1 DEF FreePayload
  <2>2. CASE refs[rel[u]] # 0
    BY <1>9, <2>2 DEF FreePayload
  <2> QED
    BY <2>1, <2>2
<1>10. ASSUME NEW u \in Users, DropRef(u) PROVE TypeOK'
  <2>1. rel[u] \in Buffers /\ refs[rel[u]] = 1
    BY <1>10 DEF DropRef, CountInv, ReleaseInv
  <2> QED
    BY <1>10, <2>1 DEF DropRef
<1>11. ASSUME NEW u \in Users, TellObserver(u) PROVE TypeOK'
  <2>1. rel[u] \in Buffers
    BY <1>11 DEF TellObserver, ReleaseInv
  <2>2. CASE rel[u] \in observed
    BY <1>11, <2>1, <2>2 DEF TellObserver
  <2>3. CASE rel[u] \notin observed
    BY <1>11, <2>1, <2>3 DEF TellObserver
  <2> QED
    BY <2>2, <2>3
<1>12. ASSUME NEW t \in Threads, SignalBufferReturned(t) PROVE TypeOK'
  <2>1. pc' \in [Threads -> {"idle", "lock", "scan", "waiting", "release", "drop",
                             "observer", "signal"}]
    <3>1. CASE Waiting = {}
      BY <1>12, <3>1 DEF SignalBufferReturned
    <3>2. CASE Waiting # {}
      <4>1. PICK w \in Users : pc' = [pc EXCEPT ![t] = "idle", ![w] = "lock"]
        BY <1>12, <3>2 DEF SignalBufferReturned, Waiting
      <4> QED
        BY <4>1
    <3> QED
      BY <3>1, <3>2
  <2> QED
    BY <1>12, <2>1 DEF SignalBufferReturned
<1>13. CASE UNCHANGED vars
  BY <1>13 DEF vars
<1> QED
  BY <1>1, <1>2, <1>3, <1>4, <1>5, <1>6, <1>7, <1>8, <1>9, <1>10, <1>11, <1>12, <1>13, <1>14
  DEF Next, AcquireCall, AcquireStep, HolderCall, ReleaseStep

(* The steps that change neither buffers nor who has what, but only where  *)
(* a thread is, among the places where it owns no buffer and no lock.      *)
Quietly ==
    /\ UNCHANGED <<pool, refs, observed, raw, gone, holds, filled>>
    /\ \A u \in Users :
          /\ pc'[u] = "scan" => pc[u] = "scan" /\ lock' = lock /\ todo'[u] \subseteq todo[u]
          /\ pc'[u] \in {"release", "drop", "observer"} => pc'[u] = pc[u] /\ rel'[u] = rel[u]

LEMMA QuietKeeps ==
    ASSUME Inv, Quietly
    PROVE  (CountInv /\ ScanInv /\ ReleaseInv /\ PayloadInv /\ GoneInv /\ ObserverInv)'
<1>1. CountInv'
  BY DEF Inv, CountInv, Quietly
<1>2. ScanInv'
  BY DEF Inv, ScanInv, Quietly
<1>3. ReleaseInv'
  BY DEF Inv, ReleaseInv, Quietly
<1>4. PayloadInv' /\ GoneInv'
  BY DEF Inv, PayloadInv, GoneInv, Quietly
<1>5. ObserverInv'
  BY DEF Inv, ObserverInv, Quietly
<1> QED
  BY <1>1, <1>2, <1>3, <1>4, <1>5

LEMMA InvNext == ASSUME Inv, [Next]_vars PROVE Inv'
<1> DEFINE Rest == CountInv /\ ScanInv /\ ReleaseInv /\ PayloadInv /\ GoneInv /\ ObserverInv
<1>0. TypeOK /\ TypeOK'
  BY TypeNext DEF Inv
<1> USE DEF Goto, ReturnFromAcquire, ReturnFromRelease, acqVars, bufVars, Users, Threads
<1>1. ASSUME OwnerCall PROVE Rest'
  <2>1. CASE Start
    BY <2>1, QuietKeeps DEF Start, Quietly
  <2>2. CASE Stop
    <3>1. Quietly
      BY <1>0, <2>2 DEF Stop, Quietly, TypeOK
    <3> QED
      BY <3>1, QuietKeeps
  <2>3. CASE ReleaseAllBuffers
    <3>1. \A u \in Users : pc[u] = "idle" /\ pc'[u] = "idle"
      BY <2>3 DEF ReleaseAllBuffers, Quiescent
    <3>2. CountInv'
      BY <2>3 DEF ReleaseAllBuffers, Inv, CountInv
    <3>3. ScanInv' /\ ReleaseInv' /\ ObserverInv'
      BY <3>1 DEF ScanInv, ReleaseInv, ObserverInv
    <3>4. PayloadInv'
      BY <1>0, <2>3 DEF ReleaseAllBuffers, Inv, PayloadInv, CountInv, TypeOK
    <3>5. GoneInv'
      BY <1>0, <2>3 DEF ReleaseAllBuffers, Inv, GoneInv, CountInv, TypeOK
    <3> QED
      BY <3>2, <3>3, <3>4, <3>5
  <2>4. ASSUME NEW b \in Buffers, Register(b) PROVE Rest'
    <3>1. \A u \in Users : pc[u] = "idle" /\ pc'[u] = "idle"
      BY <2>4 DEF Register, Quiescent
    <3>2. CountInv'
      BY <2>4 DEF Register, Inv, CountInv
    <3>3. ScanInv' /\ ReleaseInv' /\ ObserverInv'
      BY <3>1 DEF ScanInv, ReleaseInv, ObserverInv
    <3>4. PayloadInv'
      BY <2>4 DEF Register, Inv, PayloadInv
    <3>5. GoneInv'
      BY <1>0, <2>4 DEF Register, Fresh, Inv, GoneInv, CountInv, TypeOK
    <3> QED
      BY <3>2, <3>3, <3>4, <3>5
  <2> QED
    BY <1>1, <2>1, <2>2, <2>3, <2>4 DEF OwnerCall
<1>2. ASSUME NEW u \in Acquirers, NEW r \in Nat, NEW k \in BOOLEAN, Acquire(u, r, k)
      PROVE Rest'
  <2>1. Quietly
    BY <1>0, <1>2 DEF Acquire, Quietly, TypeOK
  <2> QED
    BY <2>1, QuietKeeps
<1>3. ASSUME NEW u \in Acquirers, Enter(u) PROVE Rest'
  <2>1. CASE running /\ pool # {}
    <3>1. UNCHANGED <<pool, refs, observed, raw, gone, holds, filled, rel>>
      BY <1>3 DEF Enter
    <3>2. \A v \in Users : v # u => pc'[v] = pc[v] /\ todo'[v] = todo[v]
      BY <1>0, <1>3, <2>1 DEF Enter, TypeOK
    <3>3. pc'[u] = "scan" /\ lock' = u /\ todo'[u] = pool /\ lock = Nobody
      BY <1>0, <1>3, <2>1 DEF Enter, TypeOK
    <3>4. \A v \in Users : pc[v] # "scan"
      BY <3>3 DEF Inv, ScanInv
    <3>5. CountInv' /\ PayloadInv' /\ GoneInv'
      BY <3>1 DEF Inv, CountInv, PayloadInv, GoneInv
    <3>6. ScanInv'
      BY <3>1, <3>2, <3>3, <3>4 DEF ScanInv
    <3>7. ReleaseInv'
      BY <3>1, <3>2, <3>3 DEF Inv, ReleaseInv
    <3>8. ObserverInv'
      BY <3>1, <3>2, <3>3 DEF Inv, ObserverInv
    <3> QED
      BY <3>5, <3>6, <3>7, <3>8
  <2>2. CASE ~(running /\ pool # {})
    <3>1. Quietly
      BY <1>0, <1>3, <2>2 DEF Enter, Quietly, TypeOK
    <3> QED
      BY <3>1, QuietKeeps
  <2> QED
    BY <2>1, <2>2
<1>4. ASSUME NEW u \in Acquirers, NEW b \in Buffers, Take(u, b) PROVE Rest'
  <2>1. refs[b] = 0 /\ b \in pool /\ b \notin raw /\ lock = u
    BY <1>0, <1>4 DEF Take, Suits, Inv, ScanInv, PayloadInv, TypeOK
  <2>2. /\ refs'[b] = 1 /\ holds'[u] = holds[u] \cup {b} /\ pc'[u] = "idle"
        /\ \A c \in Buffers : c # b => refs'[c] = refs[c]
        /\ \A v \in Users : v # u => holds'[v] = holds[v] /\ pc'[v] = pc[v]
        /\ raw' = raw
        /\ UNCHANGED <<pool, observed, gone, rel, filled>>
    BY <1>0, <1>4, <2>1 DEF Take, TypeOK
  <2>3. CountInv'
    <3>1. \A v \in Users : b \notin holds[v]
      BY <2>1 DEF Inv, CountInv
    <3>2. \A v \in Users : \A c \in Buffers :
             c \in holds'[v] <=> c \in holds[v] \/ (v = u /\ c = b)
      BY <2>2
    <3>3. \A v, w \in Users : \A c \in Buffers : c \in holds'[v] /\ c \in holds'[w] => v = w
      BY <3>1, <3>2 DEF Inv, CountInv
    <3>4. \A c \in Buffers : refs'[c] \in {0, 1}
      BY <2>2 DEF Inv, CountInv
    <3>5. \A c \in Buffers : refs'[c] = 1 <=> \E v \in Users : c \in holds'[v]
      BY <2>2, <3>2 DEF Inv, CountInv
    <3> QED
      BY <3>3, <3>4, <3>5 DEF CountInv
  <2>4. ScanInv'
    BY <2>1, <2>2 DEF Inv, ScanInv
  <2>5. ReleaseInv'
    BY <2>2 DEF Inv, ReleaseInv
  <2>6. PayloadInv' /\ GoneInv'
    BY <1>0, <2>1, <2>2 DEF Inv, PayloadInv, GoneInv, TypeOK
  <2>7. ObserverInv'
    BY <1>0, <2>1, <2>2 DEF Inv, ObserverInv, ReleaseInv, TypeOK
  <2> QED
    BY <2>3, <2>4, <2>5, <2>6, <2>7
<1>5. ASSUME NEW u \in Acquirers, NEW b \in Buffers, Skip(u, b) PROVE Rest'
  <2>1. Quietly
    BY <1>0, <1>5 DEF Skip, Quietly, TypeOK
  <2> QED
    BY <2>1, QuietKeeps
<1>6. ASSUME NEW u \in Acquirers, NoneSuits(u) PROVE Rest'
  <2>0. \A v \in Users : v # u => pc[v] # "scan"
    BY <1>6 DEF NoneSuits, Inv, ScanInv
  <2>1. CASE want[u].block
    <3>1. Quietly
      BY <1>0, <1>6, <2>0, <2>1 DEF NoneSuits, Quietly, TypeOK
    <3> QED
      BY <3>1, QuietKeeps
  <2>2. CASE ~want[u].block
    <3>1. Quietly
      BY <1>0, <1>6, <2>0, <2>2 DEF NoneSuits, Quietly, TypeOK
    <3> QED
      BY <3>1, QuietKeeps
  <2> QED
    BY <2>1, <2>2
<1>7. ASSUME NEW u \in Users, NEW b \in Buffers, Fill(u, b) PROVE Rest'
  <2>1. refs[b] = 1
    BY <1>7 DEF Fill, Inv, CountInv
  <2>2. \A v \in Users : pc[v] \in {"release", "drop"} => rel[v] # b
    BY <1>0, <1>7 DEF Fill, Inv, CountInv, ReleaseInv
  <2>3. CountInv' /\ ScanInv' /\ GoneInv' /\ ObserverInv'
    BY <1>7 DEF Fill, Inv, CountInv, ScanInv, GoneInv, ObserverInv
  <2>4. ReleaseInv'
    BY <1>7, <2>2 DEF Fill, Inv, ReleaseInv
  <2>5. PayloadInv'
    BY <1>7, <2>1 DEF Fill, Inv, PayloadInv
  <2> QED
    BY <2>3, <2>4, <2>5
<1>8. ASSUME NEW u \in Users, NEW v \in Users, NEW b \in Buffers, Hand(u, v, b)
      PROVE Rest'
  <2>1. /\ holds'[u] = holds[u] \ {b} /\ holds'[v] = holds[v] \cup {b}
        /\ \A w \in Users : w # u /\ w # v => holds'[w] = holds[w]
        /\ UNCHANGED <<pool, lock, pc, rel, refs, observed, raw, gone, filled, todo>>
        /\ b \in holds[u] /\ u # v /\ pc[u] = "idle"
    BY <1>0, <1>8 DEF Hand, TypeOK
  <2>2. CountInv'
    <3>1. \A w \in Users : \A c \in Buffers :
             c \in holds'[w] <=> (c \in holds[w] /\ ~(w = u /\ c = b)) \/ (w = v /\ c = b)
      BY <2>1
    <3>2. \A w, x \in Users : \A c \in Buffers : c \in holds'[w] /\ c \in holds'[x] => w = x
      BY <2>1, <3>1 DEF Inv, CountInv
    <3>3. \A c \in Buffers : refs'[c] \in {0, 1}
      BY <2>1 DEF Inv, CountInv
    <3>4. \A c \in Buffers : refs'[c] = 1 <=> \E w \in Users : c \in holds'[w]
      BY <2>1, <3>1 DEF Inv, CountInv
    <3> QED
      BY <3>2, <3>3, <3>4 DEF CountInv
  <2>3. ScanInv' /\ PayloadInv' /\ GoneInv' /\ ObserverInv'
    BY <2>1 DEF Inv, ScanInv, PayloadInv, GoneInv, ObserverInv
  <2>4. ReleaseInv'
    BY <2>1 DEF Inv, ReleaseInv
  <2> QED
    BY <2>2, <2>3, <2>4
<1>9. ASSUME NEW u \in Users, NEW b \in Buffers, Release(u, b) PROVE Rest'
  <2>1. /\ pc'[u] = "release" /\ rel'[u] = b /\ filled' = filled \ {b}
        /\ \A v \in Users : v # u => pc'[v] = pc[v] /\ rel'[v] = rel[v]
        /\ UNCHANGED <<pool, lock, refs, observed, raw, gone, holds, todo>>
        /\ b \in holds[u]
    BY <1>0, <1>9 DEF Release, TypeOK
  <2>2. CountInv' /\ ScanInv' /\ PayloadInv' /\ GoneInv'
    BY <2>1 DEF Inv, CountInv, ScanInv, PayloadInv, GoneInv
  <2>3. ReleaseInv'
    BY <2>1 DEF Inv, ReleaseInv
  <2>4. ObserverInv'
    BY <2>1 DEF Inv, ObserverInv
  <2> QED
    BY <2>2, <2>3, <2>4
<1>10. ASSUME NEW u \in Users, FreePayload(u) PROVE Rest'
  <2>1. rel[u] \in Buffers /\ rel[u] \in holds[u] /\ refs[rel[u]] = 1 /\ rel[u] \notin filled
    BY <1>0, <1>10 DEF FreePayload, Inv, CountInv, ReleaseInv, TypeOK
  <2>2. /\ pc'[u] = "drop" /\ raw' = raw \ {rel[u]}
        /\ \A v \in Users : v # u => pc'[v] = pc[v]
        /\ UNCHANGED <<pool, lock, refs, observed, gone, holds, filled, todo, rel>>
    BY <1>0, <1>10, <2>1 DEF FreePayload, TypeOK
  <2>3. CountInv' /\ ScanInv' /\ GoneInv' /\ ObserverInv'
    BY <2>2 DEF Inv, CountInv, ScanInv, GoneInv, ObserverInv
  <2>4. ReleaseInv'
    BY <1>10, <2>1, <2>2 DEF FreePayload, Inv, ReleaseInv
  <2>5. PayloadInv'
    BY <2>1, <2>2 DEF Inv, PayloadInv
  <2> QED
    BY <2>3, <2>4, <2>5
<1>11. ASSUME NEW u \in Users, DropRef(u) PROVE Rest'
  <2> DEFINE b == rel[u]
  <2>1. b \in Buffers /\ b \in holds[u] /\ refs[b] = 1 /\ b \notin filled /\ b \notin raw
    BY <1>0, <1>11 DEF DropRef, Inv, CountInv, ReleaseInv, TypeOK
  <2>2. /\ pc'[u] = "observer" /\ refs'[b] = 0 /\ holds'[u] = holds[u] \ {b}
        /\ \A c \in Buffers : c # b => refs'[c] = refs[c]
        /\ \A v \in Users : v # u => pc'[v] = pc[v] /\ holds'[v] = holds[v]
        /\ UNCHANGED <<pool, lock, observed, raw, gone, filled, todo, rel>>
    BY <1>0, <1>11, <2>1 DEF DropRef, TypeOK
  <2>3. CountInv'
    <3>1. \A w \in Users : \A c \in Buffers :
             c \in holds'[w] <=> c \in holds[w] /\ ~(w = u /\ c = b)
      BY <2>2
    <3>2. \A w, x \in Users : \A c \in Buffers : c \in holds'[w] /\ c \in holds'[x] => w = x
      BY <3>1 DEF Inv, CountInv
    <3>3. \A c \in Buffers : refs'[c] \in {0, 1}
      BY <2>2 DEF Inv, CountInv
    <3>4. \A c \in Buffers : refs'[c] = 1 <=> \E w \in Users : c \in holds'[w]
      BY <2>1, <2>2, <3>1 DEF Inv, CountInv
    <3> QED
      BY <3>2, <3>3, <3>4 DEF CountInv
  <2>4. ScanInv'
    BY <2>2 DEF Inv, ScanInv
  <2>5. PayloadInv' /\ GoneInv'
    BY <1>0, <2>1, <2>2 DEF Inv, PayloadInv, GoneInv, TypeOK
  <2>6. ReleaseInv'
    BY <1>0, <2>1, <2>2 DEF Inv, ReleaseInv, CountInv, TypeOK
  <2>7. ObserverInv'
    BY <1>0, <2>1, <2>2 DEF Inv, ObserverInv, ReleaseInv, GoneInv, TypeOK
  <2> QED
    BY <2>3, <2>4, <2>5, <2>6, <2>7
<1>12. ASSUME NEW u \in Users, TellObserver(u) PROVE Rest'
  <2>1. CASE rel[u] \in observed
    <3>1. Quietly
      BY <1>0, <1>12, <2>1 DEF TellObserver, Quietly, TypeOK
    <3> QED
      BY <3>1, QuietKeeps
  <2>2. CASE rel[u] \notin observed
    <3> DEFINE b == rel[u]
    <3>1. b \in Buffers /\ b \notin pool /\ refs[b] = 0
      BY <1>12, <2>2 DEF TellObserver, Inv, ReleaseInv, GoneInv, ObserverInv
    <3>2. /\ pc'[u] = "idle" /\ gone' = gone \cup {b}
          /\ \A v \in Users : v # u => pc'[v] = pc[v] /\ rel'[v] = rel[v]
          /\ UNCHANGED <<pool, lock, refs, observed, raw, holds, filled, todo>>
      BY <1>0, <1>12, <2>2 DEF TellObserver, TypeOK
    <3>3. CountInv' /\ PayloadInv'
      BY <3>2 DEF Inv, CountInv, PayloadInv
    <3>4. ScanInv'
      BY <3>2 DEF Inv, ScanInv
    <3>5. ReleaseInv'
      BY <3>2 DEF Inv, ReleaseInv
    <3>6. GoneInv'
      BY <3>1, <3>2 DEF Inv, GoneInv
    <3>7. ObserverInv'
      BY <1>12, <3>1, <3>2 DEF TellObserver, Inv, ObserverInv
    <3> QED
      BY <3>3, <3>4, <3>5, <3>6, <3>7
  <2> QED
    BY <2>1, <2>2
<1>13. ASSUME NEW t \in Threads, SignalBufferReturned(t) PROVE Rest'
  <2>1. \A u \in Users : \/ pc'[u] = pc[u] /\ rel'[u] = rel[u]
                         \/ pc'[u] \in {"idle", "lock"}
    <3>1. CASE Waiting = {}
      BY <1>0, <1>13, <3>1 DEF SignalBufferReturned, TypeOK
    <3>2. CASE Waiting # {}
      <4>1. PICK w \in Users : pc' = [pc EXCEPT ![t] = "idle", ![w] = "lock"]
        BY <1>13, <3>2 DEF SignalBufferReturned, Waiting
      <4> QED
        BY <1>0, <1>13, <4>1 DEF SignalBufferReturned, TypeOK
    <3> QED
      BY <3>1, <3>2
  <2>2. Quietly
    BY <1>13, <2>1 DEF SignalBufferReturned, Quietly
  <2> QED
    BY <2>2, QuietKeeps
<1>14. ASSUME UNCHANGED vars PROVE Rest'
  BY <1>14, QuietKeeps DEF vars, Quietly
<1>15. Rest'
  <2> HIDE DEF Rest
  <2> QED
    BY <1>1, <1>2, <1>3, <1>4, <1>5, <1>6, <1>7, <1>8, <1>9, <1>10, <1>11, <1>12, <1>13,
       <1>14
    DEF Next, AcquireCall, AcquireStep, HolderCall, ReleaseStep
<1> QED
  BY <1>0, <1>15 DEF Inv

LEMMA InvInit == Init => Inv
BY DEF Init, Inv, TypeOK, CountInv, ScanInv, ReleaseInv, PayloadInv, GoneInv, ObserverInv,
       Users, Threads, Rets, NoRequest

LEMMA InvAlways == Spec => []Inv
<1>1. Inv /\ [Next]_vars => Inv'
  BY InvNext
<1> QED
  BY InvInit, <1>1, PTL DEF Spec

(* Every variable keeps its type.                                          *)
THEOREM TypeCorrect == Spec => []TypeOK
<1>1. Inv => TypeOK
  BY DEF Inv
<1> QED
  BY InvAlways, <1>1, PTL

(* A buffer is lent to one user at a time, and its count says so, however  *)
(* many threads acquire, pass on and release.                              *)
THEOREM BufferLentOnce == Spec => []LentOnce
<1>1. Inv => LentOnce
  BY DEF Inv, CountInv, TypeOK, LentOnce
<1> QED
  BY InvAlways, <1>1, PTL

(* The release of a buffer never frees the payload of its next holder.     *)
THEOREM PayloadOutlivesUse == Spec => []PayloadLives
<1>1. Inv => PayloadLives
  BY DEF Inv, PayloadInv, PayloadLives
<1> QED
  BY InvAlways, <1>1, PTL

(* A payload is freed before its buffer can be lent again.                 *)
THEOREM PayloadNotLost == Spec => []PayloadFreed
<1>1. Inv => PayloadFreed
  BY DEF Inv, PayloadInv, PayloadFreed
<1> QED
  BY InvAlways, <1>1, PTL

(* A deleted buffer is in no pool, held by nobody and released by nobody.  *)
THEOREM BufferNotUsedAfterFree == Spec => []NotUsedAfterFree
<1>1. Inv => NotUsedAfterFree
  BY DEF Inv, TypeOK, CountInv, ReleaseInv, GoneInv, ObserverInv, NotUsedAfterFree
<1> QED
  BY InvAlways, <1>1, PTL

(* Together: lent once, its payload alive while it is used and freed with  *)
(* it, and never used after it was deleted, for any users and buffers.     *)
THEOREM BuffersAreKept == Spec => []BuffersKept
  BY BufferLentOnce, PayloadOutlivesUse, PayloadNotLost, BufferNotUsedAfterFree, PTL
     DEF BuffersKept

-----------------------------------------------------------------------------
(* Without a lost wake-up.  Only an acquirer waits.                        *)

AcquirerInv ==
    \A u \in Users : pc[u] \in {"lock", "scan", "waiting"} => u \in Acquirers

(* A thread is about to signal a buffer of the pool.                       *)
Signalling(t) ==
    \/ pc[t] = "signal"
    \/ t \in Users /\ pc[t] = "observer" /\ rel[t] \in pool

(* A free buffer that suits, and that the scanning or waiting thread has   *)
(* passed over, was returned after it looked: its signal is still to come, *)
(* because it takes the lock that the scan holds until the wait.           *)
WakeInv ==
    \A u \in Users :
        /\ pc[u] = "waiting" => todo[u] = {}
        /\ pc[u] \in {"scan", "waiting"} =>
              \A b \in pool \ todo[u] : Suits(u, b) => \E t \in Threads : Signalling(t)

LEMMA AcquirerNext == ASSUME Inv, AcquirerInv, [Next]_vars PROVE AcquirerInv'
<1> USE DEF AcquirerInv, Goto, ReturnFromAcquire, ReturnFromRelease, Users, Threads
<1>0. pc \in [Threads -> {"idle", "lock", "scan", "waiting", "release", "drop",
                          "observer", "signal"}]
  BY DEF Inv, TypeOK
<1>1. CASE OwnerCall
  BY <1>0, <1>1 DEF OwnerCall, Register, Start, Stop, ReleaseAllBuffers
<1>2. ASSUME NEW u \in Acquirers, AcquireCall(u) \/ AcquireStep(u) PROVE AcquirerInv'
  BY <1>0, <1>2 DEF AcquireCall, AcquireStep, Acquire, Enter, Take, Skip, NoneSuits
<1>3. ASSUME NEW u \in Users, HolderCall(u) \/ ReleaseStep(u) PROVE AcquirerInv'
  BY <1>0, <1>3 DEF HolderCall, ReleaseStep, Fill, Hand, Release, FreePayload, DropRef,
                    TellObserver
<1>4. ASSUME NEW t \in Threads, SignalBufferReturned(t) PROVE AcquirerInv'
  BY <1>0, <1>4 DEF SignalBufferReturned, Waiting
<1>5. CASE UNCHANGED vars
  BY <1>5 DEF vars
<1> QED
  BY <1>1, <1>2, <1>3, <1>4, <1>5 DEF Next

(* Steps after which whoever scans or waits does so as before, and after   *)
(* which whoever was about to signal still is.                             *)
KeepsWaiting ==
    /\ UNCHANGED <<pool, refs>>
    /\ \A u \in Users : pc'[u] \in {"scan", "waiting"} =>
          pc'[u] = pc[u] /\ todo'[u] = todo[u] /\ want'[u] = want[u]
    /\ \A t \in Threads : Signalling(t) => Signalling(t)'

LEMMA KeepsWake == ASSUME WakeInv, KeepsWaiting PROVE WakeInv'
BY DEF WakeInv, KeepsWaiting, Suits

LEMMA WakeNext ==
    ASSUME OneAcquirer, Inv, AcquirerInv, AcquirerInv', WakeInv, [Next]_vars
    PROVE  WakeInv'
<1> USE DEF Goto, ReturnFromAcquire, ReturnFromRelease, acqVars, bufVars, Users, Threads
<1>0. TypeOK
  BY DEF Inv
<1>1. ASSUME NEW u \in Users, pc'[u] \in {"scan", "waiting"}, NEW v \in Users,
             pc'[v] \in {"scan", "waiting"}
      PROVE  u = v
  BY <1>1 DEF OneAcquirer, AcquirerInv
<1>2. CASE OwnerCall
  <2>1. CASE Start \/ Stop
    <3>1. KeepsWaiting
      BY <1>0, <2>1 DEF Start, Stop, KeepsWaiting, Signalling, TypeOK
    <3> QED
      BY <3>1, KeepsWake
  <2>2. CASE ReleaseAllBuffers \/ \E b \in Buffers : Register(b)
    <3>1. \A u \in Users : pc'[u] = "idle"
      BY <2>2 DEF ReleaseAllBuffers, Register, Quiescent
    <3> QED
      BY <3>1 DEF WakeInv
  <2> QED
    BY <1>2, <2>1, <2>2 DEF OwnerCall
<1>3. ASSUME NEW u \in Acquirers, NEW r \in Nat, NEW k \in BOOLEAN, Acquire(u, r, k)
      PROVE WakeInv'
  <2>1. KeepsWaiting
    BY <1>0, <1>3 DEF Acquire, KeepsWaiting, Signalling, TypeOK
  <2> QED
    BY <2>1, KeepsWake
<1>4. ASSUME NEW u \in Acquirers, Enter(u) PROVE WakeInv'
  <2>1. CASE running /\ pool # {}
    <3>1. pc'[u] = "scan" /\ todo'[u] = pool /\ pool' = pool
      BY <1>0, <1>4, <2>1 DEF Enter, TypeOK
    <3>2. \A v \in Users : pc'[v] \in {"scan", "waiting"} => v = u
      BY <1>1, <3>1
    <3> QED
      BY <3>1, <3>2 DEF WakeInv
  <2>2. CASE ~(running /\ pool # {})
    <3>1. KeepsWaiting
      BY <1>0, <1>4, <2>2 DEF Enter, KeepsWaiting, Signalling, TypeOK
    <3> QED
      BY <3>1, KeepsWake
  <2> QED
    BY <2>1, <2>2
<1>5. ASSUME NEW u \in Acquirers, NEW b \in Buffers, Take(u, b) PROVE WakeInv'
  <2>1. \A v \in Users : v # u => pc[v] \notin {"scan", "waiting"}
    BY <1>5 DEF Take, OneAcquirer, AcquirerInv
  <2>2. \A v \in Users : pc'[v] \notin {"scan", "waiting"}
    BY <1>0, <1>5, <2>1 DEF Take, TypeOK
  <2> QED
    BY <2>2 DEF WakeInv
<1>6. ASSUME NEW u \in Acquirers, NEW b \in Buffers, Skip(u, b) PROVE WakeInv'
  <2>1. /\ pc'[u] = "scan" /\ todo'[u] = todo[u] \ {b} /\ ~Suits(u, b) /\ pc[u] = "scan"
        /\ UNCHANGED <<pool, refs, want, pc, rel>>
    BY <1>0, <1>6 DEF Skip, TypeOK
  <2>2. \A v \in Users : pc'[v] \in {"scan", "waiting"} => v = u
    BY <1>1, <2>1
  <2>3. \A c \in pool \ todo'[u] : Suits(u, c) => \E t \in Threads : Signalling(t)
    BY <2>1 DEF WakeInv
  <2> QED
    BY <2>1, <2>2, <2>3 DEF WakeInv, Suits, Signalling
<1>7. ASSUME NEW u \in Acquirers, NoneSuits(u) PROVE WakeInv'
  <2>1. CASE want[u].block
    <3>1. /\ pc'[u] = "waiting" /\ todo' = todo /\ todo[u] = {} /\ pc[u] = "scan"
          /\ UNCHANGED <<pool, refs, want, rel>>
          /\ \A t \in Threads : t # u => pc'[t] = pc[t]
      BY <1>0, <1>7, <2>1 DEF NoneSuits, TypeOK
    <3>2. \A v \in Users : pc'[v] \in {"scan", "waiting"} => v = u
      BY <1>1, <3>1
    <3>3. \A t \in Threads : Signalling(t) => Signalling(t)'
      BY <3>1 DEF Signalling
    <3> QED
      BY <3>1, <3>2, <3>3 DEF WakeInv, Suits
  <2>2. CASE ~want[u].block
    <3>1. KeepsWaiting
      BY <1>0, <1>7, <2>2 DEF NoneSuits, KeepsWaiting, Signalling, TypeOK
    <3> QED
      BY <3>1, KeepsWake
  <2> QED
    BY <2>1, <2>2
<1>8. ASSUME NEW u \in Users, NEW b \in Buffers, Fill(u, b) PROVE WakeInv'
  <2>1. KeepsWaiting
    BY <1>8 DEF Fill, KeepsWaiting, Signalling
  <2> QED
    BY <2>1, KeepsWake
<1>9. ASSUME NEW u \in Users, NEW v \in Users, NEW b \in Buffers, Hand(u, v, b)
      PROVE WakeInv'
  <2>1. KeepsWaiting
    BY <1>9 DEF Hand, KeepsWaiting, Signalling
  <2> QED
    BY <2>1, KeepsWake
<1>10. ASSUME NEW u \in Users, NEW b \in Buffers, Release(u, b) PROVE WakeInv'
  <2>1. KeepsWaiting
    BY <1>0, <1>10 DEF Release, KeepsWaiting, Signalling, TypeOK
  <2> QED
    BY <2>1, KeepsWake
<1>11. ASSUME NEW u \in Users, FreePayload(u) PROVE WakeInv'
  <2>1. KeepsWaiting
    BY <1>0, <1>11 DEF FreePayload, KeepsWaiting, Signalling, TypeOK
  <2> QED
    BY <2>1, KeepsWake
<1>12. ASSUME NEW u \in Users, DropRef(u) PROVE WakeInv'
  <2> DEFINE b == rel[u]
  <2>1. b \in Buffers /\ refs[b] = 1 /\ pc[u] = "drop"
    BY <1>0, <1>12 DEF DropRef, Inv, CountInv, ReleaseInv, TypeOK
  <2>2. /\ pc'[u] = "observer" /\ rel' = rel
        /\ \A c \in Buffers : c # b => refs'[c] = refs[c]
        /\ \A t \in Threads : t # u => pc'[t] = pc[t]
        /\ UNCHANGED <<pool, want, todo>>
    BY <1>0, <1>12, <2>1 DEF DropRef, TypeOK
  <2>3. \A t \in Threads : Signalling(t) => Signalling(t)'
    BY <2>1, <2>2 DEF Signalling
  <2>4. b \in pool => Signalling(u)'
    BY <2>2 DEF Signalling
  <2> QED
    BY <1>0, <2>1, <2>2, <2>3, <2>4 DEF WakeInv, Suits, TypeOK
<1>13. ASSUME NEW u \in Users, TellObserver(u) PROVE WakeInv'
  <2>1. CASE rel[u] \in observed
    <3>1. KeepsWaiting
      BY <1>0, <1>13, <2>1 DEF TellObserver, KeepsWaiting, Signalling, TypeOK
    <3> QED
      BY <3>1, KeepsWake
  <2>2. CASE rel[u] \notin observed
    <3>1. rel[u] \notin pool
      BY <2>2 DEF Inv, GoneInv
    <3>2. KeepsWaiting
      BY <1>0, <1>13, <2>2, <3>1 DEF TellObserver, KeepsWaiting, Signalling, TypeOK
    <3> QED
      BY <3>2, KeepsWake
  <2> QED
    BY <2>1, <2>2
<1>14. ASSUME NEW t \in Threads, SignalBufferReturned(t) PROVE WakeInv'
  <2>1. \A v \in Users : pc[v] # "scan"
    BY <1>14 DEF SignalBufferReturned, Inv, ScanInv
  <2>2. \A v \in Users : pc'[v] \notin {"scan", "waiting"}
    <3>1. CASE Waiting = {}
      BY <1>0, <1>14, <2>1, <3>1 DEF SignalBufferReturned, Waiting, TypeOK
    <3>2. CASE Waiting # {}
      <4>1. PICK w \in Users : pc[w] = "waiting"
                               /\ pc' = [pc EXCEPT ![t] = "idle", ![w] = "lock"]
        BY <1>14, <3>2 DEF SignalBufferReturned, Waiting
      <4>2. \A v \in Users : pc[v] = "waiting" => v = w
        BY <4>1 DEF OneAcquirer, AcquirerInv
      <4> QED
        BY <1>0, <2>1, <4>1, <4>2 DEF TypeOK
    <3> QED
      BY <3>1, <3>2
  <2> QED
    BY <2>2 DEF WakeInv
<1>15. CASE UNCHANGED vars
  BY <1>15, KeepsWake DEF vars, KeepsWaiting, Signalling
<1> QED
  BY <1>2, <1>3, <1>4, <1>5, <1>6, <1>7, <1>8, <1>9, <1>10, <1>11, <1>12, <1>13, <1>14,
     <1>15, PoolAssumption
  DEF Next, AcquireCall, AcquireStep, HolderCall, ReleaseStep

(* With one acquiring thread, as on each of the decoder's pools, a thread  *)
(* does not wait while a buffer that suits it is free, unless the signal   *)
(* of the buffer's return is on its way.                                   *)
THEOREM WakeupNotLost == ASSUME OneAcquirer PROVE Spec => []NoLostWakeup
<1>1. Init => AcquirerInv /\ WakeInv
  BY DEF Init, AcquirerInv, WakeInv, Threads, Users
<1>2. Inv /\ AcquirerInv /\ WakeInv /\ [Next]_vars => AcquirerInv' /\ WakeInv'
  BY OneAcquirer, AcquirerNext, WakeNext
<1>3. WakeInv => NoLostWakeup
  BY DEF WakeInv, NoLostWakeup, Signalling, Waiting
<1> QED
  BY InvAlways, <1>1, <1>2, <1>3, PTL DEF Spec
-----------------------------------------------------------------------------
(* Nothing leaks, and the pool is a lender: both say where a buffer may go *)
(* when a step takes it from where it was.                                 *)

AtObserver(b) == \E u \in Users : pc[u] = "observer" /\ rel[u] = b
Held(b)       == \E u \in Users : b \in holds[u]

(* Steps that leave every buffer where it was.                             *)
KeepsPlaces ==
    /\ UNCHANGED <<pool, holds>>
    /\ \A b \in Buffers :
          b \notin pool => (b \in gone \/ AtObserver(b) <=> b \in gone' \/ AtObserver(b)')

LEMMA PlacesNext ==
    ASSUME Inv, [Next]_vars
    PROVE  \/ KeepsPlaces
           \/ \E b \in Buffers : Register(b)
           \/ ReleaseAllBuffers
           \/ \E u \in Acquirers, b \in Buffers : Take(u, b)
           \/ \E u \in Users, v \in Users, b \in Buffers : Hand(u, v, b)
           \/ \E u \in Users : DropRef(u)
<1> DEFINE Goal ==
           \/ KeepsPlaces
           \/ \E b \in Buffers : Register(b)
           \/ ReleaseAllBuffers
           \/ \E u \in Acquirers, b \in Buffers : Take(u, b)
           \/ \E u \in Users, v \in Users, b \in Buffers : Hand(u, v, b)
           \/ \E u \in Users : DropRef(u)
<1> USE DEF KeepsPlaces, AtObserver, Goto, ReturnFromAcquire, ReturnFromRelease, acqVars,
            bufVars, Users, Threads
<1>0. TypeOK
  BY DEF Inv
<1>1. ASSUME OwnerCall PROVE Goal
  BY <1>0, <1>1 DEF OwnerCall, Start, Stop, TypeOK
<1>2. ASSUME NEW u \in Acquirers, AcquireCall(u) \/ Enter(u) \/ NoneSuits(u) PROVE Goal
  <2>1. pc[u] # "observer" /\ pc'[u] # "observer" /\ UNCHANGED <<pool, holds, gone, rel>>
        /\ \A v \in Users : v # u => pc'[v] = pc[v]
    BY <1>0, <1>2 DEF AcquireCall, Acquire, Enter, NoneSuits, TypeOK
  <2> QED
    BY <2>1
<1>3. ASSUME NEW u \in Acquirers, NEW b \in Buffers, Skip(u, b) PROVE Goal
  BY <1>3 DEF Skip
<1>4. ASSUME NEW u \in Users, NEW b \in Buffers, Fill(u, b) \/ Release(u, b) PROVE Goal
  BY <1>0, <1>4 DEF Fill, Release, TypeOK
<1>5. ASSUME NEW u \in Users, FreePayload(u) PROVE Goal
  BY <1>0, <1>5 DEF FreePayload, TypeOK
<1>6. ASSUME NEW u \in Users, TellObserver(u) PROVE Goal
  <2>1. /\ UNCHANGED <<pool, holds>> /\ pc[u] = "observer" /\ pc'[u] # "observer"
        /\ \A v \in Users : v # u => pc'[v] = pc[v] /\ rel'[v] = rel[v]
        /\ rel[u] \notin pool => gone' = gone \cup {rel[u]}
        /\ rel[u] \in pool => gone' = gone
    BY <1>0, <1>6 DEF TellObserver, Inv, GoneInv, TypeOK
  <2> QED
    BY <2>1
<1>7. ASSUME NEW t \in Threads, SignalBufferReturned(t) PROVE Goal
  <2>1. /\ UNCHANGED <<pool, holds, gone>>
        /\ \A v \in Users : \/ v # t /\ pc'[v] = pc[v] /\ rel'[v] = rel[v]
                            \/ pc[v] # "observer" /\ pc'[v] # "observer"
    <3>1. CASE Waiting = {}
      BY <1>0, <1>7, <3>1 DEF SignalBufferReturned, TypeOK
    <3>2. CASE Waiting # {}
      <4>1. PICK w \in Users : pc[w] = "waiting"
                               /\ pc' = [pc EXCEPT ![t] = "idle", ![w] = "lock"]
        BY <1>7, <3>2 DEF SignalBufferReturned, Waiting
      <4> QED
        BY <1>0, <1>7, <4>1 DEF SignalBufferReturned, TypeOK
    <3> QED
      BY <3>1, <3>2
  <2> QED
    BY <2>1
<1>8. ASSUME UNCHANGED vars PROVE Goal
  BY <1>8 DEF vars
<1> HIDE DEF KeepsPlaces
<1> QED
  BY <1>1, <1>2, <1>3, <1>4, <1>5, <1>6, <1>7, <1>8
  DEF Next, AcquireStep, HolderCall, ReleaseStep

(* Once a buffer has been in the pool, it is never forgotten undeleted.    *)
THEOREM NothingLeaks == Spec => NoLeak
<1>1. ASSUME Inv, [Next]_vars, NEW b \in Buffers, Abandoned(b)' PROVE Abandoned(b)
  <2> USE DEF Abandoned, Users
  <2>0. TypeOK
    BY <1>1 DEF Inv
  <2>1. CASE KeepsPlaces
    BY <1>1, <2>1 DEF KeepsPlaces, AtObserver
  <2>2. ASSUME NEW c \in Buffers, Register(c) PROVE Abandoned(b)
    BY <1>1, <2>2 DEF Register
  <2>3. CASE ReleaseAllBuffers
    BY <1>1, <2>3 DEF ReleaseAllBuffers, Quiescent, Inv, CountInv, Threads
  <2>4. ASSUME NEW u \in Acquirers, NEW c \in Buffers, Take(u, c) PROVE Abandoned(b)
    BY <1>1, <2>0, <2>4 DEF Take, TypeOK, ReturnFromAcquire, Goto, Threads
  <2>5. ASSUME NEW u \in Users, NEW v \in Users, NEW c \in Buffers, Hand(u, v, c)
        PROVE  Abandoned(b)
    <3>1. \A w \in Users : b \in holds[w] => b \in holds'[w] \/ b \in holds'[v]
      BY <2>0, <2>5 DEF Hand, TypeOK
    <3> QED
      BY <1>1, <2>5, <3>1 DEF Hand, bufVars
  <2>6. ASSUME NEW u \in Users, DropRef(u) PROVE Abandoned(b)
    <3>1. rel[u] \in Buffers /\ refs[rel[u]] = 1
      BY <1>1, <2>0, <2>6 DEF DropRef, Inv, CountInv, ReleaseInv, TypeOK
    <3>2. /\ pc'[u] = "observer" /\ pc[u] = "drop" /\ holds'[u] = holds[u] \ {rel[u]}
          /\ \A v \in Users : v # u => pc'[v] = pc[v] /\ holds'[v] = holds[v]
          /\ UNCHANGED <<pool, gone, rel>>
      BY <2>0, <2>6, <3>1 DEF DropRef, TypeOK, Goto, Threads
    <3> QED
      BY <1>1, <3>1, <3>2
  <2> QED
    BY <1>1, <2>1, <2>2, <2>3, <2>4, <2>5, <2>6, PlacesNext
<1>2. Inv /\ [Next]_vars => [\A b \in Buffers : Abandoned(b)' => Abandoned(b)]_vars
  BY <1>1
<1> QED
  BY InvAlways, <1>2, PTL DEF Spec, NoLeak

LEMMA OwnerIs ==
    ASSUME CountInv, NEW b \in Buffers
    PROVE  /\ \A u \in Users : b \in holds[u] => OwnerOf(b) = u
           /\ ~Held(b) /\ b \in pool => OwnerOf(b) = Free
           /\ ~Held(b) /\ b \notin pool /\ (b \in gone \/ AtObserver(b)) => OwnerOf(b) = Gone
           /\ ~Held(b) /\ b \notin pool /\ b \notin gone /\ ~AtObserver(b)
                 => OwnerOf(b) = Unborn
<1>1. ASSUME NEW u \in Users, b \in holds[u] PROVE OwnerOf(b) = u
  <2>1. \A v \in Users : b \in holds[v] => v = u
    BY <1>1 DEF CountInv
  <2> QED
    BY <1>1, <2>1 DEF OwnerOf
<1> QED
  BY <1>1 DEF OwnerOf, Held, AtObserver

LEMMA OwnerIsNext ==
    ASSUME CountInv', NEW b \in Buffers
    PROVE  /\ \A u \in Users : b \in holds'[u] => OwnerOf(b)' = u
           /\ ~Held(b)' /\ b \in pool' => OwnerOf(b)' = Free
           /\ ~Held(b)' /\ b \notin pool' /\ (b \in gone' \/ AtObserver(b)')
                 => OwnerOf(b)' = Gone
           /\ ~Held(b)' /\ b \notin pool' /\ b \notin gone' /\ ~AtObserver(b)'
                 => OwnerOf(b)' = Unborn
<1>1. ASSUME NEW u \in Users, b \in holds'[u] PROVE OwnerOf(b)' = u
  <2>1. \A v \in Users : b \in holds'[v] => v = u
    BY <1>1 DEF CountInv
  <2> QED
    BY <1>1, <2>1 DEF OwnerOf
<1> QED
  BY <1>1 DEF OwnerOf, Held, AtObserver

(* A buffer whose whereabouts do not change keeps its owner.               *)
LEMMA SameOwner ==
    ASSUME CountInv, CountInv', NEW b \in Buffers,
           \A u \in Users : b \in holds[u] <=> b \in holds'[u],
           b \in pool <=> b \in pool',
           b \notin pool => (b \in gone \/ AtObserver(b) <=> b \in gone' \/ AtObserver(b)')
    PROVE  OwnerOf(b)' = OwnerOf(b)
<1>1. CASE Held(b)
  <2>1. PICK u \in Users : b \in holds[u]
    BY <1>1 DEF Held
  <2> QED
    BY <2>1, OwnerIs, OwnerIsNext
<1>2. CASE ~Held(b)
  <2>1. ~Held(b)'
    BY <1>2 DEF Held
  <2> QED
    BY <1>2, <2>1, OwnerIs, OwnerIsNext
<1> QED
  BY <1>1, <1>2

LEMMA LendingStep ==
    ASSUME Inv, Inv', [Next]_vars
    PROVE  [Lent!LNext]_[b \in Buffers |-> OwnerOf(b)]
<1> DEFINE o == [b \in Buffers |-> OwnerOf(b)]
<1> DEFINE o2 == [b \in Buffers |-> OwnerOf(b)']
<1>0. TypeOK /\ CountInv /\ CountInv'
  BY DEF Inv
<1> USE DEF Users, Threads
<1>1. CASE KeepsPlaces
  <2>1. \A b \in Buffers : OwnerOf(b)' = OwnerOf(b)
    BY <1>0, <1>1, SameOwner DEF KeepsPlaces
  <2> QED
    BY <2>1
<1>2. ASSUME NEW b \in Buffers, Register(b) PROVE Lent!LNext
  <2>1. /\ b \notin pool /\ b \notin gone /\ ~Held(b) /\ ~Held(b)' /\ b \in pool'
        /\ ~AtObserver(b)
    BY <1>2 DEF Register, Fresh, Held, Quiescent, AtObserver
  <2>2. OwnerOf(b) = Unborn /\ OwnerOf(b)' = Free
    BY <1>0, <2>1, OwnerIs, OwnerIsNext
  <2>3. ASSUME NEW c \in Buffers, c # b PROVE OwnerOf(c)' = OwnerOf(c)
    BY <1>0, <1>2, <2>3, SameOwner DEF Register, AtObserver
  <2>4. o[b] = Unborn /\ o2 = [o EXCEPT ![b] = Free]
    BY <2>2, <2>3
  <2>5. Lent!Add(b)
    BY <2>4 DEF Lent!Add
  <2> QED
    BY <2>5 DEF Lent!LNext
<1>3. CASE ReleaseAllBuffers
  <2>1. ASSUME NEW b \in Buffers
        PROVE  OwnerOf(b)' = IF OwnerOf(b) = Free THEN Gone ELSE OwnerOf(b)
    <3>1. ~AtObserver(b) /\ ~AtObserver(b)'
      BY <1>3 DEF ReleaseAllBuffers, Quiescent, AtObserver
    <3>2. CASE Held(b)
      <4>1. PICK u \in Users : b \in holds[u]
        BY <3>2 DEF Held
      <4>2. OwnerOf(b) = u /\ u # Free
        BY <1>0, <4>1, OwnerIs, PoolAssumption
      <4>3. b \in holds'[u]
        BY <1>3, <4>1 DEF ReleaseAllBuffers
      <4>4. OwnerOf(b)' = u
        BY <1>0, <4>3, OwnerIsNext
      <4> QED
        BY <4>2, <4>4
    <3>3. CASE ~Held(b) /\ b \in pool
      <4>1. refs[b] = 0
        BY <3>3 DEF Inv, CountInv, Held
      <4>2. b \in gone' /\ b \notin pool' /\ ~Held(b)'
        BY <1>3, <3>3, <4>1 DEF ReleaseAllBuffers, Held
      <4> QED
        BY <1>0, <3>3, <4>2, OwnerIs, OwnerIsNext
    <3>4. CASE ~Held(b) /\ b \notin pool
      <4>1. /\ ~Held(b)' /\ b \notin pool' /\ b \in gone <=> b \in gone'
        BY <1>3, <3>4 DEF ReleaseAllBuffers, Held
      <4>2. OwnerOf(b)' = OwnerOf(b)
        BY <1>0, <1>3, <3>1, <3>4, <4>1, SameOwner DEF ReleaseAllBuffers
      <4>3. OwnerOf(b) \in {Gone, Unborn}
        BY <1>0, <3>1, <3>4, OwnerIs
      <4> QED
        BY <4>2, <4>3, PoolAssumption
    <3> QED
      BY <3>2, <3>3, <3>4
  <2>2. o2 = [b \in Buffers |-> IF o[b] = Free THEN Gone ELSE o[b]]
    BY <2>1
  <2>3. Lent!Close
    BY <2>2 DEF Lent!Close
  <2> QED
    BY <2>3 DEF Lent!LNext
<1>4. ASSUME NEW u \in Acquirers, NEW b \in Buffers, Take(u, b) PROVE Lent!LNext
  <2>1. refs[b] = 0 /\ b \in pool /\ ~Held(b)
    BY <1>0, <1>4 DEF Take, Suits, Inv, ScanInv, CountInv, Held, TypeOK
  <2>2. /\ b \in holds'[u] /\ UNCHANGED <<pool, gone, rel>> /\ pc[u] = "scan" /\ pc'[u] = "idle"
        /\ \A v \in Users : v # u => pc'[v] = pc[v]
        /\ \A c \in Buffers : c # b => \A v \in Users : c \in holds[v] <=> c \in holds'[v]
    BY <1>0, <1>4 DEF Take, TypeOK, ReturnFromAcquire, Goto
  <2>3. OwnerOf(b) = Free /\ OwnerOf(b)' = u
    BY <1>0, <2>1, <2>2, OwnerIs, OwnerIsNext
  <2>4. ASSUME NEW c \in Buffers, c # b PROVE OwnerOf(c)' = OwnerOf(c)
    <3>1. AtObserver(c) <=> AtObserver(c)'
      BY <2>2 DEF AtObserver
    <3> QED
      BY <1>0, <2>2, <2>4, <3>1, SameOwner
  <2>5. o[b] = Free /\ o2 = [o EXCEPT ![b] = u]
    BY <2>3, <2>4
  <2>6. Lent!Lend(b, u)
    BY <2>5 DEF Lent!Lend
  <2> QED
    BY <2>6 DEF Lent!LNext
<1>5. ASSUME NEW u \in Users, NEW v \in Users, NEW b \in Buffers, Hand(u, v, b)
      PROVE Lent!LNext
  <2>1. /\ b \in holds[u] /\ b \in holds'[v] /\ UNCHANGED <<pool, gone, pc, rel>>
        /\ \A c \in Buffers : c # b => \A w \in Users : c \in holds[w] <=> c \in holds'[w]
    BY <1>0, <1>5 DEF Hand, TypeOK, bufVars
  <2>2. OwnerOf(b) = u /\ OwnerOf(b)' = v
    BY <1>0, <2>1, OwnerIs, OwnerIsNext
  <2>3. ASSUME NEW c \in Buffers, c # b PROVE OwnerOf(c)' = OwnerOf(c)
    <3>1. AtObserver(c) <=> AtObserver(c)'
      BY <2>1 DEF AtObserver
    <3> QED
      BY <1>0, <2>1, <2>3, <3>1, SameOwner
  <2>4. o[b] = u /\ o2 = [o EXCEPT ![b] = v]
    BY <2>2, <2>3
  <2>5. Lent!Pass(b, u, v)
    BY <2>4 DEF Lent!Pass
  <2> QED
    BY <2>5 DEF Lent!LNext
<1>6. ASSUME NEW u \in Users, DropRef(u) PROVE Lent!LNext
  <2>1. PICK b \in Buffers : b = rel[u] /\ b \in holds[u] /\ refs[b] = 1
    BY <1>0, <1>6 DEF DropRef, Inv, CountInv, ReleaseInv, TypeOK
  <2>2. /\ pc'[u] = "observer" /\ pc[u] = "drop" /\ holds'[u] = holds[u] \ {b}
        /\ \A v \in Users : v # u => pc'[v] = pc[v] /\ holds'[v] = holds[v]
        /\ UNCHANGED <<pool, gone, rel>>
    BY <1>0, <1>6, <2>1 DEF DropRef, TypeOK, Goto
  <2>3. ~Held(b)' /\ AtObserver(b)'
    BY <1>0, <2>1, <2>2 DEF Held, AtObserver, CountInv
  <2>4. OwnerOf(b) = u /\ OwnerOf(b)' = IF b \in pool THEN Free ELSE Gone
    BY <1>0, <2>1, <2>2, <2>3, OwnerIs, OwnerIsNext
  <2>5. ASSUME NEW c \in Buffers, c # b PROVE OwnerOf(c)' = OwnerOf(c)
    <3>1. AtObserver(c) <=> AtObserver(c)'
      BY <2>1, <2>2, <2>5 DEF AtObserver
    <3>2. \A v \in Users : c \in holds[v] <=> c \in holds'[v]
      BY <2>2, <2>5
    <3> QED
      BY <1>0, <2>2, <3>1, <3>2, SameOwner
  <2>6. o[b] = u /\ o2 = [o EXCEPT ![b] = IF b \in pool THEN Free ELSE Gone]
    BY <2>4, <2>5
  <2>7. Lent!GiveBack(b, u) \/ Lent!Discard(b, u)
    BY <2>6 DEF Lent!GiveBack, Lent!Discard
  <2> QED
    BY <2>7 DEF Lent!LNext
<1> HIDE DEF o, o2
<1> QED
  BY <1>1, <1>2, <1>3, <1>4, <1>5, <1>6, PlacesNext

(* The pool and its buffers implement the lender: whatever the threads do, *)
(* a buffer changes owner only as Lending allows.                          *)
THEOREM PoolIsLender == Spec => ImplementsLending
<1>1. Init => Lent!LInit
  <2>1. ASSUME Init, NEW b \in Buffers PROVE OwnerOf(b) = Unborn
    BY <2>1 DEF Init, OwnerOf, Users, Threads
  <2> QED
    BY <2>1 DEF Lent!LInit
<1>2. Inv /\ Inv' /\ [Next]_vars => [Lent!LNext]_[b \in Buffers |-> OwnerOf(b)]
  BY LendingStep
<1> QED
  BY InvAlways, <1>1, <1>2, PTL DEF Spec, ImplementsLending, Lent!LSpec
=============================================================================
