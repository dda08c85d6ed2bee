------------------------------- MODULE Allocators -------------------------------
(***************************************************************************)
(* The store of allocators and what its ION, DRM and malloc allocators ask *)
(* of the kernel for a media buffer: a handle, a descriptor and a mapping. *)
(* Any request may fail.  Numbers are reused as a kernel reuses them: the  *)
(* lowest free one.  A caller frees a buffer once and forgets it, also     *)
(* when freeBuffer() fails, as the buffer pool does.                       *)
(***************************************************************************)
EXTENDS Naturals, FiniteSets, FiniteSetsExt

CONSTANTS
    None, Failed,       \* Failed: MAP_FAILED
    OS_LINUX, HAVE_DRM, \* how the library is built
    Capacities,         \* sizes asked for
    Align,              \* kKeyMemAlign
    Page, Word,         \* the page size and 2^32, made small
    Ids                 \* bound: numbers the kernel gives out

VARIABLES
    devices,    \* the device files that exist
    secure,     \* whether the heap mask is ROCKCHIP_BO_SECURE
    allocator,  \* the kind of the allocator in use, None before it is fetched
    kernel,     \* [handles, fds, maps] that are in use
    heap,       \* blocks of rt_malloc in use
    buffers,    \* the live buffers
    lost,       \* the same of every buffer nobody has any more
    stray       \* a number was freed that no buffer of the caller held

allocVars == <<devices, secure, allocator, kernel, heap, buffers, lost, stray>>

Resources == [handles |-> {}, fds |-> {}, maps |-> {}]
Free(used) == Ids \ used

-----------------------------------------------------------------------------
(* The store: an allocator exists when its device file does.               *)
fetchIonAllocator == IF OS_LINUX /\ "ion" \in devices THEN "ion" ELSE None
fetchDrmAllocator == IF HAVE_DRM /\ OS_LINUX /\ "drm" \in devices THEN "drm" ELSE None
fetchMallocAllocator == "malloc"

fetchAllocator(type) ==
    CASE type = "RT_ALLOC_TYPE_ION" -> fetchIonAllocator
      [] type = "RT_ALLOC_TYPE_DRM" -> fetchDrmAllocator
      [] OTHER -> None

priorAvailLinearAllocator ==
    IF fetchIonAllocator # None THEN fetchIonAllocator
    ELSE IF fetchDrmAllocator # None THEN fetchDrmAllocator
    ELSE fetchMallocAllocator

Fetch ==
    /\ allocator = None
    /\ allocator' \in {priorAvailLinearAllocator}
                      \union {fetchAllocator(t) : t \in {"RT_ALLOC_TYPE_ION", "RT_ALLOC_TYPE_DRM", "RT_ALLOC_TYPE_GRAPHIC"}}
    /\ allocator' # None
    /\ UNCHANGED <<devices, secure, kernel, heap, buffers, lost, stray>>

-----------------------------------------------------------------------------
(* The sizes, in words that wrap; a length of 0 is refused by the kernel.  *)
RoundUp(len, unit) == LET n == (len + unit - 1) % Word IN n - (n % unit)

(* Which request to the kernel fails: none is the success of all.          *)
Requests == {"none", "alloc", "prime", "dumb", "mmap", "phys"}
drm_ioctl(request, fails) == request # fails

drm_alloc(len, fails) == RoundUp(len, Align) # 0 /\ drm_ioctl("alloc", fails)
drm_handle_to_fd(fails) == drm_ioctl("prime", fails)
drm_mmap(len, fails) == RoundUp(len, Page) # 0 /\ fails # "mmap"

(* A physical address that cannot be had is taken for 0: the test for the  *)
(* heaps that must have one is true of every heap.                         *)
drm_get_phys(fails) == [ok |-> TRUE, known |-> drm_ioctl("phys", fails)]

ion_alloc(fails) == fails # "alloc"
(* A descriptor that cannot be had stays 0: standard input is mapped, which *)
(* works when it is a file.                                                *)
ion_map_fd(fd, fails) == IF fails = "prime" THEN None ELSE fd
ion_mmap(fd, len, fails, file) == len # 0 /\ fails # "mmap" /\ (fd = None => file)

Buffer(h, fd, data) == [handle |-> h, fd |-> fd, data |-> data]
Taken(h, fd, map) == [handles |-> h, fds |-> fd, maps |-> map]
Add(r, s) == [k \in DOMAIN r |-> r[k] \union s[k]]
Sub(r, s) == [k \in DOMAIN r |-> r[k] \ s[k]]

Real(x) == {x} \ {None, Failed}
Held(b) == Taken(Real(b.handle), Real(b.fd), IF b.handle = None THEN {} ELSE Real(b.data))

Lose(taken) ==
    /\ kernel' = Add(kernel, taken) /\ lost' = Add(lost, taken) /\ UNCHANGED <<buffers, heap>>
Hold(buffer, taken) ==
    /\ kernel' = Add(kernel, taken) /\ buffers' = buffers \union {buffer} /\ UNCHANGED <<lost, heap>>

(* A secure buffer that cannot be mapped is still a success, without data  *)
(* or descriptor; every other failure closes the descriptor again.         *)
drm_map(fd, map, len, fails) ==
    IF ~drm_handle_to_fd(fails) \/ ~drm_ioctl("dumb", fails) THEN None
    ELSE IF drm_mmap(len, fails) THEN [fd |-> fd, data |-> map]
    ELSE IF secure THEN [fd |-> None, data |-> Failed]
    ELSE None

(* The handle of an allocation that fails later is never given back.       *)
DrmNewBuffer(len, h, fd, map, fails) ==
    LET mapped == drm_map(fd, map, len, fails)
        b == Buffer(h, mapped.fd, mapped.data)
    IN  IF ~drm_alloc(len, fails) THEN Lose(Resources)
        ELSE IF mapped = None \/ ~drm_get_phys(fails).ok THEN Lose(Taken({h}, {}, {}))
        ELSE Hold(b, Held(b))

IonNewBuffer(len, h, fd, map, fails) ==
    LET mapped == ion_map_fd(fd, fails)
        b == Buffer(h, mapped, map)
    IN  IF ~ion_alloc(fails) THEN Lose(Resources)
        ELSE \E file \in BOOLEAN :
                IF ion_mmap(mapped, len, fails, file) THEN Hold(b, Held(b))
                ELSE Lose(Taken({h}, Real(mapped), {}))

MallocNewBuffer(block, fails) ==
    IF fails = "alloc" THEN Lose(Resources)
    ELSE /\ heap' = heap \union {block}
         /\ buffers' = buffers \union {Buffer(None, None, block)}
         /\ UNCHANGED <<kernel, lost>>

newBuffer(len) ==
    /\ \E fails \in Requests :
        /\ \A k \in DOMAIN kernel : Free(kernel[k]) # {}
        /\ LET h == Min(Free(kernel.handles))
               fd == Min(Free(kernel.fds))
               map == Min(Free(kernel.maps))
           IN  \/ allocator = "drm" /\ DrmNewBuffer(len, h, fd, map, fails)
               \/ allocator = "ion" /\ IonNewBuffer(len, h, fd, map, fails)
               \/ allocator = "malloc" /\ Free(heap) # {} /\ MallocNewBuffer(Min(Free(heap)), fails)
    /\ UNCHANGED <<devices, secure, allocator, stray>>

-----------------------------------------------------------------------------
(* Giving back numbers of b; one that is not in use, or is another's, is   *)
(* stray.                                                                  *)
GiveBack(b, given) ==
    /\ kernel' = Sub(kernel, given)
    /\ buffers' = buffers \ {b}
    /\ lost' = Add(lost, Sub(Held(b), given))
    /\ stray' = (stray \/ \E k \in DOMAIN given : ~(given[k] \subseteq kernel[k]))

(* Mutant: the descriptor is left to the release of the handle.            *)
FreeKeepsFd(b, fails) ==
    /\ kernel' = Sub(kernel, [Held(b) EXCEPT !.fds = {}, !.handles = IF fails THEN {} ELSE @])
    /\ lost' = IF fails THEN Add(lost, [Resources EXCEPT !.handles = Held(b).handles]) ELSE lost
    /\ buffers' = buffers \ {b}
    /\ UNCHANGED <<heap, stray>>

(* Unmap, close, then free the handle, which may fail.                     *)
drm_free(fails) == drm_ioctl("free", IF fails THEN "free" ELSE "none")
DrmFreeBuffer(b, fails) ==
    /\ GiveBack(b, [Held(b) EXCEPT !.handles = IF drm_free(fails) THEN @ ELSE {}])
    /\ UNCHANGED heap

ion_free(fails) == ~fails
IonFreeBuffer(b, fails) ==
    /\ GiveBack(b, [Held(b) EXCEPT !.handles = IF ion_free(fails) THEN @ ELSE {}])
    /\ UNCHANGED heap

FreeMalloc(b) ==
    /\ heap' = heap \ Real(b.data)
    /\ buffers' = buffers \ {b}
    /\ UNCHANGED <<kernel, lost, stray>>

freeBuffer(b) ==
    /\ \/ allocator = "drm" /\ \E fails \in BOOLEAN : DrmFreeBuffer(b, fails)
       \/ allocator = "ion" /\ \E fails \in BOOLEAN : IonFreeBuffer(b, fails)
       \/ allocator = "malloc" /\ FreeMalloc(b)
    /\ UNCHANGED <<devices, secure, allocator>>

(* The device file is closed: its handles go, the descriptors and the      *)
(* mappings that were lost stay.                                           *)
deinit ==
    /\ allocator # None /\ buffers = {}
    /\ kernel' = [kernel EXCEPT !.handles = {}]
    /\ lost' = [lost EXCEPT !.handles = {}]
    /\ allocator' = None
    /\ UNCHANGED <<devices, secure, heap, buffers, stray>>

AllocInit ==
    /\ devices \in SUBSET {"ion", "drm"} /\ secure \in BOOLEAN
    /\ allocator = None /\ kernel = Resources /\ heap = {} /\ buffers = {} /\ lost = Resources /\ stray = FALSE

AllocNext ==
    \/ Fetch \/ deinit
    \/ \E len \in Capacities : newBuffer(len)
    \/ \E b \in buffers : freeBuffer(b)

AllocSpec == AllocInit /\ [][AllocNext]_allocVars

-----------------------------------------------------------------------------
(* Every handle, descriptor, mapping and block in use belongs to exactly   *)
(* one live buffer or was lost by a request that failed, and nothing is    *)
(* given back that the buffer did not hold: over any sequence of           *)
(* allocations, failures, frees and changes of allocator, frees undo all   *)
(* that successful allocations took.                                       *)
HeldByBuffers ==
    /\ ~stray
    /\ \A k \in DOMAIN kernel :
         /\ kernel[k] = lost[k] \union UNION {Held(b)[k] : b \in buffers}
         /\ \A b, c \in buffers : b # c => Held(b)[k] \intersect Held(c)[k] = {}
         /\ \A b \in buffers : Held(b)[k] \intersect lost[k] = {}
    /\ heap = UNION {IF b.handle = None THEN Real(b.data) ELSE {} : b \in buffers}
=============================================================================
