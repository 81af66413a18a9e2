----------------------------- MODULE ShmCache ------------------------------
(***************************************************************************)
(* Shared memory segments, their cache, and the images that use them       *)
(* (display.c).  Images are made and destroyed by the scanner, by the      *)
(* X event thread on a resize, by the Spice worker when it is done with a  *)
(* drawable and by the main thread; the cache has a mutex of its own, and  *)
(* each step below is one critical section.                                *)
(***************************************************************************)
EXTENDS Integers, FiniteSets

CONSTANTS
    NumSlots,       \* G_N_ELEMENTS(display->shm_cache), 10 in the code
    Images,         \* shm_image_t structures
    Sizes,          \* image sizes in bytes
    MaxSegments,    \* bound: how many segments are ever allocated
    MaxFailures     \* bound: how many system calls, requests or mallocs fail

ASSUME CacheAssumption ==
    /\ NumSlots \in Nat \ {0}
    /\ Sizes \subseteq Nat \ {0}
    /\ MaxSegments \in Nat /\ MaxFailures \in Nat

Slots    == 1..NumSlots
Segments == 1..MaxSegments      \* in the order they are allocated
NoSegment == 0                  \* shmid == -1

VARIABLES
    shm_cache,      \* the segment in each slot
    held,           \* the segment of each image
    imgsize,        \* bytes_per_line * h of each image; 0 if there is no image
    size,           \* segment->size, once allocated
    allocated,      \* how many segments have been allocated
    detached,       \* segments shm_segment_destroy is done with
    leaked,         \* segments an error path has left attached and ownerless
    closed,         \* display_close has been called
    failures

vars == <<shm_cache, held, imgsize, size, allocated, detached, leaked, closed, failures>>

-----------------------------------------------------------------------------
Empty     == {k \in Slots : shm_cache[k] = NoSegment}
SizeAt(k) == size[shm_cache[k]]

\* The slots in S with the smallest segments (the loops take the first of them)
Smallest(S) == {k \in S : \A j \in S : SizeAt(k) <= SizeAt(j)}

Fail == failures < MaxFailures /\ failures' = failures + 1

Init ==
    /\ shm_cache = [k \in Slots |-> NoSegment]
    /\ held = [i \in Images |-> NoSegment]
    /\ imgsize = [i \in Images |-> 0]
    /\ size = [s \in Segments |-> 0] /\ allocated = 0
    /\ detached = {} /\ leaked = {} /\ closed = FALSE /\ failures = 0

\* The slots whose segment an image of n bytes fits in, or wrongly does not.
FittingTooSmall(n) == {k \in Slots \ Empty : SizeAt(k) <= n}
Fitting(n) == {k \in Slots \ Empty : n <= SizeAt(k)}

\* The cache entry is handed out and kept as well.
UseCachedTwice(i, n) ==
    /\ imgsize[i] = 0 /\ ~closed
    /\ \E k \in Smallest(Fitting(n)) : held' = [held EXCEPT ![i] = shm_cache[k]]
    /\ imgsize' = [imgsize EXCEPT ![i] = n]
    /\ UNCHANGED <<shm_cache, size, allocated, detached, leaked, closed, failures>>

\* create_shm_image with a hit: shm_cache_get finds an exact fit or the next bigger.
UseCached(i, n) ==
    /\ imgsize[i] = 0 /\ ~closed
    /\ \E k \in Smallest(Fitting(n)) :
          /\ held' = [held EXCEPT ![i] = shm_cache[k]]
          /\ shm_cache' = [shm_cache EXCEPT ![k] = NoSegment]
    /\ imgsize' = [imgsize EXCEPT ![i] = n]
    /\ UNCHANGED <<size, allocated, detached, leaked, closed, failures>>

\* create_shm_image without one: shmget, shmat and xcb_shm_attach
Allocate(i, n) ==
    /\ imgsize[i] = 0 /\ ~closed
    /\ Fitting(n) = {} /\ allocated < MaxSegments
    /\ allocated' = allocated + 1
    /\ size' = [size EXCEPT ![allocated'] = n]
    /\ held' = [held EXCEPT ![i] = allocated']
    /\ imgsize' = [imgsize EXCEPT ![i] = n]
    /\ UNCHANGED <<shm_cache, detached, leaked, closed, failures>>

\* shmget works but shmat or the X server's attach does not: no image, and the
\* segment is left behind.  (When calloc or shmget fails nothing happens at all.)
AllocateFails(n) ==
    /\ ~closed /\ Fitting(n) = {} /\ allocated < MaxSegments
    /\ Fail
    /\ allocated' = allocated + 1
    /\ size' = [size EXCEPT ![allocated'] = n]
    /\ leaked' = leaked \cup {allocated'}
    /\ UNCHANGED <<shm_cache, held, imgsize, detached, closed>>

-----------------------------------------------------------------------------
(* destroy_shm_image *)

ImageGone(i) ==
    /\ imgsize[i] # 0
    /\ held' = [held EXCEPT ![i] = NoSegment]
    /\ imgsize' = [imgsize EXCEPT ![i] = 0]

\* shm_cache_add finds an empty slot ...
AddToCache(i) ==
    /\ ImageGone(i)
    /\ \E k \in Empty : shm_cache' = [shm_cache EXCEPT ![k] = held[i]]
    /\ UNCHANGED <<size, allocated, detached, leaked, closed, failures>>

Smaller(i) == {k \in Slots : SizeAt(k) < size[held[i]]}

\* Two ways to get the eviction wrong: any smaller segment goes; the evicted
\* segment is overwritten in its slot without shm_segment_destroy.
EvictAny(i) ==
    /\ ImageGone(i) /\ Empty = {}
    /\ \E k \in Smaller(i) :
          /\ detached' = detached \cup {shm_cache[k]}
          /\ shm_cache' = [shm_cache EXCEPT ![k] = held[i]]
    /\ UNCHANGED <<size, allocated, leaked, closed, failures>>

EvictByOverwriting(i) ==
    /\ ImageGone(i) /\ Empty = {}
    /\ \E k \in Smallest(Smaller(i)) : shm_cache' = [shm_cache EXCEPT ![k] = held[i]]
    /\ UNCHANGED <<size, allocated, detached, leaked, closed, failures>>

\* ... or evicts the smallest of the smaller segments ...
Evict(i) ==
    /\ ImageGone(i) /\ Empty = {}
    /\ \E k \in Smallest(Smaller(i)) :
          /\ detached' = detached \cup {shm_cache[k]}
          /\ shm_cache' = [shm_cache EXCEPT ![k] = held[i]]
    /\ UNCHANGED <<size, allocated, leaked, closed, failures>>

\* ... or has no use for it, and shm_segment_destroy is called.
DestroySegment(i) ==
    /\ ImageGone(i) /\ Empty = {} /\ Smaller(i) = {}
    /\ detached' = detached \cup {held[i]}
    /\ UNCHANGED <<shm_cache, size, allocated, leaked, closed, failures>>

\* The image of a drawable without a release record (spice_create_release got no
\* memory) is never given back.
ForgetImage(i) ==
    /\ ImageGone(i)
    /\ Fail
    /\ leaked' = leaked \cup {held[i]}
    /\ UNCHANGED <<shm_cache, size, allocated, detached, closed>>

\* display_close: shm_cache_destroy.  Images that are left, those of the drawables
\* still queued for example, are destroyed after it.
Close ==
    /\ ~closed /\ closed' = TRUE
    /\ detached' = detached \cup {shm_cache[k] : k \in Slots \ Empty}
    /\ shm_cache' = [k \in Slots |-> NoSegment]
    /\ UNCHANGED <<held, imgsize, size, allocated, leaked, failures>>

Next ==
    \/ \E i \in Images, n \in Sizes : UseCached(i, n) \/ Allocate(i, n)
    \/ \E n \in Sizes : AllocateFails(n)
    \/ \E i \in Images : AddToCache(i) \/ Evict(i) \/ DestroySegment(i) \/ ForgetImage(i)
    \/ Close

Spec == Init /\ [][Next]_vars

-----------------------------------------------------------------------------
(* Properties *)

\* Images and segments have a size exactly while they exist, and an image has one
\* segment all its life.
TypeOK ==
    /\ shm_cache \in [Slots -> Segments \cup {NoSegment}]
    /\ held \in [Images -> Segments \cup {NoSegment}]
    /\ imgsize \in [Images -> Sizes \cup {0}]
    /\ \A i \in Images : held[i] = NoSegment <=> imgsize[i] = 0
    /\ allocated \in 0..MaxSegments
    /\ size \in [Segments -> Sizes \cup {0}]
    /\ \A s \in Segments : size[s] = 0 <=> s > allocated
    /\ detached \subseteq Segments /\ leaked \subseteq Segments
    /\ closed \in BOOLEAN /\ failures \in 0..MaxFailures

Cached == {shm_cache[k] : k \in Slots} \ {NoSegment}
Held   == {held[i] : i \in Images} \ {NoSegment}

\* Memory has one user: no two images, no two slots, no image and slot share a
\* segment, although a segment goes from thread to thread through the cache; the
\* scanner would read the screen into a picture Spice is still sending.
OneOwner ==
    /\ \A i, j \in Images : i # j /\ held[i] = held[j] => held[i] = NoSegment
    /\ \A k, l \in Slots : k # l /\ shm_cache[k] = shm_cache[l] => shm_cache[k] = NoSegment
    /\ Cached \cap Held = {}

\* What has been allocated is in use, in the cache, given back to the system, or
\* leaked by an error path: nothing is used after shm_segment_destroy, nothing is
\* destroyed twice, and only failures leak.
SegmentsAccounted ==
    /\ 1..allocated = Cached \cup Held \cup detached \cup leaked
    /\ (Cached \cup Held) \cap (detached \cup leaked) = {}
    /\ detached \cap leaked = {}
    /\ Cardinality(leaked) = failures

\* An image fits in its segment, which the X server writes to.
ImagesFit == \A i \in Images : imgsize[i] # 0 => imgsize[i] <= size[held[i]]

\* While the display is open no segment is given up for one that is smaller: what
\* is destroyed is at most as big as anything the cache keeps.
KeepsTheBiggest ==
    [][\A s \in detached' \ detached : \A k \in Slots :
          shm_cache'[k] # NoSegment => size[s] <= size[shm_cache'[k]]]_vars
=============================================================================
