---------------------------- MODULE ImageProofs -----------------------------
(***************************************************************************)
(* Proofs about the memory images lie in and about what is made of them:   *)
(* ShmCache, for every number of slots, images and sizes of images, and    *)
(* Resize, for every set of screen sizes, areas and colours.               *)
(***************************************************************************)
EXTENDS ShmCache, Resize, FiniteSetTheorems, SequenceTheorems, WellFoundedInduction, TLAPS

-----------------------------------------------------------------------------
(* ShmCache *)

\* The cache's segments are existing ones; so are those of images.
LEMMA SegmentsExist ==
    ASSUME TypeOK
    PROVE  /\ Segments \subseteq Nat /\ NoSegment \notin Segments
           /\ Cached \subseteq Segments /\ Held \subseteq Segments
  BY CacheAssumption DEF TypeOK, Cached, Held, Segments, NoSegment

\* The next segment allocated has been nobody's.
LEMMA NextSegment ==
    ASSUME TypeOK, allocated < MaxSegments
    PROVE  /\ allocated + 1 \in Segments /\ allocated + 1 # NoSegment
           /\ 1..(allocated + 1) = (1..allocated) \cup {allocated + 1}
           /\ allocated + 1 \notin 1..allocated
  BY CacheAssumption DEF TypeOK, Segments, NoSegment

LEMMA InitTypeOK == Init => TypeOK
<1> SUFFICES ASSUME Init PROVE TypeOK
  OBVIOUS
<1>1. closed \in BOOLEAN
  BY DEF Init
<1> QED
  BY <1>1, CacheAssumption DEF Init, TypeOK, Segments, NoSegment, Slots

LEMMA StepTypeOK == TypeOK /\ [Next]_vars => TypeOK'
<1> SUFFICES ASSUME TypeOK, [Next]_vars PROVE TypeOK'
  OBVIOUS
<1> USE DEF NoSegment
<1>1. ASSUME NEW i \in Images, NEW n \in Sizes, UseCached(i, n) PROVE TypeOK'
  <2>1. PICK k \in Slots \ Empty :
          /\ held' = [held EXCEPT ![i] = shm_cache[k]]
          /\ shm_cache' = [shm_cache EXCEPT ![k] = NoSegment]
    BY <1>1 DEF UseCached, Smallest, Fitting
  <2>2. shm_cache[k] \in Segments /\ n # 0
    BY <2>1, CacheAssumption DEF TypeOK, Empty
  <2> QED
    BY <1>1, <2>1, <2>2, SegmentsExist DEF UseCached, TypeOK
<1>2. ASSUME NEW i \in Images, NEW n \in Sizes, Allocate(i, n) PROVE TypeOK'
  <2>1. allocated + 1 \in Segments /\ n \in Nat \ {0} /\ allocated' = allocated + 1
    BY <1>2, NextSegment, CacheAssumption DEF Allocate
  <2>2. \A s \in Segments : size'[s] = 0 <=> s > allocated'
    BY <1>2, <2>1, CacheAssumption DEF Allocate, TypeOK, Segments
  <2> QED
    BY <1>2, <2>1, <2>2, CacheAssumption DEF Allocate, TypeOK, Segments
<1>3. ASSUME NEW n \in Sizes, AllocateFails(n) PROVE TypeOK'
  <2>1. allocated + 1 \in Segments /\ n \in Nat \ {0} /\ allocated' = allocated + 1
    BY <1>3, NextSegment, CacheAssumption DEF AllocateFails
  <2>2. \A s \in Segments : size'[s] = 0 <=> s > allocated'
    BY <1>3, <2>1, CacheAssumption DEF AllocateFails, TypeOK, Segments
  <2> QED
    BY <1>3, <2>1, <2>2, CacheAssumption DEF AllocateFails, Fail, TypeOK, Segments
<1>4. ASSUME NEW i \in Images, ImageGone(i)
      PROVE  /\ held[i] \in Segments
             /\ held' \in [Images -> Segments \cup {NoSegment}]
             /\ imgsize' \in [Images -> Sizes \cup {0}]
             /\ \A j \in Images : held'[j] = NoSegment <=> imgsize'[j] = 0
  BY <1>4 DEF ImageGone, TypeOK
<1>5. ASSUME NEW i \in Images, AddToCache(i) PROVE TypeOK'
  <2>1. PICK k \in Slots : shm_cache' = [shm_cache EXCEPT ![k] = held[i]]
    BY <1>5 DEF AddToCache, Empty
  <2> QED
    BY <1>4, <1>5, <2>1 DEF AddToCache, TypeOK
<1>6. ASSUME NEW i \in Images, Evict(i) PROVE TypeOK'
  <2>1. PICK k \in Slots \ Empty :
          /\ detached' = detached \cup {shm_cache[k]}
          /\ shm_cache' = [shm_cache EXCEPT ![k] = held[i]]
    BY <1>6 DEF Evict, Smallest, Smaller
  <2>2. shm_cache[k] \in Segments
    BY <2>1 DEF TypeOK, Empty
  <2> QED
    BY <1>4, <1>6, <2>1, <2>2 DEF Evict, TypeOK
<1>7. ASSUME NEW i \in Images, DestroySegment(i) PROVE TypeOK'
  BY <1>4, <1>7 DEF DestroySegment, TypeOK
<1>8. ASSUME NEW i \in Images, ForgetImage(i) PROVE TypeOK'
  BY <1>4, <1>8, CacheAssumption DEF ForgetImage, Fail, TypeOK
<1>9. CASE Close
  <2>1. {shm_cache[k] : k \in Slots \ Empty} \subseteq Segments
    BY DEF TypeOK, Empty
  <2> QED
    BY <1>9, <2>1 DEF Close, TypeOK
<1>10. CASE UNCHANGED vars
  BY <1>10 DEF vars, TypeOK
<1> QED
  BY <1>1, <1>2, <1>3, <1>5, <1>6, <1>7, <1>8, <1>9, <1>10 DEF Next

\* Types, for every number of slots, images and segments.
THEOREM TypeCorrect == Spec => []TypeOK
  BY InitTypeOK, StepTypeOK, PTL DEF Spec

-----------------------------------------------------------------------------
(* Ownership *)

\* What one assignment to a slot does to the set of cached segments
LEMMA CachedAfter ==
    ASSUME TypeOK, OneOwner, NEW k \in Slots, NEW s \in Segments \cup {NoSegment},
           s \notin Cached, shm_cache' = [shm_cache EXCEPT ![k] = s]
    PROVE  /\ Cached' = (Cached \ {shm_cache[k]}) \cup ({s} \ {NoSegment})
           /\ \A a, b \in Slots : a # b /\ shm_cache'[a] = shm_cache'[b]
                 => shm_cache'[a] = NoSegment
  BY DEF TypeOK, OneOwner, Cached

\* What one assignment to an image does to the set of segments in use
LEMMA HeldAfter ==
    ASSUME TypeOK, OneOwner, NEW i \in Images, NEW s \in Segments \cup {NoSegment},
           s \notin Held, held' = [held EXCEPT ![i] = s]
    PROVE  /\ Held' = (Held \ {held[i]}) \cup ({s} \ {NoSegment})
           /\ \A a, b \in Images : a # b /\ held'[a] = held'[b]
                 => held'[a] = NoSegment
  BY DEF TypeOK, OneOwner, Held

\* An image that goes leaves its segment without an owner.
LEMMA GoneAfter ==
    ASSUME TypeOK, OneOwner, NEW i \in Images, ImageGone(i)
    PROVE  /\ held[i] \in Held /\ held[i] \notin Cached /\ held[i] \in Segments
           /\ Held' = Held \ {held[i]}
           /\ \A a, b \in Images : a # b /\ held'[a] = held'[b]
                 => held'[a] = NoSegment
<1>1. /\ held[i] \in Segments /\ held[i] # NoSegment
      /\ held' = [held EXCEPT ![i] = NoSegment]
  BY DEF ImageGone, TypeOK
<1>2. held[i] \in Held /\ held[i] \notin Cached
  BY <1>1 DEF Held, OneOwner
<1>3. NoSegment \notin Held
  BY DEF Held
<1> QED
  BY <1>1, <1>2, <1>3, HeldAfter

\* One more leak for one more failure
LEMMA LeakCounted ==
    ASSUME NEW S \in SUBSET Segments, NEW s \in Segments \ S
    PROVE  Cardinality(S \cup {s}) = Cardinality(S) + 1
<1>1. IsFiniteSet(Segments)
  BY FS_Interval, CacheAssumption DEF Segments
<1>2. IsFiniteSet(S)
  BY <1>1, FS_Subset
<1> QED
  BY <1>2, FS_AddElement

OwnerInv == OneOwner /\ SegmentsAccounted

LEMMA InitOwnerInv == Init => OwnerInv
<1> SUFFICES ASSUME Init PROVE OwnerInv
  OBVIOUS
<1>1. Cached = {} /\ Held = {} /\ 1..allocated = {}
  BY DEF Init, Cached, Held
<1>2. Cardinality(leaked) = failures
  BY FS_EmptySet DEF Init
<1> QED
  BY <1>1, <1>2 DEF Init, OwnerInv, OneOwner, SegmentsAccounted

LEMMA StepOwnerInv == TypeOK /\ OwnerInv /\ [Next]_vars => OwnerInv'
<1> SUFFICES ASSUME TypeOK, OwnerInv, [Next]_vars PROVE OwnerInv'
  OBVIOUS
<1> USE DEF OwnerInv
<1>0. /\ Cached \subseteq Segments /\ Held \subseteq Segments
      /\ NoSegment \notin Cached /\ NoSegment \notin Held
      /\ Cached \subseteq 1..allocated /\ Held \subseteq 1..allocated
      /\ detached \subseteq 1..allocated /\ leaked \subseteq 1..allocated
  BY SegmentsExist DEF SegmentsAccounted, Cached, Held
\* The segment moves from a slot to an image.
<1>1. ASSUME NEW i \in Images, NEW n \in Sizes, UseCached(i, n) PROVE OwnerInv'
  <2>1. PICK k \in Slots \ Empty :
          /\ held' = [held EXCEPT ![i] = shm_cache[k]]
          /\ shm_cache' = [shm_cache EXCEPT ![k] = NoSegment]
    BY <1>1 DEF UseCached, Smallest, Fitting
  <2> DEFINE c == shm_cache[k]
  <2>2. c \in Cached /\ c \in Segments /\ c \notin Held
    BY <2>1 DEF TypeOK, Empty, Cached, OneOwner
  <2>3. held[i] = NoSegment
    BY <1>1 DEF UseCached, TypeOK
  <2>4. /\ Cached' = (Cached \ {c}) \cup ({NoSegment} \ {NoSegment})
        /\ \A a, b \in Slots : a # b /\ shm_cache'[a] = shm_cache'[b]
              => shm_cache'[a] = NoSegment
    <3>1. NoSegment \in Segments \cup {NoSegment} /\ k \in Slots
      OBVIOUS
    <3> QED
      BY <1>0, <2>1, <3>1, CachedAfter
  <2>5. /\ Held' = (Held \ {held[i]}) \cup ({c} \ {NoSegment})
        /\ \A a, b \in Images : a # b /\ held'[a] = held'[b] => held'[a] = NoSegment
    <3>1. c \in Segments \cup {NoSegment} /\ held' = [held EXCEPT ![i] = c]
      BY <2>1, <2>2
    <3> HIDE DEF c
    <3> QED
      BY <2>2, <3>1, HeldAfter
  <2>6. UNCHANGED <<allocated, detached, leaked, failures>>
    BY <1>1 DEF UseCached
  <2>7. Cached' = Cached \ {c} /\ Held' = Held \cup {c}
    BY <1>0, <2>2, <2>3, <2>4, <2>5
  <2> HIDE DEF c
  <2> QED
    BY <2>2, <2>4, <2>5, <2>6, <2>7 DEF OneOwner, SegmentsAccounted
\* A new segment goes to an image.
<1>2. ASSUME NEW i \in Images, NEW n \in Sizes, Allocate(i, n) PROVE OwnerInv'
  <2> DEFINE s == allocated + 1
  <2>1. /\ s \in Segments /\ s # NoSegment /\ s \notin 1..allocated
        /\ 1..allocated' = (1..allocated) \cup {s}
        /\ held' = [held EXCEPT ![i] = s]
        /\ UNCHANGED <<shm_cache, detached, leaked, failures>>
    BY <1>2, NextSegment DEF Allocate
  <2>2. held[i] = NoSegment
    BY <1>2 DEF Allocate, TypeOK
  <2>3. s \notin Held /\ s \notin Cached /\ s \notin detached \cup leaked
    BY <1>0, <2>1
  <2> HIDE DEF s
  <2>4. /\ Held' = (Held \ {held[i]}) \cup ({s} \ {NoSegment})
        /\ \A a, b \in Images : a # b /\ held'[a] = held'[b] => held'[a] = NoSegment
    BY <2>1, <2>3, HeldAfter
  <2>5. Cached' = Cached
    BY <2>1 DEF Cached
  <2>6. Held' = Held \cup {s}
    BY <1>0, <2>1, <2>2, <2>4
  <2> QED
    BY <2>1, <2>3, <2>4, <2>5, <2>6 DEF OneOwner, SegmentsAccounted
\* A new segment is leaked.
<1>3. ASSUME NEW n \in Sizes, AllocateFails(n) PROVE OwnerInv'
  <2> DEFINE s == allocated + 1
  <2>1. /\ s \in Segments /\ s \notin 1..allocated
        /\ 1..allocated' = (1..allocated) \cup {s}
        /\ leaked' = leaked \cup {s} /\ failures' = failures + 1
        /\ UNCHANGED <<shm_cache, held, detached>>
    BY <1>3, NextSegment DEF AllocateFails, Fail
  <2>2. s \notin Held /\ s \notin Cached /\ s \notin detached /\ s \notin leaked
    BY <1>0, <2>1
  <2>3. Cardinality(leaked') = failures'
    BY <2>1, <2>2, LeakCounted DEF TypeOK, SegmentsAccounted
  <2>4. Cached' = Cached /\ Held' = Held
    BY <2>1 DEF Cached, Held
  <2> HIDE DEF s
  <2> QED
    BY <2>1, <2>2, <2>3, <2>4 DEF OneOwner, SegmentsAccounted
\* The segment moves from an image to a slot.
<1>4. ASSUME NEW i \in Images, AddToCache(i) PROVE OwnerInv'
  <2>1. PICK k \in Empty : shm_cache' = [shm_cache EXCEPT ![k] = held[i]]
    BY <1>4 DEF AddToCache
  <2>2. ImageGone(i) /\ UNCHANGED <<allocated, detached, leaked, failures>>
    BY <1>4 DEF AddToCache
  <2>3. k \in Slots /\ shm_cache[k] = NoSegment
    BY DEF Empty
  <2>4. held[i] \in Held /\ held[i] \notin Cached /\ held[i] \in Segments
    BY <2>2, GoneAfter
  <2>5. /\ Cached' = (Cached \ {shm_cache[k]}) \cup ({held[i]} \ {NoSegment})
        /\ \A a, b \in Slots : a # b /\ shm_cache'[a] = shm_cache'[b]
              => shm_cache'[a] = NoSegment
    <3>1. held[i] \in Segments \cup {NoSegment}
      BY <2>4
    <3> QED
      BY <2>1, <2>3, <2>4, <3>1, CachedAfter
  <2>6. Cached' = Cached \cup {held[i]}
    BY <1>0, <2>3, <2>4, <2>5
  <2> QED
    BY <2>2, <2>4, <2>5, <2>6, GoneAfter DEF OneOwner, SegmentsAccounted
\* ... and another one from the slot to the system.
<1>5. ASSUME NEW i \in Images, Evict(i) PROVE OwnerInv'
  <2>1. PICK k \in Slots : /\ detached' = detached \cup {shm_cache[k]}
                           /\ shm_cache' = [shm_cache EXCEPT ![k] = held[i]]
    BY <1>5 DEF Evict, Smallest, Smaller
  <2>2. ImageGone(i) /\ Empty = {} /\ UNCHANGED <<allocated, leaked, failures>>
    BY <1>5 DEF Evict
  <2> DEFINE c == shm_cache[k]
  <2>3. c \in Cached
    BY <2>2 DEF Empty, Cached
  <2>4. held[i] \in Held /\ held[i] \notin Cached /\ held[i] \in Segments
    BY <2>2, GoneAfter
  <2>5. /\ Cached' = (Cached \ {c}) \cup {held[i]}
        /\ \A a, b \in Slots : a # b /\ shm_cache'[a] = shm_cache'[b]
              => shm_cache'[a] = NoSegment
    BY <1>0, <2>1, <2>4, CachedAfter
  <2> QED
    BY <2>1, <2>2, <2>3, <2>4, <2>5, GoneAfter DEF OneOwner, SegmentsAccounted
<1>6. ASSUME NEW i \in Images, DestroySegment(i) PROVE OwnerInv'
  <2>1. /\ ImageGone(i) /\ detached' = detached \cup {held[i]}
        /\ UNCHANGED <<shm_cache, allocated, leaked, failures>>
    BY <1>6 DEF DestroySegment
  <2>2. Cached' = Cached
    BY <2>1 DEF Cached
  <2> QED
    BY <2>1, <2>2, GoneAfter DEF OneOwner, SegmentsAccounted
<1>7. ASSUME NEW i \in Images, ForgetImage(i) PROVE OwnerInv'
  <2>1. /\ ImageGone(i) /\ leaked' = leaked \cup {held[i]} /\ failures' = failures + 1
        /\ UNCHANGED <<shm_cache, allocated, detached>>
    BY <1>7 DEF ForgetImage, Fail
  <2>2. Cached' = Cached
    BY <2>1 DEF Cached
  <2>3. held[i] \in Segments \ leaked
    BY <2>1, GoneAfter DEF SegmentsAccounted
  <2>4. Cardinality(leaked') = failures'
    BY <2>1, <2>3, LeakCounted DEF TypeOK, SegmentsAccounted
  <2> QED
    BY <2>1, <2>2, <2>4, GoneAfter DEF OneOwner, SegmentsAccounted
<1>8. CASE Close
  <2>1. /\ detached' = detached \cup Cached
        /\ UNCHANGED <<held, allocated, leaked, failures>>
    BY <1>8 DEF Close, Empty, Cached
  <2>2. Cached' = {} /\ \A k \in Slots : shm_cache'[k] = NoSegment
    BY <1>8 DEF Close, Cached
  <2>3. Held' = Held
    BY <2>1 DEF Held
  <2> QED
    BY <2>1, <2>2, <2>3 DEF OneOwner, SegmentsAccounted
<1>9. CASE UNCHANGED vars
  BY <1>9 DEF vars, OneOwner, SegmentsAccounted, Cached, Held
<1> QED
  BY <1>1, <1>2, <1>3, <1>4, <1>5, <1>6, <1>7, <1>8, <1>9 DEF Next

\* No segment is ever used by two images, cached twice, or cached while in use.
THEOREM SegmentsHaveOneOwner == Spec => []OneOwner
<1>1. OwnerInv => OneOwner
  BY DEF OwnerInv
<1> QED
  BY <1>1, InitTypeOK, StepTypeOK, InitOwnerInv, StepOwnerInv, PTL DEF Spec

\* Segments are neither lost nor destroyed twice nor used afterwards; each failure
\* of an error path that forgets one costs exactly one segment.
THEOREM SegmentsAreAccounted == Spec => []SegmentsAccounted
<1>1. OwnerInv => SegmentsAccounted
  BY DEF OwnerInv
<1> QED
  BY <1>1, InitTypeOK, StepTypeOK, InitOwnerInv, StepOwnerInv, PTL DEF Spec

-----------------------------------------------------------------------------
(* Sizes *)

LEMMA InitImagesFit == Init => ImagesFit
  BY DEF Init, ImagesFit

\* A new segment has the size asked for, a cached one at least that, and the size
\* of a segment in use never changes.
LEMMA StepImagesFit == TypeOK /\ ImagesFit /\ [Next]_vars => ImagesFit'
<1> SUFFICES ASSUME TypeOK, ImagesFit, [Next]_vars PROVE ImagesFit'
  OBVIOUS
<1> USE DEF NoSegment
<1>1. ASSUME NEW i \in Images, NEW n \in Sizes, UseCached(i, n) PROVE ImagesFit'
  <2>1. PICK k \in Slots : held' = [held EXCEPT ![i] = shm_cache[k]] /\ n <= SizeAt(k)
    BY <1>1 DEF UseCached, Smallest, Fitting
  <2> QED
    BY <1>1, <2>1 DEF UseCached, ImagesFit, TypeOK, SizeAt
<1>2. ASSUME NEW j \in Images, imgsize[j] # 0 PROVE held[j] \in 1..allocated
  <2>1. held[j] \in Segments /\ imgsize[j] \in Sizes
    BY <1>2 DEF TypeOK
  <2>2. imgsize[j] \in Nat \ {0} /\ imgsize[j] <= size[held[j]]
    BY <1>2, <2>1, CacheAssumption DEF ImagesFit
  <2>3. size[held[j]] # 0
    BY <2>2
  <2>4. ~(held[j] > allocated)
    BY <2>1, <2>3 DEF TypeOK
  <2> QED
    BY <2>1, <2>4, CacheAssumption DEF TypeOK, Segments
<1>3. ASSUME NEW i \in Images, NEW n \in Sizes, Allocate(i, n) PROVE ImagesFit'
  <2>1. /\ held' = [held EXCEPT ![i] = allocated + 1]
        /\ imgsize' = [imgsize EXCEPT ![i] = n]
        /\ size' = [size EXCEPT ![allocated + 1] = n]
    BY <1>3 DEF Allocate
  <2>2. allocated + 1 \in Segments /\ allocated + 1 \notin 1..allocated
    BY <1>3, NextSegment DEF Allocate
  <2>3. held'[i] = allocated + 1 /\ imgsize'[i] = n /\ size'[allocated + 1] = n
    BY <2>1, <2>2 DEF TypeOK
  <2>4. \A j \in Images \ {i} : imgsize'[j] = imgsize[j] /\ held'[j] = held[j]
    BY <2>1 DEF TypeOK
  <2>5. \A t \in 1..allocated : size'[t] = size[t]
    BY <2>1, <2>2, CacheAssumption DEF TypeOK, Segments
  <2> QED
    BY <1>2, <2>3, <2>4, <2>5, CacheAssumption DEF ImagesFit
<1>4. ASSUME NEW n \in Sizes, AllocateFails(n) PROVE ImagesFit'
  <2>1. size' = [size EXCEPT ![allocated + 1] = n] /\ UNCHANGED <<held, imgsize>>
    BY <1>4 DEF AllocateFails
  <2>2. allocated + 1 \in Segments /\ allocated + 1 \notin 1..allocated
    BY <1>4, NextSegment DEF AllocateFails
  <2>3. \A t \in 1..allocated : size'[t] = size[t]
    BY <2>1, <2>2, CacheAssumption DEF TypeOK, Segments
  <2> QED
    BY <1>2, <2>1, <2>3 DEF ImagesFit
<1>5. ASSUME NEW i \in Images, ImageGone(i), UNCHANGED size PROVE ImagesFit'
  BY <1>5 DEF ImageGone, ImagesFit, TypeOK
<1>6. ASSUME NEW i \in Images,
             AddToCache(i) \/ Evict(i) \/ DestroySegment(i) \/ ForgetImage(i)
      PROVE  ImagesFit'
  BY <1>5, <1>6 DEF AddToCache, Evict, DestroySegment, ForgetImage
<1>7. CASE Close \/ UNCHANGED vars
  BY <1>7 DEF Close, vars, ImagesFit
<1> QED
  BY <1>1, <1>3, <1>4, <1>6, <1>7 DEF Next

\* The X server never writes a picture past the end of its segment.
THEOREM ImagesFitTheirSegments == Spec => []ImagesFit
  BY InitTypeOK, StepTypeOK, InitImagesFit, StepImagesFit, PTL DEF Spec

\* What a step gives up is not bigger than what it leaves in the cache.
LEMMA StepKeepsTheBiggest ==
    ASSUME TypeOK, [Next]_vars
    PROVE  [\A s \in detached' \ detached : \A k \in Slots :
              shm_cache'[k] # NoSegment => size[s] <= size[shm_cache'[k]]]_vars
<1> DEFINE Kept == \A s \in detached' \ detached : \A k \in Slots :
                       shm_cache'[k] # NoSegment => size[s] <= size[shm_cache'[k]]
<1> SUFFICES ASSUME Next PROVE Kept
  BY DEF vars
<1>0. \A s \in Segments : size[s] \in Nat
  <2>1. \A s \in Segments : size[s] \in Sizes \cup {0}
    BY DEF TypeOK
  <2>2. \A n \in Sizes \cup {0} : n \in Nat
    BY CacheAssumption
  <2> QED
    BY <2>1, <2>2
<1>1. CASE detached' = detached
  BY <1>1
<1>2. ASSUME NEW i \in Images, Evict(i) PROVE Kept
  <2>1. Empty = {} /\ held[i] \in Segments
    BY <1>2 DEF Evict, ImageGone, TypeOK
  <2>2. \A k \in Slots : shm_cache[k] \in Segments
    BY <2>1 DEF Empty, TypeOK
  <2>3. PICK k \in Smallest(Smaller(i)) :
          /\ detached' = detached \cup {shm_cache[k]}
          /\ shm_cache' = [shm_cache EXCEPT ![k] = held[i]]
    BY <1>2 DEF Evict
  <2>4. /\ k \in Slots /\ size[shm_cache[k]] < size[held[i]]
        /\ \A j \in Slots : size[shm_cache[j]] < size[held[i]]
              => size[shm_cache[k]] <= size[shm_cache[j]]
    BY <2>3 DEF Smallest, Smaller, SizeAt
  <2>5. \A j \in Slots : size[shm_cache[k]] <= size[shm_cache[j]]
    BY <1>0, <2>1, <2>2, <2>4
  <2>6. \A j \in Slots : shm_cache'[j] \in {shm_cache[j], held[i]}
    BY <2>3 DEF TypeOK
  <2>7. \A j \in Slots : size[shm_cache[k]] <= size[shm_cache'[j]]
    BY <1>0, <2>1, <2>2, <2>4, <2>5, <2>6
  <2> QED
    BY <2>3, <2>7
<1>3. ASSUME NEW i \in Images, DestroySegment(i) PROVE Kept
  <2>1. /\ Empty = {} /\ held[i] \in Segments /\ Smaller(i) = {}
        /\ detached' = detached \cup {held[i]} /\ shm_cache' = shm_cache
    BY <1>3 DEF DestroySegment, ImageGone, TypeOK
  <2>2. \A j \in Slots : /\ shm_cache[j] \in Segments
                         /\ ~(size[shm_cache[j]] < size[held[i]])
    BY <2>1 DEF Empty, TypeOK, Smaller, SizeAt
  <2> QED
    BY <1>0, <2>1, <2>2
<1>4. CASE Close
  BY <1>4 DEF Close
<1> QED
  BY <1>1, <1>2, <1>3, <1>4
     DEF Next, UseCached, Allocate, AllocateFails, AddToCache, ForgetImage

\* The cache keeps the biggest segments, as shm_cache_add sets out to do.
THEOREM CacheKeepsTheBiggest == Spec => KeepsTheBiggest
  BY InitTypeOK, StepTypeOK, StepKeepsTheBiggest, PTL DEF Spec, KeepsTheBiggest

-----------------------------------------------------------------------------
(* Resize *)

\* A set of numbers has a least one.
LEMMA LeastOf ==
    ASSUME NEW T, T \subseteq Nat, T # {}
    PROVE  \E least \in T : \A t \in T : least <= t
<1> DEFINE R == OpToRel(<, Nat)
<1>1. \E x \in T : \A y \in T : <<y, x>> \notin R
  BY NatLessThanWellFounded, WFMin
<1>2. \A x, y \in T : y < x => <<y, x>> \in R
  BY DEF OpToRel
<1> HIDE DEF R
<1>3. PICK least \in T : \A t \in T : ~(t < least)
  BY <1>1, <1>2
<1> QED
  BY <1>3

\* Max finds the largest of a set of indices.
LEMMA LargestOf ==
    ASSUME NEW n \in Nat, NEW S \in SUBSET (1..n), S # {}
    PROVE  Max(S) \in S /\ \A i \in S : i <= Max(S)
<1> DEFINE T == {n - i : i \in S}
<1>1. T # {} /\ T \subseteq Nat
  <2>1. \A i \in S : n - i \in Nat
    OBVIOUS
  <2> QED
    BY <2>1
<1>2. PICK least \in T : \A t \in T : least <= t
  BY <1>1, LeastOf
<1>3. PICK m \in S : least = n - m
  BY <1>2
<1>4. \A i \in S : i <= m
  <2> SUFFICES ASSUME NEW i \in S PROVE i <= m
    OBVIOUS
  <2>1. n - i \in T
    OBVIOUS
  <2>2. n - m <= n - i
    BY <1>2, <1>3, <2>1
  <2> QED
    BY <2>2
<1>5. \E i \in S : \A j \in S : i >= j
  BY <1>4
<1> QED
  BY <1>5 DEF Max

\* A drawable that covers a cell, and the last of them
Newest(q, c, i) ==
    /\ i \in DOMAIN q /\ c \in DOMAIN q[i]
    /\ \A j \in DOMAIN q : c \in DOMAIN q[j] => j <= i

\* What a picture shows of a cell when what is queued has been rendered.
Shows(q, picture, c, value) ==
    /\ \A i \in DOMAIN q : Newest(q, c, i) => q[i][c] = value
    /\ (\A i \in DOMAIN q : c \notin DOMAIN q[i]) => picture[c] = value

\* Rendering the first drawable changes nothing of that ...
LEMMA ShowsRendered ==
    ASSUME NEW S, NEW q \in Seq(S), q # <<>>, NEW picture, NEW c \in DOMAIN picture, NEW value,
           Shows(q, picture, c, value)
    PROVE  Shows(Tail(q), Paint(picture, Head(q)), c, value)
<1> DEFINE t == Tail(q)
<1>1. /\ Head(q) = q[1] /\ 1 \in DOMAIN q
      /\ \A i \in DOMAIN t : i \in Nat /\ i > 0 /\ i + 1 \in DOMAIN q /\ t[i] = q[i + 1]
      /\ \A i \in DOMAIN q : i \in Nat /\ (i = 1 \/ i - 1 \in DOMAIN t)
  OBVIOUS
<1> HIDE DEF t
<1>2. ASSUME NEW i \in DOMAIN q, i # 1 PROVE i - 1 \in DOMAIN t /\ t[i - 1] = q[i] /\ i \in Nat
  <2>1. i - 1 \in DOMAIN t /\ i \in Nat
    BY <1>1, <1>2
  <2>2. t[i - 1] = q[(i - 1) + 1]
    BY <1>1, <2>1
  <2> QED
    BY <2>1, <2>2
<1>3. ASSUME NEW i \in DOMAIN t, Newest(t, c, i) PROVE t[i][c] = value
  <2>1. \A j \in DOMAIN q : c \in DOMAIN q[j] => j <= i + 1
    <3> SUFFICES ASSUME NEW j \in DOMAIN q, c \in DOMAIN q[j], j # 1 PROVE j <= i + 1
      BY <1>1
    <3>1. j - 1 \in DOMAIN t /\ t[j - 1] = q[j] /\ j \in Nat
      BY <1>2
    <3>2. j - 1 <= i
      BY <1>3, <3>1 DEF Newest
    <3> QED
      BY <1>1, <3>1, <3>2
  <2>2. Newest(q, c, i + 1)
    BY <1>1, <1>3, <2>1 DEF Newest
  <2> QED
    BY <1>1, <2>2 DEF Shows
<1>4. ASSUME \A i \in DOMAIN t : c \notin DOMAIN t[i] PROVE Paint(picture, q[1])[c] = value
  <2>1. \A i \in DOMAIN q : i # 1 => c \notin DOMAIN q[i]
    BY <1>2, <1>4
  <2>2. CASE c \in DOMAIN q[1]
    <3>1. Newest(q, c, 1)
      BY <1>1, <2>1, <2>2 DEF Newest
    <3>2. q[1][c] = value
      BY <1>1, <3>1 DEF Shows
    <3> QED
      BY <2>2, <3>2 DEF Paint
  <2>3. CASE c \notin DOMAIN q[1]
    <3>1. picture[c] = value
      BY <1>1, <2>1, <2>3 DEF Shows
    <3> QED
      BY <2>3, <3>1 DEF Paint
  <2> QED
    BY <2>2, <2>3
<1> QED
  BY <1>1, <1>3, <1>4 DEF Shows, t

\* ... and one more drawable is seen wherever it covers.
LEMMA ShowsQueued ==
    ASSUME NEW S, NEW q \in Seq(S), NEW d \in S, NEW picture, NEW c, NEW value,
           IF c \in DOMAIN d THEN d[c] = value ELSE Shows(q, picture, c, value)
    PROVE  Shows(Append(q, d), picture, c, value)
<1> DEFINE u == Append(q, d)
           n == Len(q) + 1
<1>1. /\ n \in DOMAIN u /\ u[n] = d /\ n \in Nat
      /\ \A i \in DOMAIN q : i \in DOMAIN u /\ u[i] = q[i]
      /\ \A i \in DOMAIN u : i \in Nat /\ i <= n /\ (i = n \/ i \in DOMAIN q)
  OBVIOUS
<1> HIDE DEF u, n
<1>2. CASE c \in DOMAIN d
  <2>1. \A i \in DOMAIN u : Newest(u, c, i) => i = n
    BY <1>1, <1>2 DEF Newest
  <2> QED
    BY <1>1, <1>2, <2>1 DEF Shows, u
<1>3. CASE c \notin DOMAIN d
  <2>1. \A i \in DOMAIN u : Newest(u, c, i) => i \in DOMAIN q /\ Newest(q, c, i)
    BY <1>1, <1>3 DEF Newest
  <2> QED
    BY <1>1, <1>3, <2>1 DEF Shows, u
<1> QED
  BY <1>2, <1>3

\* That is what Coming computes.
LEMMA ShowsComing ==
    ASSUME ResizeTypeOK, NEW c, NEW value,
           IF scanner = "draw" /\ c \in cur THEN img[c] = value
           ELSE Shows(draw_queue, client, c, value)
    PROVE  Coming(c) = value
<1> DEFINE covering == {i \in DOMAIN draw_queue : c \in DOMAIN draw_queue[i]}
<1>1. CASE scanner = "draw" /\ c \in cur
  BY <1>1 DEF Coming
<1>2. CASE ~(scanner = "draw" /\ c \in cur) /\ covering # {}
  <2>1. draw_queue \in Seq(Image)
    BY DEF ResizeTypeOK
  <2>2. Len(draw_queue) \in Nat /\ DOMAIN draw_queue = 1..Len(draw_queue)
    BY <2>1
  <2>3. Max(covering) \in covering /\ \A i \in covering : i <= Max(covering)
    BY <1>2, <2>2, LargestOf
  <2>4. Newest(draw_queue, c, Max(covering))
    BY <2>3 DEF Newest
  <2> QED
    BY <1>2, <2>3, <2>4 DEF Coming, Shows
<1>3. CASE ~(scanner = "draw" /\ c \in cur) /\ covering = {}
  BY <1>3 DEF Coming, Shows
<1> QED
  BY <1>1, <1>2, <1>3

\* Where changes of size are among the events
Changes == {i \in DOMAIN xevents : IsConfigure(xevents[i])}
\* The size told last, or announced by an event
Announced(told, events, i) == IF i = 0 THEN told ELSE events[i].configure

\* No change is announced twice in a row, and the last one is the screen's size.
ChangesFollow ==
    /\ \A i, j \in {0} \cup Changes :
          i < j /\ (\A k \in Changes : k <= i \/ j <= k) =>
             Announced(display_size, xevents, i) # Announced(display_size, xevents, j)
    /\ \A i \in {0} \cup Changes :
          (\A k \in Changes : k <= i) => Announced(display_size, xevents, i) = screen_size

\* A recreation is due when sizes differ, and only then.
RecreationDue == event = "wait" <=> display_size = spice_size

\* An image in hand that does not fit this copy fits one to come, unless nothing is in it yet.
ImageFits ==
    scanner = "copy" /\ fresh # {} =>
        \/ cur \subseteq spice_size \/ cur \subseteq display_size
        \/ \E i \in Changes : cur \subseteq xevents[i].configure

\* What the client will show of a cell, as Coming has it
WillShow(c, value) ==
    IF scanner = "draw" /\ c \in cur THEN img[c] = value
    ELSE Shows(draw_queue, client, c, value)

FreshWillShow == Settled => \A c \in fresh : WillShow(c, fullscreen[c])

ResizeInv == ResizeTypeOK /\ ChangesFollow /\ RecreationDue /\ ImageFits /\ FreshWillShow

LEMMA QueueTypes ==
    ASSUME NEW S, NEW s \in Seq(S), NEW x \in S
    PROVE  /\ Append(s, x) \in Seq(S)
           /\ s # <<>> => Head(s) \in S /\ Tail(s) \in Seq(S)
  OBVIOUS

LEMMA PaintType ==
    ASSUME NEW base, NEW picture \in Pictures(base), NEW image \in Image
    PROVE  Paint(picture, image) \in Pictures(base)
<1>1. PICK area \in SUBSET Cells : image \in [area -> Colours]
  BY DEF Image, Pictures
<1>2. picture \in [base -> Colours]
  BY DEF Pictures
<1>3. \A c \in base : (IF c \in DOMAIN image THEN image[c] ELSE picture[c]) \in Colours
  BY <1>1, <1>2
<1> QED
  BY <1>2, <1>3 DEF Paint, Pictures

LEMMA PushedType ==
    ASSUME NEW reports \in Seq(SUBSET Cells), NEW report \in SUBSET Cells
    PROVE  Pushed(reports, report) \in Seq(SUBSET Cells)
  BY QueueTypes DEF Pushed

LEMMA EventKinds ==
    /\ \A e \in XEvent : IsConfigure(e) => e.configure \in ScreenSizes
    /\ \A e \in XEvent : ~IsConfigure(e) => e.damage \in SUBSET Cells
    /\ \A area \in SUBSET Cells : [damage |-> area] \in XEvent /\ ~IsConfigure([damage |-> area])
    /\ \A new \in ScreenSizes :
          /\ [configure |-> new] \in XEvent /\ IsConfigure([configure |-> new])
          /\ [configure |-> new].configure = new
<1>1. \A e \in [damage : SUBSET Cells] : ~IsConfigure(e) /\ e.damage \in SUBSET Cells
  BY DEF IsConfigure
<1>2. \A e \in [configure : ScreenSizes] : IsConfigure(e) /\ e.configure \in ScreenSizes
  BY DEF IsConfigure
<1>3. \A area \in SUBSET Cells : [damage |-> area] \in [damage : SUBSET Cells]
  OBVIOUS
<1>4. \A new \in ScreenSizes :
         /\ [configure |-> new] \in [configure : ScreenSizes]
         /\ [configure |-> new].configure = new
  OBVIOUS
<1> QED
  BY <1>1, <1>2, <1>3, <1>4 DEF XEvent

LEMMA SizesAreCells == \A new \in ScreenSizes : new \in SUBSET Cells
  BY DEF Cells

LEMMA ResizeInitInv == ResizeInit => ResizeInv
<1> SUFFICES ASSUME ResizeInit PROVE ResizeInv
  OBVIOUS
<1>1. ResizeTypeOK
  <2>1. fullscreen \in Pictures(screen_size) /\ DOMAIN fullscreen = screen_size
    BY ResizeAssumption DEF ResizeInit, Pictures
  <2>2. screen \in Pictures(Cells)
    BY ResizeAssumption DEF ResizeInit
  <2>3. <<>> \in Seq(XEvent) /\ <<>> \in Seq(SUBSET Cells) /\ <<>> \in Seq(Image)
    OBVIOUS
  <2>4. 0 \in 0..MaxDrawings /\ 0 \in 0..MaxResizes
    BY ResizeAssumption
  <2> QED
    BY <2>1, <2>2, <2>3, <2>4 DEF ResizeInit, ResizeTypeOK, spice_size
<1>2. Changes = {}
  BY DEF ResizeInit, Changes
<1>3. ChangesFollow /\ RecreationDue
  BY <1>2 DEF ResizeInit, ChangesFollow, RecreationDue, Announced, spice_size
<1>4. ImageFits
  BY DEF ResizeInit, ImageFits
<1>5. FreshWillShow
  <2>1. \A c \in fresh : fullscreen[c] = client[c] /\ scanner = "pop" /\ draw_queue = <<>>
    BY DEF ResizeInit
  <2> QED
    BY <2>1 DEF FreshWillShow, WillShow, Shows, Newest
<1> QED
  BY <1>1, <1>3, <1>4, <1>5 DEF ResizeInv

LEMMA EventsStay ==
    ASSUME UNCHANGED <<xevents, display_size, screen_size>>
    PROVE  Changes' = Changes /\ (ChangesFollow' <=> ChangesFollow)
<1>1. Changes' = Changes
  BY DEF Changes, IsConfigure
<1> QED
  BY <1>1 DEF ChangesFollow, Announced

\* Damage is put at the end ...
LEMMA DamageSent ==
    ASSUME ResizeInv, UNCHANGED <<display_size, screen_size>>, NEW area \in SUBSET Cells,
           xevents' = Append(xevents, [damage |-> area])
    PROVE  /\ Changes' = Changes /\ \A i \in Changes : xevents'[i] = xevents[i]
           /\ ChangesFollow' /\ xevents' \in Seq(XEvent)
<1>1. xevents \in Seq(XEvent) /\ [damage |-> area] \in XEvent /\ ~IsConfigure([damage |-> area])
  BY EventKinds DEF ResizeInv, ResizeTypeOK
<1>2. /\ xevents' \in Seq(XEvent) /\ Len(xevents) \in Nat
      /\ DOMAIN xevents' = 1..(Len(xevents) + 1) /\ DOMAIN xevents = 1..Len(xevents)
      /\ xevents'[Len(xevents) + 1] = [damage |-> area]
      /\ \A i \in DOMAIN xevents : xevents'[i] = xevents[i] /\ i \in DOMAIN xevents'
  BY <1>1
<1>3. \A i \in DOMAIN xevents' : i \in DOMAIN xevents \/ i = Len(xevents) + 1
  BY <1>2
<1>4. Changes' = Changes
  <2>1. Changes' = {i \in DOMAIN xevents' : IsConfigure(xevents'[i])}
    BY DEF Changes
  <2> QED
    BY <1>1, <1>2, <1>3, <2>1 DEF Changes
<1>5. \A i \in Changes : xevents'[i] = xevents[i]
  BY <1>2 DEF Changes
<1>6. \A i \in {0} \cup Changes :
         Announced(display_size', xevents', i) = Announced(display_size, xevents, i)
  BY <1>5 DEF Announced
<1>7. ChangesFollow'
  BY <1>4, <1>6 DEF ResizeInv, ChangesFollow
<1> QED
  BY <1>2, <1>4, <1>5, <1>7

\* ... and so is a change of size, behind damage or not, to another than the last one announced.
LEMMA ChangeSent ==
    ASSUME ResizeTypeOK, ChangesFollow,
           UNCHANGED display_size, screen_size' \in ScreenSizes \ {screen_size},
           NEW before \in Seq(XEvent), xevents' = Append(before, [configure |-> screen_size']),
           \A i \in DOMAIN xevents : i \in DOMAIN before /\ before[i] = xevents[i],
           \A i \in DOMAIN before : i \in DOMAIN xevents \/ ~IsConfigure(before[i])
    PROVE  /\ Changes' # {} /\ Changes \subseteq Changes'
           /\ \A i \in Changes : xevents'[i] = xevents[i]
           /\ ChangesFollow' /\ xevents' \in Seq(XEvent)
<1> DEFINE e == [configure |-> screen_size']
           n == Len(before) + 1
<1>1. /\ xevents \in Seq(XEvent) /\ e \in XEvent /\ IsConfigure(e)
      /\ e.configure = screen_size'
  BY EventKinds DEF ResizeTypeOK
<1> HIDE DEF e
<1>2. /\ xevents' \in Seq(XEvent) /\ n \in Nat
      /\ xevents'[n] = e /\ n \in DOMAIN xevents'
      /\ \A i \in DOMAIN before : xevents'[i] = before[i] /\ i \in DOMAIN xevents' /\ i < n
      /\ DOMAIN xevents \subseteq Nat /\ 0 \notin DOMAIN xevents
      /\ \A i \in DOMAIN xevents' : i \in DOMAIN before \/ i = n
  BY <1>1 DEF e
<1> HIDE DEF n
<1>3. Changes' = Changes \cup {n}
  <2>1. Changes' = {i \in DOMAIN xevents' : IsConfigure(xevents'[i])}
    BY DEF Changes
  <2> QED
    BY <1>1, <1>2, <2>1 DEF Changes
<1>4. \A i \in Changes : xevents'[i] = xevents[i] /\ i < n /\ i \in Nat /\ i # 0
  BY <1>2 DEF Changes
<1>5. \A i \in {0} \cup Changes :
         Announced(display_size', xevents', i) = Announced(display_size, xevents, i)
  BY <1>4 DEF Announced
<1>6. Announced(display_size', xevents', n) = screen_size' /\ n # 0
  BY <1>1, <1>2, <1>4 DEF Announced, n, ResizeTypeOK
<1>7. ASSUME NEW i \in {0} \cup Changes', \A k \in Changes' : k <= i
      PROVE  Announced(display_size', xevents', i) = screen_size'
  <2>1. i = n
    BY <1>2, <1>3, <1>4, <1>7
  <2> QED
    BY <1>6, <2>1
<1>8. ASSUME NEW i \in {0} \cup Changes', NEW j \in {0} \cup Changes', i < j,
             \A k \in Changes' : k <= i \/ j <= k
      PROVE  Announced(display_size', xevents', i) # Announced(display_size', xevents', j)
  <2>1. i \in {0} \cup Changes /\ i \in Nat
    BY <1>2, <1>3, <1>4, <1>8
  <2>2. CASE j = n
    <3>1. \A k \in Changes : k <= i
      BY <1>2, <1>3, <1>4, <1>8, <2>1, <2>2
    <3>2. Announced(display_size, xevents, i) = screen_size
      BY <2>1, <3>1 DEF ChangesFollow
    <3> QED
      BY <1>5, <1>6, <2>1, <2>2, <3>2
  <2>3. CASE j # n
    <3>1. j \in {0} \cup Changes /\ \A k \in Changes : k <= i \/ j <= k
      BY <1>3, <1>8, <2>3
    <3> QED
      BY <1>5, <1>8, <2>1, <3>1 DEF ChangesFollow
  <2> QED
    BY <2>2, <2>3
<1>9. ChangesFollow'
  BY <1>7, <1>8 DEF ChangesFollow
<1> QED
  BY <1>2, <1>3, <1>4, <1>9

\* An event is taken from the front: the others move up.
LEMMA EventTaken ==
    ASSUME ResizeTypeOK, xevents # <<>>, xevents' = Tail(xevents)
    PROVE  /\ xevents' \in Seq(XEvent) /\ Head(xevents) \in XEvent /\ Head(xevents) = xevents[1]
           /\ Changes' \subseteq Nat \ {0} /\ Changes \subseteq Nat \ {0}
           /\ (1 \in Changes <=> IsConfigure(Head(xevents)))
           /\ \A i \in Changes' : i + 1 \in Changes /\ xevents'[i] = xevents[i + 1]
           /\ \A i \in Changes : i = 1 \/ i - 1 \in Changes'
<1>1. xevents \in Seq(XEvent)
  BY DEF ResizeTypeOK
<1>2. /\ xevents' \in Seq(XEvent) /\ Head(xevents) \in XEvent /\ Head(xevents) = xevents[1]
      /\ 1 \in DOMAIN xevents
      /\ \A i \in DOMAIN xevents' :
            i \in Nat \ {0} /\ i + 1 \in DOMAIN xevents /\ xevents'[i] = xevents[i + 1]
      /\ \A i \in DOMAIN xevents : i \in Nat \ {0} /\ (i = 1 \/ i - 1 \in DOMAIN xevents')
  BY <1>1
<1>3. Changes' = {i \in DOMAIN xevents' : IsConfigure(xevents'[i])}
  BY DEF Changes
<1>4. ASSUME NEW i \in Changes, i # 1 PROVE i - 1 \in Changes'
  <2>1. i \in DOMAIN xevents /\ i \in Nat /\ i - 1 \in DOMAIN xevents'
    BY <1>2, <1>4 DEF Changes
  <2>2. xevents'[i - 1] = xevents[(i - 1) + 1] /\ (i - 1) + 1 = i
    BY <1>2, <2>1
  <2> QED
    BY <1>3, <2>1, <2>2 DEF Changes
<1>5. \A i \in Changes' : i + 1 \in Changes /\ xevents'[i] = xevents[i + 1]
  BY <1>2, <1>3 DEF Changes
<1>6. Changes' \subseteq Nat \ {0} /\ Changes \subseteq Nat \ {0}
  BY <1>2, <1>3 DEF Changes
<1>7. 1 \in Changes <=> IsConfigure(Head(xevents))
  BY <1>2 DEF Changes
<1> QED
  BY <1>2, <1>4, <1>5, <1>6, <1>7

LEMMA DamageTaken ==
    ASSUME ResizeTypeOK, ChangesFollow, xevents # <<>>, xevents' = Tail(xevents),
           ~IsConfigure(Head(xevents)), UNCHANGED <<display_size, screen_size>>
    PROVE  ChangesFollow'
<1> DEFINE Before(i) == IF i = 0 THEN 0 ELSE i + 1
<1>1. /\ Changes' \subseteq Nat \ {0} /\ Changes \subseteq Nat \ {0}
      /\ 1 \notin Changes
      /\ \A i \in Changes' : i + 1 \in Changes /\ xevents'[i] = xevents[i + 1]
      /\ \A i \in Changes : i = 1 \/ i - 1 \in Changes'
  BY EventTaken
<1>2. \A i \in {0} \cup Changes' :
         /\ Before(i) \in {0} \cup Changes
         /\ Announced(display_size', xevents', i) = Announced(display_size, xevents, Before(i))
         /\ i \in Nat /\ Before(i) \in Nat
  <2> SUFFICES ASSUME NEW i \in {0} \cup Changes'
               PROVE  /\ Before(i) \in {0} \cup Changes
                      /\ Announced(display_size', xevents', i)
                            = Announced(display_size, xevents, Before(i))
                      /\ i \in Nat /\ Before(i) \in Nat
    OBVIOUS
  <2>1. CASE i = 0
    BY <2>1 DEF Announced
  <2>2. CASE i # 0
    <3>1. /\ i \in Nat /\ Before(i) \in Nat /\ Before(i) \in Changes /\ Before(i) # 0
          /\ xevents'[i] = xevents[Before(i)]
      BY <1>1, <2>2
    <3> HIDE DEF Before
    <3> QED
      BY <2>2, <3>1 DEF Announced
  <2> QED
    BY <2>1, <2>2
<1>3. \A i, j \in {0} \cup Changes' : i < j => Before(i) < Before(j)
  BY <1>1
<1>4. ASSUME NEW i \in {0} \cup Changes', NEW k \in Changes PROVE k - 1 <= i => k <= Before(i)
  <2>1. k \in Nat /\ k # 0 /\ k # 1 /\ i \in Nat
    BY <1>1
  <2> QED
    BY <2>1
<1>5. ASSUME NEW i \in {0} \cup Changes', \A k \in Changes' : k <= i
      PROVE  Announced(display_size', xevents', i) = screen_size'
  <2>1. \A k \in Changes : k <= Before(i)
    BY <1>1, <1>4, <1>5
  <2> HIDE DEF Before
  <2> QED
    BY <1>2, <2>1 DEF ChangesFollow
<1>6. ASSUME NEW i \in {0} \cup Changes', NEW j \in {0} \cup Changes', i < j,
             \A k \in Changes' : k <= i \/ j <= k
      PROVE  Announced(display_size', xevents', i) # Announced(display_size', xevents', j)
  <2>1. \A k \in Changes : k <= Before(i) \/ Before(j) <= k
    <3> SUFFICES ASSUME NEW k \in Changes PROVE k <= Before(i) \/ Before(j) <= k
      OBVIOUS
    <3>1. k - 1 \in Changes' /\ k \in Nat /\ j # 0 /\ j \in Nat /\ i \in Nat
      BY <1>1, <1>6
    <3>2. k - 1 <= i \/ j <= k - 1
      BY <1>6, <3>1
    <3> QED
      BY <1>4, <3>1, <3>2
  <2>2. Before(i) < Before(j)
    BY <1>3, <1>6
  <2> HIDE DEF Before
  <2> QED
    BY <1>2, <2>1, <2>2 DEF ChangesFollow
<1> QED
  BY <1>5, <1>6 DEF ChangesFollow

LEMMA ChangeTaken ==
    ASSUME ResizeTypeOK, ChangesFollow, xevents # <<>>, xevents' = Tail(xevents),
           IsConfigure(Head(xevents)), display_size' = Head(xevents).configure,
           UNCHANGED screen_size
    PROVE  ChangesFollow' /\ display_size' # display_size
<1>1. /\ Changes' \subseteq Nat \ {0} /\ Changes \subseteq Nat \ {0}
      /\ 1 \in Changes /\ Head(xevents) = xevents[1]
      /\ \A i \in Changes' : i + 1 \in Changes /\ xevents'[i] = xevents[i + 1]
      /\ \A i \in Changes : i = 1 \/ i - 1 \in Changes'
  BY EventTaken
<1>2. \A i \in {0} \cup Changes' :
         /\ i + 1 \in {0} \cup Changes /\ i \in Nat
         /\ Announced(display_size', xevents', i) = Announced(display_size, xevents, i + 1)
  <2> SUFFICES ASSUME NEW i \in {0} \cup Changes'
               PROVE  /\ i + 1 \in {0} \cup Changes /\ i \in Nat
                      /\ Announced(display_size', xevents', i) = Announced(display_size, xevents, i + 1)
    OBVIOUS
  <2>1. CASE i = 0
    BY <1>1, <2>1 DEF Announced
  <2>2. CASE i # 0
    <3>1. i \in Nat /\ i + 1 \in Changes /\ i + 1 # 0 /\ xevents'[i] = xevents[i + 1]
      BY <1>1, <2>2
    <3> QED
      BY <2>2, <3>1 DEF Announced
  <2> QED
    BY <2>1, <2>2
<1>3. ASSUME NEW i \in {0} \cup Changes', \A k \in Changes' : k <= i
      PROVE  Announced(display_size', xevents', i) = screen_size'
  <2>1. \A k \in Changes : k <= i + 1
    <3> SUFFICES ASSUME NEW k \in Changes, k # 1 PROVE k <= i + 1
      BY <1>2
    <3>1. k - 1 <= i /\ k \in Nat /\ i \in Nat
      BY <1>1, <1>3
    <3> QED
      BY <3>1
  <2> QED
    BY <1>2, <2>1 DEF ChangesFollow
<1>4. ASSUME NEW i \in {0} \cup Changes', NEW j \in {0} \cup Changes', i < j,
             \A k \in Changes' : k <= i \/ j <= k
      PROVE  Announced(display_size', xevents', i) # Announced(display_size', xevents', j)
  <2>1. \A k \in Changes : k <= i + 1 \/ j + 1 <= k
    <3> SUFFICES ASSUME NEW k \in Changes, k # 1 PROVE k <= i + 1 \/ j + 1 <= k
      BY <1>2
    <3>1. (k - 1 <= i \/ j <= k - 1) /\ k \in Nat /\ i \in Nat /\ j \in Nat
      BY <1>1, <1>2, <1>4
    <3> QED
      BY <3>1
  <2>2. i + 1 < j + 1
    BY <1>2, <1>4
  <2> QED
    BY <1>2, <2>1, <2>2 DEF ChangesFollow
<1>5. Announced(display_size, xevents, 0) # Announced(display_size, xevents, 1)
  <2>1. 0 < 1 /\ \A k \in Changes : k <= 0 \/ 1 <= k
    BY <1>1
  <2> QED
    BY <1>1, <2>1 DEF ChangesFollow
<1> QED
  BY <1>1, <1>3, <1>4, <1>5 DEF ChangesFollow, Announced

LEMMA SettledHas ==
    /\ Settled <=> event = "wait" /\ screen_size = spice_size /\ Changes = {}
    /\ Settled' <=> event' = "wait" /\ screen_size' = spice_size' /\ Changes' = {}
<1>1. Settled <=> event = "wait" /\ screen_size = spice_size /\ Changes = {}
  BY DEF Settled, Changes
<1>2. Settled' <=> event' = "wait" /\ screen_size' = spice_size' /\ Changes' = {}
  BY DEF Settled, Changes
<1> QED
  BY <1>1, <1>2

\* What the scanner and the worker leave alone shows what it showed.
LEMMA PictureStays ==
    ASSUME ResizeInv, UNCHANGED <<scanVars, imageVars, outVars>>, Settled' => Settled
    PROVE  FreshWillShow'
<1>1. \A c, value : WillShow(c, value)' <=> WillShow(c, value)
  BY DEF WillShow, scanVars, outVars, Shows, Newest
<1>2. fresh' = fresh /\ fullscreen' = fullscreen
  BY DEF imageVars
<1> QED
  BY <1>1, <1>2 DEF ResizeInv, FreshWillShow

LEMMA XDrawKeeps ==
    ASSUME ResizeInv, XDraw PROVE ResizeInv'
<1> USE DEF ResizeInv
<1>1. PICK area \in Areas, colour \in Colours :
         /\ area \subseteq screen_size
         /\ screen' = [c \in Cells |-> IF c \in area THEN colour ELSE screen[c]]
         /\ xevents' = Append(xevents, [damage |-> area])
  BY DEF XDraw
<1>2. /\ UNCHANGED <<screen_size, resizes, display_size, event, queue, scanVars, imageVars, outVars>>
      /\ drawings' \in 0..MaxDrawings
  <2>1. drawings \in 0..MaxDrawings /\ drawings < MaxDrawings /\ drawings' = drawings + 1
    BY DEF XDraw, ResizeTypeOK
  <2> QED
    BY <2>1, ResizeAssumption DEF XDraw, eventVars
<1>3. /\ Changes' = Changes /\ \A i \in Changes : xevents'[i] = xevents[i]
      /\ ChangesFollow' /\ xevents' \in Seq(XEvent)
  <2>1. area \in SUBSET Cells
    BY <1>1, SizesAreCells DEF ResizeTypeOK
  <2> QED
    BY <1>1, <1>2, <2>1, DamageSent
<1>4. ResizeTypeOK'
  <2>1. screen' \in Pictures(Cells)
    <3>1. screen \in [Cells -> Colours]
      BY DEF ResizeTypeOK, Pictures
    <3> QED
      BY <1>1, <3>1 DEF Pictures
  <2> QED
    BY <1>2, <1>3, <2>1 DEF ResizeTypeOK, scanVars, imageVars, outVars, spice_size
<1>5. RecreationDue'
  BY <1>2 DEF RecreationDue, imageVars, spice_size
<1>6. ImageFits'
  BY <1>2, <1>3 DEF ImageFits, scanVars, imageVars, spice_size
<1>7. FreshWillShow'
  <2>1. Settled' => Settled
    BY <1>2, <1>3, SettledHas DEF imageVars, spice_size
  <2> QED
    BY <1>2, <2>1, PictureStays
<1> QED
  BY <1>3, <1>4, <1>5, <1>6, <1>7

LEMMA XResizesKeeps ==
    ASSUME ResizeInv, XResizes PROVE ResizeInv'
<1> USE DEF ResizeInv
<1>1. /\ UNCHANGED <<screen, display_size, event, queue, scanVars, imageVars, outVars>>
      /\ resizes' \in 0..MaxResizes
      /\ screen_size' \in ScreenSizes \ {screen_size}
  <2>1. resizes \in 0..MaxResizes /\ resizes < MaxResizes /\ resizes' = resizes + 1
    BY DEF XResizes, ResizeTypeOK
  <2> QED
    BY <2>1, ResizeAssumption DEF XResizes, eventVars
<1>2. /\ drawings' \in 0..MaxDrawings
      /\ \/ xevents' = Append(xevents, [configure |-> screen_size'])
         \/ xevents' = xevents \o <<[damage |-> screen_size'], [configure |-> screen_size']>>
  <2>1. drawings \in 0..MaxDrawings /\ (drawings < MaxDrawings => drawings + 1 \in 0..MaxDrawings)
    BY ResizeAssumption DEF ResizeTypeOK
  <2>2. drawings' = drawings \/ (drawings < MaxDrawings /\ drawings' = drawings + 1)
    BY DEF XResizes
  <2>3. \/ xevents' = Append(xevents, [configure |-> screen_size'])
        \/ xevents' = xevents \o <<[damage |-> screen_size'], [configure |-> screen_size']>>
    BY DEF XResizes
  <2> QED
    BY <2>1, <2>2, <2>3
<1>3. /\ Changes' # {} /\ Changes \subseteq Changes' /\ \A i \in Changes : xevents'[i] = xevents[i]
      /\ ChangesFollow' /\ xevents' \in Seq(XEvent)
  <2>1. xevents \in Seq(XEvent)
    BY DEF ResizeTypeOK
  <2>2. CASE xevents' = Append(xevents, [configure |-> screen_size'])
    BY <1>1, <2>1, <2>2, ChangeSent
  <2>3. CASE xevents' = xevents \o <<[damage |-> screen_size'], [configure |-> screen_size']>>
    <3> DEFINE d == [damage |-> screen_size']
               e == [configure |-> screen_size']
    <3>1. d \in XEvent /\ e \in XEvent /\ ~IsConfigure(d)
      BY <1>1, EventKinds, SizesAreCells
    <3>2. xevents' = xevents \o <<d, e>>
      BY <2>3
    <3> HIDE DEF d, e
    <3>3. /\ Append(xevents, d) \in Seq(XEvent) /\ xevents' = Append(Append(xevents, d), e)
          /\ \A i \in DOMAIN xevents :
                i \in DOMAIN Append(xevents, d) /\ Append(xevents, d)[i] = xevents[i]
          /\ \A i \in DOMAIN Append(xevents, d) :
                i \in DOMAIN xevents \/ Append(xevents, d)[i] = d
      BY <2>1, <3>1, <3>2
    <3> QED
      BY <1>1, <3>1, <3>3, ChangeSent DEF e
  <2> QED
    BY <1>2, <2>2, <2>3
<1>4. ResizeTypeOK'
  BY <1>1, <1>2, <1>3 DEF ResizeTypeOK, scanVars, imageVars, outVars, spice_size
<1>5. RecreationDue'
  BY <1>1 DEF RecreationDue, imageVars, spice_size
<1>6. ImageFits'
  BY <1>1, <1>3 DEF ImageFits, scanVars, imageVars, spice_size
<1>7. FreshWillShow'
  BY <1>1, <1>3, SettledHas, PictureStays
<1> QED
  BY <1>3, <1>4, <1>5, <1>6, <1>7

LEMMA HandleDamageNotifyKeeps ==
    ASSUME ResizeInv, HandleDamageNotify PROVE ResizeInv'
<1> USE DEF ResizeInv
<1>1. /\ UNCHANGED <<screen_size, screen, drawings, resizes, display_size, event>>
      /\ UNCHANGED <<scanVars, imageVars, outVars>>
      /\ xevents # <<>> /\ xevents' = Tail(xevents) /\ ~IsConfigure(Head(xevents))
  BY DEF HandleDamageNotify, eventVars
<1>2. /\ xevents' \in Seq(XEvent) /\ Head(xevents) \in XEvent
      /\ Changes' \subseteq Nat \ {0} /\ 1 \notin Changes
      /\ \A i \in Changes : i - 1 \in Changes' /\ xevents'[i - 1] = xevents[i]
  <2>1. /\ xevents' \in Seq(XEvent) /\ Head(xevents) \in XEvent
        /\ Changes' \subseteq Nat \ {0} /\ Changes \subseteq Nat \ {0} /\ 1 \notin Changes
        /\ \A i \in Changes' : i + 1 \in Changes /\ xevents'[i] = xevents[i + 1]
        /\ \A i \in Changes : i = 1 \/ i - 1 \in Changes'
    BY <1>1, EventTaken
  <2>2. ASSUME NEW i \in Changes PROVE i - 1 \in Changes' /\ xevents'[i - 1] = xevents[i]
    <3>1. i - 1 \in Changes' /\ (i - 1) + 1 = i
      BY <2>1
    <3> QED
      BY <2>1, <3>1
  <2> QED
    BY <2>1, <2>2
<1>3. ChangesFollow'
  BY <1>1, DamageTaken
<1>4. queue' \in Seq(SUBSET Cells)
  <2>1. Head(xevents).damage \in SUBSET Cells /\ {} \in SUBSET Cells
    BY <1>1, <1>2, EventKinds
  <2> QED
    BY <2>1, PushedType DEF HandleDamageNotify, ResizeTypeOK
<1>5. ResizeTypeOK'
  BY <1>1, <1>2, <1>4 DEF ResizeTypeOK, scanVars, imageVars, outVars, spice_size
<1>6. RecreationDue'
  BY <1>1 DEF RecreationDue, imageVars, spice_size
<1>7. ImageFits'
  <2>1. \A i \in Changes :
           cur \subseteq xevents[i].configure => \E j \in Changes' : cur \subseteq xevents'[j].configure
    BY <1>2
  <2>2. UNCHANGED <<scanner, cur, fresh, spice_size, display_size>>
    BY <1>1 DEF scanVars, imageVars, spice_size
  <2> QED
    BY <2>1, <2>2 DEF ImageFits
<1>8. FreshWillShow'
  <2>1. Settled' => Settled
    <3>1. Changes' = {} => Changes = {}
      BY <1>2
    <3> QED
      BY <1>1, <3>1, SettledHas DEF imageVars, spice_size
  <2> QED
    BY <1>1, <2>1, PictureStays
<1> QED
  BY <1>3, <1>5, <1>6, <1>7, <1>8

\* A size that is announced was another: a recreation is due.
LEMMA HandleConfigureNotifyKeeps ==
    ASSUME ResizeInv, HandleConfigureNotify PROVE ResizeInv'
<1> USE DEF ResizeInv
<1>1. /\ UNCHANGED <<screen_size, screen, drawings, resizes, queue, scanVars, imageVars, outVars>>
      /\ xevents # <<>> /\ xevents' = Tail(xevents) /\ IsConfigure(Head(xevents))
      /\ display_size' = Head(xevents).configure /\ event = "wait"
      /\ event' = IF display_size' = spice_size THEN "wait" ELSE "flush"
  BY DEF HandleConfigureNotify
<1>2. /\ xevents' \in Seq(XEvent) /\ Head(xevents) \in XEvent /\ Head(xevents) = xevents[1]
      /\ Changes' \subseteq Nat \ {0} /\ Changes \subseteq Nat \ {0} /\ 1 \in Changes
      /\ \A i \in Changes' : i + 1 \in Changes /\ xevents'[i] = xevents[i + 1]
      /\ \A i \in Changes : i = 1 \/ i - 1 \in Changes'
  BY <1>1, EventTaken
<1>3. ChangesFollow' /\ display_size' # display_size
  BY <1>1, ChangeTaken
<1>4. ResizeTypeOK'
  <2>1. display_size' \in ScreenSizes
    BY <1>1, <1>2, EventKinds
  <2> QED
    BY <1>1, <1>2, <2>1 DEF ResizeTypeOK, scanVars, imageVars, outVars, spice_size
<1>5. RecreationDue' /\ event' = "flush"
  BY <1>1, <1>3 DEF RecreationDue, imageVars, spice_size
<1>6. ImageFits'
  <2>1. ASSUME NEW i \in Changes, i # 1 PROVE i - 1 \in Changes' /\ xevents'[i - 1] = xevents[i]
    <3>1. i - 1 \in Changes' /\ (i - 1) + 1 = i
      BY <1>2, <2>1
    <3> QED
      BY <1>2, <3>1
  <2>2. \A i \in Changes : cur \subseteq xevents[i].configure =>
           \/ cur \subseteq display_size'
           \/ \E j \in Changes' : cur \subseteq xevents'[j].configure
    BY <1>1, <1>2, <2>1
  <2>3. UNCHANGED <<scanner, cur, fresh, spice_size>>
    BY <1>1 DEF scanVars, imageVars, spice_size
  <2>4. display_size = spice_size
    BY <1>1 DEF RecreationDue
  <2> QED
    BY <2>2, <2>3, <2>4 DEF ImageFits
<1>7. FreshWillShow'
  BY <1>5, SettledHas DEF FreshWillShow
<1> QED
  BY <1>3, <1>4, <1>5, <1>6, <1>7

\* In a new copy nothing is fresh.
LEMMA RecreatePrimaryKeeps ==
    ASSUME ResizeInv, RecreatePrimary PROVE ResizeInv'
<1> USE DEF ResizeInv
<1>1. /\ UNCHANGED <<screen_size, screen, xevents, drawings, resizes, display_size>>
      /\ UNCHANGED <<queue, scanVars, draw_queue>>
      /\ event' = "wait" /\ fresh' = {}
      /\ fullscreen' \in Pictures(display_size) /\ client' \in Pictures(display_size)
  BY DEF RecreatePrimary, xVars
<1>2. spice_size' = display_size
  BY <1>1 DEF spice_size, Pictures
<1>3. ResizeTypeOK'
  BY <1>1, <1>2 DEF ResizeTypeOK, scanVars
<1>4. ChangesFollow'
  BY <1>1, EventsStay
<1>5. RecreationDue' /\ ImageFits' /\ FreshWillShow'
  BY <1>1, <1>2 DEF RecreationDue, ImageFits, FreshWillShow
<1> QED
  BY <1>3, <1>4, <1>5

LEMMA ScannedType ==
    ASSUME ResizeTypeOK, NEW reports \in Seq(SUBSET Cells)
    PROVE  Scanned(reports) \in Seq(SUBSET Cells)
<1>1. {c \in spice_size : fullscreen[c] # screen[c]} \in SUBSET Cells
  BY SizesAreCells DEF ResizeTypeOK
<1> QED
  BY <1>1, PushedType DEF Scanned

LEMMA ScanKeeps ==
    ASSUME ResizeInv, ScannerPeriodic \/ PopRequest PROVE ResizeInv'
<1> USE DEF ResizeInv
<1>1. UNCHANGED <<xVars, eventVars, scanVars, imageVars, outVars>>
  BY DEF ScannerPeriodic, PopRequest
<1>2. /\ UNCHANGED <<screen_size, screen, xevents, drawings, resizes, display_size, event>>
      /\ spice_size' = spice_size /\ fullscreen' = fullscreen
  BY <1>1 DEF xVars, eventVars, imageVars, spice_size
<1>3. queue' \in Seq(SUBSET Cells)
  <2>1. CASE ScannerPeriodic
    BY <2>1, ScannedType DEF ScannerPeriodic, ResizeTypeOK
  <2>2. CASE PopRequest
    <3>1. Tail(queue) \in Seq(SUBSET Cells)
      BY <2>2 DEF PopRequest, ResizeTypeOK
    <3> QED
      BY <2>2, <3>1, ScannedType DEF PopRequest
  <2> QED
    BY <2>1, <2>2
<1>4. ResizeTypeOK'
  BY <1>1, <1>2, <1>3 DEF ResizeTypeOK, scanVars, imageVars, outVars
<1>5. Changes' = Changes /\ ChangesFollow'
  BY <1>2, EventsStay
<1>6. RecreationDue' /\ ImageFits'
  BY <1>1, <1>2, <1>5 DEF RecreationDue, ImageFits, scanVars, imageVars
<1>7. FreshWillShow'
  BY <1>1, <1>2, <1>5, SettledHas, PictureStays
<1> QED
  BY <1>4, <1>5, <1>6, <1>7

LEMMA PopReportKeeps ==
    ASSUME ResizeInv, PopReport PROVE ResizeInv'
<1> USE DEF ResizeInv
<1>1. /\ UNCHANGED <<xVars, eventVars, img, imageVars, outVars>>
      /\ scanner = "pop" /\ queue # <<>> /\ cur' = Head(queue) /\ queue' = Tail(queue)
      /\ scanner' = "read"
  BY DEF PopReport
<1>2. /\ UNCHANGED <<screen_size, screen, xevents, drawings, resizes, display_size, event>>
      /\ spice_size' = spice_size /\ fullscreen' = fullscreen
  BY <1>1 DEF xVars, eventVars, imageVars, spice_size
<1>3. cur' \in SUBSET Cells /\ queue' \in Seq(SUBSET Cells)
  BY <1>1, QueueTypes DEF ResizeTypeOK
<1>4. ResizeTypeOK'
  BY <1>1, <1>2, <1>3 DEF ResizeTypeOK, imageVars, outVars
<1>5. Changes' = Changes /\ ChangesFollow'
  BY <1>2, EventsStay
<1>6. RecreationDue' /\ ImageFits'
  BY <1>1, <1>2 DEF RecreationDue, ImageFits
<1>7. FreshWillShow'
  <2>1. \A c, value : WillShow(c, value)' <=> WillShow(c, value)
    BY <1>1 DEF WillShow, outVars, Shows, Newest
  <2> QED
    BY <1>1, <1>2, <1>5, <2>1, SettledHas DEF FreshWillShow, imageVars
<1> QED
  BY <1>4, <1>5, <1>6, <1>7

\* The screen has the size that was announced last.
LEMMA LastAnnounced ==
    ASSUME ResizeInv
    PROVE  screen_size = display_size \/ \E i \in Changes : screen_size = xevents[i].configure
<1>1. xevents \in Seq(XEvent)
  BY DEF ResizeInv, ResizeTypeOK
<1>2. Changes \in SUBSET (1..Len(xevents)) /\ Len(xevents) \in Nat /\ 0 \notin Changes
  BY <1>1 DEF Changes
<1>3. CASE Changes = {}
  <2>1. Announced(display_size, xevents, 0) = screen_size
    BY <1>3 DEF ResizeInv, ChangesFollow
  <2> QED
    BY <2>1 DEF Announced
<1>4. CASE Changes # {}
  <2>1. PICK last \in Changes : \A k \in Changes : k <= last
    BY <1>2, <1>4, LargestOf
  <2>2. Announced(display_size, xevents, last) = screen_size /\ last # 0
    BY <1>2, <2>1 DEF ResizeInv, ChangesFollow
  <2> QED
    BY <2>1, <2>2 DEF Announced
<1> QED
  BY <1>3, <1>4

\* What can be read is of the screen, whose size is this one's or one to come.
LEMMA ReadImageKeeps ==
    ASSUME ResizeInv, ReadImage PROVE ResizeInv'
<1> USE DEF ResizeInv
<1>1. /\ UNCHANGED <<xVars, eventVars, queue, imageVars, outVars>>
      /\ scanner = "read"
      /\ \/ /\ cur \subseteq screen_size /\ cur' = cur /\ scanner' = "copy"
            /\ img' = [c \in cur |-> screen[c]]
         \/ scanner' = "pop" /\ cur' = {} /\ UNCHANGED img
  BY DEF ReadImage, Readable
<1>2. /\ UNCHANGED <<screen_size, screen, xevents, drawings, resizes, display_size, event>>
      /\ spice_size' = spice_size /\ fullscreen' = fullscreen
  BY <1>1 DEF xVars, eventVars, imageVars, spice_size
<1>3. ResizeTypeOK'
  <2>1. /\ scanner' \in {"pop", "copy"} /\ cur' \subseteq Cells
        /\ img' \in IF scanner' = "copy" THEN Pictures(cur') ELSE {NoImage}
    <3>1. CASE scanner' = "pop" /\ cur' = {} /\ UNCHANGED img
      BY <1>1, <3>1 DEF ResizeTypeOK
    <3>2. CASE cur' = cur /\ scanner' = "copy" /\ img' = [c \in cur |-> screen[c]]
      <4>1. screen \in [Cells -> Colours] /\ cur \subseteq Cells
        BY DEF ResizeTypeOK, Pictures
      <4>2. img' \in Pictures(cur)
        BY <3>2, <4>1 DEF Pictures
      <4> QED
        BY <3>2, <4>1, <4>2
    <3> QED
      BY <1>1, <3>1, <3>2
  <2> QED
    BY <1>1, <1>2, <2>1 DEF ResizeTypeOK, imageVars, outVars
<1>4. Changes' = Changes /\ ChangesFollow'
  BY <1>2, EventsStay
<1>5. RecreationDue'
  BY <1>2 DEF RecreationDue
<1>6. ImageFits'
  <2> SUFFICES ASSUME scanner' = "copy"
               PROVE  \/ cur \subseteq display_size
                      \/ \E i \in Changes : cur \subseteq xevents[i].configure
    BY <1>1, <1>2, <1>4 DEF ImageFits
  <2>1. cur \subseteq screen_size
    BY <1>1
  <2>2. screen_size = display_size \/ \E i \in Changes : screen_size = xevents[i].configure
    BY LastAnnounced
  <2> QED
    BY <2>1, <2>2
<1>7. FreshWillShow'
  <2>1. \A c, value : WillShow(c, value)' <=> WillShow(c, value)
    BY <1>1 DEF WillShow, outVars, Shows, Newest
  <2> QED
    BY <1>1, <1>2, <1>4, <2>1, SettledHas DEF FreshWillShow, imageVars
<1> QED
  BY <1>3, <1>4, <1>5, <1>6, <1>7

\* An image fits when the picture it is copied into has anything fresh that could differ.
LEMMA CopyIntoFullscreenKeeps ==
    ASSUME ResizeInv, CopyIntoFullscreen PROVE ResizeInv'
<1> USE DEF ResizeInv
<1>1. /\ UNCHANGED <<xVars, eventVars, queue, cur, img, outVars>>
      /\ scanner = "copy" /\ scanner' = "draw"
      /\ \/ /\ cur \subseteq spice_size
            /\ fullscreen' = Paint(fullscreen, img) /\ fresh' = fresh \cup cur
         \/ ~(cur \subseteq spice_size) /\ UNCHANGED imageVars
  BY DEF CopyIntoFullscreen
<1>2. /\ UNCHANGED <<screen_size, screen, xevents, drawings, resizes, display_size, event>>
      /\ UNCHANGED <<draw_queue, client>>
  BY <1>1 DEF xVars, eventVars, outVars
<1>3. /\ img \in Pictures(cur) /\ DOMAIN img = cur /\ img \in Image
      /\ cur \subseteq Cells
  <2>1. img \in Pictures(cur) /\ cur \subseteq Cells
    BY <1>1 DEF ResizeTypeOK
  <2> QED
    BY <2>1 DEF Pictures, Image
<1>4. spice_size' = spice_size /\ fullscreen' \in Pictures(spice_size) /\ fresh' \subseteq spice_size
  <2>1. CASE fullscreen' = Paint(fullscreen, img) /\ fresh' = fresh \cup cur /\ cur \subseteq spice_size
    <3>1. Paint(fullscreen, img) \in Pictures(spice_size)
      BY <1>3, PaintType DEF ResizeTypeOK
    <3> QED
      BY <2>1, <3>1 DEF spice_size, Pictures, ResizeTypeOK
  <2>2. CASE UNCHANGED imageVars
    BY <2>2 DEF imageVars, spice_size, ResizeTypeOK
  <2> QED
    BY <1>1, <2>1, <2>2
<1>5. ResizeTypeOK'
  BY <1>1, <1>2, <1>3, <1>4 DEF ResizeTypeOK
<1>6. Changes' = Changes /\ ChangesFollow'
  BY <1>2, EventsStay
<1>7. RecreationDue' /\ ImageFits'
  BY <1>1, <1>2, <1>4 DEF RecreationDue, ImageFits
<1>8. FreshWillShow'
  <2> SUFFICES ASSUME Settled', NEW c \in fresh' PROVE WillShow(c, fullscreen[c])'
    BY DEF FreshWillShow
  <2>1. Settled /\ Changes = {} /\ display_size = spice_size
    BY <1>2, <1>4, <1>6, SettledHas DEF RecreationDue
  <2>2. cur \subseteq spice_size
    BY <1>1, <2>1 DEF ImageFits, imageVars
  <2>3. fullscreen' = Paint(fullscreen, img) /\ fresh' = fresh \cup cur
    BY <1>1, <2>2
  <2>4. c \in DOMAIN fullscreen
    BY <1>4 DEF spice_size
  <2>5. CASE c \in cur
    <3>1. fullscreen'[c] = img'[c]
      BY <1>1, <1>3, <2>3, <2>4, <2>5 DEF Paint
    <3> QED
      BY <1>1, <2>5, <3>1 DEF WillShow
  <2>6. CASE c \notin cur
    <3>1. fullscreen'[c] = fullscreen[c] /\ c \in fresh
      BY <1>3, <2>3, <2>4, <2>6 DEF Paint
    <3>2. Shows(draw_queue, client, c, fullscreen[c])
      BY <1>1, <2>1, <3>1 DEF FreshWillShow, WillShow
    <3> QED
      BY <1>1, <1>2, <2>6, <3>1, <3>2 DEF WillShow
  <2> QED
    BY <2>5, <2>6
<1> QED
  BY <1>5, <1>6, <1>7, <1>8

LEMMA PushDrawKeeps ==
    ASSUME ResizeInv, PushDraw PROVE ResizeInv'
<1> USE DEF ResizeInv
<1>1. /\ UNCHANGED <<xVars, eventVars, queue, imageVars, client>>
      /\ scanner = "draw" /\ draw_queue' = Append(draw_queue, img)
      /\ scanner' = "pop" /\ cur' = {} /\ img' = NoImage
  BY DEF PushDraw
<1>2. /\ UNCHANGED <<screen_size, screen, xevents, drawings, resizes, display_size, event>>
      /\ spice_size' = spice_size /\ fullscreen' = fullscreen /\ fresh' = fresh
  BY <1>1 DEF xVars, eventVars, imageVars, spice_size
<1>3. draw_queue \in Seq(Image) /\ img \in Image /\ DOMAIN img = cur
  BY <1>1 DEF ResizeTypeOK, Pictures, Image
<1>4. ResizeTypeOK'
  BY <1>1, <1>2, <1>3 DEF ResizeTypeOK
<1>5. Changes' = Changes /\ ChangesFollow'
  BY <1>2, EventsStay
<1>6. RecreationDue' /\ ImageFits'
  BY <1>1, <1>2 DEF RecreationDue, ImageFits
<1>7. FreshWillShow'
  <2>1. ASSUME NEW c, NEW value, WillShow(c, value) PROVE WillShow(c, value)'
    <3>1. IF c \in DOMAIN img THEN img[c] = value ELSE Shows(draw_queue, client, c, value)
      BY <1>1, <1>3, <2>1 DEF WillShow
    <3>2. Shows(Append(draw_queue, img), client, c, value)
      BY <1>3, <3>1, ShowsQueued
    <3> QED
      BY <1>1, <3>2 DEF WillShow
  <2> QED
    BY <1>2, <1>5, <2>1, SettledHas DEF FreshWillShow
<1> QED
  BY <1>4, <1>5, <1>6, <1>7

LEMMA GetCommandKeeps ==
    ASSUME ResizeInv, GetCommand PROVE ResizeInv'
<1> USE DEF ResizeInv
<1>1. /\ UNCHANGED <<xVars, eventVars, queue, scanVars, imageVars>>
      /\ draw_queue # <<>> /\ draw_queue' = Tail(draw_queue)
      /\ client' = Paint(client, Head(draw_queue))
  BY DEF GetCommand
<1>2. /\ UNCHANGED <<screen_size, screen, xevents, drawings, resizes, display_size, event>>
      /\ UNCHANGED <<scanner, cur, img>>
      /\ spice_size' = spice_size /\ fullscreen' = fullscreen /\ fresh' = fresh
  BY <1>1 DEF xVars, eventVars, scanVars, imageVars, spice_size
<1>3. draw_queue \in Seq(Image) /\ Head(draw_queue) \in Image /\ draw_queue' \in Seq(Image)
  BY <1>1 DEF ResizeTypeOK
<1>4. client' \in Pictures(spice_size) /\ DOMAIN client = spice_size
  <2>1. client \in Pictures(spice_size)
    BY DEF ResizeTypeOK
  <2> QED
    BY <1>1, <1>3, <2>1, PaintType DEF Pictures
<1>5. ResizeTypeOK'
  BY <1>1, <1>2, <1>3, <1>4 DEF ResizeTypeOK
<1>6. Changes' = Changes /\ ChangesFollow'
  BY <1>2, EventsStay
<1>7. RecreationDue' /\ ImageFits'
  BY <1>2, <1>6 DEF RecreationDue, ImageFits
<1>8. FreshWillShow'
  <2>1. ASSUME NEW c \in spice_size, NEW value, WillShow(c, value) PROVE WillShow(c, value)'
    <3>1. CASE scanner = "draw" /\ c \in cur
      BY <1>2, <2>1, <3>1 DEF WillShow
    <3>2. CASE ~(scanner = "draw" /\ c \in cur)
      <4>1. Shows(draw_queue, client, c, value)
        BY <2>1, <3>2 DEF WillShow
      <4>2. Shows(Tail(draw_queue), Paint(client, Head(draw_queue)), c, value)
        BY <1>1, <1>3, <1>4, <4>1, ShowsRendered
      <4> QED
        BY <1>1, <1>2, <3>2, <4>2 DEF WillShow
    <3> QED
      BY <3>1, <3>2
  <2>2. fresh \subseteq spice_size
    BY DEF ResizeTypeOK
  <2> QED
    BY <1>2, <1>6, <2>1, <2>2, SettledHas DEF FreshWillShow
<1> QED
  BY <1>5, <1>6, <1>7, <1>8

LEMMA ResizeStutters ==
    ASSUME ResizeInv, UNCHANGED resizeVars PROVE ResizeInv'
<1> USE DEF ResizeInv
<1>1. /\ UNCHANGED <<screen_size, screen, xevents, drawings, resizes, display_size, event, queue>>
      /\ UNCHANGED <<scanVars, imageVars, outVars>> /\ spice_size' = spice_size
  BY DEF resizeVars, xVars, eventVars, imageVars, spice_size
<1>2. ResizeTypeOK'
  BY <1>1 DEF ResizeTypeOK, scanVars, imageVars, outVars
<1>3. Changes' = Changes /\ ChangesFollow'
  BY <1>1, EventsStay
<1>4. RecreationDue' /\ ImageFits'
  BY <1>1, <1>3 DEF RecreationDue, ImageFits, scanVars, imageVars
<1>5. FreshWillShow'
  BY <1>1, <1>3, SettledHas, PictureStays
<1> QED
  BY <1>2, <1>3, <1>4, <1>5

LEMMA ResizeKept == ResizeSpec => []ResizeInv
<1>1. ResizeInv /\ [ResizeNext]_resizeVars => ResizeInv'
  <2> SUFFICES ASSUME ResizeInv, [ResizeNext]_resizeVars PROVE ResizeInv'
    OBVIOUS
  <2>1. CASE XDraw
    BY <2>1, XDrawKeeps
  <2>2. CASE XResizes
    BY <2>2, XResizesKeeps
  <2>3. CASE EventThread
    BY <2>3, HandleDamageNotifyKeeps, HandleConfigureNotifyKeeps, RecreatePrimaryKeeps DEF EventThread
  <2>4. CASE ScannerThread
    BY <2>4, ScanKeeps, PopReportKeeps, ReadImageKeeps, CopyIntoFullscreenKeeps, PushDrawKeeps
       DEF ScannerThread
  <2>5. CASE GetCommand
    BY <2>5, GetCommandKeeps
  <2>6. CASE UNCHANGED resizeVars
    BY <2>6, ResizeStutters
  <2> QED
    BY <2>1, <2>2, <2>3, <2>4, <2>5, <2>6 DEF ResizeNext
<1> QED
  BY <1>1, ResizeInitInv, PTL DEF ResizeSpec

\* The copy and the surface are of one size whatever is resized when, and an image
\* in hand is of the area that was read for it.
THEOREM ResizeTypeCorrect == ResizeSpec => []ResizeTypeOK
<1>1. ResizeInv => ResizeTypeOK
  BY DEF ResizeInv
<1> QED
  BY <1>1, ResizeKept, PTL

\* Once no resize is under way, the scanner's copy shows, of each cell copied since
\* the last one, what the client will: drawables and images of an older size that
\* come between leave no trace.
THEOREM CopyIsClientToBe == ResizeSpec => []FreshIsClientToBe
<1>1. ResizeInv => FreshIsClientToBe
  <2> SUFFICES ASSUME ResizeInv, Settled, NEW c \in fresh PROVE fullscreen[c] = Coming(c)
    BY DEF FreshIsClientToBe
  <2>1. WillShow(c, fullscreen[c])
    BY DEF ResizeInv, FreshWillShow
  <2>2. Coming(c) = fullscreen[c]
    BY <2>1, ShowsComing DEF ResizeInv, WillShow
  <2> QED
    BY <2>2
<1> QED
  BY <1>1, ResizeKept, PTL
=============================================================================
