---------------------------- MODULE AgentProofs ----------------------------
(***************************************************************************)
(* Proofs about SpiceCore and Agent, for any timers, watches, descriptors  *)
(* and connections.                                                        *)
(***************************************************************************)
EXTENDS Agent, FiniteSetTheorems, WellFoundedInduction, TLAPS

Contexts == [live : SUBSET Owners, source : [Owners -> Sources \cup {None}],
             attached : SUBSET Sources]

\* A context c in which the sources of W, and no others but the one that runs, may call back
Good(c, W) ==
    /\ c \in Contexts
    /\ W \subseteq c.live
    /\ c.attached \ {running} = {c.source[o] : o \in W}
    /\ \A o \in W : c.source[o] # None
    /\ \A o \in Owners : c.source[o] # None => c.source[o][1] = o

\* Two sources of one timer or watch are not waited for at once.
OneEach ==
    /\ ready \subseteq Sources
    /\ running \in Sources \cup {None}
    /\ \A s, t \in ready \cup {running} : s[1] = t[1] => s = t

-----------------------------------------------------------------------------
(* Calls on a context *)

LEMMA SourcesHaveOwners ==
    /\ \A s \in Sources : s[1] \in Owners /\ s # None
    /\ \A o \in Owners, i \in 0 .. 1 : <<o, i>> \in Sources /\ <<o, i>>[1] = o
    /\ None[1] = "none" /\ "none" \notin Owners
  BY CoreAssumption DEF Sources, None

LEMMA Destroyed ==
    ASSUME NEW c \in Contexts, NEW o \in Owners
    PROVE  /\ Destroy(c, o) \in Contexts
           /\ Destroy(c, o).live = c.live
           /\ Destroy(c, o).attached = c.attached \ {c.source[o]}
           /\ Destroy(c, o).source = [c.source EXCEPT ![o] = None]
  BY DEF Destroy, Contexts

\* What there is of a timer or watch is destroyed.
Without(c, o) == IF c.source[o] = None THEN c ELSE Destroy(c, o)

LEMMA WithoutIsGood ==
    ASSUME NEW c, NEW W, Good(c, W), NEW o \in Owners
    PROVE  /\ Good(Without(c, o), W \ {o})
           /\ Without(c, o).source[o] = None
           /\ Without(c, o).live = c.live
           /\ \A s \in Without(c, o).attached : s[1] = o => s = running
<1> DEFINE d == Without(c, o)
<1>1. CASE c.source[o] = None
  <2>1. d = c /\ o \notin W /\ W \ {o} = W
    BY <1>1 DEF Without, Good
  <2>2. \A s \in c.attached : s # running => s[1] # o
    BY <2>1 DEF Good, Contexts
  <2> QED
    BY <1>1, <2>1, <2>2
<1>2. CASE c.source[o] # None
  <2>1. c \in Contexts
    BY DEF Good
  <2>2. /\ d \in Contexts /\ d.live = c.live /\ d.attached = c.attached \ {c.source[o]}
        /\ d.source = [c.source EXCEPT ![o] = None]
    BY <1>2, <2>1, Destroyed DEF Without
  <2> HIDE DEF d
  <2>3. /\ d.source[o] = None
        /\ \A p \in Owners : p # o => d.source[p] = c.source[p]
    BY <2>1, <2>2 DEF Contexts
  <2>4. W \subseteq Owners /\ \A p \in W : c.source[p][1] = p
    BY <2>1 DEF Good, Contexts
  <2>5. {d.source[p] : p \in W \ {o}} = {c.source[p] : p \in W \ {o}}
    BY <2>3, <2>4
  <2>6. {c.source[p] : p \in W \ {o}} = {c.source[p] : p \in W} \ {c.source[o]}
    BY <1>2, <2>4 DEF Good
  <2>7. d.attached \ {running} = {d.source[p] : p \in W \ {o}}
    BY <2>2, <2>5, <2>6 DEF Good
  <2>8. \A s \in d.attached : s # running => s[1] # o
    <3> SUFFICES ASSUME NEW s \in d.attached, s # running PROVE s[1] # o
      OBVIOUS
    <3>1. PICK p \in W \ {o} : s = c.source[p]
      BY <2>5, <2>7
    <3> QED
      BY <2>4, <3>1
  <2>9. /\ W \ {o} \subseteq d.live
        /\ \A p \in W \ {o} : d.source[p] # None
        /\ \A p \in Owners : d.source[p] # None => d.source[p][1] = p
    BY <2>2, <2>3, <2>4 DEF Good
  <2>10. Good(d, W \ {o})
    BY <2>2, <2>7, <2>9 DEF Good
  <2> QED
    BY <2>2, <2>3, <2>8, <2>10 DEF d
<1> QED
  BY <1>1, <1>2

LEMMA FreshIsFresh ==
    ASSUME OneEach, NEW c \in Contexts, NEW o \in Owners, c.source[o] = None,
           \A s \in c.attached : s[1] = o => s = running
    PROVE  /\ Fresh(c, o) \in Sources /\ Fresh(c, o)[1] = o
           /\ Fresh(c, o) \notin c.attached \cup ready \cup {running}
<1> DEFINE S == {s \in {o} \X (0 .. 1) : s \notin c.attached \cup ready \cup {running, c.source[o]}}
<1>1. \E s \in {o} \X (0 .. 1) : s \notin c.attached \cup ready \cup {running, c.source[o]}
  <2> SUFFICES ASSUME \A s \in {o} \X (0 .. 1) : s \in c.attached \cup ready \cup {running, c.source[o]}
               PROVE  FALSE
    OBVIOUS
  <2> DEFINE a == <<o, 0>>
             b == <<o, 1>>
  <2>1. a \in {o} \X (0 .. 1) /\ b \in {o} \X (0 .. 1) /\ a[1] = o /\ b[1] = o /\ a # b
    OBVIOUS
  <2>2. a # None /\ b # None
    BY CoreAssumption DEF None
  <2> HIDE DEF a, b
  <2>3. a \in ready \cup {running} /\ b \in ready \cup {running}
    BY <2>1, <2>2
  <2> QED
    BY <2>1, <2>3 DEF OneEach
<1>2. /\ Fresh(c, o) \in {o} \X (0 .. 1)
      /\ Fresh(c, o) \notin c.attached \cup ready \cup {running, c.source[o]}
  BY <1>1 DEF Fresh
<1> QED
  BY <1>2 DEF Sources

LEMMA AttachIsGood ==
    ASSUME OneEach, NEW c, NEW W, Good(c, W), NEW o \in c.live, o \notin W, c.source[o] = None,
           \A s \in c.attached : s[1] = o => s = running
    PROVE  Good(Attach(c, o), W \cup {o}) /\ Attach(c, o).live = c.live
<1> DEFINE d == Attach(c, o)
           f == Fresh(c, o)
<1>1. c \in Contexts /\ o \in Owners /\ W \subseteq Owners
  BY DEF Good, Contexts
<1>2. f \in Sources /\ f[1] = o /\ f # running
  BY <1>1, FreshIsFresh
<1> HIDE DEF f
<1>3. /\ d \in Contexts /\ d.live = c.live /\ d.attached = c.attached \cup {f}
      /\ d.source = [c.source EXCEPT ![o] = f]
  BY <1>1, <1>2 DEF Attach, Contexts, f
<1> HIDE DEF d
<1>4. d.source[o] = f /\ \A p \in Owners : p # o => d.source[p] = c.source[p]
  BY <1>1, <1>3 DEF Contexts
<1>5. {d.source[p] : p \in W \cup {o}} = {c.source[p] : p \in W} \cup {f}
  BY <1>1, <1>4
<1>6. d.attached \ {running} = {d.source[p] : p \in W \cup {o}}
  BY <1>2, <1>3, <1>5 DEF Good
<1>7. f # None
  BY <1>2, SourcesHaveOwners
<1>8. /\ \A p \in W \cup {o} : d.source[p] # None
      /\ \A p \in Owners : d.source[p] # None => d.source[p][1] = p
  BY <1>1, <1>2, <1>4, <1>7 DEF Good
<1> QED
  BY <1>3, <1>6, <1>8 DEF Good, d

LEMMA LiveIsGood ==
    ASSUME NEW c, NEW W, Good(c, W), NEW o \in Owners
    PROVE  /\ Good([c EXCEPT !.live = @ \cup {o}], W)
           /\ [c EXCEPT !.live = @ \cup {o}].live = c.live \cup {o}
           /\ o \notin W => /\ Good([c EXCEPT !.live = @ \ {o}], W)
                            /\ [c EXCEPT !.live = @ \ {o}].live = c.live \ {o}
<1>1. c \in Contexts
  BY DEF Good
<1> DEFINE d == [c EXCEPT !.live = @ \cup {o}]
           e == [c EXCEPT !.live = @ \ {o}]
<1>2. /\ d \in Contexts /\ d.live = c.live \cup {o} /\ d.attached = c.attached /\ d.source = c.source
      /\ e \in Contexts /\ e.live = c.live \ {o} /\ e.attached = c.attached /\ e.source = c.source
  BY <1>1 DEF Contexts
<1> HIDE DEF d, e
<1>3. Good(d, W)
  BY <1>2 DEF Good
<1>4. o \notin W => Good(e, W)
  BY <1>2 DEF Good
<1> QED
  BY <1>2, <1>3, <1>4 DEF d, e

LEMMA MaskIsGood ==
    ASSUME OneEach, NEW c, NEW W, Good(c, W), NEW o \in c.live
    PROVE  /\ Good(WatchUpdateMask(c, o, TRUE), W \cup {o})
           /\ WatchUpdateMask(c, o, TRUE).live = c.live
           /\ Good(WatchUpdateMask(c, o, FALSE), W \ {o})
           /\ WatchUpdateMask(c, o, FALSE).live = c.live
<1> DEFINE d == Without(c, o)
<1>1. o \in Owners
  BY DEF Good, Contexts
<1>2. /\ Good(d, W \ {o}) /\ d.source[o] = None /\ d.live = c.live
      /\ \A s \in d.attached : s[1] = o => s = running
  BY <1>1, WithoutIsGood
<1>3. WatchUpdateMask(c, o, TRUE) = Attach(d, o) /\ WatchUpdateMask(c, o, FALSE) = d
  BY DEF WatchUpdateMask, Without
<1> HIDE DEF d
<1>4. o \in d.live /\ o \notin W \ {o}
  BY <1>2
<1>5. Good(Attach(d, o), (W \ {o}) \cup {o}) /\ Attach(d, o).live = d.live
  BY <1>2, <1>4, AttachIsGood
<1>6. (W \ {o}) \cup {o} = W \cup {o}
  OBVIOUS
<1> QED
  BY <1>2, <1>3, <1>5, <1>6

LEMMA WatchAddIsGood ==
    ASSUME OneEach, NEW c, NEW W, Good(c, W), NEW o \in Owners
    PROVE  /\ Good(WatchAdd(c, o, TRUE), W \cup {o})
           /\ WatchAdd(c, o, TRUE).live = c.live \cup {o}
           /\ Good(WatchAdd(c, o, FALSE), W \ {o})
           /\ WatchAdd(c, o, FALSE).live = c.live \cup {o}
<1> DEFINE d == [c EXCEPT !.live = @ \cup {o}]
<1>1. Good(d, W) /\ d.live = c.live \cup {o}
  BY LiveIsGood
<1>2. \A mask \in BOOLEAN : WatchAdd(c, o, mask) = WatchUpdateMask(d, o, mask)
  BY DEF WatchAdd
<1> HIDE DEF d
<1>3. /\ Good(WatchUpdateMask(d, o, TRUE), W \cup {o}) /\ WatchUpdateMask(d, o, TRUE).live = d.live
      /\ Good(WatchUpdateMask(d, o, FALSE), W \ {o}) /\ WatchUpdateMask(d, o, FALSE).live = d.live
  BY <1>1, MaskIsGood
<1>4. /\ WatchAdd(c, o, TRUE) = WatchUpdateMask(d, o, TRUE)
      /\ WatchAdd(c, o, FALSE) = WatchUpdateMask(d, o, FALSE)
  BY <1>2
<1> QED
  BY <1>1, <1>3, <1>4

LEMMA RemoveIsGood ==
    ASSUME NEW c, NEW W, Good(c, W), NEW o \in Owners
    PROVE  /\ Good(WatchRemove(c, o), W \ {o}) /\ WatchRemove(c, o).live = c.live \ {o}
           /\ Good(TimerRemove(c, o), W \ {o}) /\ TimerRemove(c, o).live = c.live \ {o}
<1> DEFINE d == Without(c, o)
<1>1. Good(d, W \ {o}) /\ d.live = c.live
  BY WithoutIsGood
<1>2. /\ WatchRemove(c, o) = [d EXCEPT !.live = @ \ {o}]
      /\ TimerRemove(c, o) = [d EXCEPT !.live = @ \ {o}]
  BY DEF WatchRemove, WatchUpdateMask, TimerRemove, TimerCancel, Without
<1> HIDE DEF d
<1>3. o \notin W \ {o}
  OBVIOUS
<1> DEFINE e == [d EXCEPT !.live = @ \ {o}]
<1>4. Good(e, W \ {o}) /\ e.live = d.live \ {o}
  BY <1>1, <1>3, LiveIsGood
<1>5. WatchRemove(c, o) = e /\ TimerRemove(c, o) = e
  BY <1>2
<1> HIDE DEF e
<1> QED
  BY <1>1, <1>4, <1>5

LEMMA TimerIsGood ==
    ASSUME OneEach, NEW c, NEW W, Good(c, W), NEW t \in c.live
    PROVE  /\ Good(TimerCancel(c, t), W \ {t}) /\ TimerCancel(c, t).live = c.live
           /\ Good(TimerStart(c, t), W \cup {t}) /\ TimerStart(c, t).live = c.live
<1>1. /\ TimerCancel(c, t) = WatchUpdateMask(c, t, FALSE)
      /\ TimerStart(c, t) = WatchUpdateMask(c, t, TRUE)
  BY DEF TimerCancel, TimerStart, WatchUpdateMask
<1>2. /\ Good(WatchUpdateMask(c, t, TRUE), W \cup {t}) /\ WatchUpdateMask(c, t, TRUE).live = c.live
      /\ Good(WatchUpdateMask(c, t, FALSE), W \ {t}) /\ WatchUpdateMask(c, t, FALSE).live = c.live
  BY MaskIsGood
<1> QED
  BY <1>1, <1>2

-----------------------------------------------------------------------------
(* The calls of spice-server, and the main context *)

CoreInv == Good(context, wanted) /\ OneEach

\* A step leaves the agent's watches alone.
AgentWatchesStay ==
    /\ context'.live \cap AgentWatches = context.live \cap AgentWatches
    /\ wanted' \cap AgentWatches = wanted \cap AgentWatches

LEMMA KeepsCore ==
    ASSUME OneEach, Good(context', wanted'), UNCHANGED <<ready, running>>
    PROVE  CoreInv'
  BY DEF CoreInv, Good, OneEach

LEMMA ServerTimerKeeps ==
    ASSUME CoreInv, NEW t \in Timers, ServerTimer(t)
    PROVE  CoreInv' /\ AgentWatchesStay
<1> USE DEF CoreInv
<1>1. t \in Owners /\ t \notin AgentWatches
  BY CoreAssumption DEF Owners
<1>2. UNCHANGED <<ready, running>>
  BY DEF ServerTimer
<1>3. CASE context' = TimerAdd(context, t) /\ UNCHANGED wanted
  <2>1. Good(context', wanted) /\ context'.live = context.live \cup {t}
    BY <1>1, <1>3, LiveIsGood DEF TimerAdd
  <2> QED
    BY <1>1, <1>2, <1>3, <2>1, KeepsCore DEF AgentWatchesStay
<1>4. CASE t \in context.live /\ context' = TimerStart(context, t) /\ wanted' = wanted \cup {t}
  <2>1. Good(context', wanted') /\ context'.live = context.live
    BY <1>4, TimerIsGood
  <2> QED
    BY <1>1, <1>2, <1>4, <2>1, KeepsCore DEF AgentWatchesStay
<1>5. CASE t \in context.live /\ context' = TimerCancel(context, t) /\ wanted' = wanted \ {t}
  <2>1. Good(context', wanted') /\ context'.live = context.live
    BY <1>5, TimerIsGood
  <2> QED
    BY <1>1, <1>2, <1>5, <2>1, KeepsCore DEF AgentWatchesStay
<1>6. CASE t \in context.live /\ context' = TimerRemove(context, t) /\ wanted' = wanted \ {t}
  <2>1. Good(context', wanted') /\ context'.live = context.live \ {t}
    BY <1>1, <1>6, RemoveIsGood
  <2> QED
    BY <1>1, <1>2, <1>6, <2>1, KeepsCore DEF AgentWatchesStay
<1> QED
  BY <1>3, <1>4, <1>5, <1>6 DEF ServerTimer

LEMMA ServerWatchKeeps ==
    ASSUME CoreInv, NEW w \in Watches, ServerWatch(w)
    PROVE  CoreInv' /\ AgentWatchesStay
<1> USE DEF CoreInv
<1>1. w \in Owners /\ w \notin AgentWatches
  BY CoreAssumption DEF Owners
<1>2. UNCHANGED <<ready, running>>
  BY DEF ServerWatch
<1>3. ASSUME NEW mask \in BOOLEAN,
             context' = IF w \in context.live THEN WatchUpdateMask(context, w, mask)
                                              ELSE WatchAdd(context, w, mask),
             wanted' = IF mask THEN wanted \cup {w} ELSE wanted \ {w}
      PROVE  CoreInv' /\ AgentWatchesStay
  <2>1. Good(context', wanted') /\ context'.live \ {w} = context.live \ {w}
    <3>1. CASE w \in context.live /\ mask = TRUE
      BY <1>3, <3>1, MaskIsGood
    <3>2. CASE w \in context.live /\ mask = FALSE
      BY <1>3, <3>2, MaskIsGood
    <3>3. CASE w \notin context.live /\ mask = TRUE
      BY <1>1, <1>3, <3>3, WatchAddIsGood
    <3>4. CASE w \notin context.live /\ mask = FALSE
      BY <1>1, <1>3, <3>4, WatchAddIsGood
    <3> QED
      BY <3>1, <3>2, <3>3, <3>4
  <2>2. wanted' \ {w} = wanted \ {w}
    BY <1>3
  <2> QED
    BY <1>1, <1>2, <2>1, <2>2, KeepsCore DEF AgentWatchesStay
<1>4. CASE context' = WatchRemove(context, w) /\ wanted' = wanted \ {w}
  <2>1. Good(context', wanted') /\ context'.live = context.live \ {w}
    BY <1>1, <1>4, RemoveIsGood
  <2> QED
    BY <1>1, <1>2, <1>4, <2>1, KeepsCore DEF AgentWatchesStay
<1> QED
  BY <1>3, <1>4 DEF ServerWatch

LEMMA PollKeeps ==
    ASSUME CoreInv, NEW inputs, Poll(inputs)
    PROVE  CoreInv' /\ UNCHANGED <<context, wanted>>
<1>1. /\ running = None /\ ready' \subseteq context.attached
      /\ UNCHANGED <<context, running, wanted>>
  BY DEF Poll
<1>2. Good(context, wanted) /\ context \in Contexts
  BY DEF CoreInv, Good
<1>3. Good(context, wanted)'
  BY <1>1, <1>2 DEF Good
<1>4. context.attached \subseteq Sources /\ wanted \subseteq Owners
  BY <1>2 DEF Contexts, Good
<1>5. \A s \in ready' : s \in Sources /\ s # None /\ s = context.source[s[1]]
  <2> SUFFICES ASSUME NEW s \in ready' PROVE s \in Sources /\ s # None /\ s = context.source[s[1]]
    OBVIOUS
  <2>1. s \in Sources /\ s # None
    BY <1>1, <1>4, SourcesHaveOwners
  <2>2. PICK o \in wanted : s = context.source[o]
    BY <1>1, <1>2, <2>1 DEF Good
  <2> QED
    BY <1>2, <1>4, <2>1, <2>2 DEF Good
<1>6. \A s \in ready' : s[1] # None[1]
  BY <1>5, SourcesHaveOwners
<1>7. OneEach'
  BY <1>1, <1>5, <1>6 DEF OneEach
<1> QED
  BY <1>1, <1>3, <1>7 DEF CoreInv

LEMMA DispatchKeeps ==
    ASSUME CoreInv, NEW s \in ready, ready' = ready \ {s}, UNCHANGED running,
           Good(context', wanted')
    PROVE  CoreInv'
  BY DEF CoreInv, Good, OneEach

LEMMA TimerFuncKeeps ==
    ASSUME CoreInv, NEW s \in ready, TimerFunc(s)
    PROVE  CoreInv' /\ AgentWatchesStay
<1>1. /\ running = None /\ running' = s /\ ready' = ready \ {s} /\ s \in context.attached
      /\ s[1] \in Timers /\ wanted' = wanted \ {s[1]} /\ context' = context
  BY DEF TimerFunc, Dispatches
<1>2. Good(context, wanted) /\ OneEach /\ context \in Contexts /\ s \in Sources /\ s # None
  BY SourcesHaveOwners DEF CoreInv, Good, OneEach
<1>3. PICK o \in wanted : s = context.source[o]
  BY <1>1, <1>2 DEF Good
<1>4. wanted \subseteq Owners /\ context.attached \subseteq Sources
      /\ \A p \in wanted : context.source[p][1] = p
  BY <1>2 DEF Good, Contexts
<1>5. s[1] = o
  BY <1>3, <1>4
<1>6. \A p \in wanted : context.source[p] = s <=> p = o
  BY <1>3, <1>4
<1>7. context.attached = {context.source[p] : p \in wanted}
  BY <1>1, <1>2, <1>4, SourcesHaveOwners DEF Good
<1>8. context.attached \ {s} = {context.source[p] : p \in wanted \ {o}}
  BY <1>6, <1>7
<1>9. Good(context, wanted)'
  BY <1>1, <1>2, <1>5, <1>8 DEF Good
<1>10. OneEach'
  BY <1>1, <1>2 DEF OneEach
<1>11. s[1] \notin AgentWatches
  BY <1>1, CoreAssumption
<1> QED
  BY <1>1, <1>9, <1>10, <1>11 DEF CoreInv, AgentWatchesStay

LEMMA TimerFuncReturnsKeeps ==
    ASSUME CoreInv, TimerFuncReturns
    PROVE  CoreInv' /\ AgentWatchesStay
<1>1. /\ context' = [context EXCEPT !.attached = @ \ {running}] /\ running' = None
      /\ UNCHANGED <<ready, wanted>>
  BY DEF TimerFuncReturns
<1>2. Good(context, wanted) /\ OneEach /\ context \in Contexts
  BY DEF CoreInv, Good
<1>3. /\ context' \in Contexts /\ context'.live = context.live /\ context'.source = context.source
      /\ context'.attached = context.attached \ {running}
  BY <1>1, <1>2 DEF Contexts
<1>4. None \notin context'.attached
  BY <1>2, <1>3, SourcesHaveOwners DEF Contexts
<1>5. context'.attached \ {None} = {context'.source[o] : o \in wanted'}
  BY <1>1, <1>2, <1>3, <1>4 DEF Good
<1>6. Good(context, wanted)'
  BY <1>1, <1>2, <1>3, <1>5 DEF Good
<1>7. \A s \in ready : s[1] # None[1]
  BY <1>2, SourcesHaveOwners DEF OneEach
<1>8. OneEach'
  BY <1>1, <1>2, <1>7 DEF OneEach
<1> QED
  BY <1>1, <1>3, <1>6, <1>8 DEF CoreInv, AgentWatchesStay

-----------------------------------------------------------------------------
(* Descriptors *)

LEMMA Minimum ==
    ASSUME NEW S, S \subseteq Nat, S # {}
    PROVE  \E x \in S : \A y \in S : x <= y
<1> DEFINE R == OpToRel(<, Nat)
<1>1. IsWellFoundedOn(R, Nat)
  BY NatLessThanWellFounded
<1>2. \A ss \in Nat \X Nat : ss \in R <=> ss[1] < ss[2]
  BY DEF OpToRel
<1> HIDE DEF R
<1>3. PICK x \in S : \A y \in S : <<y, x>> \notin R
  BY <1>1, WFMin
<1>4. ASSUME NEW y \in S PROVE x <= y
  <2>1. <<y, x>> \in Nat \X Nat /\ <<y, x>> \notin R /\ <<y, x>>[1] = y /\ <<y, x>>[2] = x
    BY <1>3
  <2>2. ~(y < x)
    BY <1>2, <2>1
  <2> QED
    BY <2>2
<1> QED
  BY <1>4

LEMMA LowestIsOne ==
    ASSUME NEW S, S \subseteq Fds, S # {}
    PROVE  Lowest(S) \in S
<1>1. S \subseteq Nat
  BY AgentAssumption
<1>2. \E x \in S : \A y \in S : x <= y
  BY <1>1, Minimum
<1> QED
  BY <1>2 DEF Lowest

LEMMA FreeIsFree ==
    /\ Free \subseteq Fds /\ \A fd \in Free : table[fd] = "free"
    /\ Free # {} => Lowest(Free) \in Free
    /\ Cardinality(Free) > 1 => Free # {} /\ Free \ {Lowest(Free)} # {}
<1>1. Free \subseteq Fds /\ \A fd \in Free : table[fd] = "free"
  BY DEF Free
<1>2. Free # {} => Lowest(Free) \in Free
  BY <1>1, LowestIsOne
<1>3. ASSUME Cardinality(Free) > 1 PROVE Free # {} /\ Free \ {Lowest(Free)} # {}
  <2>1. Free # {}
    BY <1>3, FS_EmptySet
  <2>2. ASSUME Free \ {Lowest(Free)} = {} PROVE FALSE
    <3>1. Free = {Lowest(Free)}
      BY <1>2, <2>1, <2>2
    <3>2. Cardinality(Free) = 1
      BY <3>1, FS_Singleton
    <3> QED
      BY <1>3, <3>2
  <2> QED
    BY <2>1, <2>2
<1> QED
  BY <1>1, <1>2, <1>3

-----------------------------------------------------------------------------
(* The agent *)

AgentTypes ==
    /\ phase \in {"starting", "running", "stopped"}
    /\ table \in [Fds -> {"free", "other"} \cup AgentWatches]
    /\ virtio_listen_fd \in Fds \cup {-1}
    /\ virtio_client_fd \in Int
    /\ uinput_fd \in Fds \cup {-1}
    /\ added \in BOOLEAN /\ refused \in BOOLEAN
    /\ stops \in 0 .. 2
    /\ damage \subseteq AgentWatches \cup {"interface"}

ListenMatches ==
    "listen" \in context.live =>
        /\ "listen" \in wanted /\ virtio_listen_fd \in Fds
        /\ table[virtio_listen_fd] = "listen" \/ refused

ClientMatches ==
    "client" \in context.live =>
        /\ "client" \in wanted /\ virtio_client_fd \in Fds
        /\ table[virtio_client_fd] = "client" /\ virtio_client_fd # virtio_listen_fd

UinputMatches ==
    "uinput" \in context.live =>
        /\ "uinput" \in wanted /\ uinput_fd \in Fds
        /\ table[uinput_fd] = "uinput" /\ uinput_fd # virtio_listen_fd

\* The watches come and go together, and the interface with that of the client.
Together ==
    /\ "listen" \in context.live <=> "uinput" \in context.live
    /\ "client" \in context.live <=> added
    /\ added => "uinput" \in context.live
    /\ phase # "running" => "uinput" \notin context.live

\* What agent_t says can be relied on, until it is stopped.
FieldsKnown ==
    /\ uinput_fd # -1 => "uinput" \in context.live
    /\ added \/ refused => virtio_client_fd # -1
    /\ stops = 0 /\ ~refused /\ virtio_listen_fd # -1 => table[virtio_listen_fd] = "listen"
    /\ stops = 0 /\ virtio_client_fd # -1 => added

StartsClean ==
    phase = "starting" =>
        /\ virtio_listen_fd = -1 /\ virtio_client_fd = -1 /\ uinput_fd = -1
        /\ stops = 0 /\ ~refused /\ damage = {}

AgentParts ==
    /\ AgentTypes /\ ListenMatches /\ ClientMatches /\ UinputMatches
    /\ Together /\ FieldsKnown /\ StartsClean /\ ClosesItsOwn

AgentInv == CoreInv /\ AgentParts

LEMMA AgentOwners ==
    /\ "listen" \in AgentWatches /\ "client" \in AgentWatches /\ "uinput" \in AgentWatches
    /\ "listen" \in Owners /\ "client" \in Owners /\ "uinput" \in Owners
    /\ AgentWatches = {"listen", "client", "uinput"}
  BY AgentAssumption DEF Owners

\* A step that is not the agent's
LEMMA SameAgent ==
    ASSUME AgentParts, AgentWatchesStay,
           UNCHANGED <<phase, table, fdVars, added, historyVars>>
    PROVE  AgentParts'
<1>1. \A w \in {"listen", "client", "uinput"} :
         /\ w \in context'.live <=> w \in context.live
         /\ w \in wanted' <=> w \in wanted
  BY AgentOwners DEF AgentWatchesStay
<1> USE DEF fdVars, historyVars, AgentParts
<1>2. AgentTypes' /\ StartsClean' /\ ClosesItsOwn'
  BY DEF AgentTypes, StartsClean, ClosesItsOwn
<1>3. ListenMatches' /\ ClientMatches' /\ UinputMatches'
  BY <1>1 DEF ListenMatches, ClientMatches, UinputMatches
<1>4. Together' /\ FieldsKnown'
  BY <1>1 DEF Together, FieldsKnown
<1> QED
  BY <1>2, <1>3, <1>4

LEMMA InitAgentInv == Init => AgentInv
<1> SUFFICES ASSUME Init PROVE AgentInv
  OBVIOUS
<1>1. /\ context = [live |-> {}, source |-> [o \in Owners |-> None], attached |-> {}]
      /\ ready = {} /\ running = None /\ wanted = {}
  BY DEF Init, CoreInit
<1>2. Good(context, wanted)
  BY <1>1 DEF Good, Contexts
<1>3. OneEach
  BY <1>1 DEF OneEach
<1>4. table \in [Fds -> {"free", "other"} \cup AgentWatches]
  BY DEF Init
<1>5. AgentTypes
  <2>1. /\ virtio_listen_fd = -1 /\ virtio_client_fd = -1 /\ uinput_fd = -1
        /\ phase = "starting" /\ stops = 0 /\ damage = {}
    BY DEF Init
  <2>2. added \in BOOLEAN /\ refused \in BOOLEAN
    BY DEF Init
  <2>3. -1 \in Int /\ 0 \in 0 .. 2
    OBVIOUS
  <2> QED
    BY <1>4, <2>1, <2>2, <2>3 DEF AgentTypes
<1>6. AgentParts
  BY <1>1, <1>5 DEF Init, AgentParts, ListenMatches, ClientMatches, UinputMatches, Together,
     FieldsKnown, StartsClean, ClosesItsOwn
<1> QED
  BY <1>2, <1>3, <1>6 DEF AgentInv, CoreInv

LEMMA AttachedIsWanted ==
    ASSUME CoreInv, NEW s \in context.attached, s # running
    PROVE  s[1] \in wanted /\ s[1] \in context.live
<1>1. PICK o \in wanted : s = context.source[o]
  BY DEF CoreInv, Good
<1> QED
  BY <1>1 DEF CoreInv, Good, Contexts

\* The agent's callback of a source that has been found ready
LEMMA CallsAre ==
    ASSUME AgentInv, NEW s \in ready, NEW w \in AgentWatches, Calls(w, s)
    PROVE  /\ ready' = ready \ {s} /\ UNCHANGED <<running, phase>>
           /\ phase = "running" /\ w \in context.live /\ w \in wanted
<1>1. /\ ready' = ready \ {s} /\ UNCHANGED <<running, phase>> /\ running = None
      /\ phase = "running" /\ s \in context.attached /\ s[1] = w
  BY DEF Calls, Dispatches
<1>2. s # running
  BY <1>1, SourcesHaveOwners DEF AgentInv, CoreInv, Good, Contexts
<1> QED
  BY <1>1, <1>2, AttachedIsWanted DEF AgentInv

LEMMA RemoveIfLiveIsGood ==
    ASSUME NEW c, NEW W, Good(c, W), NEW o \in Owners
    PROVE  /\ Good(RemoveIfLive(c, o), W \ {o})
           /\ RemoveIfLive(c, o).live = c.live \ {o}
<1>1. CASE o \in c.live
  BY <1>1, RemoveIsGood DEF RemoveIfLive
<1>2. CASE o \notin c.live
  <2>1. W \ {o} = W /\ c.live \ {o} = c.live
    BY <1>2 DEF Good
  <2> QED
    BY <1>2, <2>1 DEF RemoveIfLive
<1> QED
  BY <1>1, <1>2

LEMMA RemoveAllIsGood ==
    ASSUME NEW c, NEW W, Good(c, W)
    PROVE  Good(RemoveAll(c), W \ AgentWatches) /\ RemoveAll(c).live = c.live \ AgentWatches
<1> DEFINE d == RemoveIfLive(c, "uinput")
           e == RemoveIfLive(d, "client")
           f == RemoveIfLive(e, "listen")
<1>1. Good(d, W \ {"uinput"}) /\ d.live = c.live \ {"uinput"}
  BY AgentOwners, RemoveIfLiveIsGood
<1> HIDE DEF d
<1>2. Good(e, (W \ {"uinput"}) \ {"client"}) /\ e.live = d.live \ {"client"}
  BY <1>1, AgentOwners, RemoveIfLiveIsGood
<1> HIDE DEF e
<1>3. Good(f, ((W \ {"uinput"}) \ {"client"}) \ {"listen"}) /\ f.live = e.live \ {"listen"}
  BY <1>2, AgentOwners, RemoveIfLiveIsGood
<1> HIDE DEF f
<1>4. ((W \ {"uinput"}) \ {"client"}) \ {"listen"} = W \ AgentWatches
  BY AgentOwners
<1>5. f.live = c.live \ AgentWatches
  BY <1>1, <1>2, <1>3, AgentOwners
<1>6. RemoveAll(c) = f
  BY DEF RemoveAll, d, e, f
<1> QED
  BY <1>3, <1>4, <1>5, <1>6

LEMMA StopKeeps ==
    ASSUME AgentInv, Stop, phase # "starting", phase' \in {"running", "stopped"}
    PROVE  Good(context', wanted') /\ AgentParts'
<1>1. /\ context' = RemoveAll(context) /\ wanted' = wanted \ AgentWatches
      /\ table' = [fd \in Fds |-> IF fd \in {Field(name) : name \in AgentWatches}
                                  THEN "free" ELSE table[fd]]
      /\ added' = (added /\ virtio_client_fd = -1)
      /\ damage' = damage \cup {name \in AgentWatches : Hits(name)}
                   \cup (IF virtio_client_fd # -1 /\ ~added THEN {"interface"} ELSE {})
      /\ uinput_fd' = -1 /\ virtio_client_fd' = virtio_listen_fd - 1
      /\ stops' = (IF stops < 2 THEN stops + 1 ELSE stops)
      /\ virtio_listen_fd' = virtio_listen_fd /\ refused' = refused
  BY DEF Stop, Reset
<1>2. Good(context', wanted') /\ context'.live = context.live \ AgentWatches
  BY <1>1, RemoveAllIsGood DEF AgentInv, CoreInv
<1>3. "listen" \notin context'.live /\ "client" \notin context'.live /\ "uinput" \notin context'.live
  BY <1>2, AgentOwners
<1>4. AgentParts
  BY DEF AgentInv
<1>5. added' = FALSE
  BY <1>1, <1>4 DEF AgentParts, FieldsKnown, AgentTypes
<1>6. virtio_client_fd' # -1 /\ virtio_client_fd' \in Int
  BY <1>1, <1>4, AgentAssumption DEF AgentParts, AgentTypes
<1>7. stops' \in 1 .. 2 /\ (stops # 0 => stops' = 2)
  BY <1>1, <1>4 DEF AgentParts, AgentTypes
<1>8. AgentTypes'
  <2>1. table' \in [Fds -> {"free", "other"} \cup AgentWatches]
    BY <1>1, <1>4 DEF AgentParts, AgentTypes
  <2>2. damage' \subseteq AgentWatches \cup {"interface"}
    BY <1>1, <1>4 DEF AgentParts, AgentTypes
  <2>3. added' \in BOOLEAN /\ refused' \in BOOLEAN /\ virtio_listen_fd' \in Fds \cup {-1}
    BY <1>1, <1>4, <1>5 DEF AgentParts, AgentTypes
  <2> QED
    BY <1>1, <1>6, <1>7, <2>1, <2>2, <2>3 DEF AgentTypes
<1>9. ListenMatches' /\ ClientMatches' /\ UinputMatches' /\ Together' /\ StartsClean'
  BY <1>3, <1>5 DEF ListenMatches, ClientMatches, UinputMatches, Together, StartsClean
<1>10. FieldsKnown'
  BY <1>1, <1>5, <1>6, <1>7 DEF FieldsKnown
<1>11. ~Hits("uinput")
  BY <1>4, AgentAssumption DEF AgentParts, AgentTypes, FieldsKnown, UinputMatches, Hits, Field
<1>12. stops = 0 => ~Hits("client") /\ (virtio_client_fd # -1 => added)
  BY <1>4, AgentAssumption DEF AgentParts, AgentTypes, FieldsKnown, ClientMatches, Together, Hits, Field
<1>13. stops = 0 /\ ~refused => ~Hits("listen")
  BY <1>4, AgentAssumption DEF AgentParts, AgentTypes, FieldsKnown, Hits, Field
<1>14. ClosesItsOwn
  BY <1>4 DEF AgentParts
<1>15. ClosesItsOwn'
  <2>1. "uinput" \notin damage'
    BY <1>1, <1>11, <1>14 DEF ClosesItsOwn
  <2>2. CASE stops = 0
    <3>1. damage = {} \/ refused
      BY <1>14, <2>2 DEF ClosesItsOwn
    <3>2. "client" \notin damage /\ "interface" \notin damage
      BY <1>14, <2>2 DEF ClosesItsOwn
    <3>3. "client" \notin damage' /\ "interface" \notin damage'
      BY <1>1, <1>12, <2>2, <3>2, AgentOwners
    <3>4. damage' # {} => refused'
      BY <1>1, <1>8, <1>13, <2>1, <2>2, <3>1, <3>3, AgentOwners DEF AgentTypes
    <3> QED
      BY <2>1, <3>3, <3>4 DEF ClosesItsOwn
  <2>3. CASE stops # 0
    BY <1>7, <2>1, <2>3 DEF ClosesItsOwn
  <2> QED
    BY <2>2, <2>3
<1> QED
  BY <1>2, <1>8, <1>9, <1>10, <1>15 DEF AgentParts

\* agent_start leaves nothing behind but descriptors.
LEMMA StartsWith ==
    ASSUME AgentInv, phase = "starting", NEW listen, NEW client, NEW uinput,
           StartedAs(listen, client, uinput)
    PROVE  /\ phase' = "running" /\ UNCHANGED <<ready, running, added, refused, damage>>
           /\ virtio_listen_fd' = listen /\ virtio_client_fd' = client /\ uinput_fd' = uinput
           /\ Good(context, wanted) /\ OneEach
           /\ AgentTypes /\ added = FALSE /\ refused = FALSE /\ stops = 0 /\ damage = {}
           /\ \A w \in AgentWatches : w \notin context.live /\ w \notin wanted
<1>1. /\ phase' = "running" /\ UNCHANGED <<ready, running, added, refused, damage>>
      /\ virtio_listen_fd' = listen /\ virtio_client_fd' = client /\ uinput_fd' = uinput
  BY DEF StartedAs
<1>2. /\ Good(context, wanted) /\ OneEach /\ AgentTypes /\ Together /\ StartsClean
  BY DEF AgentInv, CoreInv, AgentParts
<1>3. "uinput" \notin context.live /\ "listen" \notin context.live /\ "client" \notin context.live
  BY <1>2 DEF Together
<1>4. added = FALSE /\ refused = FALSE /\ stops = 0 /\ damage = {}
  BY <1>2, <1>3 DEF Together, StartsClean, AgentTypes
<1>5. \A w \in AgentWatches : w \notin context.live /\ w \notin wanted
  BY <1>2, <1>3, AgentOwners DEF Good
<1> QED
  BY <1>1, <1>2, <1>4, <1>5

LEMMA StartTypes ==
    ASSUME AgentTypes, phase' = "running", UNCHANGED <<added, refused, damage>>,
           virtio_listen_fd' \in Fds \cup {-1}, virtio_client_fd' \in Int,
           uinput_fd' \in Fds \cup {-1}, stops' \in 0 .. 2,
           table' \in [Fds -> {"free", "other"} \cup AgentWatches]
    PROVE  AgentTypes'
  BY DEF AgentTypes

LEMMA StartKeeps ==
    ASSUME AgentInv, StartWithout \/ BindFails \/ UinputFails \/ AgentStart
    PROVE  AgentInv'
<1>1. CASE StartWithout
  <2>1. /\ phase = "starting" /\ StartedAs(-1, -1, -1) /\ UNCHANGED <<context, wanted, table, stops>>
    BY <1>1 DEF StartWithout
  <2>s. /\ phase' = "running" /\ UNCHANGED <<ready, running, added, refused, damage>>
        /\ virtio_listen_fd' = -1 /\ virtio_client_fd' = -1 /\ uinput_fd' = -1
        /\ Good(context, wanted) /\ OneEach
        /\ AgentTypes /\ added = FALSE /\ refused = FALSE /\ stops = 0 /\ damage = {}
        /\ \A w \in AgentWatches : w \notin context.live /\ w \notin wanted
    BY <2>1, StartsWith
  <2>2. CoreInv'
    BY <2>1, <2>s, KeepsCore
  <2>3. AgentTypes'
    BY <2>1, <2>s, StartTypes DEF AgentTypes
  <2>4. AgentParts'
    BY <2>1, <2>3, <2>s, AgentOwners DEF AgentParts, ListenMatches, ClientMatches, UinputMatches,
       Together, FieldsKnown, StartsClean, ClosesItsOwn
  <2> QED
    BY <2>2, <2>4 DEF AgentInv
<1>2. CASE BindFails
  <2> DEFINE fd == Lowest(Free)
  <2>1. /\ phase = "starting" /\ StartedAs(fd, -1, -1) /\ UNCHANGED <<context, wanted, stops>>
        /\ Free # {} /\ table' = [table EXCEPT ![fd] = "listen"]
    BY <1>2 DEF BindFails
  <2>2. fd \in Fds
    BY <2>1, FreeIsFree
  <2> HIDE DEF fd
  <2>s. /\ phase' = "running" /\ UNCHANGED <<ready, running, added, refused, damage>>
        /\ virtio_listen_fd' = fd /\ virtio_client_fd' = -1 /\ uinput_fd' = -1
        /\ Good(context, wanted) /\ OneEach
        /\ AgentTypes /\ added = FALSE /\ refused = FALSE /\ stops = 0 /\ damage = {}
        /\ \A w \in AgentWatches : w \notin context.live /\ w \notin wanted
    BY <2>1, StartsWith
  <2>3. CoreInv'
    BY <2>1, <2>s, KeepsCore
  <2>4. AgentTypes' /\ table'[virtio_listen_fd'] = "listen"
    <3>1. /\ table' \in [Fds -> {"free", "other"} \cup AgentWatches]
          /\ table'[virtio_listen_fd'] = "listen"
      BY <2>1, <2>2, <2>s, AgentOwners DEF AgentTypes
    <3> QED
      BY <2>1, <2>2, <2>s, <3>1, StartTypes
  <2>5. AgentParts'
    BY <2>1, <2>4, <2>s, AgentOwners DEF AgentParts, ListenMatches, ClientMatches, UinputMatches,
       Together, FieldsKnown, StartsClean, ClosesItsOwn
  <2> QED
    BY <2>3, <2>5 DEF AgentInv
<1>3. CASE UinputFails
  <2> DEFINE fd == Lowest(Free)
             c == WatchAdd(context, "listen", TRUE)
  <2>1. /\ phase = "starting" /\ StartedAs(fd, fd - 1, -1) /\ UNCHANGED <<wanted, table>>
        /\ Free # {} /\ stops' = 1 /\ context' = WatchRemove(c, "listen")
    BY <1>3 DEF UinputFails
  <2>2. fd \in Fds /\ fd - 1 \in Int /\ fd - 1 # -1
    <3>1. fd \in Fds
      BY <2>1, FreeIsFree
    <3> HIDE DEF fd
    <3>2. fd \in Nat \ {0}
      BY <3>1, AgentAssumption
    <3> QED
      BY <3>1, <3>2
  <2> HIDE DEF fd
  <2>s. /\ phase' = "running" /\ UNCHANGED <<ready, running, added, refused, damage>>
        /\ virtio_listen_fd' = fd /\ virtio_client_fd' = fd - 1 /\ uinput_fd' = -1
        /\ Good(context, wanted) /\ OneEach
        /\ AgentTypes /\ added = FALSE /\ refused = FALSE /\ stops = 0 /\ damage = {}
        /\ \A w \in AgentWatches : w \notin context.live /\ w \notin wanted
    BY <2>1, StartsWith
  <2>3. Good(c, wanted \cup {"listen"}) /\ c.live = context.live \cup {"listen"}
    BY <2>1, <2>s, WatchAddIsGood, AgentOwners
  <2> HIDE DEF c
  <2>4. /\ Good(context', (wanted \cup {"listen"}) \ {"listen"})
        /\ context'.live = (context.live \cup {"listen"}) \ {"listen"}
    BY <2>1, <2>3, RemoveIsGood, AgentOwners
  <2>5. "listen" \notin wanted /\ "listen" \notin context.live
    BY <2>1, <2>s, AgentOwners
  <2>6. (wanted \cup {"listen"}) \ {"listen"} = wanted'
    BY <2>1, <2>5
  <2>7. CoreInv'
    BY <2>1, <2>4, <2>6, <2>s, KeepsCore
  <2>8. \A w \in AgentWatches : w \notin context'.live
    BY <2>1, <2>4, <2>s
  <2>9. AgentTypes'
    <3>1. table' \in [Fds -> {"free", "other"} \cup AgentWatches]
      BY <2>1, <2>s DEF AgentTypes
    <3> QED
      BY <2>1, <2>2, <2>s, <3>1, StartTypes
  <2>10. AgentParts'
    BY <2>1, <2>2, <2>8, <2>9, <2>s, AgentOwners DEF AgentParts, ListenMatches, ClientMatches,
       UinputMatches, Together, FieldsKnown, StartsClean, ClosesItsOwn
  <2> QED
    BY <2>7, <2>10 DEF AgentInv
<1>4. CASE AgentStart
  <2> DEFINE listen == Lowest(Free)
             uinput == Lowest(Free \ {listen})
             c == WatchAdd(context, "listen", TRUE)
  <2>1. /\ phase = "starting" /\ StartedAs(listen, -1, uinput) /\ UNCHANGED stops
        /\ Cardinality(Free) > 1
        /\ table' = [table EXCEPT ![listen] = "listen", ![uinput] = "uinput"]
        /\ context' = WatchAdd(c, "uinput", TRUE)
        /\ wanted' = wanted \cup {"listen", "uinput"}
    BY <1>4 DEF AgentStart
  <2>2. listen \in Fds /\ uinput \in Fds /\ uinput # listen
    <3>1. listen \in Fds /\ Free \ {listen} # {} /\ Free \ {listen} \subseteq Fds
      BY <2>1, FreeIsFree
    <3> QED
      BY <3>1, LowestIsOne
  <2> HIDE DEF listen, uinput
  <2>s. /\ phase' = "running" /\ UNCHANGED <<ready, running, added, refused, damage>>
        /\ virtio_listen_fd' = listen /\ virtio_client_fd' = -1 /\ uinput_fd' = uinput
        /\ Good(context, wanted) /\ OneEach
        /\ AgentTypes /\ added = FALSE /\ refused = FALSE /\ stops = 0 /\ damage = {}
        /\ \A w \in AgentWatches : w \notin context.live /\ w \notin wanted
    BY <2>1, StartsWith
  <2>3. Good(c, wanted \cup {"listen"}) /\ c.live = context.live \cup {"listen"}
    BY <2>1, <2>s, WatchAddIsGood, AgentOwners
  <2> HIDE DEF c
  <2>4. /\ Good(context', (wanted \cup {"listen"}) \cup {"uinput"})
        /\ context'.live = (context.live \cup {"listen"}) \cup {"uinput"}
    BY <2>1, <2>3, <2>s, WatchAddIsGood, AgentOwners
  <2>5. (wanted \cup {"listen"}) \cup {"uinput"} = wanted'
    BY <2>1
  <2>6. CoreInv'
    BY <2>1, <2>4, <2>5, <2>s, KeepsCore
  <2>7. /\ "listen" \in context'.live /\ "uinput" \in context'.live /\ "client" \notin context'.live
        /\ "listen" \in wanted' /\ "uinput" \in wanted'
    BY <2>1, <2>4, <2>s, AgentOwners
  <2>8. /\ table' \in [Fds -> {"free", "other"} \cup AgentWatches]
        /\ table'[listen] = "listen" /\ table'[uinput] = "uinput"
    BY <2>1, <2>2, <2>s, AgentOwners DEF AgentTypes
  <2>9. AgentTypes'
    BY <2>1, <2>2, <2>8, <2>s, StartTypes
  <2>10. ListenMatches' /\ ClientMatches' /\ UinputMatches' /\ Together'
    BY <2>1, <2>2, <2>7, <2>8, <2>s DEF ListenMatches, ClientMatches, UinputMatches, Together
  <2>11. FieldsKnown' /\ StartsClean' /\ ClosesItsOwn'
    BY <2>1, <2>7, <2>8, <2>s DEF FieldsKnown, StartsClean, ClosesItsOwn
  <2> QED
    BY <2>6, <2>9, <2>10, <2>11 DEF AgentInv, AgentParts
<1> QED
  BY <1>1, <1>2, <1>3, <1>4

LEMMA RefusesSecondKeeps ==
    ASSUME AgentInv, NEW s \in ready, RefusesSecond(s)
    PROVE  AgentInv'
<1>1. /\ Calls("listen", s) /\ virtio_client_fd # -1 /\ refused' = TRUE
      /\ table' = [table EXCEPT ![virtio_listen_fd] = "free"]
      /\ damage' = damage \cup {name \in {"listen"} : Hits(name)}
      /\ UNCHANGED <<context, wanted, fdVars, added, stops>>
  BY DEF RefusesSecond
<1>2. /\ ready' = ready \ {s} /\ UNCHANGED <<running, phase>>
      /\ phase = "running" /\ "listen" \in context.live
  BY <1>1, CallsAre, AgentOwners
<1>3. CoreInv'
  <2>1. Good(context', wanted')
    BY <1>1 DEF AgentInv, CoreInv
  <2> QED
    BY <1>2, <2>1, DispatchKeeps DEF AgentInv
<1> USE DEF fdVars
<1>4. AgentParts
  BY DEF AgentInv
<1>5. table' \in [Fds -> {"free", "other"} \cup AgentWatches]
  BY <1>1, <1>4 DEF AgentParts, AgentTypes
<1>6. AgentTypes'
  <2>1. damage' \subseteq AgentWatches \cup {"interface"}
    BY <1>1, <1>4, AgentOwners DEF AgentParts, AgentTypes
  <2> QED
    BY <1>1, <1>2, <1>4, <1>5, <2>1 DEF AgentParts, AgentTypes
<1>7. ListenMatches' /\ ClientMatches' /\ UinputMatches'
  BY <1>1, <1>4 DEF AgentParts, AgentTypes, ListenMatches, ClientMatches, UinputMatches
<1>8. Together' /\ FieldsKnown' /\ StartsClean'
  BY <1>1, <1>2, <1>4 DEF AgentParts, Together, FieldsKnown, StartsClean
<1>9. ClosesItsOwn'
  BY <1>1, <1>4 DEF AgentParts, ClosesItsOwn
<1> QED
  BY <1>3, <1>6, <1>7, <1>8, <1>9 DEF AgentInv, AgentParts

LEMMA OnAcceptKeeps ==
    ASSUME AgentInv, NEW s \in ready, OnAccept(s)
    PROVE  AgentInv'
<1> DEFINE fd == Lowest(Free)
<1>1. /\ Calls("listen", s) /\ virtio_client_fd = -1 /\ Free # {}
      /\ virtio_client_fd' = fd /\ table' = [table EXCEPT ![fd] = "client"]
      /\ context' = WatchAdd(context, "client", TRUE)
      /\ wanted' = wanted \cup {"client"}
      /\ added' = TRUE
      /\ UNCHANGED <<virtio_listen_fd, uinput_fd, stops, refused, damage>>
  BY DEF OnAccept, historyVars
<1>2. /\ ready' = ready \ {s} /\ UNCHANGED <<running, phase>>
      /\ phase = "running" /\ "listen" \in context.live
  BY <1>1, CallsAre, AgentOwners
<1>3. fd \in Fds /\ table[fd] = "free"
  BY <1>1, FreeIsFree
<1> HIDE DEF fd
<1>4. fd # -1 /\ fd \in Int
  <2>1. fd \in Nat \ {0}
    BY <1>3, AgentAssumption
  <2> QED
    BY <2>1
<1>5. Good(context', wanted') /\ context'.live = context.live \cup {"client"}
  BY <1>1, WatchAddIsGood, AgentOwners DEF AgentInv, CoreInv
<1>6. CoreInv'
  BY <1>2, <1>5, DispatchKeeps DEF AgentInv
<1>7. AgentTypes /\ ListenMatches /\ UinputMatches /\ Together /\ FieldsKnown /\ ClosesItsOwn
  BY DEF AgentInv, AgentParts
<1>8. refused = FALSE
  BY <1>1, <1>7 DEF FieldsKnown, AgentTypes
<1>9. virtio_listen_fd \in Fds /\ table[virtio_listen_fd] = "listen" /\ "listen" \in wanted
  BY <1>2, <1>7, <1>8 DEF ListenMatches
<1>10. uinput_fd \in Fds /\ table[uinput_fd] = "uinput" /\ "uinput" \in wanted
       /\ uinput_fd # virtio_listen_fd /\ "uinput" \in context.live
  BY <1>2, <1>7 DEF UinputMatches, Together
<1>11. fd # virtio_listen_fd /\ fd # uinput_fd
  BY <1>3, <1>9, <1>10
<1>12. /\ table' \in [Fds -> {"free", "other"} \cup AgentWatches]
       /\ table'[virtio_listen_fd] = "listen" /\ table'[uinput_fd] = "uinput" /\ table'[fd] = "client"
  BY <1>1, <1>3, <1>7, <1>9, <1>10, <1>11, AgentOwners DEF AgentTypes
<1>13. /\ "listen" \in context'.live /\ "uinput" \in context'.live /\ "client" \in context'.live
       /\ "listen" \in wanted' /\ "uinput" \in wanted' /\ "client" \in wanted'
  BY <1>1, <1>2, <1>5, <1>9, <1>10
<1>14. AgentTypes'
  BY <1>1, <1>2, <1>4, <1>7, <1>12 DEF AgentTypes
<1>15. ListenMatches' /\ ClientMatches' /\ UinputMatches'
  BY <1>1, <1>3, <1>9, <1>10, <1>11, <1>12, <1>13 DEF ListenMatches, ClientMatches, UinputMatches
<1>16. Together' /\ FieldsKnown' /\ StartsClean' /\ ClosesItsOwn'
  BY <1>1, <1>2, <1>4, <1>7, <1>12, <1>13 DEF Together, FieldsKnown, StartsClean, ClosesItsOwn
<1> QED
  BY <1>6, <1>14, <1>15, <1>16 DEF AgentInv, AgentParts

\* Reading from the agent, which may find that it has died
LEMMA RecvKeeps ==
    ASSUME AgentInv, Recv, phase = "running", phase' = "running"
    PROVE  Good(context', wanted') /\ AgentParts'
<1>1. CASE Stop
  BY <1>1, StopKeeps
<1>2. CASE UNCHANGED <<context, wanted, table, fdVars, added, historyVars>>
  <2>1. AgentWatchesStay
    BY <1>2 DEF AgentWatchesStay
  <2>2. AgentParts'
    BY <1>2, <2>1, SameAgent DEF AgentInv
  <2> QED
    BY <1>2, <2>2 DEF AgentInv, CoreInv
<1> QED
  BY <1>1, <1>2 DEF Recv

\* What the agent leaves alone
LEMMA IdleKeeps ==
    ASSUME AgentInv, CoreInv', AgentWatchesStay,
           UNCHANGED <<phase, table, fdVars, added, historyVars>>
    PROVE  AgentInv'
  BY SameAgent DEF AgentInv

LEMMA DispatchedKeeps ==
    ASSUME AgentInv, NEW s \in ready, Dispatched(s)
    PROVE  AgentInv'
<1>1. CASE RefusesSecond(s)
  BY <1>1, RefusesSecondKeeps
<1>2. CASE OnAccept(s)
  BY <1>2, OnAcceptKeeps
<1>3. ASSUME NEW w \in AgentWatches, Calls(w, s),
             UNCHANGED <<context, wanted, table, fdVars, added, historyVars>>
      PROVE  AgentInv'
  <2>1. ready' = ready \ {s} /\ UNCHANGED <<running, phase>>
    BY <1>3, CallsAre
  <2>2. Good(context', wanted')
    BY <1>3 DEF AgentInv, CoreInv
  <2>3. CoreInv'
    BY <2>1, <2>2, DispatchKeeps DEF AgentInv
  <2> QED
    BY <1>3, <2>1, <2>3, IdleKeeps DEF AgentWatchesStay
<1>4. CASE AcceptFails(s)
  BY <1>3, <1>4, AgentOwners DEF AcceptFails
<1>5. CASE UinputReadCb(s)
  BY <1>3, <1>5, AgentOwners DEF UinputReadCb
<1>6. CASE OnReadAvailable(s)
  <2>1. Calls("client", s) /\ Recv
    BY <1>6 DEF OnReadAvailable
  <2>2. ready' = ready \ {s} /\ UNCHANGED <<running, phase>> /\ phase = "running"
    BY <2>1, CallsAre, AgentOwners
  <2>3. Good(context', wanted') /\ AgentParts'
    BY <2>1, <2>2, RecvKeeps
  <2> QED
    BY <2>2, <2>3, DispatchKeeps DEF AgentInv
<1>7. CASE (Skip(s) \/ WatchFunc(s)) /\ UNCHANGED agentVars
  <2>1. ready' = ready \ {s} /\ UNCHANGED <<context, running, wanted>>
    BY <1>7 DEF Skip, WatchFunc, Dispatches
  <2>2. Good(context', wanted')
    BY <2>1 DEF AgentInv, CoreInv
  <2>3. CoreInv'
    BY <2>1, <2>2, DispatchKeeps DEF AgentInv
  <2> QED
    BY <1>7, <2>1, <2>3, IdleKeeps DEF AgentWatchesStay, agentVars
<1>8. CASE TimerFunc(s) /\ UNCHANGED agentVars
  BY <1>8, TimerFuncKeeps, IdleKeeps DEF AgentInv, agentVars
<1> QED
  BY <1>1, <1>2, <1>4, <1>5, <1>6, <1>7, <1>8 DEF Dispatched

LEMMA LoopKeeps ==
    ASSUME AgentInv, Loop
    PROVE  AgentInv'
<1>1. UNCHANGED <<phase, table, fdVars, added, historyVars>>
  BY DEF Loop, agentVars
<1>2. ASSUME NEW t \in Timers, ServerTimer(t) PROVE AgentInv'
  BY <1>1, <1>2, ServerTimerKeeps, IdleKeeps DEF AgentInv
<1>3. ASSUME NEW w \in Watches, ServerWatch(w) PROVE AgentInv'
  BY <1>1, <1>3, ServerWatchKeeps, IdleKeeps DEF AgentInv
<1>4. CASE PollSome
  <2>1. PICK inputs \in Inputs : Poll(inputs)
    BY <1>4 DEF PollSome
  <2>2. CoreInv' /\ UNCHANGED <<context, wanted>>
    BY <2>1, PollKeeps DEF AgentInv
  <2> QED
    BY <1>1, <2>2, IdleKeeps DEF AgentWatchesStay
<1>5. CASE TimerFuncReturns
  BY <1>1, <1>5, TimerFuncReturnsKeeps, IdleKeeps DEF AgentInv
<1> QED
  BY <1>2, <1>3, <1>4, <1>5 DEF Loop

LEMMA OtherDescriptorKeeps ==
    ASSUME AgentInv, OtherDescriptor
    PROVE  AgentInv'
<1>1. UNCHANGED <<context, ready, running, wanted, phase, fdVars, added, historyVars>>
  BY DEF OtherDescriptor, coreVars
<1>2. AgentParts
  BY DEF AgentInv
<1>3. PICK fd \in Fds, as \in {"free", "other"} :
         table[fd] \in {"free", "other"} /\ table' = [table EXCEPT ![fd] = as]
  <2>1. CASE Free # {} /\ table' = [table EXCEPT ![Lowest(Free)] = "other"]
    BY <2>1, FreeIsFree
  <2>2. CASE \E fd \in Fds \ {Stderr} : table[fd] = "other" /\ table' = [table EXCEPT ![fd] = "free"]
    BY <2>2
  <2> QED
    BY <2>1, <2>2 DEF OtherDescriptor
<1>4. /\ table' \in [Fds -> {"free", "other"} \cup AgentWatches]
      /\ \A x \in Fds : table[x] \in AgentWatches => table'[x] = table[x]
  BY <1>2, <1>3, AgentOwners DEF AgentParts, AgentTypes
<1> USE <1>1, <1>2 DEF fdVars, historyVars, AgentParts
<1>5. AgentTypes'
  BY <1>4 DEF AgentTypes
<1>6. ListenMatches' /\ ClientMatches' /\ UinputMatches'
  BY <1>4, AgentOwners DEF ListenMatches, ClientMatches, UinputMatches
<1>7. Together' /\ StartsClean' /\ ClosesItsOwn'
  BY DEF Together, StartsClean, ClosesItsOwn
<1>8. FieldsKnown'
  BY <1>4, AgentOwners DEF FieldsKnown, AgentTypes
<1>9. CoreInv'
  BY KeepsCore DEF AgentInv, CoreInv
<1> QED
  BY <1>5, <1>6, <1>7, <1>8, <1>9 DEF AgentInv

LEMMA StepAgentInv == AgentInv /\ [Next]_vars => AgentInv'
<1> SUFFICES ASSUME AgentInv, [Next]_vars PROVE AgentInv'
  OBVIOUS
<1>1. ASSUME UNCHANGED <<coreVars, phase, table, fdVars, added, historyVars>> PROVE AgentInv'
  <2>1. UNCHANGED <<context, ready, running, wanted>>
    BY <1>1 DEF coreVars
  <2>2. CoreInv'
    BY <2>1, KeepsCore DEF AgentInv, CoreInv
  <2> QED
    BY <1>1, <2>1, <2>2, IdleKeeps DEF AgentWatchesStay
<1>2. CASE Connects \/ VdagentdActs \/ UNCHANGED vars
  BY <1>1, <1>2 DEF Connects, VdagentdActs, vars, agentVars
<1>3. CASE AgentCharRead
  <2>1. phase = "running" /\ phase' = "running" /\ Recv /\ UNCHANGED <<ready, running>>
    BY <1>3 DEF AgentCharRead
  <2>2. Good(context', wanted') /\ AgentParts'
    BY <2>1, RecvKeeps
  <2> QED
    BY <2>1, <2>2, KeepsCore DEF AgentInv, CoreInv
<1>4. CASE AgentStop
  <2>1. phase = "running" /\ phase' = "stopped" /\ Stop /\ UNCHANGED <<ready, running>>
    BY <1>4 DEF AgentStop
  <2>2. Good(context', wanted') /\ AgentParts'
    BY <2>1, StopKeeps
  <2> QED
    BY <2>1, <2>2, KeepsCore DEF AgentInv, CoreInv
<1> QED
  BY <1>2, <1>3, <1>4, StartKeeps, LoopKeeps, DispatchedKeeps, OtherDescriptorKeeps DEF Next

LEMMA Invariance == Spec => []AgentInv
<1> QED
  BY InitAgentInv, StepAgentInv, PTL DEF Spec

-----------------------------------------------------------------------------
(* Results *)

\* No callback comes for a timer or a watch that was cancelled, removed, or has been served,
\* and none that is waited for is lost, whatever spice-server calls from inside callbacks.
THEOREM CallbacksWanted == Spec => []CallbacksAreWanted
<1>1. AgentInv => CallbacksAreWanted
  BY DEF AgentInv, CoreInv, Good, Contexts, CallbacksAreWanted
<1> QED
  BY <1>1, Invariance, PTL

\* The agent's watches are on its own descriptors exactly while these are in use.
THEOREM WatchesAreRight == Spec => []WatchesMatch
<1>1. AgentInv => WatchesMatch
  <2> SUFFICES ASSUME AgentInv PROVE WatchesMatch
    OBVIOUS
  <2>1. ListenMatches /\ ClientMatches /\ UinputMatches /\ Together
    BY DEF AgentInv, AgentParts
  <2>2. \A w \in AgentWatches \cap context.live :
           w \in wanted /\ (table[Field(w)] = w \/ (w = "listen" /\ refused))
    BY <2>1, AgentOwners DEF ListenMatches, ClientMatches, UinputMatches, Field
  <2>3. phase # "running" => AgentWatches \cap context.live = {}
    BY <2>1, AgentOwners DEF Together
  <2> QED
    BY <2>1, <2>2, <2>3 DEF WatchesMatch, Together
<1> QED
  BY <1>1, Invariance, PTL

\* Up to the second stop, or a second vdagentd, the agent closes no one else's descriptor.
THEOREM DescriptorsAreItsOwn == Spec => []ClosesItsOwn
<1>1. AgentInv => ClosesItsOwn
  BY DEF AgentInv, AgentParts
<1> QED
  BY <1>1, Invariance, PTL
=============================================================================
