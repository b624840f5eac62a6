---------------------------- MODULE LocalProofs -----------------------------
(***************************************************************************)
(* Proofs about the in-process pairs, for every number of consumers and of *)
(* joins: the strong count is exact, hence the channel is freed once, when *)
(* nobody uses it any more.                                                *)
(***************************************************************************)
EXTENDS LocalElements, ChannelProofs, FiniteSetTheorems

\* The living endpoints are finitely many.
LEMMA LiveFinite == IsFiniteSet(InState("live")) /\ Living \in Nat
<1>1. Handles = Consumers \cup {producer}
  BY DEF Handles
<1>2. IsFiniteSet(Handles)
  BY <1>1, HandlesAssumption, FS_AddElement
<1>3. InState("live") \in SUBSET Handles
  BY DEF InState
<1> QED BY <1>2, <1>3, FS_Subset, FS_CardinalityType DEF Living

\* One more lives when a handle becomes live.
LEMMA OneMore ==
  ASSUME NEW h \in Handles, TypeOK, handle[h] # "live",
         handle' = [handle EXCEPT ![h] = "live"]
  PROVE  Living' = Living + 1
<1>1. IsFiniteSet(InState("live")) /\ h \notin InState("live")
  BY LiveFinite DEF InState
<1>2. InState("live")' = InState("live") \cup {h}
  BY DEF InState, TypeOK
<1> QED BY <1>1, <1>2, FS_AddElement DEF Living

\* One less lives when a live handle goes.
LEMMA OneLess ==
  ASSUME NEW h \in Handles, TypeOK, handle[h] = "live", NEW t, t # "live",
         handle' = [handle EXCEPT ![h] = t]
  PROVE  Living' = Living - 1
<1>1. IsFiniteSet(InState("live")) /\ h \in InState("live")
  BY LiveFinite DEF InState
<1>2. InState("live")' = InState("live") \ {h}
  BY DEF InState, TypeOK
<1> QED BY <1>1, <1>2, FS_RemoveElement DEF Living

\* The changes of a handle that does not live before or after do not count.
LEMMA AsMany ==
  ASSUME NEW h \in Handles, TypeOK, handle[h] # "live", NEW t, t # "live",
         handle' = [handle EXCEPT ![h] = t]
  PROVE  Living' = Living
<1>1. InState("live")' = InState("live")
  BY DEF InState, TypeOK
<1> QED BY <1>1 DEF Living

\* The count is zero exactly when none lives, and one when only one does.
LEMMA FewLive ==
  /\ Living = 0 <=> \A h \in Handles : handle[h] # "live"
  /\ Living = 1 => \A g, h \in Handles :
                     handle[g] = "live" /\ handle[h] = "live" => g = h
<1>1. Living = 0 <=> InState("live") = {}
  BY LiveFinite, FS_EmptySet DEF Living
<1>2. Living = 1 => \E x : InState("live") = {x}
  BY LiveFinite, FS_Singleton DEF Living
<1> QED BY <1>1, <1>2 DEF InState

-----------------------------------------------------------------------------
\* Nothing is there before the allocation.
LEMMA InitCount == Init => CountExact
<1> SUFFICES ASSUME Init PROVE CountExact
  OBVIOUS
<1>1. TypeOK
  BY DEF Init, TypeOK
<1>2. \A h \in Handles : handle[h] = "none"
  BY DEF Init
<1>3. Living = 0
  BY <1>2, FewLive
<1> QED BY <1>1, <1>2, <1>3 DEF Init, CountExact, Stages

\* The allocation.
LEMMA AllocateStep ==
  ASSUME CountExact, Allocate
  PROVE  CountExact'
<1>1. /\ ctor = "alloc" /\ ctor' = "producer" /\ mem' = "live" /\ strong' = 1
      /\ UNCHANGED <<handle, keeper, joins, lost>>
  BY DEF Allocate
<1>2. Living' = Living /\ Living = 0
  BY <1>1, FewLive DEF Living, InState, CountExact, Stages
<1>3. TypeOK'
  BY <1>1 DEF CountExact, TypeOK
<1>4. Stages'
  BY <1>1 DEF CountExact, Stages
<1> QED BY <1>1, <1>2, <1>3, <1>4 DEF CountExact, Stages

\* An endpoint is made, by the constructor or by a join: one more is counted.
LEMMA EndpointMade ==
  ASSUME CountExact, NEW h \in Handles,
         handle' = [handle EXCEPT ![h] = "live"], strong' = strong + 1,
         MakeProducer \/ MakeConsumer(h) \/ RejoinCount(h),
         MakeProducer => h = producer
  PROVE  CountExact'
<1> USE DEF CountExact
<1>1. /\ handle[h] \in {"none", "joining"} /\ mem' = mem
      /\ UNCHANGED <<keeper, lost, joins>>
      /\ mem = "live" /\ strong # 0
  BY FewLive, LiveFinite DEF MakeProducer, MakeConsumer, RejoinCount, Stages, TypeOK
<1>2. Living' = Living + 1 /\ Living \in Nat
  BY <1>1, OneMore, LiveFinite
<1>3. TypeOK'
  BY DEF MakeProducer, MakeConsumer, RejoinCount, TypeOK
<1>4. \A g \in Handles : handle'[g] = IF g = h THEN "live" ELSE handle[g]
  BY DEF TypeOK
<1>5. Stages'
  BY <1>1, <1>4 DEF MakeProducer, MakeConsumer, RejoinCount, Stages, Handles
<1>6. strong' = Living' + lost' + (IF ctor' \in {"producer", "consumers"} THEN 1 ELSE 0)
  BY <1>1, <1>2 DEF MakeProducer, MakeConsumer, RejoinCount, TypeOK
<1>7. strong' # 0 /\ \A g \in Handles : handle'[g] # "dropping"
  BY <1>1, <1>4 DEF TypeOK
<1>8. \A j \in Handles : handle'[j] = "joining" => handle'[keeper'[j]] = "live"
  BY <1>1, <1>4 DEF TypeOK
<1> QED BY <1>1, <1>3, <1>5, <1>6, <1>7, <1>8 DEF MakeProducer, MakeConsumer, RejoinCount

\* The pair is handed out, and the constructor's own count is gone.
LEMMA ReleaseStep ==
  ASSUME CountExact, Release
  PROVE  CountExact'
<1> USE DEF CountExact
<1>1. /\ ctor = "consumers" /\ ctor' = "done" /\ strong' = strong - 1
      /\ UNCHANGED <<mem, handle, keeper, joins, lost>>
      /\ \A c \in Consumers : handle[c] = "live"
  BY DEF Release
<1>2. Living' = Living /\ Living \in Nat /\ Living # 0
  BY <1>1, FewLive, LiveFinite DEF Living, InState, Stages, Handles
<1>3. strong' = Living + lost /\ lost \in Nat /\ strong' \in Nat /\ strong' # 0 /\ strong # 0
  BY <1>1, <1>2 DEF TypeOK
<1>4. TypeOK'
  BY <1>1, <1>3 DEF TypeOK
<1>5. Stages'
  BY <1>1 DEF Stages, Handles
<1> QED BY <1>1, <1>2, <1>3, <1>4, <1>5

\* A panic of the constructor keeps its count for good.
LEMMA PanicStep ==
  ASSUME CountExact, Panic
  PROVE  CountExact'
<1> USE DEF CountExact
<1>0. producer \in Handles /\ lost = 0
  BY DEF Handles, Panic, Stages
<1>1. /\ ctor \in {"producer", "consumers"} /\ ctor' = "panic" /\ lost' = 1
      /\ UNCHANGED <<mem, keeper, joins>> /\ strong # 0 /\ mem = "live"
  BY <1>0, LiveFinite DEF Panic, TypeOK
<1>2. CASE ctor = "producer"
  <2>1. UNCHANGED <<strong, handle>>
    BY <1>2 DEF Panic
  <2>2. Living' = Living /\ Living = 0
    BY <1>2, <2>1, FewLive DEF Living, InState, Stages
  <2>3. TypeOK' /\ Stages'
    BY <1>1, <1>2, <2>1 DEF TypeOK, Stages
  <2> QED BY <1>0, <1>1, <1>2, <2>1, <2>2, <2>3 DEF TypeOK
<1>3. CASE ctor = "consumers"
  <2>1. /\ strong' = strong - 1 /\ handle' = [handle EXCEPT ![producer] = "gone"]
        /\ InState("live") = {producer}
    BY <1>3 DEF Panic
  <2>2. Living' = Living - 1 /\ Living = 1
    <3>1. Living = 1 /\ handle[producer] = "live"
      BY <2>1, FS_Singleton DEF Living, InState
    <3>2. Living' = Living - 1
      BY <1>0, <2>1, <3>1, OneLess
    <3> QED BY <3>1, <3>2
  <2>3. \A h \in Handles : handle'[h] \in {"none", "gone"}
    BY <1>3, <2>1 DEF Stages, TypeOK, InState
  <2>4. TypeOK' /\ Stages'
    BY <1>0, <1>1, <2>1, <2>2, <2>3 DEF TypeOK, Stages
  <2> QED BY <1>0, <1>1, <1>3, <2>1, <2>2, <2>3, <2>4
<1> QED BY <1>1, <1>2, <1>3

\* A dropped endpoint takes one off, and the last one goes on to free.
LEMMA DropStep ==
  ASSUME CountExact, NEW h \in Handles, Drop(h)
  PROVE  CountExact'
<1> USE DEF CountExact
<1> DEFINE t == IF strong = 1 THEN "dropping" ELSE "gone"
<1>1. /\ ctor = "done" /\ handle[h] = "live" /\ strong' = strong - 1
      /\ \A j \in Handles : handle[j] = "joining" => keeper[j] # h
      /\ handle' = [handle EXCEPT ![h] = t]
      /\ UNCHANGED <<mem, ctor, keeper, joins, lost>>
  BY DEF Drop, InState
<1>2. t \in {"dropping", "gone"} /\ t # "live"
  OBVIOUS
<1>3. Living' = Living - 1 /\ Living \in Nat /\ Living # 0
  BY <1>1, <1>2, OneLess, LiveFinite, FewLive
<1>4. /\ lost \in Nat /\ strong = Living + lost /\ strong' = Living' + lost
      /\ strong' \in Nat /\ mem = "live"
  BY <1>1, <1>3 DEF Stages, TypeOK
<1>5. \A g \in Handles : handle'[g] = IF g = h THEN t ELSE handle[g]
  BY <1>1 DEF TypeOK
<1>6. TypeOK'
  BY <1>1, <1>2, <1>4 DEF TypeOK
<1>7. Stages'
  BY <1>1, <1>2, <1>4, <1>5 DEF Stages
<1>8. strong' = 0 => handle'[h] = "dropping"
  BY <1>1, <1>4, <1>5 DEF TypeOK
<1>9. \A g \in Handles : handle'[g] = "dropping" => strong' = 0 /\ g = h
  BY <1>1, <1>3, <1>4, <1>5
<1>10. \A j \in Handles : handle'[j] = "joining" => handle'[keeper'[j]] = "live"
  BY <1>1, <1>2, <1>5 DEF TypeOK
<1>11. strong' = Living' + lost' + (IF ctor' \in {"producer", "consumers"} THEN 1 ELSE 0)
  <2>1. /\ lost' = lost /\ ctor' = "done" /\ strong' = Living' + lost
        /\ Living' \in Nat /\ lost \in Nat
    BY <1>1, <1>3, <1>4
  <2> HIDE DEF CountExact
  <2> QED BY <2>1
<1>12. mem' = "live" /\ ctor' = "done"
  BY <1>1, <1>4
<1> QED BY <1>6, <1>7, <1>8, <1>9, <1>10, <1>11, <1>12

\* The memory goes back once.
LEMMA FreeStep ==
  ASSUME CountExact, NEW h \in Handles, Free(h)
  PROVE  CountExact'
<1> USE DEF CountExact
<1>1. /\ handle[h] = "dropping" /\ mem' = "freed"
      /\ handle' = [handle EXCEPT ![h] = "gone"]
      /\ UNCHANGED <<strong, ctor, keeper, joins, lost>>
  BY DEF Free
<1>2. Living' = Living
  BY <1>1, AsMany
<1>3. strong = 0 /\ mem # "none" /\ ctor = "done"
  BY <1>1 DEF Stages, TypeOK
<1>4. \A g \in Handles : handle'[g] = IF g = h THEN "gone" ELSE handle[g]
  BY <1>1 DEF TypeOK
<1>5. TypeOK' /\ Stages'
  BY <1>1, <1>3, <1>4 DEF TypeOK, Stages
<1>6. \A g \in Handles : handle'[g] # "dropping"
  BY <1>1, <1>4
<1>7. \A j \in Handles : handle'[j] = "joining" => handle'[keeper'[j]] = "live"
  BY <1>1, <1>4 DEF TypeOK
<1> QED BY <1>1, <1>2, <1>3, <1>5, <1>6, <1>7

\* A join begins while the handle it relies on lives.
LEMMA RejoinStep ==
  ASSUME CountExact, NEW h \in Handles, NEW k \in Handles, Rejoin(h, k)
  PROVE  CountExact'
<1> USE DEF CountExact
<1>1. /\ ctor = "done" /\ handle[h] = "gone" /\ handle[k] = "live"
      /\ joins' = joins + 1
      /\ handle' = [handle EXCEPT ![h] = "joining"]
      /\ keeper' = [keeper EXCEPT ![h] = k]
      /\ UNCHANGED <<mem, ctor>>
  BY DEF Rejoin
<1>0. PICK n \in {0, 1} : strong' = strong + n /\ lost' = lost + n
  BY DEF Rejoin, CountedBefore
<1>2. Living' = Living
  <2>1. TypeOK /\ handle[h] # "live" /\ handle' = [handle EXCEPT ![h] = "joining"]
    BY <1>1
  <2> QED BY <2>1, AsMany
<1>3. \A g \in Handles : /\ handle'[g] = IF g = h THEN "joining" ELSE handle[g]
                         /\ keeper'[g] = IF g = h THEN k ELSE keeper[g]
  BY <1>1 DEF TypeOK
<1>4. TypeOK' /\ Stages'
  BY <1>0, <1>1, <1>3 DEF TypeOK, Stages
<1>5. \A g \in Handles : handle'[g] # "dropping" /\ handle[g] # "dropping"
  <2>1. strong # 0
    BY <1>1, FewLive, LiveFinite DEF TypeOK
  <2> QED BY <1>1, <1>3, <2>1
<1>7. /\ strong' = Living' + lost' + (IF ctor' \in {"producer", "consumers"} THEN 1 ELSE 0)
      /\ strong' # 0 /\ mem' = "live"
  <2>1. Living \in Nat /\ Living # 0 /\ lost \in Nat /\ strong = Living + lost /\ mem = "live"
    BY <1>1, FewLive, LiveFinite DEF TypeOK
  <2>2. ctor' = "done" /\ mem' = "live"
    BY <1>1, <2>1
  <2> HIDE DEF CountExact
  <2> QED BY <1>0, <1>2, <2>1, <2>2
<1>6. \A j \in Handles : handle'[j] = "joining" => handle'[keeper'[j]] = "live"
  BY <1>1, <1>3 DEF TypeOK
<1> QED BY <1>1, <1>4, <1>5, <1>6, <1>7

\* Every step of the pair keeps the count exact.
LEMMA NextCount == CountExact /\ [Next]_vars => CountExact'
<1> SUFFICES ASSUME CountExact, [Next]_vars PROVE CountExact'
  OBVIOUS
<1>0. producer \in Handles /\ Consumers \subseteq Handles
  BY DEF Handles
<1>1. CASE Allocate \/ Release \/ Panic
  BY <1>1, AllocateStep, ReleaseStep, PanicStep
<1>2. CASE MakeProducer
  BY <1>0, <1>2, EndpointMade DEF MakeProducer
<1>3. ASSUME NEW h \in Handles, MakeConsumer(h) \/ RejoinCount(h)
      PROVE  CountExact'
  <2>1. ~MakeProducer
    BY <1>3 DEF MakeProducer, MakeConsumer, RejoinCount, CountExact, Stages
  <2> QED BY <1>3, <2>1, EndpointMade DEF MakeConsumer, RejoinCount
<1>4. CASE UNCHANGED vars
  <2>1. Living' = Living
    BY <1>4 DEF vars, Living, InState
  <2> QED BY <1>4, <2>1 DEF vars, CountExact, TypeOK, Stages
<1> QED
  BY <1>0, <1>1, <1>2, <1>3, <1>4, DropStep, FreeStep, RejoinStep DEF Next

\* Pushes and pops do not touch the count: a step of the elements is a step of
\* the pair, or none.
LEMMA ElementsRefine == [ElementsNext]_elementVars => [Next]_vars
  BY DEF ElementsNext, elementVars, PairStep, Make, Pop, PopZerocopy,
     FreeElements, JoinAtTail, Push, WriteCancelled, ApplicationDrop, Next

\* The strong count is exact in every pair, whatever its consumers, the order
\* of drops and joins, and the elements sent meanwhile.
THEOREM CountExactCorrect == ElementsSpec => []CountExact
<1>1. ElementsInit => CountExact
  BY InitCount DEF ElementsInit
<1>2. CountExact /\ [ElementsNext]_elementVars => CountExact'
  BY NextCount, ElementsRefine
<1> QED BY <1>1, <1>2, PTL DEF ElementsSpec

\* What may still be used is allocated.
LEMMA ExactNoUseAfterFree == CountExact => NoUseAfterFree
<1> SUFFICES ASSUME CountExact, mem # "live",
                    InState("live") \cup InState("joining") \cup InState("dropping") # {}
                      \/ ctor \in {"producer", "consumers"}
             PROVE  FALSE
  BY DEF NoUseAfterFree
<1>1. Living \in Nat /\ lost \in Nat /\ mem \in {"none", "freed"}
  BY LiveFinite DEF CountExact, TypeOK
<1>2. CASE mem = "none"
  BY <1>2 DEF CountExact, Stages, InState
<1>3. CASE mem = "freed"
  <2>1. Living = 0 /\ ctor \notin {"producer", "consumers"}
    BY <1>1, <1>3 DEF CountExact
  <2>2. \A h \in Handles : handle[h] # "live" /\ handle[h] # "joining"
    BY <2>1, FewLive DEF CountExact, TypeOK
  <2> QED BY <1>3, <2>1, <2>2 DEF CountExact, InState
<1> QED BY <1>1, <1>2, <1>3

\* Whoever may touch the channel - an endpoint, a join, the constructor - finds
\* it allocated, for every number of consumers and of joins.
THEOREM NoUseAfterFreeCorrect == ElementsSpec => []NoUseAfterFree
  BY ExactNoUseAfterFree, CountExactCorrect, PTL

\* The last endpoint frees, once, unless the caller of a join has counted too.
LEMMA ExactFreedOnce == CountExact => FreedExactlyOnce
<1> SUFFICES ASSUME CountExact PROVE FreedExactlyOnce
  OBVIOUS
<1>1. ASSUME InState("dropping") # {}
      PROVE  /\ Cardinality(InState("dropping")) = 1
             /\ strong = 0 /\ InState("live") = {}
  <2>1. PICK h \in Handles : handle[h] = "dropping"
    BY <1>1 DEF InState
  <2>2. InState("dropping") = {h} /\ strong = 0
    BY <2>1 DEF CountExact, InState
  <2>3. Living = 0
    BY <2>2, LiveFinite DEF CountExact, TypeOK
  <2> QED BY <2>2, <2>3, FewLive, FS_Singleton DEF InState
<1>2. ASSUME ctor = "done", \A h \in Handles : handle[h] = "gone"
      PROVE  mem = "freed" <=> lost = 0
  <2>1. lost \in Nat /\ strong = lost
    <3>1. Living = 0 /\ lost \in Nat /\ strong = Living + lost
      BY <1>2, FewLive DEF CountExact, TypeOK
    <3> QED BY <3>1
  <2> QED BY <1>2, <2>1 DEF CountExact, TypeOK
<1> QED BY <1>1, <1>2 DEF FreedExactlyOnce

\* The channel of a pair is freed at most once, by the last endpoint to go, and
\* it is freed exactly when no caller of Consumer::join has incremented the
\* count beforehand.
THEOREM FreedExactlyOnceCorrect == ElementsSpec => []FreedExactlyOnce
  BY ExactFreedOnce, CountExactCorrect, PTL

-----------------------------------------------------------------------------
(***************************************************************************)
(* The elements.                                                           *)
(***************************************************************************)

\* An element moves from the application into a slot, and what the slot held is
\* dropped.
LEMMA WriteSlotStep ==
  ASSUME Custody, mem = "live", NEW p \in Nat, NEW e \in owned, WriteSlot(p, e),
         UNCHANGED <<mem, made, popped, head>>, tail' \in Nat
  PROVE  Custody'
<1> DEFINE i == Index(p)
<1>0. i \in Slots
  BY IndexInSlots
<1> HIDE DEF i
<1>1. /\ slot \in [Slots -> 0 .. made] /\ owned \subseteq 0 .. made
      /\ made \in 0 .. MaxElements /\ drops \in [Elements -> Nat]
      /\ 1 .. made \subseteq Elements
  BY MaxElementsAssumption DEF Custody, ElementTypes, Elements
<1>2. /\ \A j \in Slots : slot'[j] = IF j = i THEN e ELSE slot[j]
      /\ \A f \in Elements : drops'[f] = IF slot[i] = f THEN drops[f] + 1 ELSE drops[f]
      /\ owned' = owned \ {e}
      /\ slot' \in [Slots -> 0 .. made] /\ drops' \in [Elements -> Nat]
  BY <1>0, <1>1 DEF WriteSlot, DropContent, i
<1>3. ElementTypes'
  BY <1>0, <1>1, <1>2 DEF Custody, ElementTypes
<1>4. \A f : InRing(f)' <=> \E j \in Slots : slot'[j] = f
  BY DEF InRing
<1>5. \A f : InRing(f) <=> \E j \in Slots : slot[j] = f
  BY DEF InRing
<1>6. \A j, k \in Slots : slot[j] = slot[k] /\ slot[j] \notin popped \cup {0} => j = k
  BY DEF Custody
<1>7. ASSUME NEW f \in (1 .. made) \ popped
      PROVE  \/ f \in owned' /\ ~InRing(f)' /\ drops'[f] = 0
             \/ f \notin owned' /\ InRing(f)' /\ drops'[f] = 0
             \/ f \notin owned' /\ ~InRing(f)' /\ drops'[f] = 1
  <2>0. /\ \/ f \in owned /\ ~InRing(f) /\ drops[f] = 0
           \/ f \notin owned /\ InRing(f) /\ drops[f] = 0
           \/ f \notin owned /\ ~InRing(f) /\ drops[f] = 1
        /\ f \in Elements /\ f # 0
    BY <1>1 DEF Custody
  <2>1. CASE f = e
    BY <1>0, <1>1, <1>2, <1>4, <1>5, <2>0, <2>1
  <2>2. CASE f # e /\ slot[i] = f
    <3>1. f \notin owned /\ drops[f] = 0
      BY <1>0, <1>5, <2>0, <2>2
    <3>2. ~InRing(f)'
      BY <1>0, <1>2, <1>4, <1>6, <2>0, <2>2
    <3> QED BY <1>2, <2>0, <2>2, <3>1, <3>2
  <2>3. CASE f # e /\ slot[i] # f
    BY <1>0, <1>2, <1>4, <1>5, <2>0, <2>3
  <2> QED BY <2>1, <2>2, <2>3
<1>8. ASSUME NEW j \in Slots, NEW k \in Slots, slot'[j] = slot'[k],
             slot'[j] \notin popped \cup {0}
      PROVE  j = k
  <2>1. e \notin popped \cup {0} => ~InRing(e)
    BY <1>1 DEF Custody
  <2> QED BY <1>2, <1>5, <1>6, <1>8, <2>1
<1> QED BY <1>3, <1>7, <1>8 DEF Custody

\* A new element is with the application, and nowhere else.
LEMMA MakeStep ==
  ASSUME Custody, CountExact, Make
  PROVE  Custody'
<1>1. /\ made' = made + 1 /\ owned' = owned \cup {made + 1} /\ made < MaxElements
      /\ UNCHANGED <<mem, slot, tail, head, drops, popped>> /\ mem # "none"
  BY DEF Make, vars, Live, CountExact
<1>2. /\ slot \in [Slots -> 0 .. made] /\ owned \subseteq 0 .. made /\ made \in Nat
      /\ MaxElements \in Nat /\ made + 1 \in Elements /\ drops[made + 1] = 0
  BY <1>1, MaxElementsAssumption DEF Custody, ElementTypes, Elements
<1>3. ElementTypes'
  BY <1>1, <1>2 DEF Custody, ElementTypes, Elements
<1>4. \A f : InRing(f)' <=> InRing(f)
  BY <1>1 DEF InRing
<1>5. ~InRing(made + 1)
  BY <1>2 DEF InRing
<1>6. ASSUME NEW f \in (1 .. made + 1) \ popped
      PROVE  \/ f \in owned' /\ ~InRing(f) /\ drops[f] = 0
             \/ f \notin owned' /\ InRing(f) /\ drops[f] = 0
             \/ f \notin owned' /\ ~InRing(f) /\ drops[f] = 1
  <2>1. CASE f = made + 1
    BY <1>1, <1>2, <1>5, <2>1
  <2>2. CASE f \in 1 .. made
    BY <1>1, <1>2, <2>2 DEF Custody
  <2> QED BY <1>2, <2>1, <2>2
<1> QED BY <1>1, <1>3, <1>4, <1>6 DEF Custody

\* What pop copies out is the application's from then on, and what the
\* application drops is dropped.
LEMMA ApplicationStep ==
  ASSUME Custody, Pop \/ PopZerocopy \/ \E e \in owned : ApplicationDrop(e)
  PROVE  Custody'
<1>0. UNCHANGED <<mem, slot, tail, made>> /\ \A f : InRing(f)' <=> InRing(f)
  BY DEF Pop, PopZerocopy, ApplicationDrop, vars, InRing
<1>1. /\ slot \in [Slots -> 0 .. made] /\ owned \subseteq 0 .. made /\ made \in Nat
      /\ head \in Nat /\ drops \in [Elements -> Nat] /\ 1 .. made \subseteq Elements
  BY MaxElementsAssumption DEF Custody, ElementTypes, Elements
<1>2. CASE PopZerocopy
  <2>1. UNCHANGED <<owned, drops, popped>> /\ head' \in Nat
    BY <1>1, <1>2 DEF PopZerocopy
  <2> QED BY <1>0, <2>1 DEF Custody, ElementTypes
<1>3. CASE Pop
  <2> DEFINE x == slot[Index(head)]
  <2>1. /\ owned' = owned \cup {x} /\ popped' = popped \cup {x}
        /\ drops' = drops /\ head' \in Nat
    BY <1>1, <1>3 DEF Pop
  <2>2. x \in 0 .. made
    BY <1>1, IndexInSlots
  <2> HIDE DEF x
  <2>3. ElementTypes'
    BY <1>0, <1>1, <2>1, <2>2 DEF Custody, ElementTypes
  <2> QED BY <1>0, <2>1, <2>3 DEF Custody
<1>4. ASSUME NEW e \in owned, ApplicationDrop(e) PROVE Custody'
  <2>1. /\ owned' = owned \ {e} /\ drops' = [drops EXCEPT ![e] = @ + 1]
        /\ UNCHANGED <<head, popped>>
    BY <1>4 DEF ApplicationDrop
  <2>2. \A f \in Elements : drops'[f] = IF f = e THEN drops[f] + 1 ELSE drops[f]
    BY <1>1, <2>1
  <2>3. ElementTypes'
    <3>0. drops' = [f \in Elements |-> IF f = e THEN drops[f] + 1 ELSE drops[f]]
      BY <1>1, <2>1
    <3>1. drops' \in [Elements -> Nat]
      BY <1>1, <3>0
    <3> QED BY <1>0, <1>1, <2>1, <2>2, <3>1 DEF Custody, ElementTypes
  <2>4. ASSUME NEW f \in (1 .. made) \ popped
        PROVE  \/ f \in owned' /\ ~InRing(f) /\ drops'[f] = 0
               \/ f \notin owned' /\ InRing(f) /\ drops'[f] = 0
               \/ f \notin owned' /\ ~InRing(f) /\ drops'[f] = 1
    <3>1. CASE f = e
      BY <1>1, <2>1, <2>2, <3>1 DEF Custody
    <3>2. CASE f # e
      BY <1>1, <2>1, <2>2, <3>2 DEF Custody
    <3> QED BY <3>1, <3>2
  <2> QED BY <1>0, <2>1, <2>3, <2>4 DEF Custody
<1> QED BY <1>2, <1>3, <1>4

\* Freeing the channel drops what is in the ring, once.
LEMMA FreeElementsStep ==
  ASSUME Custody, CountExact, NEW h \in Handles, FreeElements(h)
  PROVE  Custody'
<1>1. /\ drops' = DropContent(Slots) /\ mem' = "freed"
      /\ UNCHANGED <<slot, tail, head, made, owned, popped>>
  BY DEF FreeElements, Free
<1>2. mem = "live"
  BY DEF FreeElements, Free, CountExact, TypeOK, Stages
<1>3. drops \in [Elements -> Nat] /\ 1 .. made \subseteq Elements /\ made \in Nat
  BY MaxElementsAssumption DEF Custody, ElementTypes, Elements
<1>4. \A f \in Elements : drops'[f] = IF InRing(f) THEN drops[f] + 1 ELSE drops[f]
  BY <1>1, <1>2 DEF DropContent, InRing
<1>5. \A f : ~InRing(f)'
  BY <1>1 DEF InRing
<1>6. ElementTypes'
  <2>1. drops' \in [Elements -> Nat]
    BY <1>1, <1>3 DEF DropContent
  <2>2. \A f \in Elements : f > made => ~InRing(f)
    BY <1>3 DEF Custody, ElementTypes, InRing, Elements
  <2> QED BY <1>1, <1>2, <1>4, <2>1, <2>2 DEF Custody, ElementTypes
<1>7. ASSUME NEW f \in (1 .. made) \ popped
      PROVE  \/ f \in owned /\ drops'[f] = 0
             \/ f \notin owned /\ drops'[f] = 1
  BY <1>3, <1>4 DEF Custody
<1> QED BY <1>1, <1>5, <1>6, <1>7 DEF Custody

\* The steps of the pair leave the elements where they are.
LEMMA PairKeepsElements ==
  ASSUME Custody, CountExact,
         PairStep \/ (\E h \in Handles : JoinAtTail(h)) \/ UNCHANGED elementVars
  PROVE  Custody'
<1>1. UNCHANGED <<slot, tail, made, owned, drops, popped>> /\ head' \in {head, tail}
  BY DEF PairStep, JoinAtTail, elements, elementVars
<1>2. mem' = mem \/ Allocate
  BY DEF PairStep, JoinAtTail, elementVars, vars, MakeProducer, Panic, Release,
     MakeConsumer, Drop, Rejoin, RejoinCount
<1>3. CASE mem' = mem
  <2>1. \A f : InRing(f)' <=> InRing(f)
    BY <1>1, <1>3 DEF InRing
  <2> QED BY <1>1, <1>3, <2>1 DEF Custody, ElementTypes
<1>4. CASE Allocate
  <2>1. made = 0 /\ mem' = "live"
    BY <1>4 DEF Allocate, CountExact, Custody, ElementTypes
  <2>2. \A j \in Slots : slot[j] = 0
    BY <2>1 DEF Custody, ElementTypes
  <2>3. ElementTypes'
    BY <1>1, <2>1 DEF Custody, ElementTypes
  <2> QED BY <1>1, <2>1, <2>2, <2>3 DEF Custody
<1> QED BY <1>2, <1>3, <1>4

\* An element that pop has not copied out is dropped once or still in one place,
\* for every capacity, number of elements, and order of sends, restarts and
\* drops of the endpoints.
THEOREM CustodyCorrect == ElementsSpec => []Custody
<1>1. ElementsInit => Custody
  BY MaxElementsAssumption, CapacityPositive
     DEF ElementsInit, Init, Custody, ElementTypes, Slots, Elements
<1>2. Custody /\ CountExact /\ [ElementsNext]_elementVars => Custody'
  <2> SUFFICES ASSUME Custody, CountExact, [ElementsNext]_elementVars
               PROVE  Custody'
    OBVIOUS
  <2>1. ASSUME NEW e \in owned, Push(e) \/ WriteCancelled(e) PROVE Custody'
    <3>1. mem = "live"
      BY <2>1, FewLive, LiveFinite
         DEF Push, WriteCancelled, Live, CountExact, TypeOK, Handles, Stages
    <3>2. tail \in Nat /\ tail' \in Nat
      BY <2>1 DEF Push, WriteCancelled, Custody, ElementTypes
    <3>3. WriteSlot(tail, e) /\ UNCHANGED <<mem, made, popped, head>>
      BY <2>1 DEF Push, WriteCancelled, vars
    <3> QED BY <3>1, <3>2, <3>3, WriteSlotStep
  <2> QED BY <2>1, MakeStep, ApplicationStep, FreeElementsStep, PairKeepsElements
             DEF ElementsNext
<1> QED BY <1>1, <1>2, CountExactCorrect, PTL DEF ElementsSpec

=============================================================================
