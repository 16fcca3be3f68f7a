----------------------------- MODULE SceneFacts -----------------------------
(***************************************************************************)
(* What the methods of a scene do to it, for the proofs about the modules  *)
(* that own one: SceneProofs and GameProofs.                               *)
(***************************************************************************)
EXTENDS Scene, FiniteSetTheorems, SequenceTheorems, TLAPS

(* The first number of a set of numbers.                                   *)
LEMMA First ==
  ASSUME NEW S \in SUBSET Nat, S # {}
  PROVE  \E x \in S : \A y \in S : x <= y
<1> DEFINE R == OpToRel(<, Nat)
<1>1. IsWellFoundedOn(R, Nat)
  BY NatLessThanWellFounded
<1>2. PICK x \in S : \A y \in S : <<y, x>> \notin R
  BY <1>1, WFMin
<1>3. \A y \in S : ~(y < x)
  BY <1>2 DEF OpToRel
<1> QED
  BY <1>3

-----------------------------------------------------------------------------
(* The methods of the scene.                                               *)

Fields == {"entities", "free", "poolsSize", "pool", "componentId", "counter", "overrun"}

Mentioned(s) == {T \in Component : s.componentId[T] # NO_ID}

(* Ids of component types: as many are taken as types were asked for, and  *)
(* there are no more pools than ids.                                       *)
IdsOK(s) ==
  /\ s.componentId \in [Component -> Int] /\ s.poolsSize \in Nat
  /\ s.counter = Cardinality(Mentioned(s)) /\ s.poolsSize <= s.counter
  /\ \A T \in Component : s.componentId[T] \in -1..(s.counter - 1)

Entry == [id : Int \X Nat, mask : SUBSET Component]

(* A record with the fields of a scene.                                    *)
SceneOK(s) ==
  /\ DOMAIN s = Fields /\ IdsOK(s)
  /\ s.entities \in Seq(Entry) /\ s.free \in Seq(Nat)
  /\ DOMAIN s.pool = Component

(* Entities, the free list and the contents of the pools are the same.     *)
SameEntities(s, t) ==
  t.entities = s.entities /\ t.free = s.free /\ t.pool = s.pool /\ t.overrun = s.overrun

(* The ids of the types and the number of pools are the same.              *)
SameIds(s, t) ==
  t.componentId = s.componentId /\ t.counter = s.counter /\ t.poolsSize = s.poolsSize

(* Asking for the id of a type changes nothing else: a type that has none  *)
(* gets the next.                                                          *)
LEMMA MentionFacts ==
  ASSUME NEW s, SceneOK(s), NEW T \in Component
  PROVE  /\ SceneOK(Mention(s, T)) /\ SameEntities(s, Mention(s, T))
         /\ Mention(s, T).poolsSize = s.poolsSize
         /\ Mention(s, T).componentId[T] \in 0..(Mention(s, T).counter - 1)
         /\ s.counter \in Nat
         /\ IF s.componentId[T] # NO_ID THEN Mention(s, T) = s
            ELSE /\ Mention(s, T).componentId = [s.componentId EXCEPT ![T] = s.counter]
                 /\ Mention(s, T).counter = s.counter + 1
<1> DEFINE t == Mention(s, T)
<1>1. IsFiniteSet(Mentioned(s))
  BY SceneAssumption, FS_Subset DEF Mentioned
<1>2. s.counter \in Nat
  BY <1>1, FS_CardinalityType DEF SceneOK, IdsOK
<1>3. CASE s.componentId[T] # NO_ID
  BY <1>2, <1>3 DEF Mention, SceneOK, IdsOK, SameEntities, NO_ID
<1>4. CASE s.componentId[T] = NO_ID
  <2>1. /\ DOMAIN t = Fields /\ t.counter = s.counter + 1 /\ t.poolsSize = s.poolsSize
        /\ t.componentId = [s.componentId EXCEPT ![T] = s.counter]
        /\ SameEntities(s, t)
    BY <1>4 DEF Mention, SceneOK, Fields, SameEntities
  <2>2. Mentioned(t) = Mentioned(s) \union {T} /\ T \notin Mentioned(s)
    BY <1>2, <1>4, <2>1 DEF Mentioned, SceneOK, IdsOK, NO_ID
  <2>3. Cardinality(Mentioned(t)) = t.counter
    <3>1. Cardinality(Mentioned(s) \union {T}) = Cardinality(Mentioned(s)) + 1
      BY <1>1, <2>2, FS_AddElement
    <3>2. s.counter = Cardinality(Mentioned(s))
      BY DEF SceneOK, IdsOK
    <3> HIDE DEF t
    <3> QED
      BY <2>1, <2>2, <3>1, <3>2
  <2>4. IdsOK(t)
    BY <1>2, <2>1, <2>3 DEF SceneOK, IdsOK
  <2>5. SceneOK(t)
    BY <2>1, <2>4 DEF SceneOK, SameEntities
  <2>6. t.componentId[T] \in 0..(t.counter - 1)
    BY <1>2, <2>1 DEF SceneOK, IdsOK
  <2> HIDE DEF t
  <2>7. s.componentId[T] # NO_ID => t = s
    BY <1>4
  <2> QED
    BY <1>2, <1>4, <2>1, <2>5, <2>6, <2>7 DEF t
<1> QED
  BY <1>3, <1>4

(* A view asks for the ids of all its types, one after the other.          *)
LEMMA MentionAllChain ==
  ASSUME NEW s, NEW Ts \in Seq(Component)
  PROVE  \E f : /\ f[0] = s /\ f[Len(Ts)] = MentionAll(s, Ts)
                /\ \A n \in 1..Len(Ts) : f[n] = Mention(f[n - 1], Ts[n])
<1> DEFINE Len0 == Len(Ts)
           Next(f, i) == IF i = 0 THEN s ELSE Mention(f[i - 1], Ts[i])
           Defines(f, n) == f = [i \in 0..n |-> Next(f, i)]
           Bad == {n \in 0..Len0 : ~\E f : Defines(f, n)}
<1>0. Len0 \in Nat
  OBVIOUS
<1>1. Bad = {}
  <2> SUFFICES ASSUME Bad # {}
               PROVE  FALSE
    OBVIOUS
  <2>0. Bad \in SUBSET Nat
    BY <1>0
  <2>1. PICK n \in Bad : \A k \in Bad : n <= k
    <3> HIDE DEF Bad
    <3> QED
      BY <2>0, First
  <2>2. n # 0
    <3>1. Defines([i \in 0..0 |-> s], 0)
      OBVIOUS
    <3> QED
      BY <3>1
  <2>3. n \in 0..Len0 /\ n - 1 \in 0..Len0 /\ n - 1 \notin Bad
    <3>1. n \in 0..Len0
      BY <2>1
    <3>2. n - 1 \in 0..Len0 /\ ~(n <= n - 1)
      BY <1>0, <2>2, <3>1
    <3> HIDE DEF Bad
    <3> QED
      BY <2>1, <3>1, <3>2
  <2>4. PICK g : Defines(g, n - 1)
    BY <2>3
  <2> DEFINE f == [i \in 0..n |-> Next(g, i)]
  <2>5. \A i \in 0..(n - 1) : f[i] = g[i]
    BY <2>3, <2>4
  <2>6. ASSUME NEW i \in 0..n
        PROVE  Next(f, i) = Next(g, i)
    <3> HIDE DEF f
    <3>1. i = 0 \/ i - 1 \in 0..(n - 1)
      BY <1>0, <2>3
    <3>2. i = 0 \/ f[i - 1] = g[i - 1]
      BY <2>5, <3>1
    <3> QED
      BY <3>2
  <2>7. Defines(f, n)
    BY <2>6
  <2> QED
    BY <2>1, <2>7
<1> DEFINE f == CHOOSE g : Defines(g, Len0)
<1>2. Defines(f, Len0)
  <2>1. \E g : Defines(g, Len0)
    <3>1. Len0 \in 0..Len0
      BY <1>0
    <3> QED
      BY <1>1, <3>1
  <2> HIDE DEF Defines
  <2> QED
    BY <2>1
<1>3. MentionAll(s, Ts) = f[Len0]
  BY <1>2 DEF MentionAll
<1> HIDE DEF f
<1>4. f[0] = s /\ \A n \in 1..Len0 : f[n] = Mention(f[n - 1], Ts[n])
  BY <1>0, <1>2
<1> QED
  BY <1>3, <1>4

(* And changes nothing else.                                               *)
LEMMA MentionAllFacts ==
  ASSUME NEW s, SceneOK(s), NEW Ts \in Seq(Component)
  PROVE  SceneOK(MentionAll(s, Ts)) /\ SameEntities(s, MentionAll(s, Ts))
<1>1. PICK f : /\ f[0] = s /\ f[Len(Ts)] = MentionAll(s, Ts)
               /\ \A n \in 1..Len(Ts) : f[n] = Mention(f[n - 1], Ts[n])
  BY MentionAllChain
<1> DEFINE Len0 == Len(Ts)
           Wrong == {n \in 0..Len0 : ~(SceneOK(f[n]) /\ SameEntities(s, f[n]))}
<1>2. Len0 \in Nat
  OBVIOUS
<1>3. Wrong = {}
  <2> SUFFICES ASSUME Wrong # {}
               PROVE  FALSE
    OBVIOUS
  <2>0. Wrong \in SUBSET Nat
    BY <1>2
  <2>1. PICK n \in Wrong : \A k \in Wrong : n <= k
    <3> HIDE DEF Wrong
    <3> QED
      BY <2>0, First
  <2>2. n # 0
    BY <1>1, <2>1 DEF SameEntities
  <2>3. SceneOK(f[n - 1]) /\ SameEntities(s, f[n - 1]) /\ Ts[n] \in Component
    BY <1>2, <2>1, <2>2
  <2>4. f[n] = Mention(f[n - 1], Ts[n])
    BY <1>1, <1>2, <2>1, <2>2
  <2>5. SceneOK(f[n]) /\ SameEntities(f[n - 1], f[n])
    <3>1. ASSUME NEW g, SceneOK(g), NEW T \in Component
          PROVE  SceneOK(Mention(g, T)) /\ SameEntities(g, Mention(g, T))
      BY <3>1, MentionFacts
    <3> QED
      BY <2>3, <2>4, <3>1, Zenon
  <2> QED
    BY <2>1, <2>3, <2>5 DEF SameEntities
<1> QED
  BY <1>1, <1>2, <1>3

(* The first n elements of a sequence.                                     *)
LEMMA PrefixFacts ==
  ASSUME NEW S, NEW q \in Seq(S), NEW n \in 0..Len(q)
  PROVE  /\ SubSeq(q, 1, n) \in Seq(S) /\ Len(SubSeq(q, 1, n)) = n
         /\ \A k \in 1..n : SubSeq(q, 1, n)[k] = q[k]
<1> DEFINE r == SubSeq(q, 1, n)
<1>1. n \in Nat /\ \A i \in 1..n : q[i] \in S
  OBVIOUS
<1>2. r \in Seq(S) /\ Len(r) = (IF 1 <= n THEN n - 1 + 1 ELSE 0) /\ \A i \in 1..(n - 1 + 1) : r[i] = q[1 + i - 1]
  BY <1>1, SubSeqProperties
<1> HIDE DEF r
<1>3. n - 1 + 1 = n /\ (~(1 <= n) => n = 0)
  BY <1>1
<1>4. \A i \in 1..n : 1 + i - 1 = i
  BY <1>1
<1> QED
  BY <1>2, <1>3, <1>4 DEF r

(* A sequence without its last element: what pop_back leaves of the free   *)
(* list.                                                                   *)
LEMMA FrontFacts ==
  ASSUME NEW S, NEW q \in Seq(S), q # <<>>
  PROVE  /\ Len(q) \in Nat \ {0} /\ Len(q) - 1 \in 0..Len(q) /\ q[Len(q)] \in S
         /\ SubSeq(q, 1, Len(q) - 1) \in Seq(S) /\ Len(SubSeq(q, 1, Len(q) - 1)) = Len(q) - 1
         /\ \A k \in 1..(Len(q) - 1) : SubSeq(q, 1, Len(q) - 1)[k] = q[k]
<1>1. Len(q) \in Nat \ {0} /\ q[Len(q)] \in S
  OBVIOUS
<1>2. Len(q) - 1 \in 0..Len(q)
  BY <1>1
<1> QED
  BY <1>1, <1>2, PrefixFacts

(* What changes in a sequence when one of its elements does.               *)
LEMMA ElementChange ==
  ASSUME NEW S, NEW q \in Seq(S), NEW i \in 1..Len(q), NEW e \in S
  PROVE  /\ [q EXCEPT ![i] = e] \in Seq(S) /\ Len([q EXCEPT ![i] = e]) = Len(q)
         /\ [q EXCEPT ![i] = e][i] = e
         /\ \A j \in 1..Len(q) : j # i => [q EXCEPT ![i] = e][j] = q[j]
OBVIOUS

(* A slot's entry with another handle, or with another mask.               *)
LEMMA EntryChange ==
  ASSUME NEW x \in Entry, NEW y
  PROVE  /\ [x EXCEPT !.id = y] = [id |-> y, mask |-> x.mask]
         /\ [x EXCEPT !.mask = y] = [id |-> x.id, mask |-> y]
BY DEF Entry

(* What a slot of a well-formed scene holds.                               *)
LEMMA SlotFacts ==
  ASSUME NEW s, SceneOK(s), NEW i \in 0..(Size(s) - 1)
  PROVE  /\ Size(s) \in Nat /\ i + 1 \in 1..Len(s.entities) /\ Slot(s, i) \in Entry
         /\ Slot(s, i) = [id |-> Slot(s, i).id, mask |-> Slot(s, i).mask]
         /\ Slot(s, i).id = <<Index(Slot(s, i).id), Version(Slot(s, i).id)>>
         /\ Index(Slot(s, i).id) \in Int /\ Version(Slot(s, i).id) \in Nat
         /\ Slot(s, i).mask \subseteq Component
<1>1. Size(s) \in Nat /\ i + 1 \in 1..Len(s.entities) /\ Slot(s, i) \in Entry
  BY DEF SceneOK, Size, Slot
<1> QED
  BY <1>1 DEF Entry, Index, Version

(* From s to t slot i becomes e, and the others stay.                      *)
SlotBecomes(s, t, i, e) ==
  /\ t.entities \in Seq(Entry) /\ Size(t) = Size(s) /\ Slot(t, i) = e
  /\ \A j \in 0..(Size(s) - 1) : j # i => Slot(t, j) = Slot(s, j)

(* Replacing one entry of the list of entities changes that slot alone.    *)
LEMMA SlotChange ==
  ASSUME NEW s, SceneOK(s), NEW t, DOMAIN t = Fields, NEW i \in 0..(Size(s) - 1), NEW e \in Entry,
         t.entities = [s.entities EXCEPT ![i + 1] = e]
  PROVE  SlotBecomes(s, t, i, e)
<1>1. i + 1 \in 1..Len(s.entities) /\ s.entities \in Seq(Entry) /\ Len(s.entities) \in Nat
  BY DEF SceneOK, Size
<1>2. /\ t.entities \in Seq(Entry) /\ Len(t.entities) = Len(s.entities) /\ t.entities[i + 1] = e
      /\ \A j \in 1..Len(s.entities) : j # i + 1 => t.entities[j] = s.entities[j]
  BY <1>1, ElementChange
<1>3. \A j \in 0..(Size(s) - 1) : j # i => j + 1 \in 1..Len(s.entities) /\ j + 1 # i + 1
  BY <1>1 DEF Size
<1> QED
  BY <1>2, <1>3 DEF Size, Slot, SlotBecomes

(* new_entity gives a slot without components to the new handle, and takes *)
(* it off the end of the free list or makes it.                            *)
LEMMA NewEntityFacts ==
  ASSUME NEW s, SceneOK(s), NEW h, h = NewHandle(s),
         Index(h) \in Nat,
         s.free # <<>> => Index(h) \in 0..(Size(s) - 1) /\ Slot(s, Index(h)).mask = {}
  PROVE  /\ SceneOK(NewEntity(s))
         /\ NewEntity(s).pool = s.pool /\ NewEntity(s).overrun = s.overrun
         /\ SameIds(s, NewEntity(s))
         /\ h = <<Index(h), Version(h)>>
         /\ Slot(NewEntity(s), Index(h)) = [id |-> h, mask |-> {}]
         /\ \A i \in 0..(Size(s) - 1) : i # Index(h) => Slot(NewEntity(s), i) = Slot(s, i)
         /\ \/ /\ s.free # <<>> /\ Index(h) = s.free[Len(s.free)] /\ Size(NewEntity(s)) = Size(s)
               /\ Version(h) = Version(Slot(s, Index(h)).id)
               /\ NewEntity(s).free = SubSeq(s.free, 1, Len(s.free) - 1)
            \/ /\ s.free = <<>> /\ Index(h) = Size(s) /\ Size(NewEntity(s)) = Size(s) + 1
               /\ Version(h) = 0
               /\ NewEntity(s).free = s.free
<1> DEFINE t == NewEntity(s)
<1>0. Size(s) \in Nat
  BY DEF Size, SceneOK
<1>1. CASE s.free # <<>>
  <2>1. h = <<s.free[Len(s.free)], Version(Slot(s, s.free[Len(s.free)]).id)>>
    BY <1>1 DEF NewHandle
  <2>2. /\ h = <<Index(h), Version(h)>> /\ Index(h) = s.free[Len(s.free)]
        /\ Version(h) = Version(Slot(s, Index(h)).id)
    BY <2>1 DEF Index, Version
  <2> DEFINE e == [id |-> h, mask |-> {}]
  <2>3. e \in Entry
    <3>1. Version(h) \in Nat
      BY <1>1, <2>2, SlotFacts
    <3> QED
      BY <1>0, <2>2, <3>1 DEF Entry
  <2>10. e = [Slot(s, Index(h)) EXCEPT !.id = h]
    <3>1. Slot(s, Index(h)) \in Entry
      BY <1>1, SlotFacts
    <3>2. [Slot(s, Index(h)) EXCEPT !.id = h] = [id |-> h, mask |-> Slot(s, Index(h)).mask]
      BY <3>1, EntryChange
    <3> QED
      BY <1>1, <3>2, Zenon
  <2>4. /\ DOMAIN t = Fields /\ t.entities = [s.entities EXCEPT ![Index(h) + 1] = e]
        /\ t.free = SubSeq(s.free, 1, Len(s.free) - 1)
        /\ t.pool = s.pool /\ t.overrun = s.overrun /\ t.componentId = s.componentId
        /\ t.poolsSize = s.poolsSize /\ t.counter = s.counter
    BY <1>1, <2>10 DEF NewEntity, SceneOK, Fields, Slot
  <2>5. SlotBecomes(s, t, Index(h), e)
    <3>1. Index(h) \in 0..(Size(s) - 1)
      BY <1>1
    <3>2. DOMAIN t = Fields /\ t.entities = [s.entities EXCEPT ![Index(h) + 1] = e]
      BY <2>4, Zenon
    <3> HIDE DEF t, e
    <3> QED
      BY <2>3, <3>1, <3>2, SlotChange, Zenon
  <2>6. t.free \in Seq(Nat)
    <3>1. s.free \in Seq(Nat)
      BY DEF SceneOK
    <3>2. SubSeq(s.free, 1, Len(s.free) - 1) \in Seq(Nat)
      BY <1>1, <3>1, FrontFacts
    <3> QED
      BY <2>4, <3>2, Zenon
  <2>7. SceneOK(t)
    BY <2>4, <2>5, <2>6 DEF SceneOK, IdsOK, Mentioned, SlotBecomes
  <2> QED
    BY <1>1, <2>2, <2>4, <2>5, <2>7 DEF SlotBecomes, SameIds
<1>2. CASE s.free = <<>>
  <2>1. h = <<Size(s), 0>> /\ Index(h) = Size(s) /\ Version(h) = 0
    BY <1>2 DEF NewHandle, Index, Version
  <2> DEFINE e == [id |-> h, mask |-> {}]
  <2>2. e \in Entry
    BY <1>0, <2>1 DEF Entry
  <2>4. /\ DOMAIN t = Fields /\ t.entities = Append(s.entities, e)
        /\ t.free = s.free
        /\ t.pool = s.pool /\ t.overrun = s.overrun /\ t.componentId = s.componentId
        /\ t.poolsSize = s.poolsSize /\ t.counter = s.counter
    BY <1>2 DEF NewEntity, SceneOK, Fields
  <2>5. /\ t.entities \in Seq(Entry) /\ Size(t) = Size(s) + 1 /\ Slot(t, Size(s)) = e
        /\ \A j \in 0..(Size(s) - 1) : Slot(t, j) = Slot(s, j)
    BY <1>0, <2>2, <2>4 DEF SceneOK, Size, Slot
  <2>7. SceneOK(t)
    BY <2>4, <2>5 DEF SceneOK, IdsOK, Mentioned
  <2> QED
    BY <1>2, <2>1, <2>4, <2>5, <2>7 DEF SameIds
<1> QED
  BY <1>1, <1>2

(* destroy_entity empties the slot, advances its version and puts it on    *)
(* the free list.                                                          *)
LEMMA DestroyEntityFacts ==
  ASSUME NEW s, SceneOK(s), NEW h, Index(h) \in 0..(Size(s) - 1), Version(h) \in Nat,
         NEW v, v = (Version(h) + 1) % VERSIONS
  PROVE  /\ SceneOK(DestroyEntity(s, h)) /\ Size(DestroyEntity(s, h)) = Size(s)
         /\ DestroyEntity(s, h).pool = s.pool /\ DestroyEntity(s, h).overrun = s.overrun
         /\ Slot(DestroyEntity(s, h), Index(h)) = [id |-> <<-1, v>>, mask |-> {}]
         /\ \A i \in 0..(Size(s) - 1) : i # Index(h) => Slot(DestroyEntity(s, h), i) = Slot(s, i)
         /\ DestroyEntity(s, h).free = Append(s.free, Index(h)) /\ SameIds(s, DestroyEntity(s, h))
<1> DEFINE t == DestroyEntity(s, h)
           e == [id |-> <<-1, v>>, mask |-> {}]
<1>0. Size(s) \in Nat
  BY DEF Size, SceneOK
<1>1. v \in Nat
  BY SceneAssumption
<1>2. e \in Entry
  BY <1>1 DEF Entry
<1>3. /\ DOMAIN t = Fields /\ t.entities = [s.entities EXCEPT ![Index(h) + 1] = e]
      /\ t.free = Append(s.free, Index(h))
      /\ t.pool = s.pool /\ t.overrun = s.overrun /\ t.componentId = s.componentId
      /\ t.poolsSize = s.poolsSize /\ t.counter = s.counter
  BY DEF DestroyEntity, SceneOK, Fields, INVALID_INDEX
<1>4. SlotBecomes(s, t, Index(h), e)
  <2>1. DOMAIN t = Fields /\ t.entities = [s.entities EXCEPT ![Index(h) + 1] = e]
    BY <1>3, Zenon
  <2> HIDE DEF t, e
  <2> QED
    BY <1>2, <2>1, SlotChange, Zenon
<1>5. t.free \in Seq(Nat)
  BY <1>0, <1>3 DEF SceneOK
<1>6. SceneOK(t)
  BY <1>3, <1>4, <1>5 DEF SceneOK, IdsOK, Mentioned, SlotBecomes
<1> QED
  BY <1>3, <1>4, <1>6 DEF SlotBecomes, SameIds

(* assign_component gives the slot the type, and its pool a fresh content, *)
(* or writes past the end of the pools or of a pool.                       *)
LEMMA AssignComponentFacts ==
  ASSUME NEW s, SceneOK(s), NEW h, Index(h) \in 0..(Size(s) - 1), NEW T \in Component
  PROVE  /\ SceneOK(AssignComponent(s, h, T))
         /\ AssignComponent(s, h, T).free = s.free
         /\ AssignComponent(s, h, T).componentId = Mention(s, T).componentId
         /\ AssignComponent(s, h, T).counter = Mention(s, T).counter
         /\ AssignComponent(s, h, T).poolsSize =
              IF s.poolsSize <= Mention(s, T).componentId[T] THEN s.poolsSize + 1 ELSE s.poolsSize
         /\ \/ /\ SlotBecomes(s, AssignComponent(s, h, T), Index(h),
                              [id |-> Slot(s, Index(h)).id, mask |-> Slot(s, Index(h)).mask \union {T}])
               /\ AssignComponent(s, h, T).pool = [s.pool EXCEPT ![T] = Put(s.pool[T], Index(h), Blank[T])]
               /\ AssignComponent(s, h, T).overrun = s.overrun
            \/ /\ AssignComponent(s, h, T).entities = s.entities
               /\ AssignComponent(s, h, T).pool = s.pool
               /\ AssignComponent(s, h, T).overrun \in {"pools", "slots"}
               /\ AssignComponent(s, h, T).overrun = "slots" => Index(h) >= MAX_ENTITIES
               /\ AssignComponent(s, h, T).overrun = "pools" =>
                    AssignComponent(s, h, T).poolsSize <= Mention(s, T).componentId[T]
<1> DEFINE t == AssignComponent(s, h, T)
           m == Mention(s, T)
           size == IF m.poolsSize <= m.componentId[T] THEN m.poolsSize + 1 ELSE m.poolsSize
           e == [id |-> Slot(s, Index(h)).id, mask |-> Slot(s, Index(h)).mask \union {T}]
           pool == [s.pool EXCEPT ![T] = Put(s.pool[T], Index(h), Blank[T])]
<1>1. /\ SceneOK(m) /\ SameEntities(s, m) /\ m.componentId[T] \in 0..(m.counter - 1)
      /\ Slot(s, Index(h)) \in Entry /\ m.poolsSize = s.poolsSize
  BY MentionFacts, SlotFacts
<1>2. e \in Entry
  BY <1>1 DEF Entry
<1>3. DOMAIN m = Fields /\ DOMAIN m.pool = Component /\ m.entities \in Seq(Entry)
      /\ m.entities = s.entities /\ m.free = s.free /\ m.pool = s.pool /\ m.overrun = s.overrun
  BY <1>1 DEF SceneOK, SameEntities
<1>4. IsFiniteSet(Mentioned(m)) /\ m.counter \in Nat
  BY <1>1, SceneAssumption, FS_Subset, FS_CardinalityType DEF Mentioned, SceneOK, IdsOK
<1>5. size \in Nat /\ size <= m.counter
  BY <1>1, <1>4 DEF SceneOK, IdsOK
<1> DEFINE g == [m EXCEPT !.poolsSize = size]
<1>6. /\ DOMAIN g = Fields /\ g.poolsSize = size /\ g.entities = s.entities /\ g.free = s.free
      /\ g.pool = s.pool /\ g.overrun = s.overrun /\ g.componentId = m.componentId
      /\ g.counter = m.counter
  BY <1>3 DEF Fields
<1>7. t = IF size <= m.componentId[T] THEN [g EXCEPT !.overrun = "pools"]
          ELSE IF Index(h) >= MAX_ENTITIES THEN [g EXCEPT !.overrun = "slots"]
          ELSE [g EXCEPT !.pool[T] = Put(@, Index(h), Blank[T]),
                         !.entities[Index(h) + 1].mask = @ \union {T}]
  BY DEF AssignComponent
<1> HIDE DEF g, m, size, t
<1>8. CASE \E o \in {"pools", "slots"} : /\ t = [g EXCEPT !.overrun = o]
                                         /\ o = "slots" => Index(h) >= MAX_ENTITIES
                                         /\ o = "pools" => size <= m.componentId[T]
  <2>1. /\ DOMAIN t = Fields /\ t.poolsSize = size /\ t.entities = s.entities /\ t.free = s.free
        /\ t.pool = s.pool /\ t.overrun \in {"pools", "slots"} /\ t.componentId = m.componentId
        /\ t.counter = m.counter
        /\ t.overrun = "slots" => Index(h) >= MAX_ENTITIES
        /\ t.overrun = "pools" => size <= m.componentId[T]
    BY <1>6, <1>8 DEF Fields
  <2>2. IdsOK(t)
    BY <1>1, <1>5, <2>1 DEF SceneOK, IdsOK, Mentioned
  <2>3. SceneOK(t)
    BY <2>1, <2>2 DEF SceneOK
  <2> QED
    BY <1>1, <2>1, <2>3 DEF t, m, size
<1>9. CASE t = [g EXCEPT !.pool[T] = Put(@, Index(h), Blank[T]),
                         !.entities[Index(h) + 1].mask = @ \union {T}]
  <2>0. [s.entities[Index(h) + 1] EXCEPT !.mask = @ \union {T}] = e
    <3>1. [Slot(s, Index(h)) EXCEPT !.mask = Slot(s, Index(h)).mask \union {T}] = e
      BY <1>1, EntryChange
    <3> QED
      BY <3>1 DEF Slot
  <2>1. /\ DOMAIN t = Fields /\ t.poolsSize = size /\ t.free = s.free
        /\ t.overrun = s.overrun /\ t.componentId = m.componentId
        /\ t.counter = m.counter
    BY <1>6, <1>9 DEF Fields
  <2>2. t.pool = pool
    BY <1>6, <1>9 DEF Fields
  <2>3. t.entities = [s.entities EXCEPT ![Index(h) + 1] = e]
    BY <1>6, <1>9, <2>0 DEF Fields
  <2>4. SlotBecomes(s, t, Index(h), e)
    <3>1. DOMAIN t = Fields
      BY <2>1
    <3> HIDE DEF e
    <3> QED
      BY <1>2, <2>3, <3>1, SlotChange, Zenon
  <2>5. IdsOK(t)
    BY <1>1, <1>5, <2>1 DEF SceneOK, IdsOK, Mentioned
  <2>6. SceneOK(t)
    BY <2>1, <2>2, <2>4, <2>5 DEF SceneOK, SlotBecomes
  <2> QED
    BY <1>1, <2>1, <2>2, <2>4, <2>6 DEF t, m, size
<1> QED
  BY <1>7, <1>8, <1>9

(* remove_component compares the handle with the slot, and takes the type  *)
(* from it.                                                                *)
LEMMA RemoveComponentFacts ==
  ASSUME NEW s, SceneOK(s), NEW h, Index(h) \in 0..(Size(s) - 1), NEW T \in Component
  PROVE  /\ SceneOK(RemoveComponent(s, h, T))
         /\ RemoveComponent(s, h, T).free = s.free /\ RemoveComponent(s, h, T).pool = s.pool
         /\ RemoveComponent(s, h, T).overrun = s.overrun
         /\ \/ Slot(s, Index(h)).id # h /\ RemoveComponent(s, h, T).entities = s.entities
            \/ /\ Slot(s, Index(h)).id = h
               /\ SlotBecomes(s, RemoveComponent(s, h, T), Index(h),
                              [id |-> h, mask |-> Slot(s, Index(h)).mask \ {T}])
<1> DEFINE t == RemoveComponent(s, h, T)
           m == Mention(s, T)
           e == [id |-> h, mask |-> Slot(s, Index(h)).mask \ {T}]
<1>1. SceneOK(m) /\ SameEntities(s, m) /\ Slot(s, Index(h)) \in Entry
  BY MentionFacts, SlotFacts
<1>2. CASE Slot(s, Index(h)).id # h
  BY <1>2 DEF RemoveComponent
<1>3. CASE Slot(s, Index(h)).id = h
  <2>1. e \in Entry
    BY <1>1, <1>3 DEF Entry
  <2>2. [s.entities[Index(h) + 1] EXCEPT !.mask = @ \ {T}] = e
    <3>1. [Slot(s, Index(h)) EXCEPT !.mask = Slot(s, Index(h)).mask \ {T}] = [id |-> Slot(s, Index(h)).id, mask |-> Slot(s, Index(h)).mask \ {T}]
      BY <1>1, EntryChange
    <3>2. [Slot(s, Index(h)) EXCEPT !.mask = Slot(s, Index(h)).mask \ {T}] = e
      BY <1>3, <3>1, Zenon
    <3> QED
      BY <3>2 DEF Slot
  <2>3. /\ t = [m EXCEPT !.entities[Index(h) + 1].mask = @ \ {T}]
        /\ DOMAIN m = Fields /\ m.entities = s.entities
    BY <1>1, <1>3 DEF RemoveComponent, SceneOK, SameEntities
  <2> HIDE DEF t, m
  <2>4. /\ DOMAIN t = Fields /\ t.free = m.free /\ t.pool = m.pool /\ t.overrun = m.overrun
        /\ t.componentId = m.componentId /\ t.counter = m.counter /\ t.poolsSize = m.poolsSize
    BY <2>3 DEF Fields
  <2>5. t.entities = [s.entities EXCEPT ![Index(h) + 1] = e]
    BY <2>2, <2>3 DEF Fields
  <2>6. SlotBecomes(s, t, Index(h), e)
    <3>1. DOMAIN t = Fields
      BY <2>4
    <3> HIDE DEF e
    <3> QED
      BY <2>1, <2>5, <3>1, SlotChange, Zenon
  <2>7. SceneOK(t)
    BY <1>1, <2>4, <2>6 DEF SceneOK, SlotBecomes, IdsOK, Mentioned
  <2> QED
    BY <1>1, <1>3, <2>4, <2>6, <2>7 DEF t, SameEntities
<1> QED
  BY <1>2, <1>3

(* A write through the pointer of get_component reaches one content of one *)
(* pool, or nothing if the entity does not have the type.                  *)
PoolsWritten(s, h, T, value) ==
  IF T \in Slot(s, Index(h)).mask
  THEN [s.pool EXCEPT ![T] = [s.pool[T] EXCEPT ![Index(h)] = value]]
  ELSE s.pool

(* A write through the pointer get_component returned changes the pools    *)
(* alone, and only if the slot's mask has the type.                        *)
LEMMA WriteComponentFacts ==
  ASSUME NEW s, SceneOK(s), NEW h, Index(h) \in 0..(Size(s) - 1), NEW T \in Component, NEW value
  PROVE  /\ SceneOK(WriteComponent(s, h, T, value))
         /\ WriteComponent(s, h, T, value).entities = s.entities
         /\ WriteComponent(s, h, T, value).free = s.free
         /\ WriteComponent(s, h, T, value).overrun = s.overrun
         /\ WriteComponent(s, h, T, value).pool = PoolsWritten(s, h, T, value)
         /\ SameIds(Mention(s, T), WriteComponent(s, h, T, value))
<1> DEFINE t == WriteComponent(s, h, T, value)
           m == Mention(s, T)
<1>1. SceneOK(m) /\ SameEntities(s, m)
  BY MentionFacts
<1>2. CASE T \notin Slot(s, Index(h)).mask
  BY <1>1, <1>2 DEF WriteComponent, Holds, SameEntities, SameIds, PoolsWritten
<1>3. CASE T \in Slot(s, Index(h)).mask
  <2>1. t = [m EXCEPT !.pool[T][Index(h)] = value] /\ DOMAIN m = Fields /\ m.pool = s.pool
    BY <1>1, <1>3 DEF WriteComponent, Holds, SceneOK, SameEntities
  <2> HIDE DEF t, m
  <2>2. /\ DOMAIN t = Fields /\ t.free = m.free /\ t.entities = m.entities /\ t.overrun = m.overrun
        /\ t.componentId = m.componentId /\ t.counter = m.counter /\ t.poolsSize = m.poolsSize
    BY <2>1 DEF Fields
  <2>3. t.pool = [s.pool EXCEPT ![T] = [s.pool[T] EXCEPT ![Index(h)] = value]]
    BY <2>1 DEF Fields
  <2>4. SceneOK(t)
    BY <1>1, <2>2, <2>3 DEF SceneOK, IdsOK, Mentioned
  <2> QED
    BY <1>1, <1>3, <2>2, <2>3, <2>4 DEF t, m, SameEntities, SameIds, PoolsWritten
<1> QED
  BY <1>2, <1>3

(* A view's iterator stops at the first slot that matches, or at the end.  *)
THEOREM NextMatchFacts ==
  ASSUME NEW s, SceneOK(s), NEW i \in Nat, i <= Size(s), NEW types
  PROVE  /\ NextMatch(s, i, types) \in i..Size(s)
         /\ NextMatch(s, i, types) # Size(s) => Matches(s, NextMatch(s, i, types), types)
         /\ \A k \in i..(NextMatch(s, i, types) - 1) : ~Matches(s, k, types)
<1> DEFINE P(j) == Matches(s, j, types)
           First0(j) == P(j) /\ \A k \in i..(j - 1) : ~P(k)
           All == {j \in i..(Size(s) - 1) : P(j)}
<1>0. Size(s) \in Nat /\ All \in SUBSET Nat
  BY DEF Size, SceneOK
<1>1. CASE All = {}
  BY <1>0, <1>1 DEF NextMatch
<1>2. CASE All # {}
  <2>1. PICK j \in All : \A k \in All : j <= k
    <3> HIDE DEF All
    <3> QED
      BY <1>0, <1>2, First
  <2>2. j \in i..(Size(s) - 1) /\ First0(j)
    BY <1>0, <2>1
  <2> DEFINE n == CHOOSE k \in i..(Size(s) - 1) : First0(k)
  <2>3. n \in i..(Size(s) - 1) /\ First0(n)
    <3> HIDE DEF First0
    <3> QED
      BY <2>2
  <2>4. NextMatch(s, i, types) = n
    BY <1>2 DEF NextMatch
  <2> HIDE DEF n
  <2> QED
    BY <1>0, <2>3, <2>4
<1> QED
  BY <1>1, <1>2
=============================================================================
