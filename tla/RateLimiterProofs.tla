-------------------------- MODULE RateLimiterProofs --------------------------
(***************************************************************************)
(* The safety of RateLimiter, for any number of requests, limit, window    *)
(* and number of losses.                                                   *)
(*                                                                         *)
(* A live window is one whose first request is still remembered, exactly   *)
(* Window - ttl ticks old: when the key expires, that request and all from *)
(* before the window are forgotten together (Fill).  Conversely, whatever  *)
(* the counter counts is young enough to be remembered (Counted).          *)
(***************************************************************************)
EXTENDS RateLimiter, FiniteSetTheorems, TLAPS

Shapes ==
    /\ count \in Nat
    /\ ttl \in 0 .. Window
    /\ recent \in [Request -> Slot \cup {Free}]
    /\ losses \in 0 .. MaxLosses
    /\ count = 0 <=> ttl = 0

\* Requests made while the present key could have existed.
Live == {r \in Request : recent[r] # Free /\ recent[r].age <= Window - ttl}

Counted ==
    /\ count <= Cardinality(Live)
    /\ count <= Cardinality(Live \cap Spent) \/ Limit <= Cardinality(Live \cap Spent)
    /\ LimitedOnlyWhenSpent

Allowance(n) == n * Limit

\* First is the live window's first request, and Here are those it admitted.
LiveWindow(first, Here) ==
    /\ Here \subseteq Admitted
    /\ recent[first] # Free /\ recent[first].age = Window - ttl
    /\ \A r \in Here : recent[r].age <= Window - ttl
    /\ \A r \in Admitted \ Here : recent[r].age >= Window - ttl
    /\ Cardinality(Here \ {first}) < count /\ Cardinality(Here \ {first}) < Limit
    /\ Cardinality(Admitted \ Here) < Allowance(1 + losses)

Fill ==
    /\ count = 0 => Cardinality(Admitted) < Allowance(1 + losses)
    /\ count > 0 => \E first \in Request, Here \in SUBSET Request : LiveWindow(first, Here)

IInv == Shapes /\ Counted /\ Fill

-----------------------------------------------------------------------------

LEMMA Numbers ==
    /\ Limit \in Nat /\ Limit > 0 /\ Window \in Nat /\ Window > 0 /\ MaxLosses \in Nat
    /\ \A n \in Nat : /\ Allowance(n) \in Nat /\ Allowance(n + 1) = Allowance(n) + Limit
                      /\ Allowance(1 + n) \in Nat /\ Allowance(1 + n) >= Limit
  BY LimitAssumption, LossesAssumption DEF Allowance

LEMMA Finite ==
    ASSUME NEW S \in SUBSET Request
    PROVE  IsFiniteSet(S) /\ Cardinality(S) \in Nat
  BY RequestAssumption, FS_Subset, FS_CardinalityType

LEMMA Smaller ==
    ASSUME NEW S \in SUBSET Request, NEW T \in SUBSET S
    PROVE  Cardinality(T) <= Cardinality(S)
  BY Finite, FS_Subset

LEMMA OneMore ==
    ASSUME NEW S \in SUBSET Request, NEW r \in Request \ S
    PROVE  Cardinality(S \cup {r}) = Cardinality(S) + 1
  BY Finite, FS_AddElement

LEMMA Slots ==
    ASSUME NEW slot \in Slot
    PROVE  slot # Free /\ slot.outcome \in Outcome /\ slot.age \in Nat /\ slot.age < Window
  BY FreeAssumption, Numbers DEF Slot

LEMMA SlotSets ==
    /\ Admitted \in SUBSET Request /\ Spent \in SUBSET Request /\ Live \in SUBSET Request
    /\ Admitted' \in SUBSET Request /\ Spent' \in SUBSET Request /\ Live' \in SUBSET Request
    /\ Admitted \subseteq Spent
  BY DEF Admitted, Spent, Live

\* What a hit does to the slots and to the key.
Landed(r, outcome) ==
    /\ recent[r] = Free
    /\ recent'[r] # Free /\ recent'[r].outcome = outcome /\ recent'[r].age = 0
    /\ \A q \in Request \ {r} : recent'[q] = recent[q]
    /\ count' = count + 1
    /\ ttl' = IF ttl = 0 THEN Window ELSE ttl
    /\ UNCHANGED losses

LEMMA Hits ==
    ASSUME Shapes, NEW r \in Request, NEW outcome \in Outcome, Hit(r, outcome)
    PROVE  Landed(r, outcome) /\ Shapes'
  <1>1. [outcome |-> outcome, age |-> 0] \in Slot
    BY Numbers DEF Slot
  <1>2. Landed(r, outcome)
    BY <1>1, Slots DEF Hit, Landed, Expiry, Shapes
  <1>3. Shapes'
    BY <1>1, Numbers DEF Hit, Expiry, Shapes
  <1> QED BY <1>2, <1>3

\* What time does to them.
Aged ==
    \A r \in Request :
        \/ recent[r] = Free /\ recent'[r] = Free
        \/ recent[r] # Free /\ recent[r].age + 1 = Window /\ recent'[r] = Free
        \/ /\ recent[r] # Free /\ recent[r].age + 1 # Window /\ recent'[r] # Free
           /\ recent'[r].age = recent[r].age + 1 /\ recent'[r].outcome = recent[r].outcome

LEMMA Ticks ==
    ASSUME Shapes, Tick
    PROVE  Aged /\ Shapes'
  <1>1. ASSUME NEW r \in Request
        PROVE  /\ recent'[r] \in Slot \cup {Free}
               /\ \/ recent[r] = Free /\ recent'[r] = Free
                  \/ recent[r] # Free /\ recent[r].age + 1 = Window /\ recent'[r] = Free
                  \/ /\ recent[r] # Free /\ recent[r].age + 1 # Window /\ recent'[r] # Free
                     /\ recent'[r].age = recent[r].age + 1 /\ recent'[r].outcome = recent[r].outcome
    <2>1. recent'[r] = Older(recent[r])
      BY DEF Tick, Shapes
    <2>2. CASE recent[r] = Free
      BY <2>1, <2>2 DEF Older
    <2>3. CASE recent[r] \in Slot /\ recent[r].age + 1 = Window
      BY <2>1, <2>3, Slots DEF Older
    <2>4. CASE recent[r] \in Slot /\ recent[r].age + 1 # Window
      <3>1. recent'[r] = [recent[r] EXCEPT !.age = @ + 1]
        BY <2>1, <2>4, Slots DEF Older
      <3>2. recent[r].age + 1 \in 0 .. Window - 1
        BY <2>4, Slots, Numbers
      <3>3. recent'[r] \in Slot
        BY <2>4, <3>1, <3>2 DEF Slot
      <3> QED BY <2>4, <3>1, <3>3, Slots DEF Slot
    <2> QED BY <2>2, <2>3, <2>4 DEF Shapes
  <1>2. recent' = [r \in Request |-> recent'[r]]
    BY DEF Tick
  <1>3. recent' \in [Request -> Slot \cup {Free}]
    BY <1>1, <1>2
  <1> QED BY <1>1, <1>3, Numbers DEF Tick, Aged, Shapes

LEMMA Ages ==
    ASSUME Shapes, NEW r \in Request, recent[r] # Free
    PROVE  recent[r].age \in Nat /\ recent[r].age < Window
  BY Slots DEF Shapes

-----------------------------------------------------------------------------
(* The counter is covered by the slots.                                    *)

LEMMA CountedHit ==
    ASSUME Shapes, Shapes', Counted, NEW r \in Request, NEW outcome \in Outcome,
           Landed(r, outcome), outcome = "limited" => count >= Limit
    PROVE  Counted'
  <1> USE SlotSets, Numbers
  <1>1. /\ Cardinality(Live) \in Nat /\ Cardinality(Live') \in Nat
        /\ Cardinality(Live \cap Spent) \in Nat /\ Cardinality(Live' \cap Spent') \in Nat
        /\ Cardinality(Spent) \in Nat /\ Cardinality(Spent') \in Nat
        /\ count \in Nat /\ count' = count + 1
    BY Finite DEF Landed, Shapes
  <1>2. r \in Live' /\ r \notin Live
    BY DEF Live, Landed, Shapes
  <1>3. outcome # "limited" => r \in Spent'
    BY DEF Spent, Has, Landed, Outcome
  <1>4. LimitedOnlyWhenSpent'
    <2>1. Spent \in SUBSET Spent'
      BY DEF Spent, Has, Landed
    <2>2. /\ Cardinality(Spent') >= Cardinality(Spent)
          /\ Cardinality(Spent) >= Cardinality(Live \cap Spent)
      BY <2>1, Smaller
    <2>3. ASSUME NEW q \in Request, Has(q, "limited")', recent'[q].age = 0
          PROVE  Cardinality(Spent') >= Limit
      <3>1. CASE q = r
        BY <1>1, <2>2, <2>3, <3>1 DEF Has, Landed, Counted
      <3>2. CASE q # r
        BY <1>1, <2>2, <2>3, <3>2 DEF Has, Landed, Counted, LimitedOnlyWhenSpent
      <3> QED BY <3>1, <3>2
    <2> QED BY <2>3 DEF LimitedOnlyWhenSpent
  <1>5. CASE ttl = 0
    <2>1. count = 0 /\ outcome # "limited"
      BY <1>5 DEF Shapes
    <2>2. {r} \in SUBSET Live' /\ {r} \in SUBSET (Live' \cap Spent')
      BY <1>2, <1>3, <2>1
    <2>3. Cardinality({r}) = 1
      BY FS_Singleton
    <2>4. Cardinality(Live') >= 1 /\ Cardinality(Live' \cap Spent') >= 1
      BY <2>2, <2>3, Smaller
    <2> QED BY <1>1, <1>4, <2>1, <2>4 DEF Counted
  <1>6. CASE ttl # 0
    <2>1. ASSUME NEW q \in Live
          PROVE  q \in Live' /\ q # r
      BY <1>6, <2>1 DEF Live, Landed, Shapes
    <2>2. Live \cup {r} \in SUBSET Live'
      BY <1>2, <2>1
    <2>3. Cardinality(Live') >= Cardinality(Live) + 1
      <3>1. Cardinality(Live \cup {r}) = Cardinality(Live) + 1
        BY <1>2, OneMore
      <3>2. Cardinality(Live \cup {r}) <= Cardinality(Live')
        BY <2>2, Smaller
      <3> QED BY <1>1, <3>1, <3>2
    <2>4. Live \cap Spent \in SUBSET (Live' \cap Spent')
      BY <2>1 DEF Spent, Has, Landed
    <2>5. Cardinality(Live' \cap Spent') >= Cardinality(Live \cap Spent)
      BY <2>4, Smaller
    <2>6. ASSUME outcome # "limited"
          PROVE  Cardinality(Live' \cap Spent') >= Cardinality(Live \cap Spent) + 1
      <3>1. (Live \cap Spent) \cup {r} \in SUBSET (Live' \cap Spent') /\ r \notin Live \cap Spent
        BY <1>2, <1>3, <2>4, <2>6
      <3>2. Cardinality((Live \cap Spent) \cup {r}) = Cardinality(Live \cap Spent) + 1
        BY <3>1, OneMore
      <3>3. Cardinality((Live \cap Spent) \cup {r}) <= Cardinality(Live' \cap Spent')
        BY <3>1, Smaller
      <3> QED BY <1>1, <3>2, <3>3
    <2> QED BY <1>1, <1>4, <2>3, <2>5, <2>6 DEF Counted
  <1> QED BY <1>5, <1>6

LEMMA CountedTick ==
    ASSUME Shapes, Shapes', Counted, Tick, Aged
    PROVE  Counted'
  <1> USE SlotSets, Numbers
  <1>1. LimitedOnlyWhenSpent'
    <2>1. ASSUME NEW r \in Request, recent'[r] # Free
          PROVE  recent'[r].age # 0
      BY <2>1, Ages DEF Aged
    <2> QED BY <2>1 DEF LimitedOnlyWhenSpent, Has
  <1>2. CASE ttl <= 1
    <2>1. count' = 0
      BY <1>2 DEF Tick, Shapes
    <2>2. Cardinality(Live') \in Nat /\ Cardinality(Live' \cap Spent') \in Nat
      BY Finite
    <2> QED BY <1>1, <2>1, <2>2 DEF Counted
  <1>3. CASE ttl > 1
    <2>1. count' = count /\ ttl' = ttl - 1
      BY <1>3 DEF Tick
    <2>2. ASSUME NEW r \in Live
          PROVE  r \in Live' /\ (r \in Spent => r \in Spent')
      <3>1. r \in Request /\ recent[r] # Free /\ recent[r].age <= Window - ttl /\ recent[r].age \in Nat
        BY Ages DEF Live
      <3>2. /\ recent'[r] # Free /\ recent'[r].age = recent[r].age + 1
            /\ recent'[r].outcome = recent[r].outcome
        BY <1>3, <3>1 DEF Aged, Shapes
      <3> QED BY <1>3, <2>1, <3>1, <3>2 DEF Live, Spent, Has, Shapes
    <2>3. Live \in SUBSET Live' /\ Live \cap Spent \in SUBSET (Live' \cap Spent')
      BY <2>2
    <2>4. /\ Cardinality(Live) <= Cardinality(Live')
          /\ Cardinality(Live \cap Spent) <= Cardinality(Live' \cap Spent')
      BY <2>3, Smaller
    <2>5. /\ Cardinality(Live) \in Nat /\ Cardinality(Live') \in Nat
          /\ Cardinality(Live \cap Spent) \in Nat /\ Cardinality(Live' \cap Spent') \in Nat
          /\ count \in Nat
      BY Finite DEF Shapes
    <2> QED BY <1>1, <2>1, <2>4, <2>5 DEF Counted
  <1> QED BY <1>2, <1>3 DEF Shapes

-----------------------------------------------------------------------------
(* The windows.                                                            *)

\* A set without the first request is at most one smaller.
LEMMA AllButFirst ==
    ASSUME NEW S \in SUBSET Request, NEW r
    PROVE  Cardinality(S) <= Cardinality(S \ {r}) + 1
  BY Finite, FS_RemoveElement

LEMMA TwoParts ==
    ASSUME NEW S \in SUBSET Request, NEW T \in SUBSET S
    PROVE  Cardinality(S) = Cardinality(T) + Cardinality(S \ T)
  <1>1. T \cup (S \ T) = S /\ T \cap (S \ T) = {} /\ T \in SUBSET Request /\ S \ T \in SUBSET Request
    OBVIOUS
  <1>2. /\ IsFiniteSet(T) /\ Cardinality(T) \in Nat
        /\ IsFiniteSet(S \ T) /\ Cardinality(S \ T) \in Nat
    BY <1>1, Finite
  <1>3. Cardinality(T \cup (S \ T))
          = Cardinality(T) + Cardinality(S \ T) - Cardinality(T \cap (S \ T))
    BY <1>2, FS_Union
  <1>4. Cardinality(T \cup (S \ T)) = Cardinality(S) /\ Cardinality(T \cap (S \ T)) = 0
    BY <1>1, FS_EmptySet, Zenon
  <1> QED BY <1>2, <1>3, <1>4

\* What a live window admitted, and what was there before it.
LEMMA WindowTotal ==
    ASSUME NEW first \in Request, NEW Here \in SUBSET Request, LiveWindow(first, Here), Shapes
    PROVE  Cardinality(Admitted) < Allowance(2 + losses)
  <1> USE SlotSets, Numbers
  <1>1. Cardinality(Admitted) = Cardinality(Here) + Cardinality(Admitted \ Here)
    BY TwoParts DEF LiveWindow
  <1>2. Cardinality(Here) <= Cardinality(Here \ {first}) + 1
    BY AllButFirst
  <1>3. /\ Cardinality(Here) \in Nat /\ Cardinality(Here \ {first}) \in Nat
        /\ Cardinality(Admitted \ Here) \in Nat
    BY Finite
  <1>4. Cardinality(Here) <= Limit
    BY <1>2, <1>3 DEF LiveWindow
  <1>5. losses \in Nat /\ 1 + losses \in Nat /\ (1 + losses) + 1 = 2 + losses
    BY DEF Shapes
  <1>6. Allowance(2 + losses) = Allowance(1 + losses) + Limit /\ Allowance(1 + losses) \in Nat
    BY <1>5
  <1> QED BY <1>1, <1>3, <1>4, <1>6 DEF LiveWindow

LEMMA FillHit ==
    ASSUME Shapes, Shapes', Fill, NEW r \in Request, NEW outcome \in Outcome,
           Landed(r, outcome), outcome = "admitted" => Within
    PROVE  Fill'
  <1> USE SlotSets, Numbers
  <1> DEFINE New == IF outcome = "admitted" THEN {r} ELSE {}
  <1>1. r \notin Admitted /\ Admitted' = Admitted \cup New
    BY DEF Admitted, Has, Landed
  <1>2. count \in Nat /\ count' = count + 1 /\ losses' = losses
    BY DEF Landed, Shapes
  <1>3. CASE count = 0
    <2>1. New \in SUBSET Request /\ New \subseteq Admitted' /\ New \ {r} = {}
      BY <1>1
    <2>2. Admitted' \ New = Admitted
      BY <1>1
    <2>3. recent'[r] # Free /\ recent'[r].age = 0 /\ ttl' = Window
      BY <1>3 DEF Landed, Shapes
    <2>4. \A q \in Admitted : recent'[q].age \in Nat
      <3>1. ASSUME NEW q \in Admitted
            PROVE  recent[q].age \in Nat /\ recent'[q] = recent[q]
        BY <1>1, Ages DEF Admitted, Has, Landed
      <3> QED BY <3>1
    <2>5. Cardinality(New \ {r}) = 0
      BY <2>1, FS_EmptySet
    <2>6. Cardinality(Admitted' \ New) < Allowance(1 + losses)
      BY <1>3, <2>2 DEF Fill
    <2>7. LiveWindow(r, New)'
      BY <1>2, <1>3, <2>1, <2>2, <2>3, <2>4, <2>5, <2>6 DEF LiveWindow
    <2> QED BY <1>2, <2>1, <2>7 DEF Fill
  <1>4. CASE count > 0
    <2>1. PICK first \in Request, Here \in SUBSET Request : LiveWindow(first, Here)
      BY <1>4 DEF Fill
    <2>2. ttl' = ttl /\ ttl \in Nat /\ ttl <= Window
      BY <1>4 DEF Landed, Shapes
    <2>3. /\ first # r /\ r \notin Here /\ recent'[first] = recent[first]
          /\ \A q \in Admitted : q # r /\ recent'[q] = recent[q]
      BY <1>1, <2>1 DEF LiveWindow, Landed, Admitted
    <2>4. Admitted' \ (Here \cup New) = Admitted \ Here /\ Here \cup New \subseteq Admitted'
      BY <1>1, <2>1 DEF LiveWindow
    <2>5. Cardinality((Here \cup New) \ {first}) < count' /\ Cardinality((Here \cup New) \ {first}) < Limit
      <3>1. Cardinality(Here \ {first}) \in Nat
        BY Finite
      <3>2. CASE outcome = "admitted"
        <4>1. (Here \cup New) \ {first} = (Here \ {first}) \cup {r} /\ r \in Request \ (Here \ {first})
          BY <2>3, <3>2
        <4>2. Cardinality((Here \cup New) \ {first}) = Cardinality(Here \ {first}) + 1
          BY <4>1, OneMore
        <4> QED BY <1>2, <2>1, <3>1, <3>2, <4>2 DEF LiveWindow, Within
      <3>3. CASE outcome # "admitted"
        <4>1. Here \cup New = Here
          BY <3>3
        <4>2. Cardinality((Here \cup New) \ {first}) = Cardinality(Here \ {first})
          BY <4>1, Zenon
        <4> QED BY <1>2, <2>1, <3>1, <4>2 DEF LiveWindow
      <3> QED BY <3>2, <3>3
    <2>6. \A q \in Here \cup New : recent'[q].age <= Window - ttl'
      <3>1. \A q \in Here : recent'[q].age <= Window - ttl'
        BY <2>1, <2>2, <2>3 DEF LiveWindow
      <3>2. recent'[r].age <= Window - ttl'
        BY <2>2 DEF Landed
      <3> QED BY <3>1, <3>2
    <2>7. \A q \in Admitted \ Here : recent'[q].age >= Window - ttl'
      BY <2>1, <2>2, <2>3 DEF LiveWindow
    <2>8. Here \cup New \in SUBSET Request
      OBVIOUS
    <2> HIDE DEF New
    <2>9. LiveWindow(first, Here \cup New)'
      BY <1>2, <2>1, <2>2, <2>3, <2>4, <2>5, <2>6, <2>7 DEF LiveWindow
    <2> QED BY <1>2, <2>8, <2>9 DEF Fill
  <1> QED BY <1>2, <1>3, <1>4

LEMMA FillTick ==
    ASSUME Shapes, Shapes', Fill, Tick, Aged
    PROVE  Fill'
  <1> USE SlotSets, Numbers
  <1>1. Admitted' \in SUBSET Admitted
    BY DEF Aged, Admitted, Has
  <1>2. Cardinality(Admitted') <= Cardinality(Admitted)
    BY <1>1, Smaller
  <1>3. /\ Cardinality(Admitted') \in Nat /\ Cardinality(Admitted) \in Nat
        /\ losses \in Nat /\ losses' = losses /\ count \in Nat
    BY Finite DEF Tick, Shapes
  <1>4. Allowance(1 + losses) \in Nat /\ Allowance(1 + losses) >= Limit
    BY <1>3
  <1>5. CASE count = 0
    <2>1. count' = 0
      BY <1>5 DEF Tick
    <2> QED BY <1>2, <1>3, <1>4, <1>5, <2>1 DEF Fill
  <1>6. CASE count > 0 /\ ttl = 1
    <2>1. PICK first \in Request, Here \in SUBSET Request : LiveWindow(first, Here)
      BY <1>6 DEF Fill
    <2>2. count' = 0
      BY <1>6 DEF Tick
    <2>3. first \notin Admitted'
      BY <1>6, <2>1, Ages DEF LiveWindow, Aged, Admitted, Has
    <2>4. ASSUME NEW q \in Admitted \ Here
          PROVE  q \notin Admitted'
      <3>1. q \in Request /\ recent[q] # Free
        BY DEF Admitted, Has
      <3>2. recent[q].age \in Nat /\ recent[q].age < Window /\ recent[q].age >= Window - 1
        BY <1>6, <2>1, <3>1, Ages DEF LiveWindow
      <3>3. recent[q].age + 1 = Window
        BY <3>2
      <3> QED BY <3>1, <3>3, Ages DEF Aged, Admitted, Has, Shapes
    <2>5. Admitted' \in SUBSET (Here \ {first})
      BY <1>1, <2>3, <2>4
    <2>6. Cardinality(Admitted') <= Cardinality(Here \ {first}) /\ Cardinality(Here \ {first}) \in Nat
      BY <2>5, Smaller, Finite
    <2> QED BY <1>3, <1>4, <2>1, <2>2, <2>6 DEF Fill, LiveWindow
  <1>7. CASE count > 0 /\ ttl > 1
    <2>1. PICK first \in Request, Here \in SUBSET Request : LiveWindow(first, Here)
      BY <1>7 DEF Fill
    <2>2. count' = count /\ ttl' = ttl - 1 /\ ttl \in Nat /\ ttl <= Window
      BY <1>7 DEF Tick, Shapes
    <2>3. ASSUME NEW q \in Request, recent[q] # Free, recent[q].age <= Window - ttl
          PROVE  /\ recent'[q] # Free /\ recent'[q].age = recent[q].age + 1
                 /\ recent'[q].outcome = recent[q].outcome
      BY <1>7, <2>2, <2>3, Ages DEF Aged
    <2>4. Here \subseteq Admitted' /\ \A q \in Here : recent'[q].age <= Window - ttl'
      <3>1. ASSUME NEW q \in Here
            PROVE  q \in Request /\ Has(q, "admitted") /\ recent[q].age <= Window - ttl /\ recent[q].age \in Nat
        BY <2>1, Ages DEF LiveWindow, Admitted, Has
      <3> QED BY <2>2, <2>3, <3>1 DEF Admitted, Has
    <2>5. \A q \in Admitted' \ Here : recent'[q].age >= Window - ttl'
      <3>1. ASSUME NEW q \in Admitted' \ Here
            PROVE  /\ recent[q].age >= Window - ttl /\ recent[q].age \in Nat
                   /\ recent'[q].age = recent[q].age + 1
        <4>1. q \in Admitted /\ q \in Request /\ recent[q] # Free /\ recent'[q] # Free
          BY <1>1 DEF Admitted, Has
        <4> QED BY <2>1, <4>1, Ages DEF LiveWindow, Aged
      <3> QED BY <2>2, <3>1
    <2>6. recent'[first] # Free /\ recent'[first].age = Window - ttl'
      <3>1. recent[first] # Free /\ recent[first].age = Window - ttl
        BY <2>1 DEF LiveWindow
      <3> QED BY <2>2, <2>3, <3>1
    <2>7. Cardinality(Admitted' \ Here) < Allowance(1 + losses)
      <3>1. Admitted' \ Here \in SUBSET (Admitted \ Here) /\ Admitted \ Here \in SUBSET Request
        BY <1>1
      <3>2. Cardinality(Admitted' \ Here) <= Cardinality(Admitted \ Here)
        BY <3>1, Smaller
      <3>3. Cardinality(Admitted' \ Here) \in Nat /\ Cardinality(Admitted \ Here) \in Nat
        BY Finite
      <3> QED BY <1>4, <2>1, <3>2, <3>3 DEF LiveWindow
    <2>8. LiveWindow(first, Here)'
      BY <1>3, <2>1, <2>2, <2>4, <2>5, <2>6, <2>7 DEF LiveWindow
    <2> QED BY <1>7, <2>2, <2>8 DEF Fill
  <1> QED BY <1>3, <1>5, <1>6, <1>7 DEF Shapes

-----------------------------------------------------------------------------

LEMMA LoseStep ==
    ASSUME IInv, Lose
    PROVE  IInv'
  <1> USE SlotSets, Numbers DEF IInv
  <1>1. Shapes'
    BY DEF Lose, Shapes
  <1>2. UNCHANGED recent /\ count' = 0 /\ count > 0 /\ losses' = losses + 1 /\ losses \in Nat
    BY DEF Lose, Shapes
  <1>3. Admitted' = Admitted /\ LimitedOnlyWhenSpent'
    BY <1>2 DEF Admitted, Spent, Has, Counted, LimitedOnlyWhenSpent
  <1>4. Counted'
    <2>1. Cardinality(Live') \in Nat /\ Cardinality(Live' \cap Spent') \in Nat
      BY Finite
    <2> QED BY <1>2, <1>3, <2>1 DEF Counted
  <1>5. Cardinality(Admitted') < Allowance(2 + losses)
    BY <1>2, <1>3, WindowTotal DEF Fill
  <1>6. 2 + losses = 1 + losses'
    BY <1>2
  <1>7. Fill'
    BY <1>2, <1>5, <1>6 DEF Fill
  <1> QED BY <1>1, <1>4, <1>7

LEMMA InitIInv ==
    ASSUME Init
    PROVE  IInv
  <1> USE SlotSets, Numbers DEF Init
  <1>1. Shapes
    BY DEF Shapes
  <1>2. Counted
    <2>1. Cardinality(Live) \in Nat /\ Cardinality(Live \cap Spent) \in Nat
      BY Finite
    <2> QED BY <2>1 DEF Counted, LimitedOnlyWhenSpent, Has
  <1>3. Fill
    <2>1. Admitted = {}
      BY DEF Admitted, Has
    <2>2. Cardinality(Admitted) = 0
      BY <2>1, FS_EmptySet
    <2>3. Allowance(1 + losses) >= Limit
      OBVIOUS
    <2> QED BY <2>2, <2>3 DEF Fill
  <1> QED BY <1>1, <1>2, <1>3 DEF IInv

\* The inductive invariant.
THEOREM RateLimiterInductive == Spec => []IInv
  <1>1. ASSUME IInv, NEW r \in Request, NEW outcome \in Outcome, Hit(r, outcome),
               outcome = "limited" => ~Within, outcome = "admitted" => Within
        PROVE  IInv'
    <2>1. Landed(r, outcome) /\ Shapes'
      BY <1>1, Hits DEF IInv
    <2>2. outcome = "limited" => count >= Limit
      BY <1>1, Numbers DEF Within, IInv, Shapes
    <2> QED BY <1>1, <2>1, <2>2, CountedHit, FillHit DEF IInv
  <1>2. ASSUME IInv, Tick
        PROVE  IInv'
    BY <1>2, Ticks, CountedTick, FillTick DEF IInv
  <1>3. ASSUME IInv, UNCHANGED vars
        PROVE  IInv'
    BY <1>3 DEF vars, IInv, Shapes, Counted, Fill, LiveWindow, LimitedOnlyWhenSpent, Live, Admitted,
       Spent, Has
  <1>4. ASSUME IInv, [Next]_vars
        PROVE  IInv'
    BY <1>1, <1>2, <1>3, <1>4, LoseStep DEF Next, Admit, Refuse, ReplyLost, Outcome
  <1> QED BY <1>4, InitIInv, PTL DEF Spec

\* The counter and the slots have the values the code gives them.
THEOREM LimiterTypesCorrect == Spec => []TypeOK
  <1>1. ASSUME IInv
        PROVE  TypeOK
    <2>1. Cardinality(Live) <= Cardinality(Request)
      BY SlotSets, Smaller
    <2>2. Cardinality(Live) \in Nat /\ Cardinality(Request) \in Nat
      BY SlotSets, Finite
    <2> QED BY <1>1, <2>1, <2>2 DEF IInv, Shapes, Counted, TypeOK
  <1> QED BY <1>1, RateLimiterInductive, PTL

\* Fewer than two limits' worth of transfers in any window's time, and one
\* limit more for each loss of the counter.
THEOREM BudgetKept == Spec => []WindowBudget
  <1>1. ASSUME IInv
        PROVE  WindowBudget
    <2> USE SlotSets, Numbers, <1>1 DEF IInv
    <2>1. losses \in Nat /\ 1 + losses \in Nat /\ (1 + losses) + 1 = 2 + losses
      BY DEF Shapes
    <2>2. /\ Allowance(2 + losses) = Allowance(1 + losses) + Limit
          /\ Allowance(1 + losses) \in Nat /\ Cardinality(Admitted) \in Nat
      BY <2>1, Finite
    <2>3. Cardinality(Admitted) < Allowance(2 + losses)
      BY <2>1, <2>2, WindowTotal DEF Fill, Shapes
    <2> QED BY <2>3 DEF WindowBudget, Allowance
  <1> QED BY <1>1, RateLimiterInductive, PTL

\* A refusal means that the limit was used up less than a window ago.
THEOREM RefusalsDeserved == Spec => []LimitedOnlyWhenSpent
  <1>1. IInv => LimitedOnlyWhenSpent
    BY DEF IInv, Counted
  <1> QED BY <1>1, RateLimiterInductive, PTL

\* Whoever makes no request for a window's time is let in.
THEOREM WaitingHelps == Spec => []RetryAfterSuffices
  <1>1. ASSUME IInv, \A r \in Request : recent[r] = Free
        PROVE  Within
    <2>1. Live = {}
      BY <1>1 DEF Live
    <2>2. Cardinality(Live) = 0
      BY <2>1, FS_EmptySet
    <2> QED BY <1>1, <2>2, Numbers DEF IInv, Shapes, Counted, Within
  <1>2. IInv => RetryAfterSuffices
    BY <1>1 DEF RetryAfterSuffices
  <1> QED BY <1>2, RateLimiterInductive, PTL

=============================================================================
