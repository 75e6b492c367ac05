----------------------------- MODULE PetersonProofs -----------------------------
(***************************************************************************)
(* Mutual exclusion of lock_with_peterson for runs of any length, with     *)
(* threads terminated anywhere.  MutualExclusion alone is not inductive:   *)
(* PetersonInv adds that a user past the loop has its flag up and that the *)
(* turn, written last by the other, holds the other one in its loop.       *)
(***************************************************************************)
EXTENDS Peterson, TLAPS

LEMMA OtherLemma ==
    \A u \in User : /\ Other(u) \in User /\ Other(u) # u /\ Other(Other(u)) = u
                    /\ \A v \in User : v = u \/ v = Other(u)
BY DEF User, Other, PRODUCER, CONSUMER

LEMMA UsersLemma ==
    PRODUCER \in User /\ CONSUMER \in User /\ Other(PRODUCER) = CONSUMER
BY DEF User, Other, PRODUCER, CONSUMER

LEMMA TypeInductive == TypeOK /\ [Next]_vars => TypeOK'
<1>0. SUFFICES ASSUME TypeOK, [Next]_vars PROVE TypeOK'
  OBVIOUS
<1>n. itemSize \in Nat
  BY <1>0, Zenon DEF TypeOK
<1> USE <1>0 DEF TypeOK, GoTo, lock, data
<1>1. ASSUME NEW u \in User, SetFlag(u) \/ SetTurn(u) PROVE TypeOK'
  BY <1>1 DEF SetFlag, SetTurn
<1>2. ASSUME NEW u \in User, TestTurn(u) \/ TestFlag(u) PROVE TypeOK'
  BY <1>2 DEF TestTurn, TestFlag
<1>3. ASSUME NEW u \in User, Unlock(u) \/ Die(u) PROVE TypeOK'
  BY <1>3 DEF Unlock, Die
<1>4. CASE Load \/ Store
  <2>1. CASE Load
    <3>1. count' \in Nat
      <4> HIDE <1>0 DEF TypeOK
      <4> QED
        BY <1>n, <2>1 DEF Load
    <3>2. pc' = [pc EXCEPT ![PRODUCER] = "store"]
          /\ UNCHANGED <<turn, thread_flags, itemSize, found>>
      BY <2>1 DEF Load
    <3> QED
      BY <3>1, <3>2, UsersLemma
  <2>2. CASE Store
    BY <2>2, UsersLemma DEF Store
  <2> QED
    BY <1>4, <2>1, <2>2
<1>5. CASE Test
  BY <1>5, UsersLemma DEF Test
<1>6. CASE UNCHANGED vars
  BY <1>6 DEF vars
<1> QED
  BY <1>1, <1>2, <1>3, <1>4, <1>5, <1>6 DEF Next, Access

\* The steps that lie inside, or end the user.
LEMMA InsideSteps ==
    ASSUME TypeOK, FlagInv, TurnInv,
           NEW u \in User,
           \/ Unlock(u) \/ Die(u)
           \/ u = PRODUCER /\ (Load \/ Store)
           \/ u = CONSUMER /\ Test
    PROVE  FlagInv' /\ TurnInv'
<1>1. /\ turn' = turn
      /\ \A v \in User : v # u => pc'[v] = pc[v] /\ thread_flags'[v] = thread_flags[v]
      /\ ~Waits(u)' /\ pc'[u] # "turn"
      /\ Inside(u)' => Inside(u) /\ thread_flags'[u] = thread_flags[u]
  BY DEF TypeOK, Unlock, Die, Load, Store, Test, GoTo, Inside, Waits, lock
<1> QED
  BY <1>1, OtherLemma, ZenonT(60) DEF FlagInv, TurnInv, Inside, Waits

LEMMA PetersonInductive == PetersonInv /\ [Next]_vars => PetersonInv'
<1> SUFFICES ASSUME PetersonInv, [Next]_vars PROVE FlagInv' /\ TurnInv'
  BY TypeInductive DEF PetersonInv
<1> USE OtherLemma DEF PetersonInv, TypeOK, FlagInv, TurnInv, Waits, Inside, GoTo, lock
<1>1. ASSUME NEW u \in User, SetFlag(u) PROVE FlagInv' /\ TurnInv'
  BY <1>1, ZenonT(60) DEF SetFlag
<1>2. ASSUME NEW u \in User, SetTurn(u) PROVE FlagInv' /\ TurnInv'
  BY <1>2, ZenonT(60) DEF SetTurn
<1>3. ASSUME NEW u \in User, TestTurn(u) PROVE FlagInv' /\ TurnInv'
  BY <1>3, ZenonT(60) DEF TestTurn
<1>4. ASSUME NEW u \in User, TestFlag(u) PROVE FlagInv' /\ TurnInv'
  BY <1>4, ZenonT(60) DEF TestFlag
<1>5. ASSUME NEW u \in User,
             \/ Unlock(u) \/ Die(u)
             \/ u = PRODUCER /\ (Load \/ Store)
             \/ u = CONSUMER /\ Test
      PROVE  FlagInv' /\ TurnInv'
  BY <1>5, InsideSteps
<1>6. CASE UNCHANGED vars
  BY <1>6 DEF vars
<1> QED
  BY <1>1, <1>2, <1>3, <1>4, <1>5, <1>6 DEF Next, Access

LEMMA PetersonInvariant == Spec => []PetersonInv
<1>1. Init => TypeOK
  BY DEF Init, TypeOK, User, PRODUCER, CONSUMER
<1>2. Init => FlagInv /\ TurnInv
  BY DEF Init, FlagInv, TurnInv, Waits, Inside
<1> QED
  BY <1>1, <1>2, PetersonInductive, PTL DEF Spec, PetersonInv

\* The two users of the Peterson lock are never inside together.
THEOREM PetersonExcludes == Spec => []MutualExclusion
<1>1. PetersonInv => MutualExclusion
  BY UsersLemma DEF PetersonInv, TurnInv, MutualExclusion
<1> QED
  BY <1>1, PetersonInvariant, PTL

\* The consumer's test of itemSize still holds when it unlocks.
THEOREM TestIsStable == Spec => []TestStaysTrue
<1>1. Init => TestStaysTrue
  BY DEF Init, TestStaysTrue
<1>2. PetersonInv /\ TestStaysTrue /\ [Next]_vars => TestStaysTrue'
  <2> SUFFICES ASSUME PetersonInv, TestStaysTrue, [Next]_vars,
                      pc'[CONSUMER] = "unlock"
               PROVE  found' = "item" <=> itemSize' > 0
    BY DEF TestStaysTrue
  <2>1. /\ PRODUCER \in User /\ CONSUMER \in User /\ PRODUCER # CONSUMER
        /\ itemSize \in Nat
        /\ pc \in [User -> {"idle", "turn", "test turn", "test flag",
                           "critical", "store", "unlock", "dead"}]
    BY UsersLemma, OtherLemma DEF PetersonInv, TypeOK
  <2>2. CASE Test
    <3>1. itemSize' = itemSize
          /\ found' = IF itemSize <= 0 THEN "nothing" ELSE "item"
      BY <2>2 DEF Test
    <3>2. itemSize \in Nat
      BY <2>1
    <3> QED
      BY <3>1, <3>2
  <2>3. CASE Store
    <3>1. Inside(PRODUCER) /\ ~Inside(CONSUMER)
      BY <2>1, <2>3, UsersLemma DEF Store, Inside, PetersonInv, TurnInv
    <3>2. pc'[CONSUMER] = pc[CONSUMER]
      BY <2>1, <2>3 DEF Store, GoTo
    <3> QED
      BY <3>1, <3>2 DEF Inside
  <2>4. CASE ~Test /\ ~Store
    <3>1. ASSUME NEW u \in User,
                 SetFlag(u) \/ SetTurn(u) \/ TestTurn(u) \/ TestFlag(u)
          PROVE  UNCHANGED <<itemSize, found>> /\ pc[CONSUMER] = "unlock"
      BY <2>1, <3>1 DEF SetFlag, SetTurn, TestTurn, TestFlag, GoTo, data
    <3>2. ASSUME NEW u \in User, Unlock(u) \/ Die(u)
          PROVE  UNCHANGED <<itemSize, found>> /\ pc[CONSUMER] = "unlock"
      BY <2>1, <3>2 DEF Unlock, Die, GoTo, data
    <3>3. ASSUME Load
          PROVE  UNCHANGED <<itemSize, found>> /\ pc[CONSUMER] = "unlock"
      BY <2>1, <3>3 DEF Load, GoTo
    <3>4. UNCHANGED <<itemSize, found>> /\ pc[CONSUMER] = "unlock"
      BY <2>4, <3>1, <3>2, <3>3 DEF Next, Access, vars
    <3> QED
      BY <3>4 DEF TestStaysTrue
  <2> QED
    BY <2>2, <2>3, <2>4
<1> QED
  BY <1>1, <1>2, PetersonInvariant, PTL DEF Spec

\* A waiting user is overtaken at most by one that came before it.
THEOREM NobodyOvertakesTwice == Spec => NoOvertaking
<1>1. PetersonInv /\ [Next]_vars =>
        [\A u \in User : Waits(u) /\ ~Inside(Other(u)) /\ Inside(Other(u))'
            => turn = u]_vars
  <2> SUFFICES ASSUME PetersonInv, Next, NEW u \in User,
                      Waits(u), ~Inside(Other(u)), Inside(Other(u))'
               PROVE  turn = u
    BY DEF vars
  <2>1. Other(u) \in User /\ Other(Other(u)) = u /\ \A v \in User : v = u \/ v = Other(u)
    BY OtherLemma
  <2>2. pc \in [User -> {"idle", "turn", "test turn", "test flag",
                        "critical", "store", "unlock", "dead"}]
        /\ thread_flags[u] = TRUE /\ turn \in User
    BY DEF PetersonInv, TypeOK, FlagInv
  <2>3. ASSUME NEW v \in User, v = Other(u), TestTurn(v) PROVE turn = u
    BY <2>1, <2>2, <2>3 DEF TestTurn, GoTo, Inside
  <2>4. ASSUME NEW v \in User, v = Other(u), TestFlag(v) PROVE turn = u
    BY <2>1, <2>2, <2>3, <2>4 DEF TestFlag, GoTo, Inside
  <2>5. ASSUME NEW v \in User,
               SetFlag(v) \/ SetTurn(v) \/ Unlock(v) \/ Die(v)
        PROVE  FALSE
    BY <2>1, <2>2, <2>5 DEF SetFlag, SetTurn, Unlock, Die, GoTo, Inside
  <2>6. ASSUME NEW v \in User, v = u, TestTurn(v) \/ TestFlag(v) PROVE FALSE
    BY <2>1, <2>2, <2>6 DEF TestTurn, TestFlag, GoTo, Inside
  <2>7. ASSUME Load \/ Store \/ Test PROVE FALSE
    BY <2>1, <2>2, <2>7, UsersLemma DEF Load, Store, Test, GoTo, Inside
  <2> QED
    BY <2>1, <2>3, <2>4, <2>5, <2>6, <2>7 DEF Next, Access
<1> QED
  BY <1>1, PetersonInvariant, PTL DEF Spec, NoOvertaking
=============================================================================
