--------------------------- MODULE ElectionProofs ---------------------------
(***************************************************************************)
(* Proofs about Election, for every set of nodes, every HealthTTL above    *)
(* one period and every LockTTL: its type invariant and, for nodes that    *)
(* keep their schedule and their connection, that a promotion replaces no  *)
(* leader and that a leader keeps looking alive.                           *)
(***************************************************************************)
EXTENDS Election, TLAPS

USE ConstantsAssumption

\* Control states, beliefs, keys and their remaining lives keep to their domains.
THEOREM TypeCorrect == Spec => []TypeOK
<1>1. Init => TypeOK
  BY DEF Init, TypeOK
<1>2. TypeOK /\ [Next]_vars => TypeOK'
  <2> SUFFICES ASSUME TypeOK, [Next]_vars PROVE TypeOK'
    OBVIOUS
  <2> USE DEF TypeOK, Running, redis, process, faults, Goto, Fail, Discovered, LoopDone
  <2>1. ASSUME NEW n \in Node, Start(n) PROVE TypeOK'
    BY <2>1 DEF Start
  <2>2. ASSUME NEW n \in Node, Exists(n) PROVE TypeOK'
    BY <2>2 DEF Exists
  <2>3. ASSUME NEW n \in Node, TryLock(n) PROVE TypeOK'
    BY <2>3 DEF TryLock
  <2>4. ASSUME NEW n \in Node, SetLeader(n) PROVE TypeOK'
    <3>1. CASE Answered(n) /\ joined[n]
      BY <2>4, <3>1 DEF SetLeader
    <3>2. CASE Answered(n) /\ ~joined[n]
      BY <2>4, <3>2 DEF SetLeader
    <3>3. CASE ~Answered(n)
      BY <2>4, <3>3 DEF SetLeader
    <3> QED
      BY <3>1, <3>2, <3>3
  <2>5. ASSUME NEW n \in Node, Unlock(n) PROVE TypeOK'
    BY <2>5 DEF Unlock
  <2>6. ASSUME NEW n \in Node, Get(n) PROVE TypeOK'
    <3>1. CASE Answered(n) /\ leaderKey # None /\ joined[n]
      BY <2>6, <3>1 DEF Get
    <3>2. CASE Answered(n) /\ leaderKey # None /\ ~joined[n]
      BY <2>6, <3>2 DEF Get
    <3>3. CASE ~(Answered(n) /\ leaderKey # None)
      BY <2>6, <3>3 DEF Get
    <3> QED
      BY <3>1, <3>2, <3>3
  <2>7. ASSUME NEW n \in Node, Wake(n) PROVE TypeOK'
    BY <2>7 DEF Wake
  <2>8. ASSUME NEW n \in Node, Health(n) PROVE TypeOK'
    BY <2>8 DEF Health, Broadcast
  <2>9. ASSUME NEW n \in Node, Store(n) PROVE TypeOK'
    BY <2>9 DEF Store
  <2>10. ASSUME NEW n \in Node, Extend(n) PROVE TypeOK'
    BY <2>10 DEF Extend
  <2>11. ASSUME NEW n \in Node, HealthAgain(n) PROVE TypeOK'
    BY <2>11 DEF HealthAgain, Broadcast
  <2>12. ASSUME NEW n \in Node, Mutiny(n) PROVE TypeOK'
    BY <2>12 DEF Mutiny
  <2>13. ASSUME NEW n \in Node, Outlaw(n) PROVE TypeOK'
    BY <2>13 DEF Outlaw
  <2>14. ASSUME NEW n \in Node, Delete(n) PROVE TypeOK'
    BY <2>14 DEF Delete
  <2>15. ASSUME NEW n \in Node, Crash(n) PROVE TypeOK'
    BY <2>15 DEF Crash
  <2>16. ASSUME NEW n \in Node, Cut(n) PROVE TypeOK'
    BY <2>16 DEF Cut
  <2>17. ASSUME NEW n \in Node, Heal(n) PROVE TypeOK'
    BY <2>17 DEF Heal
  <2>18. CASE Tick
    BY <2>18 DEF Tick
  <2>19. CASE UNCHANGED vars
    BY <2>19 DEF vars
  <2> QED
    BY <2>1, <2>2, <2>3, <2>4, <2>5, <2>6, <2>7, <2>8, <2>9, <2>10, <2>11, <2>12,
       <2>13, <2>14, <2>15, <2>16, <2>17, <2>18, <2>19 DEF Next, Step
<1> QED
  BY <1>1, <1>2, PTL DEF Spec

-----------------------------------------------------------------------------

\* The lock protects the stretch from TryLock to SET, action by action.
LEMMA ScheduleInvStep ==
  TypeOK /\ ScheduleInv /\ [Next]_vars /\ SoFarOnSchedule' => ScheduleInv'
<1> SUFFICES ASSUME TypeOK, ScheduleInv, [Next]_vars, SoFarOnSchedule' PROVE ScheduleInv'
  OBVIOUS
<1> USE DEF SoFarOnSchedule, TypeOK, Running, ScheduleInv, redis, process, faults, Answered,
           Goto, Fail, Discovered, LoopDone
<1>1. ASSUME NEW n \in Node, Start(n) PROVE ScheduleInv'
  BY <1>1 DEF Start
<1>2. ASSUME NEW n \in Node, Exists(n) PROVE ScheduleInv'
  BY <1>2 DEF Exists
<1>3. ASSUME NEW n \in Node, TryLock(n) PROVE ScheduleInv'
  BY <1>3 DEF TryLock
<1>4. ASSUME NEW n \in Node, SetLeader(n) PROVE ScheduleInv'
  BY <1>4 DEF SetLeader
<1>5. ASSUME NEW n \in Node, Unlock(n) PROVE ScheduleInv'
  BY <1>5 DEF Unlock
<1>6. ASSUME NEW n \in Node, Get(n) PROVE ScheduleInv'
  BY <1>6 DEF Get
<1>7. ASSUME NEW n \in Node, Wake(n) PROVE ScheduleInv'
  BY <1>7 DEF Wake
<1>8. ASSUME NEW n \in Node, Health(n) PROVE ScheduleInv'
  BY <1>8 DEF Health, Broadcast
<1>9. ASSUME NEW n \in Node, Store(n) PROVE ScheduleInv'
  BY <1>9 DEF Store
<1>10. ASSUME NEW n \in Node, Extend(n) PROVE ScheduleInv'
  BY <1>10 DEF Extend
<1>11. ASSUME NEW n \in Node, HealthAgain(n) PROVE ScheduleInv'
  BY <1>11 DEF HealthAgain, Broadcast
<1>12. ASSUME NEW n \in Node, Mutiny(n) PROVE ScheduleInv'
  BY <1>12 DEF Mutiny
<1>13. ASSUME NEW n \in Node, Outlaw(n) PROVE ScheduleInv'
  BY <1>13 DEF Outlaw
<1>14. ASSUME NEW n \in Node, Delete(n) PROVE ScheduleInv'
  BY <1>14 DEF Delete
<1>15. ASSUME NEW n \in Node, Crash(n) PROVE ScheduleInv'
  BY <1>15 DEF Crash
<1>16. ASSUME NEW n \in Node, Cut(n) PROVE ScheduleInv'
  BY <1>16 DEF Cut
<1>17. ASSUME NEW n \in Node, Heal(n) PROVE ScheduleInv'
  BY <1>17 DEF Heal
<1>18. CASE Tick
  BY <1>18 DEF Tick, Ready, Up
<1>19. CASE UNCHANGED vars
  BY <1>19 DEF vars
<1> QED
  BY <1>1, <1>2, <1>3, <1>4, <1>5, <1>6, <1>7, <1>8, <1>9, <1>10,
     <1>11, <1>12, <1>13, <1>14, <1>15, <1>16, <1>17, <1>18, <1>19 DEF Next, Step

\* A node that the leader key names is on the path that renews its health key.
LEMMA LeaderPathInvStep ==
  TypeOK /\ ScheduleInv /\ LeaderPathInv /\ [Next]_vars /\ SoFarOnSchedule' => LeaderPathInv'
<1> SUFFICES ASSUME TypeOK, ScheduleInv, LeaderPathInv, [Next]_vars, SoFarOnSchedule'
             PROVE  LeaderPathInv'
  OBVIOUS
<1> USE DEF SoFarOnSchedule, TypeOK, Running, ScheduleInv, LeaderPathInv, redis, process, faults, Answered,
           Goto, Fail, Discovered, LoopDone
<1>1. ASSUME NEW n \in Node, Start(n) PROVE LeaderPathInv'
  BY <1>1 DEF Start
<1>2. ASSUME NEW n \in Node, Exists(n) PROVE LeaderPathInv'
  BY <1>2 DEF Exists
<1>3. ASSUME NEW n \in Node, TryLock(n) PROVE LeaderPathInv'
  BY <1>3 DEF TryLock
<1>4. ASSUME NEW n \in Node, SetLeader(n) PROVE LeaderPathInv'
  BY <1>4 DEF SetLeader
<1>5. ASSUME NEW n \in Node, Unlock(n) PROVE LeaderPathInv'
  BY <1>5 DEF Unlock
<1>6. ASSUME NEW n \in Node, Get(n) PROVE LeaderPathInv'
  BY <1>6 DEF Get
<1>7. ASSUME NEW n \in Node, Wake(n) PROVE LeaderPathInv'
  BY <1>7 DEF Wake
<1>8. ASSUME NEW n \in Node, Health(n) PROVE LeaderPathInv'
  BY <1>8 DEF Health, Broadcast
<1>9. ASSUME NEW n \in Node, Store(n) PROVE LeaderPathInv'
  BY <1>9 DEF Store
<1>10. ASSUME NEW n \in Node, Extend(n) PROVE LeaderPathInv'
  BY <1>10 DEF Extend
<1>11. ASSUME NEW n \in Node, HealthAgain(n) PROVE LeaderPathInv'
  BY <1>11 DEF HealthAgain, Broadcast
<1>12. ASSUME NEW n \in Node, Mutiny(n) PROVE LeaderPathInv'
  BY <1>12 DEF Mutiny
<1>13. ASSUME NEW n \in Node, Outlaw(n) PROVE LeaderPathInv'
  BY <1>13 DEF Outlaw
<1>14. ASSUME NEW n \in Node, Delete(n) PROVE LeaderPathInv'
  BY <1>14 DEF Delete
<1>15. ASSUME NEW n \in Node, Crash(n) PROVE LeaderPathInv'
  BY <1>15 DEF Crash
<1>16. ASSUME NEW n \in Node, Cut(n) PROVE LeaderPathInv'
  BY <1>16 DEF Cut
<1>17. ASSUME NEW n \in Node, Heal(n) PROVE LeaderPathInv'
  BY <1>17 DEF Heal
<1>18. CASE Tick
  <2> SUFFICES ASSUME NEW n \in Node, leaderKey' = n
               PROVE  \/ pc'[n] \in {"health", "exists", "get", "dead"}
                      \/ pc'[n] \in {"store", "extend", "healthAgain"} /\ known'[n] = n
                      \/ pc'[n] = "wait" /\ health'[n] >= (IF due'[n] THEN 1 ELSE 2)
    OBVIOUS
  <2>1. leaderKey = n /\ pc' = pc /\ known' = known /\ Ready(n)
    BY <1>18 DEF Tick
  <2>2. CASE pc[n] = "wait"
    <3>1. ~due[n] /\ health[n] >= 2
      BY <2>1, <2>2 DEF Ready, Up
    <3>2. health'[n] >= 1
      BY <1>18, <3>1 DEF Tick
    <3>3. due'[n]
      BY <1>18, <2>2 DEF Tick, Up
    <3> QED
      BY <2>1, <2>2, <3>2, <3>3
  <2> QED
    BY <2>1, <2>2
<1>19. CASE UNCHANGED vars
  BY <1>19 DEF vars
<1> QED
  BY <1>1, <1>2, <1>3, <1>4, <1>5, <1>6, <1>7, <1>8, <1>9, <1>10,
     <1>11, <1>12, <1>13, <1>14, <1>15, <1>16, <1>17, <1>18, <1>19 DEF Next, Step

-----------------------------------------------------------------------------

\* Both hold for as long as no tick was late and no connection was lost.
THEOREM ScheduleInvariant == Spec => [](SoFarOnSchedule => ScheduleInv /\ LeaderPathInv)
<1>1. Init => ScheduleInv /\ LeaderPathInv
  BY DEF Init, ScheduleInv, LeaderPathInv
<1>2. TypeOK /\ [Next]_vars /\ SoFarOnSchedule' => SoFarOnSchedule
  <2> SUFFICES ASSUME TypeOK, [Next]_vars, SoFarOnSchedule' PROVE SoFarOnSchedule
    OBVIOUS
  <2>1. lates' >= lates /\ cuts' >= cuts
    BY ConstantsAssumption
       DEF TypeOK, Next, Step, Start, Exists, TryLock, SetLeader, Unlock, Get, Wake, Health, Store,
           Extend, HealthAgain, Mutiny, Outlaw, Delete, Crash, Cut, Heal, Tick, faults, vars
  <2> QED
    BY <2>1, ConstantsAssumption DEF TypeOK, SoFarOnSchedule
<1> QED
  BY <1>1, <1>2, ScheduleInvStep, LeaderPathInvStep, TypeCorrect, PTL DEF Spec

\* The SET of attempt_promotion replaces the key of no other node, for any number
\* of nodes, any lifetime of the lock and any number of crashes.
THEOREM PromotionSafety == Spec => PromotionOverwritesNobody
<1> DEFINE Fresh == SoFarOnSchedule /\ leaderKey' \notin {None, leaderKey} => leaderKey = None
<1>1. TypeOK /\ (SoFarOnSchedule => ScheduleInv) /\ [Next]_vars => [Fresh]_vars
  <2> SUFFICES ASSUME TypeOK, SoFarOnSchedule => ScheduleInv, [Next]_vars, SoFarOnSchedule,
                      leaderKey' \notin {None, leaderKey}
               PROVE  leaderKey = None
    OBVIOUS
  <2> USE DEF redis, process, faults
  <2>1. PICK n \in Node : SetLeader(n)
    BY DEF Next, Step, Start, Exists, TryLock, Unlock, Get, Wake, Health, Store, Extend,
           HealthAgain, Mutiny, Outlaw, Delete, Crash, Cut, Heal, Tick, vars
  <2> QED
    BY <2>1 DEF SetLeader, ScheduleInv
<1> QED
  BY <1>1, TypeCorrect, ScheduleInvariant, PTL DEF Spec, PromotionOverwritesNobody

\* A leader that is back at its select has a health key, whatever the other nodes
\* do in the meantime.
THEOREM LeaderHealth == Spec => []LeaderOnScheduleLooksAlive
<1>1. TypeOK /\ (SoFarOnSchedule => LeaderPathInv) => LeaderOnScheduleLooksAlive
  BY DEF TypeOK, LeaderPathInv, LeaderOnScheduleLooksAlive
<1> QED
  BY <1>1, TypeCorrect, ScheduleInvariant, PTL
=============================================================================
