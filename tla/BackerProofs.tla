---------------------------- MODULE BackerProofs ----------------------------
(* What TLAPS proves of the backoff of a remote, for every set of requests *)
(* and every configured duration: on its own, and under the doctor whose   *)
(* checks share it with the requests.                                      *)
EXTENDS Doctor, TLAPS

\* The inductive invariant: a timer that does not run has no time left.
BackerInv == TypeOK /\ WakeUpsMatch /\ (~armed => left = 0)

\* Every step of the requests, the timer and its callback keeps the types and
\* the number of wake-ups.
LEMMA BackerInvStep == BackerInv /\ [Next]_vars => BackerInv'
<1>. SUFFICES ASSUME BackerInv, [Next]_vars PROVE BackerInv'
  OBVIOUS
<1>. USE BackerAssumption DEF BackerInv, TypeOK, WakeUpsMatch, WakeUps
<1>1. CASE Tick
  BY <1>1 DEF Tick
<1>2. CASE Fire
  <2>1. armed /\ ~armed' /\ armed' \in BOOLEAN /\ left = 0 /\ firing' = firing + 1
    BY <1>2, Zenon DEF Fire
  <2>2. UNCHANGED <<happy, timeout, left, flying, settled>>
    BY <1>2 DEF Fire
  <2>. QED
    BY <2>1, <2>2
<1>3. CASE Callback
  BY <1>3 DEF Callback
<1>4. ASSUME NEW r \in Request, Admit(r) PROVE BackerInv'
  BY <1>4 DEF Admit
<1>5. ASSUME NEW r \in Request, Ok(r) PROVE BackerInv'
  BY <1>5 DEF Ok, Min2
<1>6. ASSUME NEW r \in Request, Limited(r) PROVE BackerInv'
  <2>1. UNCHANGED <<firing, settled>> /\ flying' \in SUBSET Request
    BY <1>6 DEF Limited
  <2>2. CASE happy
    <3>1. ~happy' /\ happy' \in BOOLEAN /\ armed' /\ armed' \in BOOLEAN
      BY <1>6, <2>2, Zenon DEF Limited, Reset
    <3>2. left' \in 0..TimeoutBound /\ timeout' \in 0..TimeoutBound
      BY <1>6, <2>2 DEF Limited, Reset
    <3>. QED
      BY <2>1, <2>2, <3>1, <3>2
  <2>3. CASE ~happy
    BY <1>6, <2>1, <2>3 DEF Limited
  <2>. QED
    BY <2>2, <2>3
<1>7. ASSUME NEW r \in Request, Failed(r) PROVE BackerInv'
  <2>1. UNCHANGED <<firing, settled>> /\ flying' \in SUBSET Request
    BY <1>7 DEF Failed
  <2>2. CASE happy
    <3>1. ~happy' /\ happy' \in BOOLEAN /\ armed' /\ armed' \in BOOLEAN
      BY <1>7, <2>2, Zenon DEF Failed, Reset
    <3>2. left' \in 0..TimeoutBound /\ timeout' \in 0..TimeoutBound
      BY <1>7, <2>2 DEF Failed, Reset, Max2
    <3>. QED
      BY <2>1, <2>2, <3>1, <3>2
  <2>3. CASE ~happy
    BY <1>7, <2>1, <2>3 DEF Failed
  <2>. QED
    BY <2>2, <2>3
<1>8. CASE UNCHANGED vars
  BY <1>8 DEF vars
<1>. QED
  BY <1>1, <1>2, <1>3, <1>4, <1>5, <1>6, <1>7, <1>8 DEF Next

\* NewBacker: the timer of AfterFunc(0) is the one wake-up to come.
LEMMA BackerInvInit == Init => BackerInv
<1>. SUFFICES ASSUME Init PROVE BackerInv
  OBVIOUS
<1>1. happy /\ armed /\ ~settled /\ {happy, armed, settled} \subseteq BOOLEAN
  BY Zenon DEF Init
<1>2. timeout = ErrorMinTimeout /\ left = 0 /\ firing = 0 /\ flying = {}
  BY DEF Init
<1>. QED
  BY <1>1, <1>2, BackerAssumption DEF BackerInv, TypeOK, WakeUpsMatch, WakeUps

\* The backer's state keeps its types, and the callbacks still to come match
\* its mood: one to end a backoff, and after the start none to spare.
THEOREM WakeUpsAlwaysMatch == Spec => [](TypeOK /\ WakeUpsMatch)
BY BackerInvInit, BackerInvStep, PTL DEF Spec, BackerInv

\* After the start no backoff is cut short.
THEOREM BackoffsAreServed == Spec => BackoffIsServed
<1>1. BackerInv /\ [Next]_vars => [settled /\ ~happy /\ happy' => left = 0]_vars
  <2>. SUFFICES ASSUME BackerInv, Next, settled, ~happy, happy' PROVE left = 0
    BY DEF vars
  <2>1. Callback
    BY DEF Next, Tick, Fire, Admit, Ok, Limited, Failed, BackerInv, TypeOK
  <2>. QED
    BY <2>1 DEF Callback, BackerInv, TypeOK, WakeUpsMatch, WakeUps
<1>. QED
  BY <1>1, BackerInvInit, BackerInvStep, PTL DEF Spec, BackoffIsServed
-----------------------------------------------------------------------------

\* What a step of the doctor, its callers, the clock or the remote does to the
\* backoff is a step of the backoff, or none.
LEMMA DoctorStepsAreBackerSteps == [DoctorNext]_all => [Next]_vars
<1>. SUFFICES ASSUME [DoctorNext]_all PROVE [Next]_vars
  OBVIOUS
<1>. USE DEF backer, vars
<1>0. Check \in Request /\ Caller \subseteq Request
  BY DoctorAssumption DEF Caller
<1>1. ASSUME NEW r \in Request, ErrorOf(r) PROVE Next
  BY <1>1 DEF ErrorOf, Next
<1>2. CASE CheckCall
  BY <1>0, <1>2 DEF CheckCall, Next
<1>3. CASE CheckBlock
  BY <1>0, <1>1, <1>3 DEF CheckBlock, Next
<1>4. CASE CheckChain
  BY <1>0, <1>1, <1>4 DEF CheckChain, Next
<1>5. CASE FirstDone \/ Wake \/ Change
  BY <1>5 DEF FirstDone, Wake, Change
<1>6. CASE Pass
  BY <1>6 DEF Pass, Next
<1>7. CASE Timer
  BY <1>7 DEF Timer, Next
<1>8. ASSUME NEW c \in Caller, Use(c) \/ Block(c) \/ Unblock(c) PROVE UNCHANGED vars
  BY <1>8 DEF Use, Block, Unblock
<1>9. ASSUME NEW c \in Caller, Enter(c) PROVE [Next]_vars
  BY <1>0, <1>9 DEF Enter, Next
<1>10. ASSUME NEW c \in Caller, Answer(c) PROVE Next
  BY <1>0, <1>1, <1>10 DEF Answer, Next
<1>11. CASE UNCHANGED all
  BY <1>11 DEF all
<1>. QED
  BY <1>2, <1>3, <1>4, <1>5, <1>6, <1>7, <1>8, <1>9, <1>10, <1>11 DEF DoctorNext, Goroutine

\* The doctor and the requests together are clients of a Backer like any others:
\* its whole specification is implemented, and with it all that is proved above.
THEOREM DoctorKeepsBacker == DoctorSpec => Spec
BY DoctorStepsAreBackerSteps, PTL DEF DoctorSpec, DoctorInit, Spec

\* Checks and requests that share a backoff never leave it without its wake-up, nor
\* with a surplus one.
THEOREM WakeUpsMatchUnderDoctor == DoctorSpec => []WakeUpsMatch
BY DoctorKeepsBacker, WakeUpsAlwaysMatch, PTL

\* ... and never cut one another's backoff short.
THEOREM BackoffsAreServedUnderDoctor == DoctorSpec => BackoffIsServed
BY DoctorKeepsBacker, BackoffsAreServed, PTL
=============================================================================
