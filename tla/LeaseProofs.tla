---------------------------- MODULE LeaseProofs -----------------------------
(***************************************************************************)
(* Proofs about Lease, for every set of clients: its type invariant, the   *)
(* inductive invariant behind LeaseIsBacked and NoSpuriousLoss, and that   *)
(* the strategy implements LeaseContract.                                  *)
(***************************************************************************)
EXTENDS Lease, TLAPS

\* Every variable of the strategy and of RunWithLease keeps to its domain; in
\* particular the count of pending updateSubs goroutines never goes negative.
THEOREM TypeCorrect == Spec => []TypeInv
<1>1. Init => TypeInv
  <2> SUFFICES ASSUME Init PROVE TypeInv
    OBVIOUS
  <2>1. background \in 0..MaxBackground
    BY BackgroundAssumption DEF Init
  <2> QED
    BY <2>1 DEF Init, TypeInv, TypeOK
<1>2. TypeInv /\ [Next]_vars => TypeInv'
  <2> SUFFICES ASSUME TypeInv, [Next]_vars PROVE TypeInv'
    OBVIOUS
  <2> USE BackgroundAssumption DEF TypeInv, TypeOK, strategy, client
  <2>1. CASE LoopStore
    BY <2>1 DEF LoopStore
  <2>2. CASE UpdateEnd
    BY <2>2 DEF UpdateEnd
  <2>3. ASSUME NEW who \in {"loop", "background"}, UpdateBegin(who) PROVE TypeInv'
    BY <2>3 DEF UpdateBegin
  <2>4. ASSUME NEW c \in Client, UpdateVisit(c) PROVE TypeInv'
    BY <2>4 DEF UpdateVisit, Grant, Revoke, Keep
  <2>5. ASSUME NEW c \in Client, Acquire(c) PROVE TypeInv'
    BY <2>5 DEF Acquire
  <2>6. ASSUME NEW c \in Client, ClientStep(c) PROVE TypeInv'
    BY <2>6 DEF ClientStep, Select, Await, Check, Lead, LeaseDone, Receive
  <2>7. ASSUME NEW c \in Client, CancelParent(c) PROVE TypeInv'
    BY <2>7 DEF CancelParent
  <2>8. CASE UNCHANGED vars
    BY <2>8 DEF vars
  <2> QED
    BY <2>1, <2>2, <2>3, <2>4, <2>5, <2>6, <2>7, <2>8 DEF Next
<1> QED
  BY <1>1, <1>2, PTL DEF Spec

-----------------------------------------------------------------------------

\* The inductive step of LeaseInv, action by action.
LEMMA LeaseInvStep == TypeInv /\ LeaseInv /\ [Next]_vars => LeaseInv'
<1> SUFFICES ASSUME TypeInv, LeaseInv, [Next]_vars PROVE LeaseInv'
  OBVIOUS
<1> USE DEF TypeInv, TypeOK, LeaseInv, strategy, client
<1>1. CASE LoopStore
  BY <1>1 DEF LoopStore
<1>2. CASE UpdateEnd
  BY <1>2 DEF UpdateEnd
<1>3. ASSUME NEW who \in {"loop", "background"}, UpdateBegin(who) PROVE LeaseInv'
  BY <1>3 DEF UpdateBegin
<1>4. ASSUME NEW c \in Client, UpdateVisit(c) PROVE LeaseInv'
  <2>1. CASE Grant(c)
    BY <1>4, <2>1 DEF UpdateVisit, Grant
  <2>2. CASE Revoke(c)
    BY <1>4, <2>2 DEF UpdateVisit, Revoke
  <2>3. CASE Keep(c)
    BY <1>4, <2>3 DEF UpdateVisit, Keep
  <2> QED
    BY <1>4, <2>1, <2>2, <2>3 DEF UpdateVisit
<1>5. ASSUME NEW c \in Client, Acquire(c) PROVE LeaseInv'
  BY <1>5 DEF Acquire
<1>6. ASSUME NEW c \in Client, ClientStep(c) PROVE LeaseInv'
  <2>1. CASE Select(c)
    BY <1>6, <2>1 DEF Select, Receive
  <2>2. CASE Await(c)
    BY <1>6, <2>2 DEF Await, Receive
  <2>3. CASE Check(c)
    BY <1>6, <2>3 DEF Check
  <2>4. CASE Lead(c)
    BY <1>6, <2>4 DEF Lead
  <2>5. CASE LeaseDone(c)
    BY <1>6, <2>5 DEF LeaseDone
  <2> QED
    BY <1>6, <2>1, <2>2, <2>3, <2>4, <2>5 DEF ClientStep
<1>7. ASSUME NEW c \in Client, CancelParent(c) PROVE LeaseInv'
  BY <1>7 DEF CancelParent
<1>8. CASE UNCHANGED vars
  BY <1>8 DEF vars
<1> QED
  BY <1>1, <1>2, <1>3, <1>4, <1>5, <1>6, <1>7, <1>8 DEF Next

\* What the updateSubs goroutines can know of each other is an invariant.
THEOREM LeaseInvariant == Spec => []LeaseInv
<1>1. Init => LeaseInv
  BY DEF Init, LeaseInv
<1> QED
  BY <1>1, LeaseInvStep, TypeCorrect, PTL DEF Spec

\* Once the loop's updateSubs is done, no lease is open without leadership: for
\* any number of callers, and of updateSubs goroutines with stale loads.
THEOREM LeaseSafety == Spec => [](LeaseIsBacked /\ SendsOnce)
<1>1. TypeInv /\ LeaseInv => LeaseIsBacked /\ SendsOnce
  BY DEF TypeInv, TypeOK, LeaseInv, LeaseIsBacked, SendsOnce
<1> QED
  BY <1>1, TypeCorrect, LeaseInvariant, PTL

\* A lease is withdrawn with ErrLostLeadership only while the node does not lead.
THEOREM LossIsReal == Spec => NoSpuriousLoss
<1> DEFINE Loss == \A c \in Client :
                      lease[c] = "live" /\ lease'[c] = "lost" => ~isLeader
<1>1. TypeInv /\ LeaseInv /\ [Next]_vars => Loss
  <2> SUFFICES ASSUME TypeInv, LeaseInv, [Next]_vars,
                      NEW d \in Client, lease[d] = "live", lease'[d] = "lost"
               PROVE  ~isLeader
    OBVIOUS
  <2> USE DEF TypeInv, TypeOK, strategy, client
  <2>1. PICK c \in Client : UpdateVisit(c) /\ Revoke(c)
    BY DEF Next, LoopStore, UpdateEnd, UpdateBegin, UpdateVisit, Grant, Keep, Acquire,
           ClientStep, Select, Await, Check, Lead, LeaseDone, CancelParent, vars
  <2> QED
    BY <2>1 DEF UpdateVisit, Revoke, LeaseInv
<1>2. TypeInv /\ LeaseInv /\ [Next]_vars => [Loss]_vars
  BY <1>1
<1> QED
  BY <1>2, TypeCorrect, LeaseInvariant, PTL DEF Spec, NoSpuriousLoss

-----------------------------------------------------------------------------

\* Channels, mutex and goroutines implement the contract of the interface: every
\* step of the strategy or of a client is a step of LeaseContract or a stutter.
THEOREM Implementation == Spec => ImplementsContract
<1> USE DEF Contract!vars
<1>1. Init => Contract!Init
  BY DEF Init, Contract!Init
<1>2. TypeInv /\ LeaseInv /\ [Next]_vars => [Contract!Next]_(Contract!vars)
  <2> SUFFICES ASSUME TypeInv, LeaseInv, [Next]_vars
               PROVE  Contract!Next \/ UNCHANGED Contract!vars
    OBVIOUS
  <2> USE DEF TypeInv, TypeOK, LeaseInv, strategy, client
  <2>1. CASE LoopStore
    <3>1. Contract!Learn
      BY <2>1 DEF LoopStore, Contract!Learn
    <3> QED
      BY <3>1 DEF Contract!Next
  <2>2. CASE UpdateEnd
    <3>1. Contract!EndTerm \/ UNCHANGED Contract!vars
      BY <2>2 DEF UpdateEnd, Contract!EndTerm
    <3> QED
      BY <3>1 DEF Contract!Next
  <2>3. ASSUME NEW who \in {"loop", "background"}, UpdateBegin(who)
        PROVE  UNCHANGED Contract!vars
    BY <2>3 DEF UpdateBegin
  <2>4. ASSUME NEW c \in Client, UpdateVisit(c)
        PROVE  Contract!Next \/ UNCHANGED Contract!vars
    <3>1. CASE Grant(c)
      <4>1. Contract!Grant(c) \/ Contract!GrantClosed(c)
        BY <2>4, <3>1 DEF UpdateVisit, Grant, Contract!Grant, Contract!GrantClosed
      <4> QED
        BY <4>1 DEF Contract!Next
    <3>2. CASE Revoke(c)
      <4>1. Contract!Lose(c) \/ UNCHANGED Contract!vars
        BY <2>4, <3>2 DEF UpdateVisit, Revoke, Contract!Lose
      <4> QED
        BY <4>1 DEF Contract!Next
    <3>3. CASE Keep(c)
      BY <2>4, <3>3 DEF UpdateVisit, Keep
    <3> QED
      BY <2>4, <3>1, <3>2, <3>3 DEF UpdateVisit
  <2>5. ASSUME NEW c \in Client, Acquire(c) PROVE Contract!Next
    <3>1. Contract!Request(c)
      BY <2>5 DEF Acquire, Contract!Request
    <3> QED
      BY <3>1 DEF Contract!Next
  <2>6. ASSUME NEW c \in Client, ClientStep(c) PROVE UNCHANGED Contract!vars
    BY <2>6 DEF ClientStep, Select, Await, Check, Lead, LeaseDone, Receive
  <2>7. ASSUME NEW c \in Client, CancelParent(c)
        PROVE  Contract!Next \/ UNCHANGED Contract!vars
    <3>1. Contract!ParentDone(c) \/ UNCHANGED Contract!vars
      BY <2>7 DEF CancelParent, Contract!ParentDone
    <3> QED
      BY <3>1 DEF Contract!Next
  <2>8. CASE UNCHANGED vars
    BY <2>8 DEF vars
  <2> QED
    BY <2>1, <2>2, <2>3, <2>4, <2>5, <2>6, <2>7, <2>8 DEF Next
<1> QED
  BY <1>1, <1>2, TypeCorrect, LeaseInvariant, PTL
     DEF Spec, ImplementsContract, Contract!Spec
=============================================================================
