------------------------------ MODULE Election ------------------------------
(***************************************************************************)
(* The leader election of lib/election/redsync.go: every venn node runs    *)
(* RedilockStrategy against one shared redis.  A step of a node is one     *)
(* redis command (or the one local assignment of isLeader), so the steps   *)
(* of different nodes interleave exactly where the code lets them.         *)
(*                                                                         *)
(* redis holds three kinds of key: the leader key (a node id, no expiry),  *)
(* the redsync lock (expires LockTTL ticks after it was taken or extended) *)
(* and one health key per node (expires HealthTTL ticks after it was       *)
(* broadcast).  A tick is the period of the ticker in Join.                *)
(***************************************************************************)
EXTENDS Naturals, FiniteSets

CONSTANTS
    Node,       \* ids; a restarted process draws a fresh uuid: another node
    None,       \* no such key / no known leader
    Orphan,     \* a lock value whose owner never learnt that it was taken
    HealthTTL,  \* 5 one-second periods in the code
    LockTTL,    \* 8 one-second periods, the default of redsync
    MaxLate,    \* ticks that find some node behind its schedule
    MaxCrash,   \* processes that die (or shut down: see Crash)
    MaxCut      \* times a node loses its connection to redis

ASSUME ConstantsAssumption ==
    /\ None \notin Node
    /\ Orphan \notin Node \cup {None}
    /\ HealthTTL \in Nat \ {0, 1}
    /\ LockTTL \in Nat \ {0}
    /\ MaxLate \in Nat /\ MaxCrash \in Nat /\ MaxCut \in Nat

VARIABLES
    pc,         \* the redis command a node is about to issue
    joined,     \* Join returned: discoverLeader runs on behalf of loop
    known,      \* the local knownLeader of loop
    isLeader,   \* RedilockStrategy.isLeader
    due,        \* the one-slot buffer of ticker.C
    leaderKey,  \* venn:<ns>:election:leader
    lock,       \* <ns>:leader:redsync
    lockTTL,
    health,     \* remaining life of venn:<ns>:election:health:<id>; 0: absent
    cut,        \* nodes whose commands fail
    lates, crashes, cuts

redis   == <<leaderKey, lock, lockTTL, health>>
process == <<pc, joined, known, isLeader, due>>
faults  == <<cut, lates, crashes, cuts>>
vars    == <<redis, process, faults>>

Running == {"exists", "tryLock", "setLeader", "unlock", "get", "health", "store",
            "extend", "healthAgain", "mutiny", "outlaw", "delete", "wait"}

Up == {n \in Node : pc[n] \in Running}

TypeOK ==
    /\ pc \in [Node -> Running \cup {"off", "dead"}]
    /\ joined \in [Node -> BOOLEAN]
    /\ known \in [Node -> Node \cup {None}]
    /\ isLeader \in [Node -> BOOLEAN]
    /\ due \in [Node -> BOOLEAN]
    /\ leaderKey \in Node \cup {None}
    /\ lock \in Node \cup {None, Orphan}
    /\ lockTTL \in 0..LockTTL
    /\ health \in [Node -> 0..HealthTTL]
    /\ cut \in SUBSET Node
    /\ lates \in 0..MaxLate
    /\ crashes \in 0..MaxCrash
    /\ cuts \in 0..MaxCut

\* NewRedilockStrategy: a node that has not joined; redis starts out empty.
Init ==
    /\ pc = [n \in Node |-> "off"]
    /\ joined = [n \in Node |-> FALSE]
    /\ known = [n \in Node |-> None]
    /\ isLeader = [n \in Node |-> FALSE]
    /\ due = [n \in Node |-> FALSE]
    /\ leaderKey = None
    /\ lock = None
    /\ lockTTL = 0
    /\ health = [n \in Node |-> 0]
    /\ cut = {}
    /\ lates = 0 /\ crashes = 0 /\ cuts = 0

-----------------------------------------------------------------------------
(* Control flow shared by the commands *)

Goto(n, label) == pc' = [pc EXCEPT ![n] = label]

\* Whether a command issued by n reaches redis and is answered.  A command of
\* a cut-off node fails; if it writes, the write may have arrived before the
\* answer was lost, which the actions say with a disjunct of their own.
Answered(n) == n \notin cut

\* A command of loop failed: loop returns and the goroutine of Join goes back
\* to its select.  While joining, Join returns the error and the node does
\* not start.
Fail(n) ==
    /\ Goto(n, IF joined[n] THEN "wait" ELSE "dead")
    /\ known' = [known EXCEPT ![n] = None]

\* discoverLeader returned m: to Join, which starts the loop at once, or to loop.
Discovered(n, m) ==
    IF joined[n]
    THEN /\ known' = [known EXCEPT ![n] = m]
         /\ Goto(n, "store")
         /\ UNCHANGED joined
    ELSE /\ joined' = [joined EXCEPT ![n] = TRUE]
         /\ Goto(n, "health")
         /\ UNCHANGED known

\* The end of one loop: back to the select of Join.
LoopDone(n) ==
    /\ Goto(n, "wait")
    /\ known' = [known EXCEPT ![n] = None]

-----------------------------------------------------------------------------
(* Join and the discoverLeader loop *)

Start(n) ==
    /\ pc[n] = "off"
    /\ Goto(n, "exists")
    /\ UNCHANGED <<redis, joined, known, isLeader, due, faults>>

Exists(n) ==
    /\ pc[n] = "exists"
    /\ IF Answered(n)
       THEN /\ Goto(n, IF leaderKey = None THEN "tryLock" ELSE "get")
            /\ UNCHANGED known
       ELSE Fail(n)
    /\ UNCHANGED <<redis, joined, isLeader, due, faults>>

\* Variant: the lock is taken over whoever holds it.
TryLockOverHolder(n) ==
    /\ pc[n] = "tryLock"
    /\ lock' = n /\ lockTTL' = LockTTL
    /\ Goto(n, "setLeader")
    /\ UNCHANGED <<leaderKey, health, joined, known, isLeader, due, faults>>

\* attempt_promotion, first half.  Any failure of TryLock is "not leader", and
\* discoverLeader asks again at once.
TryLock(n) ==
    /\ pc[n] = "tryLock"
    /\ \/ /\ Answered(n) /\ lock = None
          /\ lock' = n /\ lockTTL' = LockTTL
          /\ Goto(n, "setLeader")
       \/ /\ Answered(n) /\ lock # None
          /\ Goto(n, "exists")
          /\ UNCHANGED <<lock, lockTTL>>
       \/ /\ ~Answered(n)
          /\ Goto(n, "exists")
          /\ \/ UNCHANGED <<lock, lockTTL>>
             \/ lock = None /\ lock' = Orphan /\ lockTTL' = LockTTL
    /\ UNCHANGED <<leaderKey, health, joined, known, isLeader, due, faults>>

\* Variant: the lock alone makes the leader, the key is never written.
SetLeaderWithoutKey(n) ==
    /\ pc[n] = "setLeader"
    /\ Discovered(n, n)
    /\ UNCHANGED <<redis, isLeader, due, faults>>

\* attempt_promotion, second half: the unconditional SET of the leader key.
SetLeader(n) ==
    /\ pc[n] = "setLeader"
    /\ \/ /\ Answered(n)
          /\ leaderKey' = n
          /\ Discovered(n, n)
       \/ /\ ~Answered(n)
          /\ leaderKey' \in {leaderKey, n}
          /\ Goto(n, "unlock")
          /\ UNCHANGED <<joined, known>>
    /\ UNCHANGED <<lock, lockTTL, health, isLeader, due, faults>>

\* The SET failed: give the lock back (only one's own) and ask again.
Unlock(n) ==
    /\ pc[n] = "unlock"
    /\ \/ /\ lock = n
          /\ lock' = None /\ lockTTL' = 0
       \/ /\ lock # n \/ ~Answered(n)
          /\ UNCHANGED <<lock, lockTTL>>
    /\ Goto(n, "exists")
    /\ UNCHANGED <<leaderKey, health, joined, known, isLeader, due, faults>>

\* The key may have been deleted since Exists: GET then answers redis.Nil,
\* which is an error like any other.
Get(n) ==
    /\ pc[n] = "get"
    /\ IF Answered(n) /\ leaderKey # None
       THEN Discovered(n, leaderKey)
       ELSE Fail(n) /\ UNCHANGED joined
    /\ UNCHANGED <<redis, isLeader, due, faults>>

-----------------------------------------------------------------------------
(* loop *)

\* broadcast_health
Broadcast(n) ==
    \/ health' = [health EXCEPT ![n] = HealthTTL]
    \/ ~Answered(n) /\ UNCHANGED health

Wake(n) ==
    /\ pc[n] = "wait" /\ due[n]
    /\ due' = [due EXCEPT ![n] = FALSE]
    /\ Goto(n, "health")
    /\ UNCHANGED <<redis, joined, known, isLeader, faults>>

Health(n) ==
    /\ pc[n] = "health"
    /\ Broadcast(n)
    /\ IF Answered(n) THEN Goto(n, "exists") /\ UNCHANGED known ELSE Fail(n)
    /\ UNCHANGED <<leaderKey, lock, lockTTL, joined, isLeader, due, faults>>

\* Variant: isLeader is set but never taken back.
StoreSticky(n) ==
    /\ pc[n] = "store"
    /\ isLeader' = [isLeader EXCEPT ![n] = @ \/ known[n] = n]
    /\ Goto(n, IF known[n] = n THEN "extend" ELSE "mutiny")
    /\ UNCHANGED <<redis, joined, known, due, faults>>

\* isLeader.Store; the updateSubs that follows is module Lease.
Store(n) ==
    /\ pc[n] = "store"
    /\ isLeader' = [isLeader EXCEPT ![n] = (known[n] = n)]
    /\ Goto(n, IF known[n] = n THEN "extend" ELSE "mutiny")
    /\ UNCHANGED <<redis, joined, known, due, faults>>

\* leaderLock.Extend: only a lock that still holds one's own value; the result
\* is ignored.
Extend(n) ==
    /\ pc[n] = "extend"
    /\ \/ lock = n /\ lockTTL' = LockTTL
       \/ (lock # n \/ ~Answered(n)) /\ UNCHANGED lockTTL
    /\ Goto(n, "healthAgain")
    /\ UNCHANGED <<leaderKey, lock, health, joined, known, isLeader, due, faults>>

\* Variant: a leader relies on the broadcast at the head of loop.
HealthAgainSkipped(n) ==
    /\ pc[n] = "healthAgain"
    /\ LoopDone(n)
    /\ UNCHANGED <<redis, joined, isLeader, due, faults>>

\* The second broadcast of a leader; its error is ignored.
HealthAgain(n) ==
    /\ pc[n] = "healthAgain"
    /\ Broadcast(n)
    /\ LoopDone(n)
    /\ UNCHANGED <<leaderKey, lock, lockTTL, joined, isLeader, due, faults>>

\* Variant: a follower looks up its own health key.
MutinyOnSelf(n) ==
    /\ pc[n] = "mutiny"
    /\ IF Answered(n) /\ health[n] = 0
       THEN Goto(n, "outlaw") /\ UNCHANGED known
       ELSE LoopDone(n)
    /\ UNCHANGED <<redis, joined, isLeader, due, faults>>

\* mutiny: does the leader that discoverLeader returned still have a health key?
Mutiny(n) ==
    /\ pc[n] = "mutiny"
    /\ IF Answered(n) /\ health[known[n]] = 0
       THEN Goto(n, "outlaw") /\ UNCHANGED known
       ELSE LoopDone(n)
    /\ UNCHANGED <<redis, joined, isLeader, due, faults>>

\* overthrow, first command.  Nothing reads the outlaws set.
Outlaw(n) ==
    /\ pc[n] = "outlaw"
    /\ IF Answered(n) THEN Goto(n, "delete") /\ UNCHANGED known ELSE LoopDone(n)
    /\ UNCHANGED <<redis, joined, isLeader, due, faults>>

\* overthrow, second command: deletes the key whatever it holds by now.
Delete(n) ==
    /\ pc[n] = "delete"
    /\ \/ leaderKey' = None
       \/ ~Answered(n) /\ UNCHANGED leaderKey
    /\ LoopDone(n)
    /\ UNCHANGED <<lock, lockTTL, health, joined, isLeader, due, faults>>

-----------------------------------------------------------------------------
(* Time and faults *)

\* A node that keeps its schedule: it finished its loop and consumed its tick,
\* or it spins in discoverLeader on a lock that it cannot take yet.
Ready(n) ==
    \/ n \notin Up
    \/ pc[n] = "wait" /\ ~due[n]
    \/ pc[n] \in {"exists", "tryLock"} /\ leaderKey = None /\ lock # None

\* One period passes: keys age and expire, tickers fire (a full ticker.C drops
\* the tick).  A tick that finds a node behind its schedule is late.
Tick ==
    /\ Up # {}
    /\ \/ (\A n \in Node : Ready(n)) /\ UNCHANGED lates
       \/ (\E n \in Node : ~Ready(n)) /\ lates < MaxLate /\ lates' = lates + 1
    /\ lockTTL' = IF lockTTL = 0 THEN 0 ELSE lockTTL - 1
    /\ lock' = IF lockTTL <= 1 THEN None ELSE lock
    /\ health' = [n \in Node |-> IF health[n] = 0 THEN 0 ELSE health[n] - 1]
    /\ due' = [n \in Node |-> due[n] \/ (n \in Up /\ joined[n])]
    /\ UNCHANGED <<leaderKey, pc, joined, known, isLeader, cut, crashes, cuts>>

\* The process ends.  An orderly shutdown looks the same to redis: the deferred
\* UnlockContext runs with the cancelled context, so the lock stays.
Crash(n) ==
    /\ n \in Up /\ crashes < MaxCrash
    /\ crashes' = crashes + 1
    /\ Goto(n, "dead")
    /\ isLeader' = [isLeader EXCEPT ![n] = FALSE]
    /\ known' = [known EXCEPT ![n] = None]
    /\ due' = [due EXCEPT ![n] = FALSE]
    /\ UNCHANGED <<redis, joined, cut, lates, cuts>>

Cut(n) ==
    /\ n \in Up \ cut /\ cuts < MaxCut
    /\ cuts' = cuts + 1
    /\ cut' = cut \cup {n}
    /\ UNCHANGED <<redis, process, lates, crashes>>

Heal(n) ==
    /\ n \in cut
    /\ cut' = cut \ {n}
    /\ UNCHANGED <<redis, process, lates, crashes, cuts>>

Step(n) ==
    \/ Start(n) \/ Exists(n) \/ TryLock(n) \/ SetLeader(n) \/ Unlock(n) \/ Get(n)
    \/ Wake(n) \/ Health(n) \/ Store(n) \/ Extend(n) \/ HealthAgain(n)
    \/ Mutiny(n) \/ Outlaw(n) \/ Delete(n)

Next ==
    \/ \E n \in Node : Step(n) \/ Crash(n) \/ Cut(n) \/ Heal(n)
    \/ Tick

Spec == Init /\ [][Next]_vars

\* Goroutines are scheduled and time passes; a lost connection need not return.
FairSpec == Spec /\ WF_vars(Tick) /\ \A n \in Node : WF_vars(Step(n))

\* ... and every lost connection is restored.
HealingSpec == FairSpec /\ \A n \in Node : WF_vars(Heal(n))

-----------------------------------------------------------------------------
(* Properties *)

\* So far, nodes have kept their schedule and their connection; they may crash.
SoFarOnSchedule == lates = 0 /\ cuts = 0

\* While nodes keep their schedule and their connection, the lock does what it
\* is there for: the unconditional SET of attempt_promotion never replaces the
\* leader key of another node.  (A node may sit between its EXISTS and its
\* TryLock while another one takes the key.)
PromotionOverwritesNobody ==
    [][SoFarOnSchedule /\ leaderKey' \notin {None, leaderKey} => leaderKey = None]_vars

\* A leader that is on schedule and has been through one loop is never without
\* its health key when followers come to look, so no follower has a reason to
\* overthrow it.  (The key lives HealthTTL periods and is renewed every one.)
LeaderOnScheduleLooksAlive ==
    SoFarOnSchedule =>
        \A n \in Node : leaderKey = n /\ pc[n] = "wait" => health[n] > 0

\* The inductive invariant behind the two, while no tick is late and no connection
\* is lost: the lock and an absent leader key go together from TryLock to SET, no
\* node can pass TryLock while the key is set, and the path of a node from its SET
\* back to the select renews its health key.
ScheduleInv ==
    /\ cut = {} /\ cuts = 0 /\ lates = 0
    /\ \A n \in Node : pc[n] # "unlock"
    /\ \A n \in Node :
          pc[n] \in {"wait", "health", "store", "extend", "healthAgain", "mutiny",
                     "outlaw", "delete"} => joined[n]
    /\ \A n \in Node : pc[n] = "setLeader" => lock = n /\ leaderKey = None
    /\ \A n \in Node : pc[n] = "tryLock" => leaderKey = None \/ lock # None

LeaderPathInv ==
    \A n \in Node : leaderKey = n =>
        \/ pc[n] \in {"health", "exists", "get", "dead"}
        \/ pc[n] \in {"store", "extend", "healthAgain"} /\ known[n] = n
        \/ pc[n] = "wait" /\ health[n] >= (IF due[n] THEN 1 ELSE 2)

\* Somebody always becomes leader: a missing leader key is written again as long
\* as some node runs, although the lock of the previous leader is still held.
VacuumEnds ==
    (leaderKey = None /\ Up # {}) ~> (leaderKey # None \/ Up = {})

\* The leader key has no expiry, yet that of a dead node does not stay.
DeadLeaderIsReplaced ==
    \A n \in Node :
        (leaderKey = n /\ pc[n] = "dead") ~> (leaderKey # n \/ Up = {})

\* "the context will close if ... leadership is lost" (strategy.go): once the
\* leader key settles, so do the beliefs; exactly the node it names leads, from
\* some moment on, whoever led before.
BeliefsFollowKey ==
    \A n \in Node :
        (<>[](leaderKey = n /\ n \in Up))
            => <>[](\A m \in Up : isLeader[m] <=> m = n)

-----------------------------------------------------------------------------
(* Claims of the documentation that do not hold: README, "Refuted claims" *)

\* "if the leader is not a member, then attempt to overthrow them" (redsync.go):
\* what an overthrow removes is a leader without a health key.
OverthrowsOnlyAbsentLeader ==
    [][\A n \in Node : leaderKey = n /\ leaderKey' = None => health[n] = 0]_vars

\* "the context will close if ... leadership is lost" (strategy.go:32), under
\* FairSpec, where a connection may stay lost: a node that believes to lead while
\* the key names another gives up.
DeposedStepsDown ==
    \A n \in Node :
        (isLeader[n] /\ leaderKey \notin {n, None})
            ~> (~isLeader[n] \/ leaderKey \in {n, None})
=============================================================================
