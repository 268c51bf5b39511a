------------------------------- MODULE Lease --------------------------------
(***************************************************************************)
(* Leases inside one node: RedilockStrategy.AcquireLease and updateSubs    *)
(* (lib/election/redsync.go) and the callers of Election.RunWithLease      *)
(* (svc/node/atoms/election/module.go).                                    *)
(*                                                                         *)
(* The election loop stores isLeader WITHOUT the mutex and then runs       *)
(* updateSubs under it; every AcquireLease runs another updateSubs in a    *)
(* goroutine of its own.  updateSubs loads isLeader once, under the mutex, *)
(* and then walks over the registered contexts, so it may work with a      *)
(* value that the loop has already replaced.                               *)
(***************************************************************************)
EXTENDS Naturals

CONSTANTS
    Client,       \* goroutines in RunWithLease
    MaxBackground \* updateSubs goroutines that may be pending at once

ASSUME BackgroundAssumption == MaxBackground \in Nat \ {0}

VARIABLES
    isLeader,
    loop,        \* the election loop: "idle", or owes an updateSubs
    mu,          \* who holds the mutex
    seen,        \* isLeader as the holder of the mutex loaded it
    todo,        \* contexts the holder has yet to visit
    background,  \* pending updateSubs goroutines of AcquireLease
    entry,       \* the spawnedCtx of a client: "waiting" has ctx, "granted" cancel
    chan,        \* the channel AcquireLease returned: capacity 1
    lease,       \* the context sent over it
    parent,      \* the ctx given to RunWithLease is cancelled
    pc,          \* where a client is in RunWithLease
    follower     \* the context of the followerFunc is open

strategy == <<isLeader, loop, mu, seen, todo, background>>
client   == <<parent, pc, follower>>
vars     == <<strategy, client, entry, chan, lease>>

TypeOK ==
    /\ isLeader \in BOOLEAN
    /\ loop \in {"idle", "update"}
    /\ mu \in {"free", "loop", "background"}
    /\ seen \in BOOLEAN
    /\ todo \in SUBSET Client
    /\ background \in 0..MaxBackground
    /\ entry \in [Client -> {"none", "waiting", "granted"}]
    /\ chan \in [Client -> {"none", "empty", "full", "drained"}]
    /\ lease \in [Client -> {"none", "live", "lost", "done"}]
    /\ parent \in [Client -> BOOLEAN]
    /\ pc \in [Client -> {"acquire", "select", "waiting", "check", "obtained",
                          "leading", "returned"}]
    /\ follower \in [Client -> BOOLEAN]

Init ==
    /\ isLeader = FALSE
    /\ loop = "idle" /\ mu = "free" /\ seen = FALSE /\ todo = {}
    /\ background = 0
    /\ entry = [c \in Client |-> "none"]
    /\ chan = [c \in Client |-> "none"]
    /\ lease = [c \in Client |-> "none"]
    /\ parent = [c \in Client |-> FALSE]
    /\ pc = [c \in Client |-> "acquire"]
    /\ follower = [c \in Client |-> FALSE]

-----------------------------------------------------------------------------
(* The strategy *)

\* Variant: loop stores isLeader and leaves the subscribers to later calls.
LoopStoreOnly ==
    /\ loop = "idle"
    /\ isLeader' \in BOOLEAN
    /\ UNCHANGED <<loop, mu, seen, todo, background, client, entry, chan, lease>>

\* loop learnt from discoverLeader whether this node leads: isLeader.Store.
LoopStore ==
    /\ loop = "idle"
    /\ isLeader' \in BOOLEAN
    /\ loop' = "update"
    /\ UNCHANGED <<mu, seen, todo, background, client, entry, chan, lease>>

\* Variant: isLeader is loaded before the mutex is taken.
UpdateBeginStale(who) ==
    /\ mu = "free"
    /\ \/ who = "loop" /\ loop = "update"
       \/ who = "background" /\ background > 0
    /\ mu' = who
    /\ seen' \in {seen, isLeader}
    /\ todo' = {c \in Client : entry[c] # "none"}
    /\ UNCHANGED <<isLeader, loop, background, client, entry, chan, lease>>

\* updateSubs: take the mutex and load isLeader.
UpdateBegin(who) ==
    /\ mu = "free"
    /\ \/ who = "loop" /\ loop = "update"
       \/ who = "background" /\ background > 0
    /\ mu' = who
    /\ seen' = isLeader
    /\ todo' = {c \in Client : entry[c] # "none"}
    /\ UNCHANGED <<isLeader, loop, background, client, entry, chan, lease>>

\* The loop body of updateSubs on the context of one client.
Grant(c) ==
    /\ seen /\ entry[c] = "waiting"
    /\ entry' = [entry EXCEPT ![c] = "granted"]
    /\ chan' = [chan EXCEPT ![c] = "full"]
    /\ lease' = [lease EXCEPT ![c] = IF parent[c] THEN "done" ELSE "live"]

\* Variant: a context is dropped from the list without being cancelled.
RevokeSilent(c) ==
    /\ ~seen /\ entry[c] = "granted"
    /\ entry' = [entry EXCEPT ![c] = "none"]
    /\ UNCHANGED <<chan, lease>>

Revoke(c) ==
    /\ ~seen /\ entry[c] = "granted"
    /\ entry' = [entry EXCEPT ![c] = "none"]
    /\ lease' = [lease EXCEPT ![c] = IF @ = "live" THEN "lost" ELSE @]
    /\ UNCHANGED chan

Keep(c) ==
    /\ entry[c] = IF seen THEN "granted" ELSE "waiting"
    /\ UNCHANGED <<entry, chan, lease>>

UpdateVisit(c) ==
    /\ c \in todo
    /\ Grant(c) \/ Revoke(c) \/ Keep(c)
    /\ todo' = todo \ {c}
    /\ UNCHANGED <<isLeader, loop, mu, seen, background, client>>

UpdateEnd ==
    /\ mu # "free" /\ todo = {}
    /\ mu' = "free"
    /\ IF mu = "loop"
       THEN loop' = "idle" /\ UNCHANGED background
       ELSE background' = background - 1 /\ UNCHANGED loop
    /\ UNCHANGED <<isLeader, seen, todo, client, entry, chan, lease>>

-----------------------------------------------------------------------------
(* RunWithLease *)

\* Variant: the context is registered and waits for the next loop.
AcquireOnly(c) ==
    /\ pc[c] = "acquire" /\ mu = "free"
    /\ entry' = [entry EXCEPT ![c] = "waiting"]
    /\ chan' = [chan EXCEPT ![c] = "empty"]
    /\ lease' = [lease EXCEPT ![c] = "none"]
    /\ pc' = [pc EXCEPT ![c] = "select"]
    /\ UNCHANGED <<strategy, parent, follower>>

Acquire(c) ==
    /\ pc[c] = "acquire"
    /\ mu = "free" /\ background < MaxBackground
    /\ entry' = [entry EXCEPT ![c] = "waiting"]
    /\ chan' = [chan EXCEPT ![c] = "empty"]
    /\ lease' = [lease EXCEPT ![c] = "none"]
    /\ background' = background + 1
    /\ pc' = [pc EXCEPT ![c] = "select"]
    /\ UNCHANGED <<isLeader, loop, mu, seen, todo, parent, follower>>

Receive(c) == chan[c] = "full" /\ chan' = [chan EXCEPT ![c] = "drained"]

\* The first select: any ready case, or else run the followerFunc.
Select(c) ==
    /\ pc[c] = "select"
    /\ \/ /\ parent[c]
          /\ pc' = [pc EXCEPT ![c] = "returned"]
          /\ UNCHANGED <<chan, follower>>
       \/ /\ Receive(c)
          /\ pc' = [pc EXCEPT ![c] = "obtained"]
          /\ UNCHANGED follower
       \/ /\ ~parent[c] /\ chan[c] # "full"
          /\ pc' = [pc EXCEPT ![c] = "waiting"]
          /\ follower' = [follower EXCEPT ![c] = TRUE]
          /\ UNCHANGED chan
    /\ UNCHANGED <<strategy, parent, entry, lease>>

\* The second select; leaving it cancels the followerFunc.
Await(c) ==
    /\ pc[c] = "waiting"
    /\ Receive(c) \/ (parent[c] /\ UNCHANGED chan)
    /\ pc' = [pc EXCEPT ![c] = "check"]
    /\ follower' = [follower EXCEPT ![c] = FALSE]
    /\ UNCHANGED <<strategy, parent, entry, lease>>

Check(c) ==
    /\ pc[c] = "check"
    /\ pc' = [pc EXCEPT ![c] = IF parent[c] THEN "returned" ELSE "obtained"]
    /\ UNCHANGED <<strategy, parent, follower, entry, chan, lease>>

\* go leaderFunc(lctx)
Lead(c) ==
    /\ pc[c] = "obtained"
    /\ pc' = [pc EXCEPT ![c] = "leading"]
    /\ UNCHANGED <<strategy, parent, follower, entry, chan, lease>>

\* lctx is done: start over if leadership was lost, return otherwise.
LeaseDone(c) ==
    /\ pc[c] = "leading" /\ lease[c] # "live"
    /\ pc' = [pc EXCEPT ![c] = IF lease[c] = "lost" THEN "acquire" ELSE "returned"]
    /\ UNCHANGED <<strategy, parent, follower, entry, chan, lease>>

\* The caller's ctx is cancelled, and with it every context derived from it.
CancelParent(c) ==
    /\ ~parent[c]
    /\ parent' = [parent EXCEPT ![c] = TRUE]
    /\ lease' = [lease EXCEPT ![c] = IF @ = "live" THEN "done" ELSE @]
    /\ follower' = [follower EXCEPT ![c] = FALSE]
    /\ UNCHANGED <<strategy, pc, entry, chan>>

ClientStep(c) == Select(c) \/ Await(c) \/ Check(c) \/ Lead(c) \/ LeaseDone(c)

Next ==
    \/ LoopStore \/ UpdateEnd
    \/ \E who \in {"loop", "background"} : UpdateBegin(who)
    \/ \E c \in Client :
          UpdateVisit(c) \/ Acquire(c) \/ ClientStep(c) \/ CancelParent(c)

Spec == Init /\ [][Next]_vars

\* sync.Mutex does not starve a waiter: strong fairness for those who lock it.
Fairness ==
    /\ WF_vars(UpdateEnd)
    /\ \A who \in {"loop", "background"} : SF_vars(UpdateBegin(who))
    /\ \A c \in Client :
          WF_vars(UpdateVisit(c)) /\ SF_vars(Acquire(c)) /\ WF_vars(ClientStep(c))

FairSpec == Spec /\ Fairness

-----------------------------------------------------------------------------
(* Properties *)

\* The pending goroutine that holds the mutex is one of those counted.
TypeInv == TypeOK /\ (mu = "background" => background > 0)

\* What one updateSubs can know of the others.  A stale TRUE implies that the
\* loop still owes its own updateSubs; a stale FALSE finds nothing to revoke; the
\* loop itself is never stale; and outside the loop's pending updateSubs, contexts
\* are granted only while the node leads.
LeaseInv ==
    /\ mu = "loop" => loop = "update" /\ seen = isLeader
    /\ mu = "background" /\ seen /\ ~isLeader => loop = "update"
    /\ mu # "free" /\ ~seen /\ isLeader => \A c \in Client : entry[c] # "granted"
    /\ mu = "loop" /\ ~seen => \A c \in Client : entry[c] = "granted" => c \in todo
    /\ ~isLeader /\ loop = "idle" => \A c \in Client : entry[c] # "granted"
    /\ \A c \in Client : lease[c] = "live" => entry[c] = "granted"
    /\ \A c \in Client : entry[c] = "waiting" => chan[c] = "empty" /\ lease[c] = "none"
    /\ \A c \in Client : lease[c] = "lost" => entry[c] = "none"
    /\ \A c \in Client : entry[c] # "none" => pc[c] # "acquire"
    /\ mu = "free" => todo = {}

\* An open lease is backed by leadership, or the loop is just about to withdraw
\* it: after the updateSubs of the loop no stale grant is left, although another
\* updateSubs may have granted leases from an isLeader loaded before.
LeaseIsBacked ==
    \A c \in Client : lease[c] = "live" => isLeader \/ loop = "update"

\* A lease ends with ErrLostLeadership only while the node does not lead: no
\* updateSubs that loaded isLeader before a promotion cancels leases of after it.
NoSpuriousLoss ==
    [][\A c \in Client : lease[c] = "live" /\ lease'[c] = "lost" => ~isLeader]_vars

\* updateSubs never sends on a channel that it already filled and closed (a
\* panic, or a deadlock while it holds the mutex): a context that is still
\* waiting has an empty channel that a client is listening on or has given up.
SendsOnce ==
    \A c \in Client : entry[c] = "waiting" => chan[c] = "empty" /\ lease[c] = "none"

\* Stable leadership reaches every caller of RunWithLease.
LeaseArrives ==
    \A c \in Client :
        <>[]isLeader => <>[](parent[c] \/ (pc[c] = "leading" /\ lease[c] = "live"))

\* Lost leadership closes every lease, and the callers fall back to following.
LeaseIsWithdrawn ==
    \A c \in Client :
        <>[](~isLeader) => <>[](lease[c] # "live" /\ (parent[c] \/ follower[c]))

\* The strategy implements the contract of its interface.  A term ends when the
\* loop has finished the updateSubs that follows a loss.
Contract == INSTANCE LeaseContract WITH
    term <- isLeader \/ loop = "update", leading <- isLeader

ImplementsContract == Contract!Spec
=============================================================================
