------------------------------ MODULE Stalker -------------------------------
(***************************************************************************)
(* Stalker (svc/node/atoms/stalker): the leader asks the cluster for the   *)
(* latest block of a chain again and again, puts its number into the head  *)
(* store and works out how long to wait from the block's timestamp.  Every *)
(* lease starts a goroutine of its own; the one of the last lease may      *)
(* still be in the middle of a tick, and both share the delay tracker and  *)
(* the head store.                                                         *)
(*                                                                         *)
(* Time is counted in ticks of 250 milliseconds, and the head's timestamp  *)
(* is kept as its age.                                                     *)
(***************************************************************************)
EXTENDS Integers, FiniteSetsExt

CONSTANTS
    Stalk,      \* goroutines of stalk
    BlockTime,  \* the chain's block time in ticks, as configured
    Skew,       \* how far a timestamp may lie in the future
    MaxBlock    \* bound on the height of the chain

ASSUME StalkerAssumption ==
    BlockTime \in Nat /\ Skew \in Nat /\ MaxBlock \in Nat \ {0}

HalfSecond == 2
QuarterSecond == 1

\* blockTime of tick
Period == Max({BlockTime, HalfSecond})

VARIABLES
    number, age,   \* environment: the chain's head
    published,     \* the highest number in the stream of the head store
    known,         \* what Get of the local head store answers
    lease,         \* per goroutine: its context is open
    pc,            \* per goroutine: "gone", "ask", "put" or "wait"
    got,           \* the block of the current tick and the time until the next
    left,          \* the rest of time.After
    seen           \* the least and the greatest delay given to the tracker

head == <<number, age>>
store == <<published, known>>
vars == <<head, store, lease, pc, got, left, seen>>

\* Blocks older than a period are all alike to tick.
MaxAge == Period
MaxWait == Period + (9 * BlockTime) \div 10

TypeOK ==
    /\ number \in 1..MaxBlock /\ age \in (-Skew)..MaxAge
    /\ published \in 0..MaxBlock /\ known \in 0..MaxBlock
    /\ lease \in [Stalk -> BOOLEAN]
    /\ pc \in [Stalk -> {"gone", "ask", "put", "wait"}]
    /\ got \in [Stalk -> [number : 0..MaxBlock, due : 0..(Period + Skew)]]
    /\ left \in [Stalk -> 0..MaxWait]
    /\ seen \in SUBSET (0..BlockTime)

None == [number |-> 0, due |-> 0]

Init ==
    /\ number = 1 /\ age = 0
    /\ published = 0 /\ known = 0
    /\ lease = [g \in Stalk |-> FALSE]
    /\ pc = [g \in Stalk |-> "gone"]
    /\ got = [g \in Stalk |-> None]
    /\ left = [g \in Stalk |-> 0]
    /\ seen = {}

-----------------------------------------------------------------------------
(* The lease: RunWithLease calls leaderFunc, or its context ends *)

Lead(g) ==
    /\ pc[g] = "gone" /\ ~\E f \in Stalk : lease[f]
    /\ lease' = [lease EXCEPT ![g] = TRUE]
    /\ pc' = [pc EXCEPT ![g] = "ask"]
    /\ UNCHANGED <<head, store, got, left, seen>>

Lose(g) ==
    /\ lease[g]
    /\ lease' = [lease EXCEPT ![g] = FALSE]
    /\ UNCHANGED <<head, store, pc, got, left, seen>>

-----------------------------------------------------------------------------
(* tick *)

\* The time tick returns.
Wait(g, d) ==
    /\ pc' = [pc EXCEPT ![g] = "wait"]
    /\ left' = [left EXCEPT ![g] = d]
    /\ got' = [got EXCEPT ![g] = None]

\* The latest block arrives; now and nextTime are fixed here.
Answer(g) ==
    /\ pc[g] = "ask"
    /\ got' = [got EXCEPT ![g] = [number |-> number, due |-> Period - age]]
    /\ pc' = [pc EXCEPT ![g] = "put"]
    /\ UNCHANGED <<head, store, lease, left, seen>>

\* The request fails (stalk looks at its context before it waits), or the answer
\* is null.
NoAnswer(g) ==
    /\ pc[g] = "ask"
    /\ \/ Wait(g, Period)
       \/ /\ ~lease[g]
          /\ pc' = [pc EXCEPT ![g] = "gone"]
          /\ UNCHANGED <<got, left>>
    /\ UNCHANGED <<head, store, lease, seen>>

\* delayTracker.Add: d > 0 is clamped to the block time.
AddDelay(d) ==
    LET all == seen \cup {Min({d, BlockTime})}
    IN  IF d > 0 THEN {Min(all), Max(all)} ELSE seen

\* delayTracker.Mean: some number between the least and the greatest.
Mean(delays) == IF delays = {} THEN {0} ELSE Min(delays)..Max(delays)

\* Variant: the floor of half a second is missing.
WaitForOldUnfloored(due) == IF due > 0 THEN Min({due, Period}) ELSE Period \div 4

\* A block that the store did not have yet.
WaitForNew(due, mean) ==
    Max({Min({due, Period}), HalfSecond, Period \div 2})
        + (IF mean > QuarterSecond THEN (mean * 9) \div 10 ELSE 0)

\* A block that it had: asked too early, or the next one is late.
WaitForOld(due) ==
    IF due > 0 THEN Min({Max({due, HalfSecond}), Period})
               ELSE Max({HalfSecond, Period \div 4})

\* Variant: the number is only compared, never published.
PublishNothing(g) == UNCHANGED published

\* stream.Add
Publish(g) == published' = Max({published, got[g].number})

\* headstore.Put answers with the number before it, which may lag behind the
\* stream, and the wait is worked out from it.
Put(g) ==
    LET due == got[g].due
    IN  /\ pc[g] = "put"
        /\ Publish(g)
        /\ IF known # got[g].number
           THEN /\ seen' = AddDelay(due)
                /\ \E mean \in Mean(seen') : Wait(g, WaitForNew(due, mean))
           ELSE Wait(g, WaitForOld(due)) /\ UNCHANGED seen
        /\ UNCHANGED <<head, known, lease>>

\* Put fails (always possible, and usual once the context is closed).
PutFails(g) ==
    /\ pc[g] = "put"
    /\ \/ Wait(g, Period)
       \/ /\ ~lease[g]
          /\ pc' = [pc EXCEPT ![g] = "gone"]
          /\ got' = [got EXCEPT ![g] = None] /\ UNCHANGED left
    /\ UNCHANGED <<head, store, lease, seen>>

-----------------------------------------------------------------------------
(* The select of stalk *)

Wake(g) ==
    /\ pc[g] = "wait" /\ left[g] = 0
    /\ pc' = [pc EXCEPT ![g] = "ask"]
    /\ UNCHANGED <<head, store, lease, got, left, seen>>

End(g) ==
    /\ pc[g] = "wait" /\ ~lease[g]
    /\ pc' = [pc EXCEPT ![g] = "gone"]
    /\ left' = [left EXCEPT ![g] = 0]
    /\ UNCHANGED <<head, store, lease, got, seen>>

-----------------------------------------------------------------------------
(* The environment *)

\* The reader of the head store (module HeadStore) catches up.
Deliver ==
    /\ known < published
    /\ known' \in (known + 1)..published
    /\ UNCHANGED <<head, published, lease, pc, got, left, seen>>

NewBlock ==
    /\ number < MaxBlock /\ age > 0
    /\ number' = number + 1
    /\ age' \in (-Skew)..0
    /\ UNCHANGED <<store, lease, pc, got, left, seen>>

Tick ==
    /\ age' = Min({age + 1, MaxAge})
    /\ left' = [g \in Stalk |-> Max({left[g] - 1, 0})]
    /\ UNCHANGED <<number, store, lease, pc, got, seen>>

Next ==
    \/ \E g \in Stalk :
          \/ Lead(g) \/ Lose(g) \/ Answer(g) \/ NoAnswer(g) \/ Put(g) \/ PutFails(g)
          \/ Wake(g) \/ End(g)
    \/ Deliver \/ NewBlock \/ Tick

Spec == Init /\ [][Next]_vars

\* Time passes and goroutines run.  A cluster that is asked again and again
\* answers now and then, as redis does.
FairSpec ==
    /\ Spec
    /\ WF_vars(Tick)
    /\ \A g \in Stalk :
          /\ WF_vars(Wake(g)) /\ WF_vars(Answer(g) \/ NoAnswer(g))
          /\ WF_vars(Put(g) \/ PutFails(g))
          /\ SF_vars(Answer(g)) /\ SF_vars(Put(g))

-----------------------------------------------------------------------------
(* Properties *)

Waits(g) == pc[g] # "wait" /\ pc'[g] = "wait"

\* "to avoid spamming nodes": no two requests of a goroutine are less than half a
\* second apart; and whatever clocks and trackers say, the next one comes within
\* less than two block times.
WaitIsBounded ==
    [][\A g \in Stalk : Waits(g) => left'[g] \in HalfSecond..MaxWait]_vars

\* A node that keeps its lease catches up with the chain whenever the chain pauses:
\* the head it found last is published, whatever its waits and failures were.
HeadIsPublished ==
    \A g \in Stalk : <>[](lease[g]) => []<>(published = number)
=============================================================================
