------------------------------- MODULE Backer -------------------------------
(***************************************************************************)
(* Backer (lib/callcenter/backer.go): the backoff of one remote.  Requests *)
(* that found it happy are in flight together; their answers and the       *)
(* callback of the timer take the mutex in any order.  Time is counted in  *)
(* ticks; a timer that has run out starts its callback in a goroutine,     *)
(* which then waits for the mutex like everyone else.                      *)
(***************************************************************************)
EXTENDS Naturals, FiniteSets

CONSTANTS
    Request,
    RateLimitTimeout, ErrorMinTimeout, ErrorMaxTimeout,
    TimeoutBound  \* stands for the width of time.Duration: see Failed

ASSUME BackerAssumption ==
    /\ TimeoutBound \in Nat
    /\ RateLimitTimeout \in 0..TimeoutBound
    /\ ErrorMinTimeout \in 0..TimeoutBound
    /\ ErrorMaxTimeout \in 0..TimeoutBound

VARIABLES
    happy,
    timeout,   \* the current error backoff
    armed,     \* the timer runs ...
    left,      \* ... and so many ticks are left
    firing,    \* callbacks of the timer that have yet to get the mutex
    flying,    \* requests between healthy() and their answer
    settled    \* history: what AfterFunc(0) of the constructor started is over

vars == <<happy, timeout, armed, left, firing, flying, settled>>

TypeOK ==
    /\ happy \in BOOLEAN /\ armed \in BOOLEAN /\ settled \in BOOLEAN
    /\ timeout \in 0..TimeoutBound
    /\ left \in 0..TimeoutBound
    /\ firing \in 0..2
    /\ flying \in SUBSET Request

\* NewBacker: the timer is created by AfterFunc(0, ...), so it fires once.
Init ==
    /\ happy = TRUE /\ timeout = ErrorMinTimeout
    /\ armed = TRUE /\ left = 0 /\ firing = 0
    /\ flying = {} /\ settled = FALSE

Min2(a, b) == IF a <= b THEN a ELSE b
Max2(a, b) == IF a >= b THEN a ELSE b

Reset(d) == armed' = TRUE /\ left' = d

-----------------------------------------------------------------------------

\* The request path of Middleware up to next.ServeRPC; an unhappy backer
\* refuses without any effect.
Admit(r) ==
    /\ r \notin flying /\ happy
    /\ flying' = flying \cup {r}
    /\ UNCHANGED <<happy, timeout, armed, left, firing, settled>>

\* Variant: a success makes the backer happy at once.
OkHappy(r) ==
    /\ r \in flying
    /\ flying' = flying \ {r}
    /\ happy' = TRUE
    /\ timeout' = Min2(ErrorMinTimeout, timeout \div 2)
    /\ UNCHANGED <<armed, left, firing, settled>>

\* ok(): success, a user error, or an error of no known kind.
Ok(r) ==
    /\ r \in flying
    /\ flying' = flying \ {r}
    /\ timeout' = IF happy THEN Min2(ErrorMinTimeout, timeout \div 2) ELSE timeout
    /\ UNCHANGED <<happy, armed, left, firing, settled>>

\* Variants: the check of happy is left out; so is the Reset of the timer.
LimitedAlways(r) ==
    /\ r \in flying
    /\ flying' = flying \ {r}
    /\ happy' = FALSE /\ Reset(RateLimitTimeout)
    /\ UNCHANGED <<timeout, firing, settled>>

LimitedForever(r) ==
    /\ r \in flying
    /\ flying' = flying \ {r}
    /\ happy' = FALSE
    /\ UNCHANGED <<timeout, armed, left, firing, settled>>

\* limit(): the remote asks to slow down.
Limited(r) ==
    /\ r \in flying
    /\ flying' = flying \ {r}
    /\ IF happy
       THEN happy' = FALSE /\ Reset(RateLimitTimeout)
       ELSE UNCHANGED <<happy, armed, left>>
    /\ UNCHANGED <<timeout, firing, settled>>

\* error(): the remote misbehaves.  Doubling ends at TimeoutBound, where the
\* real duration would wrap to a negative number and max would pick the other.
Failed(r) ==
    /\ r \in flying
    /\ flying' = flying \ {r}
    /\ IF happy
       THEN LET doubled == IF 2 * timeout > TimeoutBound THEN 0 ELSE 2 * timeout
                next == Max2(ErrorMaxTimeout, doubled)
            IN  timeout' = next /\ happy' = FALSE /\ Reset(next)
       ELSE UNCHANGED <<timeout, happy, armed, left>>
    /\ UNCHANGED <<firing, settled>>

Tick ==
    /\ left > 0
    /\ left' = left - 1
    /\ UNCHANGED <<happy, timeout, armed, firing, flying, settled>>

\* The timer runs out.
Fire ==
    /\ armed /\ left = 0
    /\ armed' = FALSE /\ firing' = firing + 1
    /\ UNCHANGED <<happy, timeout, left, flying, settled>>

\* The function given to AfterFunc.
Callback ==
    /\ firing > 0
    /\ firing' = firing - 1
    /\ happy' = TRUE
    /\ settled' = (settled \/ (firing = 1 /\ ~armed))
    /\ UNCHANGED <<timeout, armed, left, flying>>

Next ==
    \/ Tick \/ Fire \/ Callback
    \/ \E r \in Request : Admit(r) \/ Ok(r) \/ Limited(r) \/ Failed(r)

Spec == Init /\ [][Next]_vars

-----------------------------------------------------------------------------
(* Properties *)

\* How many times the callback will still set happy if nothing else happens.
WakeUps == firing + (IF armed THEN 1 ELSE 0)

\* Nobody resets a timer while the backer is unhappy, so there is always a
\* callback to end the backoff, and never a surplus one that could end a later
\* backoff early - except for what the AfterFunc(0) of the constructor starts: its
\* callback may be late for the mutex and wake a backer that has just failed,
\* leaving that backoff's own timer to do the same to the next one.  Even then
\* the surplus is one, and it is gone for good once the backer has come to rest.
WakeUpsMatch ==
    /\ happy => WakeUps <= 1
    /\ ~happy => WakeUps \in 1..2
    /\ settled => WakeUps = (IF happy THEN 0 ELSE 1)

\* After the start a backoff is served in full, whatever late answers of
\* requests from before it arrive meanwhile.
BackoffIsServed == [][settled /\ ~happy /\ happy' => left = 0]_vars

-----------------------------------------------------------------------------
(* Claims of the documentation that do not hold: README, "Refuted claims" *)

\* "error_backoff_min", "error_backoff_max" (config.go): an error backoff lies
\* between the two.
BackoffWithinBounds ==
    [][timeout' > timeout => timeout' \in ErrorMinTimeout..ErrorMaxTimeout]_vars
=============================================================================
