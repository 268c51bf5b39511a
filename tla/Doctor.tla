------------------------------- MODULE Doctor -------------------------------
(***************************************************************************)
(* Doctor (lib/callcenter/doctor.go) over Backer: what stands between the  *)
(* requests and one remote.  The doctor's goroutine runs check() and then  *)
(* waits for the timer in loop(); requests (and the dashboard) ask         *)
(* CanUse(), which puts the timer back while the remote is healthy.  A     *)
(* check calls the remote twice, through the same Backer as the requests:  *)
(* a backoff that requests have earned fails the check, and a check that   *)
(* fails backs the requests off.                                           *)
(***************************************************************************)
EXTENDS Backer

CONSTANTS
    Check,      \* the doctor's own call, one of Request
    MinInterval, MaxInterval

Caller == Request \ {Check}

ASSUME DoctorAssumption ==
    /\ Check \in Request
    /\ MinInterval \in Nat \ {0}
    /\ MaxInterval \in Nat /\ MinInterval <= MaxInterval

VARIABLES
    health,     \* T.health
    interval,   \* T.interval
    set,        \* the timer runs or has a tick in its channel ...
    ahead,      \* ... which comes in so many units of time
    pc,         \* the doctor's goroutine
    firstCheck, \* the WaitGroup has been released
    caller,     \* per caller of CanUse; "passed": on its way to the Backer
    node,       \* environment: what the remote answers now
    late        \* requests in flight that it would have answered otherwise when they were sent

backer == <<happy, timeout, armed, left, firing, flying, settled>>
doctor == <<health, interval, set, ahead, pc, firstCheck>>
remote == <<node, late>>
all == <<backer, doctor, caller, remote>>

\* All calls succeed; those of a check do, others may fail; only the chain is
\* wrong, or eth_chainId fails; eth_blockNumber fails, too (no answer within 15
\* seconds and an old head included).
Node == {"good", "flaky", "noChain", "noBlock"}

DoctorTypeOK ==
    /\ health \in {"unknown", "healthy", "unhealthy"}
    /\ interval \in MinInterval..MaxInterval
    /\ set \in BOOLEAN /\ ahead \in 0..MaxInterval
    /\ pc \in {"block", "chain", "done", "wait"}
    /\ firstCheck \in BOOLEAN
    /\ caller \in [Caller -> {"idle", "blocked", "passed"}]
    /\ node \in Node /\ late \subseteq flying

\* NewDoctor and Middleware: the goroutine begins with a check.
DoctorInit ==
    /\ Init
    /\ health = "unknown" /\ interval = MinInterval
    /\ set = TRUE /\ ahead = MinInterval
    /\ pc = "block" /\ firstCheck = FALSE
    /\ caller = [c \in Caller |-> "idle"]
    /\ node \in Node /\ late = {}

\* T.interval = d; T.timer.Reset(T.interval): a tick still in the channel is
\* dropped (timers of Go 1.23 and later).
Schedule(d) == interval' = d /\ set' = TRUE /\ ahead' = d

\* check() is over: the first one has the WaitGroup to release.
Checked == pc' = (IF firstCheck THEN "wait" ELSE "done") /\ UNCHANGED firstCheck

Unhealthy == health' = "unhealthy" /\ Schedule(MinInterval) /\ Checked

Healthy ==
    /\ health' = "healthy"
    /\ Schedule(IF 2 * interval <= MaxInterval THEN 2 * interval ELSE MaxInterval)
    /\ Checked

-----------------------------------------------------------------------------
(* The doctor's goroutine *)

\* A call of check() comes to the Backer, which lets it through or refuses it.
CheckCall ==
    /\ pc \in {"block", "chain"} /\ Check \notin flying
    /\ \/ Admit(Check) /\ UNCHANGED doctor
       \/ ~happy /\ Unhealthy /\ UNCHANGED backer
    /\ UNCHANGED <<caller, remote>>

\* What errors are told apart by (lib/util/error.go): what they are - an error that
\* the remote reports and the client is to blame for, or not; a status of HTTP that
\* blames the client; the end of a context; a failure of the connection or any
\* other - and whether they speak of a limit, by code, status or text.
Error == [is : {"user", "report", "badRequest", "context", "other"}, limit : BOOLEAN]

IsUserError(e) == e.is \in {"user", "context"}
IsTimeoutError(e) == e.limit
IsNodeError(e) == e.is \in {"context", "other"}

\* Backer.Middleware: the first that applies; an unknown error is fine.
ErrorOf(r) ==
    \E e \in Error :
        IF IsUserError(e) THEN Ok(r)
        ELSE IF IsTimeoutError(e) THEN Limited(r)
        ELSE IF IsNodeError(e) THEN Failed(r) ELSE Ok(r)

\* What a remote in state n has a good answer to; a request is answered as the remote
\* is, or as it was when the request was sent.
Serves(n, r) ==
    IF r # Check THEN n = "good" ELSE IF pc = "block" THEN n # "noBlock" ELSE n \in {"good", "flaky"}

Answers(r) == {Serves(node, r)} \cup IF r \in late THEN BOOLEAN ELSE {}
Answered(r) == late' = late \ {r} /\ UNCHANGED node

\* The answer to eth_blockNumber.
CheckBlock ==
    /\ pc = "block" /\ Check \in flying
    /\ \/ FALSE \in Answers(Check) /\ ErrorOf(Check) /\ Unhealthy
       \/ /\ TRUE \in Answers(Check) /\ Ok(Check) /\ pc' = "chain"
          /\ UNCHANGED <<health, interval, set, ahead, firstCheck>>
    /\ Answered(Check) /\ UNCHANGED caller

\* Variant: any answer to eth_chainId will do.
CheckChainAny ==
    /\ pc = "chain" /\ Check \in flying
    /\ Ok(Check) /\ Healthy
    /\ Answered(Check) /\ UNCHANGED caller

\* The answer to eth_chainId, and the verdict; the remote may have changed since
\* the first call.
CheckChain ==
    /\ pc = "chain" /\ Check \in flying
    /\ \/ TRUE \in Answers(Check) /\ Ok(Check) /\ Healthy
       \/ FALSE \in Answers(Check) /\ ErrorOf(Check) /\ Unhealthy
    /\ Answered(Check) /\ UNCHANGED caller

\* Variant: the WaitGroup is never released.
FirstDoneForgotten ==
    /\ pc = "done"
    /\ pc' = "wait"
    /\ UNCHANGED <<backer, health, interval, set, ahead, firstCheck, caller, remote>>

\* Middleware: T.firstCheck.Done(), then loop().
FirstDone ==
    /\ pc = "done"
    /\ firstCheck' = TRUE /\ pc' = "wait"
    /\ UNCHANGED <<backer, health, interval, set, ahead, caller, remote>>

\* loop: the timer's tick.
Wake ==
    /\ pc = "wait" /\ set /\ ahead = 0
    /\ set' = FALSE /\ pc' = "block"
    /\ UNCHANGED <<backer, health, interval, ahead, firstCheck, caller, remote>>

-----------------------------------------------------------------------------
(* Requests *)

Move(c, to) == caller' = [caller EXCEPT ![c] = to]

\* CanUse: a healthy remote is used, and its next check put off.
Use(c) ==
    /\ caller[c] = "idle" /\ c \notin flying /\ health = "healthy"
    /\ Schedule(MinInterval) /\ Move(c, "passed")
    /\ UNCHANGED <<backer, health, pc, firstCheck, remote>>

\* Before the first verdict the caller waits for it.
Block(c) ==
    /\ caller[c] = "idle" /\ c \notin flying /\ health = "unknown"
    /\ Move(c, "blocked")
    /\ UNCHANGED <<backer, doctor, remote>>

\* firstCheck.Wait() returns and CanUse starts over: it answers, or blocks again.
Unblock(c) ==
    /\ caller[c] = "blocked" /\ firstCheck
    /\ \/ health = "healthy" /\ Schedule(MinInterval) /\ Move(c, "passed")
       \/ health # "healthy" /\ UNCHANGED <<interval, set, ahead>>
          /\ Move(c, IF health = "unknown" THEN "blocked" ELSE "idle")
    /\ UNCHANGED <<backer, health, pc, firstCheck, remote>>

\* ServeRPC: the request comes to the Backer.
Enter(c) ==
    /\ caller[c] = "passed" /\ Move(c, "idle")
    /\ \/ Admit(c)
       \/ ~happy /\ UNCHANGED backer
    /\ UNCHANGED <<doctor, remote>>

Answer(c) ==
    /\ c \in flying
    /\ \E good \in Answers(c) : IF good THEN Ok(c) ELSE ErrorOf(c)
    /\ Answered(c) /\ UNCHANGED <<doctor, caller>>

-----------------------------------------------------------------------------
(* Time and the remote *)

\* One clock for the timers of both.
Pass ==
    /\ left > 0 \/ (set /\ ahead > 0)
    /\ IF left > 0 THEN Tick ELSE UNCHANGED backer
    /\ ahead' = IF set /\ ahead > 0 THEN ahead - 1 ELSE ahead
    /\ UNCHANGED <<health, interval, set, pc, firstCheck, caller, remote>>

Timer == (Fire \/ Callback) /\ UNCHANGED <<doctor, caller, remote>>

Change ==
    /\ node' \in Node \ {node}
    /\ late' = {r \in flying : (Serves(node', r) = Serves(node, r)) = (r \in late)}
    /\ UNCHANGED <<backer, doctor, caller>>

Goroutine == CheckCall \/ CheckBlock \/ CheckChain \/ FirstDone \/ Wake

DoctorNext ==
    \/ Goroutine \/ Pass \/ Timer \/ Change
    \/ \E c \in Caller : Use(c) \/ Block(c) \/ Unblock(c) \/ Enter(c) \/ Answer(c)

\* The goroutines run, a check ends within its 15 seconds, and time passes.  No
\* fairness for Use and Block: a remote may be left alone; nor for Answer.
DoctorSpec ==
    /\ DoctorInit /\ [][DoctorNext]_all
    /\ WF_all(Goroutine) /\ WF_all(Pass) /\ WF_all(Timer)
    /\ \A c \in Caller : WF_all(Unblock(c)) /\ WF_all(Enter(c))

-----------------------------------------------------------------------------
(* Properties; those of Backer hold here, too *)

\* "will block until the first check is complete" (CanUse), and no longer.
CallersAreAnswered ==
    \A c \in Caller : caller[c] = "blocked" ~> caller[c] # "blocked"

\* A remote that is good again is used again, whatever requests come meanwhile
\* and however late the answers of the bad times are: in the end the verdict is
\* healthy and no backoff is left to refuse the checks or the requests.
RecoveryIsSeen == <>[](node = "good") => <>[](health = "healthy" /\ happy)

\* A remote that stays bad is found out, once it is left alone.
QuietFailureIsSeen ==
    <>[](node \notin {"good", "flaky"}) /\ <>[][\A c \in Caller : ~Use(c)]_all
        => <>[](health = "unhealthy")

-----------------------------------------------------------------------------
(* Claims that do not hold: README, "Refuted claims" *)

\* "Doctor runs periodic health checks on the remote, preventing further requests
\* if the health check fails": there is always another check to come.
ChecksArePeriodic == []<>(pc = "block")

\* A remote that answers every check is not found unhealthy.
VerdictIsHonest == [](node \in {"good", "flaky"}) => [](health # "unhealthy")
=============================================================================
