---------------------------- MODULE Subscription ----------------------------
(***************************************************************************)
(* eth_subscribe (svc/node/atoms/subcenter/component.go) on top of the     *)
(* head store: sessions of the kinds "newHeads" and "logs".  A session     *)
(* reads the current head, registers with On, and turns every number that  *)
(* arrives into notifications for the blocks after current.  The head      *)
(* store, the requests to the cluster and the peer all interleave with it. *)
(***************************************************************************)
EXTENDS HeadStore

CONSTANTS
    NewHeads,   \* the sessions (subscribers) of kind newHeads
    Logs,       \* ... and of kind logs
    Watched     \* the chain they subscribe to

ASSUME SubscriptionAssumption ==
    /\ Sub = NewHeads \cup Logs /\ NewHeads \cap Logs = {}
    /\ Watched \in Chain

VARIABLES
    session,   \* "new", "fetched" (current is read), "listen", "busy", "closed"
    current,   \* the local current
    target,    \* the head being worked on
    block,     \* the i of newHeads
    base,      \* history: current as the session started
    notified,  \* history: blocks whose header or logs were sent
    failed,    \* history: blocks whose fetch failed in a newHeads session
    broken     \* a Notify failed: the connection is gone

sess == <<session, current, target, block, base, notified, failed, broken>>
vars == <<hvars, sess>>

TypeOK ==
    /\ StoreTypeOK
    /\ session \in [Sub -> {"new", "fetched", "listen", "busy", "closed"}]
    /\ current \in [Sub -> 0..MaxHead]
    /\ target \in [Sub -> 0..MaxHead]
    /\ block \in [Sub -> 0..MaxHead + 1]
    /\ base \in [Sub -> 0..MaxHead]
    /\ notified \in [Sub -> SUBSET Number]
    /\ failed \in [Sub -> SUBSET Number]
    /\ broken \in [Sub -> BOOLEAN]

Init ==
    /\ StoreInit
    /\ session = [s \in Sub |-> "new"]
    /\ current = [s \in Sub |-> 0]
    /\ target = [s \in Sub |-> 0]
    /\ block = [s \in Sub |-> 0]
    /\ base = [s \in Sub |-> 0]
    /\ notified = [s \in Sub |-> {}]
    /\ failed = [s \in Sub |-> {}]
    /\ broken = [s \in Sub |-> FALSE]

-----------------------------------------------------------------------------

Become(s, label) == session' = [session EXCEPT ![s] = label]

\* current, err := T.store.Get(...)
GetCurrent(s) ==
    /\ session[s] = "new"
    /\ Become(s, "fetched")
    /\ current' = [current EXCEPT ![s] = head[Watched]]
    /\ base' = [base EXCEPT ![s] = head[Watched]]
    /\ UNCHANGED <<hvars, target, block, notified, failed, broken>>

\* T.store.On(chain); newHeads sends the subscription id after it, logs before it.
Register(s) ==
    /\ session[s] = "fetched"
    /\ On(s, Watched)
    /\ Become(s, "listen")
    /\ UNCHANGED <<current, target, block, base, notified, failed, broken>>

\* Variant: only the newest block is announced.
TakeHeadNewest(s) ==
    /\ session[s] = "listen"
    /\ Receive(s)
    /\ target' = [target EXCEPT ![s] = chan[s]]
    /\ block' = [block EXCEPT ![s] = chan[s]]
    /\ Become(s, "busy")
    /\ UNCHANGED <<current, base, notified, failed, broken>>

\* case head := <-sub
TakeHead(s) ==
    /\ session[s] = "listen"
    /\ Receive(s)
    /\ target' = [target EXCEPT ![s] = chan[s]]
    /\ block' = [block EXCEPT ![s] = current[s] + 1]
    /\ Become(s, "busy")
    /\ UNCHANGED <<current, base, notified, failed, broken>>

\* Variant: current stays where it was.
CaughtUpForgotten(s) == UNCHANGED current /\ Become(s, "listen")

\* current = head
CaughtUp(s) ==
    /\ current' = [current EXCEPT ![s] = target[s]]
    /\ Become(s, "listen")

\* One iteration of the loop of newHeads: the block cannot be had (it is
\* skipped), or it is sent, or the peer is gone (break).
NotifyBlock(s) ==
    /\ s \in NewHeads /\ session[s] = "busy" /\ block[s] <= target[s]
    /\ \/ /\ failed' = [failed EXCEPT ![s] = @ \cup {block[s]}]
          /\ block' = [block EXCEPT ![s] = @ + 1]
          /\ UNCHANGED <<notified, broken, current, session>>
       \/ /\ ~broken[s]
          /\ notified' = [notified EXCEPT ![s] = @ \cup {block[s]}]
          /\ block' = [block EXCEPT ![s] = @ + 1]
          /\ UNCHANGED <<failed, broken, current, session>>
       \/ /\ broken' = [broken EXCEPT ![s] = TRUE]
          /\ CaughtUp(s)
          /\ UNCHANGED <<notified, failed, block>>
    /\ UNCHANGED <<hvars, target, base>>

BlocksDone(s) ==
    /\ s \in NewHeads /\ session[s] = "busy" /\ block[s] > target[s]
    /\ CaughtUp(s)
    /\ UNCHANGED <<hvars, target, block, base, notified, failed, broken>>

\* Variant: a failed query moves current on as if it had been answered.
GetLogsOrSkip(s) ==
    /\ s \in Logs /\ session[s] = "busy"
    /\ \/ CaughtUp(s) /\ UNCHANGED <<notified, broken>>
       \/ /\ notified' = [notified EXCEPT ![s] = @ \cup ((current[s] + 1)..target[s])]
          /\ CaughtUp(s)
          /\ UNCHANGED broken
    /\ UNCHANGED <<hvars, target, block, base, failed>>

\* eth_getLogs from current + 1 to head: an error leaves current alone, so that
\* the next head asks for the whole range again.
GetLogs(s) ==
    /\ s \in Logs /\ session[s] = "busy"
    /\ \/ /\ Become(s, "listen")
          /\ UNCHANGED <<notified, broken, current>>
       \/ /\ ~broken[s]
          /\ notified' = [notified EXCEPT ![s] = @ \cup ((current[s] + 1)..target[s])]
          /\ CaughtUp(s)
          /\ UNCHANGED broken
       \/ /\ broken' = [broken EXCEPT ![s] = TRUE]
          /\ CaughtUp(s)
          /\ UNCHANGED notified
    /\ UNCHANGED <<hvars, target, block, base, failed>>

\* The request's context is done or the notifier reports an error.
Close(s) ==
    /\ session[s] = "listen"
    /\ Done(s)
    /\ Become(s, "closed")
    /\ UNCHANGED <<current, target, block, base, notified, failed, broken>>

Session(s) ==
    GetCurrent(s) \/ Register(s) \/ TakeHead(s) \/ NotifyBlock(s) \/ BlocksDone(s)
        \/ GetLogs(s)

StoreStep ==
    /\ \/ Reader \/ Disconnect
       \/ \E c \in Chain, h \in Number : Put(c, h)
    /\ UNCHANGED sess

Next == StoreStep \/ \E s \in Sub : Session(s) \/ Close(s)

Spec == Init /\ [][Next]_vars

-----------------------------------------------------------------------------
(* Properties *)

\* Blocks a session has dealt with: up to current, or within a range of newHeads.
DoneUpTo(s) == IF session[s] = "busy" /\ s \in NewHeads THEN block[s] - 1 ELSE current[s]

\* A newHeads session leaves no block out and invents none: each one after the
\* head it started from was sent, or its fetch failed, although heads arrive in
\* jumps, between Get and On, and are dropped when the channel is full.
HeadsHaveNoGap ==
    \A s \in NewHeads :
        ~broken[s] => notified[s] \cup failed[s] = (base[s] + 1)..DoneUpTo(s)

\* ... and none is sent twice or out of order.
HeadsAscend ==
    [][\A s \in NewHeads :
          \A b \in notified'[s] \ notified[s] : \A a \in notified[s] \cup failed[s] : a < b]_vars

\* A logs session loses no range: a failed query is made good by the next head,
\* so what was sent is always everything after the head it started from.
LogsHaveNoGap ==
    \A s \in Logs : ~broken[s] => notified[s] = (base[s] + 1)..current[s]

\* No head below current is ever worked on: Get and On are two steps, and a
\* setHead that is halfway through may announce to a session that already
\* started from its number, but never less than that.
NeverBehind ==
    \A s \in Sub : session[s] = "busy" => current[s] <= target[s]

\* The inductive invariant behind these: what is registered listens, current stays
\* at or below whatever may still arrive, and newHeads works its way upwards.
SessionInvOf(s) ==
    /\ topic[s] = IF session[s] \in {"listen", "busy"} THEN Watched ELSE Nothing
    /\ base[s] <= current[s] /\ current[s] <= head[Watched]
    /\ chan[s] # 0 => current[s] <= chan[s]
    /\ session[s] = "busy" => target[s] = got[s] /\ current[s] <= target[s]
    /\ session[s] = "busy" => block[s] > current[s] /\ block[s] <= target[s] + 1
    /\ session[s] = "new" => current[s] = 0 /\ base[s] = 0
    /\ session[s] \in {"new", "fetched"} =>
          notified[s] = {} /\ failed[s] = {} /\ base[s] = current[s]

SessionInv == \A s \in Sub : SessionInvOf(s)
=============================================================================
