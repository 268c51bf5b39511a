--------------------------- MODULE GatewayProofs ----------------------------
(***************************************************************************)
(* Proofs about Gateway, for any handlers, requests, limits, patterns and  *)
(* size of the pool: nobody exceeds its budget, the pool does not leak     *)
(* connections, subscriptions are held once, origins are the listed ones.  *)
(***************************************************************************)
EXTENDS Gateway, FiniteSetTheorems, TLAPS

USE GatewayAssumption

\* What a step of one handler makes of it is a stage again; the others stay.
LEMMA StageUpdate ==
  ASSUME TypeOK, NEW h \in Handler, NEW s \in Stage,
         handler' = [handler EXCEPT ![h] = s]
  PROVE  handler' \in [Handler -> Stage]
BY DEF TypeOK

\* The label of a handler tells its stage.
LEMMA StageOf ==
  ASSUME TypeOK, NEW h \in Handler
  PROVE  /\ handler[h] \in Resting \/ handler[h] \in Limiting
             \/ handler[h] \in Serving \/ handler[h] \in Subscribing
         /\ handler[h].gone \in BOOLEAN
         /\ handler[h].pc \in {"idle", "publish"} => handler[h] \in Resting
         /\ handler[h].pc = "limit" => handler[h] \in Limiting
         /\ handler[h].pc = "serve" => handler[h] \in Serving
         /\ handler[h].pc \in {"loop", "lock", "dial", "subscribe", "live", "release"} =>
              handler[h] \in Subscribing
BY DEF TypeOK, Stage, Resting, Limiting, Serving, Subscribing

\* A client that leaves does not change the stage of its handler.
LEMMA LeaveStage ==
  ASSUME TypeOK, NEW h \in Handler PROVE [handler[h] EXCEPT !.gone = TRUE] \in Stage
<1>1. CASE handler[h] \in Resting
  BY <1>1 DEF Stage, Resting
<1>2. CASE handler[h] \in Limiting
  BY <1>2 DEF Stage, Limiting
<1>3. CASE handler[h] \in Serving
  BY <1>3 DEF Stage, Serving
<1>4. CASE handler[h] \in Subscribing
  BY <1>4 DEF Stage, Subscribing
<1> QED
  BY <1>1, <1>2, <1>3, <1>4, StageOf

\* The key a request is counted under is the address of its client: a trusted proxy
\* names it in the first header, nobody else is believed.
LEMMA SlugIsClient == ASSUME NEW r \in Request PROVE Slug(r) = r.client /\ Slug(r) \in Key
<1>0. r.client \in Address /\ r.client \in Key
  BY DEF Key
<1>1. CASE r.peer \in TrustedOrigins
  <2> DEFINE valid == {i \in DOMAIN r.headers : Valid(r.headers[i])}
  <2>1. 1 \in valid /\ r.headers[1] = r.client /\ valid \subseteq Nat \ {0}
    BY <1>0, <1>1 DEF Valid
  <2>2. (CHOOSE i \in valid : \A j \in valid : i <= j) = 1
    BY <2>1
  <2>3. RemoteAddr(r) = [host |-> r.headers[1]]
    BY <1>1, <2>1, <2>2 DEF RemoteAddr
  <2> QED
    BY <1>0, <2>1, <2>3 DEF Slug
<1>2. CASE r.peer \notin TrustedOrigins
  BY <1>0, <1>2 DEF Slug, RemoteAddr
<1> QED
  BY <1>1, <1>2

\* Every step keeps the types.
LEMMA TypeStep == TypeOK /\ PoolInv /\ [Next]_vars => TypeOK'
<1> SUFFICES ASSUME TypeOK, PoolInv, [Next]_vars PROVE TypeOK'
  OBVIOUS
<1> USE DEF limits, socket, telemetry, faults
<1>1. ASSUME NEW h \in Handler, NEW r \in Request, Arrive(h, r) PROVE TypeOK'
  <2>1. 1 \in 1..Len(Total) + 1
    OBVIOUS
  <2>2. Idle \in Stage
        /\ [pc |-> "limit", gone |-> FALSE, request |-> r, limit |-> 1] \in Stage
    BY <2>1 DEF Idle, Stage, Resting, Limiting
  <2>3. handler' \in [Handler -> Stage]
    BY <1>1, <2>2, StageUpdate DEF Arrive
  <2> QED
    BY <1>1, <2>3 DEF Arrive, TypeOK
<1>2. ASSUME NEW h \in Handler, Leave(h) PROVE TypeOK'
  <2>1. handler' \in [Handler -> Stage]
    BY <1>2, LeaveStage, StageUpdate DEF Leave
  <2> QED
    BY <1>2, <2>1 DEF Leave, TypeOK
<1>3. ASSUME NEW h \in Handler, Allow(h) PROVE TypeOK'
  <2> DEFINE j == handler[h]
             key == Slug(j.request)
  <2>1. j \in Limiting
    BY <1>3, StageOf DEF Allow
  <2>2. key \in Key /\ j.request.client \in Address
    BY <2>1, SlugIsClient DEF Limiting
  <2>3. CASE j.limit <= Len(Total) /\ handler' = [handler EXCEPT ![h].limit = @ + 1]
             /\ tokens' = [tokens EXCEPT ![j.limit][key] = @ + 1]
             /\ passed' = [passed EXCEPT ![j.limit][j.request.client] = @ + 1]
    <3>1. j.limit \in DOMAIN Total /\ j.limit + 1 \in 1..Len(Total) + 1
      BY <2>1, <2>3, SMTT(30) DEF Limiting
    <3>2. [j EXCEPT !.limit = @ + 1] \in Stage
      BY <2>1, <3>1 DEF Limiting, Stage
    <3>3. handler' \in [Handler -> Stage]
      BY <2>3, <3>2, StageUpdate
    <3>4. tokens' \in [DOMAIN Total -> [Key -> Nat]]
      <4>1. [tokens[j.limit] EXCEPT ![key] = @ + 1] \in [Key -> Nat]
        BY <2>2, <3>1, SMTT(30) DEF TypeOK
      <4> QED
        BY <2>3, <3>1, <4>1 DEF TypeOK
    <3>5. passed' \in [DOMAIN Total -> [Address -> Nat]]
      <4>1. [passed[j.limit] EXCEPT ![j.request.client] = @ + 1] \in [Address -> Nat]
        BY <2>2, <3>1 DEF TypeOK
      <4> QED
        BY <2>3, <3>1, <4>1 DEF TypeOK
    <3> QED
      BY <1>3, <3>3, <3>4, <3>5 DEF Allow, TypeOK
  <2>4. CASE handler' = [handler EXCEPT ![h] = Idle] /\ UNCHANGED limits
    <3>1. handler' \in [Handler -> Stage]
      BY <2>4, StageUpdate DEF Idle, Stage, Resting
    <3> QED
      BY <1>3, <2>4, <3>1 DEF Allow, TypeOK
  <2>5. CASE handler' = [handler EXCEPT ![h] =
                   [pc |-> "serve", gone |-> j.gone, method |-> j.request.method,
                    ws |-> j.request.ws]] /\ UNCHANGED limits
    <3>1. handler' \in [Handler -> Stage]
      BY <2>1, <2>5, StageUpdate, ZenonT(40) DEF Limiting, Stage, Serving
    <3> QED
      BY <1>3, <2>5, <3>1 DEF Allow, TypeOK
  <2> QED
    BY <1>3, <2>3, <2>4, <2>5 DEF Allow
<1>4. ASSUME NEW i \in DOMAIN Total, Window(i) PROVE TypeOK'
  BY <1>4 DEF Window, TypeOK
<1>5. ASSUME NEW h \in Handler, Serve(h) PROVE TypeOK'
  <2>1. handler[h].gone \in BOOLEAN
    BY StageOf
  <2>2. handler' \in [Handler -> Stage]
    BY <1>5, <2>1, StageUpdate DEF Serve, Publishing, Stage, Resting, Subscribing
  <2> QED
    BY <1>5, <2>2 DEF Serve, TypeOK
<1>6. ASSUME NEW h \in Handler, Publish(h) \/ PublishFails(h) PROVE TypeOK'
  <2>1. handler' \in [Handler -> Stage]
    BY <1>6, StageUpdate DEF Publish, PublishFails, Idle, Stage, Resting
  <2> QED
    BY <1>6, <2>1 DEF Publish, PublishFails, TypeOK
<1>7. CASE Drain
  BY <1>7 DEF Drain, TypeOK
<1>8. ASSUME NEW h \in Handler, Loop(h) PROVE TypeOK'
  <2>1. handler[h] \in Subscribing
    BY <1>8, StageOf DEF Loop
  <2>2. handler' \in [Handler -> Stage]
    BY <1>8, <2>1, StageUpdate DEF Loop, Publishing, Stage, Resting, Subscribing
  <2> QED
    BY <1>8, <2>2 DEF Loop, TypeOK
<1>9. ASSUME NEW h \in Handler, Lock(h) PROVE TypeOK'
  <2>1. handler[h] \in Subscribing /\ Slot \in 0..PoolSize - 1
    BY <1>9, StageOf DEF Lock, Slot, TypeOK
  <2>2. pool[Slot] \in Conn \cup {NoConn}
    BY <2>1 DEF TypeOK
  <2>3. /\ [handler[h] EXCEPT !.pc = "dial"] \in Stage
        /\ [handler[h] EXCEPT !.pc = "subscribe", !.conn = pool[Slot]] \in Stage
    BY <2>1, <2>2 DEF Stage, Subscribing
  <2>4. handler' = [handler EXCEPT ![h] = [handler[h] EXCEPT !.pc = "dial"]]
        \/ handler' = [handler EXCEPT ![h] = [handler[h] EXCEPT !.pc = "subscribe", !.conn = pool[Slot]]]
    BY <1>9 DEF Lock, Go
  <2>5. handler' \in [Handler -> Stage]
    BY <2>3, <2>4, StageUpdate
  <2> QED
    BY <1>9, <2>1, <2>5, SMTT(30) DEF Lock, TypeOK
<1>10. ASSUME NEW h \in Handler, Dial(h) PROVE TypeOK'
  <2>1. handler[h] \in Subscribing /\ nextId \in 0..PoolSize - 1 /\ nextId + 1 \in 0..PoolSize
    BY <1>10, StageOf DEF Dial, PoolInv, TypeOK
  <2>2. PICK c \in Unused :
          /\ open' = open \cup {c} /\ pool' = [pool EXCEPT ![nextId] = c]
          /\ handler' = [handler EXCEPT ![h].pc = "subscribe", ![h].conn = c]
    BY <1>10 DEF Dial
  <2>3. c \in Conn
    BY DEF Unused
  <2>4. [handler[h] EXCEPT !.pc = "subscribe", !.conn = c] \in Stage
    BY <2>1, <2>3 DEF Stage, Subscribing
  <2>5. handler' \in [Handler -> Stage]
    <3>1. handler' = [handler EXCEPT ![h] = [handler[h] EXCEPT !.pc = "subscribe", !.conn = c]]
      BY <2>2
    <3> QED
      BY <2>4, <3>1, StageUpdate
  <2>6. pool' \in [0..PoolSize - 1 -> Conn \cup {NoConn}] /\ open' \subseteq Conn
    BY <2>1, <2>2, <2>3 DEF TypeOK
  <2> QED
    BY <1>10, <2>1, <2>5, <2>6 DEF Dial, TypeOK
<1>11. ASSUME NEW h \in Handler, handler[h].pc \in {"dial", "subscribe"}, handler' = Retry(h)
       PROVE  handler' \in [Handler -> Stage]
  <2>1. handler[h] \in Subscribing
    BY <1>11, StageOf
  <2>2. Publishing(h) \in Stage /\ [handler[h] EXCEPT !.pc = "loop", !.conn = NoConn] \in Stage
    BY <2>1 DEF Publishing, Stage, Resting, Subscribing
  <2> QED
    BY <1>11, <2>2, StageUpdate DEF Retry
<1>12. ASSUME NEW h \in Handler, DialFails(h) PROVE TypeOK'
  BY <1>11, <1>12 DEF DialFails, TypeOK
<1>13. ASSUME NEW h \in Handler, Subscribe(h) PROVE TypeOK'
  <2>1. handler[h] \in Subscribing
    BY <1>13, StageOf DEF Subscribe
  <2>2. [handler[h] EXCEPT !.pc = "live", !.first = FALSE] \in Stage
    BY <2>1 DEF Stage, Subscribing
  <2>3. handler' \in [Handler -> Stage]
    <3>1. handler' = [handler EXCEPT ![h] = [handler[h] EXCEPT !.pc = "live", !.first = FALSE]]
      BY <1>13 DEF Subscribe
    <3> QED
      BY <2>2, <3>1, StageUpdate
  <2> QED
    BY <1>13, <2>3 DEF Subscribe, TypeOK
<1>14. ASSUME NEW h \in Handler, SubscribeFails(h) PROVE TypeOK'
  <2>1. handler' \in [Handler -> Stage]
    BY <1>11, <1>14 DEF SubscribeFails
  <2> QED
    BY <1>14, <2>1 DEF SubscribeFails, TypeOK
<1>15. ASSUME NEW h \in Handler, End(h) \/ Unsubscribe(h) PROVE TypeOK'
  <2>1. handler[h] \in Subscribing
    BY <1>15, StageOf DEF End, Unsubscribe
  <2>2. /\ [handler[h] EXCEPT !.pc = "release"] \in Stage
        /\ [handler[h] EXCEPT !.pc = "loop", !.conn = NoConn] \in Stage
    BY <2>1 DEF Stage, Subscribing
  <2>3. handler' \in [Handler -> Stage]
    <3>1. \/ handler' = [handler EXCEPT ![h] = [handler[h] EXCEPT !.pc = "release"]]
          \/ handler' = [handler EXCEPT ![h] = [handler[h] EXCEPT !.pc = "loop", !.conn = NoConn]]
      BY <1>15 DEF End, Go, Unsubscribe
    <3> QED
      BY <2>2, <3>1, StageUpdate
  <2> QED
    BY <1>15, <2>3 DEF End, Unsubscribe, TypeOK
<1>16. ASSUME NEW c \in Conn, Break(c) PROVE TypeOK'
  BY <1>16 DEF Break, TypeOK
<1>17. CASE UpDown
  BY <1>17 DEF UpDown, TypeOK
<1>18. CASE UNCHANGED vars
  BY <1>18 DEF vars, TypeOK
<1> QED
  BY <1>1, <1>2, <1>3, <1>4, <1>5, <1>6, <1>7, <1>8, <1>9, <1>10, <1>12, <1>13, <1>14, <1>15,
     <1>16, <1>17, <1>18 DEF Next, Step

LEMMA InitInv == Init => TypeOK /\ PoolInv /\ ReleaseInv /\ BudgetInv /\ OnlyListedOrigins
<1> SUFFICES ASSUME Init PROVE TypeOK /\ PoolInv /\ ReleaseInv /\ BudgetInv /\ OnlyListedOrigins
  OBVIOUS
<1>1. TypeOK
  <2>1. handler \in [Handler -> Stage]
    BY DEF Init, Idle, Stage, Resting
  <2>2. 0 \in 0..MaxArrivals /\ 0 \in 0..MaxBreak /\ 0 \in 0..PendingSize /\ 0 \in 0..PoolSize
    OBVIOUS
  <2> QED
    BY <2>1, <2>2 DEF Init, TypeOK
<1>2. PoolInv
  BY DEF Init, PoolInv, PoolIsBounded, Idle
<1>3. ReleaseInv
  BY DEF Init, ReleaseInv, Held
<1>4. BudgetInv
  <2>1. Address \subseteq Key
    BY DEF Key
  <2> QED
    BY <2>1 DEF Init, BudgetInv
<1>5. OnlyListedOrigins
  BY DEF Init, OnlyListedOrigins, Idle
<1> QED
  BY <1>1, <1>2, <1>3, <1>4, <1>5

\* Every step leaves the mutex with the one handler that dials, for a slot whose
\* connection is not open; only Lock, Dial, DialFails and Break matter.
LEMMA PoolStep == TypeOK /\ PoolInv /\ [Next]_vars => PoolInv'
<1> SUFFICES ASSUME TypeOK, PoolInv, [Next]_vars PROVE PoolInv'
  OBVIOUS
<1> USE DEF limits, socket, telemetry, faults
<1>1. ASSUME NEW h \in Handler, NEW s, handler' = [handler EXCEPT ![h] = s],
             s.pc = "dial" <=> handler[h].pc = "dial", UNCHANGED <<pool, nextId, mutex, open>>
      PROVE  PoolInv'
  <2>1. \A g \in Handler : handler'[g].pc = "dial" <=> handler[g].pc = "dial"
    BY <1>1 DEF TypeOK
  <2> QED
    BY <1>1, <2>1 DEF PoolInv, PoolIsBounded
<1>2. ASSUME NEW h \in Handler, NEW r \in Request, Arrive(h, r) PROVE PoolInv'
  BY <1>1, <1>2 DEF Arrive, Idle
<1>3. ASSUME NEW h \in Handler, Leave(h) PROVE PoolInv'
  <2>1. [handler[h] EXCEPT !.gone = TRUE].pc = handler[h].pc
    BY StageOf DEF Resting, Limiting, Serving, Subscribing
  <2> QED
    BY <1>1, <1>3, <2>1 DEF Leave
<1>4. ASSUME NEW h \in Handler, Allow(h) PROVE PoolInv'
  <2>1. [handler[h] EXCEPT !.limit = @ + 1].pc = "limit"
    BY <1>4, StageOf DEF Allow, Limiting
  <2> QED
    BY <1>1, <1>4, <2>1 DEF Allow, Idle
<1>5. ASSUME NEW h \in Handler, Serve(h) PROVE PoolInv'
  BY <1>1, <1>5 DEF Serve, Publishing
<1>6. ASSUME NEW h \in Handler, Publish(h) \/ PublishFails(h) PROVE PoolInv'
  BY <1>1, <1>6 DEF Publish, PublishFails, Idle
<1>7. ASSUME NEW h \in Handler, Loop(h) PROVE PoolInv'
  <2>1. [handler[h] EXCEPT !.pc = "lock"].pc = "lock"
    BY <1>7, StageOf DEF Loop, Subscribing
  <2> QED
    BY <1>1, <1>7, <2>1 DEF Loop, Publishing
<1>8. ASSUME NEW h \in Handler, Lock(h) PROVE PoolInv'
  <2>1. handler[h] \in Subscribing /\ Slot \in 0..PoolSize - 1
    BY <1>8, StageOf DEF Lock, Slot, TypeOK
  <2>2. \A g \in Handler : handler[g].pc # "dial"
    BY <1>8 DEF Lock, PoolInv
  <2>3. CASE pool[Slot] \in open
    <3>1. \A g \in Handler : handler'[g].pc # "dial"
      <4>1. handler' = [handler EXCEPT ![h] =
                          [handler[h] EXCEPT !.pc = "subscribe", !.conn = pool[Slot]]]
        BY <1>8, <2>3 DEF Lock
      <4>2. [handler[h] EXCEPT !.pc = "subscribe", !.conn = pool[Slot]].pc = "subscribe"
        BY <2>1 DEF Subscribing
      <4> QED
        BY <2>2, <4>1, <4>2 DEF TypeOK
    <3> QED
      BY <1>8, <2>3, <3>1 DEF Lock, PoolInv, PoolIsBounded
  <2>4. CASE pool[Slot] \notin open
    <3>1. \A g \in Handler : handler'[g].pc = "dial" <=> g = h
      <4>1. [handler[h] EXCEPT !.pc = "dial"].pc = "dial"
        BY <2>1 DEF Subscribing
      <4> QED
        BY <1>8, <2>2, <2>4, <4>1 DEF Lock, Go, TypeOK
    <3> QED
      BY <1>8, <2>1, <2>4, <3>1 DEF Lock, PoolInv, PoolIsBounded
  <2> QED
    BY <2>3, <2>4
<1>9. ASSUME NEW h \in Handler, Dial(h) PROVE PoolInv'
  <2>1. handler[h] \in Subscribing /\ mutex = h /\ nextId \in DOMAIN pool /\ pool[nextId] \notin open
    BY <1>9, StageOf DEF Dial, PoolInv, TypeOK
  <2>2. PICK c \in Unused :
          /\ open' = open \cup {c} /\ pool' = [pool EXCEPT ![nextId] = c]
          /\ handler' = [handler EXCEPT ![h].pc = "subscribe", ![h].conn = c]
    BY <1>9 DEF Dial
  <2>3. \A g \in Handler : handler'[g].pc # "dial"
    <3>1. handler' = [handler EXCEPT ![h] = [handler[h] EXCEPT !.pc = "subscribe", !.conn = c]]
      BY <2>2
    <3>2. [handler[h] EXCEPT !.pc = "subscribe", !.conn = c].pc = "subscribe"
      BY <2>1 DEF Subscribing
    <3> QED
      BY <2>1, <3>1, <3>2 DEF PoolInv, TypeOK
  <2>4. PoolIsBounded'
    <3>1. c # NoConn
      BY DEF Unused, Conn, NoConn
    <3>2. \A d \in open : \E s \in DOMAIN pool : s # nextId /\ d = pool[s] /\ d # NoConn
      BY <2>1 DEF PoolInv, PoolIsBounded
    <3>3. DOMAIN pool' = DOMAIN pool /\ pool'[nextId] = c
          /\ \A s \in DOMAIN pool : s # nextId => pool'[s] = pool[s]
      BY <2>1, <2>2 DEF TypeOK
    <3> QED
      BY <2>1, <2>2, <3>1, <3>2, <3>3 DEF PoolIsBounded
  <2> QED
    BY <1>9, <2>3, <2>4 DEF Dial, PoolInv
<1>10. ASSUME NEW h \in Handler, handler[h] \in Subscribing
       PROVE  /\ Publishing(h).pc = "publish"
              /\ [handler[h] EXCEPT !.pc = "loop", !.conn = NoConn].pc = "loop"
  BY <1>10 DEF Publishing, Subscribing
<1>11. ASSUME NEW h \in Handler, DialFails(h) PROVE PoolInv'
  <2>1. mutex = h /\ handler[h] \in Subscribing
    BY <1>11, StageOf DEF DialFails, PoolInv
  <2>2. \A g \in Handler : handler'[g].pc # "dial"
    BY <1>10, <1>11, <2>1 DEF DialFails, Retry, PoolInv, TypeOK
  <2> QED
    BY <1>11, <2>2 DEF DialFails, PoolInv, PoolIsBounded
<1>12. ASSUME NEW h \in Handler, Subscribe(h) PROVE PoolInv'
  <2>1. handler[h] \in Subscribing
    BY <1>12, StageOf DEF Subscribe
  <2>2. [handler[h] EXCEPT !.pc = "live", !.first = FALSE].pc = "live"
    BY <2>1 DEF Subscribing
  <2>3. handler' = [handler EXCEPT ![h] = [handler[h] EXCEPT !.pc = "live", !.first = FALSE]]
    BY <1>12 DEF Subscribe
  <2> QED
    BY <1>1, <1>12, <2>2, <2>3 DEF Subscribe
<1>13. ASSUME NEW h \in Handler, SubscribeFails(h) PROVE PoolInv'
  <2>1. handler[h] \in Subscribing
    BY <1>13, StageOf DEF SubscribeFails
  <2> QED
    BY <1>1, <1>10, <1>13, <2>1 DEF SubscribeFails, Retry
<1>14. ASSUME NEW h \in Handler, End(h) \/ Unsubscribe(h) PROVE PoolInv'
  <2>1. handler[h] \in Subscribing
    BY <1>14, StageOf DEF End, Unsubscribe
  <2>2. \/ handler' = [handler EXCEPT ![h] = [handler[h] EXCEPT !.pc = "release"]]
        \/ handler' = [handler EXCEPT ![h] = [handler[h] EXCEPT !.pc = "loop", !.conn = NoConn]]
    BY <1>14 DEF End, Go, Unsubscribe
  <2>3. [handler[h] EXCEPT !.pc = "release"].pc = "release"
    BY <2>1 DEF Subscribing
  <2> QED
    BY <1>1, <1>10, <1>14, <2>1, <2>2, <2>3 DEF End, Unsubscribe
<1>15. ASSUME NEW c \in Conn, Break(c) PROVE PoolInv'
  BY <1>15 DEF Break, PoolInv, PoolIsBounded
<1>16. ASSUME UNCHANGED handler, UNCHANGED socket PROVE PoolInv'
  BY <1>16 DEF PoolInv, PoolIsBounded
<1>17. ASSUME NEW i \in DOMAIN Total, Window(i) PROVE PoolInv'
  BY <1>16, <1>17 DEF Window
<1>18. CASE Drain \/ UpDown \/ UNCHANGED vars
  BY <1>16, <1>18 DEF Drain, UpDown, vars
<1> QED
  BY <1>2, <1>3, <1>4, <1>5, <1>6, <1>7, <1>8, <1>9, <1>11, <1>12, <1>13, <1>14, <1>15,
     <1>17, <1>18 DEF Next, Step

\* The types, and the pool: open connections are always in a slot of the pool.
THEOREM GatewayTypes == Spec => [](TypeOK /\ PoolInv)
<1>1. TypeOK /\ PoolInv /\ [Next]_vars => (TypeOK /\ PoolInv)'
  BY TypeStep, PoolStep
<1> QED
  BY InitInv, <1>1, PTL DEF Spec

\* socketPool.get never leaks a connection, and never holds more than its slots.
THEOREM PoolDoesNotLeak == Spec => []PoolIsBounded
<1>1. TypeOK /\ PoolInv => PoolIsBounded
  BY DEF PoolInv
<1> QED
  BY GatewayTypes, <1>1, PTL

\* A handler gets a subscription by Subscribe, keeps it and its connection until it
\* has called Unsubscribe, and has none after that.
LEMMA ReleaseStep == TypeOK /\ ReleaseInv /\ [Next]_vars => ReleaseInv'
<1> SUFFICES ASSUME TypeOK, ReleaseInv, [Next]_vars PROVE ReleaseInv'
  OBVIOUS
<1> USE DEF limits, socket, telemetry, faults
<1> DEFINE Keeps(g) == \A c \in Held(g)' : handler'[g].pc \in {"live", "release"} /\ handler'[g].conn = c
<1>0. ASSUME \A g \in Handler : Keeps(g) PROVE ReleaseInv'
  BY <1>0 DEF ReleaseInv
<1>1. ASSUME NEW h \in Handler, NEW s, handler' = [handler EXCEPT ![h] = s],
             handler[h].pc \notin {"live", "release"}, UNCHANGED subs
      PROVE  ReleaseInv'
  BY <1>0, <1>1 DEF TypeOK, ReleaseInv, Held
<1>2. ASSUME NEW h \in Handler, NEW r \in Request, Arrive(h, r) PROVE ReleaseInv'
  BY <1>1, <1>2 DEF Arrive
<1>3. ASSUME NEW h \in Handler, Leave(h) \/ End(h) PROVE ReleaseInv'
  <2>1. CASE handler[h].pc \in {"live", "release"}
    <3>1. handler[h] \in Subscribing
      BY <2>1, StageOf
    <3>2. handler'[h].pc \in {"live", "release"} /\ handler'[h].conn = handler[h].conn
      BY <1>3, <2>1, <3>1 DEF Leave, End, Go, TypeOK, Subscribing
    <3>3. \A g \in Handler \ {h} : handler'[g] = handler[g]
      BY <1>3 DEF Leave, End, Go, TypeOK
    <3>4. subs' = subs
      BY <1>3 DEF Leave, End
    <3> QED
      BY <1>0, <3>2, <3>3, <3>4 DEF ReleaseInv, Held
  <2> QED
    BY <1>1, <1>3, <2>1 DEF Leave, End
<1>4. ASSUME NEW h \in Handler, Allow(h) PROVE ReleaseInv'
  BY <1>1, <1>4 DEF Allow
<1>5. ASSUME NEW h \in Handler, Serve(h) \/ Publish(h) \/ PublishFails(h) \/ Loop(h) PROVE ReleaseInv'
  BY <1>1, <1>5 DEF Serve, Publish, PublishFails, Loop
<1>6. ASSUME NEW h \in Handler, Lock(h) PROVE ReleaseInv'
  <2>1. handler' = [handler EXCEPT ![h] = [handler[h] EXCEPT !.pc = "dial"]]
        \/ handler' = [handler EXCEPT ![h] = [handler[h] EXCEPT !.pc = "subscribe", !.conn = pool[Slot]]]
    BY <1>6 DEF Lock, Go
  <2> QED
    BY <1>1, <1>6, <2>1 DEF Lock
<1>7. ASSUME NEW h \in Handler, Dial(h) PROVE ReleaseInv'
  <2>1. PICK c \in Unused : handler' = [handler EXCEPT ![h].pc = "subscribe", ![h].conn = c]
    BY <1>7 DEF Dial
  <2>2. handler' = [handler EXCEPT ![h] = [handler[h] EXCEPT !.pc = "subscribe", !.conn = c]]
    BY <2>1
  <2> QED
    BY <1>1, <1>7, <2>2 DEF Dial
<1>8. ASSUME NEW h \in Handler, DialFails(h) \/ SubscribeFails(h) PROVE ReleaseInv'
  BY <1>1, <1>8 DEF DialFails, SubscribeFails, Retry
<1>9. ASSUME NEW h \in Handler, Subscribe(h) PROVE ReleaseInv'
  <2>1. handler[h] \in Subscribing
    BY <1>9, StageOf DEF Subscribe
  <2>2. handler' = [handler EXCEPT ![h] = [handler[h] EXCEPT !.pc = "live", !.first = FALSE]]
    BY <1>9 DEF Subscribe
  <2>3. handler'[h].pc = "live" /\ handler'[h].conn = handler[h].conn
    BY <2>1, <2>2 DEF Subscribing, TypeOK
  <2>4. \A g \in Handler \ {h} : handler'[g] = handler[g]
    BY <2>2 DEF TypeOK
  <2>5. Held(h) = {}
    BY <1>9 DEF Subscribe, ReleaseInv
  <2>6. subs' = subs \cup {<<h, handler[h].conn>>}
    BY <1>9 DEF Subscribe
  <2>7. \A c \in Held(h)' : c = handler[h].conn
    BY <2>5, <2>6 DEF Held
  <2>8. \A g \in Handler \ {h} : Held(g)' = Held(g)
    BY <2>6 DEF Held
  <2> QED
    BY <1>0, <2>3, <2>4, <2>7, <2>8 DEF ReleaseInv
<1>10. ASSUME NEW h \in Handler, Unsubscribe(h) PROVE ReleaseInv'
  <2>1. subs' = subs \ {<<h, handler[h].conn>>}
    BY <1>10 DEF Unsubscribe
  <2>2. \A g \in Handler \ {h} : handler'[g] = handler[g]
    BY <1>10 DEF Unsubscribe, TypeOK
  <2>3. Held(h)' = {}
    BY <2>1 DEF ReleaseInv, Held
  <2>4. \A g \in Handler : Held(g)' \subseteq Held(g)
    BY <2>1 DEF Held
  <2> QED
    BY <1>0, <2>2, <2>3, <2>4 DEF ReleaseInv
<1>11. ASSUME NEW c \in Conn, Break(c) PROVE ReleaseInv'
  <2>1. \A g \in Handler : Held(g)' \subseteq Held(g)
    BY <1>11 DEF Break, Held
  <2> QED
    BY <1>0, <1>11, <2>1 DEF Break, ReleaseInv
<1>12. ASSUME UNCHANGED <<handler, subs>> PROVE ReleaseInv'
  BY <1>12 DEF ReleaseInv, Held
<1>13. ASSUME NEW i \in DOMAIN Total, Window(i) PROVE ReleaseInv'
  BY <1>12, <1>13 DEF Window
<1>14. CASE Drain \/ UpDown \/ UNCHANGED vars
  BY <1>12, <1>14 DEF Drain, UpDown, vars
<1> QED
  BY <1>2, <1>3, <1>4, <1>5, <1>6, <1>7, <1>8, <1>9, <1>10, <1>11, <1>13, <1>14 DEF Next, Step

\* However a handler retries, and whatever dies, venn holds at most one subscription
\* for it, and none when it subscribes again or has ended (handleEthSubscription).
THEOREM SubscriptionsAreHeldOnce == Spec => []OneSubscription
<1>1. TypeOK /\ ReleaseInv => OneSubscription
  <2> SUFFICES ASSUME TypeOK, ReleaseInv, NEW h \in Handler
               PROVE  /\ Cardinality(Held(h)) <= 1
                      /\ handler[h].pc \in {"subscribe", "publish", "idle"} => Held(h) = {}
    BY DEF OneSubscription
  <2>1. handler[h].pc \in {"subscribe", "publish", "idle"} => Held(h) = {}
    BY DEF ReleaseInv
  <2>2. Held(h) \subseteq {handler[h].conn}
    BY DEF ReleaseInv
  <2>3. IsFiniteSet({handler[h].conn}) /\ Cardinality({handler[h].conn}) = 1
    BY FS_Singleton
  <2>4. Cardinality(Held(h)) <= Cardinality({handler[h].conn})
    BY <2>2, <2>3, FS_Subset
  <2> QED
    BY <2>1, <2>3, <2>4
<1> QED
  BY InitInv, GatewayTypes, ReleaseStep, <1>1, PTL DEF Spec

\* Allow counts a request under the key of its client, the address (SlugIsClient), and
\* nothing else adds to what passed.
LEMMA BudgetStep == TypeOK /\ BudgetInv /\ [Next]_vars => BudgetInv'
<1> SUFFICES ASSUME TypeOK, BudgetInv, [Next]_vars PROVE BudgetInv'
  OBVIOUS
<1> USE DEF limits, socket, telemetry, faults
<1>1. ASSUME NEW h \in Handler, Allow(h) PROVE BudgetInv'
  <2> DEFINE j == handler[h]
             key == Slug(j.request)
  <2>1. CASE UNCHANGED limits
    BY <2>1 DEF BudgetInv
  <2>2. CASE /\ j.limit <= Len(Total) /\ tokens[j.limit][key] < Total[j.limit]
             /\ tokens' = [tokens EXCEPT ![j.limit][key] = @ + 1]
             /\ passed' = [passed EXCEPT ![j.limit][j.request.client] = @ + 1]
    <3>1. j \in Limiting
      BY <1>1, StageOf DEF Allow
    <3>2. j.limit \in DOMAIN Total /\ j.request \in Request
      BY <2>2, <3>1 DEF Limiting
    <3>3. key = j.request.client /\ key \in Key /\ key \in Address
      BY <3>2, SlugIsClient
    <3> HIDE DEF j, key
    <3> SUFFICES ASSUME NEW i \in DOMAIN Total
                 PROVE  /\ \A k \in Key : tokens'[i][k] <= Total[i]
                        /\ \A a \in Address : passed'[i][a] <= tokens'[i][a]
      BY DEF BudgetInv
    <3>4. /\ \A k \in Key : tokens[i][k] <= Total[i] /\ tokens[i][k] \in Nat
          /\ \A a \in Address : passed[i][a] <= tokens[i][a] /\ passed[i][a] \in Nat
      BY DEF BudgetInv, TypeOK
    <3>5. Total[i] \in Nat /\ Address \subseteq Key
      BY DEF Key
    <3>6. CASE i = j.limit
      <4>1. /\ \A k \in Key : tokens'[i][k] = IF k = key THEN tokens[i][k] + 1 ELSE tokens[i][k]
            /\ \A a \in Address : passed'[i][a] = IF a = key THEN passed[i][a] + 1 ELSE passed[i][a]
        BY <2>2, <3>2, <3>3, <3>6 DEF TypeOK
      <4>2. tokens[i][key] + 1 <= Total[i]
        BY <2>2, <3>3, <3>4, <3>5, <3>6, SMTT(30)
      <4>3. \A k \in Key : tokens'[i][k] <= Total[i]
        BY <3>4, <4>1, <4>2
      <4>4. \A a \in Address : passed'[i][a] <= tokens'[i][a]
        BY <3>4, <3>5, <4>1, SMTT(30)
      <4> QED
        BY <4>3, <4>4
    <3>7. CASE i # j.limit
      BY <2>2, <3>4, <3>7 DEF TypeOK
    <3> QED
      BY <3>6, <3>7
  <2> QED
    BY <1>1, <2>1, <2>2 DEF Allow
<1>2. ASSUME NEW i \in DOMAIN Total, Window(i) PROVE BudgetInv'
  <2>1. Address \subseteq Key /\ \A n \in DOMAIN Total : Total[n] \in Nat
    BY DEF Key
  <2>2. /\ \A n \in DOMAIN Total \ {i} : tokens'[n] = tokens[n] /\ passed'[n] = passed[n]
        /\ tokens'[i] = [k \in Key |-> 0] /\ passed'[i] = [a \in Address |-> 0]
    BY <1>2 DEF Window, TypeOK
  <2>3. ASSUME NEW n \in DOMAIN Total
        PROVE  /\ \A k \in Key : tokens'[n][k] <= Total[n]
               /\ \A a \in Address : passed'[n][a] <= tokens'[n][a]
    <3>1. CASE n = i
      BY <2>1, <2>2, <3>1
    <3>2. CASE n # i
      BY <2>2, <3>2 DEF BudgetInv
    <3> QED
      BY <3>1, <3>2
  <2> QED
    BY <2>3 DEF BudgetInv
<1>3. CASE UNCHANGED limits
  BY <1>3 DEF BudgetInv
<1> QED
  BY <1>1, <1>2, <1>3 DEF Next, Step, Arrive, Leave, Serve, Publish, Drain, Loop, Lock, Dial,
     DialFails, Subscribe, SubscribeFails, End, Unsubscribe, PublishFails, Break, UpDown, vars

\* No client gets more than the total of a limit in a window, whichever way it comes.
THEOREM ClientsKeepTheirBudget == Spec => []BudgetIsKept
<1>1. TypeOK /\ BudgetInv => BudgetIsKept
  <2> SUFFICES ASSUME TypeOK, BudgetInv, NEW i \in DOMAIN Total, NEW a \in Address
               PROVE  passed[i][a] <= Total[i]
    BY DEF BudgetIsKept
  <2>1. a \in Key /\ Total[i] \in Nat
    BY DEF Key
  <2> QED
    BY <2>1 DEF TypeOK, BudgetInv
<1> QED
  BY InitInv, GatewayTypes, BudgetStep, <1>1, PTL DEF Spec

\* What matches a pattern is what the comments on origin.Match describe.
LEMMA MatchIsListed ==
  ASSUME NEW o \in Origin, NEW p \in Origin, Match(o, p), Splits(o),
         \A i \in DOMAIN o.host : o.host[i] # Any
  PROVE  Splits(p) /\ Listed(o, p)
<1>1. CASE p = AnyOrigin
  BY <1>1 DEF Listed, Splits, AnyOrigin, Any
<1>2. CASE p # AnyOrigin
  <2>1. Len(o.host) = Len(p.host) /\ Len(o.host) \in Nat /\ DOMAIN p.host = DOMAIN o.host
    BY <1>2 DEF Match, MatchHostname, Origin
  <2>2. Len(o.host) - Len(p.host) = 0
    BY <2>1
  <2>3. \A i \in DOMAIN p.host : i + 0 = i /\ p.host[i] \in {Any, o.host[i]}
    BY <1>2, <2>1 DEF Match, MatchHostname, Origin
  <2>4. Splits(p) /\ p.scheme \in {Any, o.scheme} /\ PortOf(p) \in {Any, PortOf(o)}
    BY <1>2 DEF Match, MatchFails, MatchString
  <2> QED
    BY <2>2, <2>3, <2>4 DEF Listed
<1> QED
  BY <1>1, <1>2

\* Only Arrive brings a handler to the limits.
LEMMA OriginStep == TypeOK /\ OnlyListedOrigins /\ [Next]_vars => OnlyListedOrigins'
<1> SUFFICES ASSUME TypeOK, OnlyListedOrigins, [Next]_vars PROVE OnlyListedOrigins'
  OBVIOUS
<1> USE DEF limits, socket, telemetry, faults
<1> DEFINE Good(j) ==
             j.pc = "limit" /\ AllowedOrigins # <<>> =>
               LET o == j.request.origin
               IN  \/ \E i \in DOMAIN o.host : o.host[i] = Any
                   \/ \E i \in DOMAIN AllowedOrigins :
                        Splits(AllowedOrigins[i]) /\ Listed(o, AllowedOrigins[i])
<1>1. OnlyListedOrigins <=> \A h \in Handler : Good(handler[h])
  BY DEF OnlyListedOrigins
<1>2. OnlyListedOrigins' <=> \A h \in Handler : Good(handler'[h])
  BY DEF OnlyListedOrigins
<1>3. ASSUME NEW j, NEW k, j.pc = "limit" => k.pc = "limit" /\ j.request = k.request, Good(k)
      PROVE  Good(j)
  BY <1>3
<1>4. ASSUME NEW h \in Handler, NEW s, handler' = [handler EXCEPT ![h] = s], Good(s)
      PROVE  OnlyListedOrigins'
  <2> HIDE DEF Good
  <2> QED
    BY <1>1, <1>2, <1>4 DEF TypeOK
<1>5. ASSUME NEW s, s.pc # "limit" PROVE Good(s)
  BY <1>5
<1>6. ASSUME NEW h \in Handler, NEW r \in Request, Arrive(h, r) PROVE OnlyListedOrigins'
  <2> DEFINE s == [pc |-> "limit", gone |-> FALSE, request |-> r, limit |-> 1]
  <2>1. CASE ~Admitted(r)
    BY <1>4, <1>5, <1>6, <2>1 DEF Arrive, Idle
  <2>2. CASE Admitted(r)
    <3>1. Good(s)
      <4> SUFFICES ASSUME AllowedOrigins # <<>>, \A i \in DOMAIN r.origin.host : r.origin.host[i] # Any
                   PROVE  \E i \in DOMAIN AllowedOrigins :
                            Splits(AllowedOrigins[i]) /\ Listed(r.origin, AllowedOrigins[i])
        OBVIOUS
      <4>1. PICK i \in DOMAIN AllowedOrigins : Match(r.origin, AllowedOrigins[i])
        BY <2>2 DEF Admitted, OriginAllowed
      <4>2. AllowedOrigins[i] \in Origin /\ r.origin \in Origin /\ Splits(r.origin)
        BY <4>1 DEF Match, MatchFails
      <4> QED
        BY <4>1, <4>2, MatchIsListed
    <3>2. handler' = [handler EXCEPT ![h] = s]
      BY <1>6, <2>2 DEF Arrive
    <3> HIDE DEF Good, s
    <3> QED
      BY <1>4, <3>1, <3>2
  <2> QED
    BY <2>1, <2>2
<1>7. ASSUME NEW h \in Handler, Leave(h) PROVE OnlyListedOrigins'
  <2> DEFINE s == [handler[h] EXCEPT !.gone = TRUE]
  <2>1. s.pc = "limit" => handler[h].pc = "limit" /\ s.request = handler[h].request
    BY StageOf DEF Resting, Limiting, Serving, Subscribing
  <2>2. handler' = [handler EXCEPT ![h] = s]
    BY <1>7 DEF Leave
  <2> HIDE DEF s, Good
  <2> QED
    BY <1>1, <1>3, <1>4, <2>1, <2>2
<1>8. ASSUME NEW h \in Handler, Allow(h) PROVE OnlyListedOrigins'
  <2> DEFINE s == [handler[h] EXCEPT !.limit = @ + 1]
  <2>1. s.pc = "limit" /\ handler[h].pc = "limit" /\ s.request = handler[h].request
    BY <1>8, StageOf DEF Allow, Limiting
  <2>2. CASE handler' = [handler EXCEPT ![h] = s]
    <3> HIDE DEF s, Good
    <3> QED
      BY <1>1, <1>3, <1>4, <2>1, <2>2
  <2>3. CASE \E t : t.pc # "limit" /\ handler' = [handler EXCEPT ![h] = t]
    <3> HIDE DEF Good
    <3> QED
      BY <1>4, <1>5, <2>3
  <2> QED
    BY <1>8, <2>2, <2>3 DEF Allow, Idle
<1>9. ASSUME NEW h \in Handler, NEW s, s.pc # "limit", handler' = [handler EXCEPT ![h] = s]
      PROVE  OnlyListedOrigins'
  <2> HIDE DEF Good
  <2> QED
    BY <1>4, <1>5, <1>9
<1> HIDE DEF Good
<1>10. ASSUME NEW h \in Handler, Serve(h) PROVE OnlyListedOrigins'
  BY <1>9, <1>10 DEF Serve, Publishing
<1>11. ASSUME NEW h \in Handler, Publish(h) \/ PublishFails(h) PROVE OnlyListedOrigins'
  BY <1>9, <1>11 DEF Publish, PublishFails, Idle
<1>12. ASSUME NEW h \in Handler, handler[h] \in Subscribing,
             NEW pc \in {"loop", "lock", "dial", "subscribe", "live", "release"}
       PROVE /\ [handler[h] EXCEPT !.pc = pc].pc = pc
             /\ [handler[h] EXCEPT !.pc = pc, !.first = FALSE].pc = pc
             /\ \A c : [handler[h] EXCEPT !.pc = pc, !.conn = c].pc = pc
  BY <1>12 DEF Subscribing
<1>13. ASSUME NEW h \in Handler, Loop(h) PROVE OnlyListedOrigins'
  <2>1. handler[h] \in Subscribing
    BY <1>13, StageOf DEF Loop
  <2>2. [handler[h] EXCEPT !.pc = "lock"].pc = "lock"
    BY <2>1 DEF Subscribing
  <2> QED
    BY <1>9, <1>13, <2>1, <2>2 DEF Loop, Publishing
<1>14. ASSUME NEW h \in Handler, Lock(h) PROVE OnlyListedOrigins'
  <2>1. handler[h] \in Subscribing
    BY <1>14, StageOf DEF Lock
  <2>2. handler' = [handler EXCEPT ![h] = [handler[h] EXCEPT !.pc = "dial"]]
        \/ handler' = [handler EXCEPT ![h] = [handler[h] EXCEPT !.pc = "subscribe", !.conn = pool[Slot]]]
    BY <1>14 DEF Lock, Go
  <2>3. /\ [handler[h] EXCEPT !.pc = "dial"].pc = "dial"
        /\ [handler[h] EXCEPT !.pc = "subscribe", !.conn = pool[Slot]].pc = "subscribe"
    BY <2>1 DEF Subscribing
  <2> QED
    BY <1>9, <2>2, <2>3
<1>15. ASSUME NEW h \in Handler, Dial(h) PROVE OnlyListedOrigins'
  <2>1. handler[h] \in Subscribing
    BY <1>15, StageOf DEF Dial
  <2>2. PICK c \in Unused : handler' = [handler EXCEPT ![h].pc = "subscribe", ![h].conn = c]
    BY <1>15 DEF Dial
  <2>3. handler' = [handler EXCEPT ![h] = [handler[h] EXCEPT !.pc = "subscribe", !.conn = c]]
    BY <2>2
  <2> QED
    BY <1>9, <1>12, <2>1, <2>3, ZenonT(40)
<1>16. ASSUME NEW h \in Handler, DialFails(h) \/ SubscribeFails(h) PROVE OnlyListedOrigins'
  <2>1. handler[h] \in Subscribing /\ handler' = Retry(h)
    BY <1>16, StageOf DEF DialFails, SubscribeFails
  <2> QED
    BY <1>9, <1>12, <2>1, ZenonT(40) DEF Retry, Publishing
<1>17. ASSUME NEW h \in Handler, Subscribe(h) PROVE OnlyListedOrigins'
  <2>1. handler[h] \in Subscribing
    BY <1>17, StageOf DEF Subscribe
  <2>2. handler' = [handler EXCEPT ![h] = [handler[h] EXCEPT !.pc = "live", !.first = FALSE]]
    BY <1>17 DEF Subscribe
  <2> QED
    BY <1>9, <1>12, <2>1, <2>2
<1>18. ASSUME NEW h \in Handler, End(h) \/ Unsubscribe(h) PROVE OnlyListedOrigins'
  <2>1. handler[h] \in Subscribing
    BY <1>18, StageOf DEF End, Unsubscribe
  <2>2. \/ handler' = [handler EXCEPT ![h] = [handler[h] EXCEPT !.pc = "release"]]
        \/ handler' = [handler EXCEPT ![h] = [handler[h] EXCEPT !.pc = "loop", !.conn = NoConn]]
    BY <1>18 DEF End, Go, Unsubscribe
  <2>3. /\ [handler[h] EXCEPT !.pc = "release"].pc = "release"
        /\ [handler[h] EXCEPT !.pc = "loop", !.conn = NoConn].pc = "loop"
    BY <2>1 DEF Subscribing
  <2> QED
    BY <1>9, <2>2, <2>3
<1>19. CASE UNCHANGED handler
  BY <1>1, <1>2, <1>19
<1> QED
  BY <1>6, <1>7, <1>8, <1>10, <1>11, <1>13, <1>14, <1>15, <1>16, <1>17, <1>18, <1>19
     DEF Next, Step, Window, Drain, Break, UpDown, vars

\* Whoever reaches the limits comes from an origin that the configuration lists.
THEOREM OriginsAreListed == Spec => []OnlyListedOrigins
BY InitInv, GatewayTypes, OriginStep, PTL DEF Spec
=============================================================================
