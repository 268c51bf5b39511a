------------------------- MODULE SubscriptionProofs -------------------------
(***************************************************************************)
(* Proofs about HeadStore and Subscription, for any chains, subscribers,   *)
(* block numbers and stream lengths: heads only rise, and what a           *)
(* subscriber finds in its channel is news and already stored; a newHeads  *)
(* session accounts for every block after the head it started from, in     *)
(* order, and a logs session has sent all of them.                         *)
(***************************************************************************)
EXTENDS Subscription, TLAPS

USE HeadStoreAssumption

-----------------------------------------------------------------------------
(* The head store *)

\* setHead leaves heads and the pending announcement well typed.
LEMMA StoreHeadType ==
  ASSUME StoreTypeOK, NEW m \in Message, StoreHead(m)
  PROVE  head' \in [Chain -> 0..MaxHead] /\ announce' \in Message \cup {Nothing}
<1>1. m.chain \in Chain /\ m.value \in 0..MaxHead
  BY DEF Message, Number
<1> QED
  BY <1>1 DEF StoreTypeOK, StoreHead

\* Every step of the store, and every call of a subscriber, keeps the types.
LEMMA StoreTypeStep == StoreTypeOK /\ [StoreNext]_hvars => StoreTypeOK'
<1> SUFFICES ASSUME StoreTypeOK, [StoreNext]_hvars PROVE StoreTypeOK'
  OBVIOUS
<1> USE DEF store, channels
<1>1. CASE Announce
  BY <1>1 DEF Announce, StoreTypeOK, Message, Number
<1>2. CASE Range
  <2>1. CASE stream = <<>>
    BY <1>2, <2>1 DEF Range, StoreTypeOK
  <2>2. CASE stream # <<>>
    <3>1. stream[Len(stream)] \in Message
      BY <2>2 DEF StoreTypeOK
    <3>2. head' \in [Chain -> 0..MaxHead] /\ announce' \in Message \cup {Nothing}
      BY <1>2, <2>2, <3>1, StoreHeadType DEF Range
    <3> QED
      BY <1>2, <2>2, <3>2 DEF Range, StoreTypeOK
  <2> QED
    BY <2>1, <2>2
<1>3. CASE Connect
  BY <1>3 DEF Connect, StoreTypeOK
<1>4. CASE Consume
  <2>1. stream[next + 1] \in Message
    BY <1>4 DEF Consume, StoreTypeOK
  <2>2. head' \in [Chain -> 0..MaxHead] /\ announce' \in Message \cup {Nothing}
    BY <1>4, <2>1, StoreHeadType DEF Consume
  <2> QED
    BY <1>4, <2>2 DEF Consume, StoreTypeOK
<1>5. CASE Disconnect
  BY <1>5 DEF Disconnect, StoreTypeOK
<1>6. ASSUME NEW c \in Chain, NEW h \in Number, Put(c, h) PROVE StoreTypeOK'
  <2>1. [chain |-> c, value |-> h] \in Message
    BY DEF Message
  <2> QED
    BY <1>6, <2>1 DEF Put, StoreTypeOK
<1>7. ASSUME NEW s \in Sub, Receive(s) PROVE StoreTypeOK'
  BY <1>7 DEF Receive, StoreTypeOK
<1>8. ASSUME NEW s \in Sub, Done(s) PROVE StoreTypeOK'
  BY <1>8 DEF Done, StoreTypeOK
<1>9. ASSUME NEW s \in Sub, NEW c \in Chain, On(s, c) PROVE StoreTypeOK'
  BY <1>9 DEF On, StoreTypeOK
<1>10. CASE UNCHANGED hvars
  BY <1>10 DEF hvars, StoreTypeOK
<1> QED
  BY <1>1, <1>2, <1>3, <1>4, <1>5, <1>6, <1>7, <1>8, <1>9, <1>10 DEF StoreNext, Reader

\* The critical section of setHead on headMu: heads only rise, and one that rose
\* is above everything its chain's subscribers have seen.
LEMMA StoreHeadInv ==
  ASSUME StoreTypeOK, StoreInv, announce = Nothing, UNCHANGED channels,
         NEW m \in Message, StoreHead(m)
  PROVE  StoreInv' /\ \A c \in Chain : head'[c] >= head[c]
<1> USE DEF StoreTypeOK, StoreInv, channels, Message, Number
<1>1. CASE m.value <= head[m.chain]
  BY <1>1 DEF StoreHead
<1>2. CASE ~(m.value <= head[m.chain])
  <2>1. head' = [head EXCEPT ![m.chain] = m.value] /\ announce' = m
    BY <1>2 DEF StoreHead
  <2>2. \A c \in Chain : head'[c] >= head[c]
    BY <1>2, <2>1
  <2>3. head'[m.chain] = m.value /\ m.value > head[m.chain]
    BY <1>2, <2>1
  <2> QED
    BY <2>1, <2>2, <2>3
<1> QED
  BY <1>1, <1>2

\* The inductive step of StoreInv and of the monotonicity of heads.
LEMMA StoreInvStep ==
  StoreTypeOK /\ StoreInv /\ [StoreNext]_hvars
      => StoreInv' /\ \A c \in Chain : head'[c] >= head[c]
<1> SUFFICES ASSUME StoreTypeOK, StoreInv, [StoreNext]_hvars
             PROVE  StoreInv' /\ \A c \in Chain : head'[c] >= head[c]
  OBVIOUS
<1> USE DEF store, Number
<1>1. CASE Announce
  BY <1>1 DEF Announce, StoreTypeOK, StoreInv, Message
<1>2. CASE Range
  <2>1. CASE stream = <<>>
    BY <1>2, <2>1 DEF Range, StoreTypeOK, StoreInv, channels
  <2>2. CASE stream # <<>>
    <3>1. stream[Len(stream)] \in Message
      BY <2>2 DEF StoreTypeOK
    <3> QED
      BY <1>2, <2>2, <3>1, StoreHeadInv DEF Range
  <2> QED
    BY <2>1, <2>2
<1>3. CASE Connect
  BY <1>3 DEF Connect, StoreTypeOK, StoreInv, channels
<1>4. CASE Consume
  <2>1. stream[next + 1] \in Message
    BY <1>4 DEF Consume, StoreTypeOK
  <2> QED
    BY <1>4, <2>1, StoreHeadInv DEF Consume
<1>5. CASE Disconnect
  BY <1>5 DEF Disconnect, StoreTypeOK, StoreInv, channels
<1>6. ASSUME NEW c \in Chain, NEW h \in Number, Put(c, h)
      PROVE  StoreInv' /\ \A d \in Chain : head'[d] >= head[d]
  BY <1>6 DEF Put, StoreTypeOK, StoreInv, channels
<1>7. ASSUME NEW s \in Sub, Receive(s)
      PROVE  StoreInv' /\ \A c \in Chain : head'[c] >= head[c]
  BY <1>7 DEF Receive, StoreTypeOK, StoreInv, Message
<1>8. ASSUME NEW s \in Sub, Done(s)
      PROVE  StoreInv' /\ \A c \in Chain : head'[c] >= head[c]
  BY <1>8 DEF Done, StoreTypeOK, StoreInv, Message
<1>9. ASSUME NEW s \in Sub, NEW d \in Chain, On(s, d)
      PROVE  StoreInv' /\ \A c \in Chain : head'[c] >= head[c]
  BY <1>9 DEF On, StoreTypeOK, StoreInv, Message
<1>10. CASE UNCHANGED hvars
  BY <1>10 DEF hvars, StoreTypeOK, StoreInv, channels
<1> QED
  BY <1>1, <1>2, <1>3, <1>4, <1>5, <1>6, <1>7, <1>8, <1>9, <1>10 DEF StoreNext, Reader

\* The store starts out in both.
LEMMA StoreInitInv == StoreInit => StoreTypeOK /\ StoreInv
BY DEF StoreInit, StoreTypeOK, StoreInv

\* Stream, heads, reader and channels keep to their domains.
THEOREM StoreTypeCorrect == StoreSpec => []StoreTypeOK
BY StoreInitInv, StoreTypeStep, PTL DEF StoreSpec

\* What is announced is the head, and news.
THEOREM StoreInvariant == StoreSpec => []StoreInv
BY StoreInitInv, StoreInvStep, StoreTypeCorrect, PTL DEF StoreSpec

\* No sequence of messages, replays and reconnects makes a head go back.
THEOREM HeadsOnlyRise == StoreSpec => HeadNeverRetreats
<1>1. StoreTypeOK /\ StoreInv /\ [StoreNext]_hvars
        => [\A c \in Chain : head'[c] >= head[c]]_hvars
  BY StoreInvStep
<1> QED
  BY <1>1, StoreTypeCorrect, StoreInvariant, PTL DEF StoreSpec, HeadNeverRetreats

\* A subscriber is told numbers in strictly increasing order, and only numbers
\* that Get has caught up with.
THEOREM AnnouncementsAscend == StoreSpec => []AnnouncedIsNewAndStored
<1>1. StoreTypeOK /\ StoreInv => AnnouncedIsNewAndStored
  BY DEF StoreTypeOK, StoreInv, AnnouncedIsNewAndStored
<1> QED
  BY <1>1, StoreTypeCorrect, StoreInvariant, PTL

-----------------------------------------------------------------------------
(* Sessions *)

USE SubscriptionAssumption

\* The part of a step of the whole that the head store sees is a step of its own.
LEMMA StepsOfStore == [Next]_vars => [StoreNext]_hvars
BY DEF Next, StoreStep, StoreNext, Session, GetCurrent, Register, TakeHead, NotifyBlock,
       BlocksDone, GetLogs, Close, vars, hvars

\* Types of the sessions, given those of the store.
LEMMA SessionTypeStep == TypeOK /\ SessionInv /\ [Next]_vars => TypeOK'
<1> SUFFICES ASSUME TypeOK, SessionInv, [Next]_vars PROVE TypeOK'
  OBVIOUS
<1>0. StoreTypeOK'
  BY StoreTypeStep, StepsOfStore DEF TypeOK
<1> USE <1>0 DEF TypeOK, Become, CaughtUp, Number
<1>1. CASE StoreStep
  BY <1>1 DEF StoreStep, sess
<1>2. ASSUME NEW s \in Sub, GetCurrent(s) PROVE TypeOK'
  BY <1>2 DEF GetCurrent, StoreTypeOK
<1>3. ASSUME NEW s \in Sub, Register(s) PROVE TypeOK'
  BY <1>3 DEF Register
<1>4. ASSUME NEW s \in Sub, TakeHead(s) PROVE TypeOK'
  <2>1. chan[s] \in 0..MaxHead
    BY DEF StoreTypeOK
  <2>2. current[s] + 1 \in 0..MaxHead + 1
    OBVIOUS
  <2> QED
    BY <1>4, <2>1, <2>2 DEF TakeHead
<1>5. ASSUME NEW s \in Sub, NotifyBlock(s) PROVE TypeOK'
  <2>1. block[s] \in 1..MaxHead /\ block[s] + 1 \in 0..MaxHead + 1
    BY <1>5 DEF NotifyBlock, SessionInv, SessionInvOf
  <2>2. /\ failed[s] \cup {block[s]} \in SUBSET (1..MaxHead)
        /\ notified[s] \cup {block[s]} \in SUBSET (1..MaxHead)
    BY <2>1
  <2> HIDE DEF Number
  <2>3. /\ failed' \in [Sub -> SUBSET (1..MaxHead)]
        /\ notified' \in [Sub -> SUBSET (1..MaxHead)]
    BY <1>5, <2>2 DEF NotifyBlock, Number
  <2> QED
    BY <1>5, <2>1, <2>3, ZenonT(40) DEF NotifyBlock, Number
<1>6. ASSUME NEW s \in Sub, BlocksDone(s) PROVE TypeOK'
  BY <1>6 DEF BlocksDone
<1>7. ASSUME NEW s \in Sub, GetLogs(s) PROVE TypeOK'
  <2>1. notified[s] \cup ((current[s] + 1)..target[s]) \in SUBSET (1..MaxHead)
    OBVIOUS
  <2>2. notified' \in [Sub -> SUBSET (1..MaxHead)]
    BY <1>7, <2>1 DEF GetLogs
  <2> QED
    BY <1>7, <2>2 DEF GetLogs
<1>8. ASSUME NEW s \in Sub, Close(s) PROVE TypeOK'
  BY <1>8 DEF Close
<1>9. CASE UNCHANGED vars
  BY <1>9 DEF vars, sess
<1> QED
  BY <1>1, <1>2, <1>3, <1>4, <1>5, <1>6, <1>7, <1>8, <1>9 DEF Next, Session

\* The inductive step of SessionInv: heads rise under the sessions' feet, and what
\* reaches a channel is at least the head that the session started from.
LEMMA SessionInvStep == TypeOK /\ StoreInv /\ SessionInv /\ [Next]_vars => SessionInv'
<1> SUFFICES ASSUME TypeOK, StoreInv, SessionInv, [Next]_vars PROVE SessionInv'
  OBVIOUS
<1>0. TypeOK' /\ head'[Watched] >= head[Watched]
  BY SessionTypeStep, StoreInvStep, StepsOfStore DEF TypeOK
<1> SUFFICES ASSUME NEW r \in Sub PROVE SessionInvOf(r)'
  BY DEF SessionInv
<1>a. SessionInvOf(r)
  BY DEF SessionInv
<1>b. /\ chan \in [Sub -> 0..MaxHead] /\ got \in [Sub -> 0..MaxHead]
      /\ topic \in [Sub -> Chain \cup {Nothing}]
      /\ head \in [Chain -> 0..MaxHead] /\ head' \in [Chain -> 0..MaxHead]
  BY <1>0 DEF TypeOK, StoreTypeOK
<1>c. /\ chan[r] # 0 => topic[r] # Nothing /\ got[r] < chan[r]
      /\ topic[r] = Watched => got[r] <= head[Watched] /\ chan[r] <= head[Watched]
  BY DEF StoreInv
<1>d. \A i \in Sub : /\ current[i] \in Nat /\ target[i] \in Nat /\ block[i] \in Nat
                     /\ base[i] \in Nat
  BY DEF TypeOK
<1>e. chan[r] \in Nat /\ got[r] \in Nat /\ head[Watched] \in Nat /\ head'[Watched] \in Nat
  BY <1>b
<1> USE <1>0, <1>a, <1>b, <1>c, <1>d, <1>e DEF TypeOK, Become, CaughtUp, SessionInvOf
<1>1. CASE StoreStep
  <2>1. UNCHANGED <<sess, topic, got>>
    BY <1>1 DEF StoreStep, Reader, Announce, Range, Connect, Consume, Disconnect, Put,
                channels
  <2>2. chan'[r] = chan[r] \/ (topic[r] # Nothing /\ chan'[r] = head[topic[r]])
    <3>1. CASE Announce
      <4>1. announce # Nothing /\ announce.chain \in Chain
        BY <3>1 DEF Announce, StoreTypeOK, Message
      <4>2. announce.value = head[announce.chain]
        BY <4>1 DEF StoreInv
      <4> QED
        BY <3>1, <4>1, <4>2 DEF Announce
    <3>2. CASE ~Announce
      BY <1>1, <3>2 DEF StoreStep, Reader, Range, Connect, Consume, Disconnect, Put, channels
    <3> QED
      BY <3>1, <3>2
  <2>3. chan'[r] # 0 => current[r] <= chan'[r]
    BY <2>2
  <2> QED
    BY <2>1, <2>3 DEF sess
<1>2. ASSUME NEW s \in Sub, GetCurrent(s) PROVE SessionInvOf(r)'
  <2>1. CASE r = s
    BY <1>2, <2>1 DEF GetCurrent, hvars, store, channels
  <2>2. CASE r # s
    BY <1>2, <2>2 DEF GetCurrent, hvars, store, channels
  <2> QED
    BY <2>1, <2>2
<1>3. ASSUME NEW s \in Sub, Register(s) PROVE SessionInvOf(r)'
  <2>1. CASE r = s
    BY <1>3, <2>1 DEF Register, On, store
  <2>2. CASE r # s
    BY <1>3, <2>2 DEF Register, On, store
  <2> QED
    BY <2>1, <2>2
<1>4. ASSUME NEW s \in Sub, TakeHead(s) PROVE SessionInvOf(r)'
  <2>1. CASE r = s
    BY <1>4, <2>1 DEF TakeHead, Receive, store
  <2>2. CASE r # s
    BY <1>4, <2>2 DEF TakeHead, Receive, store
  <2> QED
    BY <2>1, <2>2
<1>5. ASSUME NEW s \in Sub, NotifyBlock(s) PROVE SessionInvOf(r)'
  <2>1. CASE r = s
    BY <1>5, <2>1 DEF NotifyBlock, hvars, store, channels
  <2>2. CASE r # s
    BY <1>5, <2>2 DEF NotifyBlock, hvars, store, channels
  <2> QED
    BY <2>1, <2>2
<1>6. ASSUME NEW s \in Sub, BlocksDone(s) PROVE SessionInvOf(r)'
  <2>1. CASE r = s
    BY <1>6, <2>1 DEF BlocksDone, hvars, store, channels
  <2>2. CASE r # s
    BY <1>6, <2>2 DEF BlocksDone, hvars, store, channels
  <2> QED
    BY <2>1, <2>2
<1>7. ASSUME NEW s \in Sub, GetLogs(s) PROVE SessionInvOf(r)'
  <2>1. CASE r = s
    BY <1>7, <2>1 DEF GetLogs, hvars, store, channels
  <2>2. CASE r # s
    BY <1>7, <2>2 DEF GetLogs, hvars, store, channels
  <2> QED
    BY <2>1, <2>2
<1>8. ASSUME NEW s \in Sub, Close(s) PROVE SessionInvOf(r)'
  <2>1. CASE r = s
    BY <1>8, <2>1 DEF Close, Done, store
  <2>2. CASE r # s
    BY <1>8, <2>2 DEF Close, Done, store
  <2> QED
    BY <2>1, <2>2
<1>9. CASE UNCHANGED vars
  BY <1>9 DEF vars, sess, hvars, store, channels
<1> QED
  BY <1>1, <1>2, <1>3, <1>4, <1>5, <1>6, <1>7, <1>8, <1>9 DEF Next, Session

\* Sessions and store keep to their domains, and the invariants hold throughout.
THEOREM SessionInvariant == Spec => [](TypeOK /\ StoreInv /\ SessionInv)
<1>1. Init => TypeOK /\ StoreInv /\ SessionInv
  <2> SUFFICES ASSUME Init PROVE TypeOK /\ SessionInv
    BY StoreInitInv DEF Init
  <2>1. TypeOK
    BY StoreInitInv DEF Init, TypeOK, Number
  <2>2. SessionInv
    BY <2>1 DEF Init, StoreInit, SessionInv, SessionInvOf, TypeOK
  <2> QED
    BY <2>1, <2>2
<1>2. TypeOK /\ StoreInv /\ SessionInv /\ [Next]_vars => (TypeOK /\ StoreInv /\ SessionInv)'
  BY SessionTypeStep, SessionInvStep, StoreInvStep, StepsOfStore DEF TypeOK
<1> QED
  BY <1>1, <1>2, PTL DEF Spec

-----------------------------------------------------------------------------

\* One more block at the end of what newHeads has dealt with.
LEMMA ExtendInterval ==
  ASSUME NEW a \in Nat, NEW b \in Nat, a < b
  PROVE  ((a + 1)..(b - 1)) \cup {b} = (a + 1)..b
OBVIOUS

\* One more range at the end of what a logs session has sent.
LEMMA JoinIntervals ==
  ASSUME NEW a \in Nat, NEW b \in Nat, NEW c \in Nat, a <= b, b <= c
  PROVE  ((a + 1)..b) \cup ((b + 1)..c) = (a + 1)..c
OBVIOUS

\* How one step changes the record of a newHeads session: not at all, or one more
\* block at its end, sent or failed.
LEMMA HeadsGapStep ==
  TypeOK /\ SessionInv /\ HeadsHaveNoGap /\ [Next]_vars => HeadsHaveNoGap'
<1> SUFFICES ASSUME TypeOK, SessionInv, HeadsHaveNoGap, [Next]_vars,
                    NEW r \in NewHeads, ~broken'[r]
             PROVE  notified'[r] \cup failed'[r] = (base'[r] + 1)..DoneUpTo(r)'
  BY DEF HeadsHaveNoGap
<1> USE DEF Become, CaughtUp
<1>1. SessionInvOf(r)
  BY DEF SessionInv
<1>2. /\ current[r] \in Nat /\ target[r] \in Nat /\ block[r] \in Nat /\ base[r] \in Nat
  BY DEF TypeOK
<1>3. ~broken[r] => notified[r] \cup failed[r] = (base[r] + 1)..DoneUpTo(r)
  BY DEF HeadsHaveNoGap
<1>4. CASE UNCHANGED <<notified[r], failed[r], base[r], current[r], session[r], block[r], broken[r]>>
  BY <1>3, <1>4 DEF DoneUpTo
<1>5. CASE GetCurrent(r)
  <2>1. /\ notified'[r] = {} /\ failed'[r] = {} /\ session'[r] = "fetched"
        /\ base'[r] = head[Watched] /\ current'[r] = head[Watched] /\ head[Watched] \in Nat
    BY <1>1, <1>5 DEF GetCurrent, TypeOK, StoreTypeOK, SessionInvOf
  <2>2. DoneUpTo(r)' = head[Watched]
    BY <2>1 DEF DoneUpTo
  <2> QED
    BY <2>1, <2>2
<1>6. CASE Register(r) \/ Close(r)
  <2>1. DoneUpTo(r)' = DoneUpTo(r)
    BY <1>6 DEF Register, Close, DoneUpTo, TypeOK
  <2> QED
    BY <1>3, <1>6, <2>1 DEF Register, Close
<1>7. CASE TakeHead(r)
  <2>1. DoneUpTo(r)' = DoneUpTo(r)
    BY <1>2, <1>7 DEF TakeHead, DoneUpTo, TypeOK
  <2> QED
    BY <1>3, <1>7, <2>1 DEF TakeHead
<1>8. CASE NotifyBlock(r)
  <2>1. /\ ~broken[r] /\ session[r] = "busy"
        /\ block'[r] = block[r] + 1 /\ session'[r] = "busy" /\ base'[r] = base[r]
    BY <1>8 DEF NotifyBlock, TypeOK
  <2>2. notified'[r] \cup failed'[r] = (notified[r] \cup failed[r]) \cup {block[r]}
    BY <1>8, <2>1 DEF NotifyBlock, TypeOK
  <2>3. DoneUpTo(r) = block[r] - 1 /\ DoneUpTo(r)' = block[r]
    BY <1>2, <2>1 DEF DoneUpTo
  <2>4. base[r] < block[r]
    BY <1>1, <1>2, <2>1 DEF SessionInvOf
  <2> QED
    BY <1>2, <1>3, <2>1, <2>2, <2>3, <2>4, ExtendInterval
<1>9. CASE BlocksDone(r)
  <2>1. DoneUpTo(r)' = DoneUpTo(r)
    BY <1>1, <1>2, <1>9 DEF BlocksDone, DoneUpTo, TypeOK, SessionInvOf
  <2> QED
    BY <1>3, <1>9, <2>1 DEF BlocksDone
<1>10. CASE StoreStep \/ UNCHANGED vars
  BY <1>4, <1>10 DEF StoreStep, vars, sess
<1>11. ASSUME NEW s \in Sub, Session(s) \/ Close(s), s # r
       PROVE  UNCHANGED <<notified[r], failed[r], base[r], current[r], session[r], block[r],
                          broken[r]>>
  BY <1>11 DEF Session, GetCurrent, Register, TakeHead, NotifyBlock, BlocksDone, GetLogs,
               Close, TypeOK
<1>12. CASE Session(r) \/ Close(r)
  BY <1>5, <1>6, <1>7, <1>8, <1>9, <1>12 DEF Session, GetLogs
<1> QED
  BY <1>4, <1>10, <1>11, <1>12 DEF Next

\* How one step changes the record of a logs session: not at all, or by the whole
\* range from current to the head it works on.
LEMMA LogsGapStep ==
  TypeOK /\ SessionInv /\ LogsHaveNoGap /\ [Next]_vars => LogsHaveNoGap'
<1> SUFFICES ASSUME TypeOK, SessionInv, LogsHaveNoGap, [Next]_vars,
                    NEW r \in Logs, ~broken'[r]
             PROVE  notified'[r] = (base'[r] + 1)..current'[r]
  BY DEF LogsHaveNoGap
<1> USE DEF Become, CaughtUp
<1>1. SessionInvOf(r)
  BY DEF SessionInv
<1>2. /\ current[r] \in Nat /\ target[r] \in Nat /\ base[r] \in Nat
  BY DEF TypeOK
<1>3. ~broken[r] => notified[r] = (base[r] + 1)..current[r]
  BY DEF LogsHaveNoGap
<1>4. CASE UNCHANGED <<notified[r], base[r], current[r], broken[r]>>
  BY <1>3, <1>4
<1>5. CASE GetCurrent(r)
  <2>1. /\ notified'[r] = {} /\ base'[r] = head[Watched] /\ current'[r] = head[Watched]
        /\ head[Watched] \in Nat
    BY <1>1, <1>5 DEF GetCurrent, TypeOK, StoreTypeOK, SessionInvOf
  <2> QED
    BY <2>1
<1>6. CASE GetLogs(r)
  <2>1. /\ ~broken[r] /\ base'[r] = base[r]
        /\ \/ current'[r] = current[r] /\ notified'[r] = notified[r]
           \/ /\ current'[r] = target[r]
              /\ notified'[r] = notified[r] \cup ((current[r] + 1)..target[r])
    BY <1>6 DEF GetLogs, TypeOK
  <2>2. base[r] <= current[r] /\ current[r] <= target[r]
    BY <1>1, <1>6 DEF GetLogs, SessionInvOf
  <2>3. ((base[r] + 1)..current[r]) \cup ((current[r] + 1)..target[r]) = (base[r] + 1)..target[r]
    BY <1>2, <2>2, JoinIntervals
  <2> QED
    BY <1>3, <2>1, <2>3
<1>7. ASSUME NEW s \in Sub, Session(s) \/ Close(s), s # r
      PROVE  UNCHANGED <<notified[r], base[r], current[r], broken[r]>>
  BY <1>7 DEF Session, GetCurrent, Register, TakeHead, NotifyBlock, BlocksDone, GetLogs,
              Close, TypeOK
<1>8. CASE Register(r) \/ TakeHead(r) \/ Close(r) \/ StoreStep \/ UNCHANGED vars
  BY <1>4, <1>8 DEF Register, TakeHead, Close, StoreStep, vars, sess
<1>9. ~NotifyBlock(r) /\ ~BlocksDone(r)
  BY DEF NotifyBlock, BlocksDone
<1> QED
  BY <1>4, <1>5, <1>6, <1>7, <1>8, <1>9 DEF Next, Session

\* Whatever the interleaving of head store, fetches and failures: a newHeads session
\* has dealt with every block after its start.
THEOREM NoBlockIsLost == Spec => []HeadsHaveNoGap
<1>1. Init => HeadsHaveNoGap
  BY DEF Init, HeadsHaveNoGap, DoneUpTo
<1> QED
  BY <1>1, HeadsGapStep, SessionInvariant, PTL DEF Spec

\* ... and a logs session has sent the logs of all of them, however many of its
\* queries failed on the way.
THEOREM NoLogIsLost == Spec => []LogsHaveNoGap
<1>1. Init => LogsHaveNoGap
  BY DEF Init, LogsHaveNoGap
<1> QED
  BY <1>1, LogsGapStep, SessionInvariant, PTL DEF Spec

\* No head below current is ever worked on.
THEOREM SessionsNeverBehind == Spec => []NeverBehind
<1>1. SessionInv => NeverBehind
  BY DEF SessionInv, SessionInvOf, NeverBehind
<1> QED
  BY <1>1, SessionInvariant, PTL

\* Each header goes out once, above all that went out or failed before it.
THEOREM HeadersInOrder == Spec => HeadsAscend
<1> DEFINE Ascent == \A s \in NewHeads : \A b \in notified'[s] \ notified[s] :
                        \A a \in notified[s] \cup failed[s] : a < b
<1>1. TypeOK /\ SessionInv /\ HeadsHaveNoGap /\ [Next]_vars => Ascent
  <2> SUFFICES ASSUME TypeOK, SessionInv, HeadsHaveNoGap, [Next]_vars,
                      NEW s \in NewHeads, NEW b \in notified'[s] \ notified[s],
                      NEW a \in notified[s] \cup failed[s]
               PROVE  a < b
    OBVIOUS
  <2>1. NotifyBlock(s)
    BY DEF Next, StoreStep, sess, vars, Session, GetCurrent, Register, TakeHead, NotifyBlock,
           BlocksDone, GetLogs, Close, TypeOK
  <2>2. b = block[s] /\ ~broken[s] /\ session[s] = "busy"
    BY <2>1 DEF NotifyBlock, TypeOK
  <2>3. block[s] \in Nat /\ base[s] \in Nat /\ a \in (base[s] + 1)..(block[s] - 1)
    BY <2>2 DEF HeadsHaveNoGap, DoneUpTo, TypeOK
  <2> QED
    BY <2>2, <2>3
<1>2. TypeOK /\ SessionInv /\ HeadsHaveNoGap /\ [Next]_vars => [Ascent]_vars
  BY <1>1
<1> QED
  BY <1>2, SessionInvariant, NoBlockIsLost, PTL DEF Spec, HeadsAscend
=============================================================================
