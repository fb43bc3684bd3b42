--------------------------- MODULE DeliveryProofs ---------------------------
(***************************************************************************)
(* The delivery contract holds for every set of events, assignment of keys, *)
(* capacity and number of attempts.                                         *)
(***************************************************************************)
EXTENDS Delivery, SequenceTheorems, TLAPS

\* The ledger is exact: a key is completed iff its effect happened, and it
\* happened once.
LedgerExact == \A key \in Keys :
                  effects[key] = IF key \in completed_keys THEN 1 ELSE 0

\* A step of process or of the transport keeps every type, the bound of the retry
\* queue and that of the attempts.
LEMMA TypeStep ==
    ASSUME TypeOK, [Next]_vars
    PROVE  TypeOK'
<1> USE DeliveryAssumption
<1>1. ASSUME NEW e \in Events, Redeliver(e)
      PROVE  TypeOK'
  BY <1>1 DEF Redeliver, TypeOK
<1>2. ASSUME NEW e \in Events, Receive(e)
      PROVE  TypeOK'
  BY <1>2 DEF Receive, TypeOK, Envelopes
<1>3. CASE get
  <2>1. retry_queue \in Seq(Envelopes) /\ retry_queue # <<>>
    BY <1>3 DEF get, TypeOK
  <2>2. Head(retry_queue) \in Envelopes /\ Tail(retry_queue) \in Seq(Envelopes)
          /\ Len(Tail(retry_queue)) = Len(retry_queue) - 1 /\ Len(retry_queue) \in Nat
    BY <2>1, HeadTailProperties
  <2> QED
    BY <1>3, <2>2 DEF get, TypeOK
<1>4. ASSUME held # Nothing
      PROVE  held \in Envelopes /\ held.event \in Events /\ Key \in Keys
  BY <1>4 DEF TypeOK, Envelopes, Key
<1>5. CASE Duplicate
  BY <1>5 DEF Duplicate, Done, TypeOK
<1>6. CASE Ack
  <2>1. Key \in Keys /\ effects \in [Keys -> Nat]
    BY <1>4, <1>6 DEF Ack, TypeOK
  <2>2. effects' \in [Keys -> Nat]
    BY <1>6, <2>1 DEF Ack
  <2> QED
    BY <1>6, <2>1, <2>2 DEF Ack, Done, TypeOK
<1>7. CASE DeadLetter
  <2>1. dead_letter_queue' \in Seq(Envelopes)
    BY <1>4, <1>7, AppendProperties DEF DeadLetter, TypeOK
  <2> QED
    BY <1>7, <2>1 DEF DeadLetter, Done, TypeOK
<1>8. CASE Retry
  <2>1. [held EXCEPT !.attempt = @ + 1] \in Envelopes
    BY <1>4, <1>8 DEF Retry, TransientFailure, Envelopes
  <2>2. retry_queue' \in Seq(Envelopes) /\ Len(retry_queue') = Len(retry_queue) + 1
    BY <1>8, <2>1, AppendProperties DEF Retry, TypeOK
  <2>3. Len(retry_queue') <= capacity
    BY <1>8, <2>2, LenProperties DEF Retry, TypeOK
  <2> QED
    BY <1>8, <2>2, <2>3 DEF Retry, Done, TypeOK
<1>9. CASE Backpressure
  BY <1>4, <1>9 DEF Backpressure, TransientFailure, Done, TypeOK
<1>10. CASE Escape
  BY <1>4, <1>10 DEF Escape, TypeOK
<1>11. CASE UNCHANGED vars
  BY <1>11 DEF vars, TypeOK
<1> QED
  BY <1>1, <1>2, <1>3, <1>5, <1>6, <1>7, <1>8, <1>9, <1>10, <1>11 DEF Next, process

\* The initial queues are empty and every event is still to be delivered.
LEMMA TypeInit == Init => TypeOK
  BY DeliveryAssumption DEF Init, TypeOK

\* Types, the capacity of the retry queue and max_attempts are kept for ever.
THEOREM TypeCorrect == Spec => []TypeOK
  BY TypeInit, TypeStep, PTL DEF Spec

\* process checks the ledger before the side effect and marks the key after it,
\* so a key's effect never happens twice.
THEOREM EffectsHappenOnce == Spec => []EffectAtMostOnce
<1>1. Init => LedgerExact
  BY DEF Init, LedgerExact
<1>2. TypeOK /\ LedgerExact /\ [Next]_vars => LedgerExact'
  <2> SUFFICES ASSUME TypeOK, LedgerExact, [Next]_vars
               PROVE  LedgerExact'
    OBVIOUS
  <2>1. CASE Ack
    <3>1. Key \notin completed_keys /\ effects \in [Keys -> Nat]
      BY <2>1 DEF Ack, is_completed, TypeOK
    <3> QED
      BY <2>1, <3>1 DEF Ack, LedgerExact
  <2>2. CASE UNCHANGED <<completed_keys, effects>>
    BY <2>2 DEF LedgerExact
  <2>3. ~ Ack => UNCHANGED <<completed_keys, effects>>
    BY DEF Next, process, Duplicate, DeadLetter, Retry, Backpressure, Escape, get,
           Receive, Redeliver, vars
  <2> QED
    BY <2>1, <2>2, <2>3
<1>3. TypeOK /\ LedgerExact => EffectAtMostOnce
  BY DEF LedgerExact, EffectAtMostOnce, TypeOK
<1> QED
  BY <1>1, <1>2, <1>3, TypeCorrect, PTL DEF Spec

\* The place of one event, of which NothingLost says that every event has one.
Safe(e) == \/ KeyOf[e] \in completed_keys
           \/ e \in transport
           \/ held.event = e
           \/ Queued(e)
           \/ Buried(e)

\* Taking the head of the retry queue leaves every other envelope in it.
LEMMA HeadOrQueued ==
    ASSUME TypeOK, get, NEW e \in Events, Queued(e)
    PROVE  held'.event = e \/ Queued(e)'
<1>1. PICK i \in 1 .. Len(retry_queue) : retry_queue[i].event = e
  BY DEF Queued
<1>2. retry_queue \in Seq(Envelopes) /\ retry_queue # <<>>
  BY DEF TypeOK, get
<1>3. Len(retry_queue) \in Nat /\ Len(Tail(retry_queue)) = Len(retry_queue) - 1
  BY <1>2, HeadTailProperties
<1>4. CASE i = 1
  BY <1>1, <1>2, <1>4 DEF get
<1>5. CASE i # 1
  <2>1. i - 1 \in 1 .. Len(Tail(retry_queue))
    BY <1>1, <1>3, <1>5
  <2>2. Tail(retry_queue)[i - 1] = retry_queue[i]
    BY <1>2, <1>3, <2>1, HeadTailProperties
  <2> QED
    BY Zenon, <1>1, <2>1, <2>2 DEF get, Queued
<1> QED
  BY <1>4, <1>5

\* Appending an envelope keeps the ones already there and adds its event.
LEMMA AppendKeeps ==
    ASSUME NEW q \in Seq(Envelopes), NEW x \in Envelopes, NEW e
    PROVE  (\E i \in 1 .. Len(Append(q, x)) : Append(q, x)[i].event = e)
             <=> ((\E i \in 1 .. Len(q) : q[i].event = e) \/ x.event = e)
<1>1. Len(q) \in Nat /\ Len(Append(q, x)) = Len(q) + 1
        /\ \A i \in 1 .. Len(q) : Append(q, x)[i] = q[i]
        /\ Append(q, x)[Len(q) + 1] = x
  BY AppendProperties, LenProperties
<1> QED
  BY <1>1

\* Whatever process returns, the event of the envelope and every other event has
\* a place.
THEOREM EventsAreKept == Spec => []NothingLost
<1>1. Init => NothingLost
  BY DEF Init, NothingLost
<1>2. TypeOK /\ NothingLost /\ [Next]_vars => NothingLost'
  <2> SUFFICES ASSUME TypeOK, NothingLost, [Next]_vars, NEW e \in Events
               PROVE  Safe(e)'
    BY DEF NothingLost, Safe
  <2>0. Safe(e)
    BY DEF NothingLost, Safe
  <2>1. Nothing.event # e /\ (held # Nothing => held \in Envelopes)
    BY DeliveryAssumption DEF Nothing, TypeOK
  <2>2. ASSUME NEW f \in Events, Redeliver(f) \/ Receive(f)
        PROVE  Safe(e)'
    BY <2>0, <2>1, <2>2 DEF Redeliver, Receive, Safe, Queued, Buried
  <2>3. CASE get
    <3>1. Queued(e) => held'.event = e \/ Queued(e)'
      BY <2>3, HeadOrQueued
    <3>2. held.event # e
      BY <2>1, <2>3 DEF get
    <3> QED
      BY <2>0, <2>3, <3>1, <3>2 DEF get, Safe, Buried
  <2>4. CASE Duplicate
    BY <2>0, <2>4 DEF Duplicate, Done, is_completed, Key, Safe, Queued, Buried
  <2>5. CASE Ack
    BY <2>0, <2>5 DEF Ack, Done, Key, Safe, Queued, Buried
  <2>6. CASE DeadLetter
    <3>1. held \in Envelopes /\ dead_letter_queue \in Seq(Envelopes)
      BY <2>1, <2>6 DEF DeadLetter, TypeOK
    <3>2. dead_letter_queue' = Append(dead_letter_queue, held)
      BY <2>6 DEF DeadLetter
    <3>3. Buried(e)' <=> Buried(e) \/ held.event = e
      BY <3>1, <3>2, AppendKeeps DEF Buried
    <3> QED
      BY <2>0, <2>6, <3>3 DEF DeadLetter, Safe, Queued
  <2>7. CASE Retry
    <3> DEFINE next == [held EXCEPT !.attempt = @ + 1]
    <3>0. held \in Envelopes /\ held.attempt < max_attempts
            /\ retry_queue \in Seq(Envelopes)
      BY <2>1, <2>7 DEF Retry, TransientFailure, TypeOK
    <3>1. next \in Envelopes /\ next.event = held.event
      <4>1. PICK f \in Events, n \in 1 .. max_attempts : held = [event |-> f, attempt |-> n]
        BY <3>0 DEF Envelopes
      <4>2. next = [event |-> f, attempt |-> n + 1]
        BY <4>1
      <4> QED
        BY <3>0, <4>1, <4>2, DeliveryAssumption DEF Envelopes
    <3>2. retry_queue' = Append(retry_queue, next)
      BY <2>7 DEF Retry
    <3> HIDE DEF next
    <3>3. Queued(e)' <=> Queued(e) \/ held.event = e
      BY <3>0, <3>1, <3>2, AppendKeeps DEF Queued
    <3> QED
      BY <2>0, <2>7, <3>3 DEF Retry, Safe, Buried
  <2>8. CASE Backpressure \/ Escape
    BY <2>0, <2>8 DEF Backpressure, Escape, Safe, Queued, Buried
  <2>9. CASE UNCHANGED vars
    BY <2>0, <2>9 DEF vars, Safe, Queued, Buried
  <2> QED
    BY <2>2, <2>3, <2>4, <2>5, <2>6, <2>7, <2>8, <2>9 DEF Next, process
<1> QED
  BY <1>1, <1>2, TypeCorrect, PTL DEF Spec
=============================================================================
