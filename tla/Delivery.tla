------------------------------ MODULE Delivery ------------------------------
(***************************************************************************)
(* DeliveryProcessor of windows_network_toolkit/distributed_delivery.py     *)
(* behind a transport that delivers at least once: it may deliver an event  *)
(* again at any time and keeps one until it is acknowledged.  The consumer  *)
(* takes an envelope from the transport or from the bounded retry queue,    *)
(* one at a time, and calls process.                                        *)
(***************************************************************************)
EXTENDS Integers, Sequences, FiniteSets

CONSTANTS Events,           \* event_id
          Keys,             \* idempotency_key
          KeyOf,            \* the key of each event: a regenerated event keeps it
          max_attempts, capacity,
          MaxRedeliveries   \* bound on lost acknowledgements and other exceptions

ASSUME DeliveryAssumption == /\ "none" \notin Events
                             /\ KeyOf \in [Events -> Keys]
                             /\ max_attempts \in Nat \ {0}
                             /\ capacity \in Nat \ {0}
                             /\ MaxRedeliveries \in Nat

VARIABLES transport,          \* events the transport still has to deliver
          redeliveries,
          held,               \* the envelope process is working on
          retry_queue, dead_letter_queue,
          completed_keys,
          effects             \* completed side effects per key (history)

vars == <<transport, redeliveries, held, retry_queue, dead_letter_queue,
          completed_keys, effects>>

Envelopes == [event : Events, attempt : 1 .. max_attempts]
Nothing == [event |-> "none", attempt |-> 0]

Init == /\ transport = Events
        /\ redeliveries = 0
        /\ held = Nothing
        /\ retry_queue = <<>>
        /\ dead_letter_queue = <<>>
        /\ completed_keys = {}
        /\ effects = [key \in Keys |-> 0]

\* An acknowledgement is lost, or a restarted consumer is sent the event again.
Redeliver(e) == /\ e \notin transport
                /\ redeliveries < MaxRedeliveries
                /\ redeliveries' = redeliveries + 1
                /\ transport' = transport \cup {e}
                /\ UNCHANGED <<held, retry_queue, dead_letter_queue, completed_keys,
                               effects>>

\* The consumer takes a new envelope, or the head of the retry queue.
Receive(e) == /\ held = Nothing
              /\ e \in transport
              /\ held' = [event |-> e, attempt |-> 1]
              /\ transport' = transport \ {e}
              /\ UNCHANGED <<redeliveries, retry_queue, dead_letter_queue,
                             completed_keys, effects>>

get == /\ held = Nothing
       /\ retry_queue # <<>>
       /\ held' = Head(retry_queue)
       /\ retry_queue' = Tail(retry_queue)
       /\ UNCHANGED <<transport, redeliveries, dead_letter_queue, completed_keys,
                      effects>>

Key == KeyOf[held.event]
\* Mutant of is_completed: the ledger is not asked about a retry.
is_completed_FirstAttempt == held.attempt = 1 /\ Key \in completed_keys

is_completed == Key \in completed_keys

\* process returns; what the outcome leaves unchanged.
Done == held' = Nothing /\ UNCHANGED redeliveries

Duplicate == /\ held # Nothing /\ is_completed
             /\ Done
             /\ UNCHANGED <<transport, retry_queue, dead_letter_queue, completed_keys,
                            effects>>

\* The side effect succeeds and the key is marked completed.
Ack == /\ held # Nothing /\ ~ is_completed
       /\ effects' = [effects EXCEPT ![Key] = @ + 1]
       /\ completed_keys' = completed_keys \cup {Key}
       /\ Done
       /\ UNCHANGED <<transport, retry_queue, dead_letter_queue>>

\* It raises PermanentDeliveryError, or a TransientDeliveryError on the last attempt.
DeadLetter == /\ held # Nothing /\ ~ is_completed
              /\ dead_letter_queue' = Append(dead_letter_queue, held)
              /\ Done
              /\ UNCHANGED <<transport, retry_queue, completed_keys, effects>>

\* Mutant of TransientFailure: one attempt too many.
TransientFailure_OneMore == /\ held # Nothing /\ ~ is_completed
                            /\ held.attempt <= max_attempts

TransientFailure == /\ held # Nothing /\ ~ is_completed
                    /\ held.attempt < max_attempts

\* Mutant of Retry: the envelope is queued with its old attempt.
Retry_SameAttempt == /\ TransientFailure
                     /\ Len(retry_queue) < capacity
                     /\ retry_queue' = Append(retry_queue, held)
                     /\ Done
                     /\ UNCHANGED <<transport, dead_letter_queue, completed_keys, effects>>

\* A transient error with attempts left: try_put of the next attempt.
Retry == /\ TransientFailure
         /\ Len(retry_queue) < capacity
         /\ retry_queue' = Append(retry_queue, [held EXCEPT !.attempt = @ + 1])
         /\ Done
         /\ UNCHANGED <<transport, dead_letter_queue, completed_keys, effects>>

\* Mutant of Backpressure: the envelope does not come back to the caller.
Backpressure_Acknowledged == /\ TransientFailure
                             /\ Len(retry_queue) >= capacity
                             /\ Done
                             /\ UNCHANGED <<transport, retry_queue, dead_letter_queue,
                                            completed_keys, effects>>

\* The retry queue is full: the caller gets the envelope back, and does not
\* acknowledge it to the transport.
Backpressure == /\ TransientFailure
                /\ Len(retry_queue) >= capacity
                /\ transport' = transport \cup {held.event}
                /\ Done
                /\ UNCHANGED <<retry_queue, dead_letter_queue, completed_keys, effects>>

\* Any other exception leaves process, and the event is not acknowledged either.
Escape == /\ held # Nothing /\ ~ is_completed
          /\ redeliveries < MaxRedeliveries
          /\ redeliveries' = redeliveries + 1
          /\ transport' = transport \cup {held.event}
          /\ held' = Nothing
          /\ UNCHANGED <<retry_queue, dead_letter_queue, completed_keys, effects>>

process == Duplicate \/ Ack \/ DeadLetter \/ Retry \/ Backpressure \/ Escape

Next == process \/ get \/ \E e \in Events : Receive(e) \/ Redeliver(e)

Spec == Init /\ [][Next]_vars

\* process returns, and the consumer serves the retry queue and every event of
\* the transport for ever, one as well as the other.
FairSpec == /\ Spec
            /\ WF_vars(process)
            /\ SF_vars(get)
            /\ \A e \in Events : SF_vars(Receive(e))

-----------------------------------------------------------------------------
Queued(e) == \E i \in 1 .. Len(retry_queue) : retry_queue[i].event = e
Buried(e) == \E i \in 1 .. Len(dead_letter_queue) : dead_letter_queue[i].event = e

\* Envelopes never carry an attempt beyond max_attempts, and the retry queue never
\* exceeds its capacity.
TypeOK == /\ transport \subseteq Events
          /\ redeliveries \in 0 .. MaxRedeliveries
          /\ held \in Envelopes \cup {Nothing}
          /\ retry_queue \in Seq(Envelopes)
          /\ Len(retry_queue) <= capacity
          /\ dead_letter_queue \in Seq(Envelopes)
          /\ completed_keys \subseteq Keys
          /\ effects \in [Keys -> Nat]

(***************************************************************************)
(* "The same idempotency key must not produce a second mutation", whatever  *)
(* is delivered again, regenerated under another event_id or retried.       *)
(***************************************************************************)
EffectAtMostOnce == \A key \in Keys : effects[key] <= 1

(***************************************************************************)
(* No outcome of process loses an event: its effect is completed, or it is  *)
(* in a queue, in the hands of the consumer or still to be delivered.       *)
(***************************************************************************)
NothingLost == \A e \in Events : \/ KeyOf[e] \in completed_keys
                                 \/ e \in transport
                                 \/ held.event = e
                                 \/ Queued(e)
                                 \/ Buried(e)

\* "max_attempts prevents infinite poison-message loops": every event comes to
\* rest, completed or dead-lettered, although a full retry queue sends one back
\* to the transport with its attempts forgotten.
ComesToRest == \A e \in Events :
                  <>[](/\ KeyOf[e] \in completed_keys \/ Buried(e)
                       /\ e \notin transport
                       /\ ~ Queued(e))
=============================================================================
