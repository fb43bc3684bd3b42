---------------------------- MODULE FleetIngest ----------------------------
(***************************************************************************)
(* FleetIngestGateway.ingest_one of platform_core/fleet/ingestion.py with   *)
(* the InMemoryIdempotencyStore of deduplication.py, called by the worker   *)
(* threads of the /ingest/batch route, for producers that send an event     *)
(* again until they are told what became of it.                             *)
(*                                                                          *)
(* The store records a key under its lock; the publication follows outside  *)
(* the lock and may fail; the store is lost when the gateway restarts.      *)
(***************************************************************************)
EXTENDS Integers, Sequences, FiniteSets

CONSTANTS Workers, Events, Keys,
          KeyOf,        \* (tenant, producer, idempotency_key) of an event
          NoKey,        \* an empty idempotency_key
          NoEvent,
          Publishes,    \* local mode, or a publisher is configured
          MaxExpiries,  \* bound on keys that outlive the TTL
          MaxRestarts,  \* bound on gateway restarts
          MaxFailures   \* bound on publications that raise

ASSUME FleetAssumption == /\ KeyOf \in [Events -> Keys \cup {NoKey}]
                          /\ NoKey \notin Keys
                          /\ NoEvent \notin Events
                          /\ Publishes \in BOOLEAN
                          /\ IsFiniteSet(Workers)
                          /\ {MaxExpiries, MaxRestarts, MaxFailures} \subseteq Nat

VARIABLES keys,      \* _keys: the event recorded for each key, or NoEvent
          expired,   \* keys whose _insert_times entry is older than the TTL
          working,   \* the event each worker is publishing, or NoEvent
          replying,  \* the accepted event each worker answers for, or NoEvent
          stream,    \* the WAL or the topic
          told,      \* what the producer of each event knows
          expiries, restarts, failures

vars == <<keys, expired, working, replying, stream, told, expiries, restarts, failures>>
bounds == <<expiries, restarts, failures>>

NoKeys == [key \in Keys |-> NoEvent]
Idle == [w \in Workers |-> NoEvent]

Init == /\ keys = NoKeys
        /\ expired = {}
        /\ working = Idle
        /\ replying = Idle
        /\ stream = <<>>
        /\ told = [e \in Events |-> "nothing"]
        /\ expiries = 0 /\ restarts = 0 /\ failures = 0

\* _purge_expired
purge_expired == [key \in Keys |-> IF key \in expired THEN NoEvent ELSE keys[key]]

\* Mutants of check: a used key is accepted for another event; a used key is a
\* repetition whatever the event.
check_SameEventOnly(e) == IF KeyOf[e] = NoKey THEN "conflict"
                          ELSE IF purge_expired[KeyOf[e]] = e THEN "duplicate"
                          ELSE "accepted"

check_KeyOnly(e) == IF KeyOf[e] = NoKey THEN "conflict"
                    ELSE IF purge_expired[KeyOf[e]] = NoEvent THEN "accepted"
                    ELSE "duplicate"

\* The outcome of check_and_record for e.
check(e) == IF KeyOf[e] = NoKey THEN "conflict"
            ELSE IF purge_expired[KeyOf[e]] = NoEvent THEN "accepted"
            ELSE IF purge_expired[KeyOf[e]] = e THEN "duplicate"
            ELSE "conflict"

\* A worker receives an event whose producer has no answer yet; the lock is held
\* from the purge to the record.  Without a key the store is not touched.
Ingest(w, e) == /\ working[w] = NoEvent /\ replying[w] = NoEvent
                /\ told[e] = "nothing"
                /\ \/ KeyOf[e] = NoKey /\ UNCHANGED <<keys, expired>>
                   \/ /\ KeyOf[e] # NoKey
                      /\ expired' = {}
                      /\ keys' = IF check(e) = "accepted"
                                 THEN [purge_expired EXCEPT ![KeyOf[e]] = e]
                                 ELSE purge_expired

Accept(w, e) == /\ check(e) = "accepted"
                /\ Ingest(w, e)
                /\ working' = [working EXCEPT ![w] = e]
                /\ UNCHANGED <<replying, stream, told, bounds>>

\* The event is on record: the answer is accepted, nothing is published.
Repeat(w, e) == /\ check(e) = "duplicate"
                /\ Ingest(w, e)
                /\ replying' = [replying EXCEPT ![w] = e]
                /\ UNCHANGED <<working, stream, told, bounds>>

\* Mutant of Conflict: the producer is told the outcome instead of accepted or not.
Conflict_TellsOutcome(w, e) == /\ check(e) = "conflict"
                               /\ Ingest(w, e)
                               /\ told' = [told EXCEPT ![e] = check(e)]
                               /\ UNCHANGED <<working, replying, stream, bounds>>

\* The key is empty or belongs to another event: the answer is not accepted.
Conflict(w, e) == /\ check(e) = "conflict"
                  /\ Ingest(w, e)
                  /\ told' = [told EXCEPT ![e] = "rejected"]
                  /\ UNCHANGED <<working, replying, stream, bounds>>

\* _publish: without a publisher the event is accepted all the same.
Publish(w) == /\ working[w] # NoEvent
              /\ stream' = IF Publishes THEN Append(stream, working[w]) ELSE stream
              /\ replying' = [replying EXCEPT ![w] = working[w]]
              /\ working' = [working EXCEPT ![w] = NoEvent]
              /\ UNCHANGED <<keys, expired, told, bounds>>

\* The publisher or the file system raises; the key stays on record.
PublishRaises(w) == /\ working[w] # NoEvent
                    /\ Publishes
                    /\ failures < MaxFailures
                    /\ failures' = failures + 1
                    /\ working' = [working EXCEPT ![w] = NoEvent]
                    /\ UNCHANGED <<keys, expired, replying, stream, told, expiries,
                                   restarts>>

\* The answer arrives, or is lost and the producer will send the event again.
Reply(w) == /\ replying[w] # NoEvent
            /\ \/ told' = [told EXCEPT ![replying[w]] = "accepted"]
               \/ UNCHANGED told
            /\ replying' = [replying EXCEPT ![w] = NoEvent]
            /\ UNCHANGED <<keys, expired, working, stream, bounds>>

Expire(key) == /\ keys[key] # NoEvent /\ key \notin expired
               /\ expiries < MaxExpiries
               /\ expiries' = expiries + 1
               /\ expired' = expired \cup {key}
               /\ UNCHANGED <<keys, working, replying, stream, told, restarts, failures>>

\* The gateway process ends and starts again with an empty store.
Restart == /\ restarts < MaxRestarts
           /\ restarts' = restarts + 1
           /\ keys' = NoKeys
           /\ expired' = {}
           /\ working' = Idle
           /\ replying' = Idle
           /\ UNCHANGED <<stream, told, expiries, failures>>

Next == \/ \E w \in Workers :
              \/ \E e \in Events : Accept(w, e) \/ Repeat(w, e) \/ Conflict(w, e)
              \/ Publish(w) \/ PublishRaises(w) \/ Reply(w)
        \/ \E key \in Keys : Expire(key)
        \/ Restart

Spec == Init /\ [][Next]_vars

-----------------------------------------------------------------------------
InStream(e) == \E i \in 1 .. Len(stream) : stream[i] = e
Publishing(e) == \E w \in Workers : working[w] = e
\* How often the key was published, or is about to be.
Published(key) == Cardinality({i \in 1 .. Len(stream) : KeyOf[stream[i]] = key})
Underway(key) == Cardinality({w \in Workers : working[w] # NoEvent
                                                /\ KeyOf[working[w]] = key})

\* Every variable keeps its type.
TypeOK == /\ keys \in [Keys -> Events \cup {NoEvent}]
          /\ expired \subseteq Keys
          /\ working \in [Workers -> Events \cup {NoEvent}]
          /\ replying \in [Workers -> Events \cup {NoEvent}]
          /\ stream \in Seq(Events)
          /\ told \in [Events -> {"nothing", "accepted", "rejected"}]
          /\ expiries \in 0 .. MaxExpiries
          /\ restarts \in 0 .. MaxRestarts
          /\ failures \in 0 .. MaxFailures

(***************************************************************************)
(* "Gateway rejects duplicate (tenant_id, producer_id, idempotency_key)":   *)
(* a key is published once, whatever producers repeat concurrently, plus    *)
(* once for every time the store forgot keys.                               *)
(***************************************************************************)
OncePerRecord == \A key \in Keys :
                    Published(key) + Underway(key) <= 1 + expiries + restarts

(***************************************************************************)
(* As long as no publication raised and the gateway did not restart, an     *)
(* event the producer was told is accepted is in the stream, or a worker    *)
(* is publishing it: also when a repeated request overtook the first one.   *)
(***************************************************************************)
AcceptedIsKept == (Publishes /\ failures = 0 /\ restarts = 0) =>
    \A e \in Events : told[e] = "accepted" => InStream(e) \/ Publishing(e)

(***************************************************************************)
(* deduplication.py: "gateway-side exactly-once accept semantics".  What    *)
(* the producer was told is accepted is published.                          *)
(***************************************************************************)
AcceptedIsPublished ==
    \A e \in Events : told[e] = "accepted" => InStream(e) \/ Publishing(e)
=============================================================================
