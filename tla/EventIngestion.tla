----------------------------- MODULE EventIngestion -----------------------------
(***************************************************************************)
(* POST /api/v1/agents/ingest: ingestion/router.py, IngestionService and   *)
(* IdempotencyStore.  A request carries events with an event_id each; for  *)
(* one after another the service looks the id up, publishes the event to   *)
(* raw_events and marks the id as seen: three Redis commands, between      *)
(* which requests handled by other API workers run.                        *)
(*                                                                         *)
(* The requests themselves come from a client: AgentDelivery has one.      *)
(***************************************************************************)
EXTENDS Integers, FiniteSets

CONSTANTS
    Worker,         \* handlers of concurrent requests, in one process or several
    EventId,        \* ids clients put in their events
    MaxErrors,      \* bound: Redis errors and worker deaths explored
    MaxForgotten    \* bound: ids explored to be forgotten after _TTL_SECS

VARIABLES
    seen,       \* idempotency:event:{id} keys that exist
    stream,     \* history: raw_events entries per event id
    todo,       \* per worker: events of its request not yet reached
    step,       \* per worker: what it does next
    current,    \* per worker: the event id being handled, if any
    rejected,   \* per worker: events of its request counted as rejected
    errors,     \* errors so far
    forgotten   \* ids whose key expired so far

request_vars == <<todo, step, current, rejected>>
ivars == <<seen, stream, todo, step, current, rejected, errors, forgotten>>

-----------------------------------------------------------------------------
Idle(w) == step[w] = "idle"

\* The request reached a worker and passed authentication and rate limit.
Receive(w, batch) ==
    /\ Idle(w)
    /\ todo' = [todo EXCEPT ![w] = batch]
    /\ step' = [step EXCEPT ![w] = "next"]
    /\ rejected' = [rejected EXCEPT ![w] = {}]
    /\ UNCHANGED <<seen, stream, current, errors, forgotten>>

\* The loop goes on.
Continue(w) ==
    /\ step' = [step EXCEPT ![w] = "next"]
    /\ current' = [current EXCEPT ![w] = {}]

\* is_duplicate: EXISTS.
Lookup(w) ==
    /\ step[w] = "next"
    /\ \E e \in todo[w] :
          /\ todo' = [todo EXCEPT ![w] = @ \ {e}]
          /\ \/ e \in seen /\ Continue(w)
             \/ /\ e \notin seen
                /\ step' = [step EXCEPT ![w] = "publish"]
                /\ current' = [current EXCEPT ![w] = {e}]
    /\ UNCHANGED <<seen, stream, rejected, errors, forgotten>>

\* publish_raw_event: XADD.
XAdd(ids) == stream' = [e \in EventId |-> stream[e] + (IF e \in ids THEN 1 ELSE 0)]

Publish(w) ==
    /\ step[w] = "publish"
    /\ XAdd(current[w])
    /\ step' = [step EXCEPT ![w] = "mark"]
    /\ UNCHANGED <<seen, todo, current, rejected, errors, forgotten>>

\* Wrong: the id is not marked.
MarkNothing(w) ==
    /\ step[w] = "mark"
    /\ Continue(w)
    /\ UNCHANGED <<seen, stream, todo, rejected, errors, forgotten>>

\* mark_seen: SET with a TTL.
MarkSeen(w) ==
    /\ step[w] = "mark"
    /\ seen' = seen \cup current[w]
    /\ Continue(w)
    /\ UNCHANGED <<stream, todo, rejected, errors, forgotten>>

Error ==
    /\ errors < MaxErrors
    /\ errors' = errors + 1

\* The XADD or the SET raises, executed or not: the event counts as rejected
\* and the loop goes on.
EventFails(w) ==
    /\ \/ /\ step[w] = "publish"
          /\ XAdd(current[w]) \/ UNCHANGED stream
          /\ UNCHANGED seen
       \/ /\ step[w] = "mark"
          /\ seen' \in {seen, seen \cup current[w]}
          /\ UNCHANGED stream
    /\ rejected' = [rejected EXCEPT ![w] = @ \cup current[w]]
    /\ Continue(w)
    /\ Error
    /\ UNCHANGED <<todo, forgotten>>

\* The request ends: with its answer, or without because the EXISTS (it is
\* outside the try) or the final commit raised, or the process died.
Finished(w) == step[w] = "next" /\ todo[w] = {}

Close(w) ==
    /\ todo' = [todo EXCEPT ![w] = {}]
    /\ step' = [step EXCEPT ![w] = "idle"]
    /\ current' = [current EXCEPT ![w] = {}]
    /\ rejected' = [rejected EXCEPT ![w] = {}]

Respond(w) ==
    /\ Finished(w)
    /\ Close(w)
    /\ UNCHANGED <<seen, stream, errors, forgotten>>

Abort(w) ==
    /\ ~Idle(w)
    /\ Close(w)
    /\ Error
    /\ UNCHANGED <<seen, stream, forgotten>>

\* Time: a key's 24 hours are over.
Forget(e) ==
    /\ e \in seen
    /\ forgotten < MaxForgotten
    /\ seen' = seen \ {e}
    /\ forgotten' = forgotten + 1
    /\ UNCHANGED <<stream, request_vars, errors>>

-----------------------------------------------------------------------------
IInit ==
    /\ seen = {}
    /\ stream = [e \in EventId |-> 0]
    /\ todo = [w \in Worker |-> {}]
    /\ step = [w \in Worker |-> "idle"]
    /\ current = [w \in Worker |-> {}]
    /\ rejected = [w \in Worker |-> {}]
    /\ errors = 0
    /\ forgotten = 0

Serve(w) == Lookup(w) \/ Publish(w) \/ MarkSeen(w)
=============================================================================
