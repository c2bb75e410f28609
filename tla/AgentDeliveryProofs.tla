-------------------------- MODULE AgentDeliveryProofs --------------------------
(***************************************************************************)
(* Type correctness of AgentDelivery and its two invariants about lines    *)
(* that must not get lost, for any number of lines, ids, request handlers  *)
(* and faults.                                                             *)
(***************************************************************************)
EXTENDS AgentDelivery, TLAPS

\* The server's own steps keep the types of its variables.
LEMMA ServerSteps ==
    ASSUME ServerTypeOK, NEW w \in Worker
    PROVE  /\ Serve(w) => ServerTypeOK'
           /\ Respond(w) => ServerTypeOK'
           /\ Abort(w) => ServerTypeOK'
           /\ EventFails(w) => ServerTypeOK'
           /\ \A ids \in SUBSET EventId : Receive(w, ids) => ServerTypeOK'
           /\ \A id \in EventId : Forget(id) => ServerTypeOK'
  <1> USE DEF ServerTypeOK
  <1>1. Lookup(w) => ServerTypeOK'
    BY DEF Lookup, Continue
  <1>2. Publish(w) => ServerTypeOK'
    BY DEF Publish, XAdd
  <1>3. MarkSeen(w) => ServerTypeOK'
    BY DEF MarkSeen, Continue
  <1>4. Respond(w) => ServerTypeOK'
    BY DEF Respond, Close
  <1>5. Abort(w) => ServerTypeOK'
    BY DEF Abort, Close, Error
  <1>6. EventFails(w) => ServerTypeOK'
    BY DEF EventFails, XAdd, Continue, Error
  <1>7. \A ids \in SUBSET EventId : Receive(w, ids) => ServerTypeOK'
    BY DEF Receive
  <1>8. \A id \in EventId : Forget(id) => ServerTypeOK'
    BY DEF Forget, request_vars
  <1>9. QED
    BY <1>1, <1>2, <1>3, <1>4, <1>5, <1>6, <1>7, <1>8 DEF Serve

\* What nack leaves behind.
LEMMA NackTypes ==
    ASSUME AgentAssumption, RowTypeOK, NEW rows \in SUBSET (queue \ waiting), Nack(rows)
    PROVE  /\ queue' \subseteq queue
           /\ waiting' \subseteq queue'
           /\ retries' \in [Line -> 0..(MaxRetries - 1)]
           /\ dropped' \subseteq dropped \cup rows
           /\ rows \subseteq queue' \cup dropped'
  <1> DEFINE lost == {l \in rows : retries[l] + 1 >= MaxRetries}
  <1>1. /\ queue' = queue \ lost
        /\ retries' = [l \in Line |-> IF l \in lost THEN 0
                                      ELSE IF l \in rows THEN retries[l] + 1
                                      ELSE retries[l]]
        /\ waiting' = waiting \cup (rows \ lost)
        /\ dropped' = dropped \cup lost
    BY DEF Nack
  <1>2. MaxRetries \in Nat \ {0}
    BY DEF AgentAssumption
  <1>3. ASSUME NEW l \in Line PROVE retries'[l] \in 0..(MaxRetries - 1)
    <2>1. retries[l] \in 0..(MaxRetries - 1)
      BY DEF RowTypeOK
    <2>2. l \in rows /\ l \notin lost => retries[l] + 1 < MaxRetries
      BY <2>1, <1>2
    <2>3. QED
      BY <1>1, <1>2, <2>1, <2>2
  <1>4. retries' \in [Line -> 0..(MaxRetries - 1)]
    BY <1>1, <1>3
  <1>5. QED
    BY <1>1, <1>4 DEF RowTypeOK

\* A post that failed keeps the rows and the drain typed.
LEMMA PostFailedTypes ==
    ASSUME AgentAssumption, RowTypeOK, PostTypeOK, PostFailed
    PROVE  /\ queue' \subseteq queue
           /\ waiting' \subseteq queue'
           /\ retries' \in [Line -> 0..(MaxRetries - 1)]
           /\ dropped' \subseteq dropped \cup Posted
           /\ Posted \subseteq queue' \cup dropped'
           /\ draws' = draws
           /\ posting' \subseteq posting
           /\ Posted' \subseteq queue' \ waiting'
           /\ attempt' \in 0..(Attempts - 1)
           /\ server' = NoWorker
  <1>1. Posted \in SUBSET (queue \ waiting)
    BY DEF PostTypeOK
  <1>2. Attempts \in Nat \ {0} /\ attempt \in 0..(Attempts - 1)
    BY DEF AgentAssumption, PostTypeOK
  <1>3. CASE attempt + 1 < Attempts
    <2>1. /\ attempt' = attempt + 1 /\ server' = NoWorker
          /\ UNCHANGED <<queue, retries, waiting, dropped, draws, posting>>
      BY <1>3 DEF PostFailed, row_vars
    <2>2. Posted' = Posted
      BY <2>1 DEF Posted
    <2>3. attempt' \in 0..(Attempts - 1)
      BY <1>2, <1>3, <2>1
    <2>4. QED
      BY <1>1, <2>1, <2>2, <2>3 DEF RowTypeOK
  <1>4. CASE ~(attempt + 1 < Attempts)
    <2>1. Nack(Posted) /\ EndDrain
      BY <1>4 DEF PostFailed
    <2>2. /\ posting' = {} /\ attempt' = 0 /\ server' = NoWorker /\ draws' = draws
      BY <2>1 DEF EndDrain
    <2>3. Posted' = {}
      BY <2>2 DEF Posted
    <2>4. QED
      BY <1>1, <1>2, <2>1, <2>2, <2>3, NackTypes
  <1>5. QED
    BY <1>3, <1>4

\* The ids of a drain belong to the lines it takes from the queue.
LEMMA PostedLines ==
    ASSUME AgentAssumption, PostTypeOK
    PROVE  \A id \in posting : id \in EventId /\ id[1] \in Posted
  BY DEF PostTypeOK, Posted

LEMMA InitTypeOK == ASSUME AgentAssumption, AInit PROVE ATypeOK
  <1> USE DEF AInit, IInit
  <1>1. ServerTypeOK
    BY DEF ServerTypeOK
  <1>2. LogTypeOK
    BY DEF LogTypeOK, AgentAssumption
  <1>3. RowTypeOK
    BY DEF RowTypeOK, AgentAssumption
  <1>4. Posted = {}
    BY DEF Posted
  <1>5. PostTypeOK
    BY <1>4 DEF PostTypeOK, AgentAssumption
  <1>6. QED
    BY <1>1, <1>2, <1>3, <1>5 DEF ATypeOK

\* Main loop: the server and the drain are left alone, rows only added.
LEMMA MainLoopTypes ==
    ASSUME AgentAssumption, ATypeOK,
           WriteLine \/ Collect \/ CollectFails \/ Enqueue \/ EnqueueFails \/ SaveCheckpoint
    PROVE  ATypeOK'
  <1> USE DEF ATypeOK
  <1>1. ServerTypeOK'
    BY DEF ServerTypeOK, WriteLine, Collect, CollectFails, Collected, Enqueue, EnqueueFails,
           SaveCheckpoint, Error, ivars, request_vars
  <1>2. LogTypeOK'
    <2> USE DEF LogTypeOK, AgentAssumption
    <2>1. CASE WriteLine
      BY <2>1 DEF WriteLine
    <2>2. Unread \subseteq 1..written
      BY DEF Unread
    <2>6. CASE Collect
      <3>1. /\ read' = Unread /\ position' = written /\ loop' \in {"save", "enqueue"}
            /\ written' = written /\ checkpoint' = checkpoint
        BY <2>6 DEF Collect, Collected
      <3>2. QED
        BY <2>2, <3>1
    <2>7. CASE CollectFails
      <3>1. PICK some \in SUBSET Unread : Collected(some)
        BY <2>7 DEF CollectFails
      <3>2. /\ read' = some /\ position' = position /\ loop' \in {"save", "enqueue"}
            /\ written' = written /\ checkpoint' = checkpoint
        BY <2>7, <3>1 DEF CollectFails, Collected
      <3>3. QED
        BY <2>2, <3>2
    <2>3. CASE Enqueue \/ EnqueueFails
      BY <2>3 DEF Enqueue, EnqueueFails
    <2>4. CASE SaveCheckpoint
      BY <2>4 DEF SaveCheckpoint
    <2>5. QED
      BY <2>1, <2>3, <2>4, <2>6, <2>7
  <1>3. /\ waiting' = waiting /\ retries' = retries
        /\ dropped' = dropped /\ refused' = refused /\ exposed' = exposed
        /\ queue \subseteq queue'
        /\ UNCHANGED <<draws, posting, attempt, server, step>>
    BY DEF WriteLine, Collect, CollectFails, Collected, Enqueue, EnqueueFails, SaveCheckpoint,
           InsertRows, row_vars, post_vars, history_vars, ivars, request_vars
  <1>4. queued' \subseteq 1..written' /\ queue' \subseteq queued'
    <2>1. queued \subseteq 1..written /\ queue \subseteq queued /\ read \subseteq 1..written
      BY DEF RowTypeOK, LogTypeOK
    <2>2. CASE Enqueue \/ EnqueueFails
      <3>1. /\ written' = written
            /\ \E new \in SUBSET read : queue' = queue \cup new /\ queued' = queued \cup new
        BY <2>2 DEF Enqueue, EnqueueFails, InsertRows
      <3>2. QED
        BY <2>1, <3>1
    <2>3. CASE WriteLine \/ Collect \/ CollectFails \/ SaveCheckpoint
      <3>1. queue' = queue /\ queued' = queued /\ written' \in {written, written + 1}
        BY <2>3 DEF WriteLine, Collect, CollectFails, Collected, SaveCheckpoint, row_vars, history_vars
      <3>2. 1..written \subseteq 1..written'
        BY <3>1 DEF LogTypeOK
      <3>3. QED
        BY <2>1, <3>1, <3>2
    <2>4. QED
      BY <2>2, <2>3
  <1>5. RowTypeOK'
    BY <1>3, <1>4 DEF RowTypeOK
  <1>6. Posted' = Posted
    BY <1>3 DEF Posted
  <1>7. PostTypeOK'
    BY <1>3, <1>6 DEF PostTypeOK, Idle
  <1>8. QED
    BY <1>1, <1>2, <1>5, <1>7

\* The log and its reader are not the drainer's business.
LEMMA LogUnchanged ==
    ASSUME LogTypeOK, UNCHANGED log_vars
    PROVE  LogTypeOK' /\ written' = written
  BY DEF LogTypeOK, log_vars

\* Rows that the drain leaves in the queue, or gives up, stay typed.
LEMMA RowsLeft ==
    ASSUME LogTypeOK, RowTypeOK, UNCHANGED <<written, queued>>,
           queue' \subseteq queue, waiting' \subseteq queue',
           retries' \in [Line -> 0..(MaxRetries - 1)],
           dropped' \subseteq Line, refused' \subseteq Line
    PROVE  RowTypeOK'
  BY DEF RowTypeOK

\* The lines of the drain are lines of the log.
LEMMA PostedAreLines ==
    ASSUME AgentAssumption, LogTypeOK, RowTypeOK, PostTypeOK
    PROVE  Posted \subseteq Line
  <1>1. 1..written \subseteq Line
    BY DEF LogTypeOK, Line, AgentAssumption
  <1>2. QED
    BY <1>1 DEF RowTypeOK, PostTypeOK

\* A failed post, whatever the server did meanwhile.
LEMMA PostFailedKeepsTypes ==
    ASSUME AgentAssumption, ATypeOK, PostFailed, UNCHANGED log_vars, queued' = queued,
           refused' \subseteq Line, exposed' \subseteq EventId
    PROVE  LogTypeOK' /\ RowTypeOK' /\ PostTypeOK'
  <1> USE DEF ATypeOK
  <1>1. LogTypeOK' /\ written' = written
    BY LogUnchanged
  <1>2. Posted \subseteq Line
    BY PostedAreLines
  <1>3. RowTypeOK'
    <2>1. dropped' \subseteq Line
      BY PostFailedTypes, <1>2 DEF RowTypeOK
    <2>2. QED
      BY <1>1, <2>1, PostFailedTypes, RowsLeft
  <1>4. PostTypeOK'
    BY PostFailedTypes DEF PostTypeOK
  <1>5. QED
    BY <1>1, <1>3, <1>4

\* The end of a drain that nacked or acked its rows.
LEMMA EndDrainKeepsTypes ==
    ASSUME AgentAssumption, ATypeOK, Nack(Posted) \/ Ack(Posted), EndDrain,
           UNCHANGED log_vars, queued' = queued,
           refused' \subseteq Line, exposed' \subseteq EventId
    PROVE  LogTypeOK' /\ RowTypeOK' /\ PostTypeOK'
  <1> USE DEF ATypeOK
  <1>1. LogTypeOK' /\ written' = written
    BY LogUnchanged
  <1>2. Posted \subseteq Line /\ Posted \in SUBSET (queue \ waiting)
    BY PostedAreLines DEF PostTypeOK
  <1>3. CASE Nack(Posted)
    <2>1. dropped' \subseteq Line
      BY <1>2, <1>3, NackTypes DEF RowTypeOK
    <2>2. QED
      <3>1. RowTypeOK'
        BY <1>1, <1>2, <1>3, <2>1, NackTypes, RowsLeft
      <3>2. /\ posting' = {} /\ attempt' = 0 /\ server' = NoWorker /\ draws' = draws
        BY DEF EndDrain
      <3>3. Posted' = {}
        BY <3>2 DEF Posted
      <3>4. PostTypeOK'
        BY <3>2, <3>3 DEF PostTypeOK, AgentAssumption
      <3>5. QED
        BY <1>1, <3>1, <3>4
  <1>4. CASE Ack(Posted)
    <2>1. /\ queue' = queue \ Posted
          /\ retries' = [l \in Line |-> IF l \in Posted THEN 0 ELSE retries[l]]
          /\ waiting' = waiting /\ dropped' = dropped
      BY <1>4 DEF Ack
    <2>2. retries' \in [Line -> 0..(MaxRetries - 1)]
      BY <2>1 DEF RowTypeOK, AgentAssumption
    <2>3. waiting' \subseteq queue' /\ queue' \subseteq queue /\ dropped' \subseteq Line
      BY <1>2, <2>1 DEF RowTypeOK
    <2>4. RowTypeOK'
      BY <1>1, <2>2, <2>3, RowsLeft
    <2>5. /\ posting' = {} /\ attempt' = 0 /\ server' = NoWorker /\ draws' = draws
      BY DEF EndDrain
    <2>6. Posted' = {}
      BY <2>5 DEF Posted
    <2>7. PostTypeOK'
      BY <2>5, <2>6 DEF PostTypeOK, AgentAssumption
    <2>8. QED
      BY <1>1, <2>4, <2>7
  <1>5. QED
    BY <1>3, <1>4

\* A drain draws one more id for each of its rows.
LEMMA DrainTypes == ASSUME AgentAssumption, ATypeOK, Drain PROVE ATypeOK'
  <1> USE DEF ATypeOK
  <1>1. PICK rows \in FetchBatch :
          /\ \A l \in rows : draws[l] < MaxDraws
          /\ draws' = [l \in Line |-> draws[l] + (IF l \in rows THEN 1 ELSE 0)]
          /\ posting' = {<<l, draws'[l]>> : l \in rows}
    BY DEF Drain
  <1>2. rows \subseteq queue \ waiting
    BY DEF FetchBatch
  <1>3. rows \subseteq Line
    <2>1. 1..written \subseteq Line
      BY DEF LogTypeOK, Line, AgentAssumption
    <2>2. QED
      BY <1>2, <2>1 DEF RowTypeOK
  <1>4. MaxDraws \in Nat \ {0} /\ draws \in [Line -> 0..MaxDraws]
    BY DEF AgentAssumption, PostTypeOK
  <1>5. ASSUME NEW l \in Line
        PROVE  /\ draws'[l] \in 0..MaxDraws
               /\ l \in rows => draws'[l] \in 1..MaxDraws
    BY <1>1, <1>4
  <1>6. draws' \in [Line -> 0..MaxDraws]
    BY <1>1, <1>5
  <1>7. posting' \subseteq EventId
    BY <1>1, <1>3, <1>5 DEF AgentAssumption
  <1>8. Posted' \subseteq rows
    BY <1>1 DEF Posted
  <1>9. UNCHANGED <<ivars, log_vars, row_vars, attempt, server, history_vars>>
    BY DEF Drain
  <1>10. ServerTypeOK' /\ LogTypeOK' /\ RowTypeOK'
    BY <1>9 DEF ServerTypeOK, LogTypeOK, RowTypeOK, ivars, request_vars, log_vars, row_vars, history_vars
  <1>11. server = NoWorker
    BY DEF Drain, PostTypeOK
  <1>12. QED
    BY <1>2, <1>6, <1>7, <1>8, <1>9, <1>10, <1>11
       DEF PostTypeOK, row_vars, history_vars

\* The agent's other steps.
LEMMA DrainerTypes ==
    ASSUME AgentAssumption, ATypeOK,
           \/ AgentCrash \/ Post \/ Refused \/ Timeout
           \/ \E w \in Worker : Answered(w)
           \/ \E l \in Line : BackoffOver(l)
    PROVE  ATypeOK'
  <1> USE DEF ATypeOK
  <1>1. CASE AgentCrash
    <2>1. ServerTypeOK'
      BY <1>1 DEF AgentCrash, ServerTypeOK, Error, request_vars
    <2>2. LogTypeOK'
      BY <1>1 DEF AgentCrash, LogTypeOK
    <2>3. RowTypeOK'
      BY <1>1 DEF AgentCrash, RowTypeOK, row_vars, history_vars
    <2>4. Posted' = {}
      BY <1>1 DEF AgentCrash, Posted
    <2>5. PostTypeOK'
      BY <1>1, <2>4 DEF AgentCrash, PostTypeOK, history_vars, AgentAssumption
    <2>6. QED
      BY <2>1, <2>2, <2>3, <2>5
  <1>2. CASE Post
    <2>1. PICK w \in Worker : Receive(w, posting) /\ server' = w
      BY <1>2 DEF Post
    <2>2. ServerTypeOK'
      BY <2>1, ServerSteps DEF PostTypeOK
    <2>3. UNCHANGED <<log_vars, row_vars, draws, posting, attempt, history_vars>> /\ posting # {}
      BY <1>2 DEF Post
    <2>4. LogTypeOK' /\ RowTypeOK'
      BY <2>3 DEF LogTypeOK, RowTypeOK, log_vars, row_vars, history_vars
    <2>5. step'[w] = "next"
      BY <2>1 DEF Receive, ServerTypeOK
    <2>6. Posted' = Posted
      BY <2>3 DEF Posted
    <2>7. PostTypeOK'
      BY <2>1, <2>3, <2>5, <2>6 DEF PostTypeOK, Idle, row_vars, history_vars
    <2>8. QED
      BY <2>2, <2>4, <2>7
  <1>3. CASE Refused
    <2>1. UNCHANGED <<ivars, log_vars, queued, refused, exposed>>
      BY <1>3 DEF Refused
    <2>2. ServerTypeOK'
      BY <2>1 DEF ServerTypeOK, ivars, request_vars
    <2>3. refused' \subseteq Line /\ exposed' \subseteq EventId
      BY <2>1 DEF RowTypeOK, PostTypeOK
    <2>4. PostFailed \/ (Nack(Posted) /\ EndDrain)
      BY <1>3 DEF Refused
    <2>5. LogTypeOK' /\ RowTypeOK' /\ PostTypeOK'
      BY <2>1, <2>3, <2>4, PostFailedKeepsTypes, EndDrainKeepsTypes
    <2>6. QED
      BY <2>2, <2>5
  <1>4. CASE Timeout
    <2>1. /\ UNCHANGED <<seen, stream, request_vars, forgotten, log_vars, queued, refused>>
          /\ Error /\ PostFailed /\ server \in Worker
          /\ exposed' = exposed \cup Unfinished(server)
      BY <1>4 DEF Timeout, PostTypeOK
    <2>2. ServerTypeOK'
      BY <2>1 DEF ServerTypeOK, request_vars, Error
    <2>3. refused' \subseteq Line /\ exposed' \subseteq EventId
      BY <2>1 DEF RowTypeOK, PostTypeOK, ServerTypeOK, Unfinished
    <2>4. LogTypeOK' /\ RowTypeOK' /\ PostTypeOK'
      BY <2>1, <2>3, PostFailedKeepsTypes
    <2>5. QED
      BY <2>2, <2>4
  <1>5. CASE \E w \in Worker : Answered(w)
    <2>1. PICK w \in Worker : Answered(w)
      BY <1>5
    <2>2. ServerTypeOK'
      BY <2>1, ServerSteps DEF Answered
    <2>3. /\ UNCHANGED <<log_vars, queued, exposed>>
          /\ refused' = refused \cup {id[1] : id \in rejected[w]}
          /\ PostFailed \/ (Ack(Posted) /\ EndDrain)
      BY <2>1 DEF Answered
    <2>4. \A id \in EventId : id[1] \in Line
      BY DEF AgentAssumption
    <2>5. refused' \subseteq Line /\ exposed' \subseteq EventId
      BY <2>3, <2>4 DEF RowTypeOK, PostTypeOK, ServerTypeOK
    <2>6. LogTypeOK' /\ RowTypeOK' /\ PostTypeOK'
      BY <2>3, <2>5, PostFailedKeepsTypes, EndDrainKeepsTypes
    <2>7. QED
      BY <2>2, <2>6
  <1>6. CASE \E l \in Line : BackoffOver(l)
    <2>1. /\ UNCHANGED <<ivars, log_vars, queue, retries, post_vars, history_vars>>
          /\ waiting' \subseteq waiting
      BY <1>6 DEF BackoffOver
    <2>2. ServerTypeOK' /\ LogTypeOK' /\ RowTypeOK'
      BY <2>1 DEF ServerTypeOK, LogTypeOK, RowTypeOK, ivars, request_vars, log_vars, history_vars
    <2>3. Posted' = Posted
      BY <2>1 DEF Posted, post_vars
    <2>4. PostTypeOK'
      BY <2>1, <2>3 DEF PostTypeOK, Idle, post_vars, history_vars, ivars, request_vars
    <2>5. QED
      BY <2>2, <2>4
  <1>7. QED
    BY <1>1, <1>2, <1>3, <1>4, <1>5, <1>6

\* A handler that the agent waits for becomes idle only by Respond or Abort.
LEMMA HandlersStayBusy ==
    ASSUME ServerTypeOK, NEW w \in Worker
    PROVE  \A v \in Worker :
              /\ step[v] # "idle"
              /\ Serve(w) \/ EventFails(w) \/ (v # w /\ (Respond(w) \/ Abort(w)))
              => step'[v] # "idle"
  <1>1. Serve(w) \/ EventFails(w) => step' \in {[step EXCEPT ![w] = s] : s \in {"next", "publish", "mark"}}
    BY DEF Serve, Lookup, Publish, MarkSeen, EventFails, Continue
  <1>2. Respond(w) \/ Abort(w) => step' = [step EXCEPT ![w] = "idle"]
    BY DEF Respond, Abort, Close
  <1>3. QED
    BY <1>1, <1>2 DEF ServerTypeOK

\* The server's steps, as the agent sees them.
LEMMA ServerTypes ==
    ASSUME AgentAssumption, ATypeOK,
           \/ \E w \in Worker : Serves(w) \/ RespondsTooLate(w) \/ Rejects(w) \/ Dies(w)
           \/ \E id \in EventId : Forgets(id)
    PROVE  ATypeOK'
  <1> USE DEF ATypeOK
  <1>1. ASSUME UNCHANGED <<log_vars, row_vars, post_vars, queued, dropped, refused>>,
               exposed' \subseteq EventId,
               server # NoWorker => step'[server] # "idle"
        PROVE  LogTypeOK' /\ RowTypeOK' /\ PostTypeOK'
    <2>1. LogTypeOK' /\ RowTypeOK'
      BY <1>1 DEF LogTypeOK, RowTypeOK, log_vars, row_vars
    <2>2. Posted' = Posted
      BY <1>1 DEF Posted, post_vars
    <2>3. PostTypeOK'
      BY <1>1, <2>2 DEF PostTypeOK, Idle, row_vars, post_vars
    <2>4. QED
      BY <2>1, <2>3
  <1>2. \A v \in Worker : v # NoWorker
    BY DEF AgentAssumption
  <1>3. ASSUME NEW w \in Worker, Serves(w) \/ RespondsTooLate(w) \/ Rejects(w)
        PROVE  ATypeOK'
    <2>1. /\ UNCHANGED <<log_vars, row_vars, post_vars, queued, dropped, refused>>
          /\ exposed' \in {exposed, exposed \cup current[w]}
          /\ Serve(w) \/ EventFails(w) \/ (server # w /\ Respond(w))
      BY <1>3 DEF Serves, RespondsTooLate, Rejects, Unseen
    <2>2. ServerTypeOK'
      BY <2>1, ServerSteps
    <2>3. exposed' \subseteq EventId
      BY <2>1 DEF ServerTypeOK, PostTypeOK
    <2>4. server # NoWorker => step'[server] # "idle"
      BY <2>1, HandlersStayBusy DEF PostTypeOK, Idle
    <2>5. QED
      BY <1>1, <2>1, <2>2, <2>3, <2>4
  <1>4. ASSUME NEW w \in Worker, Dies(w)
        PROVE  ATypeOK'
    <2>1. /\ Abort(w)
          /\ exposed' \subseteq exposed \cup current[w]
          /\ UNCHANGED <<log_vars, queued, refused>>
          /\ \/ server = w /\ PostFailed
             \/ server # w /\ UNCHANGED <<row_vars, post_vars, dropped>>
      BY <1>4 DEF Dies
    <2>2. ServerTypeOK'
      BY <2>1, ServerSteps
    <2>3. exposed' \subseteq EventId
      BY <2>1 DEF ServerTypeOK, PostTypeOK
    <2>4. refused' \subseteq Line
      BY <2>1 DEF RowTypeOK
    <2>5. CASE PostFailed
      BY <2>1, <2>2, <2>3, <2>4, <2>5, PostFailedKeepsTypes
    <2>6. CASE server # w /\ UNCHANGED <<row_vars, post_vars, dropped>>
      <3>1. server # NoWorker => step'[server] # "idle"
        BY <2>1, <2>6, HandlersStayBusy DEF PostTypeOK, Idle
      <3>2. QED
        BY <1>1, <2>1, <2>2, <2>3, <2>6, <3>1
    <2>7. QED
      BY <2>1, <2>5, <2>6
  <1>5. ASSUME NEW id \in EventId, Forgets(id)
        PROVE  ATypeOK'
    <2>1. /\ UNCHANGED <<log_vars, row_vars, post_vars, queued, dropped, refused>>
          /\ exposed' = exposed \cup {id} /\ Forget(id)
      BY <1>5 DEF Forgets, Unseen
    <2>2. ServerTypeOK'
      <3>1. Forget(id)
        BY <2>1
      <3>2. QED
        BY <3>1 DEF Forget, ServerTypeOK, request_vars
    <2>3. exposed' \subseteq EventId
      BY <2>1 DEF PostTypeOK
    <2>4. server # NoWorker => step'[server] # "idle"
      BY <2>1 DEF PostTypeOK, Idle, Forget, request_vars, ServerTypeOK
    <2>5. QED
      BY <1>1, <2>1, <2>2, <2>3, <2>4
  <1>6. QED
    BY <1>3, <1>4, <1>5

LEMMA StutterTypes == ASSUME ATypeOK, UNCHANGED avars PROVE ATypeOK'
  <1>1. UNCHANGED <<ivars, log_vars, row_vars, post_vars, history_vars>>
    BY DEF avars
  <1>2. Posted' = Posted
    BY <1>1 DEF Posted, post_vars
  <1>3. QED
    BY <1>1, <1>2 DEF ATypeOK, ServerTypeOK, LogTypeOK, RowTypeOK, PostTypeOK, Idle,
       ivars, request_vars, log_vars, row_vars, post_vars, history_vars

\* Every variable of the agent and of the ingest endpoint keeps its type; in
\* particular no row of the queue is kept beyond MaxRetries failed drains, and
\* the rows of the drain in progress stay in the queue until it ends.
THEOREM AgentTypeCorrect == ASpec => []ATypeOK
  <1> USE AgentAssumption
  <1>1. AInit => ATypeOK
    BY InitTypeOK
  <1>2. ATypeOK /\ [ANext]_avars => ATypeOK'
    <2> SUFFICES ASSUME ATypeOK, [ANext]_avars PROVE ATypeOK'
      OBVIOUS
    <2>1. CASE UNCHANGED avars
      BY <2>1, StutterTypes
    <2>2. CASE WriteLine \/ MainLoop \/ CollectFails \/ EnqueueFails
      BY <2>2, MainLoopTypes DEF MainLoop
    <2>3. CASE \/ Drainer \/ AgentCrash \/ Timeout \/ \E l \in Line : BackoffOver(l)
      BY <2>3, DrainTypes, DrainerTypes DEF Drainer
    <2>4. CASE \/ \E w \in Worker : ApiWorker(w) \/ Rejects(w) \/ Dies(w)
               \/ \E id \in EventId : Forgets(id)
      BY <2>4, ServerTypes DEF ApiWorker
    <2>5. QED
      BY <2>1, <2>2, <2>3, <2>4 DEF ANext, Faults
  <1>3. QED
    BY <1>1, <1>2, PTL DEF ASpec

-----------------------------------------------------------------------------
\* The reader's part of the invariant: only the main loop and a crash move it.
LEMMA ReaderStep ==
    ASSUME AgentAssumption, ATypeOK, CheckpointIsQueued, ReaderInv, [ANext]_avars
    PROVE  CheckpointIsQueued' /\ ReaderInv'
  <1> SUFFICES ASSUME Rewinds
               PROVE  /\ 1..checkpoint' \subseteq queued'
                      /\ 1..position' \subseteq queued' \cup read'
                      /\ loop' # "enqueue" => read' = {}
    BY DEF CheckpointIsQueued, ReaderInv
  <1>1. /\ 1..checkpoint \subseteq queued
        /\ 1..position \subseteq queued \cup read
        /\ loop # "enqueue" => read = {}
    BY DEF CheckpointIsQueued, ReaderInv
  <1>2. written \in Nat /\ position \in 0..written /\ checkpoint \in Nat
    BY DEF ATypeOK, LogTypeOK, AgentAssumption
  <1>3. CASE UNCHANGED <<position, checkpoint, read, loop, queued>>
    BY <1>1, <1>3
  <1>4. CASE Collect
    <2>1. /\ loop = "collect" /\ read' = (position + 1)..written /\ position' = written
          /\ loop' = (IF read' = {} THEN "save" ELSE "enqueue")
          /\ UNCHANGED <<checkpoint, queued>>
      BY <1>4 DEF Collect, Collected, Unread, history_vars
    <2>2. 1..position \subseteq queued
      BY <1>1, <2>1
    <2>3. 1..written \subseteq 1..position \cup ((position + 1)..written)
      BY <1>2
    <2>4. QED
      BY <1>1, <2>1, <2>2, <2>3
  <1>5. CASE CollectFails
    <2>1. PICK some \in SUBSET Unread : Collected(some)
      BY <1>5 DEF CollectFails
    <2>2. /\ loop = "collect" /\ read' = some /\ position' = position
          /\ loop' = (IF some = {} THEN "save" ELSE "enqueue")
          /\ UNCHANGED <<checkpoint, queued>>
      BY <1>5, <2>1 DEF CollectFails, Collected, history_vars
    <2>3. QED
      BY <1>1, <2>2
  <1>6. CASE Enqueue
    <2>1. /\ queued' = queued \cup read /\ read' = {} /\ UNCHANGED <<position, checkpoint>>
      BY <1>6 DEF Enqueue, InsertRows
    <2>2. QED
      BY <1>1, <2>1
  <1>7. CASE EnqueueFails
    <2>1. /\ queued \subseteq queued' /\ read' = {} /\ position' = checkpoint
          /\ checkpoint' = checkpoint
      BY <1>7 DEF EnqueueFails, InsertRows
    <2>2. QED
      BY <1>1, <2>1
  <1>8. CASE SaveCheckpoint
    <2>1. /\ loop = "save" /\ checkpoint' \in {position, checkpoint}
          /\ UNCHANGED <<position, read, queued>>
      BY <1>8 DEF SaveCheckpoint, history_vars
    <2>2. QED
      BY <1>1, <2>1
  <1>9. CASE AgentCrash
    <2>1. /\ position' = checkpoint /\ checkpoint' = checkpoint /\ read' = {}
          /\ queued' = queued
      BY <1>9 DEF AgentCrash, history_vars
    <2>2. QED
      BY <1>1, <2>1
  <1>10. CASE WriteLine \/ Drainer \/ Timeout \/ \E l \in Line : BackoffOver(l)
    <2>1. UNCHANGED <<position, checkpoint, read, loop, queued>>
      BY <1>10 DEF WriteLine, Drainer, Drain, Post, Refused, Timeout, Answered, BackoffOver,
                   log_vars, history_vars
    <2>2. QED
      BY <1>3, <2>1
  <1>11. CASE \/ \E w \in Worker : ApiWorker(w) \/ Rejects(w) \/ Dies(w)
              \/ \E id \in EventId : Forgets(id)
    <2>1. UNCHANGED <<position, checkpoint, read, loop, queued>>
      BY <1>11 DEF ApiWorker, Serves, RespondsTooLate, Rejects, Dies, Forgets, Unseen, log_vars
    <2>2. QED
      BY <1>3, <2>1
  <1>12. CASE UNCHANGED avars
    BY <1>3, <1>12 DEF avars, log_vars, history_vars
  <1>13. QED
    BY <1>4, <1>5, <1>6, <1>7, <1>8, <1>9, <1>10, <1>11, <1>12
       DEF ANext, MainLoop, Faults

\* Where a restart rewinds the reader, the checkpoint on disk never passes a line
\* that is not in the queue: neither a crash nor a failed insert skips a line.
THEOREM AgentSkipsNoLine == ASpec => []CheckpointIsQueued
  <1> USE AgentAssumption
  <1>1. AInit => CheckpointIsQueued /\ ReaderInv
    BY DEF AInit, CheckpointIsQueued, ReaderInv
  <1>2. ATypeOK /\ CheckpointIsQueued /\ ReaderInv /\ [ANext]_avars
        => CheckpointIsQueued' /\ ReaderInv'
    BY ReaderStep
  <1>3. QED
    BY <1>1, <1>2, AgentTypeCorrect, PTL DEF ASpec

-----------------------------------------------------------------------------
\* What a handler does to the events of its request.
HandlerMoves(w) == Serve(w) \/ Respond(w) \/ Abort(w) \/ EventFails(w)

\* No entry of raw_events is taken back by a handler, and the handler's part of
\* the invariant holds on.
LEMMA HandlerStep ==
    ASSUME ServerTypeOK, HandlerInv, NEW w \in Worker, HandlerMoves(w)
    PROVE  HandlerInv' /\ \A id \in EventId : stream'[id] >= stream[id]
  <1> USE DEF ServerTypeOK, HandlerInv
  <1>1. CASE Lookup(w)
    BY <1>1 DEF Lookup, Continue
  <1>2. CASE Publish(w)
    BY <1>2 DEF Publish, XAdd
  <1>3. CASE MarkSeen(w)
    BY <1>3 DEF MarkSeen, Continue
  <1>4. CASE Respond(w) \/ Abort(w)
    BY <1>4 DEF Respond, Abort, Close
  <1>5. CASE EventFails(w)
    BY <1>5 DEF EventFails, XAdd, Continue
  <1>6. QED
    BY <1>1, <1>2, <1>3, <1>4, <1>5 DEF HandlerMoves, Serve

\* An event leaves a request before its end only into raw_events or as rejected.
LEMMA EventsAreHandled ==
    ASSUME ServerTypeOK, HandlerInv, NEW w \in Worker, Serve(w) \/ EventFails(w)
    PROVE  \A v \in Worker, id \in EventId :
              id \in Unfinished(v) \cup rejected[v] \/ stream[id] > 0
              => id \in (Unfinished(v) \cup rejected[v])' \/ stream'[id] > 0
  <1> USE DEF ServerTypeOK, HandlerInv, Unfinished
  <1>1. CASE Lookup(w)
    BY <1>1 DEF Lookup, Continue
  <1>2. CASE Publish(w)
    BY <1>2 DEF Publish, XAdd
  <1>3. CASE MarkSeen(w)
    BY <1>3 DEF MarkSeen, Continue
  <1>4. CASE EventFails(w)
    BY <1>4 DEF EventFails, XAdd, Continue
  <1>5. QED
    BY <1>1, <1>2, <1>3, <1>4 DEF Serve

\* Lines stay accounted for as long as rows leave the queue for `dropped` only.
LEMMA AccountedStays ==
    ASSUME QueuedIsAccounted,
           \A id \in EventId : stream[id] > 0 => stream'[id] > 0,
           queued' \subseteq queued \cup queue',
           queue \subseteq queue' \cup dropped',
           dropped \subseteq dropped', refused \subseteq refused'
    PROVE  QueuedIsAccounted'
  BY DEF QueuedIsAccounted, Ingested

\* Only lines of the drain leave the queue when a post failed.
LEMMA PostFailedAccounts ==
    ASSUME AgentAssumption, RowTypeOK, PostTypeOK, PostFailed \/ (Nack(Posted) /\ EndDrain)
    PROVE  /\ queue \subseteq queue' \cup dropped'
           /\ dropped \subseteq dropped'
           /\ server' = NoWorker
  BY DEF PostFailed, Nack, EndDrain, row_vars

AgentInv == HandlerInv /\ AnswerInv /\ QueuedIsAccounted

\* The 200 answer: the handler is done with every event, so each line whose row
\* is acknowledged is in raw_events or was rejected.
LEMMA AnsweredStep ==
    ASSUME AgentAssumption, ATypeOK, AgentInv, NEW w \in Worker, Answered(w)
    PROVE  AgentInv'
  <1> USE DEF ATypeOK, AgentInv
  <1>1. /\ server = w /\ Respond(w) /\ queued' = queued
        /\ refused' = refused \cup {id[1] : id \in rejected[w]}
        /\ \/ Ack(Posted) /\ EndDrain
           \/ PostFailed
    BY DEF Answered
  <1>2. HandlerInv'
    BY <1>1, HandlerStep DEF HandlerMoves
  <1>3. stream' = stream
    BY <1>1 DEF Respond
  <1>4. \A id \in posting : id \in rejected[w] \/ stream[id] > 0
    <2>1. todo[w] = {} /\ current[w] = {} /\ server # NoWorker
      BY <1>1 DEF Respond, Finished, HandlerInv, AgentAssumption
    <2>2. QED
      BY <1>1, <2>1 DEF AnswerInv, Unfinished
  <1>5. server' = NoWorker
    BY <1>1, PostFailedAccounts DEF EndDrain
  <1>6. QueuedIsAccounted'
    <2>1. CASE PostFailed
      BY <1>1, <1>3, <2>1, PostFailedAccounts, AccountedStays
    <2>2. CASE Ack(Posted)
      <3>1. queue' = queue \ Posted /\ dropped' = dropped
        BY <2>2 DEF Ack
      <3>2. \A l \in Posted : l \in refused' \/ Ingested(l)'
        BY <1>1, <1>3, <1>4 DEF Posted, Ingested, PostTypeOK
      <3>3. QED
        BY <1>1, <1>3, <3>1, <3>2 DEF QueuedIsAccounted, Ingested
    <2>3. QED
      BY <1>1, <2>1, <2>2
  <1>7. QED
    BY <1>2, <1>5, <1>6 DEF AnswerInv

\* A step in which the server's part stands still.
LEMMA StillServer ==
    ASSUME HandlerInv, UNCHANGED <<seen, stream, todo, step, current, rejected>>
    PROVE  /\ HandlerInv'
           /\ \A id \in EventId : stream[id] > 0 => stream'[id] > 0
           /\ AnswerInv /\ server' = server /\ posting' = posting => AnswerInv'
  BY DEF HandlerInv, AnswerInv, Unfinished

LEMMA AgentStep ==
    ASSUME AgentAssumption, ATypeOK, AgentInv, [ANext]_avars
    PROVE  AgentInv'
  <1> USE DEF ATypeOK, AgentInv
  <1>1. CASE WriteLine \/ Collect \/ CollectFails \/ Enqueue \/ EnqueueFails \/ SaveCheckpoint
             \/ \E l \in Line : BackoffOver(l)
    <2>1. /\ UNCHANGED <<seen, stream, todo, step, current, rejected, server, posting>>
          /\ queued' \subseteq queued \cup queue' /\ queue \subseteq queue'
          /\ dropped' = dropped /\ refused' = refused
      BY <1>1 DEF WriteLine, Collect, CollectFails, Collected, Enqueue, EnqueueFails, InsertRows,
                  SaveCheckpoint, BackoffOver, ivars, request_vars, row_vars, post_vars, history_vars
    <2>2. QED
      BY <2>1, StillServer, AccountedStays
  <1>2. CASE AgentCrash
    <2>1. /\ UNCHANGED <<seen, stream, todo, step, current, rejected, queue, queued, dropped, refused>>
          /\ server' = NoWorker
      BY <1>2 DEF AgentCrash, request_vars, row_vars, history_vars
    <2>2. HandlerInv' /\ QueuedIsAccounted'
      BY <2>1, StillServer, AccountedStays
    <2>3. QED
      BY <2>1, <2>2 DEF AnswerInv
  <1>3. CASE Drain
    <2>1. /\ UNCHANGED <<seen, stream, todo, step, current, rejected, queue, queued, dropped, refused>>
          /\ server' = server /\ posting = {}
      BY <1>3 DEF Drain, ivars, request_vars, row_vars, history_vars
    <2>2. HandlerInv' /\ QueuedIsAccounted'
      BY <2>1, StillServer, AccountedStays
    <2>3. server' = NoWorker
      BY <2>1 DEF PostTypeOK
    <2>4. QED
      BY <2>2, <2>3 DEF AnswerInv
  <1>4. CASE Post
    <2>1. PICK w \in Worker : Receive(w, posting) /\ server' = w
      BY <1>4 DEF Post
    <2>2. UNCHANGED <<seen, stream, current, posting, queue, queued, dropped, refused>>
      BY <1>4, <2>1 DEF Post, Receive, row_vars, history_vars
    <2>3. HandlerInv'
      BY <2>1, <2>2 DEF Receive, Idle, HandlerInv, ServerTypeOK
    <2>4. todo'[w] = posting
      BY <2>1 DEF Receive, ServerTypeOK
    <2>5. AnswerInv'
      BY <2>1, <2>2, <2>4 DEF AnswerInv, Unfinished
    <2>6. QueuedIsAccounted'
      BY <2>2, AccountedStays
    <2>7. QED
      BY <2>3, <2>5, <2>6
  <1>5. CASE Refused \/ Timeout
    <2>1. /\ UNCHANGED <<seen, stream, todo, step, current, rejected, queued, refused>>
          /\ PostFailed \/ (Nack(Posted) /\ EndDrain)
      BY <1>5 DEF Refused, Timeout, ivars, request_vars
    <2>2. HandlerInv' /\ QueuedIsAccounted'
      BY <2>1, StillServer, PostFailedAccounts, AccountedStays
    <2>3. server' = NoWorker
      BY <2>1, PostFailedAccounts
    <2>4. QED
      BY <2>2, <2>3 DEF AnswerInv
  <1>6. CASE \E w \in Worker : Answered(w)
    BY <1>6, AnsweredStep
  <1>7. ASSUME NEW w \in Worker, Serves(w) \/ Rejects(w)
        PROVE  AgentInv'
    <2>1. /\ Serve(w) \/ EventFails(w)
          /\ UNCHANGED <<queue, queued, dropped, refused, posting, server>>
      BY <1>7 DEF Serves, Rejects, Unseen, row_vars, post_vars
    <2>2. HandlerInv' /\ \A id \in EventId : stream'[id] >= stream[id]
      BY <2>1, HandlerStep DEF HandlerMoves
    <2>3. ServerTypeOK'
      BY <2>1, ServerSteps
    <2>4. \A id \in EventId : stream[id] > 0 => stream'[id] > 0
      BY <2>2, <2>3 DEF ServerTypeOK
    <2>5. QueuedIsAccounted'
      BY <2>1, <2>4, AccountedStays
    <2>6. AnswerInv'
      BY <2>1, EventsAreHandled DEF AnswerInv, PostTypeOK, Unfinished
    <2>7. QED
      BY <2>2, <2>5, <2>6
  <1>8. ASSUME NEW w \in Worker, RespondsTooLate(w) \/ Dies(w)
        PROVE  AgentInv'
    <2>1. /\ Respond(w) \/ Abort(w)
          /\ UNCHANGED <<queued, refused>>
          /\ \/ server # w /\ UNCHANGED <<queue, dropped, posting, server>>
             \/ PostFailed
      BY <1>8 DEF RespondsTooLate, Dies, Unseen, row_vars, post_vars
    <2>2. HandlerInv'
      BY <2>1, HandlerStep DEF HandlerMoves
    <2>3. stream' = stream
      BY <2>1 DEF Respond, Abort
    <2>4. CASE PostFailed
      BY <2>1, <2>2, <2>3, <2>4, PostFailedAccounts, AccountedStays DEF AnswerInv
    <2>5. CASE server # w /\ UNCHANGED <<queue, dropped, posting, server>>
      <3>1. QueuedIsAccounted'
        BY <2>1, <2>3, <2>5, AccountedStays
      <3>2. \A v \in Worker : v # w => /\ todo'[v] = todo[v]
                                       /\ current'[v] = current[v]
                                       /\ rejected'[v] = rejected[v]
        BY <2>1 DEF Respond, Abort, Close, ServerTypeOK
      <3>3. AnswerInv'
        BY <2>3, <2>5, <3>2 DEF AnswerInv, Unfinished, PostTypeOK
      <3>4. QED
        BY <2>2, <3>1, <3>3
    <2>6. QED
      BY <2>1, <2>4, <2>5
  <1>9. ASSUME NEW id \in EventId, Forgets(id)
        PROVE  AgentInv'
    <2>1. /\ seen' \subseteq seen
          /\ UNCHANGED <<stream, todo, step, current, rejected>>
          /\ UNCHANGED <<queue, queued, dropped, refused, posting, server>>
      BY <1>9 DEF Forgets, Forget, Unseen, request_vars, row_vars, post_vars
    <2>2. HandlerInv' /\ AnswerInv'
      BY <2>1 DEF HandlerInv, AnswerInv, Unfinished
    <2>3. QED
      BY <2>1, <2>2, AccountedStays
  <1>10. CASE UNCHANGED avars
    <2>1. UNCHANGED <<ivars, log_vars, row_vars, post_vars, history_vars>>
      BY <1>10 DEF avars
    <2>2. UNCHANGED <<seen, stream, todo, step, current, rejected>>
          /\ UNCHANGED <<queue, queued, dropped, refused, posting, server>>
      BY <2>1 DEF ivars, request_vars, row_vars, post_vars, history_vars
    <2>3. QED
      BY <2>2, StillServer, AccountedStays
  <1>11. QED
    BY <1>1, <1>2, <1>3, <1>4, <1>5, <1>6, <1>7, <1>8, <1>9, <1>10
       DEF ANext, MainLoop, Drainer, Faults, ApiWorker

\* No line that entered the agent's queue disappears: its row is there, or failed
\* MaxRetries drains, or its event is in raw_events or was counted as rejected.
THEOREM AgentAccountsForEveryLine == ASpec => []QueuedIsAccounted
  <1> USE AgentAssumption
  <1>1. AInit => AgentInv
    BY DEF AInit, IInit, AgentInv, HandlerInv, AnswerInv, QueuedIsAccounted
  <1>2. ATypeOK /\ AgentInv /\ [ANext]_avars => AgentInv'
    BY AgentStep
  <1>3. AgentInv => QueuedIsAccounted
    BY DEF AgentInv
  <1>4. QED
    BY <1>1, <1>2, <1>3, AgentTypeCorrect, PTL DEF ASpec

-----------------------------------------------------------------------------
\* Each handler works on an event it has taken from its own request.
LEMMA RequestStep ==
    ASSUME ServerTypeOK, HandlerInv, RequestInv, NEW w \in Worker
    PROVE  /\ HandlerMoves(w) => RequestInv'
           /\ \A ids \in SUBSET EventId : Receive(w, ids) => RequestInv'
  <1> USE DEF ServerTypeOK, HandlerInv, RequestInv, Idle
  <1>1. CASE Lookup(w)
    BY <1>1 DEF Lookup, Continue
  <1>2. CASE Publish(w) \/ MarkSeen(w) \/ EventFails(w)
    BY <1>2 DEF Publish, MarkSeen, EventFails, Continue
  <1>3. CASE Respond(w) \/ Abort(w)
    BY <1>3 DEF Respond, Abort, Close
  <1>4. \A ids \in SUBSET EventId : Receive(w, ids) => RequestInv'
    BY DEF Receive
  <1>5. QED
    BY <1>1, <1>2, <1>3, <1>4 DEF HandlerMoves, Serve

\* A handler never comes by an event but through its request.
LEMMA HandlersDropEvents ==
    ASSUME ServerTypeOK, NEW w \in Worker, HandlerMoves(w)
    PROVE  \A v \in Worker : Unfinished(v)' \subseteq Unfinished(v)
  <1> USE DEF ServerTypeOK, Unfinished
  <1>1. CASE Lookup(w)
    BY <1>1 DEF Lookup, Continue
  <1>2. CASE Publish(w) \/ MarkSeen(w) \/ EventFails(w)
    BY <1>2 DEF Publish, MarkSeen, EventFails, Continue
  <1>3. CASE Respond(w) \/ Abort(w)
    BY <1>3 DEF Respond, Abort, Close
  <1>4. QED
    BY <1>1, <1>2, <1>3 DEF HandlerMoves, Serve

\* The exactly-once argument for one id that a step of its handlers does not
\* expose.
LEMMA OnceServed ==
    ASSUME ServerTypeOK, HandlerInv, RequestInv, NEW w \in Worker, NEW id \in EventId, Once(id),
           \/ Serve(w)
           \/ EventFails(w) /\ id \notin current[w]
           \/ Respond(w)
           \/ Abort(w) /\ (step[w] = "mark" => id \notin current[w]),
           posting' \subseteq posting, server' = server \/ posting' = {} \/ (Unfinished(w)' = {} /\ server = w)
    PROVE  Once(id)'
  <1> DEFINE Publication ==
                /\ stream[id] <= 1
                /\ stream[id] = 1 => id \in seen \/ \E v \in Worker : step[v] = "mark" /\ id \in current[v]
                /\ \A v \in Worker : step[v] = "publish" /\ id \in current[v] => stream[id] = 0
  <1>1. HandlerMoves(w) /\ \A v \in Worker : Unfinished(v)' \subseteq Unfinished(v)
    BY HandlersDropEvents DEF HandlerMoves
  <1>2. \A u, v \in Worker : id \in (Unfinished(u) \cap Unfinished(v))' => u = v
    BY <1>1 DEF Once
  <1>3. id \in posting' => \A v \in Worker : id \in Unfinished(v)' => v = server'
    BY <1>1 DEF Once
  <1>4. \A u, v \in Worker : id \in current[u] /\ id \in todo[v] => u = v
    BY DEF Once, Unfinished
  <1>5. Publication
    BY DEF Once
  <1>6. Publication'
    <2> USE DEF ServerTypeOK, HandlerInv
    <2>1. CASE Lookup(w)
      <3>1. step[w] = "next" /\ current[w] = {} /\ stream' = stream /\ seen' = seen
        BY <2>1 DEF Lookup
      <3>2. PICK e \in todo[w] :
               \/ /\ e \in seen
                  /\ step' = [step EXCEPT ![w] = "next"]
                  /\ current' = [current EXCEPT ![w] = {}]
               \/ /\ e \notin seen
                  /\ step' = [step EXCEPT ![w] = "publish"]
                  /\ current' = [current EXCEPT ![w] = {e}]
        BY <2>1 DEF Lookup, Continue
      <3>3. \A v \in Worker : v # w => step'[v] = step[v] /\ current'[v] = current[v]
        BY <3>2
      <3>4. stream[id] = 1 => id \in seen \/ \E v \in Worker : step'[v] = "mark" /\ id \in current'[v]
        BY <1>5, <3>1, <3>3
      <3>5. ASSUME step'[w] = "publish", id \in current'[w] PROVE stream[id] = 0
        <4>1. id \in todo[w] /\ id \notin seen
          BY <3>2, <3>5
        <4>2. \A v \in Worker : ~(step[v] = "mark" /\ id \in current[v])
          BY <1>4, <3>1, <4>1
        <4>3. QED
          BY <1>5, <4>1, <4>2
      <3>6. QED
        BY <1>5, <3>1, <3>3, <3>4, <3>5
    <2>2. CASE Publish(w)
      <3>1. /\ step[w] = "publish" /\ current' = current /\ seen' = seen
            /\ step' = [step EXCEPT ![w] = "mark"]
            /\ stream'[id] = stream[id] + (IF id \in current[w] THEN 1 ELSE 0)
        BY <2>2 DEF Publish, XAdd
      <3>2. \A v \in Worker : v # w => step'[v] = step[v]
        BY <3>1
      <3>3. CASE id \in current[w]
        <4>1. stream'[id] = 1 /\ step'[w] = "mark"
          BY <1>5, <3>1, <3>3
        <4>2. \A v \in Worker : id \in current[v] => v = w
          BY <3>3 DEF Once, Unfinished
        <4>3. QED
          BY <3>1, <3>3, <4>1, <4>2
      <3>4. CASE id \notin current[w]
        BY <1>5, <3>1, <3>2, <3>4
      <3>5. QED
        BY <3>3, <3>4
    <2>3. CASE MarkSeen(w)
      <3>1. /\ step[w] = "mark" /\ stream' = stream /\ seen' = seen \cup current[w]
            /\ step' = [step EXCEPT ![w] = "next"]
            /\ current' = [current EXCEPT ![w] = {}]
        BY <2>3 DEF MarkSeen, Continue
      <3>2. QED
        BY <1>5, <3>1
    <2>4. CASE EventFails(w) /\ id \notin current[w]
      <3>1. /\ step' = [step EXCEPT ![w] = "next"]
            /\ current' = [current EXCEPT ![w] = {}]
            /\ stream'[id] = stream[id] /\ seen \subseteq seen'
        BY <2>4 DEF EventFails, Continue, XAdd
      <3>2. QED
        BY <1>5, <2>4, <3>1
    <2>5. CASE Respond(w) \/ (Abort(w) /\ (step[w] = "mark" => id \notin current[w]))
      <3>1. /\ step' = [step EXCEPT ![w] = "idle"]
            /\ current' = [current EXCEPT ![w] = {}]
            /\ stream' = stream /\ seen' = seen
            /\ step[w] = "mark" => id \notin current[w]
        BY <2>5 DEF Respond, Finished, Abort, Close
      <3>2. QED
        BY <1>5, <3>1
    <2>6. QED
      BY <2>1, <2>2, <2>3, <2>4, <2>5 DEF Serve
  <1>7. QED
    BY <1>2, <1>3, <1>6 DEF Once

\* Ids stay the last ones drawn while no new ones are.
LEMMA DrawnStays ==
    ASSUME DrawnInv, draws' = draws, posting' \subseteq posting,
           \A v \in Worker : Unfinished(v)' \subseteq Unfinished(v)
    PROVE  DrawnInv'
  BY DEF DrawnInv

\* Steps in which the server stands still and the agent posts nothing new.
LEMMA StillOnce ==
    ASSUME RequestInv, DrawnInv, OnceInv,
           UNCHANGED <<seen, stream, todo, step, current, draws>>,
           posting' \subseteq posting, exposed \subseteq exposed',
           \/ server' = server
           \/ posting' = {}
           \/ server \in Worker /\ Unfinished(server) \subseteq exposed'
    PROVE  RequestInv' /\ DrawnInv' /\ OnceInv'
  <1>1. \A v \in Worker : Unfinished(v)' = Unfinished(v)
    BY DEF Unfinished
  <1>2. RequestInv'
    BY DEF RequestInv, Idle
  <1>3. DrawnInv'
    BY <1>1, DrawnStays
  <1>4. ASSUME NEW id \in EventId \ exposed' PROVE Once(id)'
    <2>1. Once(id)
      BY <1>4 DEF OnceInv
    <2>2. id \in posting' => \A v \in Worker : id \in Unfinished(v)' => v = server'
      BY <1>1, <1>4, <2>1 DEF Once
    <2>3. QED
      BY <1>1, <2>1, <2>2 DEF Once
  <1>5. QED
    BY <1>2, <1>3, <1>4 DEF OnceInv

OncePublished == RequestInv /\ DrawnInv /\ OnceInv

\* The ids of a new drain are before no handler yet.
LEMMA DrainOnce ==
    ASSUME AgentAssumption, ATypeOK, OncePublished, Drain
    PROVE  OncePublished'
  <1> USE DEF ATypeOK, OncePublished
  <1>1. PICK rows \in FetchBatch :
          /\ draws' = [l \in Line |-> draws[l] + (IF l \in rows THEN 1 ELSE 0)]
          /\ posting' = {<<l, draws'[l]>> : l \in rows}
    BY DEF Drain
  <1>2. UNCHANGED <<seen, stream, todo, step, current, exposed, server>>
    BY DEF Drain, ivars, request_vars, history_vars
  <1>3. rows \subseteq Line
    <2>1. rows \subseteq queue \ waiting
      BY DEF FetchBatch
    <2>2. 1..written \subseteq Line
      BY DEF LogTypeOK, Line, AgentAssumption
    <2>3. QED
      BY <2>1, <2>2 DEF RowTypeOK
  <1>4. /\ draws \in [Line -> Nat]
        /\ \A l \in Line : draws'[l] >= draws[l] /\ (l \in rows => draws'[l] = draws[l] + 1)
    BY <1>1 DEF PostTypeOK, AgentAssumption
  <1>5. \A v \in Worker : Unfinished(v)' = Unfinished(v) /\ Unfinished(v) \subseteq EventId
    BY <1>2 DEF Unfinished, ServerTypeOK
  <1>6. \A id \in EventId : id[1] \in Line /\ id[2] \in Nat
    BY DEF AgentAssumption
  <1>7. \A id \in posting' : id[1] \in rows /\ id[2] = draws'[id[1]]
    BY <1>1
  <1>8. DrawnInv'
    <2>1. ASSUME NEW v \in Worker, NEW id \in Unfinished(v) PROVE id[2] <= draws'[id[1]]
      <3>1. id[2] <= draws[id[1]] /\ id[1] \in Line /\ id[2] \in Nat
        BY <1>5, <1>6, <2>1 DEF DrawnInv
      <3>2. draws[id[1]] \in Nat /\ draws'[id[1]] >= draws[id[1]] /\ draws'[id[1]] \in Nat
        BY <1>1, <1>4, <3>1
      <3>3. QED
        BY <3>1, <3>2
    <2>2. QED
      BY <1>5, <1>7, <2>1 DEF DrawnInv
  <1>9. ASSUME NEW id \in posting', NEW v \in Worker, id \in Unfinished(v) PROVE FALSE
    <2>1. id[2] <= draws[id[1]] /\ id[1] \in Line /\ draws[id[1]] \in Nat
      BY <1>4, <1>5, <1>6, <1>9 DEF DrawnInv
    <2>2. id[2] = draws[id[1]] + 1
      BY <1>3, <1>4, <1>7, <1>9
    <2>3. QED
      BY <2>1, <2>2
  <1>10. ASSUME NEW id \in EventId \ exposed' PROVE Once(id)'
    <2>1. Once(id)
      BY <1>2, <1>10 DEF OnceInv
    <2>2. id \in posting' => \A v \in Worker : id \in Unfinished(v)' => v = server'
      BY <1>5, <1>9
    <2>3. QED
      BY <1>2, <1>5, <2>1, <2>2 DEF Once
  <1>11. RequestInv'
    BY <1>2 DEF RequestInv, Idle
  <1>12. QED
    BY <1>8, <1>10, <1>11 DEF OnceInv

\* A post hands the ids to a handler when no other has them, unless exposed.
LEMMA PostOnce ==
    ASSUME AgentAssumption, ATypeOK, HandlerInv, OncePublished, Post
    PROVE  OncePublished'
  <1> USE DEF ATypeOK, OncePublished
  <1>1. PICK w \in Worker : Receive(w, posting) /\ server' = w
    BY DEF Post
  <1>2. /\ UNCHANGED <<seen, stream, current, draws, posting, exposed>>
        /\ server = NoWorker /\ Idle(w)
    BY <1>1 DEF Post, Receive, history_vars
  <1>3. /\ todo' = [todo EXCEPT ![w] = posting]
        /\ step' = [step EXCEPT ![w] = "next"]
    BY <1>1 DEF Receive
  <1>4. Unfinished(w) = {} /\ current[w] = {}
    BY <1>2 DEF RequestInv, HandlerInv, Idle, Unfinished
  <1>5. /\ Unfinished(w)' = posting
        /\ \A v \in Worker : v # w => Unfinished(v)' = Unfinished(v)
    BY <1>2, <1>3, <1>4 DEF ServerTypeOK, Unfinished
  <1>6. RequestInv'
    BY <1>1, RequestStep DEF PostTypeOK
  <1>7. DrawnInv'
    <2>1. \A id \in posting : id[2] = draws[id[1]] /\ id[2] \in Nat
      BY DEF DrawnInv, PostTypeOK, AgentAssumption
    <2>2. QED
      BY <1>2, <1>5, <2>1 DEF DrawnInv
  <1>8. ASSUME NEW id \in EventId \ exposed' PROVE Once(id)'
    <2>1. Once(id)
      BY <1>2, <1>8 DEF OnceInv
    <2>2. id \in posting => \A v \in Worker : id \notin Unfinished(v)
      BY <1>2, <2>1 DEF Once, AgentAssumption
    <2>3. \A u, v \in Worker : id \in Unfinished(u)' \cap Unfinished(v)' => u = v
      BY <1>5, <2>1, <2>2 DEF Once
    <2>4. id \in posting' => \A v \in Worker : id \in Unfinished(v)' => v = server'
      BY <1>1, <1>2, <1>5, <2>2
    <2>5. /\ stream'[id] <= 1
          /\ stream'[id] = 1 => id \in seen' \/ \E v \in Worker : step'[v] = "mark" /\ id \in current'[v]
          /\ \A v \in Worker : step'[v] = "publish" /\ id \in current'[v] => stream'[id] = 0
      BY <1>2, <1>3, <1>4, <2>1 DEF Once, ServerTypeOK, Idle
    <2>6. QED
      BY <2>3, <2>4, <2>5 DEF Once
  <1>9. QED
    BY <1>6, <1>7, <1>8 DEF OnceInv

\* The handlers' steps: what they leave half done is exposed.
LEMMA HandlerOnce ==
    ASSUME AgentAssumption, ATypeOK, HandlerInv, OncePublished,
           \E w \in Worker : \/ Serves(w) \/ RespondsTooLate(w) \/ Rejects(w) \/ Dies(w)
                             \/ Answered(w)
    PROVE  OncePublished'
  <1> USE DEF ATypeOK, OncePublished
  <1>1. PICK w \in Worker : Serves(w) \/ RespondsTooLate(w) \/ Rejects(w) \/ Dies(w) \/ Answered(w)
    OBVIOUS
  <1>2. /\ draws' = draws /\ posting' \subseteq posting
        /\ server' = server \/ posting' = {} \/ (Unfinished(w)' = {} /\ server = w)
        /\ exposed \subseteq exposed'
        /\ \/ Serve(w)
           \/ EventFails(w) /\ current[w] \subseteq exposed'
           \/ Respond(w)
           \/ Abort(w) /\ (step[w] = "mark" => current[w] \subseteq exposed')
    <2>1. CASE Serves(w) \/ RespondsTooLate(w)
      BY <2>1 DEF Serves, RespondsTooLate, Unseen, post_vars
    <2>2. CASE Rejects(w)
      BY <2>2 DEF Rejects, Unseen, post_vars
    <2>3. CASE Dies(w)
      <3>1. /\ Abort(w)
            /\ exposed' = exposed \cup (IF step[w] = "mark" THEN current[w] ELSE {})
            /\ \/ server = w /\ PostFailed
               \/ UNCHANGED <<draws, posting, server>>
        BY <2>3 DEF Dies, post_vars
      <3>2. Unfinished(w)' = {}
        BY <3>1 DEF Abort, Close, Unfinished, ServerTypeOK
      <3>3. QED
        BY <3>1, <3>2, PostFailedTypes
    <2>4. CASE Answered(w)
      <3>1. /\ Respond(w) /\ server = w /\ exposed' = exposed
            /\ PostFailed \/ EndDrain
        BY <2>4 DEF Answered
      <3>2. Unfinished(w)' = {}
        BY <3>1 DEF Respond, Close, Unfinished, ServerTypeOK
      <3>3. draws' = draws /\ posting' \subseteq posting
        BY <3>1, PostFailedTypes DEF EndDrain
      <3>4. QED
        BY <3>1, <3>2, <3>3
    <2>5. QED
      BY <1>1, <2>1, <2>2, <2>3, <2>4
  <1>3. HandlerMoves(w)
    BY <1>2 DEF HandlerMoves
  <1>4. RequestInv'
    BY <1>3, RequestStep
  <1>5. DrawnInv'
    BY <1>2, <1>3, HandlersDropEvents, DrawnStays
  <1>6. ASSUME NEW id \in EventId \ exposed' PROVE Once(id)'
    <2>1. Once(id) /\ id \in EventId
      BY <1>2, <1>6 DEF OnceInv
    <2>2. \/ Serve(w)
          \/ EventFails(w) /\ id \notin current[w]
          \/ Respond(w)
          \/ Abort(w) /\ (step[w] = "mark" => id \notin current[w])
      BY <1>2, <1>6
    <2>3. posting' \subseteq posting /\ (server' = server \/ posting' = {} \/ (Unfinished(w)' = {} /\ server = w))
      BY <1>2
    <2>4. ServerTypeOK /\ HandlerInv /\ RequestInv
      OBVIOUS
    <2>5. QED
      BY ONLY <2>1, <2>2, <2>3, <2>4, OnceServed, w \in Worker
  <1>7. QED
    BY <1>4, <1>5, <1>6 DEF OnceInv

LEMMA OnceStep ==
    ASSUME AgentAssumption, ATypeOK, HandlerInv, OncePublished, [ANext]_avars
    PROVE  OncePublished'
  <1> USE DEF ATypeOK, OncePublished
  <1>1. CASE WriteLine \/ Collect \/ CollectFails \/ Enqueue \/ EnqueueFails \/ SaveCheckpoint
             \/ \E l \in Line : BackoffOver(l)
    <2>1. UNCHANGED <<seen, stream, todo, step, current, draws, posting, server, exposed>>
      BY <1>1 DEF WriteLine, Collect, CollectFails, Collected, Enqueue, EnqueueFails, InsertRows,
                  SaveCheckpoint, BackoffOver, ivars, request_vars, post_vars, history_vars
    <2>2. QED
      BY <2>1, StillOnce
  <1>2. CASE AgentCrash
    <2>1. /\ UNCHANGED <<seen, stream, todo, step, current, draws, exposed>>
          /\ posting' = {}
      BY <1>2 DEF AgentCrash, request_vars, history_vars
    <2>2. QED
      BY <2>1, StillOnce
  <1>3. CASE Refused
    <2>1. /\ UNCHANGED <<seen, stream, todo, step, current, exposed>>
          /\ server = NoWorker
          /\ PostFailed \/ EndDrain
      BY <1>3 DEF Refused, ivars, request_vars
    <2>2. draws' = draws /\ posting' \subseteq posting /\ (server' = server \/ posting' = {})
      BY <2>1, PostFailedTypes DEF EndDrain
    <2>3. QED
      BY <2>1, <2>2, StillOnce
  <1>4. CASE Timeout
    <2>1. /\ UNCHANGED <<seen, stream, todo, step, current>>
          /\ server \in Worker /\ PostFailed
          /\ exposed' = exposed \cup Unfinished(server)
      BY <1>4 DEF Timeout, request_vars, PostTypeOK
    <2>2. draws' = draws /\ posting' \subseteq posting
      BY <2>1, PostFailedTypes
    <2>3. QED
      BY <2>1, <2>2, StillOnce
  <1>5. CASE Drain
    BY <1>5, DrainOnce
  <1>6. CASE Post
    BY <1>6, PostOnce
  <1>7. CASE \E w \in Worker : Serves(w) \/ RespondsTooLate(w) \/ Rejects(w) \/ Dies(w) \/ Answered(w)
    BY <1>7, HandlerOnce
  <1>8. ASSUME NEW gone \in EventId, Forgets(gone)
        PROVE  OncePublished'
    <2>1. /\ seen' = seen \ {gone}
          /\ UNCHANGED <<stream, todo, step, current, draws, posting, server>>
          /\ exposed' = exposed \cup {gone}
      BY <1>8 DEF Forgets, Forget, Unseen, request_vars, post_vars
    <2>2. RequestInv' /\ DrawnInv'
      BY <2>1 DEF RequestInv, DrawnInv, Idle, Unfinished
    <2>3. ASSUME NEW id \in EventId \ exposed' PROVE Once(id)'
      <3>1. Once(id) /\ id # gone
        BY <2>1, <2>3 DEF OnceInv
      <3>2. QED
        BY <2>1, <3>1 DEF Once, Unfinished
    <2>4. QED
      BY <2>2, <2>3 DEF OnceInv
  <1>9. CASE UNCHANGED avars
    <2>1. UNCHANGED <<ivars, post_vars, history_vars>>
      BY <1>9 DEF avars
    <2>2. UNCHANGED <<seen, stream, todo, step, current, draws, posting, server, exposed>>
      BY <2>1 DEF ivars, request_vars, post_vars, history_vars
    <2>3. QED
      BY <2>2, StillOnce
  <1>10. QED
    BY <1>1, <1>2, <1>3, <1>4, <1>5, <1>6, <1>7, <1>8, <1>9
       DEF ANext, MainLoop, Drainer, Faults, ApiWorker

\* An event id is put into raw_events a second time only if it was exposed: its
\* handler outlived the agent's patience, a failure hit between its XADD and its
\* SET, or its key expired.
THEOREM RetriesAreDeduplicated == ASpec => []RetriesDeduplicated
  <1> USE AgentAssumption
  <1>1. AInit => AgentInv /\ OncePublished
    <2> SUFFICES ASSUME AInit PROVE AgentInv /\ OncePublished
      OBVIOUS
    <2>1. AgentInv
      BY DEF AInit, IInit, AgentInv, HandlerInv, AnswerInv, QueuedIsAccounted
    <2>2. \A w \in Worker : todo[w] = {} /\ current[w] = {} /\ step[w] = "idle" /\ Unfinished(w) = {}
      BY DEF AInit, IInit, Unfinished
    <2>3. posting = {} /\ \A id \in EventId : stream[id] = 0
      BY DEF AInit, IInit
    <2>4. RequestInv /\ DrawnInv
      BY <2>2, <2>3 DEF RequestInv, DrawnInv
    <2>5. OnceInv
      BY <2>2, <2>3 DEF OnceInv, Once
    <2>6. QED
      BY <2>1, <2>4, <2>5 DEF OncePublished
  <1>2. ATypeOK /\ AgentInv /\ OncePublished /\ [ANext]_avars => AgentInv' /\ OncePublished'
    BY AgentStep, OnceStep DEF AgentInv
  <1>3. ATypeOK /\ OncePublished => RetriesDeduplicated
    BY DEF ATypeOK, ServerTypeOK, OncePublished, OnceInv, Once, RetriesDeduplicated
  <1>4. QED
    BY <1>1, <1>2, <1>3, AgentTypeCorrect, PTL DEF ASpec
=============================================================================
