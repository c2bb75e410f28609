----------------------------- MODULE AgentDelivery -----------------------------
(***************************************************************************)
(* The endpoint agent (backend/scripts/soc_agent_v2.py, the script the     *)
(* installer serves) delivering the lines of a log to the ingest endpoint. *)
(*                                                                         *)
(* The main loop reads new lines, inserts them into an SQLite queue and    *)
(* saves its read position; the drainer thread posts rows of the queue,    *)
(* each drain under freshly drawn event ids, and deletes the rows on a 200 *)
(* answer, or once they have failed too often.  The two threads, and the   *)
(* API workers of EventIngestion, interleave.                              *)
(***************************************************************************)
EXTENDS EventIngestion

CONSTANTS
    Lines,          \* bound: lines ever written to the log
    Rewinds,        \* does an in-process restart of main() restore the saved
                    \* position?  The Windows readers do once a checkpoint
                    \* exists; a Linux _FileTailer keeps its advanced one.
    BatchSize,      \* _Q_BATCH_SIZE
    MaxRetries,     \* _Q_MAX_RETRIES
    Attempts,       \* posts of one drain
    MaxDraws        \* bound: drains a line takes part in

VARIABLES
    written,    \* the log holds lines 1..written
    position,   \* last line read (memory)
    checkpoint, \* last line read (disk)
    read,       \* lines read and not yet queued
    loop,       \* where the main loop is
    queue,      \* lines with a row in the SQLite queue
    retries,    \* retry_count of a line's row
    waiting,    \* rows whose next_retry_at is in the future
    draws,      \* event ids drawn for a line so far
    posting,    \* event ids of the drain in progress
    attempt,    \* its failed posts
    server,     \* the worker its post is waiting for
    queued,     \* history: lines inserted into the queue
    dropped,    \* history: lines whose row failed too often
    refused,    \* history: lines the server counted as rejected in a 200 answer
    exposed     \* history: ids for which looking up the key was no protection

log_vars == <<written, position, checkpoint, read, loop>>
row_vars == <<queue, retries, waiting>>
post_vars == <<draws, posting, attempt, server>>
history_vars == <<queued, dropped, refused, exposed>>
avars == <<ivars, log_vars, row_vars, post_vars, history_vars>>

Line == 1..Lines
NoWorker == "none"

ASSUME AgentAssumption ==
    /\ {Lines, BatchSize, MaxRetries, Attempts, MaxDraws} \subseteq Nat \ {0}
    /\ Rewinds \in BOOLEAN
    /\ EventId = Line \X (1..MaxDraws)
    /\ NoWorker \notin Worker

-----------------------------------------------------------------------------
(* The main loop. *)

WriteLine ==
    /\ written < Lines
    /\ written' = written + 1
    /\ UNCHANGED <<ivars, position, checkpoint, read, loop, row_vars, post_vars, history_vars>>

\* _collect_logs.
Collected(new) ==
    /\ loop = "collect"
    /\ read' = new
    /\ loop' = IF new = {} THEN "save" ELSE "enqueue"
    /\ UNCHANGED <<seen, stream, request_vars, forgotten, written, checkpoint,
                   row_vars, post_vars, history_vars>>

Unread == (position + 1)..written

Collect ==
    /\ Collected(Unread)
    /\ position' = written
    /\ UNCHANGED errors

\* A Windows channel fails half-way: it leaves the lines collected so far, and
\* its position.
CollectFails ==
    /\ Rewinds
    /\ Error
    /\ \E some \in SUBSET Unread : Collected(some)
    /\ UNCHANGED position

\* Rows are unique by content: a line that still has a row gets no second one.
InsertRows(new) ==
    /\ queue' = queue \cup new
    /\ queued' = queued \cup new
    /\ UNCHANGED <<retries, waiting, dropped, refused, exposed>>

Enqueue ==
    /\ loop = "enqueue"
    /\ InsertRows(read)
    /\ read' = {}
    /\ loop' = "save"
    /\ UNCHANGED <<ivars, written, position, checkpoint, post_vars>>

\* Wrong: the position is not restored.
KeepsPosition ==
    /\ loop = "enqueue"
    /\ Error
    /\ \E done \in SUBSET read : InsertRows(done)
    /\ read' = {}
    /\ loop' = "collect"
    /\ UNCHANGED <<seen, stream, request_vars, forgotten, written, position, checkpoint, post_vars>>

\* An insert raises: main() ends and is called again in the same process.  The
\* rows inserted before are committed with the drainer's next statement.
EnqueueFails ==
    /\ loop = "enqueue"
    /\ Error
    /\ \E done \in SUBSET read : InsertRows(done)
    /\ position' = IF Rewinds THEN checkpoint ELSE position
    /\ read' = {}
    /\ loop' = "collect"
    /\ UNCHANGED <<seen, stream, request_vars, forgotten, written, checkpoint, post_vars>>

\* _save_checkpoint swallows its errors.
SaveCheckpoint ==
    /\ loop = "save"
    /\ checkpoint' \in {position, checkpoint}
    /\ loop' = "collect"
    /\ UNCHANGED <<ivars, written, position, read, row_vars, post_vars, history_vars>>

\* The agent's process ends and is started again; the queue and the checkpoint
\* are on disk, and a request on its way goes on at the server.
AgentCrash ==
    /\ Error
    /\ position' = checkpoint
    /\ read' = {}
    /\ loop' = "collect"
    /\ posting' = {}
    /\ attempt' = 0
    /\ server' = NoWorker
    /\ UNCHANGED <<seen, stream, request_vars, forgotten, written, checkpoint,
                   row_vars, draws, history_vars>>

-----------------------------------------------------------------------------
(* The drainer thread. *)

Posted == {id[1] : id \in posting}

EndDrain ==
    /\ posting' = {}
    /\ attempt' = 0
    /\ server' = NoWorker
    /\ UNCHANGED draws

\* fetch_batch: all rows that are due, or BatchSize of them.
FetchBatch ==
    LET due == queue \ waiting IN
    IF Cardinality(due) <= BatchSize THEN {due}
    ELSE {rows \in SUBSET due : Cardinality(rows) = BatchSize}

\* One uuid4 per row is drawn in _to_v2_format.
Drain ==
    /\ posting = {}
    /\ \E rows \in FetchBatch :
          /\ rows # {}
          /\ \A l \in rows : draws[l] < MaxDraws
          /\ draws' = [l \in Line |-> draws[l] + (IF l \in rows THEN 1 ELSE 0)]
          /\ posting' = {<<l, draws'[l]>> : l \in rows}
    /\ UNCHANGED <<ivars, log_vars, row_vars, attempt, server, history_vars>>

Post ==
    /\ posting # {}
    /\ server = NoWorker
    /\ \E w \in Worker : Receive(w, posting) /\ server' = w
    /\ UNCHANGED <<log_vars, row_vars, draws, posting, attempt, history_vars>>

\* ack: rows leave the queue.
Ack(rows) ==
    /\ queue' = queue \ rows
    /\ retries' = [l \in Line |-> IF l \in rows THEN 0 ELSE retries[l]]
    /\ UNCHANGED <<waiting, dropped>>

\* Wrong: the row waits, its retry_count stays.
NackUncounted(rows) ==
    /\ waiting' = waiting \cup rows
    /\ UNCHANGED <<queue, retries, dropped>>

\* nack: each row waits for its next try, or has had its last.
Nack(rows) ==
    LET lost == {l \in rows : retries[l] + 1 >= MaxRetries} IN
    /\ queue' = queue \ lost
    /\ retries' = [l \in Line |-> IF l \in lost THEN 0
                                  ELSE IF l \in rows THEN retries[l] + 1
                                  ELSE retries[l]]
    /\ waiting' = waiting \cup (rows \ lost)
    /\ dropped' = dropped \cup lost

\* Wrong: the drain that failed acknowledges.
FailureAcked ==
    IF attempt + 1 < Attempts
    THEN /\ attempt' = attempt + 1
         /\ server' = NoWorker
         /\ UNCHANGED <<row_vars, dropped, draws, posting>>
    ELSE Ack(Posted) /\ EndDrain

\* A post of the drain failed: another follows, up to Attempts.
PostFailed ==
    IF attempt + 1 < Attempts
    THEN /\ attempt' = attempt + 1
         /\ server' = NoWorker
         /\ UNCHANGED <<row_vars, dropped, draws, posting>>
    ELSE Nack(Posted) /\ EndDrain

\* No worker takes the request: no connection, rate limit, containment (429,
\* 423), a 5xx; 401, 403 and 410 end the drain at once.
Refused ==
    /\ posting # {}
    /\ server = NoWorker
    /\ PostFailed \/ (Nack(Posted) /\ EndDrain)
    /\ UNCHANGED <<ivars, log_vars, queued, refused, exposed>>

\* The 200 answer: every row is acknowledged, whatever the counts say.  When
\* the DELETE raises, the handler takes it for a failed post.
Answered(w) ==
    /\ server = w
    /\ Respond(w)
    /\ refused' = refused \cup {id[1] : id \in rejected[w]}
    /\ \/ Ack(Posted) /\ EndDrain
       \/ PostFailed
    /\ UNCHANGED <<log_vars, queued, exposed>>

\* Events of w's request that it has not finished with.
Unfinished(w) == todo[w] \cup current[w]

\* 30 seconds without an answer; the worker goes on with the request.
Timeout ==
    /\ server # NoWorker
    /\ Error
    /\ PostFailed
    /\ exposed' = exposed \cup Unfinished(server)
    /\ UNCHANGED <<seen, stream, request_vars, forgotten, log_vars, queued, refused>>

BackoffOver(l) ==
    /\ l \in waiting
    /\ waiting' = waiting \ {l}
    /\ UNCHANGED <<ivars, log_vars, queue, retries, post_vars, history_vars>>

-----------------------------------------------------------------------------
(* The server's steps, as the agent sees them. *)

Unseen(action) == action /\ UNCHANGED <<log_vars, row_vars, post_vars, queued, dropped, refused>>

Serves(w) == Unseen(Serve(w)) /\ UNCHANGED exposed

RespondsTooLate(w) == server # w /\ Unseen(Respond(w)) /\ UNCHANGED exposed

Rejects(w) ==
    /\ Unseen(EventFails(w))
    /\ exposed' = exposed \cup current[w]

Dies(w) ==
    /\ Abort(w)
    /\ IF server = w THEN PostFailed ELSE UNCHANGED <<row_vars, post_vars, dropped>>
    /\ exposed' = exposed \cup (IF step[w] = "mark" THEN current[w] ELSE {})
    /\ UNCHANGED <<log_vars, queued, refused>>

Forgets(id) ==
    /\ Unseen(Forget(id))
    /\ exposed' = exposed \cup {id}

-----------------------------------------------------------------------------
\* The agent has run before: a checkpoint exists.
AInit ==
    /\ IInit
    /\ written = 0 /\ position = 0 /\ checkpoint = 0 /\ read = {} /\ loop = "collect"
    /\ queue = {} /\ retries = [l \in Line |-> 0] /\ waiting = {}
    /\ draws = [l \in Line |-> 0] /\ posting = {} /\ attempt = 0 /\ server = NoWorker
    /\ queued = {} /\ dropped = {} /\ refused = {} /\ exposed = {}

MainLoop == Collect \/ Enqueue \/ SaveCheckpoint
Drainer == Drain \/ Post \/ Refused \/ \E w \in Worker : Answered(w)
ApiWorker(w) == Serves(w) \/ RespondsTooLate(w)
Faults ==
    \/ CollectFails \/ EnqueueFails \/ AgentCrash \/ Timeout
    \/ \E w \in Worker : Rejects(w) \/ Dies(w)
    \/ \E id \in EventId : Forgets(id)

ANext ==
    \/ WriteLine \/ MainLoop \/ Drainer \/ Faults
    \/ \E w \in Worker : ApiWorker(w)
    \/ \E l \in Line : BackoffOver(l)

ASpec == AInit /\ [][ANext]_avars

\* The threads go on, the server's requests end, and time passes.
AFairSpec ==
    /\ ASpec
    /\ WF_avars(MainLoop)
    /\ WF_avars(Drainer)
    /\ \A w \in Worker : WF_avars(ApiWorker(w))
    /\ \A l \in Line : WF_avars(BackoffOver(l))
-----------------------------------------------------------------------------
(* Properties *)

ServerTypeOK ==
    /\ seen \subseteq EventId /\ stream \in [EventId -> Nat]
    /\ todo \in [Worker -> SUBSET EventId]
    /\ current \in [Worker -> SUBSET EventId]
    /\ rejected \in [Worker -> SUBSET EventId]
    /\ step \in [Worker -> {"idle", "next", "publish", "mark"}]
    /\ errors \in Nat /\ forgotten \in Nat

LogTypeOK ==
    /\ written \in 0..Lines /\ position \in 0..written /\ checkpoint \in 0..written
    /\ read \subseteq 1..written
    /\ loop \in {"collect", "enqueue", "save"}

RowTypeOK ==
    /\ queued \subseteq 1..written /\ queue \subseteq queued /\ waiting \subseteq queue
    /\ retries \in [Line -> 0..(MaxRetries - 1)]
    /\ dropped \subseteq Line /\ refused \subseteq Line

PostTypeOK ==
    /\ draws \in [Line -> 0..MaxDraws]
    /\ posting \subseteq EventId /\ Posted \subseteq queue \ waiting
    /\ attempt \in 0..(Attempts - 1)
    /\ server \in Worker \cup {NoWorker}
    /\ server # NoWorker => posting # {} /\ ~Idle(server)
    /\ exposed \subseteq EventId

\* Types.  The rows of the drain in progress are in the queue and due, none has
\* failed MaxRetries times, and the worker a post waits for has the request.
ATypeOK == ServerTypeOK /\ LogTypeOK /\ RowTypeOK /\ PostTypeOK

\* A line that entered the queue has its row there still, or was given up
\* after MaxRetries failed drains, or is in raw_events, or the server answered
\* that it rejected it: a lost answer, a late worker, a crash of the agent or of a
\* worker never lets a row go whose events were not handled.
Ingested(l) == \E id \in EventId : id[1] = l /\ stream[id] > 0
QueuedIsAccounted ==
    \A l \in queued : l \in queue \/ l \in dropped \/ Ingested(l) \/ l \in refused

\* Where a restart rewinds, the position on disk, from which reading resumes,
\* never passes a line that was not queued: no crash of the agent skips a line.
CheckpointIsQueued == Rewinds => 1..checkpoint \subseteq queued

\* The inductive invariant behind the two: the reader's lines are queued or in
\* its hands, and each event the agent waits for is one its request handler has
\* before it, has put into raw_events or has counted as rejected.
ReaderInv ==
    Rewinds => /\ 1..position \subseteq queued \cup read
               /\ loop # "enqueue" => read = {}
HandlerInv ==
    /\ \A id \in seen : stream[id] > 0
    /\ \A w \in Worker :
          /\ step[w] = "mark" => \A id \in current[w] : stream[id] > 0
          /\ step[w] \in {"idle", "next"} => current[w] = {}
AnswerInv ==
    server # NoWorker =>
        \A id \in posting : id \in Unfinished(server) \cup rejected[server] \/ stream[id] > 0

\* Posting a batch again under the same ids publishes an event twice only when
\* an earlier request still had the event before it when the agent gave up
\* waiting, when a failure fell between XADD and SET, or when the key expired.
RetriesDeduplicated == \A id \in EventId : stream[id] > 1 => id \in exposed

\* Its inductive invariant: ids are drawn once, and an id that is not exposed is
\* before at most one handler, the one the agent waits for if it is still being
\* posted; once in raw_events it is marked or about to be.
DrawnInv ==
    /\ \A id \in posting : id[2] = draws[id[1]]
    /\ \A w \in Worker : \A id \in Unfinished(w) : id[2] <= draws[id[1]]
RequestInv ==
    \A w \in Worker : todo[w] \cap current[w] = {} /\ (Idle(w) => todo[w] = {})
Once(id) ==
    /\ stream[id] <= 1
    /\ \A v, w \in Worker : id \in Unfinished(v) \cap Unfinished(w) => v = w
    /\ id \in posting => \A w \in Worker : id \in Unfinished(w) => w = server
    /\ stream[id] = 1 => id \in seen \/ \E w \in Worker : step[w] = "mark" /\ id \in current[w]
    /\ \A w \in Worker : step[w] = "publish" /\ id \in current[w] => stream[id] = 0
OnceInv == \A id \in EventId \ exposed : Once(id)

\* Whatever the server does, a row of the queue leaves it: delivered or given up.
RowsLeave == \A l \in Line : l \in queue ~> l \notin queue
=============================================================================
