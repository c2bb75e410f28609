---------------------------- MODULE StreamConsumer ----------------------------
(***************************************************************************)
(* pipeline/consumer.py: one Redis stream, one consumer group, and the     *)
(* worker processes that read it through StreamConsumer.run.               *)
(*                                                                         *)
(* Entries are numbered 1, 2, 3, ... in the order of their XADD, as stream *)
(* ids are.  Redis is atomic per command, so every command is one step;    *)
(* everything between two awaits of the consumer belongs to one step.      *)
(* The handler is one step here (HandlerOk); the modules that INSTANCE     *)
(* this one give it its own steps.                                         *)
(***************************************************************************)
EXTENDS Integers, FiniteSets

CONSTANTS
    Consumer,       \* slots for worker processes of the group
    MaxEntries,     \* bound: number of XADDs explored
    BatchSize,      \* BATCH_SIZE, the COUNT of XREADGROUP and XAUTOCLAIM
    StreamMaxLen,   \* MAXLEN of the stream
    NotDict,        \* entries whose payload parses to something not a dict
    Poison,         \* entries whose handling raises every time
    MaxFaults       \* bound: transient errors and process deaths explored

ASSUME ConsumerAssumption ==
    /\ MaxEntries \in Nat
    /\ BatchSize \in Nat \ {0}
    /\ StreamMaxLen \in Nat \ {0}
    /\ MaxFaults \in Nat
    /\ NotDict \cap Poison = {}

VARIABLES
    published,      \* entries 1..published have been added
    trimmed,        \* entries 1..trimmed were removed by XADD MAXLEN ~
    group,          \* the consumer group exists
    groupStart,     \* last entry at the time the group was created ("$")
    lastDelivered,  \* the group's last-delivered-id
    pending,        \* the group's pending entries list (PEL)
    stale,          \* pending entries idle for AUTOCLAIM_IDLE_MS
    stage,          \* call of the loop the consumer is in, or "down"
    batch,          \* entries fetched and not yet dealt with
    returned,       \* the handler returned for the head of the batch
    handled,        \* history: entries a handler completed
    acked,          \* history: entries removed from the PEL by XACK
    faults          \* errors and deaths so far

group_vars == <<group, groupStart, lastDelivered>>
stream_vars == <<published, trimmed>>
loop_vars == <<stage, batch, returned>>
vars == <<published, trimmed, group, groupStart, lastDelivered, pending,
          stale, stage, batch, returned, handled, acked, faults>>

Entry == 1 .. published

-----------------------------------------------------------------------------
Larger(a, b) == IF a > b THEN a ELSE b
Smaller(a, b) == IF a < b THEN a ELSE b

\* The n smallest elements of S.
FirstOf(S, n) == {m \in S : Cardinality({k \in S : k < m}) < n}

\* Batches are handled in the order of the reply, which is that of the ids.
IsHead(c, m) == m \in batch[c] /\ \A k \in batch[c] : m <= k

\* One for-loop of _poll or _reclaim_stuck goes on to its next message, or
\* run goes on to its next call when there is none.
OtherCall(s) == IF s = "reclaim" THEN "poll" ELSE "reclaim"

Advance(c, m) ==
    LET rest == batch[c] \ {m}
    IN  /\ batch' = [batch EXCEPT ![c] = rest]
        /\ returned' = [returned EXCEPT ![c] = FALSE]
        /\ stage' = IF rest = {}
                    THEN [stage EXCEPT ![c] = OtherCall(@)]
                    ELSE stage

\* The reply of the call in progress is the set of entries S.
Fetch(c, S) ==
    /\ batch' = [batch EXCEPT ![c] = S]
    /\ stage' = IF S = {}
                THEN [stage EXCEPT ![c] = OtherCall(@)]
                ELSE stage
    /\ UNCHANGED returned

\* A call whose reply never arrives: the loop goes on without messages.
NoReply(c) ==
    /\ stage' = [stage EXCEPT ![c] = OtherCall(@)]
    /\ UNCHANGED <<batch, returned>>

Fault ==
    /\ faults < MaxFaults
    /\ faults' = faults + 1

-----------------------------------------------------------------------------
\* XADD with an approximate MAXLEN: the oldest entries beyond it may go.
XAdd ==
    /\ published < MaxEntries
    /\ published' = published + 1
    /\ \E t \in trimmed .. (published + 1) :
          /\ t = trimmed \/ t <= published + 1 - StreamMaxLen
          /\ trimmed' = t
    /\ UNCHANGED <<group_vars, pending, stale, loop_vars, handled, acked, faults>>

\* A worker process starts: ensure_consumer_groups, then run.
Start(c) ==
    /\ stage[c] = "down"
    /\ stage' = [stage EXCEPT ![c] = "reclaim"]
    /\ IF group
       THEN UNCHANGED group_vars
       ELSE /\ group' = TRUE
            /\ groupStart' = published
            /\ lastDelivered' = published
    /\ UNCHANGED <<stream_vars, pending, stale, batch, returned, handled, acked,
                   faults>>

\* XREADGROUP GROUP g c COUNT BATCH_SIZE STREAMS s >
ReadNew ==
    LET lo == Larger(lastDelivered, trimmed)
    IN  (lo + 1) .. Smaller(published, lo + BatchSize)

\* Mutant of ReadNewEffect: XREADGROUP with NOACK.
ReadNoAck ==
    /\ UNCHANGED <<pending, stale>>
    /\ lastDelivered' = IF ReadNew = {}
                        THEN lastDelivered
                        ELSE Smaller(published,
                                     Larger(lastDelivered, trimmed) + BatchSize)

ReadNewEffect ==
    /\ pending' = pending \cup ReadNew
    /\ lastDelivered' = IF ReadNew = {}
                        THEN lastDelivered
                        ELSE Smaller(published,
                                     Larger(lastDelivered, trimmed) + BatchSize)
    /\ UNCHANGED stale

\* Mutant of Scanned: COUNT 1, which the poison entry always takes.
ScannedOne == FirstOf({m \in pending : m \in stale \/ m <= trimmed}, 1)

\* XAUTOCLAIM s g c AUTOCLAIM_IDLE_MS 0-0 COUNT BATCH_SIZE: trimmed entries
\* leave the PEL, idle ones are claimed and their idle time starts again.
Scanned == FirstOf({m \in pending : m \in stale \/ m <= trimmed}, BatchSize)
Claimed == {m \in Scanned : m > trimmed}

AutoClaimEffect ==
    /\ pending' = pending \ (Scanned \ Claimed)
    /\ stale' = stale \ Scanned
    /\ UNCHANGED lastDelivered

Poll(c) ==
    /\ stage[c] = "poll"
    /\ batch[c] = {}
    /\ ReadNewEffect
    /\ Fetch(c, ReadNew)
    /\ UNCHANGED <<stream_vars, group, groupStart, handled, acked, faults>>

\* xreadgroup raises: Redis may or may not have executed the command.
PollFails(c) ==
    /\ stage[c] = "poll"
    /\ batch[c] = {}
    /\ \/ ReadNewEffect
       \/ UNCHANGED <<pending, lastDelivered, stale>>
    /\ NoReply(c)
    /\ Fault
    /\ UNCHANGED <<stream_vars, group, groupStart, handled, acked>>

Reclaim(c) ==
    /\ stage[c] = "reclaim"
    /\ batch[c] = {}
    /\ AutoClaimEffect
    /\ Fetch(c, Claimed)
    /\ UNCHANGED <<stream_vars, group, groupStart, handled, acked, faults>>

ReclaimFails(c) ==
    /\ stage[c] = "reclaim"
    /\ batch[c] = {}
    /\ \/ AutoClaimEffect
       \/ UNCHANGED <<pending, lastDelivered, stale>>
    /\ NoReply(c)
    /\ Fault
    /\ UNCHANGED <<stream_vars, group, groupStart, handled, acked>>

-----------------------------------------------------------------------------
\* _process: the handler returns for the head of the batch.
HandlerOk(c) ==
    \E m \in batch[c] :
        /\ IsHead(c, m)
        /\ m \notin NotDict \cup Poison
        /\ ~returned[c]
        /\ returned' = [returned EXCEPT ![c] = TRUE]
        /\ handled' = handled \cup {m}
        /\ UNCHANGED <<stream_vars, group_vars, pending, stale, stage, batch,
                       acked, faults>>

\* _process: the handler raises; the entry is logged and left in the PEL.
HandlerRaises(c, m) ==
    /\ IsHead(c, m)
    /\ m \notin NotDict
    /\ ~returned[c]
    /\ Advance(c, m)
    /\ UNCHANGED <<stream_vars, group_vars, pending, stale, handled, acked>>

PoisonRaises(c) ==
    \E m \in batch[c] \cap Poison : HandlerRaises(c, m) /\ UNCHANGED faults

HandlerFails(c) ==
    \E m \in batch[c] \ Poison : HandlerRaises(c, m) /\ Fault

\* Mutant of MayAck: xack comes before the handler.
MayAckEarly(c, m) == IsHead(c, m)

\* _process may acknowledge after the handler, or at once when the payload
\* is not a dict.
MayAck(c, m) == IsHead(c, m) /\ (returned[c] \/ m \in NotDict)

\* Mutant of XAckEffect: the entry stays in the PEL.
XAckForgets(m) ==
    /\ UNCHANGED <<pending, stale>>
    /\ acked' = IF m \in pending THEN acked \cup {m} ELSE acked

XAckEffect(m) ==
    /\ pending' = pending \ {m}
    /\ stale' = stale \ {m}
    /\ acked' = IF m \in pending THEN acked \cup {m} ELSE acked

Ack(c) ==
    \E m \in batch[c] :
        /\ MayAck(c, m)
        /\ XAckEffect(m)
        /\ Advance(c, m)
        /\ UNCHANGED <<stream_vars, group_vars, handled, faults>>

\* xack raises, executed or not: caught by the same except branch.
AckFails(c) ==
    \E m \in batch[c] :
        /\ MayAck(c, m)
        /\ XAckEffect(m) \/ UNCHANGED <<pending, stale, acked>>
        /\ Advance(c, m)
        /\ Fault
        /\ UNCHANGED <<stream_vars, group_vars, handled>>

\* The process dies, or main cancels its tasks at shutdown: CancelledError
\* passes through _process, so what was fetched stays in the PEL.
Halt(c) ==
    /\ stage[c] # "down"
    /\ stage' = [stage EXCEPT ![c] = "down"]
    /\ batch' = [batch EXCEPT ![c] = {}]
    /\ returned' = [returned EXCEPT ![c] = FALSE]
    /\ Fault
    /\ UNCHANGED <<stream_vars, group_vars, pending, stale, handled, acked>>

\* Time: an entry of the PEL has been idle for AUTOCLAIM_IDLE_MS.
GoIdle(m) ==
    /\ m \in pending \ stale
    /\ stale' = stale \cup {m}
    /\ UNCHANGED <<stream_vars, group_vars, pending, loop_vars, handled, acked,
                   faults>>

-----------------------------------------------------------------------------
Init ==
    /\ published = 0
    /\ trimmed = 0
    /\ group = FALSE
    /\ groupStart = 0
    /\ lastDelivered = 0
    /\ pending = {}
    /\ stale = {}
    /\ stage = [c \in Consumer |-> "down"]
    /\ batch = [c \in Consumer |-> {}]
    /\ returned = [c \in Consumer |-> FALSE]
    /\ handled = {}
    /\ acked = {}
    /\ faults = 0

\* The steps of a consumer whose calls succeed.
Work(c) ==
    \/ Poll(c)
    \/ Reclaim(c)
    \/ HandlerOk(c)
    \/ PoisonRaises(c)
    \/ Ack(c)

Misfortune(c) ==
    \/ PollFails(c)
    \/ ReclaimFails(c)
    \/ HandlerFails(c)
    \/ AckFails(c)
    \/ Halt(c)

Next ==
    \/ XAdd
    \/ \E c \in Consumer : Start(c) \/ Work(c) \/ Misfortune(c)
    \/ \E m \in pending : GoIdle(m)

Spec == Init /\ [][Next]_vars

\* A started process is scheduled, a dead one is restarted (restart:
\* unless-stopped in docker-compose.yml), and time passes.
Fairness ==
    /\ \A c \in Consumer : WF_vars(Start(c)) /\ WF_vars(Work(c))
    /\ \A m \in 1 .. MaxEntries : WF_vars(GoIdle(m))

FairSpec == Spec /\ Fairness

-----------------------------------------------------------------------------
(***************************************************************************)
(* Properties                                                              *)
(***************************************************************************)

\* Every variable has its type.
TypeOK ==
    /\ published \in Nat
    /\ trimmed \in 0 .. published
    /\ group \in BOOLEAN
    /\ groupStart \in 0 .. lastDelivered
    /\ lastDelivered \in 0 .. published
    /\ pending \in SUBSET Entry
    /\ stale \in SUBSET pending
    /\ stage \in [Consumer -> {"reclaim", "poll", "down"}]
    /\ batch \in [Consumer -> SUBSET Entry]
    /\ returned \in [Consumer -> BOOLEAN]
    /\ handled \in SUBSET Entry
    /\ acked \in SUBSET Entry
    /\ faults \in Nat

\* An entry is acknowledged only after some consumer completed its handler
\* (or its payload is not a dict): _process calls xack after the handler and
\* never from the except branch, whatever crashes and reclaims interleave.
AckedWasHandled == acked \subseteq handled \cup NotDict

\* Whatever was delivered and is still in the stream is either acknowledged
\* or in the PEL, where a later XAUTOCLAIM finds it: no crash, lost reply or
\* failed handler makes the group forget an entry.
DeliveredIsTracked ==
    \A m \in Entry :
        groupStart < m /\ m <= lastDelivered /\ m > trimmed
            => m \in acked \cup pending

\* An acknowledged entry is never handed to a consumer again.
NeverRefetched ==
    [][\A c \in Consumer : (batch'[c] \ batch[c]) \cap acked = {}]_vars

\* What StreamConsumerProofs proves inductive: besides the two invariants above,
\* a delivered entry is between the group's start and its last-delivered-id, the
\* PEL holds nothing acknowledged, and a consumer whose handler returned still has
\* the entry at the head of its batch, and in handled.
Delivered == (groupStart + 1) .. lastDelivered

Untouched ==
    /\ lastDelivered = 0
    /\ Delivered = {}
    /\ \A c \in Consumer : batch[c] = {} /\ stage[c] = "down"

IInv ==
    /\ published <= MaxEntries
    /\ ~group => Untouched
    /\ pending \cup acked \cup handled \subseteq Delivered
    /\ \A c \in Consumer : batch[c] \subseteq Delivered
    /\ pending \cap acked = {}
    /\ \A c \in Consumer : returned[c] =>
          /\ batch[c] # {}
          /\ \A m \in batch[c] : IsHead(c, m) => m \in handled
    /\ AckedWasHandled
    /\ DeliveredIsTracked

\* The consumer group implements at-least-once delivery of the entries added
\* after its creation: the mapping forgets where an entry is.
OfferedEntries == IF group THEN (groupStart + 1) .. published ELSE {}

Delivery == INSTANCE AtLeastOnce WITH
    Item <- 1 .. MaxEntries, Exempt <- NotDict,
    offered <- OfferedEntries, completed <- handled, settled <- acked

ImplementsAtLeastOnce == Delivery!ASpec

\* Poison entries, retried for ever, do not keep the others from being
\* completed: every other entry added after the group was created and not
\* trimmed away is acknowledged in the end.
EventuallyAcked ==
    \A m \in 1 .. MaxEntries :
        m \notin Poison =>
            (group /\ m > groupStart /\ m <= published)
                ~> (m \in acked \/ m <= trimmed)
=============================================================================
