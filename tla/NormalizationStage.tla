--------------------------- MODULE NormalizationStage ---------------------------
(***************************************************************************)
(* workers/normalization_worker.py: the consumers of raw_events give each  *)
(* entry to _handle_message, which commits an events row for it and then   *)
(* publishes that row to normalized_events.  The stream, its group and the *)
(* consumer loop are those of StreamConsumer; this module splits the       *)
(* handler at its two effects, so that a crash, an error or another        *)
(* consumer's claim of the same entry can fall between them.               *)
(*                                                                         *)
(* Normalization, enrichment and the flush before the commit change        *)
(* nothing another process sees; an error there is HandlerFails or, for    *)
(* payloads that never parse, PoisonRaises.                                *)
(***************************************************************************)
EXTENDS StreamConsumer

VARIABLES
    rows,        \* committed events rows
    normalized,  \* the rows that entries of normalized_events name
    committed    \* per consumer: the row its handler just committed, or NoRow

stage_vars == <<rows, normalized, committed>>
nvars == <<vars, stage_vars>>

\* A row is its stream_id column and whether the table had a row with that
\* stream_id before: all the later copies count as one.
Row == {<<m, copy>> : m \in 1 .. MaxEntries, copy \in {"first", "later"}}
NoRow == <<0, "first">>

NInit ==
    /\ Init
    /\ rows = {}
    /\ normalized = {}
    /\ committed = [c \in Consumer |-> NoRow]

\* The head of the batch whose handler is running, before its commit.
BeforeCommit(c, m) ==
    /\ IsHead(c, m)
    /\ m \notin NotDict \cup Poison
    /\ ~returned[c]
    /\ committed[c] = NoRow

NewRow(m) == <<m, IF <<m, "first">> \in rows THEN "later" ELSE "first">>

\* Mutant of CommitRow: publish first, commit later.
PublishFirst(c) ==
    \E m \in batch[c] :
        /\ BeforeCommit(c, m)
        /\ normalized' = normalized \cup {NewRow(m)}
        /\ committed' = [committed EXCEPT ![c] = NewRow(m)]
        /\ UNCHANGED <<vars, rows>>

\* persist_event and db.commit().  The events table accepts the row whether or
\* not it already has one with this stream_id: the column has an index only.
CommitRow(c) ==
    \E m \in batch[c] :
        /\ BeforeCommit(c, m)
        /\ rows' = rows \cup {NewRow(m)}
        /\ committed' = [committed EXCEPT ![c] = NewRow(m)]
        /\ UNCHANGED <<vars, normalized>>

\* Mutant of PublishNormalized: the handler returns without publishing.
ReturnUnpublished(c) ==
    /\ committed[c] # NoRow
    /\ committed' = [committed EXCEPT ![c] = NoRow]
    /\ HandlerOk(c)
    /\ UNCHANGED <<rows, normalized>>

\* publish_normalized_event; the handler returns.
PublishNormalized(c) ==
    /\ committed[c] # NoRow
    /\ normalized' = normalized \cup {committed[c]}
    /\ committed' = [committed EXCEPT ![c] = NoRow]
    /\ HandlerOk(c)
    /\ UNCHANGED rows

\* An error before or in the commit, whose outcome is then unknown.
CommitFails(c) ==
    /\ committed[c] = NoRow
    /\ HandlerFails(c)
    /\ \/ UNCHANGED rows
       \/ \E m \in batch[c] : BeforeCommit(c, m) /\ rows' = rows \cup {NewRow(m)}
    /\ UNCHANGED <<normalized, committed>>

\* Mutant of PublishFails: the error is logged and the handler returns.
PublishErrorSwallowed(c) ==
    /\ committed[c] # NoRow
    /\ HandlerOk(c)
    /\ committed' = [committed EXCEPT ![c] = NoRow]
    /\ UNCHANGED <<rows, normalized>>

\* XADD raises, executed or not; the rollback finds nothing to undo.
PublishFails(c) ==
    /\ committed[c] # NoRow
    /\ HandlerFails(c)
    /\ \/ UNCHANGED normalized
       \/ normalized' = normalized \cup {committed[c]}
    /\ committed' = [committed EXCEPT ![c] = NoRow]
    /\ UNCHANGED rows

NHalt(c) ==
    /\ Halt(c)
    /\ committed' = [committed EXCEPT ![c] = NoRow]
    /\ UNCHANGED <<rows, normalized>>

\* What the stage leaves to the consumer loop and the stream.
LoopStep(c) ==
    /\ \/ Start(c) \/ Poll(c) \/ Reclaim(c) \/ PoisonRaises(c) \/ Ack(c)
       \/ PollFails(c) \/ ReclaimFails(c) \/ AckFails(c)
    /\ UNCHANGED stage_vars

Environment ==
    /\ XAdd \/ (\E m \in pending : GoIdle(m))
    /\ UNCHANGED stage_vars

NNext ==
    \/ Environment
    \/ \E c \in Consumer :
          \/ LoopStep(c)
          \/ CommitRow(c)
          \/ PublishNormalized(c)
          \/ CommitFails(c)
          \/ PublishFails(c)
          \/ NHalt(c)

NSpec == NInit /\ [][NNext]_nvars

\* As in StreamConsumer: live processes run, dead ones restart, time passes.
NWork(c) ==
    \/ (Poll(c) \/ Reclaim(c) \/ PoisonRaises(c) \/ Ack(c)) /\ UNCHANGED stage_vars
    \/ CommitRow(c)
    \/ PublishNormalized(c)

NFairness ==
    /\ \A c \in Consumer :
          /\ WF_nvars(Start(c) /\ UNCHANGED stage_vars)
          /\ WF_nvars(NWork(c))
    /\ \A m \in 1 .. MaxEntries : WF_nvars(GoIdle(m) /\ UNCHANGED stage_vars)

NFairSpec == NSpec /\ NFairness

-----------------------------------------------------------------------------
\* Every variable has its type.
StageTypeOK ==
    /\ rows \in SUBSET Row
    /\ normalized \in SUBSET Row
    /\ committed \in [Consumer -> Row \cup {NoRow}]

NTypeOK == TypeOK /\ StageTypeOK

StoredAndPublished(m) == \E r \in normalized : r \in rows /\ r[1] = m

\* An acknowledged raw entry has a committed row, and that row is in the
\* normalized stream: commit, publish and acknowledgement keep their order
\* through crashes, lost replies and claims by another consumer.
AckedIsPublished == \A m \in acked \ NotDict : StoredAndPublished(m)

\* A row whose event never entered the normalized stream is not final: its raw
\* entry can still be read again (it is in the PEL), or was trimmed away.
UnpublishedIsRetried ==
    \A r \in rows : StoredAndPublished(r[1]) \/ r[1] \in pending \/ r[1] <= trimmed

\* A normalized entry names the committed row of the event it was made from,
\* from the moment it is in the stream (the handler commits before XADD).
PublishedIsCommitted == normalized \subseteq rows

\* NIInv is what NormalizationStageProofs proves inductive with IInv: a completed entry
\* is published, a row is of a delivered entry, and a handler that committed
\* still has the entry of its row at the head of its batch.
HoldsRow(c) ==
    committed[c] # NoRow =>
        /\ committed[c] \in rows
        /\ ~returned[c]
        /\ IsHead(c, committed[c][1])

NIInv ==
    /\ \A m \in handled : StoredAndPublished(m)
    /\ PublishedIsCommitted
    /\ \A r \in rows : r[1] \in Delivered \ (NotDict \cup Poison)
    /\ \A c \in Consumer : HoldsRow(c)

\* The comment in the handler: re-running it after a failed publish leaves no
\* duplicate row ("the DB write is idempotent (stream_id unique constraint)").
OneRowPerStreamId ==
    \A r, s \in rows : r[1] = s[1] => r = s

\* Every raw entry added after the group was created, not trimmed and not
\* unparsable, reaches the normalized stream in the end.
EventuallyNormalized ==
    \A m \in 1 .. MaxEntries :
        m \notin Poison \cup NotDict =>
            (group /\ m > groupStart /\ m <= published)
                ~> (StoredAndPublished(m) \/ m <= trimmed)
=============================================================================
