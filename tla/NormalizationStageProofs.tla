------------------------ MODULE NormalizationStageProofs ------------------------
(***************************************************************************)
(* The safety invariants of the normalization stage, proved for any number *)
(* of consumers, entries and faults on top of those of its stream: every   *)
(* step of the stage is a step of StreamConsumer, or leaves it alone.      *)
(***************************************************************************)
EXTENDS NormalizationStage, StreamConsumerProofs

\* A step of the stage is a step of its consumer group or stutters there.
LEMMA StepOfStream == [NNext]_nvars => [Next]_vars
  BY DEF NNext, nvars, Environment, LoopStep, CommitRow, PublishNormalized, CommitFails,
         PublishFails, NHalt, Next, Work, Misfortune

\* A row made for an entry is a row of that entry.
LEMMA NewRowType ==
    ASSUME NEW m \in 1 .. MaxEntries
    PROVE  NewRow(m) \in Row /\ NewRow(m)[1] = m /\ NewRow(m) # NoRow
  BY DEF NewRow, Row, NoRow

\* The type invariant holds initially and no step leaves it.
LEMMA InitNType == NInit => NTypeOK
  BY InitTypeOK DEF NInit, NTypeOK, StageTypeOK, NoRow

LEMMA NextNType == NTypeOK /\ IInv /\ [NNext]_nvars => NTypeOK'
  <1> SUFFICES ASSUME NTypeOK, IInv, [NNext]_nvars PROVE NTypeOK'
    OBVIOUS
  <1>1. TypeOK'
    BY StepOfStream, NextTypeOK DEF NTypeOK
  <1>2. Entry \subseteq 1 .. MaxEntries
    BY ConsumerAssumption DEF NTypeOK, TypeOK, IInv, Entry
  <1>3. \A c \in Consumer : \A m \in batch[c] : NewRow(m) \in Row
    BY <1>2, NewRowType DEF NTypeOK, TypeOK
  <1>4. StageTypeOK'
    <2>1. CASE UNCHANGED stage_vars
      BY <2>1 DEF stage_vars, NTypeOK, StageTypeOK
    <2>2. ASSUME NEW c \in Consumer, CommitRow(c)
          PROVE  StageTypeOK'
      BY <1>3, <2>2 DEF CommitRow, NTypeOK, StageTypeOK
    <2>3. ASSUME NEW c \in Consumer, PublishNormalized(c) \/ PublishFails(c)
          PROVE  StageTypeOK'
      <3>1. committed[c] \in Row
        BY <2>3 DEF PublishNormalized, PublishFails, NTypeOK, StageTypeOK
      <3>2. QED
        BY <2>3, <3>1 DEF PublishNormalized, PublishFails, NTypeOK, StageTypeOK
    <2>4. ASSUME NEW c \in Consumer, CommitFails(c)
          PROVE  StageTypeOK'
      BY <1>3, <2>4 DEF CommitFails, NTypeOK, StageTypeOK
    <2>5. ASSUME NEW c \in Consumer, NHalt(c)
          PROVE  StageTypeOK'
      BY <2>5 DEF NHalt, NTypeOK, StageTypeOK
    <2>6. CASE UNCHANGED nvars
      BY <2>6, <2>1 DEF nvars
    <2>7. QED
      BY <2>1, <2>2, <2>3, <2>4, <2>5, <2>6 DEF NNext, Environment, LoopStep
  <1>5. QED
    BY <1>1, <1>4 DEF NTypeOK

\* The stage's variables and its stream have their types.
THEOREM NTypeCorrect == NSpec => [](NTypeOK /\ IInv)
  <1>1. NInit => NTypeOK /\ IInv
    BY InitNType, InitIInv DEF NInit
  <1>2. NTypeOK /\ IInv /\ [NNext]_nvars => (NTypeOK /\ IInv)'
    BY NextNType, NextIInv, StepOfStream DEF NTypeOK
  <1>3. QED
    BY <1>1, <1>2, PTL DEF NSpec

-----------------------------------------------------------------------------
\* A handler that runs, and what it has committed, stay as they are while the
\* stream or another consumer takes a step.
LEMMA CommittedStays ==
    ASSUME NTypeOK, NIInv, UNCHANGED stage_vars,
           \/ XAdd \/ (\E k \in pending : GoIdle(k))
           \/ \E d \in Consumer :
                 \/ Start(d) \/ Poll(d) \/ Reclaim(d) \/ PoisonRaises(d) \/ Ack(d)
                 \/ PollFails(d) \/ ReclaimFails(d) \/ AckFails(d)
    PROVE  \A c \in Consumer : HoldsRow(c)'
  <1> SUFFICES ASSUME NEW c \in Consumer PROVE HoldsRow(c)'
    OBVIOUS
  <1> SUFFICES ASSUME committed[c] # NoRow PROVE HoldsRow(c)'
    BY DEF stage_vars, HoldsRow
  <1>1. /\ ~returned[c] /\ IsHead(c, committed[c][1])
        /\ committed[c][1] \notin NotDict \cup Poison
    BY DEF NIInv, HoldsRow
  <1>2. batch'[c] = batch[c] /\ returned'[c] = returned[c]
    BY <1>1, HandlerKeepsBatch DEF NTypeOK
  <1>3. committed' = committed /\ rows' = rows /\ committed[c] \in rows
    BY DEF stage_vars, NIInv, HoldsRow
  <1>4. QED
    BY <1>1, <1>2, <1>3 DEF IsHead, HoldsRow

\* Every step keeps the inductive invariant of the stage.
LEMMA NextNIInv == NTypeOK /\ IInv /\ NIInv /\ [NNext]_nvars => NIInv'
  <1> SUFFICES ASSUME NTypeOK, IInv, NIInv, [NNext]_nvars PROVE NIInv'
    OBVIOUS
  <1> USE DEF NTypeOK
  <1>1. [Next]_vars
    BY StepOfStream
  <1>2. rows # {} => Delivered \subseteq Delivered'
    <2>1. rows # {} => group
      BY DEF NIInv, IInv, Untouched
    <2>2. QED
      BY <1>1, <2>1, DeliveredGrows
  <1>3. \A c \in Consumer : \A m \in batch[c] : m \in Delivered /\ m \in 1 .. MaxEntries /\ group
    BY GroupExists, ConsumerAssumption DEF IInv, TypeOK, Entry
  <1>4. CASE UNCHANGED nvars
    BY <1>4 DEF nvars, vars, stage_vars, NIInv, StoredAndPublished,
                PublishedIsCommitted, Delivered, HoldsRow, IsHead
  <1>5. CASE Environment \/ \E d \in Consumer : LoopStep(d)
    <2>1. /\ UNCHANGED stage_vars
          /\ handled' = handled
          /\ \/ XAdd \/ (\E k \in pending : GoIdle(k))
             \/ \E d \in Consumer :
                   \/ Start(d) \/ Poll(d) \/ Reclaim(d) \/ PoisonRaises(d) \/ Ack(d)
                   \/ PollFails(d) \/ ReclaimFails(d) \/ AckFails(d)
      BY <1>5 DEF Environment, LoopStep, XAdd, GoIdle, Start, Poll, Reclaim, PoisonRaises,
                  HandlerRaises, Ack, PollFails, ReclaimFails, AckFails
    <2>2. \A c \in Consumer : HoldsRow(c)'
      BY <2>1, CommittedStays
    <2>3. /\ \A m \in handled' : StoredAndPublished(m)'
          /\ PublishedIsCommitted'
      BY <2>1 DEF stage_vars, NIInv, StoredAndPublished, PublishedIsCommitted
    <2>4. \A r \in rows' : r[1] \in Delivered' \ (NotDict \cup Poison)
      BY <1>2, <2>1 DEF stage_vars, NIInv
    <2>5. QED
      BY <2>2, <2>3, <2>4 DEF NIInv
  <1>6. ASSUME NEW c \in Consumer, CommitRow(c)
        PROVE  NIInv'
    <2>1. PICK m \in batch[c] :
            /\ IsHead(c, m) /\ m \notin NotDict \cup Poison /\ ~returned[c]
            /\ rows' = rows \cup {NewRow(m)}
            /\ committed' = [committed EXCEPT ![c] = NewRow(m)]
            /\ UNCHANGED <<vars, normalized>>
      BY <1>6 DEF CommitRow, BeforeCommit
    <2>2. NewRow(m)[1] = m /\ m \in Delivered
      BY <1>3, <2>1, NewRowType
    <2>3. Delivered' = Delivered /\ handled' = handled
      BY <2>1 DEF vars, Delivered
    <2>4. \A d \in Consumer : HoldsRow(d)'
      BY <2>1, <2>2 DEF NIInv, HoldsRow, vars, IsHead, StageTypeOK
    <2>5. /\ \A k \in handled' : StoredAndPublished(k)'
          /\ PublishedIsCommitted'
      BY <2>1, <2>3 DEF NIInv, StoredAndPublished, PublishedIsCommitted
    <2>6. \A r \in rows' : r[1] \in Delivered' \ (NotDict \cup Poison)
      BY <2>1, <2>2, <2>3 DEF NIInv
    <2>7. QED
      BY <2>4, <2>5, <2>6 DEF NIInv
  <1>7. ASSUME NEW c \in Consumer, PublishNormalized(c)
        PROVE  NIInv'
    <2>1. PICK m \in batch[c] :
            /\ IsHead(c, m)
            /\ returned' = [returned EXCEPT ![c] = TRUE]
            /\ handled' = handled \cup {m}
            /\ UNCHANGED <<group_vars, batch>>
      BY <1>7 DEF PublishNormalized, HandlerOk
    <2>2. /\ committed[c] # NoRow /\ rows' = rows
          /\ normalized' = normalized \cup {committed[c]}
          /\ committed' = [committed EXCEPT ![c] = NoRow]
      BY <1>7 DEF PublishNormalized
    <2>3. committed[c] \in rows /\ committed[c][1] = m
      BY <2>1, <2>2, OneHead DEF NIInv, HoldsRow
    <2>4. Delivered' = Delivered
      BY <2>1 DEF group_vars, Delivered
    <2>5. /\ \A k \in handled' : StoredAndPublished(k)'
          /\ PublishedIsCommitted'
      BY <2>1, <2>2, <2>3 DEF NIInv, StoredAndPublished, PublishedIsCommitted
    <2>6. \A d \in Consumer : HoldsRow(d)'
      BY <2>1, <2>2 DEF NIInv, HoldsRow, IsHead, StageTypeOK, TypeOK
    <2>7. QED
      BY <2>2, <2>4, <2>5, <2>6 DEF NIInv
  <1>8. ASSUME NEW c \in Consumer, CommitFails(c) \/ PublishFails(c)
        PROVE  NIInv'
    <2>1. PICK m \in batch[c] :
            /\ IsHead(c, m) /\ Advance(c, m) /\ ~returned[c]
            /\ m \notin NotDict \cup Poison
            /\ UNCHANGED <<group_vars, handled>>
      BY <1>8 DEF CommitFails, PublishFails, HandlerFails, HandlerRaises
    <2>2. /\ committed' = [committed EXCEPT ![c] = NoRow]
          /\ \/ rows' = rows \cup {NewRow(m)} /\ normalized' = normalized
             \/ rows' = rows /\ normalized' = normalized
             \/ /\ rows' = rows /\ committed[c] # NoRow
                /\ normalized' = normalized \cup {committed[c]}
      <3>1. CASE CommitFails(c)
        <4>1. committed[c] = NoRow /\ committed' = committed /\ normalized' = normalized
          BY <3>1 DEF CommitFails
        <4>2. rows' = rows \/ rows' = rows \cup {NewRow(m)}
          BY <2>1, <3>1, OneHead DEF CommitFails, BeforeCommit
        <4>3. QED
          BY <4>1, <4>2 DEF StageTypeOK
      <3>2. CASE PublishFails(c)
        BY <3>2 DEF PublishFails
      <3>3. QED
        BY <1>8, <3>1, <3>2
    <2>3. NewRow(m)[1] = m /\ m \in Delivered
      BY <1>3, <2>1, NewRowType
    <2>4. committed[c] # NoRow => committed[c] \in rows
      BY DEF NIInv, HoldsRow
    <2>5. Delivered' = Delivered
      BY <2>1 DEF group_vars, Delivered
    <2>6. \A d \in Consumer : d # c =>
             /\ batch'[d] = batch[d] /\ returned'[d] = returned[d]
             /\ committed'[d] = committed[d]
      BY <2>1, <2>2 DEF Advance, TypeOK, StageTypeOK
    <2>7. \A d \in Consumer : HoldsRow(d)'
      BY <2>2, <2>6 DEF NIInv, HoldsRow, IsHead, StageTypeOK
    <2>8. /\ \A k \in handled' : StoredAndPublished(k)'
          /\ PublishedIsCommitted'
      BY <2>1, <2>2, <2>4 DEF NIInv, StoredAndPublished, PublishedIsCommitted
    <2>9. \A r \in rows' : r[1] \in Delivered' \ (NotDict \cup Poison)
      BY <2>1, <2>2, <2>3, <2>5 DEF NIInv
    <2>10. QED
      BY <2>7, <2>8, <2>9 DEF NIInv
  <1>9. ASSUME NEW c \in Consumer, NHalt(c)
        PROVE  NIInv'
    <2>1. /\ batch' = [batch EXCEPT ![c] = {}]
          /\ returned' = [returned EXCEPT ![c] = FALSE]
          /\ committed' = [committed EXCEPT ![c] = NoRow]
          /\ UNCHANGED <<group_vars, handled, rows, normalized>>
      BY <1>9 DEF NHalt, Halt
    <2>2. Delivered' = Delivered
      BY <2>1 DEF group_vars, Delivered
    <2>3. \A d \in Consumer : HoldsRow(d)'
      BY <2>1 DEF NIInv, HoldsRow, IsHead, TypeOK, StageTypeOK
    <2>4. QED
      BY <2>1, <2>2, <2>3 DEF NIInv, StoredAndPublished, PublishedIsCommitted
  <1>10. QED
    BY <1>4, <1>5, <1>6, <1>7, <1>8, <1>9 DEF NNext

THEOREM NInvariance == NSpec => []NIInv
  <1>1. NInit => NIInv
    BY DEF NInit, Init, NIInv, HoldsRow, StoredAndPublished, PublishedIsCommitted
  <1>2. NTypeOK /\ IInv /\ NIInv /\ [NNext]_nvars => NIInv'
    BY NextNIInv
  <1>3. QED
    BY <1>1, <1>2, NTypeCorrect, PTL DEF NSpec

\* Whatever crashes, an acknowledged raw entry has its row in the database and
\* that row in the normalized stream.
THEOREM AcknowledgedIsPublished == NSpec => []AckedIsPublished
  <1>1. IInv /\ NIInv => AckedIsPublished
    BY DEF IInv, NIInv, AckedWasHandled, AckedIsPublished
  <1>2. QED
    BY <1>1, NTypeCorrect, NInvariance, PTL

\* A committed row whose publication failed belongs to an entry the group will
\* hand out again.
THEOREM UnpublishedRetried == NSpec => []UnpublishedIsRetried
  <1>1. NTypeOK /\ IInv /\ NIInv => UnpublishedIsRetried
    <2> SUFFICES ASSUME NTypeOK, IInv, NIInv, NEW r \in rows, r[1] > trimmed
                 PROVE  StoredAndPublished(r[1]) \/ r[1] \in pending
      BY DEF UnpublishedIsRetried, NTypeOK, TypeOK, NIInv, Delivered
    <2>1. r[1] \in Delivered /\ r[1] \notin NotDict
      BY DEF NIInv
    <2>2. r[1] \in acked \cup pending
      BY <2>1 DEF IInv, DeliveredIsTracked, Delivered, Entry, NTypeOK, TypeOK
    <2>3. QED
      BY <2>1, <2>2 DEF IInv, AckedWasHandled, NIInv
  <1>2. QED
    BY <1>1, NTypeCorrect, NInvariance, PTL

\* The normalized stream never names a row that is not committed.
THEOREM PublishedCommitted == NSpec => []PublishedIsCommitted
  <1>1. NIInv => PublishedIsCommitted
    BY DEF NIInv
  <1>2. QED
    BY <1>1, NInvariance, PTL

-----------------------------------------------------------------------------
(* Duplicates                                                              *)

\* Nothing fails, and every entry is dealt with before it has been idle for too long.
Prompt == faults = 0 /\ stale = {}

\* An entry is then in one batch at most, and once it has a row its handler is past the
\* commit.
OnceInv ==
    /\ \A c, d \in Consumer : c # d => batch[c] \cap batch[d] = {}
    /\ \A r \in rows : r[2] = "first"
    /\ \A c \in Consumer : \A m \in batch[c] :
          <<m, "first">> \in rows =>
              IsHead(c, m) /\ (returned[c] \/ committed[c] = <<m, "first">>)

\* A loop that goes on to its next entry drops one from its batch.
LEMMA AdvanceKeepsOnce ==
    ASSUME NTypeOK, OnceInv, NEW c \in Consumer, NEW m \in batch[c], IsHead(c, m),
           Advance(c, m), UNCHANGED stage_vars
    PROVE  OnceInv'
  <1>1. batch'[c] = batch[c] \ {m} /\ returned'[c] = FALSE
    BY DEF Advance, NTypeOK, TypeOK
  <1>2. \A d \in Consumer \ {c} : batch'[d] = batch[d] /\ returned'[d] = returned[d]
    BY DEF Advance, NTypeOK, TypeOK
  <1>3. ASSUME NEW k \in batch'[c] PROVE <<k, "first">> \notin rows
    <2>1. k \in batch[c] /\ k # m
      BY <1>1
    <2>2. ~ IsHead(c, k)
      BY <2>1, OneHead DEF NTypeOK
    <2>3. QED
      BY <2>1, <2>2 DEF OnceInv
  <1>4. ASSUME NEW d \in Consumer, NEW k \in batch'[d], <<k, "first">> \in rows'
        PROVE  IsHead(d, k)' /\ (returned'[d] \/ committed'[d] = <<k, "first">>)
    <2>1. d # c
      BY <1>3, <1>4 DEF stage_vars
    <2>2. QED
      BY <1>2, <1>4, <2>1 DEF OnceInv, stage_vars, IsHead
  <1>5. \A d, e \in Consumer : d # e => batch'[d] \cap batch'[e] = {}
    BY <1>1, <1>2 DEF OnceInv
  <1>6. \A r \in rows' : r[2] = "first"
    BY DEF OnceInv, stage_vars
  <1>7. QED
    BY <1>4, <1>5, <1>6 DEF OnceInv

\* What XREADGROUP hands out was never delivered before.
LEMMA FetchKeepsOnce ==
    ASSUME NTypeOK, IInv, NIInv, OnceInv, NEW c \in Consumer, batch[c] = {},
           NEW S, S \cap Delivered = {}, Fetch(c, S), UNCHANGED stage_vars
    PROVE  OnceInv'
  <1>1. batch'[c] = S /\ \A d \in Consumer \ {c} : batch'[d] = batch[d]
    BY DEF Fetch, NTypeOK, TypeOK
  <1>2. \A d \in Consumer : batch[d] \subseteq Delivered
    BY DEF IInv
  <1>3. \A d, e \in Consumer : d # e => batch'[d] \cap batch'[e] = {}
    BY <1>1, <1>2 DEF OnceInv
  <1>4. \A k \in S : <<k, "first">> \notin rows
    BY DEF NIInv
  <1>5. ASSUME NEW d \in Consumer, NEW k \in batch'[d], <<k, "first">> \in rows'
        PROVE  IsHead(d, k)' /\ (returned'[d] \/ committed'[d] = <<k, "first">>)
    <2>1. d # c
      BY <1>1, <1>4, <1>5 DEF stage_vars
    <2>2. returned' = returned
      BY DEF Fetch
    <2>3. QED
      BY <1>1, <1>5, <2>1, <2>2 DEF OnceInv, stage_vars, IsHead
  <1>6. \A r \in rows' : r[2] = "first"
    BY DEF OnceInv, stage_vars
  <1>7. QED
    BY <1>3, <1>5, <1>6 DEF OnceInv

LEMMA NextOnce ==
    ASSUME NTypeOK, IInv, NIInv, OnceInv, Prompt, Prompt', [NNext]_nvars
    PROVE  OnceInv'
  <1> USE DEF NTypeOK
  <1>1. ASSUME UNCHANGED <<batch, returned, rows, committed>> PROVE OnceInv'
    BY <1>1 DEF OnceInv, IsHead
  <1>2. CASE UNCHANGED nvars
    BY <1>1, <1>2 DEF nvars, vars, stage_vars
  <1>3. CASE Environment
    BY <1>1, <1>3 DEF Environment, stage_vars, XAdd, GoIdle, loop_vars
  <1>4. ASSUME NEW c \in Consumer, LoopStep(c) PROVE OnceInv'
    <2>1. CASE Start(c)
      BY <1>1, <1>4, <2>1 DEF LoopStep, stage_vars, Start
    <2>2. CASE Poll(c)
      <3>1. batch[c] = {} /\ Fetch(c, ReadNew) /\ ReadNewEffect
        BY <2>2 DEF Poll
      <3>2. ReadNew \cap Delivered = {}
        <4>1. ReadNew \subseteq (lastDelivered + 1) .. lastDelivered'
          BY <3>1, ReadNewBounds, ConsumerAssumption
        <4>2. lastDelivered \in Int
          BY DEF TypeOK
        <4>3. QED
          BY <4>1, <4>2 DEF Delivered, TypeOK
      <3>3. QED
        BY <1>4, <3>1, <3>2, FetchKeepsOnce DEF LoopStep
    <2>3. CASE Reclaim(c)
      <3>1. batch[c] = {} /\ Fetch(c, Claimed)
        BY <2>3 DEF Reclaim
      <3>2. Claimed = {}
        <4>1. Scanned \subseteq {m \in pending : m \in stale \/ m <= trimmed}
          BY FirstOfSubset DEF Scanned
        <4>2. \A m \in pending : m \in Int /\ trimmed \in Int
          BY DEF TypeOK, Entry
        <4>3. \A m \in Claimed : m \in pending /\ m <= trimmed /\ m > trimmed
          BY <4>1 DEF Claimed, Prompt
        <4>4. QED
          BY <4>2, <4>3
      <3>3. QED
        BY <1>4, <3>1, <3>2, FetchKeepsOnce DEF LoopStep
    <2>4. CASE PoisonRaises(c) \/ Ack(c)
      <3>1. PICK m \in batch[c] : IsHead(c, m) /\ Advance(c, m)
        BY <2>4 DEF PoisonRaises, HandlerRaises, Ack, MayAck
      <3>2. QED
        BY <1>4, <3>1, AdvanceKeepsOnce DEF LoopStep
    <2>5. CASE PollFails(c) \/ ReclaimFails(c) \/ AckFails(c)
      BY <2>5 DEF PollFails, ReclaimFails, AckFails, Fault, Prompt
    <2>6. QED
      BY <1>4, <2>1, <2>2, <2>3, <2>4, <2>5 DEF LoopStep
  <1>5. ASSUME NEW c \in Consumer, CommitRow(c) PROVE OnceInv'
    <2>1. PICK m \in batch[c] :
            /\ IsHead(c, m) /\ ~returned[c] /\ committed[c] = NoRow
            /\ rows' = rows \cup {NewRow(m)}
            /\ committed' = [committed EXCEPT ![c] = NewRow(m)]
            /\ UNCHANGED vars
      BY <1>5 DEF CommitRow, BeforeCommit
    <2>2. m # 0
      BY <2>1 DEF TypeOK, Entry
    <2>3. <<m, "first">> \notin rows
      BY <2>1, <2>2 DEF OnceInv, NoRow
    <2>4. NewRow(m) = <<m, "first">>
      BY <2>3 DEF NewRow
    <2>5. committed'[c] = <<m, "first">>
          /\ \A d \in Consumer \ {c} : committed'[d] = committed[d]
      BY <2>1, <2>4 DEF StageTypeOK
    <2>6. UNCHANGED <<batch, returned>>
      BY <2>1 DEF vars
    <2>7. ASSUME NEW d \in Consumer, NEW k \in batch'[d], <<k, "first">> \in rows'
          PROVE  IsHead(d, k)' /\ (returned'[d] \/ committed'[d] = <<k, "first">>)
      <3>1. CASE k = m
        <4>1. d = c
          BY <2>1, <2>6, <2>7, <3>1 DEF OnceInv
        <4>2. QED
          BY <2>1, <2>5, <2>6, <3>1, <4>1 DEF IsHead
      <3>2. CASE k # m
        <4>1. <<k, "first">> \in rows /\ k \in batch[d]
          BY <2>1, <2>4, <2>6, <2>7, <3>2
        <4>2. IsHead(d, k) /\ (returned[d] \/ committed[d] = <<k, "first">>)
          BY <4>1 DEF OnceInv
        <4>3. d # c
          BY <2>1, <3>2, <4>2, OneHead
        <4>4. QED
          BY <2>5, <2>6, <4>2, <4>3 DEF IsHead
      <3>3. QED
        BY <3>1, <3>2
    <2>8. \A d, e \in Consumer : d # e => batch'[d] \cap batch'[e] = {}
      BY <2>6 DEF OnceInv
    <2>9. \A r \in rows' : r[2] = "first"
      BY <2>1, <2>4 DEF OnceInv
    <2>10. QED
      BY <2>7, <2>8, <2>9 DEF OnceInv
  <1>6. ASSUME NEW c \in Consumer, PublishNormalized(c) PROVE OnceInv'
    <2>1. /\ returned' = [returned EXCEPT ![c] = TRUE]
          /\ committed' = [committed EXCEPT ![c] = NoRow]
          /\ UNCHANGED <<batch, rows>>
      BY <1>6 DEF PublishNormalized, HandlerOk
    <2>2. QED
      BY <2>1 DEF OnceInv, IsHead, TypeOK, StageTypeOK
  <1>7. ASSUME NEW c \in Consumer, CommitFails(c) \/ PublishFails(c) \/ NHalt(c) PROVE OnceInv'
    BY <1>7 DEF CommitFails, PublishFails, NHalt, HandlerFails, Halt, Fault, Prompt
  <1>8. QED
    BY <1>2, <1>3, <1>4, <1>5, <1>6, <1>7 DEF NNext

\* The comment of the handler is right about its rows while no entry is handled twice: a
\* second row of a stream id takes an error, a death, or a handler that is so slow that
\* its entry is claimed.
THEOREM PromptRowsAreUnique == NSpec /\ []Prompt => []OneRowPerStreamId
  <1>1. NInit => OnceInv
    BY DEF NInit, Init, OnceInv
  <1>2. NTypeOK /\ IInv /\ NIInv /\ OnceInv /\ Prompt /\ Prompt' /\ [NNext]_nvars => OnceInv'
    BY NextOnce
  <1>3. NTypeOK /\ OnceInv => OneRowPerStreamId
    BY DEF NTypeOK, StageTypeOK, OnceInv, OneRowPerStreamId, Row
  <1>4. QED
    BY <1>1, <1>2, <1>3, NTypeCorrect, NInvariance, PTL DEF NSpec

\* Forgetting its rows, the normalization stage promises at-least-once handling: its
\* handler has no say in what the consumer group reads, claims and acknowledges.
THEOREM NormalizationRefines == NSpec => ImplementsAtLeastOnce
  <1>1. NInit => Init
    BY DEF NInit
  <1>2. NSpec => Spec
    BY <1>1, StepOfStream, PTL DEF NSpec, Spec
  <1>3. QED
    BY <1>2, Refinement
===============================================================================
