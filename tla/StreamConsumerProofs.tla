-------------------------- MODULE StreamConsumerProofs --------------------------
(***************************************************************************)
(* Type correctness, the two safety invariants and the refinement of       *)
(* AtLeastOnce, proved for any number of consumers, entries and faults.    *)
(***************************************************************************)
EXTENDS StreamConsumer, TLAPS

\* FirstOf keeps only elements of its argument (COUNT limits, never adds).
LEMMA FirstOfSubset ==
    ASSUME NEW S, NEW n
    PROVE  FirstOf(S, n) \subseteq S
  BY DEF FirstOf

\* What XREADGROUP hands out lies above everything delivered or trimmed, and
\* the last-delivered-id moves to its end.
LEMMA ReadNewBounds ==
    ASSUME TypeOK, ConsumerAssumption, ReadNewEffect
    PROVE  /\ lastDelivered' \in lastDelivered .. published
           /\ ReadNew \subseteq Entry
           /\ ReadNew \subseteq (lastDelivered + 1) .. lastDelivered'
           /\ \A m \in (lastDelivered + 1) .. lastDelivered' :
                 m <= trimmed \/ m \in ReadNew
  BY DEF TypeOK, ConsumerAssumption, ReadNewEffect, ReadNew, Larger, Smaller, Entry

\* XAUTOCLAIM hands out pending entries only and drops only trimmed ones.
LEMMA AutoClaimBounds ==
    ASSUME TypeOK, AutoClaimEffect
    PROVE  /\ Claimed \subseteq pending
           /\ pending' \subseteq pending
           /\ \A m \in pending \ pending' : m <= trimmed
           /\ stale' \subseteq pending'
           /\ lastDelivered' = lastDelivered
  <1>1. Scanned \subseteq pending
    BY FirstOfSubset DEF Scanned
  <1>2. Scanned \ Claimed \subseteq {m \in pending : m <= trimmed}
    <2>1. ASSUME NEW m \in Scanned, m \notin Claimed
          PROVE  m <= trimmed
      BY <1>1, <2>1 DEF Claimed, TypeOK, Entry
    <2>2. QED
      BY <1>1, <2>1
  <1>3. Claimed \subseteq Scanned
    BY DEF Claimed
  <1>4. /\ pending' = pending \ (Scanned \ Claimed)
        /\ stale' = stale \ Scanned
        /\ lastDelivered' = lastDelivered
    BY DEF AutoClaimEffect
  <1>5. stale \subseteq pending
    BY DEF TypeOK
  <1>6. QED
    BY <1>1, <1>2, <1>3, <1>4, <1>5

\* The type invariant holds initially.
LEMMA InitTypeOK == Init => TypeOK
  <1> SUFFICES ASSUME Init PROVE TypeOK
    OBVIOUS
  <1>1. /\ published = 0 /\ trimmed = 0 /\ groupStart = 0 /\ lastDelivered = 0
        /\ group = FALSE /\ faults = 0
        /\ pending = {} /\ stale = {} /\ handled = {} /\ acked = {}
    BY DEF Init
  <1>2. /\ stage \in [Consumer -> {"reclaim", "poll", "down"}]
        /\ batch \in [Consumer -> SUBSET Entry]
        /\ returned \in [Consumer -> BOOLEAN]
    BY DEF Init
  <1>3. /\ published \in Nat /\ faults \in Nat
        /\ trimmed \in 0 .. published
        /\ groupStart \in 0 .. lastDelivered
        /\ lastDelivered \in 0 .. published
    BY <1>1
  <1>4. group \in BOOLEAN
    BY <1>1
  <1>5. QED
    BY <1>1, <1>2, <1>3, <1>4 DEF TypeOK

\* The bookkeeping of the loop keeps its types.
LEMMA LoopTypes ==
    ASSUME TypeOK, NEW c \in Consumer, NEW m, NEW S \in SUBSET Entry,
           Advance(c, m) \/ Fetch(c, S) \/ NoReply(c)
    PROVE  /\ stage' \in [Consumer -> {"reclaim", "poll", "down"}]
           /\ batch' \in [Consumer -> SUBSET Entry]
           /\ returned' \in [Consumer -> BOOLEAN]
  BY DEF TypeOK, Advance, Fetch, NoReply, OtherCall, Entry

\* XACK and the lost or failed variants keep the PEL within the entries.
LEMMA XAckTypes ==
    ASSUME TypeOK, NEW m \in Entry,
           XAckEffect(m) \/ UNCHANGED <<pending, stale, acked>>
    PROVE  /\ pending' \in SUBSET Entry
           /\ stale' \in SUBSET pending'
           /\ acked' \in SUBSET Entry
  <1>1. CASE XAckEffect(m)
    BY <1>1 DEF TypeOK, XAckEffect
  <1>2. CASE UNCHANGED <<pending, stale, acked>>
    BY <1>2 DEF TypeOK
  <1>3. QED
    BY <1>1, <1>2

\* So do the two reading commands.
LEMMA ReadTypes ==
    ASSUME TypeOK,
           \/ ReadNewEffect
           \/ AutoClaimEffect
           \/ UNCHANGED <<pending, lastDelivered, stale>>
    PROVE  /\ lastDelivered' \in lastDelivered .. published
           /\ pending' \in SUBSET Entry
           /\ stale' \in SUBSET pending'
  <1>1. CASE ReadNewEffect
    <2>1. ReadNew \subseteq Entry /\ lastDelivered' \in lastDelivered .. published
      BY <1>1, ReadNewBounds, ConsumerAssumption
    <2>2. pending' = pending \cup ReadNew /\ stale' = stale
      BY <1>1 DEF ReadNewEffect
    <2>3. QED
      BY <2>1, <2>2 DEF TypeOK
  <1>2. CASE AutoClaimEffect
    BY <1>2, AutoClaimBounds DEF TypeOK
  <1>3. CASE UNCHANGED <<pending, lastDelivered, stale>>
    BY <1>3 DEF TypeOK
  <1>4. QED
    BY <1>1, <1>2, <1>3

\* Every step keeps the types.
LEMMA NextTypeOK == TypeOK /\ [Next]_vars => TypeOK'
  <1> SUFFICES ASSUME TypeOK, [Next]_vars PROVE TypeOK'
    OBVIOUS
  <1>1. CASE XAdd
    <2>1. /\ published' \in Nat /\ published' >= published
          /\ trimmed' \in 0 .. published'
      BY <1>1 DEF XAdd, TypeOK
    <2>2. Entry \subseteq Entry' /\ lastDelivered \in 0 .. published'
      BY <2>1 DEF TypeOK, Entry
    <2>3. UNCHANGED <<group_vars, pending, stale, loop_vars, handled, acked, faults>>
      BY <1>1 DEF XAdd
    <2>4. batch' \in [Consumer -> SUBSET Entry']
      BY <2>2, <2>3 DEF TypeOK, loop_vars
    <2>5. QED
      BY <2>1, <2>2, <2>3, <2>4 DEF TypeOK, group_vars, loop_vars
  <1>2. ASSUME NEW c \in Consumer, Start(c)
        PROVE  TypeOK'
    <2>1. CASE group
      BY <1>2, <2>1 DEF Start, TypeOK, group_vars, stream_vars, Entry
    <2>2. CASE ~group
      BY <1>2, <2>2 DEF Start, TypeOK, stream_vars, Entry
    <2>3. QED
      BY <2>1, <2>2
  <1>3. ASSUME NEW c \in Consumer,
               Poll(c) \/ PollFails(c) \/ Reclaim(c) \/ ReclaimFails(c)
        PROVE  TypeOK'
    <2>1. /\ \/ ReadNewEffect
             \/ AutoClaimEffect
             \/ UNCHANGED <<pending, lastDelivered, stale>>
          /\ \E S \in SUBSET Entry : Fetch(c, S) \/ NoReply(c)
      <3>1. CASE Poll(c)
        BY <3>1, ReadNewBounds, ConsumerAssumption DEF Poll
      <3>2. CASE Reclaim(c)
        BY <3>2, AutoClaimBounds DEF Reclaim, TypeOK
      <3>3. CASE PollFails(c) \/ ReclaimFails(c)
        BY <3>3 DEF PollFails, ReclaimFails
      <3>4. QED
        BY <1>3, <3>1, <3>2, <3>3
    <2>2. /\ UNCHANGED <<published, trimmed, group, groupStart, handled, acked>>
          /\ faults' \in Nat
      BY <1>3 DEF Poll, PollFails, Reclaim, ReclaimFails, Fault, stream_vars, TypeOK
    <2>3. /\ stage' \in [Consumer -> {"reclaim", "poll", "down"}]
          /\ batch' \in [Consumer -> SUBSET Entry]
          /\ returned' \in [Consumer -> BOOLEAN]
      BY <2>1, LoopTypes
    <2>4. /\ lastDelivered' \in lastDelivered .. published
          /\ pending' \in SUBSET Entry
          /\ stale' \in SUBSET pending'
      BY <2>1, ReadTypes
    <2>5. QED
      BY <2>2, <2>3, <2>4 DEF TypeOK, Entry
  <1>4. ASSUME NEW c \in Consumer, HandlerOk(c)
        PROVE  TypeOK'
    BY <1>4 DEF HandlerOk, TypeOK, stream_vars, group_vars, Entry
  <1>5. ASSUME NEW c \in Consumer,
               PoisonRaises(c) \/ HandlerFails(c) \/ Ack(c) \/ AckFails(c)
        PROVE  TypeOK'
    <2>1. PICK m \in batch[c] :
              /\ Advance(c, m)
              /\ XAckEffect(m) \/ UNCHANGED <<pending, stale, acked>>
              /\ UNCHANGED <<stream_vars, group_vars, handled>>
      BY <1>5 DEF PoisonRaises, HandlerFails, HandlerRaises, Ack, AckFails
    <2>2. m \in Entry
      BY <2>1 DEF TypeOK
    <2>3. faults' \in Nat
      BY <1>5 DEF PoisonRaises, HandlerFails, Ack, AckFails, Fault, TypeOK
    <2>4. /\ stage' \in [Consumer -> {"reclaim", "poll", "down"}]
          /\ batch' \in [Consumer -> SUBSET Entry]
          /\ returned' \in [Consumer -> BOOLEAN]
      BY <2>1, LoopTypes
    <2>5. /\ pending' \in SUBSET Entry
          /\ stale' \in SUBSET pending'
          /\ acked' \in SUBSET Entry
      BY <2>1, <2>2, XAckTypes
    <2>6. QED
      BY <2>1, <2>3, <2>4, <2>5 DEF TypeOK, stream_vars, group_vars, Entry
  <1>6. ASSUME NEW c \in Consumer, Halt(c)
        PROVE  TypeOK'
    BY <1>6 DEF Halt, Fault, TypeOK, stream_vars, group_vars, Entry
  <1>7. ASSUME NEW m \in pending, GoIdle(m)
        PROVE  TypeOK'
    BY <1>7 DEF GoIdle, TypeOK, stream_vars, group_vars, loop_vars, Entry
  <1>8. CASE UNCHANGED vars
    BY <1>8 DEF vars, TypeOK, Entry
  <1>9. QED
    BY <1>1, <1>2, <1>3, <1>4, <1>5, <1>6, <1>7, <1>8 DEF Next, Work, Misfortune

\* Every reachable state of every instance is well typed.
THEOREM TypeCorrect == Spec => []TypeOK
  <1>1. Init => TypeOK
    BY InitTypeOK
  <1>2. TypeOK /\ [Next]_vars => TypeOK'
    BY NextTypeOK
  <1>3. QED
    BY <1>1, <1>2, PTL DEF Spec

-----------------------------------------------------------------------------
\* The inductive invariant holds initially.
LEMMA InitIInv == Init => IInv
  BY ConsumerAssumption
     DEF Init, IInv, Untouched, Delivered, AckedWasHandled, DeliveredIsTracked, Entry

\* A step that only shrinks batches and clears returned keeps the parts of
\* IInv about the loop.
LEMMA AdvanceLoop ==
    ASSUME TypeOK, IInv, NEW c \in Consumer, NEW m \in batch[c], Advance(c, m),
           UNCHANGED <<handled, groupStart, lastDelivered>>
    PROVE  /\ \A d \in Consumer : batch'[d] \subseteq batch[d]
           /\ \A d \in Consumer : returned'[d] =>
                 /\ batch'[d] # {}
                 /\ \A k \in batch'[d] : IsHead(d, k)' => k \in handled'
  <1>1. /\ batch' = [batch EXCEPT ![c] = batch[c] \ {m}]
        /\ returned' = [returned EXCEPT ![c] = FALSE]
    BY DEF Advance
  <1>2. \A d \in Consumer \ {c} : batch'[d] = batch[d] /\ returned'[d] = returned[d]
    BY <1>1 DEF TypeOK
  <1>3. batch'[c] = batch[c] \ {m} /\ returned'[c] = FALSE
    BY <1>1 DEF TypeOK
  <1>4. QED
    BY <1>2, <1>3 DEF IInv, IsHead

\* A reading command only adds what it delivers, drops only trimmed entries,
\* and hands the consumer delivered, unacknowledged entries.
LEMMA ReadStep ==
    ASSUME TypeOK, IInv, group, NEW S,
           \/ ReadNewEffect /\ S = ReadNew
           \/ AutoClaimEffect /\ S = Claimed
           \/ UNCHANGED <<pending, lastDelivered, stale>> /\ S = {},
           UNCHANGED <<published, trimmed, groupStart, acked, handled>>
    PROVE  /\ pending' \subseteq Delivered'
           /\ Delivered \subseteq Delivered'
           /\ pending' \cap acked = {}
           /\ S \subseteq pending'
           /\ DeliveredIsTracked'
  <1>1. CASE ReadNewEffect /\ S = ReadNew
    <2>1. /\ lastDelivered' \in lastDelivered .. published
          /\ ReadNew \subseteq (lastDelivered + 1) .. lastDelivered'
          /\ \A m \in (lastDelivered + 1) .. lastDelivered' :
                m <= trimmed \/ m \in ReadNew
      BY <1>1, ReadNewBounds, ConsumerAssumption
    <2>2. pending' = pending \cup ReadNew
      BY <1>1 DEF ReadNewEffect
    <2>3. /\ Delivered \subseteq Delivered'
          /\ ReadNew \subseteq Delivered'
          /\ ReadNew \cap Delivered = {}
      BY <2>1 DEF Delivered, TypeOK
    <2>4. pending \cup acked \subseteq Delivered /\ pending \cap acked = {}
      BY DEF IInv
    <2>5. ASSUME NEW m \in Entry, groupStart < m, m <= lastDelivered', m > trimmed
          PROVE  m \in acked \cup pending'
      <3>1. CASE m <= lastDelivered
        BY <2>2, <2>5, <3>1 DEF IInv, DeliveredIsTracked
      <3>2. CASE m > lastDelivered
        BY <2>1, <2>2, <2>5, <3>2 DEF TypeOK, Entry
      <3>3. QED
        BY <3>1, <3>2 DEF TypeOK, Entry
    <2>6. QED
      BY <1>1, <2>2, <2>3, <2>4, <2>5 DEF DeliveredIsTracked, Entry
  <1>2. CASE AutoClaimEffect /\ S = Claimed
    <2>1. /\ pending' \subseteq pending
          /\ \A m \in pending \ pending' : m <= trimmed
          /\ lastDelivered' = lastDelivered
          /\ Claimed \subseteq pending
      BY <1>2, AutoClaimBounds
    <2>2. Claimed \subseteq pending'
      BY <1>2, <2>1 DEF AutoClaimEffect
    <2>3. ASSUME NEW m \in Entry, groupStart < m, m <= lastDelivered, m > trimmed
          PROVE  m \in acked \cup pending'
      BY <2>1, <2>3 DEF IInv, DeliveredIsTracked, TypeOK, Entry
    <2>4. QED
      BY <1>2, <2>1, <2>2, <2>3 DEF IInv, DeliveredIsTracked, Delivered, Entry
  <1>3. CASE UNCHANGED <<pending, lastDelivered, stale>> /\ S = {}
    BY <1>3 DEF IInv, DeliveredIsTracked, Delivered, Entry
  <1>4. QED
    BY <1>1, <1>2, <1>3

\* A dead consumer has no group to read only before the group exists.
LEMMA GroupExists ==
    ASSUME IInv, NEW c \in Consumer, stage[c] # "down" \/ batch[c] # {}
    PROVE  group
  BY DEF IInv, Untouched

\* Every step keeps the inductive invariant.
LEMMA NextIInv == TypeOK /\ IInv /\ [Next]_vars => IInv'
  <1> SUFFICES ASSUME TypeOK, IInv, [Next]_vars PROVE IInv'
    OBVIOUS
  <1>1. CASE XAdd
    <2>1. /\ published' = published + 1 /\ published' <= MaxEntries
          /\ trimmed' \in trimmed .. published + 1
          /\ UNCHANGED <<group_vars, pending, stale, loop_vars, handled, acked>>
      BY <1>1, ConsumerAssumption DEF XAdd, TypeOK
    <2>2. DeliveredIsTracked'
      <3>1. \A m \in Entry' : m <= lastDelivered => m \in Entry
        BY <2>1 DEF TypeOK, Entry
      <3>2. \A m \in Entry' : m > trimmed' => m > trimmed
        BY <2>1 DEF TypeOK, Entry
      <3>3. UNCHANGED <<groupStart, lastDelivered, pending, acked>>
        BY <2>1 DEF group_vars
      <3>4. QED
        BY <3>1, <3>2, <3>3 DEF DeliveredIsTracked, IInv
    <2>3. QED
      BY <2>1, <2>2 DEF IInv, Untouched, Delivered, IsHead, AckedWasHandled,
                        group_vars, loop_vars
  <1>2. ASSUME NEW c \in Consumer, Start(c)
        PROVE  IInv'
    <2>1. /\ UNCHANGED <<published, trimmed, pending, batch, returned, handled, acked>>
          /\ group'
      BY <1>2 DEF Start, stream_vars, group_vars
    <2>2. CASE group
      <3>1. UNCHANGED group_vars
        BY <1>2, <2>2 DEF Start
      <3>2. QED
        BY <2>1, <2>2, <3>1 DEF IInv, Delivered, IsHead, AckedWasHandled,
                                DeliveredIsTracked, Entry, group_vars
    <2>3. CASE ~group
      <3>1. groupStart' = published /\ lastDelivered' = published
        BY <1>2, <2>3 DEF Start
      <3>2. /\ pending = {} /\ acked = {} /\ handled = {}
            /\ \A d \in Consumer : batch[d] = {}
        BY <2>3 DEF IInv, Untouched
      <3>3. DeliveredIsTracked'
        BY <2>1, <3>1 DEF DeliveredIsTracked, Entry, TypeOK
      <3>4. QED
        BY <2>1, <3>1, <3>2, <3>3 DEF IInv, Delivered, IsHead, AckedWasHandled
    <2>4. QED
      BY <2>2, <2>3
  <1>3. ASSUME NEW c \in Consumer,
               Poll(c) \/ PollFails(c) \/ Reclaim(c) \/ ReclaimFails(c)
        PROVE  IInv'
    <2>1. batch[c] = {} /\ group
      BY <1>3, GroupExists DEF Poll, PollFails, Reclaim, ReclaimFails
    <2>2. UNCHANGED <<published, trimmed, group, groupStart, acked, handled, returned>>
      BY <1>3 DEF Poll, PollFails, Reclaim, ReclaimFails, stream_vars, Fetch, NoReply
    <2>3. PICK S :
            /\ \/ ReadNewEffect /\ S = ReadNew
               \/ AutoClaimEffect /\ S = Claimed
               \/ UNCHANGED <<pending, lastDelivered, stale>> /\ S = {}
            /\ batch' = [batch EXCEPT ![c] = S] \/ batch' = batch
      BY <1>3 DEF Poll, PollFails, Reclaim, ReclaimFails, Fetch, NoReply
    <2>4. /\ pending' \subseteq Delivered'
          /\ Delivered \subseteq Delivered'
          /\ pending' \cap acked = {}
          /\ S \subseteq pending'
          /\ DeliveredIsTracked'
      BY <2>1, <2>2, <2>3, ReadStep
    <2>5. \A d \in Consumer : batch'[d] \subseteq Delivered'
      BY <2>3, <2>4 DEF IInv, TypeOK
    <2>6. \A d \in Consumer : returned[d] => batch'[d] = batch[d]
      <3>1. ~returned[c]
        BY <1>3 DEF Poll, PollFails, Reclaim, ReclaimFails, IInv
      <3>2. QED
        BY <2>3, <3>1 DEF TypeOK
    <2>7. QED
      BY <2>1, <2>2, <2>4, <2>5, <2>6 DEF IInv, IsHead, AckedWasHandled
  <1>4. ASSUME NEW c \in Consumer, HandlerOk(c)
        PROVE  IInv'
    <2>1. PICK m \in batch[c] :
            /\ IsHead(c, m)
            /\ returned' = [returned EXCEPT ![c] = TRUE]
            /\ handled' = handled \cup {m}
            /\ UNCHANGED <<stream_vars, group_vars, pending, stale, stage, batch, acked>>
      BY <1>4 DEF HandlerOk
    <2>2. m \in Delivered /\ group
      BY <2>1, GroupExists DEF IInv
    <2>3. \A k \in batch[c] : IsHead(c, k) => k = m
      BY <2>1 DEF IsHead, TypeOK, Entry
    <2>4. QED
      BY <2>1, <2>2, <2>3 DEF IInv, Delivered, IsHead, AckedWasHandled,
            DeliveredIsTracked, Entry, stream_vars, group_vars, TypeOK
  <1>5. ASSUME NEW c \in Consumer,
               PoisonRaises(c) \/ HandlerFails(c) \/ Ack(c) \/ AckFails(c)
        PROVE  IInv'
    <2>1. PICK m \in batch[c] :
            /\ Advance(c, m)
            /\ \/ MayAck(c, m) /\ XAckEffect(m)
               \/ UNCHANGED <<pending, stale, acked>>
            /\ UNCHANGED <<stream_vars, group_vars, handled>>
      BY <1>5 DEF PoisonRaises, HandlerFails, HandlerRaises, Ack, AckFails
    <2>2. group /\ m \in Delivered
      BY <2>1, GroupExists DEF IInv
    <2>3. /\ \A d \in Consumer : batch'[d] \subseteq batch[d]
          /\ \A d \in Consumer : returned'[d] =>
                /\ batch'[d] # {}
                /\ \A k \in batch'[d] : IsHead(d, k)' => k \in handled'
      BY <2>1, AdvanceLoop DEF group_vars
    <2>4. CASE MayAck(c, m) /\ XAckEffect(m)
      <3>1. m \in handled \cup NotDict
        BY <2>4 DEF MayAck, IInv, TypeOK
      <3>2. /\ pending' = pending \ {m}
            /\ acked \subseteq acked' /\ acked' \subseteq acked \cup {m}
            /\ m \in pending => m \in acked'
        BY <2>4 DEF XAckEffect
      <3>3. DeliveredIsTracked'
        BY <2>1, <3>2 DEF DeliveredIsTracked, IInv, Entry, stream_vars, group_vars
      <3>4. QED
        BY <2>1, <2>2, <2>3, <3>1, <3>2, <3>3
           DEF IInv, AckedWasHandled, Delivered, stream_vars, group_vars
    <2>5. CASE UNCHANGED <<pending, stale, acked>>
      BY <2>1, <2>2, <2>3, <2>5 DEF IInv, AckedWasHandled, Delivered,
            DeliveredIsTracked, Entry, stream_vars, group_vars
    <2>6. QED
      BY <2>1, <2>4, <2>5
  <1>6. ASSUME NEW c \in Consumer, Halt(c)
        PROVE  IInv'
    <2>1. group
      BY <1>6, GroupExists DEF Halt
    <2>2. /\ batch' = [batch EXCEPT ![c] = {}]
          /\ returned' = [returned EXCEPT ![c] = FALSE]
          /\ UNCHANGED <<stream_vars, group_vars, pending, stale, handled, acked>>
      BY <1>6 DEF Halt
    <2>3. \A d \in Consumer : /\ batch'[d] \subseteq batch[d]
                              /\ returned'[d] => batch'[d] = batch[d] /\ returned[d]
      BY <2>2 DEF TypeOK
    <2>4. QED
      BY <2>1, <2>2, <2>3 DEF IInv, AckedWasHandled, Delivered, IsHead,
            DeliveredIsTracked, Entry, stream_vars, group_vars
  <1>7. ASSUME NEW m \in pending, GoIdle(m)
        PROVE  IInv'
    BY <1>7 DEF GoIdle, IInv, Untouched, AckedWasHandled, Delivered, IsHead,
                DeliveredIsTracked, Entry, stream_vars, group_vars, loop_vars
  <1>8. CASE UNCHANGED vars
    BY <1>8 DEF vars, IInv, Untouched, AckedWasHandled, Delivered, IsHead,
                DeliveredIsTracked, Entry
  <1>9. QED
    BY <1>1, <1>2, <1>3, <1>4, <1>5, <1>6, <1>7, <1>8 DEF Next, Work, Misfortune

\* The invariant that carries the rest: no interleaving of reads, claims,
\* crashes and acknowledgements leaves it.
THEOREM Invariance == Spec => []IInv
  <1>1. Init => IInv
    BY InitIInv
  <1>2. TypeOK /\ IInv /\ [Next]_vars => IInv'
    BY NextIInv
  <1>3. QED
    BY <1>1, <1>2, TypeCorrect, PTL DEF Spec

\* The head of a batch is unique.
LEMMA OneHead ==
    ASSUME TypeOK, NEW c \in Consumer, NEW m, NEW k, IsHead(c, m), IsHead(c, k)
    PROVE  m = k
  BY DEF IsHead, TypeOK, Entry

\* Once the group exists, no step takes an entry out of Delivered.
LEMMA DeliveredGrows ==
    ASSUME TypeOK, IInv, [Next]_vars, group
    PROVE  Delivered \subseteq Delivered'
  <1>1. CASE \E c \in Consumer :
               Poll(c) \/ PollFails(c) \/ Reclaim(c) \/ ReclaimFails(c)
    <2>1. PICK c \in Consumer :
               Poll(c) \/ PollFails(c) \/ Reclaim(c) \/ ReclaimFails(c)
      BY <1>1
    <2>2. groupStart' = groupStart
      BY <2>1 DEF Poll, PollFails, Reclaim, ReclaimFails
    <2>3. lastDelivered' \in Int /\ lastDelivered <= lastDelivered'
      <3>1. \/ ReadNewEffect
            \/ lastDelivered' = lastDelivered
        BY <2>1 DEF Poll, PollFails, Reclaim, ReclaimFails, AutoClaimEffect
      <3>2. QED
        BY <3>1, ReadNewBounds, ConsumerAssumption DEF TypeOK
    <2>4. QED
      BY <2>2, <2>3 DEF Delivered, TypeOK
  <1>2. CASE ~\E c \in Consumer :
               Poll(c) \/ PollFails(c) \/ Reclaim(c) \/ ReclaimFails(c)
    <2>1. groupStart' = groupStart /\ lastDelivered' = lastDelivered
      BY <1>2 DEF Next, Work, Misfortune, XAdd, Start, HandlerOk, PoisonRaises,
              HandlerFails, HandlerRaises, Ack, AckFails, Halt, GoIdle, group_vars, vars
    <2>2. QED
      BY <2>1 DEF Delivered
  <1>3. QED
    BY <1>1, <1>2

\* A handler that has not returned keeps its batch while others take steps.
LEMMA HandlerKeepsBatch ==
    ASSUME TypeOK, NEW c \in Consumer, NEW m, IsHead(c, m), ~returned[c],
           m \notin NotDict \cup Poison,
           \/ XAdd \/ (\E k \in pending : GoIdle(k))
           \/ \E d \in Consumer :
                 \/ Start(d) \/ Poll(d) \/ Reclaim(d) \/ PoisonRaises(d) \/ Ack(d)
                 \/ PollFails(d) \/ ReclaimFails(d) \/ AckFails(d)
           \/ \E d \in Consumer \ {c} : HandlerOk(d) \/ HandlerFails(d) \/ Halt(d)
    PROVE  batch'[c] = batch[c] /\ returned'[c] = returned[c]
  <1>1. CASE XAdd \/ (\E k \in pending : GoIdle(k)) \/ (\E d \in Consumer : Start(d))
    BY <1>1 DEF XAdd, GoIdle, Start, loop_vars
  <1>2. ASSUME NEW d \in Consumer,
               Poll(d) \/ Reclaim(d) \/ PollFails(d) \/ ReclaimFails(d)
        PROVE  batch'[c] = batch[c] /\ returned'[c] = returned[c]
    <2>1. d # c
      BY <1>2 DEF Poll, Reclaim, PollFails, ReclaimFails, IsHead
    <2>2. QED
      BY <1>2, <2>1 DEF Poll, Reclaim, PollFails, ReclaimFails, Fetch, NoReply, TypeOK
  <1>3. ASSUME NEW d \in Consumer, PoisonRaises(d) \/ Ack(d) \/ AckFails(d)
        PROVE  batch'[c] = batch[c] /\ returned'[c] = returned[c]
    <2>1. PICK k \in batch[d] :
            /\ IsHead(d, k) /\ Advance(d, k)
            /\ k \in Poison \/ returned[d] \/ k \in NotDict
      BY <1>3 DEF PoisonRaises, HandlerRaises, Ack, AckFails, MayAck
    <2>2. d # c
      BY <2>1, OneHead
    <2>3. QED
      BY <2>1, <2>2 DEF Advance, TypeOK
  <1>4. ASSUME NEW d \in Consumer \ {c}, HandlerOk(d) \/ HandlerFails(d) \/ Halt(d)
        PROVE  batch'[c] = batch[c] /\ returned'[c] = returned[c]
    BY <1>4 DEF HandlerOk, HandlerFails, HandlerRaises, Halt, Advance, TypeOK
  <1>5. QED
    BY <1>1, <1>2, <1>3, <1>4

\* _process acknowledges only what a handler completed (or discarded).
THEOREM AcknowledgedWasHandled == Spec => []AckedWasHandled
  <1>1. IInv => AckedWasHandled
    BY DEF IInv
  <1>2. QED
    BY <1>1, Invariance, PTL

\* No crash, lost reply or failed handler makes the group forget an entry that
\* was delivered and is still in the stream.
THEOREM NothingForgotten == Spec => []DeliveredIsTracked
  <1>1. IInv => DeliveredIsTracked
    BY DEF IInv
  <1>2. QED
    BY <1>1, Invariance, PTL

\* An acknowledged entry is never handed to a consumer again: reads hand out
\* entries above the last-delivered-id, claims hand out entries of the PEL.
THEOREM NoRefetch == Spec => NeverRefetched
  <1>1. ASSUME TypeOK, IInv, [Next]_vars, NEW c \in Consumer
        PROVE  (batch'[c] \ batch[c]) \cap acked = {}
    <2>1. ASSUME NEW d \in Consumer, Poll(d)
          PROVE  (batch'[c] \ batch[c]) \cap acked = {}
      <3>1. ReadNew \cap acked = {}
        BY <1>1, <2>1, ReadNewBounds, ConsumerAssumption
           DEF Poll, IInv, Delivered, TypeOK, Entry
      <3>2. batch' = [batch EXCEPT ![d] = ReadNew]
        BY <2>1 DEF Poll, Fetch
      <3>3. QED
        BY <1>1, <3>1, <3>2 DEF TypeOK
    <2>2. ASSUME NEW d \in Consumer, Reclaim(d)
          PROVE  (batch'[c] \ batch[c]) \cap acked = {}
      <3>1. Claimed \cap acked = {}
        BY <1>1, <2>2, AutoClaimBounds DEF Reclaim, IInv
      <3>2. batch' = [batch EXCEPT ![d] = Claimed]
        BY <2>2 DEF Reclaim, Fetch
      <3>3. QED
        BY <1>1, <3>1, <3>2 DEF TypeOK
    <2>3. ASSUME NEW d \in Consumer, PollFails(d) \/ ReclaimFails(d) \/ HandlerOk(d) \/ Start(d)
          PROVE  (batch'[c] \ batch[c]) \cap acked = {}
      BY <2>3 DEF PollFails, ReclaimFails, NoReply, HandlerOk, Start
    <2>4. ASSUME NEW d \in Consumer,
                 PoisonRaises(d) \/ HandlerFails(d) \/ Ack(d) \/ AckFails(d) \/ Halt(d)
          PROVE  (batch'[c] \ batch[c]) \cap acked = {}
      <3>1. \E S : batch' = [batch EXCEPT ![d] = batch[d] \ S]
        <4>1. CASE Halt(d)
          BY <4>1 DEF Halt
        <4>2. CASE PoisonRaises(d) \/ HandlerFails(d) \/ Ack(d) \/ AckFails(d)
          BY <4>2 DEF PoisonRaises, HandlerFails, HandlerRaises, Ack, AckFails, Advance
        <4>3. QED
          BY <2>4, <4>1, <4>2
      <3>2. QED
        BY <1>1, <3>1 DEF TypeOK
    <2>5. CASE XAdd \/ UNCHANGED vars \/ (\E m \in pending : GoIdle(m))
      BY <2>5 DEF XAdd, GoIdle, vars, loop_vars
    <2>6. QED
      BY <1>1, <2>1, <2>2, <2>3, <2>4, <2>5 DEF Next, Work, Misfortune
  <1>2. TypeOK /\ IInv /\ [Next]_vars
          => [\A c \in Consumer : (batch'[c] \ batch[c]) \cap acked = {}]_vars
    BY <1>1
  <1>3. QED
    BY <1>2, TypeCorrect, Invariance, PTL DEF Spec, NeverRefetched

-----------------------------------------------------------------------------
\* Every step of the consumer group is a step of AtLeastOnce or leaves its
\* state alone.
LEMMA StepRefines ==
    ASSUME TypeOK, IInv, TypeOK', IInv', [Next]_vars
    PROVE  [Delivery!ANext]_(Delivery!avars)
  <1> USE DEF Delivery!ANext, Delivery!avars, Delivery!Offer, Delivery!Complete,
              Delivery!Settle
  <1> DEFINE Still == UNCHANGED <<OfferedEntries, handled, acked>>
  <1>0. Delivered \subseteq OfferedEntries \/ ~group
    BY DEF Delivered, OfferedEntries, TypeOK
  <1>1. CASE XAdd
    <2>1. /\ published' = published + 1 /\ published' \in 1 .. MaxEntries
          /\ UNCHANGED <<group, groupStart, handled, acked>>
      BY <1>1, ConsumerAssumption DEF XAdd, group_vars, TypeOK
    <2>2. CASE group
      <3>1. /\ published' \notin OfferedEntries
            /\ OfferedEntries' = OfferedEntries \cup {published'}
        BY <2>1, <2>2 DEF OfferedEntries, TypeOK
      <3>2. QED
        BY <2>1, <3>1
    <2>3. CASE ~group
      BY <2>1, <2>3 DEF OfferedEntries
    <2>4. QED
      BY <2>2, <2>3
  <1>2. ASSUME NEW c \in Consumer, Start(c)
        PROVE  Still
    <2>1. UNCHANGED <<published, handled, acked>>
      BY <1>2 DEF Start, stream_vars
    <2>2. UNCHANGED OfferedEntries
      BY <1>2, <2>1 DEF Start, group_vars, OfferedEntries, TypeOK
    <2>3. QED
      BY <2>1, <2>2
  <1>3. ASSUME NEW c \in Consumer,
               \/ Poll(c) \/ PollFails(c) \/ Reclaim(c) \/ ReclaimFails(c)
               \/ PoisonRaises(c) \/ HandlerFails(c) \/ Halt(c)
        PROVE  Still
    BY <1>3 DEF Poll, PollFails, Reclaim, ReclaimFails, PoisonRaises, HandlerFails,
                HandlerRaises, Halt, stream_vars, group_vars, OfferedEntries
  <1>4. ASSUME NEW c \in Consumer, HandlerOk(c)
        PROVE  \E m \in 1 .. MaxEntries : Delivery!Complete(m)
    <2>1. PICK m \in batch[c] :
            /\ handled' = handled \cup {m}
            /\ UNCHANGED <<stream_vars, group_vars, acked>>
      BY <1>4 DEF HandlerOk
    <2>2. m \in OfferedEntries
      BY <1>0, <2>1, GroupExists DEF IInv
    <2>3. m \in 1 .. MaxEntries
      BY <2>1, ConsumerAssumption DEF TypeOK, Entry, IInv
    <2>4. UNCHANGED OfferedEntries
      BY <2>1 DEF OfferedEntries, stream_vars, group_vars
    <2>5. QED
      BY <2>1, <2>2, <2>3, <2>4
  <1>5. ASSUME NEW c \in Consumer, Ack(c) \/ AckFails(c)
        PROVE  Still \/ \E m \in 1 .. MaxEntries : Delivery!Settle(m)
    <2>1. PICK m \in batch[c] :
            /\ MayAck(c, m)
            /\ XAckEffect(m) \/ UNCHANGED acked
            /\ UNCHANGED <<stream_vars, group_vars, handled>>
      BY <1>5 DEF Ack, AckFails
    <2>2. m \in handled \cup NotDict
      BY <2>1 DEF MayAck, IInv
    <2>3. m \in OfferedEntries
      BY <1>0, <2>1, GroupExists DEF IInv
    <2>4. m \in 1 .. MaxEntries
      BY <2>1, ConsumerAssumption DEF TypeOK, Entry, IInv
    <2>5. UNCHANGED OfferedEntries
      BY <2>1 DEF OfferedEntries, stream_vars, group_vars
    <2>6. acked' = acked \/ (acked' = acked \cup {m} /\ m \notin acked)
      BY <2>1 DEF XAckEffect, IInv
    <2>7. QED
      BY <2>1, <2>2, <2>3, <2>4, <2>5, <2>6
  <1>6. CASE UNCHANGED vars \/ (\E m \in pending : GoIdle(m))
    BY <1>6 DEF vars, GoIdle, stream_vars, group_vars, OfferedEntries
  <1>7. QED
    BY <1>1, <1>2, <1>3, <1>4, <1>5, <1>6 DEF Next, Work, Misfortune

\* The consumer group implements at-least-once delivery, for any number of
\* consumers, entries, crashes and failures.
THEOREM Refinement == Spec => ImplementsAtLeastOnce
  <1>1. Init => Delivery!AInit
    BY DEF Init, Delivery!AInit, OfferedEntries
  <1>2. TypeOK /\ IInv /\ TypeOK' /\ IInv' /\ [Next]_vars
          => [Delivery!ANext]_(Delivery!avars)
    BY StepRefines
  <1>3. QED
    BY <1>1, <1>2, TypeCorrect, Invariance, PTL
       DEF Spec, ImplementsAtLeastOnce, Delivery!ASpec
==============================================================================
