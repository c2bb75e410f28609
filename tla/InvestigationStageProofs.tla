------------------------ MODULE InvestigationStageProofs ------------------------
(***************************************************************************)
(* The safety invariants of the investigation stage: those that hold       *)
(* whatever fails and however handlers and playbook tasks overlap, and     *)
(* those of behaviours in which no handler fails or overlaps another;      *)
(* proved for any number of consumers, entries, events and investigations. *)
(***************************************************************************)
EXTENDS InvestigationStage, StreamConsumerProofs

\* A step of the stage is a step of its consumer group or stutters there.
LEMMA InvStepOfStream == [InvNext]_ivars => [Next]_vars
  BY DEF InvNext, ivars, LoopOnly, Around, Handler, PlaybookTask, AddMember, AddSnapshot,
         PublishCorrelated, SnapshotExpires, AlertStored, ChangeStatus, ReadMembers,
         ReadSnapshots, NothingToInvestigate, CheckIsNew, Persist, PersistFails, Notify,
         Analyse, PublishResult, PublishFails, ReadFails, IHalt, StartPlaybook, SkipPlaybook,
         FinishPlaybook, Working, TaskStep, Next, Work, Misfortune

\* What an entry in a batch says of the constants and of the group's keys.
LEMMA EntryFacts ==
    ASSUME InvTypeOK, IInv, InvInvariant, NEW c \in Consumer, NEW m \in batch[c]
    PROVE  /\ m \in 1 .. MaxEntries
           /\ GroupOf[m] \in Investigation /\ EventOf[m] \in Event
           /\ Item(m) = <<GroupOf[m], EventOf[m]>>
           /\ Item(m) \in snapshots \cup expired
           /\ Item(m) \in members
  <1>1. m \in Entry /\ m \in 1 .. MaxEntries
    BY ConsumerAssumption DEF InvTypeOK, TypeOK, IInv, Entry
  <1>2. Item(m) \in snapshots \cup expired
    BY <1>1 DEF InvInvariant
  <1>3. QED
    BY <1>1, <1>2, InvestigationAssumption DEF Item, InvTypeOK, StoreTypeOK

\* Every transition leads to a status.
LEMMA Transitions ==
    ASSUME NEW s \in Status
    PROVE  StatusTransitions[s] \subseteq Status
  <1>1. Status = {"new", "active", "triaged", "investigating", "contained", "resolved",
                  "closed", "false_positive"}
    BY DEF Status, StatusTransitions
  <1>2. QED
    BY <1>1 DEF StatusTransitions

\* The invariant holds initially.
LEMMA InitInv == InvInit => InvTypeOK /\ InvInvariant
  <1> SUFFICES ASSUME InvInit PROVE InvTypeOK /\ InvInvariant
    OBVIOUS
  <1>1. TypeOK
    BY InitTypeOK DEF InvInit
  <1>3. StoreTypeOK
    BY DEF InvInit, StoreTypeOK
  <1>4. TaskTypeOK /\ InvHandlerTypeOK
    BY DEF InvInit, None, TaskTypeOK, InvHandlerTypeOK
  <1>5. missed \subseteq 1 .. MaxEntries /\ overlapped \in BOOLEAN /\ changes \in Nat
        /\ errors \in Nat
    BY DEF InvInit
  <1>6. \A m \in Entry : Item(m) \in snapshots \cup expired
    BY DEF InvInit, Init, Entry
  <1>7. handled = {} /\ \A c \in Consumer : InHand(c)
    BY DEF InvInit, Init, InHand
  <1>8. \A i \in Investigation : OneTask(i)
    BY DEF InvInit, None, OneTask
  <1>9. QED
    BY <1>1, <1>3, <1>4, <1>5, <1>6, <1>7, <1>8 DEF InvTypeOK, InvInvariant

\* A handler keeps its event in hand while others step.
LEMMA OthersInHand ==
    ASSUME NEW d \in Consumer, InHand(d), expired \subseteq expired',
           at'[d] = at[d], seen'[d] = seen[d],
           at[d] # "idle" => batch'[d] = batch[d] /\ returned'[d] = returned[d]
    PROVE  InHand(d)'
  BY DEF InHand, Handling, IsHead

\* A report of an entry stands.
LEMMA ReportStands ==
    ASSUME NEW m, Reported(m), missed \subseteq missed', expired \subseteq expired',
           results \subseteq results'
    PROVE  Reported(m)'
  BY DEF Reported

\* A handler resets its variables when it ends.
LEMMA LeaveFacts ==
    ASSUME InvHandlerTypeOK, NEW c \in Consumer, LeaveHandler(c)
    PROVE  /\ InvHandlerTypeOK'
           /\ at'[c] = "idle"
           /\ \A d \in Consumer \ {c} : at'[d] = at[d] /\ seen'[d] = seen[d]
  BY DEF InvHandlerTypeOK, LeaveHandler

-----------------------------------------------------------------------------
\* The workers around: the group only grows, and the handlers do not notice.
LEMMA AroundKeeps ==
    ASSUME InvTypeOK, IInv, InvInvariant, TypeOK', Around
    PROVE  InvTypeOK' /\ InvInvariant'
  <1> USE DEF InvTypeOK
  <1>1. UNCHANGED <<results, task_vars, handler_vars, missed, overlapped, batch, returned,
                    handled>>
    BY DEF Around, AddMember, AddSnapshot, PublishCorrelated, XAdd, SnapshotExpires, AlertStored,
           ChangeStatus, vars, loop_vars
  <1>2. /\ snapshots \cup expired \subseteq snapshots' \cup expired'
        /\ expired \subseteq expired'
    BY DEF Around, AddMember, AddSnapshot, PublishCorrelated, SnapshotExpires, AlertStored,
           ChangeStatus, group_store
  <1>3. \A p \in Items : p \in Investigation \X Event
    BY InvestigationAssumption DEF Items, Item
  <1>4. /\ members' \subseteq Investigation \X Event
        /\ snapshots' \subseteq members'
        /\ expired' \subseteq members' \ snapshots'
        /\ alerts' \subseteq Alerting
        /\ changes' \in Nat /\ errors' \in Nat
    BY <1>3 DEF Around, AddMember, AddSnapshot, PublishCorrelated, SnapshotExpires, AlertStored,
           ChangeStatus, StoreTypeOK, group_store, tally
  <1>5. row' \in [Investigation -> Row \cup {NoRow}]
    <2>1. CASE ChangeStatus
      <3>1. PICK i \in Investigation :
              /\ row[i] # NoRow
              /\ \E s \in StatusTransitions[row[i].status] \cap Chosen :
                    row' = [row EXCEPT ![i].status = s]
        BY <2>1 DEF ChangeStatus
      <3>2. PICK s \in StatusTransitions[row[i].status] \cap Chosen :
              row' = [row EXCEPT ![i].status = s]
        BY <3>1
      <3>3. row[i] \in Row /\ row[i].status \in Status
        BY <3>1 DEF StoreTypeOK, Row
      <3>4. s \in Status
        BY <3>2, <3>3, Transitions
      <3>5. [row[i] EXCEPT !.status = s] \in Row
        BY <3>3, <3>4 DEF Row
      <3>6. QED
        BY <3>2, <3>5 DEF StoreTypeOK
    <2>2. CASE row' = row
      BY <2>2 DEF StoreTypeOK
    <2>3. QED
      BY <2>1, <2>2 DEF Around, AddMember, AddSnapshot, PublishCorrelated, SnapshotExpires,
            AlertStored
  <1>6. StoreTypeOK'
    BY <1>1, <1>4, <1>5 DEF StoreTypeOK
  <1>7. TaskTypeOK' /\ InvHandlerTypeOK'
    BY <1>1 DEF TaskTypeOK, InvHandlerTypeOK, task_vars, handler_vars
  <1>8. \A m \in Entry' : Item(m) \in snapshots' \cup expired'
    <2>1. CASE PublishCorrelated
      <3>1. \A m \in Entry' : m \in Entry \/ m = published + 1
        BY <2>1 DEF PublishCorrelated, XAdd, Entry, TypeOK
      <3>2. QED
        BY <1>2, <2>1, <3>1 DEF PublishCorrelated, InvInvariant
    <2>2. CASE published' = published
      BY <1>2, <2>2 DEF InvInvariant, Entry
    <2>3. QED
      BY <2>1, <2>2 DEF Around, AddMember, AddSnapshot, SnapshotExpires, AlertStored,
            ChangeStatus, vars
  <1>9. \A m \in handled' : Reported(m)'
    BY <1>1, <1>2, ReportStands DEF InvInvariant
  <1>10. \A c \in Consumer : InHand(c)'
    BY <1>1, <1>2, OthersInHand DEF InvInvariant, handler_vars
  <1>11. \A i \in Investigation \ crowded' : OneTask(i)'
    BY <1>1 DEF InvInvariant, OneTask, task_vars
  <1>12. QED
    BY <1>1, <1>4, <1>6, <1>7, <1>8, <1>9, <1>10, <1>11 DEF InvInvariant

-----------------------------------------------------------------------------
\* What an upsert and an analysis write is a row.
LEMMA UpsertedIsRow ==
    ASSUME InvTypeOK, NEW c \in Consumer, NEW i \in Investigation
    PROVE  Upserted(c, i) \in Row
  <1>1. InitialStatus(score[c]) \in Status
    BY DEF InitialStatus, Status, StatusTransitions
  <1>2. /\ row[i] \in Row \cup {NoRow} /\ seen[c] \in SUBSET Event
        /\ seen[c] \cap alerts \in SUBSET Event
    BY DEF InvTypeOK, StoreTypeOK, InvHandlerTypeOK
  <1>3. NoRow \in [events : SUBSET Event, analysed : SUBSET Event, linked : SUBSET Event,
                   status : Status \cup {"none"}]
    BY DEF NoRow
  <1>4. row[i] \in [events : SUBSET Event, analysed : SUBSET Event, linked : SUBSET Event,
                    status : Status \cup {"none"}]
    BY <1>2, <1>3 DEF Row
  <1>5. QED
    BY <1>1, <1>2, <1>4 DEF Upserted, Row

\* The steps of a handler before it returns: the stream stays.
Command(c) ==
    \/ ReadMembers(c) \/ ReadSnapshots(c) \/ CheckIsNew(c) \/ Persist(c) \/ PersistFails(c)
    \/ Notify(c) \/ Analyse(c)

\* They keep the types and their event in hand.
LEMMA CommandKeeps ==
    ASSUME InvTypeOK, IInv, InvInvariant, NEW c \in Consumer, Command(c)
    PROVE  InvTypeOK' /\ InvInvariant'
  <1>1. PICK m \in batch[c] :
          /\ Handling(c, m)
          /\ \/ ReadMembers(c) /\ Doing(c, m, "idle")
             \/ ReadSnapshots(c) /\ Doing(c, m, "fetch")
             \/ CheckIsNew(c) /\ Doing(c, m, "check")
             \/ Persist(c) /\ Doing(c, m, "persist")
             \/ PersistFails(c) /\ at[c] \in {"check", "persist"}
             \/ Notify(c) /\ Doing(c, m, "notify")
             \/ Analyse(c) /\ Doing(c, m, "analyse")
    BY DEF Command, ReadMembers, ReadSnapshots, CheckIsNew, Persist, PersistFails, Notify, Analyse,
           Doing
  <1>2. /\ m \in 1 .. MaxEntries /\ GroupOf[m] \in Investigation /\ EventOf[m] \in Event
        /\ Item(m) = <<GroupOf[m], EventOf[m]>>
        /\ Item(m) \in snapshots \cup expired /\ Item(m) \in members
    BY EntryFacts
  <1>3. \A k \in batch[c] : Handling(c, k) => k = m
    BY <1>1, OneHead DEF Handling, InvTypeOK
  <1>4. at[c] # "idle" => EventOf[m] \in seen[c] \/ Item(m) \in expired
    BY <1>1, <1>3 DEF InvInvariant, InHand
  <1>5. /\ UNCHANGED <<vars, group_store, alerts, changes>>
        /\ UNCHANGED <<results, playbooks, generating, crowded>>
        /\ missed \subseteq missed'
    BY DEF Command, ReadMembers, ReadSnapshots, CheckIsNew, Persist, PersistFails, Notify, Analyse,
           Working, task_vars, tally
  <1>6. /\ batch' = batch /\ returned' = returned /\ handled' = handled
        /\ published' = published /\ expired' = expired /\ snapshots' = snapshots
        /\ members' = members /\ alerts' = alerts
    BY <1>5 DEF vars, group_store
  <1>7. TypeOK'
    BY <1>5 DEF InvTypeOK, TypeOK, vars, Entry
  <1>8. \A d \in Consumer \ {c} : at'[d] = at[d] /\ seen'[d] = seen[d]
    BY DEF Command, ReadMembers, ReadSnapshots, CheckIsNew, Persist, PersistFails, Notify, Analyse,
           GoTo, InvTypeOK, InvHandlerTypeOK
  <1>9. /\ missed' \subseteq 1 .. MaxEntries /\ overlapped' \in BOOLEAN
        /\ changes' \in Nat /\ errors' \in Nat
    <2>1. missed' \in {missed, missed \cup {m}}
      BY <1>3, <1>5 DEF Command, ReadMembers, ReadSnapshots, CheckIsNew, Persist, PersistFails,
            Notify, Analyse
    <2>2. overlapped' \in BOOLEAN
      BY DEF Command, ReadMembers, ReadSnapshots, CheckIsNew, Persist, PersistFails, Notify,
             Analyse, InvTypeOK
    <2>3. errors' \in Nat
      <3>1. CASE PersistFails(c)
        <4>1. errors' = errors + 1
          BY <3>1 DEF PersistFails
        <4>2. QED
          BY <4>1 DEF InvTypeOK
      <3>2. CASE Working
        BY <3>2 DEF Working, tally, InvTypeOK
      <3>3. QED
        BY <3>1, <3>2 DEF Command, ReadMembers, ReadSnapshots, CheckIsNew, Persist, Notify, Analyse
    <2>4. QED
      BY <1>2, <1>5, <2>1, <2>2, <2>3 DEF InvTypeOK
  <1>10. row' \in [Investigation -> Row \cup {NoRow}]
    <2>1. CASE row' = row
      BY <2>1 DEF InvTypeOK, StoreTypeOK
    <2>2. CASE row' = [row EXCEPT ![GroupOf[m]] = Upserted(c, GroupOf[m])]
      BY <1>2, <2>2, UpsertedIsRow DEF InvTypeOK, StoreTypeOK
    <2>3. CASE /\ row[GroupOf[m]] # NoRow
               /\ row' = [row EXCEPT ![GroupOf[m]].analysed = seen[c]]
      <3>1. row[GroupOf[m]] \in Row /\ seen[c] \in SUBSET Event
        BY <1>2, <2>3 DEF InvTypeOK, StoreTypeOK, InvHandlerTypeOK
      <3>2. [row[GroupOf[m]] EXCEPT !.analysed = seen[c]] \in Row
        BY <3>1 DEF Row
      <3>3. QED
        BY <1>2, <2>3, <3>2 DEF InvTypeOK, StoreTypeOK
    <2>4. QED
      BY <1>3, <2>1, <2>2, <2>3 DEF Command, ReadMembers, ReadSnapshots, CheckIsNew, Persist,
            PersistFails, Notify, Analyse, Doing
  <1>11. StoreTypeOK'
    BY <1>5, <1>6, <1>10 DEF InvTypeOK, StoreTypeOK
  <1>12. TaskTypeOK'
    <2>1. CASE Notify(c)
      <3>1. /\ notices' \in {notices, [notices EXCEPT ![GroupOf[m]] = @ + 1]}
            /\ waiting' \in {waiting, [waiting EXCEPT ![c][GroupOf[m]] = @ + 1]}
        BY <1>3, <2>1 DEF Notify, Doing
      <3>2. notices' \in [Investigation -> Nat]
        BY <1>2, <3>1 DEF InvTypeOK, TaskTypeOK
      <3>3. waiting' \in [Consumer -> [Investigation -> Nat]]
        BY <1>2, <3>1 DEF InvTypeOK, TaskTypeOK
      <3>4. QED
        BY <1>5, <3>2, <3>3 DEF InvTypeOK, TaskTypeOK
    <2>2. CASE UNCHANGED task_vars
      BY <2>2 DEF InvTypeOK, TaskTypeOK, task_vars
    <2>3. QED
      BY <2>1, <2>2 DEF Command, ReadMembers, ReadSnapshots, CheckIsNew, Persist, PersistFails,
            Analyse
  <1>13. InvHandlerTypeOK'
    <2>1. \E p \in {"fetch", "check", "persist", "notify", "analyse", "publish"} :
             at' = [at EXCEPT ![c] = p]
      BY DEF Command, ReadMembers, ReadSnapshots, CheckIsNew, Persist, PersistFails, Notify,
             Analyse, GoTo
    <2>2. \E S \in SUBSET Event : seen' = [seen EXCEPT ![c] = S]
      <3>1. Of(GroupOf[m], members) \in SUBSET Event
        BY DEF Of
      <3>2. seen[c] \in SUBSET Event /\ seen = [seen EXCEPT ![c] = seen[c]]
        BY DEF InvTypeOK, InvHandlerTypeOK
      <3>3. seen' \in {seen, [seen EXCEPT ![c] = Of(GroupOf[m], members)],
                       [seen EXCEPT ![c] = seen[c] \cap Of(GroupOf[m], snapshots)]}
        BY <1>3 DEF Command, ReadMembers, ReadSnapshots, CheckIsNew, Persist, PersistFails, Notify,
             Analyse, Doing
      <3>4. QED
        BY <3>1, <3>2, <3>3
    <2>3. fresh' \in [Consumer -> BOOLEAN]
      BY DEF Command, ReadMembers, ReadSnapshots, CheckIsNew, Persist, PersistFails, Notify,
             Analyse, InvTypeOK, InvHandlerTypeOK
    <2>4. score' \in [Consumer -> 0 .. 100]
      BY InvestigationAssumption
         DEF Command, ReadMembers, ReadSnapshots, CheckIsNew, Persist, PersistFails, Notify,
             Analyse, InvTypeOK, InvHandlerTypeOK
    <2>5. QED
      BY <2>1, <2>2, <2>3, <2>4 DEF InvTypeOK, InvHandlerTypeOK
  <1>14. InHand(c)'
    <2>1. Handling(c, m)' /\ m \in batch'[c]
      BY <1>1, <1>6 DEF Handling, IsHead
    <2>2. EventOf[m] \in seen'[c] \/ Item(m) \in expired
      <3>1. CASE ReadMembers(c)
        <4>1. seen' = [seen EXCEPT ![c] = Of(GroupOf[m], members)]
          BY <1>3, <3>1 DEF ReadMembers, Doing
        <4>2. QED
          BY <1>2, <4>1 DEF Of, InvTypeOK, InvHandlerTypeOK
      <3>2. CASE ReadSnapshots(c)
        <4>1. /\ seen' = [seen EXCEPT ![c] = seen[c] \cap Of(GroupOf[m], snapshots)]
              /\ at[c] # "idle"
          BY <1>3, <3>2 DEF ReadSnapshots, Doing
        <4>2. QED
          BY <1>2, <1>4, <4>1 DEF Of, InvTypeOK, InvHandlerTypeOK
      <3>3. CASE seen' = seen /\ at[c] # "idle"
        BY <1>4, <3>3
      <3>4. QED
        BY <3>1, <3>2, <3>3 DEF Command, CheckIsNew, Persist, PersistFails, Notify, Analyse, Doing
    <2>3. QED
      BY <1>6, <2>1, <2>2 DEF InHand, Item
  <1>15. \A d \in Consumer : InHand(d)'
    BY <1>6, <1>8, <1>14, OthersInHand DEF InvInvariant
  <1>16. \A k \in handled' : Reported(k)'
    BY <1>5, <1>6, ReportStands DEF InvInvariant
  <1>17. \A i \in Investigation \ crowded' : OneTask(i)'
    BY <1>5 DEF InvInvariant, OneTask
  <1>18. \A k \in Entry' : Item(k) \in snapshots' \cup expired'
    BY <1>6 DEF InvInvariant, Entry
  <1>19. QED
    BY <1>7, <1>9, <1>11, <1>12, <1>13, <1>15, <1>16, <1>17, <1>18 DEF InvTypeOK, InvInvariant

-----------------------------------------------------------------------------
\* The handler returns or raises, or its process dies.
Leave(c) ==
    \/ NothingToInvestigate(c) \/ PublishResult(c) \/ PublishFails(c) \/ ReadFails(c)
    \/ IHalt(c)

LEMMA LeaveKeeps ==
    ASSUME InvTypeOK, IInv, InvInvariant, TypeOK', NEW c \in Consumer, Leave(c)
    PROVE  InvTypeOK' /\ InvInvariant'
  <1>1. (LeaveHandler(c) /\ HandlerOk(c)) \/ HandlerFails(c) \/ Halt(c)
    BY DEF Leave, NothingToInvestigate, PublishResult, PublishFails, ReadFails, IHalt
  <1>2. LeaveHandler(c)
    BY DEF Leave, NothingToInvestigate, PublishResult, PublishFails, ReadFails, IHalt
  <1>3. /\ UNCHANGED <<published, group_store, alerts, row, playbooks, notices, crowded,
                       overlapped, changes>>
        /\ errors' \in Nat
        /\ \/ UNCHANGED <<waiting, generating>>
           \/ /\ waiting' = [waiting EXCEPT ![c] = [i \in Investigation |-> 0]]
              /\ generating' = [generating EXCEPT ![c] = [i \in Investigation |-> 0]]
        /\ missed \subseteq missed' /\ results \subseteq results'
    BY DEF Leave, NothingToInvestigate, PublishResult, PublishFails, ReadFails, IHalt, HandlerOk,
           HandlerFails, HandlerRaises, Halt, stream_vars, task_vars, tally, InvTypeOK
  <1>4. \A d \in Consumer \ {c} : batch'[d] = batch[d] /\ returned'[d] = returned[d]
    BY <1>1 DEF HandlerOk, HandlerFails, HandlerRaises, Halt, Advance, InvTypeOK, TypeOK
  <1>5. /\ InvHandlerTypeOK' /\ at'[c] = "idle"
        /\ \A d \in Consumer \ {c} : at'[d] = at[d] /\ seen'[d] = seen[d]
    BY <1>2, LeaveFacts DEF InvTypeOK
  <1>6. \A d \in Consumer : InHand(d)'
    <2>1. InHand(c)'
      BY <1>5 DEF InHand
    <2>2. QED
      BY <1>3, <1>4, <1>5, <2>1, OthersInHand DEF InvInvariant, group_store
  <1>7. /\ missed' \subseteq 1 .. MaxEntries
        /\ results' \subseteq [inv : Investigation, events : SUBSET Event]
        /\ \A k \in handled' : Reported(k)'
    <2>1. \A k \in handled : Reported(k)'
      BY <1>3, ReportStands DEF InvInvariant, group_store
    <2>2. CASE ReadFails(c) \/ IHalt(c)
      <3>1. missed' = missed /\ results' = results /\ handled' = handled
        BY <2>2 DEF ReadFails, IHalt, HandlerFails, HandlerRaises, Halt
      <3>2. QED
        BY <2>1, <3>1 DEF InvTypeOK, StoreTypeOK
    <2>3. CASE NothingToInvestigate(c) \/ PublishResult(c) \/ PublishFails(c)
      <3>1. PICK m \in batch[c] :
              /\ Handling(c, m) /\ at[c] # "idle"
              /\ \/ missed' = missed \cup {m} /\ results' = results
                 \/ missed' = missed /\ results' = results \cup {Result(c, m)}
                 \/ /\ missed' = missed \cup {m}
                    /\ results' \in {results, results \cup {Result(c, m)}}
        BY <2>3 DEF NothingToInvestigate, PublishResult, PublishFails, Doing
      <3>2. handled' = handled \cup {m}
        <4>1. HandlerOk(c)
          BY <2>3 DEF NothingToInvestigate, PublishResult, PublishFails
        <4>2. QED
          BY <3>1, <4>1, OneHead DEF HandlerOk, Handling, InvTypeOK
      <3>3. /\ m \in 1 .. MaxEntries
            /\ GroupOf[m] \in Investigation /\ EventOf[m] \in Event
        BY EntryFacts
      <3>4. EventOf[m] \in seen[c] \/ Item(m) \in expired
        BY <3>1, OneHead DEF InvInvariant, InHand, Handling, InvTypeOK
      <3>5. /\ Result(c, m) \in [inv : Investigation, events : SUBSET Event]
            /\ Result(c, m).inv = GroupOf[m] /\ Result(c, m).events = seen[c]
        BY <3>3 DEF Result, InvTypeOK, InvHandlerTypeOK
      <3>6. Reported(m)'
        <4>1. CASE m \in missed'
          BY <4>1 DEF Reported
        <4>2. CASE Result(c, m) \in results'
          <5>1. expired' = expired
            BY <1>3 DEF group_store
          <5>2. CASE Item(m) \in expired
            BY <5>1, <5>2 DEF Reported, Item
          <5>3. CASE EventOf[m] \in seen[c]
            BY <3>5, <4>2, <5>3 DEF Reported
          <5>4. QED
            BY <3>4, <5>2, <5>3
        <4>3. QED
          BY <3>1, <4>1, <4>2
      <3>7. missed' \subseteq 1 .. MaxEntries
        BY <3>1, <3>3 DEF InvTypeOK
      <3>8. results' \subseteq [inv : Investigation, events : SUBSET Event]
        BY <3>1, <3>5 DEF InvTypeOK, StoreTypeOK
      <3>9. QED
        BY <2>1, <3>2, <3>6, <3>7, <3>8
    <2>4. QED
      BY <2>2, <2>3 DEF Leave
  <1>8. StoreTypeOK'
    BY <1>3, <1>7 DEF InvTypeOK, StoreTypeOK, group_store
  <1>9. TaskTypeOK' /\ \A i \in Investigation \ crowded' : OneTask(i)'
    <2>1. CASE UNCHANGED <<waiting, generating>>
      BY <1>3, <2>1 DEF InvTypeOK, TaskTypeOK, InvInvariant, OneTask
    <2>2. CASE /\ waiting' = [waiting EXCEPT ![c] = [i \in Investigation |-> 0]]
               /\ generating' = [generating EXCEPT ![c] = [i \in Investigation |-> 0]]
      <3>1. TaskTypeOK'
        <4>1. [i \in Investigation |-> 0] \in [Investigation -> Nat]
          OBVIOUS
        <4>2. waiting' \in [Consumer -> [Investigation -> Nat]]
          BY <2>2, <4>1 DEF InvTypeOK, TaskTypeOK
        <4>3. generating' \in [Consumer -> [Investigation -> Nat]]
          BY <2>2, <4>1 DEF InvTypeOK, TaskTypeOK
        <4>4. QED
          BY <1>3, <4>2, <4>3 DEF InvTypeOK, TaskTypeOK
      <3>2. ASSUME NEW i \in Investigation \ crowded'
            PROVE  OneTask(i)'
        <4>1. \A d \in Consumer : generating'[d][i] \in {0, generating[d][i]}
          BY <2>2 DEF InvTypeOK, TaskTypeOK
        <4>2. crowded' = crowded /\ playbooks' = playbooks
          BY <1>3
        <4>3. OneTask(i)
          BY <4>2, <3>2 DEF InvInvariant
        <4>4. QED
          BY <4>1, <4>2, <4>3 DEF OneTask
      <3>3. QED
        BY <3>1, <3>2
    <2>3. QED
      BY <1>3, <2>1, <2>2
  <1>11. \A k \in Entry' : Item(k) \in snapshots' \cup expired'
    BY <1>3 DEF InvInvariant, Entry, group_store
  <1>12. QED
    BY <1>3, <1>5, <1>6, <1>7, <1>8, <1>9, <1>11 DEF InvTypeOK, InvInvariant

\* The playbook tasks: one past its check excludes the others.
LEMMA TaskKeeps ==
    ASSUME InvTypeOK, IInv, InvInvariant, TypeOK', NEW c \in Consumer, NEW i \in Investigation,
           PlaybookTask(c, i)
    PROVE  InvTypeOK' /\ InvInvariant'
  <1>1. UNCHANGED <<vars, group_store, alerts, row, results, notices, handler_vars, missed,
                    overlapped, tally>>
    BY DEF PlaybookTask, StartPlaybook, SkipPlaybook, FinishPlaybook, TaskStep
  <1>2. /\ StoreTypeOK' /\ InvHandlerTypeOK' /\ missed' \subseteq 1 .. MaxEntries
        /\ overlapped' \in BOOLEAN /\ changes' \in Nat /\ errors' \in Nat
    BY <1>1 DEF InvTypeOK, StoreTypeOK, InvHandlerTypeOK, group_store, handler_vars, tally
  <1>3. /\ \A k \in Entry' : Item(k) \in snapshots' \cup expired'
        /\ \A k \in handled' : Reported(k)'
        /\ \A d \in Consumer : InHand(d)'
    BY <1>1, ReportStands, OthersInHand
       DEF InvInvariant, vars, loop_vars, group_store, handler_vars, Entry
  <1> USE DEF InvTypeOK, TaskTypeOK
  <1>4. CASE StartPlaybook(c, i)
    <2>1. /\ playbooks[i] = 0 /\ playbooks' = playbooks
          /\ waiting[c][i] > 0
          /\ waiting' = [waiting EXCEPT ![c][i] = waiting[c][i] - 1]
          /\ generating' = [generating EXCEPT ![c][i] = generating[c][i] + 1]
          /\ \/ crowded' = crowded \cup {i}
             \/ crowded' = crowded /\ \A d \in Consumer : ~(generating[d][i] > 0)
      BY <1>4 DEF StartPlaybook, MayGenerate
    <2>2. TaskTypeOK'
      <3>1. waiting[c][i] - 1 \in Nat /\ generating[c][i] + 1 \in Nat
        BY <2>1
      <3>2. QED
        BY <1>1, <2>1, <3>1
    <2>3. \A j \in Investigation \ crowded' : OneTask(j)'
      <3>1. ASSUME NEW j \in Investigation \ crowded', j # i
            PROVE  OneTask(j)'
        <4>1. \A d \in Consumer : generating'[d][j] = generating[d][j]
          BY <2>1, <3>1
        <4>2. j \notin crowded /\ playbooks'[j] = playbooks[j]
          BY <2>1, <3>1
        <4>3. QED
          BY <3>1, <4>1, <4>2 DEF OneTask, InvInvariant
      <3>2. ASSUME i \notin crowded'
            PROVE  OneTask(i)'
        <4>1. \A d \in Consumer : generating[d][i] = 0
          BY <2>1, <3>2
        <4>2. generating'[c][i] = 1 /\ \A d \in Consumer \ {c} : generating'[d][i] = 0
          BY <2>1, <4>1
        <4>3. QED
          BY <2>1, <4>2 DEF OneTask
      <3>3. QED
        BY <3>1, <3>2
    <2>4. QED
      BY <1>2, <1>3, <2>2, <2>3 DEF InvInvariant
  <1>5. CASE SkipPlaybook(c, i)
    <2>1. /\ waiting[c][i] - 1 \in Nat
          /\ waiting' = [waiting EXCEPT ![c][i] = waiting[c][i] - 1]
          /\ UNCHANGED <<playbooks, generating, crowded, notices>>
      BY <1>1, <1>5 DEF SkipPlaybook
    <2>2. \A j \in Investigation \ crowded' : OneTask(j)'
      BY <2>1 DEF OneTask, InvInvariant
    <2>3. QED
      BY <1>2, <1>3, <2>1, <2>2 DEF InvInvariant
  <1>6. CASE FinishPlaybook(c, i)
    <2>1. /\ generating[c][i] > 0 /\ generating[c][i] - 1 \in Nat
          /\ generating' = [generating EXCEPT ![c][i] = generating[c][i] - 1]
          /\ \/ playbooks' = playbooks
             \/ playbooks' = [playbooks EXCEPT ![i] = playbooks[i] + 1]
          /\ UNCHANGED <<waiting, crowded, notices>>
      BY <1>1, <1>6 DEF FinishPlaybook
    <2>2. TaskTypeOK'
      BY <2>1
    <2>3. ASSUME NEW j \in Investigation \ crowded
          PROVE  OneTask(j)'
      <3>1. OneTask(j)
        BY <2>3 DEF InvInvariant
      <3>2. CASE j # i
        <4>1. \A d \in Consumer : generating'[d][j] = generating[d][j]
          BY <2>1, <3>2
        <4>2. playbooks'[j] = playbooks[j]
          BY <2>1, <3>2
        <4>3. QED
          BY <3>1, <4>1, <4>2 DEF OneTask
      <3>3. CASE j = i
        <4>1. /\ generating[c][i] = 1 /\ playbooks[i] = 0
              /\ \A d \in Consumer \ {c} : generating[d][i] = 0
          BY <2>1, <3>1, <3>3 DEF OneTask
        <4>2. \A d \in Consumer : generating'[d][i] = 0
          BY <2>1, <4>1
        <4>3. playbooks'[i] \in {0, 1}
          BY <2>1, <4>1
        <4>4. QED
          BY <3>3, <4>2, <4>3 DEF OneTask
      <3>4. QED
        BY <3>2, <3>3
    <2>4. QED
      BY <1>2, <1>3, <2>1, <2>2, <2>3 DEF InvInvariant
  <1>7. QED
    BY <1>4, <1>5, <1>6 DEF PlaybookTask

\* What the consumer loop does, it does to entries no handler is at.
LEMMA LoopKeeps ==
    ASSUME InvTypeOK, IInv, InvInvariant, TypeOK', LoopOnly
    PROVE  InvTypeOK' /\ InvInvariant'
  <1>1. UNCHANGED <<group_store, alerts, row, results, task_vars, handler_vars, missed,
                    overlapped, tally>>
    BY DEF LoopOnly
  <1>2. published' = published /\ handled' = handled
    BY DEF LoopOnly, GoIdle, Start, Poll, Reclaim, PoisonRaises, HandlerRaises, Ack, PollFails,
           ReclaimFails, AckFails, stream_vars
  <1>3. \A d \in Consumer : InHand(d)'
    <2>1. ASSUME NEW d \in Consumer
          PROVE  InHand(d)'
      <3>1. InHand(d) /\ expired' = expired /\ at' = at /\ seen' = seen
        BY <1>1 DEF InvInvariant, group_store, handler_vars
      <3>2. CASE at[d] = "idle"
        BY <3>1, <3>2 DEF InHand
      <3>3. CASE at[d] # "idle"
        <4>1. PICK m \in batch[d] :
                Handling(d, m) /\ (EventOf[m] \in seen[d] \/ Item(m) \in expired)
          BY <3>1, <3>3 DEF InHand
        <4>2. batch'[d] = batch[d] /\ returned'[d] = returned[d]
          BY <4>1, HandlerKeepsBatch DEF Handling, LoopOnly, InvTypeOK
        <4>3. QED
          BY <3>1, <4>2, OthersInHand
      <3>4. QED
        BY <3>2, <3>3
    <2>2. QED
      BY <2>1
  <1>4. \A k \in handled' : Reported(k)'
    BY <1>1, <1>2, ReportStands DEF InvInvariant, group_store
  <1>5. QED
    BY <1>1, <1>2, <1>3, <1>4
       DEF InvTypeOK, StoreTypeOK, TaskTypeOK, InvHandlerTypeOK, InvInvariant, OneTask, Entry,
           group_store, task_vars, handler_vars, tally

\* Every step keeps the types and the invariant.
LEMMA NextInv == InvTypeOK /\ IInv /\ InvInvariant /\ [InvNext]_ivars => InvTypeOK' /\ InvInvariant'
  <1> SUFFICES ASSUME InvTypeOK, IInv, InvInvariant, [InvNext]_ivars
               PROVE  InvTypeOK' /\ InvInvariant'
    OBVIOUS
  <1>1. TypeOK'
    BY InvStepOfStream, NextTypeOK DEF InvTypeOK
  <1>2. CASE UNCHANGED ivars
    <2>1. \A k \in handled' : Reported(k)'
      BY <1>2 DEF ivars, vars, group_store, InvInvariant, Reported, Item
    <2>2. \A c \in Consumer : InHand(c)'
      BY <1>2, OthersInHand DEF ivars, vars, loop_vars, group_store, handler_vars, InvInvariant
    <2>3. QED
      BY <1>1, <1>2, <2>1, <2>2
         DEF ivars, vars, InvTypeOK, StoreTypeOK, TaskTypeOK, InvHandlerTypeOK, InvInvariant,
             OneTask, Entry, group_store, task_vars, handler_vars, tally
  <1>3. CASE LoopOnly
    BY <1>1, <1>3, LoopKeeps
  <1>4. CASE Around
    BY <1>1, <1>4, AroundKeeps
  <1>5. ASSUME NEW c \in Consumer, Handler(c)
        PROVE  InvTypeOK' /\ InvInvariant'
    BY <1>1, <1>5, CommandKeeps, LeaveKeeps DEF Handler, Command, Leave
  <1>6. ASSUME NEW c \in Consumer, NEW i \in Investigation, PlaybookTask(c, i)
        PROVE  InvTypeOK' /\ InvInvariant'
    BY <1>1, <1>6, TaskKeeps
  <1>7. QED
    BY <1>2, <1>3, <1>4, <1>5, <1>6 DEF InvNext

\* The types and the inductive invariant, in every reachable state of every instance.
THEOREM InvestigationInvariance == InvSpec => [](InvTypeOK /\ IInv /\ InvInvariant)
  <1>1. InvInit => InvTypeOK /\ IInv /\ InvInvariant
    BY InitInv, InitIInv DEF InvInit
  <1>2. InvTypeOK /\ IInv /\ InvInvariant /\ [InvNext]_ivars
          => (InvTypeOK /\ IInv /\ InvInvariant)'
    BY NextInv, NextIInv, InvStepOfStream DEF InvTypeOK
  <1>3. QED
    BY <1>1, <1>2, PTL DEF InvSpec

\* The investigation worker acknowledges a correlation only when it is in a published
\* result, its snapshot expired, or the handler gave it up.
THEOREM AcknowledgedIsReported == InvSpec => []AckedIsReported
  <1>1. IInv /\ InvInvariant => AckedIsReported
    BY DEF IInv, InvInvariant, AckedWasHandled, AckedIsReported
  <1>2. QED
    BY <1>1, InvestigationInvariance, PTL

\* A second playbook of an investigation needs two tasks past their check at once.
THEOREM AtMostOnePlaybook == InvSpec => []OnePlaybook
  <1>1. InvInvariant => OnePlaybook
    BY DEF InvInvariant, OnePlaybook, OneTask
  <1>2. QED
    BY <1>1, InvestigationInvariance, PTL

-----------------------------------------------------------------------------
(* While all is calm: one handler at work, nothing failed or expired       *)

\* Two handlers are not at work at the same time.
AloneAtWork == \A c, d \in Consumer : at[c] # "idle" /\ at[d] # "idle" => c = d

\* A row was built from snapshots its group still has.
RowsFromGroups == \A i \in Investigation : row[i].events \subseteq Of(i, snapshots)

\* The handler at work has no less in hand than the row it will replace, knows whether
\* there is one, and is on its way with what it wrote.
CalmWork(c) ==
    \A m \in batch[c] : Handling(c, m) =>
        /\ at[c] # "idle" => row[GroupOf[m]].events \subseteq seen[c]
        /\ at[c] \notin {"idle", "fetch"} => seen[c] \subseteq Of(GroupOf[m], snapshots)
        /\ at[c] = "persist" => fresh[c] = (row[GroupOf[m]] = NoRow)
        /\ at[c] \in {"notify", "analyse", "publish"} =>
              row[GroupOf[m]].events = seen[c] /\ row[GroupOf[m]] # NoRow

RowsHold ==
    /\ \A m \in handled : EventOf[m] \in row[GroupOf[m]].events
    /\ \A i \in Investigation :
          row[i].analysed \cup row[i].linked \subseteq row[i].events

NoticedOnce ==
    \A i \in Investigation :
        notices[i] = IF row[i] = NoRow \/ StillToNotify(i) THEN 0 ELSE 1

CalmInv ==
    Calm => /\ AloneAtWork
            /\ RowsFromGroups
            /\ \A c \in Consumer : CalmWork(c)
            /\ RowsHold
            /\ NoticedOnce

\* Calm ends for good.
LEMMA CalmBefore ==
    ASSUME InvTypeOK, [InvNext]_ivars, Calm'
    PROVE  /\ Calm
           /\ ~SnapshotExpires
           /\ \A c \in Consumer :
                 ~PersistFails(c) /\ ~PublishFails(c) /\ ~ReadFails(c) /\ ~IHalt(c)
  <1>1. faults <= faults' /\ faults' = 0 /\ errors' = 0 /\ expired' = {} /\ ~overlapped'
    <2>1. CASE UNCHANGED vars
      BY <2>1 DEF vars, InvTypeOK, TypeOK, Calm
    <2>2. CASE Next
      BY <2>2 DEF Next, Work, Misfortune, XAdd, Start, Poll, PollFails, Reclaim, ReclaimFails,
          HandlerOk, PoisonRaises, HandlerFails, HandlerRaises, Ack, AckFails, Halt, GoIdle,
          Fault, InvTypeOK, TypeOK, Calm
    <2>3. QED
      BY <2>1, <2>2, InvStepOfStream
  <1>2. /\ ~SnapshotExpires
        /\ \A c \in Consumer :
              ~PersistFails(c) /\ ~PublishFails(c) /\ ~ReadFails(c) /\ ~IHalt(c)
    BY <1>1 DEF SnapshotExpires, PersistFails, PublishFails, ReadFails, IHalt, HandlerFails, Halt,
        Fault, InvTypeOK, TypeOK
  <1>3. errors <= errors' /\ expired \subseteq expired' /\ (overlapped => overlapped')
    <2>1. CASE UNCHANGED ivars
      BY <2>1 DEF ivars, tally, group_store, InvTypeOK
    <2>2. CASE LoopOnly
      BY <2>2 DEF LoopOnly, tally, group_store, InvTypeOK
    <2>3. CASE Around
      BY <2>3 DEF Around, AddMember, AddSnapshot, PublishCorrelated, SnapshotExpires, AlertStored,
          ChangeStatus, tally, group_store, InvTypeOK
    <2>4. ASSUME NEW c \in Consumer, Handler(c)
          PROVE  errors <= errors' /\ expired \subseteq expired' /\ (overlapped => overlapped')
      <3>1. UNCHANGED <<group_store, tally>>
        BY <2>4, <1>2 DEF Handler, ReadMembers, ReadSnapshots, NothingToInvestigate, CheckIsNew,
            Persist, Notify, Analyse, PublishResult, Working
      <3>2. UNCHANGED overlapped \/ ReadMembers(c)
        BY <2>4, <1>2 DEF Handler, ReadSnapshots, NothingToInvestigate, CheckIsNew, Persist,
            Notify, Analyse, PublishResult
      <3>3. QED
        BY <3>1, <3>2 DEF ReadMembers, tally, group_store, InvTypeOK
    <2>5. ASSUME NEW c \in Consumer, NEW i \in Investigation, PlaybookTask(c, i)
          PROVE  errors <= errors' /\ expired \subseteq expired' /\ (overlapped => overlapped')
      BY <2>5 DEF PlaybookTask, StartPlaybook, SkipPlaybook, FinishPlaybook, TaskStep, tally,
          group_store, InvTypeOK
    <2>6. QED
      BY <2>1, <2>2, <2>3, <2>4, <2>5 DEF InvNext
  <1>4. QED
    BY <1>1, <1>2, <1>3 DEF Calm, InvTypeOK, TypeOK

\* What is in a row, and that there is one, shows in its fields.
LEMMA RowFields ==
    ASSUME NEW r \in Row
    PROVE  /\ r # NoRow
           /\ \A s \in Status : /\ [r EXCEPT !.status = s] # NoRow
                                /\ [r EXCEPT !.status = s].events = r.events
                                /\ [r EXCEPT !.status = s].analysed = r.analysed
                                /\ [r EXCEPT !.status = s].linked = r.linked
  <1>1. NoRow.status = "none" /\ "none" \notin Status
    BY DEF NoRow, Status, StatusTransitions
  <1>2. r.status \in Status
    BY DEF Row
  <1>3. \A s \in Status : [r EXCEPT !.status = s].status = s
    BY DEF Row
  <1>4. QED
    BY <1>1, <1>2, <1>3 DEF Row

\* A step that no handler at work takes part in, and that changes rows at most in status.
LEMMA Bystander ==
    ASSUME InvTypeOK, InvTypeOK', CalmInv, Calm, Calm',
           UNCHANGED <<handler_vars, notices, handled>>,
           snapshots \subseteq snapshots',
           \A d \in Consumer : at[d] # "idle" => batch'[d] = batch[d] /\ returned'[d] = returned[d],
           \A i \in Investigation : /\ row'[i].events = row[i].events
                                    /\ row'[i].analysed = row[i].analysed
                                    /\ row'[i].linked = row[i].linked
                                    /\ row'[i] = NoRow <=> row[i] = NoRow,
           handled \subseteq 1 .. MaxEntries, \A d \in Consumer : batch[d] \subseteq 1 .. MaxEntries
    PROVE  CalmInv'
  <1>1. /\ AloneAtWork /\ RowsFromGroups /\ RowsHold /\ NoticedOnce
        /\ \A c \in Consumer : CalmWork(c)
    BY DEF CalmInv
  <1>2. \A i \in Investigation : Of(i, snapshots) \subseteq Of(i, snapshots)'
    BY DEF Of
  <1>3. AloneAtWork' /\ RowsFromGroups' /\ RowsHold'
    BY <1>1, <1>2, InvestigationAssumption DEF AloneAtWork, RowsFromGroups, RowsHold, handler_vars
  <1>4. ASSUME NEW c \in Consumer
        PROVE  CalmWork(c)'
    <2>1. CASE at[c] = "idle"
      BY <2>1 DEF CalmWork, handler_vars
    <2>2. CASE at[c] # "idle"
      <3>1. ASSUME NEW m \in batch'[c], Handling(c, m)'
            PROVE  m \in batch[c] /\ Handling(c, m) /\ GroupOf[m] \in Investigation
        BY <2>2, <3>1, InvestigationAssumption DEF Handling, IsHead
      <3>2. UNCHANGED <<at, seen, fresh>>
        BY DEF handler_vars
      <3>3. QED
        BY <1>1, <1>2, <3>1, <3>2 DEF CalmWork
    <2>3. QED
      BY <2>1, <2>2
  <1>5. \A i \in Investigation : StillToNotify(i)' <=> StillToNotify(i)
    <2>1. UNCHANGED <<at, fresh>>
      BY DEF handler_vars
    <2>2. ASSUME NEW c \in Consumer, at[c] = "notify"
          PROVE  /\ batch'[c] = batch[c]
                 /\ \A m \in batch[c] : Doing(c, m, "notify")' <=> Doing(c, m, "notify")
      BY <2>1, <2>2 DEF Doing, Handling, IsHead
    <2>3. QED
      BY <2>1, <2>2 DEF StillToNotify, Doing
  <1>6. NoticedOnce'
    BY <1>1, <1>5 DEF NoticedOnce
  <1>7. QED
    BY <1>3, <1>4, <1>6 DEF CalmInv

\* The step of the only handler at work.
LEMMA CalmCommand ==
    ASSUME InvTypeOK, IInv, InvInvariant, InvTypeOK', CalmInv, Calm, Calm',
           NEW c \in Consumer, Command(c), ~PersistFails(c)
    PROVE  CalmInv'
  <1>1. PICK m \in batch[c] :
          /\ Handling(c, m)
          /\ \/ ReadMembers(c) /\ Doing(c, m, "idle")
             \/ ReadSnapshots(c) /\ Doing(c, m, "fetch")
             \/ CheckIsNew(c) /\ Doing(c, m, "check")
             \/ Persist(c) /\ Doing(c, m, "persist")
             \/ Notify(c) /\ Doing(c, m, "notify")
             \/ Analyse(c) /\ Doing(c, m, "analyse")
    BY DEF Command, ReadMembers, ReadSnapshots, CheckIsNew, Persist, Notify, Analyse, Doing
  <1> DEFINE i == GroupOf[m]
  <1>2. /\ m \in 1 .. MaxEntries /\ i \in Investigation /\ EventOf[m] \in Event
        /\ Item(m) = <<i, EventOf[m]>> /\ Item(m) \in snapshots /\ expired = {}
    BY EntryFacts DEF Calm
  <1>3. \A k \in batch[c] : Handling(c, k) => k = m
    BY <1>1, OneHead DEF Handling, InvTypeOK
  <1>4. at[c] # "idle" => EventOf[m] \in seen[c]
    BY <1>1, <1>2, <1>3 DEF InvInvariant, InHand
  <1>5. UNCHANGED <<vars, group_store, alerts>>
    BY DEF Command, ReadMembers, ReadSnapshots, CheckIsNew, Persist, Notify, Analyse, Working
  <1>6. /\ AloneAtWork /\ RowsFromGroups /\ RowsHold /\ NoticedOnce
        /\ CalmWork(c)
    BY DEF CalmInv
  <1>7. \A d \in Consumer \ {c} : at[d] = "idle" /\ at'[d] = "idle"
    <2>1. ASSUME NEW d \in Consumer \ {c}
          PROVE  at[d] = "idle"
      <3>1. CASE at[c] = "idle"
        BY <1>1, <3>1 DEF Doing, ReadMembers, Calm
      <3>2. CASE at[c] # "idle"
        BY <1>6, <3>2 DEF AloneAtWork
      <3>3. QED
        BY <3>1, <3>2
    <2>2. \A d \in Consumer \ {c} : at'[d] = at[d]
      BY DEF Command, ReadMembers, ReadSnapshots, CheckIsNew, Persist, PersistFails, Notify,
             Analyse, GoTo, InvTypeOK, InvHandlerTypeOK
    <2>3. QED
      BY <2>1, <2>2
  <1>8. AloneAtWork'
    BY <1>7 DEF AloneAtWork
  <1>9. /\ at[c] # "idle" => row[i].events \subseteq seen[c]
        /\ at[c] \notin {"idle", "fetch"} => seen[c] \subseteq Of(i, snapshots)
        /\ at[c] = "persist" => fresh[c] = (row[i] = NoRow)
        /\ at[c] \in {"notify", "analyse", "publish"} => row[i].events = seen[c] /\ row[i] # NoRow
    BY <1>1, <1>6 DEF CalmWork
  <1>10. \A j \in Investigation : StillToNotify(j) <=> at[c] = "notify" /\ fresh[c] /\ i = j
    BY <1>1, <1>3, <1>7 DEF StillToNotify, Doing
  <1>11. \A j \in Investigation : StillToNotify(j)' <=> at'[c] = "notify" /\ fresh'[c] /\ i = j
    <2>1. \A d \in Consumer : \A k \in batch[d] : Handling(d, k)' <=> Handling(d, k)
      BY <1>5 DEF Handling, IsHead, vars
    <2>2. batch' = batch
      BY <1>5 DEF vars
    <2>3. QED
      BY <1>1, <1>3, <1>7, <2>1, <2>2 DEF StillToNotify, Doing
  \* What is left to show of each command.
  <1>12. ASSUME RowsFromGroups', RowsHold', NoticedOnce',
                /\ row'[i].events \subseteq seen'[c]
                /\ at'[c] \notin {"idle", "fetch"} => seen'[c] \subseteq Of(i, snapshots)
                /\ at'[c] = "persist" => fresh'[c] = (row'[i] = NoRow)
                /\ at'[c] \in {"notify", "analyse", "publish"} =>
                      row'[i].events = seen'[c] /\ row'[i] # NoRow
         PROVE  CalmInv'
    <2>1. ASSUME NEW d \in Consumer
          PROVE  CalmWork(d)'
      <3>1. CASE d # c
        BY <1>7, <3>1 DEF CalmWork
      <3>2. CASE d = c
        <4>1. \A k \in batch'[c] : Handling(c, k)' => k = m
          BY <1>3, <1>5 DEF Handling, IsHead, vars
        <4>2. Of(i, snapshots)' = Of(i, snapshots)
          BY <1>5 DEF Of, group_store
        <4>3. QED
          BY <1>12, <3>2, <4>1, <4>2 DEF CalmWork
      <3>3. QED
        BY <3>1, <3>2
    <2>2. QED
      BY <1>8, <1>12, <2>1 DEF CalmInv
  \* A step that leaves the rows leaves what is said of them.
  <1>13. ASSUME row' = row
         PROVE  RowsFromGroups' /\ RowsHold'
    BY <1>5, <1>6, <1>13 DEF RowsFromGroups, RowsHold, Of, group_store, vars
  <1>14. ASSUME row' = row, notices' = notices, at[c] # "notify", at'[c] # "notify"
         PROVE  NoticedOnce'
    BY <1>6, <1>10, <1>11, <1>14 DEF NoticedOnce
  <1> HIDE DEF i
  <1> USE DEF InvTypeOK, InvHandlerTypeOK, GoTo
  <1>15. CASE ReadMembers(c) /\ Doing(c, m, "idle")
    <2>1. /\ row' = row /\ notices' = notices /\ at[c] = "idle" /\ at'[c] = "fetch"
          /\ seen'[c] = Of(i, members)
      BY <1>3, <1>15 DEF ReadMembers, Doing, task_vars, i
    <2>2. row[i].events \subseteq seen'[c]
      BY <1>2, <1>6, <2>1 DEF RowsFromGroups, Of, StoreTypeOK
    <2>3. QED
      BY <1>12, <1>13, <1>14, <2>1, <2>2
  <1>16. CASE ReadSnapshots(c) /\ Doing(c, m, "fetch")
    <2>1. /\ row' = row /\ notices' = notices /\ at[c] = "fetch" /\ at'[c] = "check"
          /\ seen'[c] = seen[c] \cap Of(i, snapshots)
      BY <1>3, <1>16 DEF ReadSnapshots, Doing, task_vars, i
    <2>2. row[i].events \subseteq seen'[c] /\ seen'[c] \subseteq Of(i, snapshots)
      BY <1>2, <1>6, <1>9, <2>1 DEF RowsFromGroups
    <2>3. QED
      BY <1>12, <1>13, <1>14, <2>1, <2>2
  <1>17. CASE CheckIsNew(c) /\ Doing(c, m, "check")
    <2>1. /\ row' = row /\ notices' = notices /\ at[c] = "check" /\ at'[c] = "persist"
          /\ seen' = seen /\ fresh'[c] = (row[i] = NoRow)
      BY <1>3, <1>17 DEF CheckIsNew, Doing, task_vars, i
    <2>2. QED
      BY <1>9, <1>12, <1>13, <1>14, <2>1
  <1>18. CASE Persist(c) /\ Doing(c, m, "persist")
    <2>1. /\ row' = [row EXCEPT ![i] = Upserted(c, i)] /\ notices' = notices
          /\ at[c] = "persist" /\ at'[c] = "notify"
          /\ seen' = seen /\ fresh' = fresh
      BY <1>3, <1>18 DEF Persist, Doing, task_vars, i
    <2>2. Upserted(c, i) \in Row
      BY <1>2, UpsertedIsRow
    <2>3. /\ Upserted(c, i).events = seen[c]
          /\ Upserted(c, i).analysed = row[i].analysed
          /\ Upserted(c, i).linked \in {row[i].linked, seen[c] \cap alerts}
          /\ Upserted(c, i) # NoRow
      <3>1. row[i] \in [events : SUBSET Event, analysed : SUBSET Event, linked : SUBSET Event,
                        status : Status \cup {"none"}]
        BY <1>2 DEF StoreTypeOK, Row, NoRow
      <3>2. Upserted(c, i) # NoRow
        BY <2>2, RowFields
      <3>3. QED
        BY <3>1, <3>2 DEF Upserted
    <2>4. /\ row'[i] = Upserted(c, i)
          /\ \A j \in Investigation \ {i} : row'[j] = row[j]
      BY <1>2, <2>1 DEF StoreTypeOK
    <2>5. row[i].events \subseteq seen[c] /\ seen[c] \subseteq Of(i, snapshots)
          /\ fresh[c] = (row[i] = NoRow)
      BY <1>9, <2>1
    <2>6. RowsFromGroups'
      <3>1. Of(i, snapshots)' = Of(i, snapshots)
            /\ \A j \in Investigation : Of(j, snapshots)' = Of(j, snapshots)
        BY <1>5 DEF Of, group_store
      <3>2. QED
        BY <1>6, <2>3, <2>4, <2>5, <3>1 DEF RowsFromGroups
    <2>7. RowsHold'
      <3>1. ASSUME NEW k \in handled
            PROVE  EventOf[k] \in row'[GroupOf[k]].events
        <4>1. GroupOf[k] \in Investigation /\ EventOf[k] \in row[GroupOf[k]].events
          BY <1>6, InvestigationAssumption, ConsumerAssumption DEF RowsHold, IInv, TypeOK, Entry
        <4>2. QED
          BY <2>3, <2>4, <2>5, <4>1
      <3>2. ASSUME NEW j \in Investigation
            PROVE  row'[j].analysed \cup row'[j].linked \subseteq row'[j].events
        <4>1. row[j].analysed \cup row[j].linked \subseteq row[j].events
          BY <1>6 DEF RowsHold
        <4>2. QED
          BY <2>3, <2>4, <2>5, <4>1
      <3>3. QED
        BY <1>5, <3>1, <3>2 DEF RowsHold, vars
    <2>8. NoticedOnce'
      <3>1. ASSUME NEW j \in Investigation
            PROVE  notices[j] = IF row'[j] = NoRow \/ StillToNotify(j)' THEN 0 ELSE 1
        <4>1. notices[j] = IF row[j] = NoRow THEN 0 ELSE 1
          BY <1>6, <1>10, <2>1 DEF NoticedOnce
        <4>2. CASE j # i
          BY <1>11, <2>4, <4>1, <4>2
        <4>3. CASE j = i
          BY <1>11, <2>1, <2>3, <2>4, <2>5, <4>1, <4>3
        <4>4. QED
          BY <4>2, <4>3
      <3>2. QED
        BY <2>1, <3>1 DEF NoticedOnce
    <2>9. QED
      BY <1>12, <2>1, <2>3, <2>4, <2>5, <2>6, <2>7, <2>8
  <1>19. CASE Notify(c) /\ Doing(c, m, "notify")
    <2>1. /\ row' = row /\ at[c] = "notify" /\ at'[c] \in {"analyse", "publish"}
          /\ seen' = seen /\ fresh' = fresh
          /\ notices' = IF fresh[c] THEN [notices EXCEPT ![i] = @ + 1] ELSE notices
      BY <1>3, <1>19 DEF Notify, Doing, i
    <2>2. NoticedOnce'
      <3>1. row[i] # NoRow
        BY <1>9, <2>1
      <3>2. ASSUME NEW j \in Investigation
            PROVE  notices'[j] = IF row[j] = NoRow THEN 0 ELSE 1
        <4>1. notices[j] = IF row[j] = NoRow \/ (fresh[c] /\ i = j) THEN 0 ELSE 1
          BY <1>6, <1>10, <2>1 DEF NoticedOnce
        <4>2. CASE fresh[c] /\ i = j
          BY <2>1, <3>1, <4>1, <4>2 DEF TaskTypeOK
        <4>3. CASE ~(fresh[c] /\ i = j)
          BY <2>1, <4>1, <4>3 DEF TaskTypeOK
        <4>4. QED
          BY <4>2, <4>3
      <3>3. QED
        BY <1>11, <2>1, <3>2 DEF NoticedOnce
    <2>3. QED
      BY <1>9, <1>12, <1>13, <2>1, <2>2
  <1>20. CASE Analyse(c) /\ Doing(c, m, "analyse")
    <2>1. /\ notices' = notices /\ at[c] = "analyse" /\ at'[c] = "publish"
          /\ seen' = seen /\ fresh' = fresh
          /\ row' \in {row, [row EXCEPT ![i].analysed = seen[c]]}
      BY <1>3, <1>20 DEF Analyse, Doing, task_vars, i
    <2>2. CASE row' = row
      BY <1>9, <1>12, <1>13, <1>14, <2>1, <2>2
    <2>3. CASE row' = [row EXCEPT ![i].analysed = seen[c]]
      <3>1. row[i] \in Row /\ row[i].events = seen[c] /\ row[i] # NoRow
        BY <1>2, <1>9, <2>1 DEF StoreTypeOK
      <3>2. /\ row'[i].events = row[i].events /\ row'[i].linked = row[i].linked
            /\ row'[i].analysed = seen[c] /\ row'[i].status = row[i].status
            /\ \A j \in Investigation \ {i} : row'[j] = row[j]
        BY <1>2, <2>3, <3>1 DEF StoreTypeOK, Row
      <3>3. row'[i] # NoRow
        <4>1. row[i].status # "none" /\ NoRow.status = "none"
          BY <3>1 DEF Row, NoRow, Status, StatusTransitions
        <4>2. QED
          BY <3>2, <4>1
      <3>4. RowsFromGroups'
        <4>1. \A j \in Investigation : Of(j, snapshots)' = Of(j, snapshots)
          BY <1>5 DEF Of, group_store
        <4>2. QED
          BY <1>6, <3>2, <4>1 DEF RowsFromGroups
      <3>5. RowsHold'
        <4>1. ASSUME NEW k \in handled
              PROVE  EventOf[k] \in row'[GroupOf[k]].events
          <5>1. GroupOf[k] \in Investigation /\ EventOf[k] \in row[GroupOf[k]].events
            BY <1>6, InvestigationAssumption, ConsumerAssumption DEF RowsHold, IInv, TypeOK, Entry
          <5>2. QED
            BY <3>2, <5>1
        <4>2. \A j \in Investigation : row'[j].analysed \cup row'[j].linked \subseteq row'[j].events
          BY <1>6, <3>1, <3>2 DEF RowsHold
        <4>3. QED
          BY <1>5, <4>1, <4>2 DEF RowsHold, vars
      <3>6. NoticedOnce'
        BY <1>6, <1>10, <1>11, <2>1, <3>1, <3>2, <3>3 DEF NoticedOnce
      <3>7. QED
        BY <1>9, <1>12, <2>1, <3>1, <3>2, <3>3, <3>4, <3>5, <3>6
    <2>4. QED
      BY <2>1, <2>2, <2>3
  <1>21. QED
    BY <1>1, <1>15, <1>16, <1>17, <1>18, <1>19, <1>20

\* Whoever works around the handler, its batch and what the rows hold stay.
LEMMA CalmAround ==
    ASSUME InvTypeOK, IInv, InvInvariant, InvTypeOK', CalmInv, Calm, Calm',
           \/ UNCHANGED ivars \/ LoopOnly \/ Around
           \/ \E c \in Consumer, i \in Investigation : PlaybookTask(c, i)
    PROVE  CalmInv'
  <1>1. handled \subseteq 1 .. MaxEntries /\ \A d \in Consumer : batch[d] \subseteq 1 .. MaxEntries
    BY ConsumerAssumption DEF InvTypeOK, TypeOK, IInv, Entry
  <1>2. ASSUME UNCHANGED <<handler_vars, notices, handled>>, snapshots \subseteq snapshots',
               \A d \in Consumer : at[d] # "idle" =>
                  batch'[d] = batch[d] /\ returned'[d] = returned[d],
               row' = row
        PROVE  CalmInv'
    BY <1>1, <1>2, Bystander
  <1>3. CASE UNCHANGED ivars
    BY <1>2, <1>3 DEF ivars, vars, group_store, task_vars
  <1>4. CASE LoopOnly
    <2>1. ASSUME NEW d \in Consumer, at[d] # "idle"
          PROVE  batch'[d] = batch[d] /\ returned'[d] = returned[d]
      <3>1. PICK m \in batch[d] : Handling(d, m)
        BY <2>1 DEF InvInvariant, InHand
      <3>2. QED
        BY <1>4, <3>1, HandlerKeepsBatch DEF Handling, LoopOnly, InvTypeOK
    <2>2. handled' = handled
      BY <1>4 DEF LoopOnly, GoIdle, Start, Poll, Reclaim, PoisonRaises, HandlerRaises, Ack,
             PollFails, ReclaimFails, AckFails
    <2>3. UNCHANGED <<group_store, row, task_vars, handler_vars>>
      BY <1>4 DEF LoopOnly
    <2>4. QED
      BY <1>2, <2>1, <2>2, <2>3 DEF group_store, task_vars
  <1>5. CASE \E c \in Consumer, i \in Investigation : PlaybookTask(c, i)
    BY <1>2, <1>5 DEF PlaybookTask, StartPlaybook, SkipPlaybook, FinishPlaybook, TaskStep, vars,
       group_store
  <1>6. CASE Around
    <2>1. /\ UNCHANGED <<task_vars, handler_vars, batch, returned, handled>>
          /\ snapshots \subseteq snapshots'
      <3>1. ~SnapshotExpires
        BY DEF SnapshotExpires, Calm
      <3>2. QED
        BY <1>6, <3>1 DEF Around, AddMember, AddSnapshot, PublishCorrelated, XAdd, AlertStored,
           ChangeStatus, vars, loop_vars, group_store
    <2>2. CASE row' = row
      BY <1>2, <2>1, <2>2 DEF task_vars
    <2>3. CASE ChangeStatus
      <3>1. PICK i \in Investigation :
              /\ row[i] # NoRow
              /\ \E s \in StatusTransitions[row[i].status] \cap Chosen :
                    row' = [row EXCEPT ![i].status = s]
        BY <2>3 DEF ChangeStatus
      <3>2. PICK s \in StatusTransitions[row[i].status] \cap Chosen :
              row' = [row EXCEPT ![i].status = s]
        BY <3>1
      <3>3. row[i] \in Row /\ row[i].status \in Status
        BY <3>1 DEF InvTypeOK, StoreTypeOK, Row
      <3>4. s \in Status
        BY <3>2, <3>3, Transitions
      <3>5. /\ row'[i] = [row[i] EXCEPT !.status = s]
            /\ \A j \in Investigation \ {i} : row'[j] = row[j]
        BY <3>2 DEF InvTypeOK, StoreTypeOK
      <3>6. /\ row'[i] # NoRow /\ row[i] # NoRow
            /\ row'[i].events = row[i].events
            /\ row'[i].analysed = row[i].analysed
            /\ row'[i].linked = row[i].linked
        BY <3>3, <3>4, <3>5, RowFields
      <3>7. \A j \in Investigation : /\ row'[j].events = row[j].events
                                     /\ row'[j].analysed = row[j].analysed
                                     /\ row'[j].linked = row[j].linked
                                     /\ row'[j] = NoRow <=> row[j] = NoRow
        BY <3>5, <3>6
      <3>8. QED
        BY <1>1, <2>1, <3>7, Bystander DEF task_vars
    <2>4. QED
      BY <1>6, <2>2, <2>3 DEF Around, AddMember, AddSnapshot, PublishCorrelated, SnapshotExpires,
         AlertStored
  <1>7. QED
    BY <1>3, <1>4, <1>5, <1>6

\* The handler at work returns with its event in the row.
LEMMA CalmReturn ==
    ASSUME InvTypeOK, IInv, InvInvariant, InvTypeOK', CalmInv, Calm, Calm',
           NEW c \in Consumer, PublishResult(c)
    PROVE  CalmInv'
  <1>1. PICK m \in batch[c] :
          /\ at[c] = "publish" /\ Handling(c, m)
          /\ HandlerOk(c)
          /\ LeaveHandler(c)
          /\ UNCHANGED <<group_store, row, task_vars>>
    BY DEF PublishResult, Doing
  <1>2. /\ AloneAtWork /\ RowsFromGroups /\ RowsHold /\ NoticedOnce
        /\ CalmWork(c)
    BY DEF CalmInv
  <1>3. handled' = handled \cup {m}
    BY <1>1, OneHead DEF HandlerOk, Handling, InvTypeOK
  <1>4. \A d \in Consumer : at'[d] = "idle" /\ at[d] # "notify"
    BY <1>1, <1>2, LeaveFacts DEF AloneAtWork, InvTypeOK
  <1>5. EventOf[m] \in row[GroupOf[m]].events
    <2>1. EventOf[m] \in seen[c]
      BY <1>1, OneHead DEF InvInvariant, InHand, Handling, InvTypeOK, Calm
    <2>2. QED
      BY <1>1, <1>2, <2>1 DEF CalmWork
  <1>6. AloneAtWork' /\ \A d \in Consumer : CalmWork(d)'
    BY <1>4 DEF AloneAtWork, CalmWork
  <1>7. RowsFromGroups' /\ RowsHold'
    BY <1>1, <1>2, <1>3, <1>5 DEF RowsFromGroups, RowsHold, Of, group_store
  <1>8. NoticedOnce'
    BY <1>1, <1>2, <1>4 DEF NoticedOnce, StillToNotify, Doing, task_vars
  <1>9. QED
    BY <1>6, <1>7, <1>8 DEF CalmInv

\* Every step leaves the invariant of calm.
LEMMA NextCalm ==
    ASSUME InvTypeOK, IInv, InvInvariant, CalmInv, [InvNext]_ivars
    PROVE  CalmInv'
  <1> SUFFICES ASSUME Calm' PROVE CalmInv'
    BY DEF CalmInv
  <1>1. InvTypeOK'
    BY NextInv
  <1>2. /\ Calm
        /\ \A c \in Consumer :
              ~PersistFails(c) /\ ~PublishFails(c) /\ ~ReadFails(c) /\ ~IHalt(c)
    BY CalmBefore
  \* The snapshot of the entry is there, and its event in hand.
  <1>3. ASSUME NEW c \in Consumer, NothingToInvestigate(c)
        PROVE  FALSE
    <2>1. PICK m \in batch[c] :
            /\ at[c] = "fetch" /\ Handling(c, m)
            /\ seen[c] \cap Of(GroupOf[m], snapshots) = {}
      BY <1>3 DEF NothingToInvestigate, Doing
    <2>2. /\ EventOf[m] \in Event /\ Item(m) = <<GroupOf[m], EventOf[m]>>
          /\ Item(m) \in snapshots
      BY <1>2, EntryFacts DEF Calm
    <2>3. EventOf[m] \in seen[c]
      BY <1>2, <2>1, OneHead DEF InvInvariant, InHand, Handling, InvTypeOK, Calm
    <2>4. QED
      BY <2>1, <2>2, <2>3 DEF Of
  <1>4. ASSUME NEW c \in Consumer, Handler(c)
        PROVE  CalmInv'
    <2>1. PublishResult(c) \/ (Command(c) /\ ~PersistFails(c))
      BY <1>2, <1>3, <1>4 DEF Handler, Command
    <2>2. QED
      BY <1>1, <1>2, <2>1, CalmCommand, CalmReturn
  <1>5. CASE \/ UNCHANGED ivars \/ LoopOnly \/ Around
             \/ \E c \in Consumer, i \in Investigation : PlaybookTask(c, i)
    BY <1>1, <1>2, <1>5, CalmAround
  <1>6. QED
    BY <1>4, <1>5 DEF InvNext

THEOREM CalmInvariance == InvSpec => []CalmInv
  <1>1. InvInit => CalmInv
    <2>1. ASSUME InvInit
          PROVE  AloneAtWork /\ RowsFromGroups /\ RowsHold /\ \A c \in Consumer : CalmWork(c)
      BY <2>1 DEF InvInit, Init, NoRow, AloneAtWork, RowsFromGroups, RowsHold, CalmWork
    <2>2. InvInit => NoticedOnce
      BY DEF InvInit, None, NoticedOnce
    <2>3. QED
      BY <2>1, <2>2 DEF CalmInv
  <1>2. (InvTypeOK /\ IInv /\ InvInvariant) /\ CalmInv /\ [InvNext]_ivars => CalmInv'
    BY NextCalm
  <1>3. QED
    BY <1>1, <1>2, InvestigationInvariance, PTL DEF InvSpec

\* While no two handlers have overlapped and nothing failed or expired, the upsert, which
\* replaces the JSON columns of a row, loses no event that an earlier entry put there.
THEOREM CalmRowsWhole == InvSpec => []CalmRowsAreWhole
  <1>1. CalmInv => CalmRowsAreWhole
    BY DEF CalmInv, CalmRowsAreWhole, RowsHold
  <1>2. QED
    BY <1>1, CalmInvariance, PTL

\* ... and is_new_investigation, looked up before the upsert, sends one mail.
THEOREM CalmNotices == InvSpec => []CalmNoticedOnce
  <1>1. CalmInv => CalmNoticedOnce
    BY DEF CalmInv, CalmNoticedOnce, NoticedOnce
  <1>2. QED
    BY <1>1, CalmInvariance, PTL

\* Forgetting rows, notices and playbook tasks, the investigation stage promises
\* at-least-once handling, playbook tasks that outlive their handlers included.
THEOREM InvestigationRefines == InvSpec => ImplementsAtLeastOnce
  <1>1. InvInit => Init
    BY DEF InvInit
  <1>2. InvSpec => Spec
    BY <1>1, InvStepOfStream, PTL DEF InvSpec, Spec
  <1>3. QED
    BY <1>2, Refinement
===============================================================================
