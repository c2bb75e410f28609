--------------------------- MODULE InvestigationStage ---------------------------
(***************************************************************************)
(* workers/investigation_worker.py: the consumers of correlated_events     *)
(* rebuild the investigation an entry names from the snapshots of its      *)
(* group, upsert its row, start the tasks of a new one and publish the     *)
(* result.  The correlation workers, the analysts and the detection        *)
(* workers, which store alerts, run beside them.                           *)
(*                                                                         *)
(* Two steps of a handler are separated where it awaits a reply that other *)
(* processes can come before.  Timeline, graph, behaviours, context and    *)
(* summary are functions of the snapshots: the set of events stands for    *)
(* them, and the threat score is a choice.                                 *)
(***************************************************************************)
EXTENDS StreamConsumer

CONSTANTS
    Investigation,  \* investigation ids
    Event,          \* event ids
    GroupOf,        \* GroupOf[m]: investigation that entry m names
    EventOf,        \* EventOf[m]: event that entry m was published for
    Alerting,       \* events that trigger an alert
    Scores,         \* threat scores that occur
    Chosen,         \* statuses that analysts choose
    MaxOccurrences  \* bound: expired snapshots, stored alerts, status changes and
                    \* swallowed errors (and the faults of the loop)

ASSUME InvestigationAssumption ==
    /\ GroupOf \in [1 .. MaxEntries -> Investigation]
    /\ EventOf \in [1 .. MaxEntries -> Event]
    /\ Alerting \subseteq Event
    /\ Scores \subseteq 0 .. 100

VARIABLES
    members,     \* grp:{id}:events, as pairs <<id, event>>
    snapshots,   \* grp:{id}:snap:{event}, as pairs <<id, event>>
    expired,     \* snapshots that reached their TTL
    alerts,      \* events that triggered a stored alert
    row,         \* the investigations table
    results,     \* the investigation_results stream
    notices,     \* per investigation: "new investigation" mails sent
    playbooks,   \* per investigation: playbooks stored
    waiting,     \* per consumer and investigation: playbook tasks in their delay
    generating,  \* per consumer and investigation: playbook tasks past their check
    at,          \* per consumer: what its handler does next
    seen,        \* per consumer: the events it works with
    fresh,       \* per consumer: is_new_investigation
    score,       \* per consumer: result.score.threat_score
    missed,      \* history: entries given up on, by an early return or a swallowed error
    overlapped,  \* history: two handlers have been at work at the same time
    crowded,     \* history: investigations with two playbook tasks past their check
    changes,     \* status changes by analysts so far
    errors       \* errors the handlers swallowed so far

group_store == <<members, snapshots, expired>>
task_vars == <<notices, playbooks, waiting, generating, crowded>>
handler_vars == <<at, seen, fresh, score>>
tally == <<changes, errors>>
ivars == <<vars, group_store, alerts, row, results, task_vars, handler_vars, missed,
           overlapped, tally>>

\* STATUS_TRANSITIONS
StatusTransitions ==
    [new |-> {"triaged", "investigating", "active", "closed", "false_positive"},
     active |-> {"triaged", "investigating", "closed", "false_positive"},
     triaged |-> {"investigating", "closed", "false_positive"},
     investigating |-> {"contained", "resolved", "closed", "false_positive"},
     contained |-> {"resolved", "closed", "investigating"},
     resolved |-> {"closed", "investigating"},
     closed |-> {"investigating"},
     false_positive |-> {"investigating"}]

Status == DOMAIN StatusTransitions

\* A row of investigations: the events its summary and JSON columns were built
\* from, those of its AI analysis, those of its triggering alerts, and its status.
NoRow == [events |-> {}, analysed |-> {}, linked |-> {}, status |-> "none"]
Row == [events : SUBSET Event, analysed : SUBSET Event, linked : SUBSET Event,
        status : Status]

-----------------------------------------------------------------------------
(* The workers around this one.                                            *)

Item(m) == <<GroupOf[m], EventOf[m]>>
Items == {Item(m) : m \in 1 .. MaxEntries}

\* A correlation worker: ZADD, SET of the snapshot, XADD.
AddMember ==
    /\ \E p \in Items \ members : members' = members \cup {p}
    /\ UNCHANGED <<vars, snapshots, expired, alerts, row, results, task_vars,
                   handler_vars, missed, overlapped, tally>>

AddSnapshot ==
    /\ \E p \in members \ (snapshots \cup expired) : snapshots' = snapshots \cup {p}
    /\ UNCHANGED <<vars, members, expired, alerts, row, results, task_vars,
                   handler_vars, missed, overlapped, tally>>

PublishCorrelated ==
    /\ published < MaxEntries
    /\ Item(published + 1) \in snapshots \cup expired
    /\ XAdd
    /\ UNCHANGED <<group_store, alerts, row, results, task_vars, handler_vars, missed,
                   overlapped, tally>>

Occurrences == faults + errors + changes + Cardinality(expired) + Cardinality(alerts)
Occurs == Occurrences < MaxOccurrences

\* A snapshot reaches _GROUP_TTL_SECONDS.
SnapshotExpires ==
    /\ Occurs
    /\ \E p \in snapshots :
          /\ snapshots' = snapshots \ {p}
          /\ expired' = expired \cup {p}
    /\ UNCHANGED <<vars, members, alerts, row, results, task_vars, handler_vars, missed,
                   overlapped, tally>>

\* A detection worker commits an alert.
AlertStored ==
    /\ Occurs
    /\ \E e \in Alerting \ alerts : alerts' = alerts \cup {e}
    /\ UNCHANGED <<vars, group_store, row, results, task_vars, handler_vars, missed,
                   overlapped, tally>>

\* CaseService.change_status, in one transaction.
ChangeStatus ==
    /\ Occurs
    /\ changes' = changes + 1
    /\ \E i \in Investigation :
          /\ row[i] # NoRow
          /\ \E s \in StatusTransitions[row[i].status] \cap Chosen :
                row' = [row EXCEPT ![i].status = s]
    /\ UNCHANGED <<vars, group_store, alerts, results, task_vars, handler_vars, missed,
                   overlapped, errors>>

-----------------------------------------------------------------------------
(* The handler.                                                            *)

Handling(c, m) ==
    /\ IsHead(c, m)
    /\ m \notin NotDict \cup Poison
    /\ ~returned[c]

Doing(c, m, p) ==
    /\ at[c] = p
    /\ Handling(c, m)

GoTo(c, p) == at' = [at EXCEPT ![c] = p]

Working == UNCHANGED <<vars, group_store, alerts, tally>>

LeaveHandler(c) ==
    /\ at' = [at EXCEPT ![c] = "idle"]
    /\ seen' = [seen EXCEPT ![c] = {}]
    /\ fresh' = [fresh EXCEPT ![c] = FALSE]
    /\ score' = [score EXCEPT ![c] = 0]

Of(i, pairs) == {e \in Event : <<i, e>> \in pairs}

\* Mutant of ReadMembers: only one event id is read.
ReadOneMember(c) ==
    \E m \in batch[c] :
        /\ Doing(c, m, "idle")
        /\ \E e \in Of(GroupOf[m], members) : seen' = [seen EXCEPT ![c] = {e}]
        /\ GoTo(c, "fetch")
        /\ overlapped' = (overlapped \/ \E d \in Consumer \ {c} : at[d] # "idle")
        /\ Working
        /\ UNCHANGED <<row, results, task_vars, fresh, score, missed>>

\* get_event_snapshots: ZRANGE of the event ids.
ReadMembers(c) ==
    \E m \in batch[c] :
        /\ Doing(c, m, "idle")
        /\ seen' = [seen EXCEPT ![c] = Of(GroupOf[m], members)]
        /\ GoTo(c, "fetch")
        /\ overlapped' = (overlapped \/ \E d \in Consumer \ {c} : at[d] # "idle")
        /\ Working
        /\ UNCHANGED <<row, results, task_vars, fresh, score, missed>>

\* get_event_snapshots: GET of each snapshot; get_group; process_group.
ReadSnapshots(c) ==
    \E m \in batch[c] :
        /\ Doing(c, m, "fetch")
        /\ seen[c] \cap Of(GroupOf[m], snapshots) # {}
        /\ seen' = [seen EXCEPT ![c] = @ \cap Of(GroupOf[m], snapshots)]
        /\ \E s \in Scores : score' = [score EXCEPT ![c] = s]
        /\ GoTo(c, "check")
        /\ Working
        /\ UNCHANGED <<row, results, task_vars, fresh, missed, overlapped>>

\* No snapshots: the handler returns, and the entry will be acknowledged.
NothingToInvestigate(c) ==
    \E m \in batch[c] :
        /\ Doing(c, m, "fetch")
        /\ seen[c] \cap Of(GroupOf[m], snapshots) = {}
        /\ HandlerOk(c)
        /\ LeaveHandler(c)
        /\ missed' = missed \cup {m}
        /\ UNCHANGED <<group_store, alerts, row, results, task_vars, overlapped, tally>>

\* SELECT 1: is it a new investigation?
CheckIsNew(c) ==
    \E m \in batch[c] :
        /\ Doing(c, m, "check")
        /\ fresh' = [fresh EXCEPT ![c] = row[GroupOf[m]] = NoRow]
        /\ GoTo(c, "persist")
        /\ Working
        /\ UNCHANGED <<row, results, task_vars, seen, score, missed, overlapped>>

InitialStatus(s) == IF s >= 10 THEN "active" ELSE "new"

\* Mutant of Upserted: ON CONFLICT DO NOTHING.
InsertedOnly(c, i) ==
    IF row[i] = NoRow
    THEN [NoRow EXCEPT !.events = seen[c], !.status = InitialStatus(score[c])]
    ELSE row[i]

\* persist, _persist_full_result and _populate_triggering_alerts: the row of
\* investigation i when they are committed.
Upserted(c, i) ==
    [row[i] EXCEPT !.events = seen[c],
                   !.status = InitialStatus(score[c]),
                   !.linked = IF seen[c] \cap alerts = {} THEN @
                              ELSE seen[c] \cap alerts]

Persist(c) ==
    \E m \in batch[c] :
        /\ Doing(c, m, "persist")
        /\ row' = [row EXCEPT ![GroupOf[m]] = Upserted(c, GroupOf[m])]
        /\ GoTo(c, "notify")
        /\ Working
        /\ UNCHANGED <<results, task_vars, seen, fresh, score, missed, overlapped>>

\* An error of the transaction, or of a statement in one of its "best-effort" parts
\* (after which COMMIT rolls back), is logged and forgotten: the row is written or
\* not, and the handler goes on.
PersistFails(c) ==
    \E m \in batch[c] :
        /\ at[c] \in {"check", "persist"}
        /\ Handling(c, m)
        /\ \/ /\ at[c] = "persist"
              /\ row' = [row EXCEPT ![GroupOf[m]] = Upserted(c, GroupOf[m])]
           \/ UNCHANGED row
        /\ missed' = missed \cup {m}
        /\ GoTo(c, "notify")
        /\ Occurs
        /\ errors' = errors + 1
        /\ UNCHANGED <<vars, group_store, alerts, results, task_vars, seen, fresh, score,
                       overlapped, changes>>

\* Mutant of Notify: the mail and the playbook do not depend on the first look.
NotifyAlways(c) ==
    \E m \in batch[c] :
        /\ Doing(c, m, "notify")
        /\ notices' = [notices EXCEPT ![GroupOf[m]] = @ + 1]
        /\ GoTo(c, IF score[c] >= 60 THEN "analyse" ELSE "publish")
        /\ Working
        /\ UNCHANGED <<row, results, playbooks, waiting, generating, crowded, seen, fresh,
                       score, missed, overlapped>>

\* The mail and the playbook task of a new investigation.
Notify(c) ==
    \E m \in batch[c] :
        /\ Doing(c, m, "notify")
        /\ notices' = IF fresh[c] THEN [notices EXCEPT ![GroupOf[m]] = @ + 1] ELSE notices
        /\ waiting' = IF fresh[c] /\ score[c] >= 45
                      THEN [waiting EXCEPT ![c][GroupOf[m]] = @ + 1]
                      ELSE waiting
        /\ GoTo(c, IF score[c] >= 60 THEN "analyse" ELSE "publish")
        /\ Working
        /\ UNCHANGED <<row, results, playbooks, generating, crowded, seen, fresh, score,
                       missed, overlapped>>

\* The AI analysis: its UPDATE (of no row if there is none), or an error, which
\* never blocks the pipeline.
Analyse(c) ==
    \E m \in batch[c] :
        /\ Doing(c, m, "analyse")
        /\ \/ /\ row[GroupOf[m]] # NoRow
              /\ row' = [row EXCEPT ![GroupOf[m]].analysed = seen[c]]
           \/ UNCHANGED row
        /\ GoTo(c, "publish")
        /\ Working
        /\ UNCHANGED <<results, task_vars, seen, fresh, score, missed, overlapped>>

Result(c, m) == [inv |-> GroupOf[m], events |-> seen[c]]

\* publish_investigation_result; the handler returns.
PublishResult(c) ==
    \E m \in batch[c] :
        /\ Doing(c, m, "publish")
        /\ results' = results \cup {Result(c, m)}
        /\ HandlerOk(c)
        /\ LeaveHandler(c)
        /\ UNCHANGED <<group_store, alerts, row, task_vars, missed, overlapped, tally>>

\* The error of the XADD is logged, and the handler returns all the same.
PublishFails(c) ==
    \E m \in batch[c] :
        /\ Doing(c, m, "publish")
        /\ results' \in {results, results \cup {Result(c, m)}}
        /\ HandlerOk(c)
        /\ Occurs
        /\ errors' = errors + 1
        /\ LeaveHandler(c)
        /\ missed' = missed \cup {m}
        /\ UNCHANGED <<group_store, alerts, row, task_vars, overlapped, changes>>

\* A read of Redis raises, and so does the handler: the entry stays in the PEL.
ReadFails(c) ==
    /\ at[c] \in {"idle", "fetch"}
    /\ HandlerFails(c)
    /\ LeaveHandler(c)
    /\ UNCHANGED <<group_store, alerts, row, results, task_vars, missed, overlapped, tally>>

\* The process dies, its background tasks with it.
IHalt(c) ==
    /\ Halt(c)
    /\ LeaveHandler(c)
    /\ waiting' = [waiting EXCEPT ![c] = [i \in Investigation |-> 0]]
    /\ generating' = [generating EXCEPT ![c] = [i \in Investigation |-> 0]]
    /\ UNCHANGED <<group_store, alerts, row, results, notices, playbooks, crowded, missed,
                   overlapped, tally>>

-----------------------------------------------------------------------------
(* _auto_generate_investigation_playbook                                   *)

TaskStep == UNCHANGED <<vars, group_store, alerts, row, results, notices, handler_vars,
                        missed, overlapped, tally>>

\* Mutant of MayGenerate: nobody looks for an existing playbook.
MayGenerateAlways(i) == row[i] # NoRow

MayGenerate(i) == playbooks[i] = 0 /\ row[i] # NoRow

\* After the delay: no playbook yet, and the row is there.
StartPlaybook(c, i) ==
    /\ waiting[c][i] > 0
    /\ MayGenerate(i)
    /\ waiting' = [waiting EXCEPT ![c][i] = @ - 1]
    /\ generating' = [generating EXCEPT ![c][i] = @ + 1]
    /\ crowded' = IF \E d \in Consumer : generating[d][i] > 0 THEN crowded \cup {i}
                  ELSE crowded
    /\ UNCHANGED playbooks
    /\ TaskStep

SkipPlaybook(c, i) ==
    /\ waiting[c][i] > 0
    /\ ~MayGenerate(i)
    /\ waiting' = [waiting EXCEPT ![c][i] = @ - 1]
    /\ UNCHANGED <<playbooks, generating, crowded>>
    /\ TaskStep

\* The generator answers and the playbook is committed, or the task logs an error.
FinishPlaybook(c, i) ==
    /\ generating[c][i] > 0
    /\ generating' = [generating EXCEPT ![c][i] = @ - 1]
    /\ playbooks' \in {playbooks, [playbooks EXCEPT ![i] = @ + 1]}
    /\ UNCHANGED <<waiting, crowded>>
    /\ TaskStep

-----------------------------------------------------------------------------
LoopOnly ==
    /\ \/ \E m \in pending : GoIdle(m)
       \/ \E c \in Consumer :
             \/ Start(c) \/ Poll(c) \/ Reclaim(c) \/ PoisonRaises(c) \/ Ack(c)
             \/ PollFails(c) \/ ReclaimFails(c) \/ AckFails(c)
    /\ UNCHANGED <<group_store, alerts, row, results, task_vars, handler_vars, missed,
                   overlapped, tally>>

None == [i \in Investigation |-> 0]

InvInit ==
    /\ Init
    /\ members = {}
    /\ snapshots = {}
    /\ expired = {}
    /\ alerts = {}
    /\ row = [i \in Investigation |-> NoRow]
    /\ results = {}
    /\ notices = None
    /\ playbooks = None
    /\ waiting = [c \in Consumer |-> None]
    /\ generating = [c \in Consumer |-> None]
    /\ at = [c \in Consumer |-> "idle"]
    /\ seen = [c \in Consumer |-> {}]
    /\ fresh = [c \in Consumer |-> FALSE]
    /\ score = [c \in Consumer |-> 0]
    /\ missed = {}
    /\ overlapped = FALSE
    /\ crowded = {}
    /\ changes = 0
    /\ errors = 0

Around ==
    \/ AddMember \/ AddSnapshot \/ PublishCorrelated \/ SnapshotExpires
    \/ AlertStored \/ ChangeStatus

Handler(c) ==
    \/ ReadMembers(c) \/ ReadSnapshots(c) \/ NothingToInvestigate(c) \/ CheckIsNew(c)
    \/ Persist(c) \/ PersistFails(c) \/ Notify(c) \/ Analyse(c) \/ PublishResult(c)
    \/ PublishFails(c) \/ ReadFails(c) \/ IHalt(c)

PlaybookTask(c, i) == StartPlaybook(c, i) \/ SkipPlaybook(c, i) \/ FinishPlaybook(c, i)

InvNext ==
    \/ LoopOnly
    \/ Around
    \/ \E c \in Consumer : Handler(c) \/ \E i \in Investigation : PlaybookTask(c, i)

InvSpec == InvInit /\ [][InvNext]_ivars

-----------------------------------------------------------------------------
(***************************************************************************)
(* Properties                                                              *)
(***************************************************************************)

\* Every variable has its type.
StoreTypeOK ==
    /\ members \subseteq Investigation \X Event
    /\ snapshots \subseteq members
    /\ expired \subseteq members \ snapshots
    /\ alerts \subseteq Alerting
    /\ row \in [Investigation -> Row \cup {NoRow}]
    /\ results \subseteq [inv : Investigation, events : SUBSET Event]

TaskTypeOK ==
    /\ notices \in [Investigation -> Nat]
    /\ playbooks \in [Investigation -> Nat]
    /\ waiting \in [Consumer -> [Investigation -> Nat]]
    /\ generating \in [Consumer -> [Investigation -> Nat]]
    /\ crowded \subseteq Investigation

InvHandlerTypeOK ==
    /\ at \in [Consumer -> {"idle", "fetch", "check", "persist", "notify", "analyse",
                            "publish"}]
    /\ seen \in [Consumer -> SUBSET Event]
    /\ fresh \in [Consumer -> BOOLEAN]
    /\ score \in [Consumer -> 0 .. 100]

InvTypeOK ==
    /\ TypeOK
    /\ StoreTypeOK
    /\ TaskTypeOK
    /\ InvHandlerTypeOK
    /\ missed \subseteq 1 .. MaxEntries
    /\ overlapped \in BOOLEAN
    /\ changes \in Nat
    /\ errors \in Nat

\* An acknowledged correlation is in a published result of its investigation, unless
\* its snapshot expired first or the handler gave it up: the correlation workers
\* write the group before they publish, so what the handler reads holds the event,
\* whoever else works on the group and however often the entry changes hands.
Reported(m) ==
    \/ m \in missed
    \/ Item(m) \in expired
    \/ \E r \in results : r.inv = GroupOf[m] /\ EventOf[m] \in r.events

AckedIsReported == \A m \in acked \ NotDict : Reported(m)

\* While no two handlers overlap, nothing fails and no snapshot expires, the row of
\* an investigation holds the event of each entry a handler completed, and its
\* analysis and triggering alerts are about events it holds: the upsert replaces
\* them all, relying on each handler reading a larger group than the one before.
Calm == ~overlapped /\ faults = 0 /\ errors = 0 /\ expired = {}

CalmRowsAreWhole ==
    Calm =>
        /\ \A m \in handled : EventOf[m] \in row[GroupOf[m]].events
        /\ \A i \in Investigation :
              row[i].analysed \cup row[i].linked \subseteq row[i].events

\* ... and its mail is sent once, when the first entry was stored: not again by the
\* entries that follow, although is_new_investigation comes from an earlier query.
StillToNotify(i) ==
    \E c \in Consumer : \E m \in batch[c] :
        Doing(c, m, "notify") /\ fresh[c] /\ GroupOf[m] = i

CalmNoticedOnce ==
    Calm => \A i \in Investigation :
        notices[i] = IF row[i] = NoRow \/ StillToNotify(i) THEN 0 ELSE 1

\* An investigation gets a second playbook only if two of its tasks were past their
\* check at the same time, whatever was handled twice before.
OnePlaybook ==
    \A i \in Investigation \ crowded : playbooks[i] <= 1

\* STATUS_TRANSITIONS: "Valid status transitions: source -> allowed targets": the
\* status of an investigation moves along them only.
StatusMovesAsAllowed ==
    [][\A i \in Investigation :
          row[i].status \in Status =>
              row'[i].status \in {row[i].status} \cup StatusTransitions[row[i].status]]_ivars

\* What InvestigationStageProofs proves inductive with IInv: the group of an entry is
\* written before the entry, a running handler has its event in hand unless the
\* snapshot expired, and at most one playbook task is past its check.
InHand(c) ==
    \/ at[c] = "idle"
    \/ \E m \in batch[c] :
          Handling(c, m) /\ (EventOf[m] \in seen[c] \/ Item(m) \in expired)

OneTask(i) ==
    /\ playbooks[i] <= 1
    /\ \A c \in Consumer : generating[c][i] <= 1
    /\ \A c \in Consumer : generating[c][i] > 0 =>
          /\ playbooks[i] = 0
          /\ \A d \in Consumer \ {c} : generating[d][i] = 0

InvInvariant ==
    /\ \A m \in Entry : Item(m) \in snapshots \cup expired
    /\ \A m \in handled : Reported(m)
    /\ \A c \in Consumer : InHand(c)
    /\ \A i \in Investigation \ crowded : OneTask(i)
=============================================================================
