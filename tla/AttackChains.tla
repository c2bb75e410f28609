----------------------------- MODULE AttackChains -----------------------------
(***************************************************************************)
(* What follows the commit of an alert in the worker processes: one task   *)
(* looks for an attack chain on the alert's host, another for a crowd of   *)
(* severe alerts.  Both read the alerts other workers have committed and   *)
(* decide whether to write an alert or an investigation of their own.      *)
(* One host; the title of an alert matches one stage, which several chains *)
(* may have, and a chain names a stage once. Alerts are numbered in the    *)
(* order of created_at, which is drawn before the commit, so they may be   *)
(* committed in another order.                                             *)
(***************************************************************************)
EXTENDS Naturals, FiniteSets

CONSTANTS
    Alert,          \* alerts on the host, a set of numbers
    StageOf,        \* the stage an alert's title matches, if any
    Chain,          \* BUILTIN_CHAINS, numbered in the order of the loop
    Stages,         \* the required stages of each chain
    MinStages,      \* how many of them have to match
    Window,         \* lengths of windows in minutes
    WindowOf,       \* the window of each chain
    Limit,          \* rows _load_recent_alerts asks for
    Severe,         \* alerts of severity critical or high
    Crowd,          \* VOLUME_THRESHOLD
    HostLength,     \* characters of the host's name
    MaxHours        \* bound: hours the behaviour lasts

ASSUME AlertAssumption ==
    /\ Alert \subseteq Nat /\ Severe \subseteq Alert
    /\ Chain \subseteq Nat /\ MinStages \in [Chain -> Nat \ {0}]
    /\ Window \subseteq Nat /\ 60 \in Window /\ WindowOf \in [Chain -> Window]
    /\ MaxHours \in Nat /\ Crowd \in Nat \ {0} /\ Limit \in Nat \ {0}

VARIABLES
    stored,         \* committed alerts
    deleted,        \* alerts an analyst deleted (deleted_at)
    gone,           \* for each window the alerts that are older
    hour,
    chainTask,      \* the next step of _run_chain_check for each alert
    loaded,         \* all_alerts of that task
    chainOf,        \* the chain its loop has come to
    match,          \* matched_alert_ids of that chain
    crowdTask,      \* the next step of _volume_investigation for each alert
    bucket,         \* the hour in the group id of that task
    chainLock,      \* fingerprints with a key chain_lock:{tenant}:{fingerprint}
    fired,          \* committed chain alerts: the task, the chain, and the cluster
    cases,          \* rows of investigations: the task that wrote them, and their group
    mishap,         \* TRUE once a step failed or a process died
    unlocked        \* fingerprints whose key expired, or was deleted after the commit

alert_vars == <<stored, deleted, gone, hour>>
loop_vars == <<loaded, chainOf, match>>
task_vars == <<chainTask, loop_vars, crowdTask, bucket>>
effect_vars == <<chainLock, fired, cases>>
chvars == <<alert_vars, task_vars, effect_vars, mishap, unlocked>>

Crowds(h) == [kind |-> "cluster", of |-> {}, hour |-> h]
ChainCase(f) == [kind |-> "chain", of |-> f, hour |-> 0]

\* investigation_group_id is VARCHAR(64): PostgreSQL refuses the row of a longer one.
Fits(length) == length <= 64

\* "chain:", a UUID, ":" and 32 hexadecimal digits; "cluster:", a UUID, ":", the host,
\* ":" and an hour like 20250131T09.
ChainIdLength == 6 + 36 + 1 + 32
ClusterIdLength == 8 + 36 + 1 + HostLength + 1 + 11

ChainStep(a, next) == chainTask' = [chainTask EXCEPT ![a] = next]
CrowdStep(a, next) == crowdTask' = [crowdTask EXCEPT ![a] = next]

-----------------------------------------------------------------------------
(* Alerts                                                                  *)

\* The commit of a detection worker, and the tasks it creates right after it.
StoreAlerts(A) ==
    /\ A # {} /\ IsFiniteSet(A) /\ A \cap stored = {}
    /\ stored' = stored \cup A
    /\ chainTask' = [a \in Alert |-> IF a \in A THEN "load" ELSE chainTask[a]]
    /\ crowdTask' = [a \in Alert |-> IF a \in A THEN "count" ELSE crowdTask[a]]
    /\ UNCHANGED <<deleted, gone, hour, loop_vars, bucket, effect_vars, mishap, unlocked>>

DeleteAlert(a) ==
    /\ a \in stored \ deleted
    /\ deleted' = deleted \cup {a}
    /\ UNCHANGED <<stored, gone, hour, task_vars, effect_vars, mishap, unlocked>>

\* Alerts leave a window in the order of created_at, and the shorter windows first.
LeavesWindow(w, a) ==
    /\ a \notin gone[w]
    /\ \A b \in Alert : b < a => b \in gone[w]
    /\ \A v \in Window : v < w => a \in gone[v]
    /\ gone' = [gone EXCEPT ![w] = @ \cup {a}]
    /\ UNCHANGED <<stored, deleted, hour, task_vars, effect_vars, mishap, unlocked>>

HourTurns ==
    /\ hour < MaxHours
    /\ hour' = hour + 1
    /\ UNCHANGED <<stored, deleted, gone, task_vars, effect_vars, mishap, unlocked>>

-----------------------------------------------------------------------------
(* _run_chain_check                                                        *)

StagesOf(A) == {StageOf[b] : b \in A}

\* Mutant of RecentAlerts: the oldest rows instead of the newest.
OldestAlerts(a) ==
    LET present == stored \ deleted
    IN  {b \in present : Cardinality({c \in present : c < b}) < Limit}

\* The query of _load_recent_alerts, newest first up to its limit. Its lookback is the
\* longest window of all chains.
RecentAlerts(a) ==
    LET present == stored \ deleted
    IN  {b \in present : Cardinality({c \in present : c > b}) < Limit}

\* For each stage of the chain the task's own alert, or else the newest that matches.
MatchIn(a, alerts, ch) ==
    LET inWindow == alerts \ gone[WindowOf[ch]]
        precedes(b, c) == b = a \/ (c # a /\ c < b)
    IN  {b \in inWindow :
            /\ StageOf[b] \in Stages[ch]
            /\ \A c \in inWindow \ {b} : StageOf[c] = StageOf[b] => precedes(b, c)}

\* The loop goes on to the first of the chains left that matches, or ends.
TryChains(a, alerts, left) ==
    LET matching == {ch \in left :
                        Cardinality(StagesOf(MatchIn(a, alerts, ch))) >= MinStages[ch]}
    IN  \/ /\ matching = {}
           /\ ChainStep(a, "done")
           /\ UNCHANGED <<chainOf, match>>
        \/ \E ch \in matching :
              /\ \A d \in matching : ch <= d
              /\ chainOf' = [chainOf EXCEPT ![a] = ch]
              /\ match' = [match EXCEPT ![a] = MatchIn(a, alerts, ch)]
              /\ ChainStep(a, "lock")

ChainsAfter(ch) == {d \in Chain : ch < d}

\* The alerts are loaded once, for all chains.
LoadRecentAlerts(a) ==
    /\ chainTask[a] = "load"
    /\ loaded' = [loaded EXCEPT ![a] = {a} \cup RecentAlerts(a)]
    /\ TryChains(a, {a} \cup RecentAlerts(a), Chain)
    /\ UNCHANGED <<alert_vars, crowdTask, bucket, effect_vars, mishap, unlocked>>

\* Mutant of Fingerprint: named after the alert that was checked.
FingerprintOfTrigger(a) == {a}

\* The hash of the sorted ids of the cluster; the key names no chain.
Fingerprint(a) == match[a]

\* SET NX EX; a task that finds the key leaves the cluster to its owner.
TakeChainLock(a) ==
    /\ chainTask[a] = "lock"
    /\ chainLock' = chainLock \cup {Fingerprint(a)}
    /\ IF Fingerprint(a) \in chainLock
       THEN TryChains(a, loaded[a], ChainsAfter(chainOf[a])) /\ UNCHANGED loaded
       ELSE ChainStep(a, "insert") /\ UNCHANGED loop_vars
    /\ UNCHANGED <<alert_vars, crowdTask, bucket, fired, cases, mishap, unlocked>>

ChainAlert(a) == [by |-> a, chain |-> chainOf[a], of |-> match[a]]

InsertChainAlert(a) ==
    /\ chainTask[a] = "insert"
    /\ fired' = fired \cup {ChainAlert(a)}
    /\ ChainStep(a, "investigate")
    /\ UNCHANGED <<alert_vars, loop_vars, crowdTask, bucket, chainLock, cases, mishap, unlocked>>

\* The row of a too long group id is refused. The error is swallowed, but the rollback
\* has expired the objects of the session: the next use of one raises and ends the task
\* with the chains it has not tried.
AutoCreateInvestigation(a) ==
    LET found == \E k \in cases : k.group = ChainCase(match[a])
    IN  /\ chainTask[a] = "investigate"
        /\ cases' = IF Fits(ChainIdLength) /\ ~found
                    THEN cases \cup {[by |-> a, group |-> ChainCase(match[a])]}
                    ELSE cases
        /\ IF Fits(ChainIdLength) \/ found
           THEN TryChains(a, loaded[a], ChainsAfter(chainOf[a])) /\ UNCHANGED loaded
           ELSE ChainStep(a, "done") /\ UNCHANGED loop_vars
        /\ UNCHANGED <<alert_vars, crowdTask, bucket, chainLock, fired, mishap, unlocked>>

\* A command of the task raises, executed or not. A failed SET counts as refused; after
\* it the factory's error deletes the key, unless that fails as well; and a failed
\* statement leaves a session that writes no more.
ChainTaskFails(a) ==
    /\ mishap' = TRUE
    /\ CASE chainTask[a] \in {"load", "investigate"} ->
                /\ ChainStep(a, "done")
                /\ UNCHANGED <<loop_vars, chainLock, fired, unlocked>>
         [] chainTask[a] = "lock" ->
                /\ chainLock' \in {chainLock, chainLock \cup {Fingerprint(a)}}
                /\ TryChains(a, loaded[a], ChainsAfter(chainOf[a]))
                /\ UNCHANGED <<loaded, fired, unlocked>>
         [] chainTask[a] = "insert" ->
                /\ fired' \in {fired, fired \cup {ChainAlert(a)}}
                /\ chainLock' \in {chainLock, chainLock \ {Fingerprint(a)}}
                /\ unlocked' = IF ChainAlert(a) \in fired' /\ Fingerprint(a) \notin chainLock'
                               THEN unlocked \cup {Fingerprint(a)}
                               ELSE unlocked
                /\ ChainStep(a, "done")
                /\ UNCHANGED loop_vars
         [] OTHER -> FALSE
    /\ UNCHANGED <<alert_vars, crowdTask, bucket, cases>>

ChainLockExpires(f) ==
    /\ f \in chainLock
    /\ chainLock' = chainLock \ {f}
    /\ unlocked' = unlocked \cup {f}
    /\ UNCHANGED <<alert_vars, task_vars, fired, cases, mishap>>

-----------------------------------------------------------------------------
(* _volume_investigation                                                   *)

Crowding == {b \in Severe : b \in stored \ (deleted \cup gone[60])}

\* The early returns, the count, and the hour of the cutoff.
CountCrowd(a) ==
    /\ crowdTask[a] = "count"
    /\ IF a \in Severe /\ Cardinality(Crowding) >= Crowd
       THEN CrowdStep(a, "find") /\ bucket' = [bucket EXCEPT ![a] = hour]
       ELSE CrowdStep(a, "done") /\ UNCHANGED bucket
    /\ UNCHANGED <<alert_vars, chainTask, loop_vars, effect_vars, mishap, unlocked>>

FindCluster(a) ==
    /\ crowdTask[a] = "find"
    /\ CrowdStep(a, IF \E k \in cases : k.group = Crowds(bucket[a]) THEN "done" ELSE "open")
    /\ UNCHANGED <<alert_vars, chainTask, loop_vars, bucket, effect_vars, mishap, unlocked>>

\* There is no unique constraint on the group id.
OpenCluster(a) ==
    /\ crowdTask[a] = "open"
    /\ cases' = IF Fits(ClusterIdLength)
                THEN cases \cup {[by |-> a, group |-> Crowds(bucket[a])]}
                ELSE cases
    /\ CrowdStep(a, "done")
    /\ UNCHANGED <<alert_vars, chainTask, loop_vars, bucket, chainLock, fired, mishap, unlocked>>

CrowdTaskFails(a) ==
    /\ crowdTask[a] \in {"count", "find", "open"}
    /\ mishap' = TRUE
    /\ CrowdStep(a, "done")
    /\ UNCHANGED <<alert_vars, chainTask, loop_vars, bucket, effect_vars, unlocked>>

\* A worker process dies with the tasks of its alerts.
TasksDie(A) ==
    /\ A # {} /\ A \subseteq stored
    /\ mishap' = TRUE
    /\ chainTask' = [a \in Alert |-> IF a \in A THEN "done" ELSE chainTask[a]]
    /\ crowdTask' = [a \in Alert |-> IF a \in A THEN "done" ELSE crowdTask[a]]
    /\ UNCHANGED <<alert_vars, loop_vars, bucket, effect_vars, unlocked>>

-----------------------------------------------------------------------------
ChInit ==
    /\ stored = {} /\ deleted = {}
    /\ gone = [w \in Window |-> {}]
    /\ hour = 0
    /\ chainTask = [a \in Alert |-> "none"]
    /\ loaded = [a \in Alert |-> {}]
    /\ chainOf = [a \in Alert |-> 0]
    /\ match = [a \in Alert |-> {}]
    /\ crowdTask = [a \in Alert |-> "none"]
    /\ bucket = [a \in Alert |-> 0]
    /\ chainLock = {} /\ fired = {} /\ cases = {}
    /\ mishap = FALSE
    /\ unlocked = {}

ChainTask(a) ==
    \/ LoadRecentAlerts(a) \/ TakeChainLock(a) \/ InsertChainAlert(a)
    \/ AutoCreateInvestigation(a) \/ ChainTaskFails(a)

CrowdTask(a) == CountCrowd(a) \/ FindCluster(a) \/ OpenCluster(a) \/ CrowdTaskFails(a)

ChNext ==
    \/ \E A \in SUBSET Alert : StoreAlerts(A) \/ TasksDie(A)
    \/ \E a \in Alert : DeleteAlert(a) \/ \E w \in Window : LeavesWindow(w, a)
    \/ HourTurns
    \/ \E a \in Alert : ChainTask(a) \/ CrowdTask(a)
    \/ \E f \in chainLock : ChainLockExpires(f)

ChSpec == ChInit /\ [][ChNext]_chvars

-----------------------------------------------------------------------------
(***************************************************************************)
(* Properties                                                              *)
(***************************************************************************)

\* Every variable has its type.
ChTypeOK ==
    /\ stored \subseteq Alert /\ deleted \subseteq stored
    /\ gone \in [Window -> SUBSET Alert]
    /\ hour \in 0 .. MaxHours
    /\ chainTask \in [Alert -> {"none", "load", "lock", "insert", "investigate", "done"}]
    /\ loaded \in [Alert -> SUBSET stored]
    /\ chainOf \in [Alert -> Chain \cup {0}]
    /\ match \in [Alert -> SUBSET Alert]
    /\ crowdTask \in [Alert -> {"none", "count", "find", "open", "done"}]
    /\ bucket \in [Alert -> 0 .. MaxHours]
    /\ chainLock \subseteq SUBSET Alert /\ unlocked \subseteq SUBSET Alert
    /\ fired \subseteq [by : stored, chain : Chain, of : SUBSET Alert]
    /\ \A k \in cases : k.by \in stored
    /\ mishap \in BOOLEAN

\* One cluster of alerts makes one chain alert, however many tasks find it at once, for
\* whichever chain, and whatever fails: a second one takes a key that expired, or was
\* deleted by the error branch although the commit had been executed.
ClusterFiresOnce ==
    \A x, y \in fired : x.of = y.of => x = y \/ x.of \in unlocked

\* The alerts of the chain's window that the limit cannot have kept from a task: fewer
\* than Limit were ever committed that are newer.
InReach(ch) ==
    {b \in stored \ deleted : Cardinality({c \in stored : c > b}) < Limit} \ gone[WindowOf[ch]]

Accumulated(ch) == StagesOf(InReach(ch)) \cap Stages[ch]

\* A chain alert with these stages; or one of an earlier chain, by a task that had all
\* these alerts in hand and came no further than that chain, for a task ends with its
\* first chain alert.
Answers(x, ch) ==
    \/ Accumulated(ch) \subseteq StagesOf(x.of)
    \/ x.chain < ch /\ InReach(ch) \subseteq loaded[x.by]

\* Workers commit alerts in any order and each task sees only the newest Limit alerts
\* that are committed when it looks; still, once all tasks are done and nothing failed,
\* each chain among the newest Limit alerts was answered, by a chain alert of its own or
\* of an earlier chain of the list, and no crowd is left unnoticed. A host name of eight
\* characters or more makes the group id of a crowd too long, and its investigation is
\* never stored.
AccumulationIsNoticed ==
    ~mishap =>
      /\ \/ \E a \in stored : chainTask[a] # "done"
         \/ \A ch \in Chain :
               \/ Cardinality(Accumulated(ch)) < MinStages[ch]
               \/ \E x \in fired : Answers(x, ch)
      /\ \/ \E a \in stored : crowdTask[a] # "done"
         \/ Cardinality(Crowding) < Crowd
         \/ ~Fits(ClusterIdLength)
         \/ \E k \in cases : k.group.kind = "cluster"
===============================================================================
