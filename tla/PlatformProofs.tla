---------------------------- MODULE PlatformProofs ----------------------------
(***************************************************************************)
(* The properties of chain and crowd tasks, of the notes of an alert, of   *)
(* the row of an agent and of assignments, proved for any number of        *)
(* alerts, sweeps and requests, and the properties of all parts, proved    *)
(* for the platform as a whole.                                            *)
(***************************************************************************)
EXTENDS Platform, ApiServerProofs, FiniteSetTheorems

-----------------------------------------------------------------------------
(* Types of chain and crowd tasks                                          *)

Looped(a) == chainTask[a] \in {"lock", "insert", "investigate"}

\* The tasks of an alert begin with its commit, and the loop of one stands at a chain.
ChTypes ==
    /\ ChTypeOK
    /\ \A a \in Alert \ stored : chainTask[a] = "none" /\ crowdTask[a] = "none"
    /\ \A a \in Alert : Looped(a) => chainOf[a] \in Chain

\* The types are those of the chain and crowd tasks, whose steps name committed alerts.
LEMMA ChTypesInit == ChInit => ChTypes
  <1> SUFFICES ASSUME ChInit PROVE ChTypes
    OBVIOUS
  <1>1. gone \in [Window -> SUBSET Alert]
    BY DEF ChInit
  <1>2. /\ loaded \in [Alert -> SUBSET stored] /\ match \in [Alert -> SUBSET Alert]
        /\ chainOf \in [Alert -> Chain \cup {0}]
    BY DEF ChInit
  <1>3. hour \in 0 .. MaxHours /\ bucket \in [Alert -> 0 .. MaxHours]
    BY AlertAssumption DEF ChInit
  <1>4. /\ chainTask \in [Alert -> {"none", "load", "lock", "insert", "investigate", "done"}]
        /\ crowdTask \in [Alert -> {"none", "count", "find", "open", "done"}]
    BY DEF ChInit
  <1>5. QED
    BY <1>1, <1>2, <1>3, <1>4 DEF ChInit, ChTypes, ChTypeOK, Looped

\* The loop of one task goes on, or ends.
LEMMA TryTypes ==
    ASSUME ChTypes, NEW a \in stored, NEW alerts \in SUBSET Alert, NEW left \in SUBSET Chain,
           TryChains(a, alerts, left)
    PROVE  /\ chainTask' \in [Alert -> {"none", "load", "lock", "insert", "investigate", "done"}]
           /\ chainOf' \in [Alert -> Chain \cup {0}]
           /\ match' \in [Alert -> SUBSET Alert]
           /\ chainTask'[a] = "done" \/ (chainTask'[a] = "lock" /\ chainOf'[a] \in Chain)
           /\ \A b \in Alert \ {a} : /\ chainTask'[b] = chainTask[b]
                                     /\ chainOf'[b] = chainOf[b] /\ match'[b] = match[b]
  <1> USE DEF ChTypes, ChTypeOK, ChainStep
  <1>1. CASE ChainStep(a, "done") /\ UNCHANGED <<chainOf, match>>
    BY <1>1
  <1>2. ASSUME NEW ch \in left, chainOf' = [chainOf EXCEPT ![a] = ch],
               match' = [match EXCEPT ![a] = MatchIn(a, alerts, ch)], ChainStep(a, "lock")
        PROVE  /\ chainTask' \in [Alert -> {"none", "load", "lock", "insert", "investigate",
                                            "done"}]
               /\ chainOf' \in [Alert -> Chain \cup {0}]
               /\ match' \in [Alert -> SUBSET Alert]
               /\ chainTask'[a] = "lock" /\ chainOf'[a] \in Chain
               /\ \A b \in Alert \ {a} : /\ chainTask'[b] = chainTask[b]
                                         /\ chainOf'[b] = chainOf[b] /\ match'[b] = match[b]
    <2>1. MatchIn(a, alerts, ch) \in SUBSET Alert
      BY DEF MatchIn
    <2> HIDE DEF MatchIn
    <2>2. QED
      BY <1>2, <2>1
  <1>3. QED
    BY <1>1, <1>2 DEF TryChains

LEMMA ChTypesKept ==
    ASSUME ChTypes, [ChNext]_chvars
    PROVE  ChTypes'
  <1> USE AlertAssumption
      DEF ChTypes, ChTypeOK, ChainStep, CrowdStep, alert_vars, loop_vars, task_vars, effect_vars,
          Looped
  <1>1. CASE UNCHANGED chvars
    BY <1>1 DEF chvars
  <1>2. ASSUME NEW A \in SUBSET Alert, StoreAlerts(A) PROVE ChTypes'
    <2>1. loaded' \in [Alert -> SUBSET stored']
      BY <1>2 DEF StoreAlerts
    <2>2. fired' \subseteq [by : stored', chain : Chain, of : SUBSET Alert]
      BY <1>2 DEF StoreAlerts
    <2>3. QED
      BY <1>2, <2>1, <2>2 DEF StoreAlerts
  <1>3. ASSUME NEW A \in SUBSET Alert, TasksDie(A) PROVE ChTypes'
    BY <1>3 DEF TasksDie
  <1>4. ASSUME NEW a \in Alert, DeleteAlert(a) PROVE ChTypes'
    BY <1>4 DEF DeleteAlert
  <1>5. ASSUME NEW w \in Window, NEW a \in Alert, LeavesWindow(w, a) PROVE ChTypes'
    <2>1. gone' = [gone EXCEPT ![w] = gone[w] \cup {a}] /\ gone[w] \cup {a} \in SUBSET Alert
      BY <1>5 DEF LeavesWindow
    <2>2. gone' \in [Window -> SUBSET Alert]
      BY <2>1
    <2>3. QED
      BY <1>5, <2>2 DEF LeavesWindow
  <1>6. CASE HourTurns
    BY <1>6 DEF HourTurns
  <1>7. ASSUME NEW a \in Alert, CrowdTask(a) PROVE ChTypes'
    <2>1. CASE CountCrowd(a)
      BY <2>1 DEF CountCrowd
    <2>2. CASE FindCluster(a)
      BY <2>2 DEF FindCluster
    <2>3. CASE OpenCluster(a)
      BY <2>3 DEF OpenCluster
    <2>4. CASE CrowdTaskFails(a)
      BY <2>4 DEF CrowdTaskFails
    <2>5. QED
      BY <1>7, <2>1, <2>2, <2>3, <2>4 DEF CrowdTask
  <1>8. ASSUME NEW f \in chainLock, ChainLockExpires(f) PROVE ChTypes'
    BY <1>8 DEF ChainLockExpires
  <1>9. ASSUME NEW a \in Alert, ChainTask(a) PROVE ChTypes'
    <2>1. a \in stored
      BY <1>9 DEF ChainTask, LoadRecentAlerts, TakeChainLock, InsertChainAlert,
            AutoCreateInvestigation, ChainTaskFails
    <2>2. loaded[a] \in SUBSET Alert /\ ChainsAfter(chainOf[a]) \in SUBSET Chain
      BY DEF ChainsAfter
    <2>4. chainTask[a] = "insert" => ChainAlert(a) \in [by : stored, chain : Chain, of : SUBSET Alert]
      BY <2>1 DEF ChainAlert
    <2>5. CASE LoadRecentAlerts(a)
      <3>1. {a} \cup RecentAlerts(a) \in SUBSET stored
        BY <2>1 DEF RecentAlerts
      <3>2. loaded' \in [Alert -> SUBSET stored]
        BY <2>5, <3>1 DEF LoadRecentAlerts
      <3>3. TryChains(a, {a} \cup RecentAlerts(a), Chain)
        BY <2>5 DEF LoadRecentAlerts
      <3>4. {a} \cup RecentAlerts(a) \in SUBSET Alert
        BY <3>1
      <3> HIDE DEF RecentAlerts
      <3>5. QED
        BY <2>1, <2>5, <3>2, <3>3, <3>4, TryTypes DEF LoadRecentAlerts
    <2>6. CASE TakeChainLock(a)
      <3>1. chainLock' \subseteq SUBSET Alert
        <4>1. chainLock' = chainLock \cup {match[a]} /\ match[a] \in SUBSET Alert
          BY <2>6 DEF TakeChainLock, Fingerprint
        <4>2. QED
          BY <4>1
      <3>2. CASE TryChains(a, loaded[a], ChainsAfter(chainOf[a])) /\ UNCHANGED loaded
        BY <2>1, <2>2, <2>6, <3>1, <3>2, TryTypes DEF TakeChainLock
      <3>3. CASE ChainStep(a, "insert") /\ UNCHANGED loop_vars
        BY <2>1, <2>6, <3>1, <3>3 DEF TakeChainLock
      <3>4. QED
        BY <2>6, <3>2, <3>3 DEF TakeChainLock
    <2>7. CASE InsertChainAlert(a)
      BY <2>1, <2>4, <2>7 DEF InsertChainAlert
    <2>8. CASE AutoCreateInvestigation(a)
      <3>1. \A k \in cases' : k.by \in stored
        BY <2>1, <2>8 DEF AutoCreateInvestigation
      <3>2. CASE TryChains(a, loaded[a], ChainsAfter(chainOf[a])) /\ UNCHANGED loaded
        BY <2>1, <2>2, <2>8, <3>1, <3>2, TryTypes DEF AutoCreateInvestigation
      <3>3. CASE ChainStep(a, "done") /\ UNCHANGED loop_vars
        BY <2>1, <2>8, <3>1, <3>3 DEF AutoCreateInvestigation
      <3>4. QED
        BY <2>8, <3>2, <3>3 DEF AutoCreateInvestigation
    <2>9. CASE ChainTaskFails(a)
      <3>1. UNCHANGED <<alert_vars, crowdTask, bucket, cases>> /\ mishap' \in BOOLEAN
        BY <2>9 DEF ChainTaskFails
      <3>2. CASE chainTask[a] \in {"load", "investigate"}
        BY <2>1, <2>9, <3>1, <3>2 DEF ChainTaskFails
      <3>3. CASE chainTask[a] = "lock"
        <4>1. chainLock' \subseteq SUBSET Alert
          BY <2>9, <3>3 DEF ChainTaskFails, Fingerprint
        <4>2. /\ TryChains(a, loaded[a], ChainsAfter(chainOf[a]))
              /\ UNCHANGED <<loaded, fired, unlocked>>
          BY <2>9, <3>3 DEF ChainTaskFails
        <4>3. /\ chainTask' \in [Alert -> {"none", "load", "lock", "insert", "investigate", "done"}]
              /\ chainOf' \in [Alert -> Chain \cup {0}]
              /\ match' \in [Alert -> SUBSET Alert]
              /\ chainTask'[a] = "done" \/ (chainTask'[a] = "lock" /\ chainOf'[a] \in Chain)
              /\ \A b \in Alert \ {a} : /\ chainTask'[b] = chainTask[b]
                                        /\ chainOf'[b] = chainOf[b] /\ match'[b] = match[b]
          <5> HIDE DEF ChTypes, ChTypeOK, ChainStep
          <5>1. QED
            BY <2>1, <2>2, <4>2, TryTypes
        <4>4. QED
          BY <2>1, <3>1, <4>1, <4>2, <4>3
      <3>4. CASE chainTask[a] = "insert"
        <4>1. /\ chainLock' \subseteq SUBSET Alert /\ unlocked' \subseteq SUBSET Alert
              /\ fired' \subseteq [by : stored, chain : Chain, of : SUBSET Alert]
          BY <2>4, <2>9, <3>4 DEF ChainTaskFails, Fingerprint
        <4>2. ChainStep(a, "done") /\ UNCHANGED loop_vars
          BY <2>9, <3>4 DEF ChainTaskFails
        <4>3. QED
          BY <2>1, <3>1, <4>1, <4>2
      <3>5. QED
        BY <2>9, <3>2, <3>3, <3>4 DEF ChainTaskFails
    <2>10. QED
      BY <1>9, <2>5, <2>6, <2>7, <2>8, <2>9 DEF ChainTask
  <1>10. QED
    BY <1>1, <1>2, <1>3, <1>4, <1>5, <1>6, <1>7, <1>8, <1>9 DEF ChNext

-----------------------------------------------------------------------------
(* Chain alerts                                                            *)

\* The chain alerts that are committed, or that a task is about to insert.
Owners == fired \cup {ChainAlert(a) : a \in {b \in Alert : chainTask[b] = "insert"}}

LEMMA WhoOwns ==
    /\ \A x : x \in Owners <=>
          x \in fired \/ \E b \in Alert : chainTask[b] = "insert" /\ x = ChainAlert(b)
    /\ \A x : x \in Owners' <=>
          x \in fired' \/ \E b \in Alert : chainTask'[b] = "insert" /\ x = ChainAlert(b)'
  BY DEF Owners

\* A cluster with an owner has its key, or had it and lost it; and it has two owners only
\* if the key was lost.
ChainInv ==
    /\ \A x \in Owners : x.of \in chainLock \cup unlocked
    /\ \A x, y \in Owners : x.of = y.of => x = y \/ x.of \in unlocked

LEMMA ChainInitInv == ChInit => ChainInv
  BY DEF ChInit, ChainInv, Owners

\* Owners stay as they are where the loop of no task but a's moves, and that not from or
\* to an insertion.
LEMMA SameOwners ==
    ASSUME ChTypes, NEW a \in Alert, chainTask[a] # "insert", chainTask'[a] # "insert",
           fired' = fired,
           \A b \in Alert \ {a} : /\ chainTask'[b] = chainTask[b]
                                  /\ chainOf'[b] = chainOf[b] /\ match'[b] = match[b]
    PROVE  Owners' = Owners
  <1>1. \A b \in Alert \ {a} : ChainAlert(b)' = ChainAlert(b)
    BY DEF ChainAlert
  <1>2. \A x : x \in Owners' <=> x \in Owners
    BY <1>1, WhoOwns
  <1>3. QED
    BY <1>2

\* Owners stay as they are where no task of the loop moves at all.
LEMMA RestingOwners ==
    ASSUME UNCHANGED <<chainTask, chainOf, match, fired>>
    PROVE  Owners' = Owners
  BY DEF Owners, ChainAlert

\* The commit of alerts starts tasks, a death ends them; neither makes an owner.
LEMMA FewerOwners ==
    ASSUME NEW A \in SUBSET Alert, NEW next \in {"load", "done"},
           chainTask' = [a \in Alert |-> IF a \in A THEN next ELSE chainTask[a]],
           UNCHANGED <<chainOf, match, fired>>
    PROVE  Owners' \subseteq Owners
  <1>1. \A b \in Alert : ChainAlert(b)' = ChainAlert(b) /\ (chainTask'[b] = "insert" => chainTask[b] = "insert")
    BY DEF ChainAlert
  <1>2. QED
    BY <1>1, WhoOwns

\* What a step of a task does to the owners.
LEMMA TaskOwners ==
    ASSUME ChTypes, NEW a \in Alert, ChainTask(a), ~ ChainTaskFails(a)
    PROVE  \/ TakeChainLock(a) /\ Fingerprint(a) \notin chainLock /\ Owners' = Owners \cup {ChainAlert(a)}
           \/ ~ (TakeChainLock(a) /\ Fingerprint(a) \notin chainLock) /\ Owners' = Owners
  <1> USE DEF alert_vars, loop_vars, task_vars, effect_vars
  <1>1. a \in stored
    BY DEF ChTypes, ChainTask, LoadRecentAlerts, TakeChainLock, InsertChainAlert,
           AutoCreateInvestigation, ChainTaskFails
  <1>2. loaded[a] \in SUBSET Alert /\ ChainsAfter(chainOf[a]) \in SUBSET Chain
    BY DEF ChTypes, ChTypeOK, ChainsAfter
  <1>3. ASSUME TryChains(a, loaded[a], ChainsAfter(chainOf[a])), fired' = fired,
               chainTask[a] # "insert"
        PROVE  Owners' = Owners
    BY <1>1, <1>2, <1>3, TryTypes, SameOwners
  <1>4. CASE LoadRecentAlerts(a)
    <2>1. {a} \cup RecentAlerts(a) \in SUBSET Alert
      BY <1>1 DEF RecentAlerts, ChTypes, ChTypeOK
    <2>2. TryChains(a, {a} \cup RecentAlerts(a), Chain) /\ fired' = fired
          /\ chainTask[a] = "load"
      BY <1>4 DEF LoadRecentAlerts
    <2>3. Owners' = Owners
      BY <1>1, <2>1, <2>2, TryTypes, SameOwners
    <2>4. QED
      BY <2>2, <2>3 DEF TakeChainLock
  <1>5. CASE TakeChainLock(a)
    <2>1. CASE Fingerprint(a) \in chainLock
      BY <1>3, <1>5, <2>1 DEF TakeChainLock
    <2>2. CASE Fingerprint(a) \notin chainLock
      <3>1. ChainStep(a, "insert") /\ UNCHANGED <<chainOf, match, fired>> /\ chainTask[a] = "lock"
        BY <1>5, <2>2 DEF TakeChainLock
      <3>2. /\ chainTask'[a] = "insert"
            /\ \A b \in Alert \ {a} : chainTask'[b] = chainTask[b]
            /\ \A b \in Alert : ChainAlert(b)' = ChainAlert(b)
        BY <3>1 DEF ChainStep, ChTypes, ChTypeOK, ChainAlert
      <3>3. \A x : x \in Owners' <=> x \in Owners \cup {ChainAlert(a)}
        BY <3>1, <3>2, WhoOwns
      <3>4. QED
        BY <1>5, <2>2, <3>3
    <2>3. QED
      BY <2>1, <2>2
  <1>6. CASE InsertChainAlert(a)
    <2>1. /\ fired' = fired \cup {ChainAlert(a)} /\ ChainStep(a, "investigate")
          /\ UNCHANGED <<chainOf, match>> /\ chainTask[a] = "insert"
      BY <1>6 DEF InsertChainAlert
    <2>2. /\ chainTask'[a] = "investigate"
          /\ \A b \in Alert \ {a} : chainTask'[b] = chainTask[b]
          /\ \A b \in Alert : ChainAlert(b)' = ChainAlert(b)
      BY <2>1 DEF ChainStep, ChTypes, ChTypeOK, ChainAlert
    <2>3. \A x : x \in Owners' <=> x \in Owners
      BY <2>1, <2>2, WhoOwns
    <2>4. QED
      BY <2>1, <2>3 DEF TakeChainLock
  <1>7. CASE AutoCreateInvestigation(a)
    <2>1. chainTask[a] = "investigate" /\ fired' = fired
      BY <1>7 DEF AutoCreateInvestigation
    <2>2. CASE TryChains(a, loaded[a], ChainsAfter(chainOf[a]))
      BY <1>3, <2>1, <2>2 DEF TakeChainLock
    <2>3. CASE ChainStep(a, "done") /\ UNCHANGED loop_vars
      <3>1. chainTask'[a] = "done" /\ \A b \in Alert \ {a} : chainTask'[b] = chainTask[b]
        BY <2>3 DEF ChainStep, ChTypes, ChTypeOK
      <3>2. QED
        BY <2>1, <2>3, <3>1, SameOwners DEF TakeChainLock
    <2>4. QED
      BY <1>7, <2>2, <2>3 DEF AutoCreateInvestigation
  <1>8. QED
    BY <1>4, <1>5, <1>6, <1>7 DEF ChainTask

\* Each step keeps what is known of chain alerts and their keys.
LEMMA ChainKept ==
    ASSUME ChTypes, ChainInv, [ChNext]_chvars
    PROVE  ChainInv'
  <1> USE DEF alert_vars, loop_vars, task_vars, effect_vars
  <1>1. CASE /\ Owners' \subseteq Owners /\ chainLock \subseteq chainLock' \cup unlocked'
             /\ unlocked \subseteq unlocked'
    BY <1>1 DEF ChainInv
  <1>2. CASE UNCHANGED <<chainTask, chainOf, match, chainLock, fired, unlocked>>
    BY <1>1, <1>2, RestingOwners
  <1>3. ASSUME NEW A \in SUBSET Alert, StoreAlerts(A) \/ TasksDie(A) PROVE ChainInv'
    BY <1>1, <1>3, FewerOwners DEF StoreAlerts, TasksDie
  <1>4. ASSUME NEW f \in chainLock, ChainLockExpires(f) PROVE ChainInv'
    BY <1>1, <1>4, RestingOwners DEF ChainLockExpires
  <1>5. ASSUME NEW a \in Alert, ChainTaskFails(a) PROVE ChainInv'
    <2>1. a \in stored
      BY <1>5 DEF ChTypes, ChainTaskFails
    <2>2. CASE chainTask[a] \in {"load", "investigate"}
      <3>1. /\ chainTask'[a] = "done" /\ \A b \in Alert \ {a} : chainTask'[b] = chainTask[b]
            /\ UNCHANGED <<chainOf, match, fired, chainLock, unlocked>>
        BY <1>5, <2>2 DEF ChainTaskFails, ChainStep, ChTypes, ChTypeOK
      <3>2. QED
        BY <1>1, <2>2, <3>1, SameOwners
    <2>3. CASE chainTask[a] = "lock"
      <3>1. loaded[a] \in SUBSET Alert /\ ChainsAfter(chainOf[a]) \in SUBSET Chain
        BY DEF ChTypes, ChTypeOK, ChainsAfter
      <3>2. /\ TryChains(a, loaded[a], ChainsAfter(chainOf[a])) /\ fired' = fired
            /\ chainLock \subseteq chainLock' /\ unlocked' = unlocked
        BY <1>5, <2>3 DEF ChainTaskFails
      <3>3. Owners' = Owners
        BY <2>1, <2>3, <3>1, <3>2, TryTypes, SameOwners
      <3>4. QED
        BY <1>1, <3>2, <3>3
    <2>4. CASE chainTask[a] = "insert"
      <3>1. /\ fired' \in {fired, fired \cup {ChainAlert(a)}}
            /\ chainLock' \in {chainLock, chainLock \ {match[a]}}
            /\ unlocked' = IF ChainAlert(a) \in fired' /\ match[a] \notin chainLock'
                           THEN unlocked \cup {match[a]} ELSE unlocked
            /\ UNCHANGED <<chainOf, match>>
            /\ chainTask'[a] = "done" /\ \A b \in Alert \ {a} : chainTask'[b] = chainTask[b]
        BY <1>5, <2>4 DEF ChainTaskFails, ChainStep, ChTypes, ChTypeOK, Fingerprint
      <3>2. \A b \in Alert : ChainAlert(b)' = ChainAlert(b)
        BY <3>1 DEF ChainAlert
      <3>3. ChainAlert(a) \in Owners /\ ChainAlert(a).of = match[a]
        BY <2>4, WhoOwns DEF ChainAlert
      <3>4. Owners' \subseteq Owners
        BY <2>4, <3>1, <3>2, WhoOwns
      <3>5. CASE ChainAlert(a) \in fired' \/ chainLock' = chainLock
        BY <1>1, <3>1, <3>4, <3>5
      <3>6. CASE ChainAlert(a) \notin fired' /\ chainLock' = chainLock \ {match[a]}
        <4>1. unlocked' = unlocked
          BY <3>1, <3>6
        <4>2. ASSUME NEW x \in Owners' PROVE x # ChainAlert(a)
          <5>1. \A b \in Alert \ {a} : ChainAlert(b) # ChainAlert(a)
            BY DEF ChainAlert
          <5>2. QED
            BY <3>1, <3>2, <3>6, <5>1, WhoOwns
        <4>3. \A x \in Owners' : x.of \in chainLock' \cup unlocked'
          BY <3>3, <3>4, <3>6, <4>1, <4>2 DEF ChainInv
        <4>4. QED
          BY <3>4, <4>1, <4>3 DEF ChainInv
      <3>7. QED
        BY <3>1, <3>5, <3>6
    <2>5. QED
      BY <1>5, <2>2, <2>3, <2>4 DEF ChainTaskFails
  <1>6. ASSUME NEW a \in Alert, ChainTask(a), ~ ChainTaskFails(a) PROVE ChainInv'
    <2>1. unlocked' = unlocked
      BY <1>6 DEF ChainTask, LoadRecentAlerts, TakeChainLock, InsertChainAlert,
            AutoCreateInvestigation
    <2>2. chainLock \subseteq chainLock'
      BY <1>6 DEF ChainTask, LoadRecentAlerts, TakeChainLock, InsertChainAlert,
            AutoCreateInvestigation
    <2>3. CASE Owners' = Owners
      BY <1>1, <2>1, <2>2, <2>3
    <2>4. CASE /\ TakeChainLock(a) /\ Fingerprint(a) \notin chainLock
               /\ Owners' = Owners \cup {ChainAlert(a)}
      <3>1. match[a] \in chainLock' /\ ChainAlert(a).of = match[a] /\ match[a] \notin chainLock
        BY <2>4 DEF TakeChainLock, Fingerprint, ChainAlert
      <3>2. \A y \in Owners : y.of = match[a] => y.of \in unlocked
        BY <3>1 DEF ChainInv
      <3>3. QED
        BY <2>1, <2>2, <2>4, <3>1, <3>2 DEF ChainInv
    <2>5. QED
      BY <1>6, <2>3, <2>4, TaskOwners
  <1>7. QED
    BY <1>2, <1>3, <1>4, <1>5, <1>6 DEF ChNext, chvars, DeleteAlert, LeavesWindow, HourTurns,
       CrowdTask, CountCrowd, FindCluster, OpenCluster, CrowdTaskFails

-----------------------------------------------------------------------------
(* Accumulation                                                            *)

\* The chain alerts that are committed, or that a task is on its way to.
Claims == Owners \cup {ChainAlert(a) : a \in {b \in Alert : chainTask[b] = "lock"}}

LEMMA WhoClaims ==
    /\ \A x : x \in Claims <=>
          x \in Owners \/ \E b \in Alert : chainTask[b] = "lock" /\ x = ChainAlert(b)
    /\ \A x : x \in Claims' <=>
          x \in Owners' \/ \E b \in Alert : chainTask'[b] = "lock" /\ x = ChainAlert(b)'
  BY DEF Claims

\* A task has yet to look, or the chain has too few stages, or an answer.
Attended(ch) ==
    \/ \E a \in stored : chainTask[a] = "load"
    \/ Cardinality(Accumulated(ch)) < MinStages[ch]
    \/ \E x \in Claims : Answers(x, ch)

\* A key belongs to an owner of its cluster, and who investigates has fired.
ChainAttended ==
    /\ \A a \in Alert : chainTask[a] = "investigate" => ChainAlert(a) \in fired
    /\ \A f \in chainLock : \E x \in Owners : x.of = f
    /\ \A ch \in Chain : Attended(ch)

\* The task of a severe alert has yet to count, or is about to open an investigation.
Minds(a) == (a \in Severe /\ crowdTask[a] = "count") \/ crowdTask[a] \in {"find", "open"}

CrowdAttended ==
    \/ Cardinality(Crowding) < Crowd
    \/ ~Fits(ClusterIdLength)
    \/ \E k \in cases : k.group.kind = "cluster"
    \/ \E a \in stored : Minds(a)

\* Nothing accumulates unattended while nothing fails.
NoticeInv == IsFiniteSet(stored) /\ (~mishap => ChainAttended /\ CrowdAttended)

\* A finite set of numbers has a greatest one.
LEMMA Newest ==
    ASSUME NEW S, S \subseteq Nat, IsFiniteSet(S), S # {}
    PROVE  \E b \in S : \A c \in S \ {b} : c < b
  <1> DEFINE Above(b) == {c \in S : c > b}
             T == {Above(b) : b \in S}
  <1>1. IsWellFoundedOn(StrictSubsetOrdering(S), SUBSET S)
    BY FS_StrictSubsetOrderingWellFounded, FS_FiniteSubsetsOfFinite
  <1>2. T \subseteq SUBSET S /\ T # {}
    OBVIOUS
  <1>3. PICK x \in T : \A y \in T : ~ (<<y, x>> \in StrictSubsetOrdering(S))
    <2> HIDE DEF T
    <2>1. QED
      BY <1>1, <1>2, WFMin
  <1>4. PICK b \in S : x = Above(b)
    OBVIOUS
  <1>5. ASSUME NEW c \in Above(b) PROVE FALSE
    <2>1. c \in S /\ b \in Nat /\ c \in Nat /\ c > b
      OBVIOUS
    <2>2. Above(c) \subseteq Above(b)
      <3>1. ASSUME NEW d \in S, d > c PROVE d > b
        BY <2>1, <3>1
      <3>2. QED
        BY <3>1
    <2>3. c \notin Above(c) /\ Above(c) \in T
      BY <2>1
    <2>4. <<Above(c), x>> \in StrictSubsetOrdering(S)
      BY <2>2, <2>3, <1>4, <1>5 DEF StrictSubsetOrdering
    <2>5. QED
      BY <1>3, <2>3, <2>4
  <1>6. QED
    BY <1>5

\* A finite set of alerts has finitely many stages.
LEMMA StagesFinite ==
    ASSUME NEW A, IsFiniteSet(A)
    PROVE  IsFiniteSet(StagesOf(A)) /\ Cardinality(StagesOf(A)) \in Nat
  <1> DEFINE f == [b \in A |-> StageOf[b]]
  <1>1. f \in Surjection(A, StagesOf(A))
    BY DEF Surjection, StagesOf
  <1>2. IsFiniteSet(StagesOf(A))
    <2> HIDE DEF f
    <2>1. QED
      BY <1>1, FS_Surjection
  <1>3. QED
    BY <1>2, FS_CardinalityType

\* Fewer stages of a finite set are a smaller number of them.
LEMMA FewerStages ==
    ASSUME NEW A, IsFiniteSet(A), NEW S, S \subseteq StagesOf(A)
    PROVE  Cardinality(S) \in Nat /\ Cardinality(S) <= Cardinality(StagesOf(A))
  BY StagesFinite, FS_Subset, FS_CardinalityType

\* Alerts in reach are finitely many, and the limit keeps none of them from a task.
LEMMA ReachIsLoaded ==
    ASSUME ChTypeOK, IsFiniteSet(stored), NEW a \in Alert, NEW ch \in Chain
    PROVE  /\ IsFiniteSet(InReach(ch))
           /\ InReach(ch) \subseteq {a} \cup RecentAlerts(a)
  <1>1. InReach(ch) \in SUBSET stored
    BY DEF InReach
  <1>2. IsFiniteSet(InReach(ch))
    BY <1>1, FS_Subset
  <1>3. ASSUME NEW b \in InReach(ch) PROVE b \in RecentAlerts(a)
    <2> DEFINE newer == {c \in stored : c > b}
               present == {c \in stored \ deleted : c > b}
    <2>1. newer \in SUBSET stored /\ present \in SUBSET newer
      OBVIOUS
    <2>2. b \in stored \ deleted /\ Cardinality(newer) < Limit
      BY <1>3 DEF InReach
    <2>3. Cardinality(present) < Limit
      <3> HIDE DEF newer, present
      <3>1. /\ IsFiniteSet(newer) /\ IsFiniteSet(present)
            /\ Cardinality(present) <= Cardinality(newer)
        BY <2>1, FS_Subset
      <3>2. Cardinality(present) \in Nat /\ Cardinality(newer) \in Nat
        BY <3>1, FS_CardinalityType
      <3>3. QED
        BY <2>2, <3>1, <3>2, AlertAssumption
    <2>4. QED
      BY <2>2, <2>3 DEF RecentAlerts
  <1>4. QED
    BY <1>2, <1>3

\* The newest alert of each stage, or the alert itself, is enough to match every stage
\* that the alerts in reach match.
LEMMA MatchCovers ==
    ASSUME NEW a \in Alert, NEW ch \in Chain,
           NEW alerts \in SUBSET Nat, IsFiniteSet(alerts), InReach(ch) \subseteq alerts
    PROVE  /\ Accumulated(ch) \subseteq StagesOf(MatchIn(a, alerts, ch))
           /\ IsFiniteSet(MatchIn(a, alerts, ch))
  <1> DEFINE inWindow == alerts \ gone[WindowOf[ch]]
  <1>1. MatchIn(a, alerts, ch) \in SUBSET alerts
    BY DEF MatchIn
  <1>2. IsFiniteSet(MatchIn(a, alerts, ch))
    BY <1>1, FS_Subset
  <1>3. ASSUME NEW s \in Accumulated(ch) PROVE s \in StagesOf(MatchIn(a, alerts, ch))
    <2> DEFINE S == {b \in inWindow : StageOf[b] = s}
    <2>1. s \in Stages[ch] /\ S # {}
      <3>1. PICK b \in InReach(ch) : StageOf[b] = s
        BY <1>3 DEF Accumulated, StagesOf
      <3>2. b \in alerts /\ b \notin gone[WindowOf[ch]]
        BY DEF InReach
      <3>3. QED
        BY <1>3, <3>1, <3>2 DEF Accumulated
    <2>2. IsFiniteSet(S) /\ S \subseteq Nat
      <3>1. S \in SUBSET alerts
        OBVIOUS
      <3> HIDE DEF S
      <3>2. QED
        BY <3>1, FS_Subset
    <2>3. PICK b \in S : \A c \in S \ {b} : c < b
      <3> HIDE DEF S
      <3>1. QED
        BY <2>1, <2>2, Newest
    <2>4. \E m \in MatchIn(a, alerts, ch) : StageOf[m] = s
      <3>1. CASE a \in S
        <4>1. a \in MatchIn(a, alerts, ch)
          BY <2>1, <3>1 DEF MatchIn
        <4>2. QED
          BY <3>1, <4>1
      <3>2. CASE a \notin S
        <4>1. b \in MatchIn(a, alerts, ch)
          BY <2>1, <2>3, <3>2 DEF MatchIn
        <4>2. QED
          BY <4>1
      <3>3. QED
        BY <3>1, <3>2
    <2>5. QED
      BY <2>4 DEF StagesOf
  <1>4. QED
    BY <1>2, <1>3

\* A loop with all alerts in reach in hand answers each chain it has left, or comes to an
\* earlier one first.
LEMMA LoopAnswers ==
    ASSUME ChTypes, IsFiniteSet(stored), NEW a \in stored, NEW left \in SUBSET Chain,
           TryChains(a, loaded'[a], left), loaded'[a] \in SUBSET stored,
           UNCHANGED <<stored, deleted, gone>>,
           NEW ch \in left, InReach(ch) \subseteq loaded'[a],
           ~ (Cardinality(Accumulated(ch)) < MinStages[ch])
    PROVE  ChainAlert(a)' \in Claims' /\ Answers(ChainAlert(a), ch)'
  <1> DEFINE inHand(d) == MatchIn(a, loaded'[a], d)
             matching == {d \in left : Cardinality(StagesOf(inHand(d))) >= MinStages[d]}
  <1>1. a \in Alert /\ ch \in Chain /\ loaded'[a] \in SUBSET Nat /\ IsFiniteSet(loaded'[a])
    <2>1. a \in Alert /\ ch \in Chain /\ stored \subseteq Nat
      BY AlertAssumption DEF ChTypes, ChTypeOK
    <2>2. IsFiniteSet(loaded'[a])
      BY FS_Subset
    <2>3. QED
      BY <2>1, <2>2
  <1>2. Accumulated(ch) \subseteq StagesOf(inHand(ch)) /\ IsFiniteSet(inHand(ch))
    BY <1>1, MatchCovers
  <1>3. ch \in matching
    <2>1. /\ Cardinality(Accumulated(ch)) \in Nat
          /\ Cardinality(Accumulated(ch)) <= Cardinality(StagesOf(inHand(ch)))
          /\ Cardinality(StagesOf(inHand(ch))) \in Nat
      BY <1>2, FewerStages, StagesFinite
    <2>2. MinStages[ch] \in Nat
      BY <1>1, AlertAssumption
    <2>3. QED
      BY <2>1, <2>2
  <1>4. PICK d \in matching :
           /\ \A e \in matching : d <= e
           /\ chainOf' = [chainOf EXCEPT ![a] = d]
           /\ match' = [match EXCEPT ![a] = inHand(d)]
           /\ ChainStep(a, "lock")
    BY <1>3 DEF TryChains
  <1>5. /\ chainTask'[a] = "lock" /\ chainOf'[a] = d /\ match'[a] = inHand(d)
        /\ d <= ch /\ d \in Nat /\ ch \in Nat
    BY <1>1, <1>3, <1>4, AlertAssumption DEF ChainStep, ChTypes, ChTypeOK
  <1>6. ChainAlert(a)' = [by |-> a, chain |-> d, of |-> inHand(d)]
    BY <1>5 DEF ChainAlert
  <1>7. ChainAlert(a)' \in Claims'
    BY <1>1, <1>5, WhoClaims
  <1>8. Accumulated(ch)' = Accumulated(ch) /\ InReach(ch)' = InReach(ch)
    BY DEF Accumulated, InReach, StagesOf
  <1>9. CASE d = ch
    <2>1. StagesOf(ChainAlert(a).of)' = StagesOf(inHand(ch))
      BY <1>6, <1>9 DEF StagesOf
    <2>2. QED
      BY <1>2, <1>7, <1>8, <2>1 DEF Answers
  <1>10. CASE d < ch
    BY <1>6, <1>7, <1>8, <1>10 DEF Answers
  <1>11. QED
    BY <1>5, <1>9, <1>10

\* An answer stays one, while its task does not look again and no alert comes.
LEMMA AnswersStay ==
    ASSUME NEW x, NEW ch \in Chain, Answers(x, ch), loaded'[x.by] = loaded[x.by],
           InReach(ch)' \subseteq InReach(ch)
    PROVE  Answers(x, ch)'
  <1>1. Accumulated(ch)' \subseteq Accumulated(ch)
    BY DEF Accumulated, StagesOf
  <1>2. StagesOf(x.of)' = StagesOf(x.of)
    BY DEF StagesOf
  <1>3. QED
    BY <1>1, <1>2 DEF Answers

\* A step of another kind than those of the chain tasks, that only takes alerts and keys
\* away, leaves what was attended attended.
LEMMA ShrinkingIsAttended ==
    ASSUME ChTypes, IsFiniteSet(stored), ChainAttended,
           UNCHANGED <<stored, chainTask, loaded, chainOf, match, fired>>,
           deleted \subseteq deleted', \A w \in Window : gone[w] \subseteq gone'[w],
           chainLock' \subseteq chainLock
    PROVE  ChainAttended'
  <1>1. Owners' = Owners /\ Claims' = Claims
    BY DEF Owners, Claims, ChainAlert
  <1>2. ASSUME NEW ch \in Chain PROVE Attended(ch)'
    <2>1. InReach(ch)' \subseteq InReach(ch)
      BY AlertAssumption DEF InReach
    <2>2. CASE Cardinality(Accumulated(ch)) < MinStages[ch]
      <3>1. InReach(ch) \in SUBSET stored
        BY DEF InReach
      <3>2. IsFiniteSet(InReach(ch))
        BY <3>1, FS_Subset
      <3>3. IsFiniteSet(Accumulated(ch)) /\ Accumulated(ch)' \in SUBSET Accumulated(ch)
        <4>1. Accumulated(ch) \in SUBSET StagesOf(InReach(ch))
          BY DEF Accumulated
        <4>2. IsFiniteSet(Accumulated(ch))
          BY <3>2, <4>1, StagesFinite, FS_Subset
        <4>3. QED
          BY <2>1, <4>2 DEF Accumulated, StagesOf
      <3>4. Cardinality(Accumulated(ch)') <= Cardinality(Accumulated(ch))
            /\ Cardinality(Accumulated(ch)') \in Nat /\ Cardinality(Accumulated(ch)) \in Nat
        BY <3>3, FS_Subset, FS_CardinalityType
      <3>5. Cardinality(Accumulated(ch)') < MinStages[ch]
        BY <2>2, <3>4, AlertAssumption
      <3>6. QED
        BY <3>5 DEF Attended
    <2>3. ASSUME NEW x \in Claims, Answers(x, ch) PROVE Attended(ch)'
      BY <1>1, <2>1, <2>3, AnswersStay DEF Attended
    <2>4. QED
      BY <2>2, <2>3 DEF ChainAttended, Attended
  <1>3. QED
    BY <1>1, <1>2 DEF ChainAttended, ChainAlert

\* Each step leaves each chain attended, unless it is one that fails.
LEMMA ChainAttendedKept ==
    ASSUME ChTypes, IsFiniteSet(stored), ChainAttended, [ChNext]_chvars, ~mishap'
    PROVE  ChainAttended'
  <1> USE AlertAssumption DEF alert_vars, loop_vars, task_vars, effect_vars
  <1>1. CASE /\ UNCHANGED <<stored, chainTask, loaded, chainOf, match, fired>>
             /\ deleted \subseteq deleted' /\ \A w \in Window : gone[w] \subseteq gone'[w]
             /\ chainLock' \subseteq chainLock
    BY <1>1, ShrinkingIsAttended
  <1>2. ASSUME NEW A \in SUBSET Alert, StoreAlerts(A) PROVE ChainAttended'
    <2>1. PICK x \in A : chainTask'[x] = "load"
      BY <1>2 DEF StoreAlerts
    <2>2. \A ch \in Chain : Attended(ch)'
      BY <1>2, <2>1 DEF StoreAlerts, Attended
    <2>3. \A a \in Alert : /\ ChainAlert(a)' = ChainAlert(a)
                           /\ chainTask[a] = "insert" <=> chainTask'[a] = "insert"
                           /\ chainTask[a] = "investigate" <=> chainTask'[a] = "investigate"
      BY <1>2 DEF StoreAlerts, ChTypes, ChainAlert
    <2>4. \A y \in Owners : y \in Owners'
      BY <1>2, <2>3, WhoOwns DEF StoreAlerts
    <2>5. QED
      BY <1>2, <2>2, <2>3, <2>4 DEF ChainAttended, StoreAlerts
  <1>3. ASSUME NEW A \in SUBSET Alert, TasksDie(A) PROVE ChainAttended'
    BY <1>3 DEF TasksDie
  <1>4. ASSUME NEW a \in Alert, DeleteAlert(a) PROVE ChainAttended'
    BY <1>1, <1>4 DEF DeleteAlert
  <1>5. ASSUME NEW w \in Window, NEW a \in Alert, LeavesWindow(w, a) PROVE ChainAttended'
    BY <1>1, <1>5 DEF LeavesWindow, ChTypes, ChTypeOK
  <1>6. ASSUME NEW a \in Alert, CrowdTask(a) PROVE ChainAttended'
    BY <1>1, <1>6 DEF CrowdTask, CountCrowd, FindCluster, OpenCluster, CrowdTaskFails
  <1>7. ASSUME NEW f \in chainLock, ChainLockExpires(f) PROVE ChainAttended'
    BY <1>1, <1>7 DEF ChainLockExpires
  <1>8. ASSUME NEW a \in Alert, ChainTask(a), ~ ChainTaskFails(a) PROVE ChainAttended'
    <2>1. UNCHANGED <<stored, deleted, gone>> /\ a \in stored
      BY <1>8 DEF ChainTask, LoadRecentAlerts, TakeChainLock, InsertChainAlert,
            AutoCreateInvestigation, ChTypes
    <2>2. \A ch \in Chain : InReach(ch)' = InReach(ch) /\ Accumulated(ch)' = Accumulated(ch)
      BY <2>1 DEF InReach, Accumulated, StagesOf
    <2>3. a \in Alert
      OBVIOUS
    <2>4. \A b \in Alert \ {a} : /\ chainTask'[b] = chainTask[b] /\ loaded'[b] = loaded[b]
                                 /\ ChainAlert(b)' = ChainAlert(b)
      <3>1. \/ chainTask' = [chainTask EXCEPT ![a] = "insert"] /\ UNCHANGED loop_vars
            \/ chainTask' = [chainTask EXCEPT ![a] = "investigate"] /\ UNCHANGED loop_vars
            \/ chainTask' = [chainTask EXCEPT ![a] = "done"] /\ UNCHANGED loop_vars
            \/ /\ UNCHANGED loaded
               /\ \E alerts \in {loaded[a]} : TryChains(a, alerts, ChainsAfter(chainOf[a]))
            \/ /\ loaded' = [loaded EXCEPT ![a] = {a} \cup RecentAlerts(a)]
               /\ \E alerts \in {{a} \cup RecentAlerts(a)} : TryChains(a, alerts, Chain)
        BY <1>8 DEF ChainTask, LoadRecentAlerts, TakeChainLock, InsertChainAlert,
              AutoCreateInvestigation, ChainStep
      <3>2. /\ loaded[a] \in SUBSET Alert /\ ChainsAfter(chainOf[a]) \in SUBSET Chain
            /\ {a} \cup RecentAlerts(a) \in SUBSET Alert
        BY DEF ChTypes, ChTypeOK, ChainsAfter, RecentAlerts
      <3>3. ASSUME NEW alerts \in SUBSET Alert, NEW left \in SUBSET Chain,
                   TryChains(a, alerts, left)
            PROVE  \A b \in Alert \ {a} : /\ chainTask'[b] = chainTask[b]
                                          /\ chainOf'[b] = chainOf[b] /\ match'[b] = match[b]
        BY <2>1, <3>3, TryTypes
      <3>4. \A b \in Alert \ {a} : /\ chainTask'[b] = chainTask[b] /\ loaded'[b] = loaded[b]
                                   /\ chainOf'[b] = chainOf[b] /\ match'[b] = match[b]
        BY <3>1, <3>2, <3>3 DEF ChTypes, ChTypeOK
      <3>5. QED
        BY <3>4 DEF ChainAlert
    <2>5. CASE LoadRecentAlerts(a)
      <3>1. /\ loaded' = [loaded EXCEPT ![a] = {a} \cup RecentAlerts(a)]
            /\ TryChains(a, {a} \cup RecentAlerts(a), Chain)
            /\ UNCHANGED <<chainLock, fired>> /\ chainTask[a] = "load"
        BY <2>5 DEF LoadRecentAlerts
      <3>2. {a} \cup RecentAlerts(a) \in SUBSET stored /\ stored \subseteq Alert
        BY <2>1 DEF RecentAlerts, ChTypes, ChTypeOK
      <3>3. loaded'[a] = {a} \cup RecentAlerts(a)
        BY <3>1 DEF ChTypes, ChTypeOK
      <3>4. ASSUME NEW ch \in Chain, ~ (Cardinality(Accumulated(ch)) < MinStages[ch])
            PROVE  \E x \in Claims' : Answers(x, ch)'
        <4>1. InReach(ch) \subseteq loaded'[a]
          BY <3>3, ReachIsLoaded DEF ChTypes
        <4>2. QED
          BY <2>1, <3>1, <3>2, <3>3, <3>4, <4>1, LoopAnswers
      <3>5. \A ch \in Chain : Attended(ch)'
        BY <2>2, <3>4 DEF Attended
      <3>6. chainTask'[a] \in {"lock", "done"}
        BY <2>1, <3>1, <3>2, TryTypes
      <3>7. Owners' = Owners
        BY <2>3, <2>5, <1>8, <3>1, TaskOwners DEF TakeChainLock
      <3>8. QED
        BY <2>4, <3>1, <3>5, <3>6, <3>7 DEF ChainAttended
    <2>6. ASSUME chainTask[a] # "load", loaded' = loaded, Claims \subseteq Claims',
                 NEW ch \in Chain
          PROVE  Attended(ch)'
      <3>1. CASE \E b \in stored : chainTask[b] = "load"
        BY <2>1, <2>4, <2>6, <3>1 DEF Attended, ChTypes, ChTypeOK
      <3>2. CASE Cardinality(Accumulated(ch)) < MinStages[ch]
        BY <2>2, <3>2 DEF Attended
      <3>3. ASSUME NEW x \in Claims, Answers(x, ch) PROVE Attended(ch)'
        BY <2>2, <2>6, <3>3, AnswersStay DEF Attended
      <3>4. QED
        BY <3>1, <3>2, <3>3 DEF ChainAttended, Attended
    <2>7. CASE TakeChainLock(a) /\ Fingerprint(a) \notin chainLock
      <3>1. /\ chainTask[a] = "lock" /\ chainTask'[a] = "insert"
            /\ UNCHANGED <<loaded, chainOf, match, fired>>
            /\ chainLock' = chainLock \cup {match[a]}
        BY <2>7 DEF TakeChainLock, Fingerprint, ChainStep, ChTypes, ChTypeOK
      <3>2. ChainAlert(a)' = ChainAlert(a) /\ ChainAlert(a).of = match[a]
        BY <3>1 DEF ChainAlert
      <3>3. Owners' = Owners \cup {ChainAlert(a)}
        BY <1>8, <2>7, TaskOwners
      <3>4. Claims \subseteq Claims'
        BY <2>4, <3>3, WhoClaims
      <3>5. QED
        BY <2>4, <2>6, <3>1, <3>2, <3>3, <3>4 DEF ChainAttended
    <2>8. CASE TakeChainLock(a) /\ Fingerprint(a) \in chainLock
      <3>1. /\ chainTask[a] = "lock" /\ chainLock' = chainLock /\ match[a] \in chainLock
            /\ TryChains(a, loaded[a], ChainsAfter(chainOf[a])) /\ UNCHANGED <<loaded, fired>>
        BY <2>8 DEF TakeChainLock, Fingerprint
      <3>2. loaded[a] \in SUBSET stored /\ stored \subseteq Alert
            /\ ChainsAfter(chainOf[a]) \in SUBSET Chain
        BY DEF ChTypes, ChTypeOK, ChainsAfter
      <3>3. chainTask'[a] \in {"lock", "done"}
        BY <2>1, <3>1, <3>2, TryTypes
      <3>4. Owners' = Owners
        BY <1>8, <2>8, TaskOwners
      <3>5. \A x \in Claims : x \in Claims' \/ x = ChainAlert(a)
        BY <2>4, <3>4, WhoClaims
      <3>6. ASSUME NEW ch \in Chain PROVE Attended(ch)'
        <4>1. CASE \E b \in stored : chainTask[b] = "load"
          BY <2>1, <2>4, <3>1, <4>1 DEF Attended, ChTypes, ChTypeOK
        <4>2. CASE Cardinality(Accumulated(ch)) < MinStages[ch]
          BY <2>2, <4>2 DEF Attended
        <4>3. ASSUME NEW x \in Claims, x \in Claims', Answers(x, ch) PROVE Attended(ch)'
          BY <2>2, <3>1, <4>3, AnswersStay DEF Attended
        <4>4. CASE /\ ~ (Cardinality(Accumulated(ch)) < MinStages[ch])
                   /\ Answers(ChainAlert(a), ch)
          <5>1. CASE Accumulated(ch) \subseteq StagesOf(match[a])
            <6>1. PICK y \in Owners : y.of = match[a]
              BY <3>1 DEF ChainAttended
            <6>2. Answers(y, ch)
              BY <5>1, <6>1 DEF Answers
            <6>3. y \in Claims /\ y \in Claims'
              BY <3>4, <6>1, WhoClaims
            <6>4. QED
              BY <4>3, <6>2, <6>3
          <5>2. CASE chainOf[a] < ch /\ InReach(ch) \subseteq loaded[a]
            <6>1. ch \in ChainsAfter(chainOf[a])
              BY <5>2 DEF ChainsAfter
            <6>2. ChainAlert(a)' \in Claims' /\ Answers(ChainAlert(a), ch)'
              BY <2>1, <3>1, <3>2, <4>4, <5>2, <6>1, LoopAnswers
            <6>3. QED
              BY <6>2 DEF Attended
          <5>3. QED
            BY <4>4, <5>1, <5>2 DEF Answers, ChainAlert
        <4>5. QED
          BY <3>5, <4>1, <4>2, <4>3, <4>4 DEF ChainAttended, Attended
      <3>7. QED
        BY <2>4, <3>1, <3>3, <3>4, <3>6 DEF ChainAttended
    <2>9. CASE InsertChainAlert(a)
      <3>1. /\ chainTask[a] = "insert" /\ chainTask'[a] = "investigate"
            /\ UNCHANGED <<loaded, chainOf, match, chainLock>>
            /\ fired' = fired \cup {ChainAlert(a)}
        BY <2>9 DEF InsertChainAlert, ChainStep, ChTypes, ChTypeOK
      <3>2. ChainAlert(a)' = ChainAlert(a)
        BY <3>1 DEF ChainAlert
      <3>3. Owners' = Owners
        BY <1>8, <2>9, <3>1, TaskOwners DEF TakeChainLock
      <3>4. Claims \subseteq Claims'
        BY <2>4, <3>1, <3>3, WhoClaims
      <3>5. QED
        BY <2>4, <2>6, <3>1, <3>2, <3>3, <3>4 DEF ChainAttended
    <2>10. CASE AutoCreateInvestigation(a)
      <3>1. /\ chainTask[a] = "investigate" /\ UNCHANGED <<loaded, chainLock, fired>>
            /\ \/ TryChains(a, loaded[a], ChainsAfter(chainOf[a]))
               \/ ChainStep(a, "done")
        BY <2>10 DEF AutoCreateInvestigation
      <3>2. loaded[a] \in SUBSET Alert /\ ChainsAfter(chainOf[a]) \in SUBSET Chain
        BY DEF ChTypes, ChTypeOK, ChainsAfter
      <3>3. chainTask'[a] \in {"lock", "done"}
        <4>1. CASE TryChains(a, loaded[a], ChainsAfter(chainOf[a]))
          BY <2>1, <3>2, <4>1, TryTypes
        <4>2. CASE ChainStep(a, "done")
          BY <4>2 DEF ChainStep, ChTypes, ChTypeOK
        <4>3. QED
          BY <3>1, <4>1, <4>2
      <3>4. Owners' = Owners
        BY <1>8, <2>10, <3>1, TaskOwners DEF TakeChainLock
      <3>5. Claims \subseteq Claims'
        BY <2>4, <3>1, <3>4, WhoClaims
      <3>6. QED
        BY <2>4, <2>6, <3>1, <3>3, <3>4, <3>5 DEF ChainAttended
    <2>11. QED
      BY <1>8, <2>5, <2>7, <2>8, <2>9, <2>10 DEF ChainTask
  <1>9. QED
    BY <1>1, <1>2, <1>3, <1>4, <1>5, <1>6, <1>7, <1>8 DEF ChNext, chvars, HourTurns, ChainTask,
       ChainTaskFails

\* The alerts that count are finitely many.
LEMMA CrowdFinite ==
    ASSUME IsFiniteSet(stored)
    PROVE  IsFiniteSet(Crowding) /\ Cardinality(Crowding) \in Nat
  <1>1. Crowding \in SUBSET stored
    BY DEF Crowding
  <1>2. QED
    BY <1>1, FS_Subset, FS_CardinalityType

\* Alerts that leave make a crowd smaller.
LEMMA SmallerCrowd ==
    ASSUME IsFiniteSet(stored), Crowd \in Nat, Crowding' \subseteq Crowding,
           Cardinality(Crowding) < Crowd
    PROVE  Cardinality(Crowding') < Crowd
  <1>1. Cardinality(Crowding') <= Cardinality(Crowding) /\ Cardinality(Crowding') \in Nat
    BY CrowdFinite, FS_Subset, FS_CardinalityType
  <1>2. QED
    BY <1>1, CrowdFinite

\* Each step leaves the crowd attended, unless it is one that fails.
LEMMA CrowdAttendedKept ==
    ASSUME ChTypes, IsFiniteSet(stored), CrowdAttended, [ChNext]_chvars, ~mishap'
    PROVE  CrowdAttended'
  <1> USE AlertAssumption DEF alert_vars, task_vars, effect_vars
  <1>0. (~ Fits(ClusterIdLength))' <=> ~ Fits(ClusterIdLength)
    OBVIOUS
  <1>1. ASSUME Crowding' \subseteq Crowding, cases \subseteq cases',
               \A a \in stored : a \in stored' /\ (Minds(a) => Minds(a)')
        PROVE  CrowdAttended'
    BY <1>1, <1>0, SmallerCrowd DEF CrowdAttended
  <1>2. CASE UNCHANGED chvars
    BY <1>1, <1>2 DEF chvars, Crowding, Minds
  <1>3. ASSUME NEW A \in SUBSET Alert, StoreAlerts(A) PROVE CrowdAttended'
    <2>1. CASE A \cap Severe = {}
      <3>1. Crowding' \subseteq Crowding
        BY <1>3, <2>1 DEF StoreAlerts, Crowding
      <3>2. \A a \in stored : a \in stored' /\ (Minds(a) => Minds(a)')
        BY <1>3 DEF StoreAlerts, Minds, ChTypes, ChTypeOK
      <3>3. QED
        BY <1>1, <1>3, <3>1, <3>2 DEF StoreAlerts
    <2>2. ASSUME NEW x \in A \cap Severe PROVE CrowdAttended'
      <3>1. x \in stored' /\ Minds(x)'
        BY <1>3, <2>2 DEF StoreAlerts, Minds
      <3>2. QED
        BY <3>1 DEF CrowdAttended
    <2>3. QED
      BY <2>1, <2>2
  <1>4. ASSUME NEW A \in SUBSET Alert, TasksDie(A) PROVE CrowdAttended'
    BY <1>4 DEF TasksDie
  <1>5. ASSUME NEW a \in Alert, DeleteAlert(a) \/ \E w \in Window : LeavesWindow(w, a)
        PROVE  CrowdAttended'
    <2>1. deleted \subseteq deleted' /\ gone[60] \subseteq gone'[60]
      BY <1>5 DEF DeleteAlert, LeavesWindow, ChTypes, ChTypeOK
    <2>2. UNCHANGED <<stored, crowdTask, cases>>
      BY <1>5 DEF DeleteAlert, LeavesWindow
    <2>3. Crowding' \subseteq Crowding
      BY <2>1, <2>2 DEF Crowding
    <2>4. QED
      BY <1>1, <2>2, <2>3 DEF Minds
  <1>6. CASE HourTurns
    BY <1>1, <1>6 DEF HourTurns, Crowding, Minds
  <1>7. ASSUME NEW f \in chainLock, ChainLockExpires(f) PROVE CrowdAttended'
    BY <1>1, <1>7 DEF ChainLockExpires, Crowding, Minds
  <1>8. ASSUME NEW a \in Alert, ChainTask(a) PROVE CrowdAttended'
    <2>1. /\ UNCHANGED <<stored, deleted, gone, crowdTask>>
          /\ cases \subseteq cases'
      BY <1>8 DEF ChainTask, LoadRecentAlerts, TakeChainLock, InsertChainAlert,
            AutoCreateInvestigation, ChainTaskFails
    <2>2. QED
      BY <1>1, <2>1 DEF Crowding, Minds
  <1>9. ASSUME NEW a \in Alert, CrowdTask(a) PROVE CrowdAttended'
    <2>1. CASE CrowdTaskFails(a)
      BY <2>1 DEF CrowdTaskFails
    <2>2. CASE ~ CrowdTaskFails(a)
      <3>1. UNCHANGED <<stored, deleted, gone>> /\ Crowding' = Crowding /\ cases \subseteq cases'
        BY <1>9, <2>2 DEF CrowdTask, CountCrowd, FindCluster, OpenCluster, Crowding
      <3>2. a \in stored
        BY <1>9, <2>2 DEF CrowdTask, CountCrowd, FindCluster, OpenCluster, ChTypes
      <3>3. \A b \in Alert \ {a} : crowdTask'[b] = crowdTask[b]
        BY <1>9, <2>2
        DEF CrowdTask, CountCrowd, FindCluster, OpenCluster, CrowdStep, ChTypes, ChTypeOK
      <3>4. \A b \in stored \ {a} : Minds(b) => Minds(b)'
        BY <3>3 DEF Minds, ChTypes, ChTypeOK
      <3>5. CASE CountCrowd(a)
        <4>1. CASE a \in Severe /\ Cardinality(Crowding) >= Crowd
          <5>1. crowdTask'[a] = "find"
            BY <3>5, <4>1 DEF CountCrowd, CrowdStep, ChTypes, ChTypeOK
          <5>2. Minds(a)'
            BY <5>1 DEF Minds
          <5>3. QED
            BY <3>1, <3>2, <5>2 DEF CrowdAttended
        <4>2. CASE a \notin Severe
          <5>1. ~ Minds(a)
            BY <3>5, <4>2 DEF Minds, CountCrowd
          <5>2. QED
            BY <1>1, <3>1, <3>4, <5>1
        <4>3. CASE ~ (Cardinality(Crowding) >= Crowd)
          <5>1. Cardinality(Crowding') < Crowd
            BY <3>1, <4>3, CrowdFinite
          <5>2. QED
            BY <5>1 DEF CrowdAttended
        <4>4. QED
          BY <4>1, <4>2, <4>3
      <3>6. CASE FindCluster(a)
        <4>1. CASE \E k \in cases : k.group = Crowds(bucket[a])
          <5>1. \E k \in cases' : k.group.kind = "cluster"
            BY <3>1, <4>1 DEF Crowds
          <5>2. QED
            BY <5>1 DEF CrowdAttended
        <4>2. CASE ~ \E k \in cases : k.group = Crowds(bucket[a])
          <5>1. crowdTask'[a] = "open"
            BY <3>6, <4>2 DEF FindCluster, CrowdStep, ChTypes, ChTypeOK
          <5>2. Minds(a)'
            BY <5>1 DEF Minds
          <5>3. QED
            BY <3>1, <3>2, <5>2 DEF CrowdAttended
        <4>3. QED
          BY <4>1, <4>2
      <3>7. CASE OpenCluster(a)
        <4>1. CASE Fits(ClusterIdLength)
          <5>1. [by |-> a, group |-> Crowds(bucket[a])] \in cases'
            BY <3>7, <4>1 DEF OpenCluster
          <5>2. \E k \in cases' : k.group.kind = "cluster"
            BY <5>1 DEF Crowds
          <5>3. QED
            BY <5>2 DEF CrowdAttended
        <4>2. CASE ~ Fits(ClusterIdLength)
          BY <1>0, <4>2 DEF CrowdAttended
        <4>3. QED
          BY <4>1, <4>2
      <3>8. QED
        BY <1>9, <2>2, <3>5, <3>6, <3>7 DEF CrowdTask
    <2>3. QED
      BY <2>1, <2>2
  <1>10. QED
    BY <1>2, <1>3, <1>4, <1>5, <1>6, <1>7, <1>8, <1>9 DEF ChNext

\* Each step keeps the alerts finitely many, and what accumulates attended.
LEMMA NoticeKept ==
    ASSUME ChTypes, NoticeInv, [ChNext]_chvars
    PROVE  NoticeInv'
  <1> USE DEF alert_vars, loop_vars, task_vars, effect_vars
  <1>1. IsFiniteSet(stored')
    <2>1. CASE \E A \in SUBSET Alert : StoreAlerts(A)
      <3>1. PICK A : IsFiniteSet(A) /\ stored' = stored \cup A
        BY <2>1 DEF StoreAlerts
      <3>2. IsFiniteSet(stored)
        BY DEF NoticeInv
      <3>3. QED
        BY <3>1, <3>2, FS_Union
    <2>2. CASE ~ \E A \in SUBSET Alert : StoreAlerts(A)
      <3>1. stored' = stored
        BY <2>2 DEF ChNext, chvars, TasksDie, DeleteAlert, LeavesWindow, HourTurns, ChainTask,
              LoadRecentAlerts, TakeChainLock, InsertChainAlert, AutoCreateInvestigation,
              ChainTaskFails, CrowdTask, CountCrowd, FindCluster, OpenCluster, CrowdTaskFails,
              ChainLockExpires
      <3>2. QED
        BY <3>1 DEF NoticeInv
    <2>3. QED
      BY <2>1, <2>2
  <1>2. ~ mishap' => ~ mishap
    BY DEF ChNext, chvars, StoreAlerts, TasksDie, DeleteAlert, LeavesWindow, HourTurns, ChainTask,
          LoadRecentAlerts, TakeChainLock, InsertChainAlert, AutoCreateInvestigation,
          ChainTaskFails, CrowdTask, CountCrowd, FindCluster, OpenCluster, CrowdTaskFails,
          ChainLockExpires
  <1>3. ~ mishap' => ChainAttended' /\ CrowdAttended'
    BY <1>2, ChainAttendedKept, CrowdAttendedKept DEF NoticeInv
  <1>4. QED
    BY <1>1, <1>3 DEF NoticeInv

LEMMA NoticeInitInv == ChInit => NoticeInv
  <1> SUFFICES ASSUME ChInit PROVE NoticeInv
    OBVIOUS
  <1>1. IsFiniteSet({}) /\ Cardinality({}) = 0
    BY FS_EmptySet
  <1>2. Crowding = {} /\ \A ch \in Chain : Accumulated(ch) = {}
    BY DEF ChInit, Accumulated, InReach, StagesOf, Crowding
  <1>3. /\ Cardinality(Crowding) < Crowd
        /\ \A ch \in Chain : Cardinality(Accumulated(ch)) < MinStages[ch]
    BY <1>1, <1>2, AlertAssumption
  <1>4. QED
    BY <1>1, <1>3 DEF ChInit, NoticeInv, ChainAttended, Attended, CrowdAttended

\* What is attended is noticed once all tasks are done.
LEMMA AttendedIsNoticed == ChTypes /\ NoticeInv => AccumulationIsNoticed
  <1> SUFFICES ASSUME ChTypes, NoticeInv, ~ mishap PROVE AccumulationIsNoticed
    BY DEF AccumulationIsNoticed
  <1>1. ASSUME \A a \in stored : chainTask[a] = "done"
        PROVE  Claims = fired
    <2>1. \A a \in Alert : chainTask[a] \in {"none", "done"}
      BY <1>1 DEF ChTypes
    <2>2. \A x : x \in Claims <=> x \in fired
      BY <2>1, WhoClaims, WhoOwns
    <2>3. QED
      BY <2>2
  <1>2. \/ \E a \in stored : chainTask[a] # "done"
        \/ \A ch \in Chain :
              \/ Cardinality(Accumulated(ch)) < MinStages[ch]
              \/ \E x \in fired : Answers(x, ch)
    BY <1>1 DEF NoticeInv, ChainAttended, Attended
  <1>3. \/ \E a \in stored : crowdTask[a] # "done"
        \/ Cardinality(Crowding) < Crowd
        \/ ~Fits(ClusterIdLength)
        \/ \E k \in cases : k.group.kind = "cluster"
    BY DEF NoticeInv, CrowdAttended, Minds
  <1>4. QED
    BY <1>2, <1>3 DEF AccumulationIsNoticed

-----------------------------------------------------------------------------
(* The notes of an alert                                                   *)

Paragraph == {"escalated"} \cup Editor

\* Notes without the escalation, and notes with one at most.
Clean(n) == \A i \in DOMAIN n : n[i] # "escalated"
Once(n) == \A i, j \in DOMAIN n : n[i] = "escalated" /\ n[j] = "escalated" => i = j

\* What sweeps have selected is clean, and no request in flight brings two escalations.
NotesInv ==
    /\ notes \in [Ticket -> Seq(Paragraph)]
    /\ \A t \in Ticket : Once(notes[t])
    /\ picked = [w \in Sweeper |-> picked[w]]
    /\ \A w \in Sweeper : \A p \in picked[w] : p.notes \in Seq(Paragraph) /\ Clean(p.notes)
    /\ edit = [u \in Editor |-> edit[u]]
    /\ \A u \in Editor : \A e \in edit[u] :
          \A n \in e.notes : n \in Seq(Paragraph) /\ Once(n)

\* Clean notes may be escalated, and any notes may be continued by an analyst.
LEMMA AppendOnce ==
    ASSUME NEW n \in Seq(Paragraph), NEW u \in Editor
    PROVE  /\ Append(n, "escalated") \in Seq(Paragraph)
           /\ Append(n, u) \in Seq(Paragraph)
           /\ Clean(n) => Once(Append(n, "escalated"))
           /\ Once(n) => Once(Append(n, u))
           /\ <<u>> \in Seq(Paragraph) /\ Once(<<u>>)
  BY EditorAssumption DEF Paragraph, Clean, Once

LEMMA NotesInitInv == DkInit => NotesInv
  BY DEF DkInit, NotesInv, Once

\* Each step keeps the notes, those in the hands of sweeps and requests included.
LEMMA NotesKept ==
    ASSUME NotesInv, [DkNext \/ DeskDies]_dvars
    PROVE  NotesInv'
  <1> USE DEF NotesInv, row_vars, desk_vars
  <1>1. CASE UNCHANGED dvars
    BY <1>1 DEF dvars
  <1>2. CASE DeskDies
    BY <1>2 DEF DeskDies
  <1>3. ASSUME NEW t \in Ticket, RemoveAlert(t) \/ FallsDue(t) PROVE NotesInv'
    BY <1>3 DEF RemoveAlert, FallsDue
  <1>4. ASSUME NEW w \in Sweeper, SweepSelect(w) PROVE NotesInv'
    <2>1. \A t \in Candidates : t \in Ticket /\ Clean(notes[t])
      BY DEF Candidates, Clean
    <2>2. \A p \in picked'[w] : p.notes \in Seq(Paragraph) /\ Clean(p.notes)
      <3>1. picked'[w] = {[ticket |-> t, notes |-> notes[t]] : t \in Candidates}
        BY <1>4 DEF SweepSelect
      <3>2. QED
        BY <2>1, <3>1
    <2>3. QED
      BY <1>4, <2>2 DEF SweepSelect
  <1>5. ASSUME NEW w \in Sweeper, SweepFails(w) PROVE NotesInv'
    BY <1>5 DEF SweepFails
  <1>6. ASSUME NEW w \in Sweeper, SweepCommit(w) PROVE NotesInv'
    <2>1. \A p \in picked[w] : Escalated(p) \in Seq(Paragraph) /\ Once(Escalated(p))
      BY DEF Escalated, Paragraph, Clean, Once
    <2>2. ASSUME NEW t \in Ticket
          PROVE  notes'[t] \in Seq(Paragraph) /\ Once(notes'[t])
      <3>1. CASE \E p \in picked[w] : p.ticket = t
        <4>1. (CHOOSE p \in picked[w] : p.ticket = t) \in picked[w]
          BY <3>1
        <4>2. notes'[t] = Escalated(CHOOSE p \in picked[w] : p.ticket = t)
          BY <1>6, <3>1 DEF SweepCommit
        <4>3. QED
          BY <2>1, <4>1, <4>2
      <3>2. CASE ~\E p \in picked[w] : p.ticket = t
        BY <1>6, <3>2 DEF SweepCommit
      <3>3. QED
        BY <3>1, <3>2
    <2>3. notes' \in [Ticket -> Seq(Paragraph)] /\ \A t \in Ticket : Once(notes'[t])
      BY <1>6, <2>2 DEF SweepCommit
    <2>4. QED
      BY <1>6, <2>3 DEF SweepCommit
  <1>7. ASSUME NEW u \in Editor, NEW t \in Ticket, UpdateAlert(u, t) PROVE NotesInv'
    <2>1. \A d \in Drafts(u, t) : \A n \in d : n \in Seq(Paragraph) /\ Once(n)
      <3>1. /\ \A n \in {<<u>>} : n \in Seq(Paragraph) /\ Once(n)
            /\ \A n \in {Append(notes[t], u)} : n \in Seq(Paragraph) /\ Once(n)
        BY AppendOnce
      <3>2. QED
        BY <3>1 DEF Drafts
    <2>2. \A e \in edit'[u] : \A n \in e.notes : n \in Seq(Paragraph) /\ Once(n)
      <3>1. PICK s \in {{}} \cup {{p} : p \in Progress}, d \in Drafts(u, t) :
                edit' = [edit EXCEPT ![u] =
                            {[ticket |-> t,
                              progress |-> s \ {progress[t]},
                              acks |-> "acknowledged" \in s /\ t \notin acked,
                              notes |-> d]}]
        BY <1>7 DEF UpdateAlert
      <3>2. \A e \in edit'[u] : e.notes = d
        BY <3>1
      <3>3. QED
        BY <2>1, <3>1, <3>2
    <2>3. QED
      BY <1>7, <2>2 DEF UpdateAlert
  <1>8. ASSUME NEW u \in Editor, SaveAlert(u) PROVE NotesInv'
    <2>1. PICK e \in edit[u] :
              /\ notes' = [notes EXCEPT ![e.ticket] =
                              IF e.notes = {} THEN @ ELSE CHOOSE n \in e.notes : TRUE]
              /\ edit' = [edit EXCEPT ![u] = {}]
              /\ picked' = picked
      BY <1>8 DEF SaveAlert
    <2>2. CASE e.notes = {}
      BY <2>1, <2>2
    <2>3. CASE e.notes # {}
      <3>1. (CHOOSE n \in e.notes : TRUE) \in e.notes
        BY <2>3
      <3>2. QED
        BY <2>1, <2>3, <3>1
    <2>4. QED
      BY <2>2, <2>3
  <1>9. ASSUME NEW u \in Editor, SaveFails(u) PROVE NotesInv'
    BY <1>9 DEF SaveFails
  <1>10. QED
    BY <1>1, <1>2, <1>3, <1>4, <1>5, <1>6, <1>7, <1>8, <1>9 DEF DkNext

\* A request in flight writes a status, if it writes one.
DkTypes ==
    /\ NotesInv
    /\ DkTypeOK
    /\ \A u \in Editor : \A e \in edit[u] : e.progress \subseteq Progress

LEMMA DkTypesInit == DkInit => DkTypes
  BY NotesInitInv DEF DkInit, DkTypes, DkTypeOK, Progress

\* Each step keeps the types of the desk; those of the notes are known already.
LEMMA DkTypesKept ==
    ASSUME DkTypes, [DkNext \/ DeskDies]_dvars
    PROVE  DkTypes'
  <1>1. NotesInv'
    BY NotesKept DEF DkTypes
  <1>2. \A t \in Ticket : notes'[t] \in Seq({"escalated"} \cup Editor)
    BY <1>1 DEF NotesInv, Paragraph
  <1> DEFINE Rest == /\ progress \in [Ticket -> Progress]
                     /\ acked \subseteq Ticket /\ removed \subseteq Ticket
                     /\ overdue \subseteq Ticket /\ asked \subseteq Editor
                     /\ \A w \in Sweeper : \A p \in picked[w] : p.ticket \in Ticket
                     /\ \A u \in Editor : \A e \in edit[u] :
                           u \in asked /\ e.ticket \in Ticket /\ e.progress \subseteq Progress
                     /\ picked = [w \in Sweeper |-> picked[w]]
                     /\ edit = [u \in Editor |-> edit[u]]
  <1>3. Rest
    BY DEF DkTypes, DkTypeOK, NotesInv
  <1>4. Rest'
    <2> USE <1>3 DEF row_vars, desk_vars
    <2>1. CASE UNCHANGED dvars
      BY <2>1 DEF dvars
    <2>2. CASE DeskDies
      BY <2>2 DEF DeskDies
    <2>3. ASSUME NEW t \in Ticket, RemoveAlert(t) \/ FallsDue(t) PROVE Rest'
      BY <2>3 DEF RemoveAlert, FallsDue
    <2>4. ASSUME NEW w \in Sweeper, SweepSelect(w) PROVE Rest'
      <3>1. picked'[w] = {[ticket |-> t, notes |-> notes[t]] : t \in Candidates}
        BY <2>4 DEF SweepSelect
      <3>2. \A p \in picked'[w] : p.ticket \in Ticket
        BY <3>1 DEF Candidates
      <3>3. \A v \in Sweeper \ {w} : picked'[v] = picked[v]
        BY <2>4 DEF SweepSelect
      <3>4. picked' = [v \in Sweeper |-> picked'[v]]
        BY <2>4 DEF SweepSelect
      <3>5. QED
        BY <2>4, <3>2, <3>3, <3>4 DEF SweepSelect
    <2>5. ASSUME NEW w \in Sweeper, SweepCommit(w) \/ SweepFails(w) PROVE Rest'
      BY <2>5 DEF SweepCommit, SweepFails
    <2>6. ASSUME NEW u \in Editor, NEW t \in Ticket, UpdateAlert(u, t) PROVE Rest'
      <3>1. PICK s \in {{}} \cup {{p} : p \in Progress}, d \in Drafts(u, t) :
                edit' = [edit EXCEPT ![u] =
                            {[ticket |-> t,
                              progress |-> s \ {progress[t]},
                              acks |-> "acknowledged" \in s /\ t \notin acked,
                              notes |-> d]}]
        BY <2>6 DEF UpdateAlert
      <3>2. asked' = asked \cup {u} /\ UNCHANGED <<row_vars, picked>>
        BY <2>6 DEF UpdateAlert
      <3>3. \A e \in edit'[u] : e.ticket = t /\ e.progress \subseteq Progress
        BY <3>1
      <3>4. \A v \in Editor \ {u} : edit'[v] = edit[v]
        BY <3>1
      <3>5. edit' = [v \in Editor |-> edit'[v]]
        BY <3>1
      <3>6. QED
        BY <3>2, <3>3, <3>4, <3>5
    <2>7. ASSUME NEW u \in Editor, SaveAlert(u) PROVE Rest'
      <3>1. PICK e \in edit[u] :
                /\ progress' = [progress EXCEPT ![e.ticket] =
                                  IF e.progress = {} THEN @
                                  ELSE CHOOSE p \in e.progress : TRUE]
                /\ acked' = IF e.acks THEN acked \cup {e.ticket} ELSE acked
                /\ edit' = [edit EXCEPT ![u] = {}]
                /\ UNCHANGED <<removed, overdue, picked, asked>>
        BY <2>7 DEF SaveAlert
      <3>2. e.progress # {} => (CHOOSE p \in e.progress : TRUE) \in Progress
        BY <3>1
      <3>3. progress' \in [Ticket -> Progress] /\ acked' \subseteq Ticket
        BY <3>1, <3>2
      <3>4. QED
        BY <3>1, <3>3
    <2>8. ASSUME NEW u \in Editor, SaveFails(u) PROVE Rest'
      BY <2>8 DEF SaveFails
    <2>9. [DkNext \/ DeskDies]_dvars
      OBVIOUS
    <2>10. QED
      BY <2>1, <2>2, <2>3, <2>4, <2>5, <2>6, <2>7, <2>8, <2>9 DEF DkNext
  <1>5. QED
    BY <1>1, <1>2, <1>4 DEF DkTypes, DkTypeOK

-----------------------------------------------------------------------------
(* The row of an agent                                                     *)

\* What a request has loaded is a status, and an order knows what it loaded.
FlInv == FlTypeOK /\ HeardIsOnline /\ TrailTellsState

LEMMA FlInitInv == FlInit => FlInv
  <1>1. ASSUME FlInit PROVE FlTypeOK
    <2>1. /\ power \in Power /\ silence \in Age /\ restraint \in Restraint
          /\ dated \in BOOLEAN /\ outrun \in BOOLEAN /\ mingled \in BOOLEAN
          /\ used \subseteq Beat \cup Renewal \cup Order
      BY <1>1 DEF FlInit, Power, Age, Restraint
    <2>2. trail \in Seq(Restraint)
      BY <1>1 DEF FlInit
    <2>3. pulse \in [Beat -> SUBSET Power] /\ renewing \in [Renewal -> SUBSET Power]
      BY <1>1 DEF FlInit
    <2>4. order \in [Order -> SUBSET [to : Restraint, was : Restraint, wasDated : BOOLEAN]]
      BY <1>1 DEF FlInit
    <2>5. QED
      BY <2>1, <2>2, <2>3, <2>4 DEF FlTypeOK
  <1>2. FlInit => HeardIsOnline /\ TrailTellsState
    BY DEF FlInit, HeardIsOnline, TrailTellsState
  <1>3. QED
    BY <1>1, <1>2 DEF FlInv

\* Each step keeps the types.
LEMMA FlTypes ==
    ASSUME FlTypeOK, [FlNext \/ FleetDies]_fvars
    PROVE  FlTypeOK'
  <1> USE DEF FlTypeOK, Power, Age, Restraint, power_vars, restraint_vars
  <1>1. CASE UNCHANGED fvars
    BY <1>1 DEF fvars
  <1>2. CASE FleetDies
    BY <1>2 DEF FleetDies
  <1>3. ASSUME NEW b \in Beat, Authenticate(b) \/ RecordHeartbeat(b) \/ HeartbeatFails(b)
        PROVE  FlTypeOK'
    <2>1. CASE Authenticate(b)
      BY <2>1 DEF Authenticate
    <2>2. CASE RecordHeartbeat(b)
      BY <2>2 DEF RecordHeartbeat, StatusWritten
    <2>3. CASE HeartbeatFails(b)
      BY <2>3 DEF HeartbeatFails
    <2>4. QED
      BY <1>3, <2>1, <2>2, <2>3
  <1>4. ASSUME NEW e \in Renewal, FindHost(e) \/ ReEnroll(e) \/ ReEnrollFails(e)
        PROVE  FlTypeOK'
    <2>1. CASE FindHost(e)
      BY <2>1 DEF FindHost
    <2>2. CASE ReEnroll(e)
      BY <2>2 DEF ReEnroll
    <2>3. CASE ReEnrollFails(e)
      BY <2>3 DEF ReEnrollFails
    <2>4. QED
      BY <1>4, <2>1, <2>2, <2>3
  <1>5. CASE CheckAgentStatus \/ TimePasses
    BY <1>5 DEF CheckAgentStatus, TimePasses
  <1>6. ASSUME NEW o \in Order, NEW s \in Restraint, LoadAgent(o, s)
        PROVE  FlTypeOK'
    <2>1. [to |-> s, was |-> restraint, wasDated |-> dated]
              \in [to : Restraint, was : Restraint, wasDated : BOOLEAN]
      OBVIOUS
    <2>2. QED
      BY <1>6, <2>1 DEF LoadAgent
  <1>7. ASSUME NEW o \in Order, SetState(o)
        PROVE  FlTypeOK'
    <2>1. PICK r \in order[o] :
              /\ restraint' = IF r.to = r.was THEN restraint ELSE r.to
              /\ dated' = Dating(r)
              /\ trail' = Append(trail, r.to)
              /\ mingled' = (restraint # r.was \/ dated # r.wasDated)
              /\ order' = [order EXCEPT ![o] = {}]
              /\ UNCHANGED <<power_vars, used>>
      BY <1>7 DEF SetState
    <2>2. r \in [to : Restraint, was : Restraint, wasDated : BOOLEAN]
      BY <2>1
    <2>3. trail' \in Seq(Restraint)
      BY <2>1, <2>2
    <2>4. dated' \in BOOLEAN /\ mingled' \in BOOLEAN
      BY <2>1 DEF Dating
    <2>5. QED
      BY <2>1, <2>2, <2>3, <2>4
  <1>8. ASSUME NEW o \in Order, SetStateFails(o)
        PROVE  FlTypeOK'
    BY <1>8 DEF SetStateFails
  <1>9. QED
    BY <1>1, <1>2, <1>3, <1>4, <1>5, <1>6, <1>7, <1>8 DEF FlNext

\* Each step keeps what is known of the status.
LEMMA HeardKept ==
    ASSUME FlTypeOK, HeardIsOnline, [FlNext \/ FleetDies]_fvars
    PROVE  HeardIsOnline'
  <1> USE DEF FlTypeOK, HeardIsOnline, power_vars, restraint_vars
  <1>1. CASE UNCHANGED fvars
    BY <1>1 DEF fvars
  <1>2. CASE FleetDies
    BY <1>2 DEF FleetDies
  <1>3. ASSUME NEW b \in Beat, Authenticate(b) \/ RecordHeartbeat(b) \/ HeartbeatFails(b)
        PROVE  HeardIsOnline'
    BY <1>3 DEF Authenticate, RecordHeartbeat, StatusWritten, HeartbeatFails
  <1>4. ASSUME NEW e \in Renewal, FindHost(e) \/ ReEnroll(e) \/ ReEnrollFails(e)
        PROVE  HeardIsOnline'
    BY <1>4 DEF FindHost, ReEnroll, ReEnrollFails
  <1>5. CASE CheckAgentStatus \/ TimePasses
    BY <1>5 DEF CheckAgentStatus, TimePasses
  <1>6. ASSUME NEW o \in Order,
               (\E s \in Restraint : LoadAgent(o, s)) \/ SetState(o) \/ SetStateFails(o)
        PROVE  HeardIsOnline'
    BY <1>6 DEF LoadAgent, SetState, SetStateFails
  <1>7. QED
    BY <1>1, <1>2, <1>3, <1>4, <1>5, <1>6 DEF FlNext

\* Each step keeps what the trail tells.
LEMMA TrailKept ==
    ASSUME FlTypeOK, TrailTellsState, [FlNext \/ FleetDies]_fvars
    PROVE  TrailTellsState'
  <1> USE DEF FlTypeOK, TrailTellsState, power_vars, restraint_vars
  <1>1. CASE UNCHANGED fvars
    BY <1>1 DEF fvars
  <1>2. CASE FleetDies
    BY <1>2 DEF FleetDies
  <1>3. ASSUME NEW b \in Beat, Authenticate(b) \/ RecordHeartbeat(b) \/ HeartbeatFails(b)
        PROVE  TrailTellsState'
    BY <1>3 DEF Authenticate, RecordHeartbeat, HeartbeatFails
  <1>4. ASSUME NEW e \in Renewal, FindHost(e) \/ ReEnroll(e) \/ ReEnrollFails(e)
        PROVE  TrailTellsState'
    BY <1>4 DEF FindHost, ReEnroll, ReEnrollFails
  <1>5. CASE CheckAgentStatus \/ TimePasses
    BY <1>5 DEF CheckAgentStatus, TimePasses
  <1>6. ASSUME NEW o \in Order, SetState(o)
        PROVE  TrailTellsState'
    <2>1. PICK r \in order[o] :
              /\ restraint' = IF r.to = r.was THEN restraint ELSE r.to
              /\ dated' = Dating(r)
              /\ trail' = Append(trail, r.to)
              /\ mingled' = (restraint # r.was \/ dated # r.wasDated)
      BY <1>6 DEF SetState
    <2>2. r \in [to : Restraint, was : Restraint, wasDated : BOOLEAN]
      BY <2>1
    <2>3. trail' # <<>> /\ trail'[Len(trail')] = r.to
      BY <2>1, <2>2
    <2>4. ~mingled' => restraint' = r.to
      BY <2>1
    <2>5. ~mingled' => (dated' <=> r.to # "none")
      <3>1. ~mingled' => dated = r.wasDated
        BY <2>1
      <3>2. dated \in BOOLEAN /\ r.wasDated \in BOOLEAN
        BY <2>2
      <3>3. QED
        BY <2>1, <3>1, <3>2 DEF Dating
    <2>6. QED
      BY <2>3, <2>4, <2>5
  <1>7. ASSUME NEW o \in Order,
               (\E s \in Restraint : LoadAgent(o, s)) \/ SetStateFails(o)
        PROVE  TrailTellsState'
    BY <1>7 DEF LoadAgent, SetStateFails
  <1>8. QED
    BY <1>1, <1>2, <1>3, <1>4, <1>5, <1>6, <1>7 DEF FlNext

-----------------------------------------------------------------------------
(* Assignments                                                             *)

\* Active rows are those of requests that are done. While a request runs alone, the
\* investigation and the active rows are as it saw them: its UPDATE, once done, has
\* marked all of them.
AloneInv ==
    /\ \A h \in active : task[h] = "done"
    /\ \A h \in alone : task[h] # "new"
    /\ \A g, h \in Handover : h \in alone /\ Busy(g) => g = h
    /\ \A h \in alone : Busy(h) => read[h] = column
    /\ \A h \in alone : task[h] = "wait" => snapshot[h] = active
    /\ \A h \in alone : task[h] = "insert" => locked[h] = active

AsInv == AsTypeOK /\ AloneInv /\ OneAssignee

LEMMA AsInitInv == AsInit => AsInv
  BY DEF AsInit, AsInv, AsTypeOK, AloneInv, OneAssignee, Busy

\* Each step keeps the types.
LEMMA AsTypes ==
    ASSUME AsTypeOK, [AsNext \/ AssignmentsDie]_asvars
    PROVE  AsTypeOK'
  <1> USE DEF AsTypeOK, Proceed
  <1>1. CASE UNCHANGED asvars
    BY <1>1 DEF asvars, handover_vars
  <1>2. CASE AssignmentsDie
    BY <1>2 DEF AssignmentsDie
  <1>3. ASSUME NEW h \in Handover, NEW a \in Assignee, Load(h, a)
        PROVE  AsTypeOK'
    BY <1>3 DEF Load
  <1>4. ASSUME NEW h \in Handover, DeactivateCurrent(h) \/ LockRows(h)
        PROVE  AsTypeOK'
    BY <1>4 DEF DeactivateCurrent, LockRows, RowsMet
  <1>5. ASSUME NEW h \in Handover, Assign(h)
        PROVE  AsTypeOK'
    <2>1. column' \subseteq Assignee /\ active' \subseteq Handover /\ settled' \in BOOLEAN
      BY <1>5 DEF Assign
    <2>2. QED
      BY <1>5, <2>1 DEF Assign
  <1>6. ASSUME NEW h \in Handover, AssignFails(h)
        PROVE  AsTypeOK'
    BY <1>6 DEF AssignFails
  <1>7. QED
    BY <1>1, <1>2, <1>3, <1>4, <1>5, <1>6 DEF AsNext

\* Each step keeps what a request that runs alone knows.
LEMMA AloneKept ==
    ASSUME AsTypeOK, AloneInv, [AsNext \/ AssignmentsDie]_asvars
    PROVE  AloneInv'
  <1> USE DEF AsTypeOK, AloneInv, Busy, Proceed
  <1>1. CASE UNCHANGED asvars
    BY <1>1 DEF asvars, handover_vars
  <1>2. CASE AssignmentsDie
    BY <1>2 DEF AssignmentsDie
  <1>3. ASSUME NEW h \in Handover, NEW a \in Assignee, Load(h, a)
        PROVE  AloneInv'
    BY <1>3 DEF Load
  <1>4. ASSUME NEW h \in Handover, DeactivateCurrent(h)
        PROVE  AloneInv'
    BY <1>4 DEF DeactivateCurrent
  <1>5. ASSUME NEW h \in Handover, LockRows(h)
        PROVE  AloneInv'
    BY <1>5 DEF LockRows, RowsMet
  <1>6. ASSUME NEW h \in Handover, Assign(h)
        PROVE  AloneInv'
    BY <1>6 DEF Assign
  <1>7. ASSUME NEW h \in Handover, AssignFails(h)
        PROVE  AloneInv'
    BY <1>7 DEF AssignFails
  <1>8. QED
    BY <1>1, <1>2, <1>3, <1>4, <1>5, <1>6, <1>7 DEF AsNext

\* Each step keeps one row and agreement.
LEMMA AssigneeKept ==
    ASSUME AsTypeOK, AloneInv, OneAssignee, [AsNext \/ AssignmentsDie]_asvars
    PROVE  OneAssignee'
  <1> USE DEF AsTypeOK, AloneInv, OneAssignee, Busy, Proceed
  <1>1. CASE UNCHANGED asvars
    BY <1>1 DEF asvars, handover_vars
  <1>2. CASE AssignmentsDie
    BY <1>2 DEF AssignmentsDie
  <1>3. ASSUME NEW h \in Handover, NEW a \in Assignee, Load(h, a)
        PROVE  OneAssignee'
    BY <1>3 DEF Load
  <1>4. ASSUME NEW h \in Handover, DeactivateCurrent(h) \/ LockRows(h) \/ AssignFails(h)
        PROVE  OneAssignee'
    BY <1>4 DEF DeactivateCurrent, LockRows, AssignFails
  <1>5. ASSUME NEW h \in Handover, Assign(h)
        PROVE  OneAssignee'
    BY <1>5 DEF Assign
  <1>6. QED
    BY <1>1, <1>2, <1>3, <1>4, <1>5 DEF AsNext

-----------------------------------------------------------------------------
(* Theorems                                                                *)

\* The API, the tasks of the workers, the desk, the agent and the assignments share no
\* state either.
THEOREM PlatformParts == PlSpec => ApiSpec /\ ChSpec /\ DkSpec /\ FlSpec /\ AsSpec
  <1>1. PlInit => ApiInit /\ ChInit /\ DkInit /\ FlInit /\ AsInit
    BY DEF PlInit
  <1>2. [PlNext]_pvars => /\ [ApiNext]_avars /\ [ChNext]_chvars /\ [DkNext \/ DeskDies]_dvars
                          /\ [FlNext \/ FleetDies]_fvars
                          /\ [AsNext \/ AssignmentsDie]_asvars
    BY DEF PlNext, ApiMoves, ChainsMove, DeskMoves, FleetMoves, AssignmentsMove,
           ApiProcessDies, ApiNext, pvars
  <1>3. QED
    BY <1>1, <1>2, PTL DEF PlSpec, ApiSpec, ChSpec, DkSpec, FlSpec, AsSpec

\* A cluster makes one chain alert, for whichever chain, unless its key expired or was
\* deleted after the commit.
THEOREM ClustersFireOnce == PlSpec => []ClusterFiresOnce
  <1>1. ChInit => ChTypes /\ ChainInv
    BY ChTypesInit, ChainInitInv
  <1>2. ChTypes /\ ChainInv /\ [ChNext]_chvars => ChTypes' /\ ChainInv'
    BY ChTypesKept, ChainKept
  <1>3. ChainInv => ClusterFiresOnce
    BY DEF ChainInv, ClusterFiresOnce, Owners
  <1>4. QED
    BY <1>1, <1>2, <1>3, PlatformParts, PTL DEF ChSpec

\* In whatever order workers commit alerts and tasks look at them: once all tasks are done
\* and nothing failed, each chain among the newest Limit alerts has its chain alert, or a
\* task that had them all ended with the alert of an earlier chain; and no crowd is left.
THEOREM AccumulationsAreNoticed == PlSpec => []AccumulationIsNoticed
  <1>1. ChInit => ChTypes /\ NoticeInv
    BY ChTypesInit, NoticeInitInv
  <1>2. ChTypes /\ NoticeInv /\ [ChNext]_chvars => ChTypes' /\ NoticeInv'
    BY ChTypesKept, NoticeKept
  <1>3. ChTypes /\ NoticeInv => AccumulationIsNoticed
    BY AttendedIsNoticed
  <1>4. QED
    BY <1>1, <1>2, <1>3, PlatformParts, PTL DEF ChSpec

\* However many processes sweep, no alert is escalated twice in its notes.
THEOREM AlertsEscalateOnce == PlSpec => []EscalatedOnce
  <1>1. DkSpec => []NotesInv
    BY NotesInitInv, NotesKept, PTL DEF DkSpec
  <1>2. NotesInv => EscalatedOnce
    BY DEF NotesInv, EscalatedOnce, Once
  <1>3. QED
    BY <1>1, <1>2, PlatformParts, PTL

\* The row of the agent stays as the properties say.
THEOREM FleetInvariance == FlSpec => []FlInv
  <1>1. FlInv /\ [FlNext \/ FleetDies]_fvars => FlInv'
    BY FlTypes, HeardKept, TrailKept DEF FlInv
  <1>2. QED
    BY <1>1, FlInitInv, PTL DEF FlSpec

\* An agent heard of in the last three minutes is online, unless its status changed
\* under the heartbeat, or was reset since.
THEOREM HeardAgentsAreOnline == PlSpec => []HeardIsOnline
  <1>1. FlInv => HeardIsOnline
    BY DEF FlInv
  <1>2. QED
    BY <1>1, FleetInvariance, PlatformParts, PTL

\* The trail of response actions tells how the agent is contained, unless the last two
\* orders overlapped.
THEOREM TrailTellsContainment == PlSpec => []TrailTellsState
  <1>1. FlInv => TrailTellsState
    BY DEF FlInv
  <1>2. QED
    BY <1>1, FleetInvariance, PlatformParts, PTL

\* A request of assign that runs alone leaves one assignee, whatever it finds.
THEOREM AssigneeIsUnique == PlSpec => []OneAssignee
  <1>1. AsInv /\ [AsNext \/ AssignmentsDie]_asvars => AsInv'
    BY AsTypes, AloneKept, AssigneeKept DEF AsInv
  <1>2. AsInv => OneAssignee
    BY DEF AsInv
  <1>3. QED
    BY <1>1, <1>2, AsInitInv, PlatformParts, PTL DEF AsSpec

\* Two analysts never edit at once, unless a release deleted a lock that was in use.
THEOREM EditorsAreExclusive == PlSpec => []EditorsExclude
  <1>1. WsInv => EditorsExclude
    BY DEF WsInv, LockInv, EditorsExclude
  <1>2. QED
    BY <1>1, PlatformParts, PartsAreIndependent, WorkspaceInvariance, PTL

\* A presence key without a TTL is one of an analyst whose connection is about to set
\* it, or failed to.
THEOREM PresenceKeysExpire == PlSpec => []PresenceExpires
  <1>1. WsInv => PresenceExpires
    BY DEF WsInv
  <1>2. QED
    BY <1>1, PlatformParts, PartsAreIndependent, WorkspaceInvariance, PTL

\* Type correctness of all parts.
THEOREM PlatformTypeCorrect == PlSpec => []PlatformTypeOK
  <1>1. ChSpec => []ChTypes
    BY ChTypesInit, ChTypesKept, PTL DEF ChSpec
  <1>2. DkSpec => []DkTypes
    BY DkTypesInit, DkTypesKept, PTL DEF DkSpec
  <1>3. AsSpec => []AsTypeOK
    <2>1. AsInit => AsTypeOK
      BY AsInitInv DEF AsInv
    <2>2. QED
      BY <2>1, AsTypes, PTL DEF AsSpec
  <1>4. EnTypeOK /\ SeTypeOK /\ WsInv /\ ChTypes /\ DkTypes /\ FlInv /\ AsTypeOK => PlatformTypeOK
    BY DEF WsInv, ApiTypeOK, ChTypes, DkTypes, FlInv, PlatformTypeOK
  <1>5. QED
    BY <1>1, <1>2, <1>3, <1>4, PlatformParts, PartsAreIndependent, EnrollmentInvariance,
       SessionsInvariance, WorkspaceInvariance, FleetInvariance, PTL

\* The claims about tokens, agents, audit trail, sessions, credentials and the password
\* hold in the platform, where each part may die with the others.
THEOREM TransactionsStayCorrect ==
    PlSpec => [](/\ OneAgentPerToken /\ RevokedIsUnused /\ OneAgentPerHost /\ ChainIsLinear
                 /\ SessionsEndAtReset /\ SpentOnce /\ ChangedPasswordStays)
  BY PlatformParts, PartsAreIndependent, TokenIsSingleUse, RevokedTokenIsUnused, 
     HostsHaveOneAgent, AuditTrailIsLinear, ResetEndsSessions, CredentialsAreSpent,
     PasswordStays, PTL
=============================================================================
