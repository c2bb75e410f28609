------------------------------ MODULE MCPlatform -------------------------------
(***************************************************************************)
(* A small instance of Platform for TLC.                                   *)
(***************************************************************************)
EXTENDS Platform, TLC

CONSTANTS a, b, c1, c2, c3, MaxOccurrences

\* Two connections of one analyst, and one of another.
TwoTabs == [c \in Conn |-> IF c = c3 THEN b ELSE a]

\* Three alerts of three stages and one of none, and two chains that share a stage.
EachStage == [n \in Alert |->
    CASE n = 1 -> "access" [] n = 2 -> "theft" [] n = 3 -> "none" [] n = 4 -> "impact"]
TwoChains == [ch \in Chain |-> IF ch = 1 THEN {"access", "impact"} ELSE {"impact", "theft"}]
TwoOfThem == [ch \in Chain |-> 2]
ShortAndHour == [ch \in Chain |-> IF ch = 1 THEN 30 ELSE 60]

\* Bound: only one of the seven parts moves. They share no variable, so a behaviour of
\* several violates a property of one part only if it does so with the others at rest.
EnRests == \A r \in Request : doing[r] = "idle"
SeRests == \A c \in Call : stage[c] = "idle"
WsRests == \A c \in Conn : at[c] = "new"
ChRests == stored = {} /\ hour = 0 /\ \A w \in DOMAIN gone : gone[w] = {}
DkRests == asked = {} /\ removed = {} /\ overdue = {}
FlRests == used = {} /\ silence = "never"
AsRests == \A h \in Handover : task[h] = "new"

\* Bound on all that happens to alerts and tasks from outside, none with four
\* alerts. An alert that leaves both windows counts once.
Occurrences ==
    Cardinality(deleted) + Cardinality(gone[30]) + hour + Cardinality(unlocked)
    + (IF mishap THEN 1 ELSE 0) + (IF Cardinality(stored) > 3 THEN 2 ELSE 0)

\* Bound: only one of the two kinds of tasks moves, unless the process dies, and crowds
\* are of three alerts. Neither kind reads what the other writes, and no property
\* relates one to the other.
OneKind ==
    \/ \A n \in Alert :
          /\ crowdTask[n] \in {"none", "count", "done"}
          /\ crowdTask[n] = "done" => mishap /\ chainTask[n] = "done"
    \/ /\ Cardinality(stored) <= 3
       /\ \A n \in Alert : chainTask[n] \in {"none", "load"}

\* Bound: after a mishap there are three alerts at most, and no process dies again.
ChainsMoveOn ==
    \/ ~mishap /\ ChainsMove
    \/ /\ mishap
       /\ \/ \E A \in SUBSET Alert : StoreAlerts(A)
          \/ \E n \in Alert : ChainTask(n)
       /\ UNCHANGED <<avars, dvars, fvars, asvars>>

ChainBound ==
    /\ Occurrences <= MaxOccurrences
    /\ mishap => Cardinality(stored) <= 3
    /\ OneKind

\* Bound: requests, calls, assigns, heartbeats and orders are numbered in the order they arrive.
InOrder ==
    /\ \A r, q \in Request : r < q /\ doing[q] # "idle" => doing[r] # "idle"
    /\ \A c, d \in Call : c < d /\ stage[d] # "idle" => stage[c] # "idle"
    /\ \A h, g \in Handover : h < g /\ task[g] # "new" => task[h] # "new"
    /\ \A m, n \in Beat : m < n /\ n \in used => m \in used
    /\ \A m, n \in Order : m < n /\ n \in used => m \in used

OneMoves ==
    \/ /\ SeRests /\ WsRests /\ ChRests /\ DkRests /\ FlRests /\ AsRests
       /\ EnrollmentMoves
       /\ UNCHANGED <<chvars, dvars, fvars, asvars>>
       /\ InOrder'
    \/ /\ EnRests /\ WsRests /\ ChRests /\ DkRests /\ FlRests /\ AsRests
       /\ SessionsMove
       /\ UNCHANGED <<chvars, dvars, fvars, asvars>>
       /\ InOrder'
    \/ /\ EnRests /\ SeRests /\ ChRests /\ DkRests /\ FlRests /\ AsRests
       /\ WorkspaceMoves
       /\ UNCHANGED <<chvars, dvars, fvars, asvars>>
    \/ /\ EnRests /\ SeRests /\ WsRests /\ DkRests /\ FlRests /\ AsRests
       /\ ChainsMoveOn
       /\ ChainBound'
    \/ EnRests /\ SeRests /\ WsRests /\ ChRests /\ FlRests /\ AsRests /\ DeskMoves
    \/ /\ EnRests /\ SeRests /\ WsRests /\ ChRests /\ DkRests /\ AsRests
       /\ FleetMoves /\ InOrder'
    \/ /\ EnRests /\ SeRests /\ WsRests /\ ChRests /\ DkRests /\ FlRests
       /\ AssignmentsMove /\ InOrder'
    \/ ApiProcessDies

\* Bound: the password was stored with parameters of before; after a login or a change
\* it is not outdated any more. The investigation was opened for an analyst.
MCPlInit == PlInit /\ hash.outdated /\ column = {a}

MCPlSpec == MCPlInit /\ [][OneMoves]_pvars
================================================================================
