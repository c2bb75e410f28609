-------------------------------- MODULE Fleet ---------------------------------
(***************************************************************************)
(* The row of one agent: its status, which heartbeats set and the sweeps   *)
(* of the HeartbeatWorkers take back, and its containment.  A request      *)
(* loads the row when it authenticates, or looks the agent up, and writes  *)
(* it at its commit; SQLAlchemy leaves a column out of the UPDATE if the   *)
(* value assigned is the value loaded.  A sweep is an UPDATE, which looks  *)
(* at the row again under its lock.                                        *)
(***************************************************************************)
EXTENDS Sequences

CONSTANTS
    Beat,       \* heartbeats
    Renewal,    \* enrolments of the same host, each made at most once
    Order       \* requests that contain or release the agent

VARIABLES
    power,      \* agents.status
    silence,    \* age of last_seen_at: below 3 min, below 15 min, more, or NULL
    restraint,  \* containment_state
    dated,      \* contained_at is set
    trail,      \* response_actions: the states written there
    pulse,      \* for each heartbeat: the status it loaded, while it is in flight
    renewing,   \* for each enrolment: the status it loaded, while it is in flight
    order,      \* for each order: its target and what it loaded, while it is in flight
    used,       \* requests made
    outrun,     \* the status changed under the last heartbeat, or was reset since
    mingled     \* the last order was overtaken by another

power_vars == <<power, silence, pulse, renewing, outrun>>
restraint_vars == <<restraint, dated, trail, order, mingled>>
fvars == <<power_vars, restraint_vars, used>>

Power == {"online", "degraded", "offline"}
Age == {"never", "fresh", "stale", "lost"}
Restraint == {"none", "quarantined", "isolated"}

-----------------------------------------------------------------------------
(* Heartbeats and enrolments                                               *)

\* authenticate_agent, and the lockout of quarantined agents.
Authenticate(b) ==
    /\ b \notin used
    /\ used' = used \cup {b}
    /\ restraint # "quarantined"
    /\ pulse' = [pulse EXCEPT ![b] = {power}]
    /\ UNCHANGED <<power, silence, renewing, outrun, restraint_vars>>

\* Mutant of StatusWritten: only an agent that was offline comes back.
StatusIfOffline(loaded) == IF loaded = "offline" THEN "online" ELSE power

\* agent.status = ONLINE, if ONLINE is not what was loaded.
StatusWritten(loaded) == IF loaded = "online" THEN power ELSE "online"

RecordHeartbeat(b) ==
    \E loaded \in pulse[b] :
        /\ power' = StatusWritten(loaded)
        /\ silence' = "fresh"
        /\ outrun' = (power # loaded)
        /\ pulse' = [pulse EXCEPT ![b] = {}]
        /\ UNCHANGED <<renewing, restraint_vars, used>>

\* enroll_agent finds the host, and resets its status.
FindHost(e) ==
    /\ e \notin used
    /\ used' = used \cup {e}
    /\ renewing' = [renewing EXCEPT ![e] = {power}]
    /\ UNCHANGED <<power, silence, pulse, outrun, restraint_vars>>

ReEnroll(e) ==
    \E loaded \in renewing[e] :
        /\ power' = IF loaded = "offline" THEN power ELSE "offline"
        /\ outrun' = TRUE
        /\ renewing' = [renewing EXCEPT ![e] = {}]
        /\ UNCHANGED <<silence, pulse, restraint_vars, used>>

\* Errors before the commit.
HeartbeatFails(b) ==
    /\ pulse[b] # {}
    /\ pulse' = [pulse EXCEPT ![b] = {}]
    /\ UNCHANGED <<power, silence, renewing, outrun, restraint_vars, used>>

ReEnrollFails(e) ==
    /\ renewing[e] # {}
    /\ renewing' = [renewing EXCEPT ![e] = {}]
    /\ UNCHANGED <<power, silence, pulse, outrun, restraint_vars, used>>

-----------------------------------------------------------------------------
(* The sweep                                                               *)

\* ONLINE -> DEGRADED, and then ONLINE or DEGRADED -> OFFLINE, in one transaction: the
\* ages exclude each other, so a row meets one of the two.
CheckAgentStatus ==
    /\ \/ power = "online" /\ silence = "stale" /\ power' = "degraded"
       \/ power \in {"online", "degraded"} /\ silence = "lost" /\ power' = "offline"
    /\ UNCHANGED <<silence, pulse, renewing, outrun, restraint_vars, used>>

TimePasses ==
    /\ silence \in {"fresh", "stale"}
    /\ silence' = IF silence = "fresh" THEN "stale" ELSE "lost"
    /\ UNCHANGED <<power, pulse, renewing, outrun, restraint_vars, used>>

-----------------------------------------------------------------------------
(* Containment                                                             *)

\* _set_state loads the agent.
LoadAgent(o, target) ==
    /\ o \notin used
    /\ used' = used \cup {o}
    /\ order' = [order EXCEPT ![o] =
                    {[to |-> target, was |-> restraint, wasDated |-> dated]}]
    /\ UNCHANGED <<power_vars, restraint, dated, trail, mingled>>

\* Mutant of Dating: release resets the state, and forgets the date.
DatingForgotten(o) == o.to # "none" \/ dated

\* contained_at is a new time, or NULL, if NULL is not what was loaded.
Dating(o) == o.to # "none" \/ (dated /\ ~o.wasDated)

SetState(o) ==
    \E r \in order[o] :
        /\ restraint' = IF r.to = r.was THEN restraint ELSE r.to
        /\ dated' = Dating(r)
        /\ trail' = Append(trail, r.to)
        /\ mingled' = (restraint # r.was \/ dated # r.wasDated)
        /\ order' = [order EXCEPT ![o] = {}]
        /\ UNCHANGED <<power_vars, used>>

SetStateFails(o) ==
    /\ order[o] # {}
    /\ order' = [order EXCEPT ![o] = {}]
    /\ UNCHANGED <<power_vars, restraint, dated, trail, mingled, used>>

\* The API process dies: its transactions are rolled back.
FleetDies ==
    /\ pulse' = [b \in Beat |-> {}]
    /\ renewing' = [e \in Renewal |-> {}]
    /\ order' = [o \in Order |-> {}]
    /\ UNCHANGED <<power, silence, outrun, restraint, dated, trail, mingled, used>>

-----------------------------------------------------------------------------
\* A new agent has not been seen, is OFFLINE and is not contained.
FlInit ==
    /\ power = "offline"
    /\ silence = "never"
    /\ restraint = "none" /\ dated = FALSE
    /\ trail = <<>>
    /\ pulse = [b \in Beat |-> {}]
    /\ renewing = [e \in Renewal |-> {}]
    /\ order = [o \in Order |-> {}]
    /\ used = {}
    /\ outrun = FALSE /\ mingled = FALSE

FlNext ==
    \/ \E b \in Beat : Authenticate(b) \/ RecordHeartbeat(b) \/ HeartbeatFails(b)
    \/ \E e \in Renewal : FindHost(e) \/ ReEnroll(e) \/ ReEnrollFails(e)
    \/ CheckAgentStatus \/ TimePasses
    \/ \E o \in Order : (\E s \in Restraint : LoadAgent(o, s)) \/ SetState(o) \/ SetStateFails(o)

FlSpec == FlInit /\ [][FlNext \/ FleetDies]_fvars

-----------------------------------------------------------------------------
(***************************************************************************)
(* Properties                                                              *)
(***************************************************************************)

\* Every variable has its type.
FlTypeOK ==
    /\ power \in Power /\ silence \in Age /\ restraint \in Restraint
    /\ dated \in BOOLEAN /\ outrun \in BOOLEAN /\ mingled \in BOOLEAN
    /\ trail \in Seq(Restraint)
    /\ pulse \in [Beat -> SUBSET Power]
    /\ renewing \in [Renewal -> SUBSET Power]
    /\ order \in [Order -> SUBSET [to : Restraint, was : Restraint, wasDated : BOOLEAN]]
    /\ used \subseteq Beat \cup Renewal \cup Order

\* An agent that was heard of in the last three minutes is shown online, although sweeps
\* of several workers commit while its heartbeats are handled: only a heartbeat whose
\* status changed under it, or an enrolment since, may leave it degraded or offline.
HeardIsOnline == silence = "fresh" => power = "online" \/ outrun

\* The trail of response actions tells how an agent is contained, and contained_at says
\* since when, unless two orders overlapped; the next order alone sets it right.
TrailTellsState ==
    ~mingled => /\ restraint = (IF trail = <<>> THEN "none" ELSE trail[Len(trail)])
                /\ dated <=> restraint # "none"
===============================================================================
