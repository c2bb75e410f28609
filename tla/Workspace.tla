------------------------------- MODULE Workspace -------------------------------
(***************************************************************************)
(* The edit lock of one investigation and the presence of the analysts, as *)
(* the WebSocket handlers of /ws/realtime change them in Redis, one command *)
(* per step.  A connection handles one message at a time; an analyst may   *)
(* have several.  Time is not measured: a key with a TTL may expire at any *)
(* step.  InvestigationLockService.refresh, transfer and force_release and *)
(* PresenceService.list_online are called from nowhere and left out.       *)
(***************************************************************************)
EXTENDS FiniteSets

CONSTANTS
    Conn,       \* WebSocket connections, each opened at most once
    Analyst,
    UserOf,     \* the analyst of a connection
    NoOne

ASSUME UserOfAssumption == UserOf \in [Conn -> Analyst]

ASSUME NoOneAssumption == NoOne \notin Conn

VARIABLES
    at,         \* the next step of each connection
    lock,       \* the connection that set lock:inv:{id}, or NoOne
    told,       \* analysts who were told lock.acquired, did not ask for its release
                \* since, and whose expires_at has not passed
    presence,   \* presence:{analyst}: is there a hash, and does it expire?
    online,     \* presence:online_set
    snatched,   \* TRUE once a release deleted a lock that was still in use
    stranded    \* analysts whose HSET was not followed by its EXPIRE

lock_vars == <<lock, told, snatched>>
presence_vars == <<presence, online, stranded>>
wvars == <<at, lock_vars, presence_vars>>

Go(c, next) == at' = [at EXCEPT ![c] = next]

\* Steps inside the try of websocket_realtime, and before it.
Serving == {"open", "granted", "overdue", "release", "lapsed", "beat", "renew"}
Joining == {"join", "expire", "add", "greet"}

-----------------------------------------------------------------------------
(* Connect and disconnect                                                  *)

Connect(c) ==
    /\ at[c] = "new"
    /\ Go(c, "join")
    /\ UNCHANGED <<lock_vars, presence_vars>>

\* HSET keeps the TTL of a hash that is there.
Written(a) == IF presence[a] = "absent" THEN "forever" ELSE presence[a]

\* join and heartbeat: HSET, and then EXPIRE.
SetPresence(c) ==
    /\ at[c] \in {"join", "beat"}
    /\ presence' = [presence EXCEPT ![UserOf[c]] = Written(UserOf[c])]
    /\ Go(c, IF at[c] = "join" THEN "expire" ELSE "renew")
    /\ UNCHANGED <<lock_vars, online, stranded>>

\* Mutant of ExpirePresence: a heartbeat relies on the TTL of the join.
ExpirePresenceOnJoin(c) ==
    /\ at[c] \in {"expire", "renew"}
    /\ presence' = [presence EXCEPT ![UserOf[c]] =
                       IF @ = "absent" \/ at[c] = "renew" THEN @ ELSE "ttl"]
    /\ Go(c, IF at[c] = "expire" THEN "add" ELSE "open")
    /\ UNCHANGED <<lock_vars, online, stranded>>

ExpirePresence(c) ==
    /\ at[c] \in {"expire", "renew"}
    /\ presence' = [presence EXCEPT ![UserOf[c]] = IF @ = "absent" THEN @ ELSE "ttl"]
    /\ Go(c, IF at[c] = "expire" THEN "add" ELSE "open")
    /\ UNCHANGED <<lock_vars, online, stranded>>

AddOnline(c) ==
    /\ at[c] = "add"
    /\ online' = online \cup {UserOf[c]}
    /\ Go(c, "greet")
    /\ UNCHANGED <<lock_vars, presence, stranded>>

\* SCARD, and the welcome to the client.
Welcome(c) ==
    /\ at[c] = "greet"
    /\ Go(c, "open")
    /\ UNCHANGED <<lock_vars, presence_vars>>

\* An analyst whose connection is between HSET and EXPIRE when it fails.
Strand(C) ==
    stranded' = stranded \cup {UserOf[c] : c \in {d \in C : at[d] \in {"expire", "renew"}}}

\* The socket closes, or a command raises: _cleanup_connection.
Disconnect(c) ==
    /\ at[c] \in Serving
    /\ Go(c, "leave")
    /\ Strand({c})
    /\ UNCHANGED <<lock_vars, presence, online>>

\* An error before the try, the welcome included: nothing is cleaned up.
ConnectFails(c) ==
    /\ at[c] \in Joining
    /\ Go(c, "closed")
    /\ Strand({c})
    /\ UNCHANGED <<lock_vars, presence, online>>

\* leave: DEL and SREM, for the analyst, who may have another connection.
LeavePresence(c) ==
    /\ at[c] = "leave"
    /\ presence' = [presence EXCEPT ![UserOf[c]] = "absent"]
    /\ Go(c, "remove")
    /\ UNCHANGED <<lock_vars, online, stranded>>

RemoveOnline(c) ==
    /\ at[c] = "remove"
    /\ online' = online \ {UserOf[c]}
    /\ Go(c, "closed")
    /\ UNCHANGED <<lock_vars, presence, stranded>>

LeaveFails(c) ==
    /\ at[c] \in {"leave", "remove"}
    /\ Go(c, "closed")
    /\ UNCHANGED <<lock_vars, presence_vars>>

-----------------------------------------------------------------------------
(* Messages of a client                                                    *)

\* heartbeat and set_investigation: EXISTS. Nothing rejoins an absent analyst.
Heartbeat(c) ==
    /\ at[c] = "open"
    /\ presence[UserOf[c]] # "absent"
    /\ Go(c, "beat")
    /\ UNCHANGED <<lock_vars, presence_vars>>

\* SET NX EX; the answer lock.acquired is still to be sent.
AcquireLock(c) ==
    /\ at[c] = "open"
    /\ lock = NoOne
    /\ lock' = c
    /\ Go(c, "granted")
    /\ UNCHANGED <<told, snatched, presence_vars>>

\* "overdue": the expires_at in the answer has passed when it arrives.
SendAcquired(c) ==
    /\ at[c] \in {"granted", "overdue"}
    /\ told' = IF at[c] = "granted" THEN told \cup {UserOf[c]} ELSE told
    /\ Go(c, "open")
    /\ UNCHANGED <<lock, snatched, presence_vars>>

\* Mutant of Owns: any analyst may release.
OwnsAlways(c) == lock # NoOne

Owns(c) == lock # NoOne /\ UserOf[lock] = UserOf[c]

\* The analyst gives the lock up and asks for its release; GET shows who owns it.
ReleaseLock(c) ==
    /\ at[c] = "open"
    /\ told' = told \ {UserOf[c]}
    /\ Go(c, IF Owns(c) THEN "release" ELSE "open")
    /\ UNCHANGED <<lock, snatched, presence_vars>>

\* The lock is not the one the GET has shown, or the analyst was told of it, or will
\* be, by another connection than the one that asked for its release.
StillInUse(c) == at[c] = "lapsed" \/ at[lock] = "granted" \/ UserOf[c] \in told

\* DEL, whatever the key holds by now: what others have read is not there any more.
DeleteLock(c) ==
    /\ at[c] \in {"release", "lapsed"}
    /\ lock' = NoOne
    /\ snatched' = (snatched \/ (lock # NoOne /\ StillInUse(c)))
    /\ at' = [d \in Conn |->
                 CASE d = c              -> "open"
                   [] at[d] = "release"  -> "lapsed"
                   [] OTHER              -> at[d]]
    /\ UNCHANGED <<told, presence_vars>>

-----------------------------------------------------------------------------
(* Time and failures                                                       *)

\* The TTL of the key ends, after each expires_at that was handed out before.
LockExpires ==
    /\ lock # NoOne
    /\ lock' = NoOne
    /\ told' = {}
    /\ at' = [d \in Conn |->
                 CASE at[d] = "release" -> "lapsed"
                   [] at[d] = "granted" -> "overdue"
                   [] OTHER             -> at[d]]
    /\ UNCHANGED <<snatched, presence_vars>>

\* expires_at is drawn before the key is set, and passes before it expires.
GrantEnds(a) ==
    /\ a \in told
    /\ told' = told \ {a}
    /\ UNCHANGED <<at, lock, snatched, presence_vars>>

PresenceLapses(a) ==
    /\ presence[a] = "ttl"
    /\ presence' = [presence EXCEPT ![a] = "absent"]
    /\ UNCHANGED <<at, lock_vars, online, stranded>>

\* The API process dies: no finally runs.
WorkspaceDies ==
    /\ at' = [c \in Conn |-> IF at[c] = "new" THEN "new" ELSE "closed"]
    /\ Strand(Conn)
    /\ UNCHANGED <<lock_vars, presence, online>>

-----------------------------------------------------------------------------
WsInit ==
    /\ at = [c \in Conn |-> "new"]
    /\ lock = NoOne
    /\ told = {}
    /\ presence = [a \in Analyst |-> "absent"]
    /\ online = {}
    /\ snatched = FALSE
    /\ stranded = {}

Serve(c) ==
    \/ Connect(c) \/ SetPresence(c) \/ ExpirePresence(c) \/ AddOnline(c) \/ Welcome(c)
    \/ Disconnect(c) \/ ConnectFails(c) \/ LeavePresence(c) \/ RemoveOnline(c) \/ LeaveFails(c)
    \/ Heartbeat(c) \/ AcquireLock(c) \/ SendAcquired(c) \/ ReleaseLock(c) \/ DeleteLock(c)

WsNext ==
    \/ \E c \in Conn : Serve(c)
    \/ LockExpires
    \/ \E a \in Analyst : GrantEnds(a) \/ PresenceLapses(a)

WsSpec == WsInit /\ [][WsNext \/ WorkspaceDies]_wvars

-----------------------------------------------------------------------------
(***************************************************************************)
(* Properties                                                              *)
(***************************************************************************)

\* Every variable has its type.
WsTypeOK ==
    /\ at \in [Conn -> {"new", "leave", "remove", "closed"} \cup Joining \cup Serving]
    /\ lock \in Conn \cup {NoOne}
    /\ told \subseteq Analyst
    /\ presence \in [Analyst -> {"absent", "ttl", "forever"}]
    /\ online \subseteq Analyst
    /\ snatched \in BOOLEAN
    /\ stranded \subseteq Analyst

\* Two analysts never edit at once: both told that they have the lock, and before the
\* expiry they were told. The one way around it is a release that deletes a lock set
\* after its GET, or one that another tab of the same analyst is told of meanwhile.
EditorsExclude == snatched \/ \A a, b \in told : a = b

\* A presence key does not outlive its analyst: without a TTL it is only between HSET
\* and EXPIRE of a connection, or after one that failed there, although heartbeats,
\* joins and leaves of several connections work on one key.
PresenceExpires ==
    \A a \in Analyst :
        presence[a] = "forever" =>
            a \in stranded \/ \E c \in Conn : UserOf[c] = a /\ at[c] \in {"expire", "renew"}
=============================================================================
