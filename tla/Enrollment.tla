------------------------------ MODULE Enrollment ------------------------------
(***************************************************************************)
(* Installer tokens, the agents enrolled with them, and the audit trail of *)
(* both, for one tenant.  A request is one transaction of PostgreSQL under *)
(* READ COMMITTED: a SELECT sees what is committed, what the request       *)
(* writes is staged until Commit, and get_db rolls everything back when it *)
(* raises.  The status INSTALLING exists inside a transaction only.  A row *)
(* lock is held by a request that claimed or revoked the token; the lock   *)
(* of an agent row needs no variable, since the updates behind it do not   *)
(* depend on what they overwrite and take effect in the order of commits.  *)
(* Deleting agents is left out.                                            *)
(***************************************************************************)
EXTENDS Naturals, FiniteSets

CONSTANTS
    Token,      \* installer tokens, each generated at most once
    Host,       \* host names of machines
    Request,    \* each request is made at most once
    NoToken, NoHost, NoRequest

ASSUME NoneAssumption ==
    /\ NoToken \notin Token
    /\ NoHost \notin Host
    /\ NoRequest \notin Request

VARIABLES
    status,     \* committed status of each token
    lapsed,     \* tokens whose expires_at has passed
    secret,     \* for each agent row: the request whose credentials it accepts
    op,         \* what each request is about
    doing,      \* the next step of each request
    token,      \* the token it is about
    host,       \* the machine it enrols
    row,        \* the agent row it updates or inserts, named by the inserting request
    entry,      \* the audit entry it stages or has committed, if any
    now,        \* clock of created_at: entries made so far
    together,   \* pairs of requests that were in flight at the same time
    crossed     \* pairs of a revocation and an enrolment that committed between the
                \* SELECT and the UPDATE of the revocation

token_vars == <<status, lapsed>>
request_vars == <<op, doing, token, host, row>>
history_vars == <<together, crossed>>
evars == <<token_vars, secret, request_vars, entry, now, history_vars>>

Status == {"none", "pending", "active", "expired", "revoked", "failed"}

Terminal == {"expired", "revoked", "active"}

Entry == [by : Request, prev : Request \cup {NoRequest}, at : Nat]

InFlight(r) == doing[r] \notin {"idle", "done", "refused"}

Done(r) == doing[r] = "done"

\* The row of t is locked by a request that wrote it and has not ended yet.
Locked(t) ==
    \E r \in Request :
        /\ token[r] = t
        /\ \/ op[r] = "enroll" /\ doing[r] \in {"agent", "log", "commit"}
           \/ op[r] = "revoke" /\ doing[r] \in {"log", "commit"}

Begin(r, what, t, h, first) ==
    /\ doing[r] = "idle"
    /\ op' = [op EXCEPT ![r] = what]
    /\ doing' = [doing EXCEPT ![r] = first]
    /\ token' = [token EXCEPT ![r] = t]
    /\ host' = [host EXCEPT ![r] = h]
    /\ together' = together \cup {{r, q} : q \in {p \in Request : InFlight(p)}}
    /\ UNCHANGED <<token_vars, secret, row, entry, now, crossed>>

GoOn(r, next) ==
    /\ doing' = [doing EXCEPT ![r] = next]
    /\ UNCHANGED <<token_vars, secret, op, token, host, now, history_vars>>

-----------------------------------------------------------------------------
(* Requests                                                                *)

Generate(r, t) ==
    /\ status[t] = "none"
    /\ \A q \in Request : ~(op[q] = "generate" /\ token[q] = t /\ InFlight(q))
    /\ Begin(r, "generate", t, NoHost, "log")

\* find_pending_by_preview finds the token, and it has not expired yet.
Enroll(r, t, h) ==
    /\ status[t] = "pending"
    /\ t \notin lapsed
    /\ Begin(r, "enroll", t, h, "claim")

\* Mutant of CanClaim: the row is locked and taken whatever its status is now.
CanClaimAnyStatus(t) == ~Locked(t)

\* SELECT ... WHERE status = PENDING FOR UPDATE SKIP LOCKED finds the row.
CanClaim(t) == status[t] = "pending" /\ ~Locked(t)

MarkInstalling(r) ==
    /\ doing[r] = "claim"
    /\ CanClaim(token[r])
    /\ GoOn(r, "agent")
    /\ UNCHANGED <<row, entry>>

\* ConflictError: another request has claimed, used or revoked the token.
ClaimRefused(r) ==
    /\ doing[r] = "claim"
    /\ ~CanClaim(token[r])
    /\ GoOn(r, "refused")
    /\ UNCHANGED <<row, entry>>

\* An administrator enrols a machine without a token.
EnrollDirectly(r, h) == Begin(r, "direct", NoToken, h, "agent")

\* The committed agent rows of a host.
RowsOf(h) == {q \in Request : Done(q) /\ row[q] = q /\ host[q] = h}

\* Mutant of AgentRow: the existing agent of the host is not looked up.
AgentRowAlwaysNew(r) == {r}

\* The agent of this host to re-enrol, or a row of its own.
AgentRow(r) == IF RowsOf(host[r]) = {} THEN {r} ELSE RowsOf(host[r])

EnrollAgent(r) ==
    /\ doing[r] = "agent"
    /\ \E a \in AgentRow(r) : row' = [row EXCEPT ![r] = a]
    /\ GoOn(r, IF op[r] = "enroll" THEN "log" ELSE "commit")
    /\ UNCHANGED entry

\* enroll_agent raises, and the session is still good: the token is marked failed.
EnrollAgentFails(r) ==
    /\ op[r] = "enroll" /\ doing[r] = "agent"
    /\ status' = [status EXCEPT ![token[r]] = "failed"]
    /\ doing' = [doing EXCEPT ![r] = "refused"]
    /\ UNCHANGED <<lapsed, secret, op, token, host, row, entry, now, history_vars>>

\* Mutant of CanRevoke: an active token is not a terminal one.
CanRevokeActive(t) == status[t] \notin {"none", "expired", "revoked"}

CanRevoke(t) == status[t] \notin {"none"} \cup Terminal

Revoke(r, t) ==
    /\ CanRevoke(t)
    /\ Begin(r, "revoke", t, NoHost, "update")

\* UPDATE ... WHERE id waits for the row lock, and does not look at the status again.
RevokeToken(r) ==
    /\ doing[r] = "update"
    /\ ~Locked(token[r])
    /\ GoOn(r, "log")
    /\ UNCHANGED <<row, entry>>

-----------------------------------------------------------------------------
(* The audit trail, and the end of a request                               *)

Trail == UNION {entry[q] : q \in {p \in Request : Done(p)}}

\* Mutant of Latest: one entry too many is skipped.
LatestButOne ==
    LET earlier == {e \in Trail : \E f \in Trail : e.at < f.at}
    IN  {e \in earlier : \A f \in earlier : f.at <= e.at}

\* ORDER BY created_at DESC LIMIT 1, of the committed entries.
Latest == {e \in Trail : \A f \in Trail : f.at <= e.at}

LastHash == IF Latest = {} THEN NoRequest ELSE (CHOOSE e \in Latest : TRUE).by

\* AuditService.log; an error rolls back to the savepoint and is swallowed.
Log(r) ==
    /\ doing[r] = "log"
    /\ \/ /\ entry' = [entry EXCEPT ![r] = {[by |-> r, prev |-> LastHash, at |-> now]}]
          /\ now' = now + 1
       \/ UNCHANGED <<entry, now>>
    /\ doing' = [doing EXCEPT ![r] = "commit"]
    /\ UNCHANGED <<token_vars, secret, op, token, host, row, history_vars>>

NewStatus(r) ==
    CASE op[r] = "generate" -> "pending"
      [] op[r] = "enroll"   -> "active"
      [] op[r] = "revoke"   -> "revoked"

\* p has read the status of t, and not written it.
Revoking(p, t) == doing[p] = "update" /\ token[p] = t

Commit(r) ==
    /\ doing[r] = "commit"
    /\ doing' = [doing EXCEPT ![r] = "done"]
    /\ status' = IF op[r] = "direct" THEN status
                 ELSE [status EXCEPT ![token[r]] = NewStatus(r)]
    /\ secret' = IF op[r] \in {"enroll", "direct"} THEN [secret EXCEPT ![row[r]] = r]
                 ELSE secret
    /\ crossed' = IF op[r] # "enroll" THEN crossed
                  ELSE crossed \cup {{r, q} : q \in {p \in Request : Revoking(p, token[r])}}
    /\ UNCHANGED <<lapsed, op, token, host, row, entry, now, together>>

\* Any step may raise, the commit too: nothing of the request remains.
RollBack(r) ==
    /\ InFlight(r)
    /\ GoOn(r, "refused")
    /\ UNCHANGED <<row, entry>>

-----------------------------------------------------------------------------
(* Time and the sweep                                                      *)

Lapse(t) ==
    /\ status[t] # "none" /\ t \notin lapsed
    /\ lapsed' = lapsed \cup {t}
    /\ UNCHANGED <<status, secret, request_vars, entry, now, history_vars>>

\* expire_old_tokens: UPDATE ... WHERE status = PENDING AND expires_at < now.
ExpireOld(t) ==
    /\ status[t] = "pending" /\ t \in lapsed
    /\ ~Locked(t)
    /\ status' = [status EXCEPT ![t] = "expired"]
    /\ UNCHANGED <<lapsed, secret, request_vars, entry, now, history_vars>>

\* The API process dies: PostgreSQL rolls every open transaction back.
EnrollmentDies ==
    /\ doing' = [r \in Request |-> IF InFlight(r) THEN "refused" ELSE doing[r]]
    /\ UNCHANGED <<token_vars, secret, op, token, host, row, entry, now, history_vars>>

-----------------------------------------------------------------------------
EnInit ==
    /\ status = [t \in Token |-> "none"]
    /\ lapsed = {}
    /\ secret = [r \in Request |-> NoRequest]
    /\ op = [r \in Request |-> "none"]
    /\ doing = [r \in Request |-> "idle"]
    /\ token = [r \in Request |-> NoToken]
    /\ host = [r \in Request |-> NoHost]
    /\ row = [r \in Request |-> NoRequest]
    /\ entry = [r \in Request |-> {}]
    /\ now = 0
    /\ together = {}
    /\ crossed = {}

Start(r) ==
    \/ \E t \in Token :
          \/ Generate(r, t)
          \/ Revoke(r, t)
          \/ \E h \in Host : Enroll(r, t, h)
    \/ \E h \in Host : EnrollDirectly(r, h)

Step(r) ==
    \/ MarkInstalling(r) \/ ClaimRefused(r) \/ EnrollAgent(r) \/ EnrollAgentFails(r)
    \/ RevokeToken(r) \/ Log(r) \/ Commit(r) \/ RollBack(r)

EnNext ==
    \/ \E r \in Request : Start(r) \/ Step(r)
    \/ \E t \in Token : Lapse(t) \/ ExpireOld(t)

EnSpec == EnInit /\ [][EnNext \/ EnrollmentDies]_evars

-----------------------------------------------------------------------------
(***************************************************************************)
(* Properties                                                              *)
(***************************************************************************)

\* Every variable has its type.
EnTypeOK ==
    /\ status \in [Token -> Status]
    /\ lapsed \subseteq Token
    /\ secret \in [Request -> Request \cup {NoRequest}]
    /\ op \in [Request -> {"none", "generate", "enroll", "direct", "revoke"}]
    /\ doing \in [Request -> {"idle", "claim", "agent", "update", "log", "commit",
                              "done", "refused"}]
    /\ token \in [Request -> Token \cup {NoToken}]
    /\ host \in [Request -> Host \cup {NoHost}]
    /\ row \in [Request -> Request \cup {NoRequest}]
    /\ entry \in [Request -> SUBSET Entry]
    /\ now \in Nat
    /\ together \subseteq SUBSET Request
    /\ crossed \subseteq SUBSET Request

Enrolled(r) == Done(r) /\ op[r] = "enroll"

\* "Single-use": however many installers post one token at once, and whatever is
\* revoked, swept or rolled back meanwhile, one of them enrols an agent with it.
OneAgentPerToken ==
    \A r, q \in Request : Enrolled(r) /\ Enrolled(q) /\ token[r] = token[q] => r = q

\* A revoked token has enrolled nobody, unless the enrolment committed between the
\* SELECT and the UPDATE of the revocation, which does not look at the status again:
\* where the revocation writes first, an enrolment that has found the token pending
\* before is refused.
RevokedIsUnused ==
    \A r, q \in Request :
        /\ Done(r) /\ op[r] = "revoke"
        /\ Enrolled(q)
        /\ token[r] = token[q]
        => {r, q} \in crossed

\* A machine has one agent row, unless the requests that inserted two of them met: no
\* unique constraint stands behind the SELECT of enroll_agent.
OneAgentPerHost ==
    \A r, q \in Request :
        /\ Done(r) /\ row[r] = r
        /\ Done(q) /\ row[q] = q
        /\ host[r] = host[q]
        => r = q \/ {r, q} \in together

\* Two entries of the audit trail have the same predecessor only if the requests that
\* wrote them met; else the trail is one chain that reaches back to its first entry.
ChainIsLinear ==
    \A r, q \in Request :
        \A e \in entry[r], f \in entry[q] :
            Done(r) /\ Done(q) /\ e.prev = f.prev => r = q \/ {r, q} \in together
=============================================================================
