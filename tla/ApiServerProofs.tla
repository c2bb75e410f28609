---------------------------- MODULE ApiServerProofs ---------------------------
(***************************************************************************)
(* The properties of the parts of the API process, each proved for any     *)
(* number of its requests: installer tokens, agents and audit trail;       *)
(* sessions, credentials and the password; locks and presence.             *)
(***************************************************************************)
EXTENDS ApiServer, TLAPS

-----------------------------------------------------------------------------
(* Enrollment: the inductive invariant                                     *)

\* The request about an operation is at one of its steps.
OnPath ==
    \A r \in Request :
        /\ doing[r] = "idle" <=> op[r] = "none"
        /\ op[r] = "generate" => doing[r] \in {"log", "commit", "done", "refused"}
        /\ op[r] = "enroll" =>
              doing[r] \in {"claim", "agent", "log", "commit", "done", "refused"}
        /\ op[r] = "direct" => doing[r] \in {"agent", "commit", "done", "refused"}
        /\ op[r] = "revoke" => doing[r] \in {"update", "log", "commit", "done", "refused"}
        /\ op[r] \in {"generate", "enroll", "revoke"} => token[r] \in Token

\* r has locked the row of its token.
HasLock(r) ==
    \/ op[r] = "enroll" /\ doing[r] \in {"agent", "log", "commit"}
    \/ op[r] = "revoke" /\ doing[r] \in {"log", "commit"}

LockIsExclusive ==
    \A r, q \in Request : HasLock(r) /\ HasLock(q) /\ token[r] = token[q] => r = q

\* A token that does not exist yet is being generated by one request, and no other
\* request is about it.
Generated ==
    /\ \A r \in Request : op[r] \in {"enroll", "revoke"} => status[token[r]] # "none"
    /\ \A r \in Request : op[r] = "generate" /\ InFlight(r) => status[token[r]] = "none"
    /\ \A r, q \in Request :
          /\ op[r] = "generate" /\ InFlight(r)
          /\ op[q] = "generate" /\ InFlight(q)
          /\ token[r] = token[q]
          => r = q

\* What a request knows of the committed status of its token.
StatusFits ==
    /\ \A r \in Request : op[r] = "enroll" /\ HasLock(r) => status[token[r]] = "pending"
    /\ \A r \in Request : Enrolled(r) => status[token[r]] \in {"active", "revoked"}
    /\ \A r \in Request : op[r] = "revoke" /\ Done(r) => status[token[r]] = "revoked"

\* A revocation that goes on, or is done, next to an enrolment with its token.
RevocationsCross ==
    \A r, q \in Request :
        /\ op[r] = "revoke" /\ doing[r] # "refused"
        /\ Enrolled(q)
        /\ token[r] = token[q]
        => {r, q} \in crossed

TokenInv ==
    /\ OnPath
    /\ LockIsExclusive
    /\ Generated
    /\ StatusFits
    /\ RevocationsCross
    /\ OneAgentPerToken

\* Requests that are in flight at the same time have met.
FlightsMet ==
    \A r, q \in Request : InFlight(r) /\ InFlight(q) => r = q \/ {r, q} \in together

\* A request about to insert an agent row has met those that inserted one meanwhile.
InsertionsMet ==
    /\ \A r \in Request : doing[r] = "idle" => row[r] = NoRequest
    /\ \A r, q \in Request :
          /\ Done(r) /\ row[r] = r
          /\ Done(q) \/ InFlight(q)
          /\ row[q] = q
          /\ host[r] = host[q]
          => r = q \/ {r, q} \in together

\* The entries of the trail are numbered in the order they were made, and one of the
\* committed ones is the latest.
TrailIsOrdered ==
    /\ \A r \in Request : \A e, f \in entry[r] : e = f /\ e.by = r /\ e.at < now
    /\ \A r \in Request : \A e \in entry[r] :
          e.prev # NoRequest => \E f \in entry[e.prev] : f.at < e.at
    /\ \A r \in Request : doing[r] \in {"idle", "claim", "agent", "update", "log"} =>
          entry[r] = {}
    /\ Trail # {} => Latest # {}

\* Of two entries with one predecessor, the second was not made after the first was
\* committed.
ForksMet ==
    \A r, q \in Request :
        \A e \in entry[r], f \in entry[q] :
            /\ Done(r)
            /\ Done(q) \/ InFlight(q)
            /\ e.prev = f.prev
            => r = q \/ {r, q} \in together

HistoryInv == FlightsMet /\ InsertionsMet /\ TrailIsOrdered /\ ForksMet

-----------------------------------------------------------------------------
(* Enrollment: tokens                                                      *)

LEMMA EnInitInv == EnInit => EnTypeOK /\ TokenInv /\ HistoryInv
  <1> SUFFICES ASSUME EnInit PROVE EnTypeOK /\ TokenInv /\ HistoryInv
    OBVIOUS
  <1>1. EnTypeOK
    BY DEF EnInit, EnTypeOK, Status, Entry
  <1>2. TokenInv
    BY NoneAssumption DEF EnInit, TokenInv, OnPath, LockIsExclusive, HasLock, Generated, StatusFits,
       RevocationsCross, OneAgentPerToken, Enrolled, Done, InFlight
  <1>3. Trail = {}
    BY DEF EnInit, Trail
  <1>4. HistoryInv
    BY <1>3 DEF EnInit, HistoryInv, FlightsMet, InsertionsMet, TrailIsOrdered, ForksMet,
       Done, InFlight
  <1>5. QED
    BY <1>1, <1>2, <1>4

\* Each step keeps the types.
LEMMA EnTypes ==
    ASSUME EnTypeOK, OnPath, [EnNext \/ EnrollmentDies]_evars
    PROVE  EnTypeOK'
  <1> USE DEF EnTypeOK, Status
  <1>1. CASE UNCHANGED evars
    BY <1>1 DEF evars, token_vars, request_vars, history_vars
  <1>2. CASE EnrollmentDies
    BY <1>2 DEF EnrollmentDies, InFlight, token_vars, history_vars
  <1>3. CASE \E t \in Token : Lapse(t) \/ ExpireOld(t)
    BY <1>3 DEF Lapse, ExpireOld, request_vars, history_vars
  <1>4. ASSUME NEW r \in Request, Start(r) PROVE EnTypeOK'
    <2>1. PICK what \in {"generate", "enroll", "direct", "revoke"},
               t \in Token \cup {NoToken}, h \in Host \cup {NoHost},
               first \in {"log", "claim", "agent", "update"} :
             Begin(r, what, t, h, first)
      BY <1>4 DEF Start, Generate, Revoke, Enroll, EnrollDirectly
    <2>2. {{r, q} : q \in {p \in Request : InFlight(p)}} \subseteq SUBSET Request
      OBVIOUS
    <2>3. QED
      BY <2>1, <2>2 DEF Begin, token_vars
  <1>5. ASSUME NEW r \in Request, Step(r) PROVE EnTypeOK'
    <2>1. CASE MarkInstalling(r) \/ ClaimRefused(r) \/ RevokeToken(r) \/ RollBack(r)
      BY <2>1 DEF MarkInstalling, ClaimRefused, RevokeToken, RollBack, GoOn, token_vars,
                  history_vars
    <2>2. CASE EnrollAgent(r)
      <3>1. AgentRow(r) \subseteq Request
        BY DEF AgentRow, RowsOf
      <3>2. QED
        BY <2>2, <3>1 DEF EnrollAgent, GoOn, token_vars, history_vars
    <2>3. CASE EnrollAgentFails(r)
      BY <2>3 DEF EnrollAgentFails, history_vars
    <2>4. CASE Log(r)
      <3>1. LastHash \in Request \cup {NoRequest}
        <4>1. ASSUME Latest # {} PROVE (CHOOSE e \in Latest : TRUE).by \in Request
          <5>1. (CHOOSE e \in Latest : TRUE) \in Trail
            BY <4>1 DEF Latest
          <5>2. Trail \subseteq Entry
            BY DEF Trail
          <5>3. QED
            BY <5>1, <5>2 DEF Entry
        <4>2. QED
          BY <4>1 DEF LastHash
      <3>2. [by |-> r, prev |-> LastHash, at |-> now] \in Entry
        BY <3>1 DEF Entry
      <3>3. QED
        BY <2>4, <3>2 DEF Log, token_vars, history_vars
    <2>5. CASE Commit(r)
      <3>1. status' \in [Token -> Status]
        <4>1. op[r] \in {"generate", "enroll", "direct", "revoke"}
          BY <2>5 DEF Commit, OnPath
        <4>2. QED
          BY <2>5, <4>1 DEF Commit, NewStatus
      <3>2. secret' \in [Request -> Request \cup {NoRequest}]
        BY <2>5 DEF Commit
      <3>3. crossed' \subseteq SUBSET Request
        BY <2>5 DEF Commit
      <3>4. QED
        BY <2>5, <3>1, <3>2, <3>3 DEF Commit
    <2>6. QED
      BY <1>5, <2>1, <2>2, <2>3, <2>4, <2>5 DEF Step
  <1>6. QED
    BY <1>1, <1>2, <1>3, <1>4, <1>5 DEF EnNext

\* A new request finds the tokens as they are.
LEMMA StartKeepsTokens ==
    ASSUME EnTypeOK, TokenInv, NEW r \in Request, Start(r)
    PROVE  TokenInv'
  <1> USE DEF EnTypeOK, TokenInv, Begin, token_vars
  <1>1. CASE \E t \in Token : Generate(r, t)
    <2>1. PICK t \in Token : Generate(r, t)
      BY <1>1
    <2>2. OnPath' /\ LockIsExclusive'
      BY <2>1 DEF Generate, OnPath, LockIsExclusive, HasLock
    <2>3. Generated'
      BY <2>1 DEF Generate, OnPath, Generated, InFlight
    <2>4. StatusFits' /\ RevocationsCross' /\ OneAgentPerToken'
      BY <2>1 DEF Generate, StatusFits, RevocationsCross, OneAgentPerToken, HasLock, Enrolled, Done
    <2>5. QED
      BY <2>2, <2>3, <2>4
  <1>2. CASE \E t \in Token : Revoke(r, t)
    <2>1. PICK t \in Token : Revoke(r, t)
      BY <1>2
    <2>2. OnPath' /\ LockIsExclusive'
      BY <2>1 DEF Revoke, OnPath, LockIsExclusive, HasLock
    <2>3. Generated'
      BY <2>1 DEF Revoke, CanRevoke, OnPath, Generated, InFlight
    <2>4. StatusFits' /\ OneAgentPerToken'
      BY <2>1 DEF Revoke, StatusFits, OneAgentPerToken, HasLock, Enrolled, Done
    <2>5. RevocationsCross'
      BY <2>1 DEF Revoke, CanRevoke, Terminal, StatusFits, RevocationsCross, Enrolled, Done
    <2>6. QED
      BY <2>2, <2>3, <2>4, <2>5
  <1>3. CASE \E t \in Token : \E h \in Host : Enroll(r, t, h)
    <2>1. PICK t \in Token, h \in Host : Enroll(r, t, h)
      BY <1>3
    <2>2. OnPath' /\ LockIsExclusive'
      BY <2>1 DEF Enroll, OnPath, LockIsExclusive, HasLock
    <2>3. Generated'
      BY <2>1 DEF Enroll, OnPath, Generated, InFlight
    <2>4. StatusFits' /\ RevocationsCross' /\ OneAgentPerToken'
      BY <2>1 DEF Enroll, StatusFits, RevocationsCross, OneAgentPerToken, HasLock, Enrolled, Done
    <2>5. QED
      BY <2>2, <2>3, <2>4
  <1>4. CASE \E h \in Host : EnrollDirectly(r, h)
    <2>1. PICK h \in Host : EnrollDirectly(r, h)
      BY <1>4
    <2>2. OnPath' /\ LockIsExclusive' /\ Generated'
      BY <2>1 DEF EnrollDirectly, OnPath, LockIsExclusive, HasLock, Generated, InFlight
    <2>3. StatusFits' /\ RevocationsCross' /\ OneAgentPerToken'
      BY <2>1 DEF EnrollDirectly, StatusFits, RevocationsCross, OneAgentPerToken, HasLock,
         Enrolled, Done
    <2>4. QED
      BY <2>2, <2>3
  <1>5. QED
    BY <1>1, <1>2, <1>3, <1>4 DEF Start

\* A step inside a transaction changes no status and takes the lock of no other request.
LEMMA InsideKeepsTokens ==
    ASSUME EnTypeOK, TokenInv, NEW r \in Request,
           MarkInstalling(r) \/ ClaimRefused(r) \/ EnrollAgent(r) \/ RevokeToken(r)
              \/ Log(r) \/ RollBack(r)
    PROVE  TokenInv'
  <1> DEFINE P(next) ==
          /\ doing' = [doing EXCEPT ![r] = next]
          /\ UNCHANGED <<op, token, status, crossed>>
          /\ InFlight(r)
          /\ next = "agent" => op[r] = "enroll" /\ doing[r] = "claim" /\ CanClaim(token[r])
          /\ next = "log" => \/ doing[r] = "agent" /\ op[r] = "enroll"
                             \/ doing[r] = "update" /\ ~Locked(token[r])
          /\ next = "commit" => \/ doing[r] = "log"
                                \/ doing[r] = "agent" /\ op[r] # "enroll"
  <1>1. PICK next \in {"agent", "log", "commit", "refused"} : P(next)
    <2> USE DEF GoOn, InFlight, token_vars, history_vars
    <2>1. CASE MarkInstalling(r)
      <3>1. op[r] = "enroll"
        BY <2>1 DEF MarkInstalling, TokenInv, OnPath, EnTypeOK
      <3>2. P("agent")
        BY <2>1, <3>1 DEF MarkInstalling
      <3>3. QED
        BY <3>2
    <2>2. CASE ClaimRefused(r) \/ RollBack(r)
      <3>1. P("refused")
        BY <2>2 DEF ClaimRefused, RollBack
      <3>2. QED
        BY <3>1
    <2>3. CASE EnrollAgent(r)
      <3>1. P(IF op[r] = "enroll" THEN "log" ELSE "commit")
        BY <2>3 DEF EnrollAgent
      <3>2. QED
        BY <3>1
    <2>4. CASE RevokeToken(r)
      <3>1. P("log")
        BY <2>4 DEF RevokeToken
      <3>2. QED
        BY <3>1
    <2>5. CASE Log(r)
      <3>1. P("commit")
        BY <2>5 DEF Log
      <3>2. QED
        BY <3>1
    <2>6. QED
      BY <2>1, <2>2, <2>3, <2>4, <2>5
  <1> USE DEF EnTypeOK, TokenInv, InFlight
  <1>2. OnPath'
    BY <1>1 DEF OnPath
  <1>3. HasLock(r)' => HasLock(r) \/ ~Locked(token[r])
    BY <1>1 DEF HasLock, OnPath, CanClaim
  <1>4. \A q \in Request \ {r} : HasLock(q)' = HasLock(q)
    BY <1>1 DEF HasLock
  <1>5. \A q \in Request : HasLock(q) => Locked(token[q])
    BY DEF HasLock, Locked
  <1>6. LockIsExclusive'
    BY <1>1, <1>3, <1>4, <1>5 DEF LockIsExclusive
  <1>7. Generated'
    BY <1>1 DEF Generated
  <1>8. HasLock(r)' /\ op[r] = "enroll" => status[token[r]] = "pending"
    BY <1>1 DEF HasLock, StatusFits, CanClaim, OnPath
  <1>9. StatusFits'
    BY <1>1, <1>4, <1>8 DEF StatusFits, Enrolled, Done
  <1>10. RevocationsCross' /\ OneAgentPerToken'
    BY <1>1 DEF RevocationsCross, OneAgentPerToken, Enrolled, Done
  <1>11. QED
    BY <1>2, <1>6, <1>7, <1>9, <1>10

\* Releasing a lock, by any number of requests at once, keeps what is known of tokens.
LEMMA DeathKeepsTokens ==
    ASSUME EnTypeOK, TokenInv, EnrollmentDies
    PROVE  TokenInv'
  <1> USE DEF EnTypeOK, TokenInv, EnrollmentDies, InFlight, history_vars, token_vars
  <1>1. \A r \in Request :
           /\ Done(r)' = Done(r) /\ HasLock(r)' = FALSE /\ ~InFlight(r)'
           /\ (doing[r] = "idle")' = (doing[r] = "idle")
           /\ doing'[r] \in {doing[r], "refused"}
    BY DEF Done, HasLock
  <1>2. OnPath' /\ LockIsExclusive' /\ Generated'
    BY <1>1 DEF OnPath, LockIsExclusive, Generated
  <1>3. StatusFits'
    BY <1>1 DEF StatusFits, Enrolled
  <1>4. RevocationsCross' /\ OneAgentPerToken'
    BY <1>1 DEF RevocationsCross, OneAgentPerToken, Enrolled
  <1>5. QED
    BY <1>2, <1>3, <1>4

\* The failure of an enrolment, a lapse and the sweep.
LEMMA FailureKeepsTokens ==
    ASSUME EnTypeOK, TokenInv, NEW r \in Request, EnrollAgentFails(r)
    PROVE  TokenInv'
  <1> USE DEF EnTypeOK, TokenInv, history_vars
  <1>1. /\ op[r] = "enroll" /\ doing[r] = "agent" /\ token[r] \in Token
        /\ status[token[r]] = "pending" /\ HasLock(r)
        /\ status' = [status EXCEPT ![token[r]] = "failed"]
        /\ doing' = [doing EXCEPT ![r] = "refused"]
        /\ UNCHANGED <<op, token, crossed>>
    BY DEF EnrollAgentFails, OnPath, StatusFits, HasLock
  <1>2. \A q \in Request \ {r} :
           HasLock(q)' = HasLock(q) /\ Done(q)' = Done(q) /\ InFlight(q)' = InFlight(q)
    BY <1>1 DEF HasLock, Done, InFlight
  <1>3. ~HasLock(r)' /\ ~Done(r)' /\ ~Done(r) /\ ~InFlight(r)'
    BY <1>1 DEF HasLock, Done, InFlight
  <1>4. OnPath' /\ LockIsExclusive'
    BY <1>1, <1>2, <1>3 DEF OnPath, LockIsExclusive
  <1>5. Generated'
    BY <1>1, <1>2, <1>3 DEF Generated
  <1>6. StatusFits'
    BY <1>1, <1>2, <1>3 DEF StatusFits, Enrolled, LockIsExclusive
  <1>7. RevocationsCross' /\ OneAgentPerToken'
    BY <1>1, <1>2, <1>3 DEF RevocationsCross, OneAgentPerToken, Enrolled
  <1>8. QED
    BY <1>4, <1>5, <1>6, <1>7

LEMMA SweepKeepsTokens ==
    ASSUME EnTypeOK, TokenInv, NEW t \in Token, Lapse(t) \/ ExpireOld(t)
    PROVE  TokenInv'
  <1> USE DEF EnTypeOK, TokenInv, history_vars, request_vars
  <1>1. /\ UNCHANGED <<op, doing, token, crossed>>
        /\ \/ status' = status
           \/ /\ status' = [status EXCEPT ![t] = "expired"]
              /\ status[t] = "pending" /\ ~Locked(t)
    BY DEF Lapse, ExpireOld
  <1>2. \A q \in Request :
           /\ HasLock(q)' = HasLock(q) /\ Done(q)' = Done(q) /\ InFlight(q)' = InFlight(q)
           /\ HasLock(q) => Locked(token[q])
    BY <1>1 DEF HasLock, Done, InFlight, Locked
  <1>3. OnPath' /\ LockIsExclusive'
    BY <1>1, <1>2 DEF OnPath, LockIsExclusive
  <1>4. \A u \in Token :
           \/ status'[u] = status[u]
           \/ status[u] = "pending" /\ status'[u] = "expired" /\ ~Locked(u)
    BY <1>1
  <1>5. \A q \in Request : op[q] \in {"generate", "enroll", "revoke"} => token[q] \in Token
    BY DEF OnPath
  <1>6. Generated'
    BY <1>1, <1>2, <1>4, <1>5 DEF Generated
  <1>7. StatusFits'
    BY <1>1, <1>2, <1>4, <1>5 DEF StatusFits, Enrolled
  <1>8. RevocationsCross' /\ OneAgentPerToken'
    BY <1>1, <1>2 DEF RevocationsCross, OneAgentPerToken, Enrolled
  <1>9. QED
    BY <1>3, <1>6, <1>7, <1>8

\* A commit is made with the row locked, or on a token nobody knows yet.
LEMMA CommitKeepsTokens ==
    ASSUME EnTypeOK, TokenInv, NEW r \in Request, Commit(r)
    PROVE  TokenInv'
  <1> USE DEF EnTypeOK, TokenInv
  <1>1. /\ doing[r] = "commit" /\ doing' = [doing EXCEPT ![r] = "done"]
        /\ UNCHANGED <<op, token>>
    BY DEF Commit
  <1>2. \A q \in Request \ {r} :
           HasLock(q)' = HasLock(q) /\ Done(q)' = Done(q) /\ InFlight(q)' = InFlight(q)
    BY <1>1 DEF HasLock, Done, InFlight
  <1>3. ~HasLock(r)' /\ Done(r)' /\ ~Done(r) /\ ~InFlight(r)' /\ InFlight(r)
    BY <1>1 DEF HasLock, Done, InFlight
  <1>4. OnPath' /\ LockIsExclusive'
    BY <1>1, <1>2, <1>3 DEF OnPath, LockIsExclusive
  <1>5. CASE op[r] = "direct"
    <2>1. UNCHANGED <<status, crossed>>
      BY <1>5 DEF Commit
    <2>2. Generated'
      BY <1>1, <1>2, <1>3, <1>5, <2>1 DEF Generated
    <2>3. StatusFits' /\ RevocationsCross' /\ OneAgentPerToken'
      BY <1>1, <1>2, <1>3, <1>5, <2>1 DEF StatusFits, RevocationsCross, OneAgentPerToken, Enrolled
    <2>4. QED
      BY <1>4, <2>2, <2>3
  <1>6. CASE op[r] = "generate"
    <2>1. /\ crossed' = crossed /\ token[r] \in Token
          /\ status' = [status EXCEPT ![token[r]] = "pending"]
      BY <1>6 DEF Commit, NewStatus, OnPath
    <2>2. status[token[r]] = "none"
      BY <1>3, <1>6 DEF Generated
    <2>3. Generated'
      BY <1>1, <1>2, <1>3, <1>6, <2>1, <2>2 DEF Generated
    <2>4. StatusFits'
      BY <1>1, <1>2, <1>3, <1>6, <2>1, <2>2 DEF StatusFits, Enrolled
    <2>5. RevocationsCross' /\ OneAgentPerToken'
      BY <1>1, <1>2, <1>3, <1>6, <2>1 DEF RevocationsCross, OneAgentPerToken, Enrolled
    <2>6. QED
      BY <1>4, <2>3, <2>4, <2>5
  <1>7. CASE op[r] = "enroll"
    <2>1. /\ crossed' = crossed \cup {{r, q} : q \in {p \in Request : Revoking(p, token[r])}}
          /\ token[r] \in Token /\ HasLock(r) /\ status[token[r]] = "pending"
          /\ status' = [status EXCEPT ![token[r]] = "active"]
      BY <1>1, <1>7 DEF Commit, NewStatus, OnPath, HasLock, StatusFits
    <2>2. Generated'
      BY <1>1, <1>2, <1>3, <1>7, <2>1 DEF Generated
    <2>3. StatusFits'
      BY <1>1, <1>2, <1>3, <1>7, <2>1 DEF StatusFits, Enrolled, LockIsExclusive
    <2>4. ASSUME NEW q \in Request, op[q] = "revoke", doing'[q] # "refused",
                 token[r] = token[q]
          PROVE  {q, r} \in crossed'
      <3>1. ~HasLock(q) /\ ~Done(q) /\ q # r
        BY <1>7, <2>1, <2>4 DEF LockIsExclusive, StatusFits
      <3>2. doing[q] = "update"
        BY <1>1, <2>4, <3>1 DEF HasLock, Done, OnPath
      <3>3. Revoking(q, token[r])
        BY <2>4, <3>2 DEF Revoking
      <3>4. {r, q} \in crossed'
        BY <2>1, <3>3
      <3>5. QED
        BY <3>4
    <2>5. RevocationsCross'
      BY <1>1, <1>2, <1>3, <1>7, <2>1, <2>4 DEF RevocationsCross, Enrolled
    <2>6. OneAgentPerToken'
      BY <1>1, <1>2, <1>3, <1>7, <2>1 DEF OneAgentPerToken, Enrolled, StatusFits
    <2>7. QED
      BY <1>4, <2>2, <2>3, <2>5, <2>6
  <1>8. CASE op[r] = "revoke"
    <2>1. /\ crossed' = crossed /\ token[r] \in Token /\ HasLock(r)
          /\ status' = [status EXCEPT ![token[r]] = "revoked"]
      BY <1>1, <1>8 DEF Commit, NewStatus, OnPath, HasLock
    <2>2. Generated'
      BY <1>1, <1>2, <1>3, <1>8, <2>1 DEF Generated
    <2>3. StatusFits'
      BY <1>1, <1>2, <1>3, <1>8, <2>1 DEF StatusFits, Enrolled, LockIsExclusive
    <2>4. RevocationsCross' /\ OneAgentPerToken'
      BY <1>1, <1>2, <1>3, <1>8, <2>1 DEF RevocationsCross, OneAgentPerToken, Enrolled
    <2>5. QED
      BY <1>4, <2>2, <2>3, <2>4
  <1>9. QED
    BY <1>1, <1>5, <1>6, <1>7, <1>8 DEF OnPath

LEMMA TokensKept ==
    ASSUME EnTypeOK, TokenInv, [EnNext \/ EnrollmentDies]_evars
    PROVE  TokenInv'
  <1>1. CASE UNCHANGED evars
    BY <1>1 DEF evars, token_vars, request_vars, history_vars, TokenInv, OnPath, LockIsExclusive,
       HasLock, Generated, StatusFits, RevocationsCross, OneAgentPerToken, Enrolled, Done, InFlight
  <1>2. CASE EnrollmentDies
    BY <1>2, DeathKeepsTokens
  <1>3. CASE \E t \in Token : Lapse(t) \/ ExpireOld(t)
    BY <1>3, SweepKeepsTokens
  <1>4. CASE \E r \in Request : Start(r) \/ Step(r)
    <2>1. PICK r \in Request : Start(r) \/ Step(r)
      BY <1>4
    <2>2. CASE Start(r)
      BY <2>2, StartKeepsTokens
    <2>3. CASE EnrollAgentFails(r)
      BY <2>3, FailureKeepsTokens
    <2>4. CASE Commit(r)
      BY <2>4, CommitKeepsTokens
    <2>5. CASE \/ MarkInstalling(r) \/ ClaimRefused(r) \/ EnrollAgent(r) \/ RevokeToken(r)
               \/ Log(r) \/ RollBack(r)
      BY <2>5, InsideKeepsTokens
    <2>6. QED
      BY <2>1, <2>2, <2>3, <2>4, <2>5 DEF Step
  <1>5. QED
    BY <1>1, <1>2, <1>3, <1>4 DEF EnNext

-----------------------------------------------------------------------------
(* Enrollment: hosts and the audit trail                                   *)

\* Steps that commit nothing, log nothing and begin nothing.
LEMMA QuietKeepsHistory ==
    ASSUME EnTypeOK, TokenInv, HistoryInv,
           UNCHANGED <<row, host, entry, now, together>>,
           \A r \in Request :
              \/ doing'[r] = doing[r]
              \/ InFlight(r) /\ doing'[r] \in {"agent", "log", "refused"}
                 /\ (doing'[r] # "refused" => doing[r] # "commit")
    PROVE  HistoryInv'
  <1> USE DEF EnTypeOK
  <1>1. \A r \in Request : Done(r)' = Done(r) /\ (InFlight(r)' => InFlight(r))
    BY DEF Done, InFlight
  <1>2. Trail' = Trail
    BY <1>1 DEF Trail
  <1>3. Latest' = Latest
    BY <1>2 DEF Latest
  <1>4. FlightsMet' /\ InsertionsMet'
    BY <1>1 DEF HistoryInv, FlightsMet, InsertionsMet
  <1>5. ForksMet'
    BY <1>1 DEF HistoryInv, ForksMet
  <1>6. \A r \in Request :
           doing'[r] \in {"idle", "claim", "agent", "update", "log"} => entry[r] = {}
    BY DEF HistoryInv, TrailIsOrdered, InFlight
  <1>7. TrailIsOrdered'
    BY <1>2, <1>3, <1>6 DEF HistoryInv, TrailIsOrdered
  <1>8. QED
    BY <1>4, <1>5, <1>7 DEF HistoryInv

\* A new request meets all that are in flight.
LEMMA StartKeepsHistory ==
    ASSUME EnTypeOK, HistoryInv, NEW r \in Request, Start(r)
    PROVE  HistoryInv'
  <1> USE DEF EnTypeOK
  <1>1. PICK what \in {"generate", "enroll", "direct", "revoke"},
             t \in Token \cup {NoToken}, h \in Host \cup {NoHost},
             first \in {"log", "claim", "agent", "update"} :
           Begin(r, what, t, h, first)
    BY DEF Start, Generate, Revoke, Enroll, EnrollDirectly
  <1>2. /\ doing[r] = "idle" /\ doing' = [doing EXCEPT ![r] = first]
        /\ host' = [host EXCEPT ![r] = h]
        /\ together' = together \cup {{r, q} : q \in {p \in Request : InFlight(p)}}
        /\ UNCHANGED <<row, entry, now>>
    BY <1>1 DEF Begin
  <1>3. /\ \A q \in Request : Done(q)' = Done(q)
        /\ \A q \in Request \ {r} : InFlight(q)' = InFlight(q)
        /\ entry[r] = {} /\ row[r] = NoRequest
    BY <1>2 DEF Done, InFlight, HistoryInv, TrailIsOrdered, InsertionsMet
  <1>4. \A q \in Request : InFlight(q) => {r, q} \in together' /\ {q, r} \in together'
    <2> SUFFICES ASSUME NEW q \in Request, InFlight(q)
                 PROVE  {r, q} \in together' /\ {q, r} \in together'
      OBVIOUS
    <2>1. {r, q} \in together'
      BY <1>2
    <2>2. {r, q} = {q, r}
      OBVIOUS
    <2>3. QED
      BY <2>1, <2>2
  <1>5. FlightsMet'
    BY <1>2, <1>3, <1>4 DEF HistoryInv, FlightsMet
  <1>6. InsertionsMet'
    BY <1>2, <1>3, NoneAssumption DEF HistoryInv, InsertionsMet
  <1>7. ForksMet'
    BY <1>2, <1>3 DEF HistoryInv, ForksMet
  <1>8. Trail' = Trail
    BY <1>2, <1>3 DEF Trail
  <1>9. Latest' = Latest
    BY <1>8 DEF Latest
  <1>10. TrailIsOrdered'
    BY <1>2, <1>3, <1>8, <1>9 DEF HistoryInv, TrailIsOrdered
  <1>11. QED
    BY <1>5, <1>6, <1>7, <1>10 DEF HistoryInv

\* A row is inserted only where no committed one is found.
LEMMA EnrollKeepsHistory ==
    ASSUME EnTypeOK, HistoryInv, NEW r \in Request, EnrollAgent(r)
    PROVE  HistoryInv'
  <1> USE DEF EnTypeOK
  <1>1. PICK a \in AgentRow(r) : row' = [row EXCEPT ![r] = a]
    BY DEF EnrollAgent
  <1>2. /\ doing[r] = "agent"
        /\ doing' = [doing EXCEPT ![r] = IF op[r] = "enroll" THEN "log" ELSE "commit"]
        /\ UNCHANGED <<host, entry, now, together>>
    BY DEF EnrollAgent, GoOn, history_vars
  <1>3. \A q \in Request : Done(q)' = Done(q) /\ InFlight(q)' = InFlight(q)
    BY <1>2 DEF Done, InFlight
  <1>4. ~Done(r) /\ (a = r => RowsOf(host[r]) = {})
    BY <1>1, <1>2 DEF AgentRow, RowsOf, Done
  <1>5. ASSUME NEW q \in Request, Done(q), row[q] = q, host[q] = host[r] PROVE a # r
    BY <1>4, <1>5 DEF RowsOf
  <1>6. FlightsMet'
    BY <1>2, <1>3 DEF HistoryInv, FlightsMet
  <1>7. InsertionsMet'
    BY <1>1, <1>2, <1>3, <1>4, <1>5 DEF HistoryInv, InsertionsMet
  <1>8. ForksMet'
    BY <1>2, <1>3 DEF HistoryInv, ForksMet
  <1>9. Trail' = Trail
    BY <1>2, <1>3 DEF Trail
  <1>10. Latest' = Latest
    BY <1>9 DEF Latest
  <1>11. entry[r] = {}
    BY <1>2 DEF HistoryInv, TrailIsOrdered
  <1>12. TrailIsOrdered'
    BY <1>2, <1>9, <1>10, <1>11 DEF HistoryInv, TrailIsOrdered
  <1>13. QED
    BY <1>6, <1>7, <1>8, <1>12 DEF HistoryInv

\* An entry names the latest committed one, which the entries of others that are
\* committed do not.
LEMMA LogKeepsHistory ==
    ASSUME EnTypeOK, HistoryInv, NEW r \in Request, Log(r)
    PROVE  HistoryInv'
  <1> USE DEF EnTypeOK
  <1>1. /\ doing[r] = "log" /\ doing' = [doing EXCEPT ![r] = "commit"]
        /\ UNCHANGED <<row, host, together>>
    BY DEF Log, history_vars
  <1>2. /\ \A q \in Request : Done(q)' = Done(q) /\ InFlight(q)' = InFlight(q)
        /\ ~Done(r) /\ entry[r] = {}
    BY <1>1 DEF Done, InFlight, HistoryInv, TrailIsOrdered
  <1>3. FlightsMet' /\ InsertionsMet'
    BY <1>1, <1>2 DEF HistoryInv, FlightsMet, InsertionsMet
  <1>4. CASE UNCHANGED <<entry, now>>
    <2>1. Trail' = Trail
      BY <1>2, <1>4 DEF Trail
    <2>2. Latest' = Latest
      BY <2>1 DEF Latest
    <2>3. TrailIsOrdered' /\ ForksMet'
      BY <1>1, <1>2, <1>4, <2>1, <2>2 DEF HistoryInv, TrailIsOrdered, ForksMet
    <2>4. QED
      BY <1>3, <2>3 DEF HistoryInv
  <1>5. CASE /\ entry' = [entry EXCEPT ![r] = {[by |-> r, prev |-> LastHash, at |-> now]}]
             /\ now' = now + 1
    <2> DEFINE e == [by |-> r, prev |-> LastHash, at |-> now]
    <2>1. entry'[r] = {e} /\ \A q \in Request \ {r} : entry'[q] = entry[q]
      BY <1>5
    <2>2. Trail' = Trail
      BY <1>2, <2>1 DEF Trail
    <2>3. Latest' = Latest
      BY <2>2 DEF Latest
    <2>4. ASSUME Trail # {}
          PROVE  \E p \in Request : \E l \in entry[p] :
                    /\ Done(p) /\ LastHash = p /\ l.at < now
                    /\ \A f \in Trail : f.at <= l.at
      <3> DEFINE l == CHOOSE x \in Latest : TRUE
      <3>1. l \in Latest
        BY <2>4 DEF HistoryInv, TrailIsOrdered
      <3>2. l \in Trail /\ \A f \in Trail : f.at <= l.at
        BY <3>1 DEF Latest
      <3>3. PICK p \in Request : Done(p) /\ l \in entry[p]
        BY <3>2 DEF Trail
      <3>4. LastHash = l.by
        BY <3>1 DEF LastHash
      <3>5. l.by = p /\ l.at < now
        BY <3>3 DEF HistoryInv, TrailIsOrdered
      <3>6. QED
        BY <3>2, <3>3, <3>4, <3>5
    <2>5. Trail = {} => LastHash = NoRequest
      BY DEF LastHash, Latest
    <2>6. e.by = r /\ e.at = now /\ e.prev = LastHash
      OBVIOUS
    <2>7. e.prev # NoRequest => \E f \in entry[e.prev] : f.at < e.at
      BY <2>4, <2>5, <2>6
    <2>8. TrailIsOrdered'
      <3>1. \A q \in Request : \A x, y \in entry'[q] : x = y /\ x.by = q /\ x.at < now'
        <4>1. \A q \in Request : \A x \in entry[q] : x.at \in Nat
          BY DEF Entry
        <4>2. QED
          BY <1>5, <2>1, <2>6, <4>1 DEF HistoryInv, TrailIsOrdered
      <3>2. ASSUME NEW q \in Request, NEW x \in entry'[q], x.prev # NoRequest
            PROVE  \E f \in entry'[x.prev] : f.at < x.at
        <4>1. \E f \in entry[x.prev] : f.at < x.at
          BY <2>1, <2>7, <3>2 DEF HistoryInv, TrailIsOrdered
        <4>2. x.prev \in Request
          <5>1. LastHash \in Request \cup {NoRequest}
            BY <2>4, <2>5
          <5>2. q # r => x.prev \in Request \cup {NoRequest}
            BY <2>1, <3>2 DEF Entry
          <5>3. q = r => x.prev = LastHash
            BY <2>1, <2>6, <3>2
          <5>4. QED
            BY <5>1, <5>2, <5>3, <3>2
        <4>3. x.prev # r
          BY <1>2, <4>1
        <4>4. QED
          BY <2>1, <4>1, <4>2, <4>3
      <3>3. \A q \in Request : doing'[q] \in {"idle", "claim", "agent", "update", "log"} =>
               entry'[q] = {}
        BY <1>1, <2>1 DEF HistoryInv, TrailIsOrdered
      <3>4. QED
        BY <2>2, <2>3, <3>1, <3>2, <3>3 DEF HistoryInv, TrailIsOrdered
    <2>9. ASSUME NEW q \in Request, NEW f \in entry[q], Done(q) PROVE f.prev # e.prev
      <3>1. f \in Trail
        BY <2>9 DEF Trail
      <3>2. PICK p \in Request : \E l \in entry[p] : LastHash = p /\ f.at <= l.at
        BY <2>4, <3>1
      <3>3. PICK l \in entry[p] : LastHash = p /\ f.at <= l.at
        BY <3>2
      <3>4. SUFFICES ASSUME f.prev = p PROVE FALSE
        BY <2>6, <3>3
      <3>5. PICK g \in entry[p] : g.at < f.at
        BY <3>4, NoneAssumption DEF HistoryInv, TrailIsOrdered
      <3>6. g = l /\ g.at \in Nat /\ f.at \in Nat
        BY <3>5, <3>3 DEF HistoryInv, TrailIsOrdered, Entry
      <3>7. QED
        BY <3>3, <3>5, <3>6
    <2>10. ForksMet'
      BY <1>1, <1>2, <2>1, <2>9 DEF HistoryInv, ForksMet
    <2>11. QED
      BY <1>3, <2>8, <2>10 DEF HistoryInv
  <1>6. QED
    BY <1>4, <1>5 DEF Log

\* The committing request has met all that are in flight.
LEMMA CommitKeepsHistory ==
    ASSUME EnTypeOK, HistoryInv, NEW r \in Request, Commit(r)
    PROVE  HistoryInv'
  <1> USE DEF EnTypeOK
  <1>1. /\ doing[r] = "commit" /\ doing' = [doing EXCEPT ![r] = "done"]
        /\ UNCHANGED <<row, host, entry, now, together>>
    BY DEF Commit
  <1>2. /\ \A q \in Request \ {r} : Done(q)' = Done(q) /\ InFlight(q)' = InFlight(q)
        /\ Done(r)' /\ ~InFlight(r)' /\ InFlight(r)
    BY <1>1 DEF Done, InFlight
  <1>3. \A q \in Request : InFlight(q) => q = r \/ ({r, q} \in together /\ {q, r} \in together)
    BY <1>2 DEF HistoryInv, FlightsMet
  <1>4. \A q \in Request : {r, q} = {q, r}
    OBVIOUS
  <1>5. FlightsMet'
    BY <1>1, <1>2 DEF HistoryInv, FlightsMet
  <1>6. InsertionsMet'
    BY <1>1, <1>2, <1>3, <1>4 DEF HistoryInv, InsertionsMet
  <1>7. ForksMet'
    BY <1>1, <1>2, <1>3, <1>4 DEF HistoryInv, ForksMet
  <1>8. Trail' = Trail \cup entry[r]
    BY <1>1, <1>2 DEF Trail
  <1>9. ASSUME Trail' # {} PROVE Latest' # {}
    <2>1. \A q \in Request : \A e \in entry[q] : e.at \in Nat
      BY DEF Entry
    <2>2. \A e \in Trail' : e.at \in Nat
      BY <1>8, <2>1 DEF Trail
    <2>3. CASE entry[r] = {}
      <3>1. Trail' = Trail
        BY <1>8, <2>3
      <3>2. Latest' = Latest
        BY <3>1 DEF Latest
      <3>3. QED
        BY <1>9, <3>1, <3>2 DEF HistoryInv, TrailIsOrdered
    <2>4. CASE entry[r] # {} /\ Trail = {}
      <3>1. PICK e \in entry[r] : TRUE
        BY <2>4
      <3>2. \A f \in Trail' : f = e
        BY <1>8, <2>4, <3>1 DEF HistoryInv, TrailIsOrdered
      <3>3. e \in Latest'
        BY <1>8, <2>2, <3>1, <3>2 DEF Latest
      <3>4. QED
        BY <3>3
    <2>5. CASE entry[r] # {} /\ Trail # {}
      <3>1. PICK e \in entry[r] : \A f \in entry[r] : f = e
        BY <2>5 DEF HistoryInv, TrailIsOrdered
      <3>2. PICK l \in Trail : \A f \in Trail : f.at <= l.at
        BY <2>5 DEF HistoryInv, TrailIsOrdered, Latest
      <3>3. l \in Trail' /\ e \in Trail'
        BY <1>8
      <3>4. \A f \in Trail' : f = e \/ f.at <= l.at
        BY <1>8, <3>1, <3>2
      <3>5. (\A f \in Trail' : f.at <= l.at) \/ (\A f \in Trail' : f.at <= e.at)
        BY <2>2, <3>3, <3>4
      <3>6. QED
        BY <3>3, <3>5 DEF Latest
    <2>6. QED
      BY <2>3, <2>4, <2>5
  <1>10. TrailIsOrdered'
    BY <1>1, <1>9 DEF HistoryInv, TrailIsOrdered
  <1>11. QED
    BY <1>5, <1>6, <1>7, <1>10 DEF HistoryInv

LEMMA HistoryKept ==
    ASSUME EnTypeOK, TokenInv, HistoryInv, [EnNext \/ EnrollmentDies]_evars
    PROVE  HistoryInv'
  <1> USE DEF EnTypeOK
  <1>1. CASE UNCHANGED evars
    BY <1>1, QuietKeepsHistory DEF evars, request_vars, history_vars
  <1>2. CASE EnrollmentDies
    <2>1. UNCHANGED <<row, host, entry, now, together>>
      BY <1>2 DEF EnrollmentDies, history_vars
    <2>2. \A r \in Request :
             \/ doing'[r] = doing[r]
             \/ InFlight(r) /\ doing'[r] = "refused"
      BY <1>2 DEF EnrollmentDies
    <2>3. QED
      BY <2>1, <2>2, QuietKeepsHistory
  <1>3. CASE \E t \in Token : Lapse(t) \/ ExpireOld(t)
    BY <1>3, QuietKeepsHistory DEF Lapse, ExpireOld, request_vars, history_vars
  <1>4. CASE \E r \in Request : Start(r) \/ Step(r)
    <2>1. PICK r \in Request : Start(r) \/ Step(r)
      BY <1>4
    <2>2. CASE \/ MarkInstalling(r) \/ ClaimRefused(r) \/ RevokeToken(r) \/ RollBack(r)
               \/ EnrollAgentFails(r)
      <3>1. UNCHANGED <<row, host, entry, now, together>>
        BY <2>2 DEF MarkInstalling, ClaimRefused, RevokeToken, RollBack, EnrollAgentFails, GoOn,
           history_vars
      <3>2. InFlight(r)
        BY <2>2 DEF MarkInstalling, ClaimRefused, RevokeToken, RollBack, EnrollAgentFails, InFlight
      <3>3. \E next \in {"agent", "log", "refused"} :
               /\ doing' = [doing EXCEPT ![r] = next]
               /\ next # "refused" => doing[r] # "commit"
        BY <2>2 DEF MarkInstalling, ClaimRefused, RevokeToken, RollBack, EnrollAgentFails, GoOn
      <3>4. \A q \in Request :
               \/ doing'[q] = doing[q]
               \/ InFlight(q) /\ doing'[q] \in {"agent", "log", "refused"}
                  /\ (doing'[q] # "refused" => doing[q] # "commit")
        BY <3>2, <3>3
      <3>5. QED
        BY <3>1, <3>4, QuietKeepsHistory
    <2>3. CASE Start(r)
      BY <2>3, StartKeepsHistory
    <2>4. CASE EnrollAgent(r)
      BY <2>4, EnrollKeepsHistory
    <2>5. CASE Log(r)
      BY <2>5, LogKeepsHistory
    <2>6. CASE Commit(r)
      BY <2>6, CommitKeepsHistory
    <2>7. QED
      BY <2>1, <2>2, <2>3, <2>4, <2>5, <2>6 DEF Step
  <1>5. QED
    BY <1>1, <1>2, <1>3, <1>4 DEF EnNext

-----------------------------------------------------------------------------
(* Enrollment: theorems                                                    *)

\* Requests, tokens, agent rows and audit trail stay in the relations that the claims,
\* locks and commits of the code set up.
THEOREM EnrollmentInvariance == EnSpec => [](EnTypeOK /\ TokenInv /\ HistoryInv)
  <1>1. EnInit => EnTypeOK /\ TokenInv /\ HistoryInv
    BY EnInitInv
  <1>2. EnTypeOK /\ TokenInv /\ HistoryInv /\ [EnNext \/ EnrollmentDies]_evars
        => EnTypeOK' /\ TokenInv' /\ HistoryInv'
    BY EnTypes, TokensKept, HistoryKept DEF TokenInv
  <1>3. QED
    BY <1>1, <1>2, PTL DEF EnSpec

\* A token enrols one agent at most, however many installers claim it at once.
THEOREM TokenIsSingleUse == EnSpec => []OneAgentPerToken
  <1>1. TokenInv => OneAgentPerToken
    BY DEF TokenInv
  <1>2. QED
    BY <1>1, EnrollmentInvariance, PTL

\* A revoked token has enrolled nobody, but for an enrolment that committed between the
\* SELECT and the UPDATE of the revocation.
THEOREM RevokedTokenIsUnused == EnSpec => []RevokedIsUnused
  <1>1. TokenInv => RevokedIsUnused
    BY DEF TokenInv, RevocationsCross, RevokedIsUnused, Done
  <1>2. QED
    BY <1>1, EnrollmentInvariance, PTL

\* Two agent rows of one host were inserted by requests that overlapped.
THEOREM HostsHaveOneAgent == EnSpec => []OneAgentPerHost
  <1>1. HistoryInv => OneAgentPerHost
    BY DEF HistoryInv, InsertionsMet, OneAgentPerHost
  <1>2. QED
    BY <1>1, EnrollmentInvariance, PTL

\* Two audit entries with one predecessor were written by requests that overlapped.
THEOREM AuditTrailIsLinear == EnSpec => []ChainIsLinear
  <1>1. HistoryInv => ChainIsLinear
    BY DEF HistoryInv, ForksMet, ChainIsLinear
  <1>2. QED
    BY <1>1, EnrollmentInvariance, PTL

-----------------------------------------------------------------------------
(* Sessions: the inductive invariant                                       *)

\* Calls that open, or go on with, a session.
InSession(c) == kind[c] \in {"login", "refresh"}

\* What a call presents was issued by a committed call of the right kind.
Presented ==
    /\ \A c \in Call : stage[c] = "idle" <=> kind[c] = "none"
    /\ \A c \in Call : stage[c] = "revoke" => Changing(c)
    /\ \A c \in Call : kind[c] \in {"none", "forgot", "change"} => spends[c] = NoCall
    /\ \A c \in Call : kind[c] = "login" => spends[c] \in Code \cup {NoCall}
    /\ \A c \in Call : kind[c] \in {"refresh", "logout"} =>
          spends[c] \in Call /\ Committed(spends[c]) /\ InSession(spends[c])
    /\ \A c \in Call : kind[c] = "reset" =>
          spends[c] \in Call /\ Committed(spends[c]) /\ kind[spends[c]] = "forgot"
    /\ \A k \in valid : Committed(k) /\ InSession(k)
    /\ link # NoCall => Committed(link) /\ kind[link] = "forgot"

\* Calls that are in flight at the same time have met.
OpenCallsMet == \A c, d \in Call : Open(c) /\ Open(d) => c = d \/ {c, d} \in met

\* A session outlives a change of the password only if one of its calls overlapped one.
SessionsInv ==
    /\ SessionsEndAtReset
    /\ \A c \in Call : Open(c) /\ InSession(c) => since[c] = changed \/ c \in mixed
    /\ \A c, d \in Call :
          Open(c) /\ Changing(c) /\ Open(d) /\ InSession(d) => d \in mixed
    /\ \A c \in Call : stage[c] = "commit" /\ Changing(c) =>
          \A k \in valid \ ending[c] : k \in mixed

\* The old password was stored again.
Overwritten == \E c \in Call : Committed(c) /\ Rehashes(c) /\ c \in mixed

PasswordInv ==
    /\ ChangedPasswordStays
    /\ \A c \in Call : Open(c) /\ Rehashes(c) =>
          found[c].hash.by = changed \/ c \in mixed \/ Overwritten

\* c met a login that wrote back a list of codes.
MetCodeUser(c) == \E e \in Call : spends[e] \in Code /\ {c, e} \in met

\* What was spent is not there any more, and who found it before has met the spender.
SpentInv ==
    /\ SpentOnce
    /\ \A c \in Call : Committed(c) /\ kind[c] \in {"refresh", "logout"} => spends[c] \notin valid
    /\ \A c \in Call : Committed(c) /\ kind[c] = "reset" => spends[c] # link
    /\ \A c \in Call : Committed(c) /\ spends[c] \in codes => MetCodeUser(c)
    /\ \A c, d \in Call :
          /\ Committed(c) /\ Open(d)
          /\ spends[c] = spends[d] /\ spends[c] # NoCall
          => {c, d} \in met \/ RestoredCode(c, d)
    /\ \A c, d \in Call :
          Committed(c) /\ Open(d) /\ spends[c] \in found[d].codes =>
             MetCodeUser(c) \/ {c, d} \in met

SeInv == Presented /\ OpenCallsMet /\ SessionsInv /\ PasswordInv /\ SpentInv

-----------------------------------------------------------------------------
LEMMA SeInitInv == SeInit => SeTypeOK /\ SeInv
  <1> SUFFICES ASSUME SeInit PROVE SeTypeOK /\ SeInv
    OBVIOUS
  <1>1. SeTypeOK
    BY DEF SeInit, SeTypeOK, Hash
  <1>2. \A c \in Call : ~Open(c) /\ ~Committed(c)
    BY DEF SeInit, Open, Committed
  <1>3. Presented /\ OpenCallsMet /\ SessionsInv
    BY <1>2 DEF SeInit, Presented, OpenCallsMet, SessionsInv, SessionsEndAtReset, Open
  <1>4. PasswordInv /\ SpentInv
    BY <1>2 DEF SeInit, PasswordInv, ChangedPasswordStays, SpentInv, SpentOnce
  <1>5. QED
    BY <1>1, <1>3, <1>4 DEF SeInv

\* A call arrives, with what it presents and its first step.
ArrivesAs(c, what, p, first) ==
    /\ Receive(c, what, p, first)
    /\ what = "login" => p \in codes \cup {NoCall}
    /\ what \in {"refresh", "logout"} => p \in valid
    /\ what = "reset" => p = link /\ link # NoCall
    /\ what \in {"forgot", "change"} => p = NoCall
    /\ first = "revoke" <=> what \in {"reset", "change"}
    /\ what = "login" => OfSession(c, changed, FALSE)
    /\ what = "refresh" => OfSession(c, since[p], p \in mixed)
    /\ what \in {"logout", "forgot"} => UNCHANGED <<since, mixed>>
    /\ what \in {"reset", "change"} => ChangesPassword(c)

Whats == {"login", "refresh", "logout", "forgot", "reset", "change"}

LEMMA Arrival ==
    ASSUME SeTypeOK, NEW c \in Call, Arrives(c)
    PROVE  \E what \in Whats, p \in Call \cup Code \cup {NoCall},
              first \in {"revoke", "commit"} : ArrivesAs(c, what, p, first)
  <1>1. ASSUME NEW code \in Code \cup {NoCall}, Login(c, code)
        PROVE  ArrivesAs(c, "login", code, "commit")
    BY <1>1 DEF Login, ArrivesAs
  <1>2. ASSUME NEW k \in Call, Refresh(c, k) PROVE ArrivesAs(c, "refresh", k, "commit")
    BY <1>2 DEF Refresh, ArrivesAs
  <1>3. ASSUME NEW k \in Call, Logout(c, k) PROVE ArrivesAs(c, "logout", k, "commit")
    BY <1>3 DEF Logout, ArrivesAs
  <1>4. ForgotPassword(c) => ArrivesAs(c, "forgot", NoCall, "commit")
    BY DEF ForgotPassword, ArrivesAs
  <1>5. ResetPassword(c) => ArrivesAs(c, "reset", link, "revoke")
    BY DEF ResetPassword, ArrivesAs
  <1>6. ChangePassword(c) => ArrivesAs(c, "change", NoCall, "revoke")
    BY DEF ChangePassword, ArrivesAs
  <1>7. link \in Call \cup {NoCall}
    BY DEF SeTypeOK
  <1>8. QED
    BY <1>1, <1>2, <1>3, <1>4, <1>5, <1>6, <1>7 DEF Arrives, Whats

LEMMA SeTypes ==
    ASSUME SeTypeOK, Presented, [SeNext \/ SessionsDie]_svars
    PROVE  SeTypeOK'
  <1> USE DEF SeTypeOK
  <1>1. CASE UNCHANGED svars
    BY <1>1 DEF svars, user_vars, call_vars, history
  <1>2. CASE SessionsDie
    BY <1>2 DEF SessionsDie, user_vars, history
  <1>3. ASSUME NEW c \in Call, Arrives(c) PROVE SeTypeOK'
    <2>1. PICK what \in Whats, p \in Call \cup Code \cup {NoCall}, first \in {"revoke", "commit"} :
             ArrivesAs(c, what, p, first)
      BY <1>3, Arrival
    <2>2. /\ kind' = [kind EXCEPT ![c] = what] /\ stage' = [stage EXCEPT ![c] = first]
          /\ spends' = [spends EXCEPT ![c] = p]
          /\ found' = [found EXCEPT ![c] = [hash |-> hash, codes |-> codes]]
          /\ met' = met \cup {{c, d} : d \in {b \in Call : Open(b)}}
          /\ UNCHANGED <<user_vars, valid, ending, changed>>
      BY <2>1 DEF Receive, ArrivesAs
    <2>3. since' \in [Call -> Call \cup {NoCall}] /\ mixed' \subseteq Call
      <3>1. what \in {"refresh", "logout"} => since[p] \in Call \cup {NoCall}
        BY <2>1 DEF ArrivesAs
      <3>2. QED
        BY <2>1, <3>1 DEF OfSession, ChangesPassword, ArrivesAs, Whats
    <2>4. found' \in [Call -> [hash : Hash, codes : SUBSET Code]]
      BY <2>2
    <2>5. QED
      BY <2>2, <2>3, <2>4 DEF user_vars, Whats
  <1>4. ASSUME NEW c \in Call, RevokeAll(c) \/ Refuse(c) PROVE SeTypeOK'
    BY <1>4 DEF RevokeAll, RevokedSessions, Refuse, user_vars, history
  <1>5. ASSUME NEW c \in Call, CommitCall(c) PROVE SeTypeOK'
    <2>1. found[c].hash \in Hash /\ found[c].codes \subseteq Code
      OBVIOUS
    <2>2. hash' \in Hash /\ codes' \subseteq Code /\ link' \in Call \cup {NoCall}
      <3>1. \A b \in BOOLEAN : [by |-> c, outdated |-> b] \in Hash
        BY DEF Hash
      <3>2. [by |-> found[c].hash.by, outdated |-> FALSE] \in Hash
        BY <2>1 DEF Hash
      <3>3. NewHash(c) \in Hash
        BY <3>1, <3>2 DEF NewHash
      <3>4. NewLink(c) \in Call \cup {NoCall}
        BY DEF NewLink
      <3>5. NewCodes(c) \subseteq Code
        BY <2>1 DEF NewCodes
      <3>6. QED
        BY <1>5, <3>3, <3>4, <3>5 DEF CommitCall
    <2>3. valid' \subseteq Call
      BY <1>5 DEF CommitCall, Issued
    <2>4. QED
      BY <1>5, <2>2, <2>3 DEF CommitCall
  <1>6. QED
    BY <1>1, <1>2, <1>3, <1>4, <1>5 DEF SeNext, Proceeds

-----------------------------------------------------------------------------
(* Sessions: a call arrives                                                *)

LEMMA ArrivalKeeps ==
    ASSUME SeTypeOK, SeInv, NEW c \in Call, Arrives(c)
    PROVE  SeInv'
  <1>1. PICK what \in Whats, p \in Call \cup Code \cup {NoCall}, first \in {"revoke", "commit"} :
           ArrivesAs(c, what, p, first)
    BY Arrival
  <1> USE DEF SeTypeOK
  <1>2. /\ stage[c] = "idle"
        /\ kind' = [kind EXCEPT ![c] = what] /\ stage' = [stage EXCEPT ![c] = first]
        /\ spends' = [spends EXCEPT ![c] = p]
        /\ found' = [found EXCEPT ![c] = [hash |-> hash, codes |-> codes]]
        /\ met' = met \cup {{c, d} : d \in {b \in Call : Open(b)}}
        /\ UNCHANGED <<user_vars, valid, ending, changed>>
    BY <1>1 DEF Receive, ArrivesAs
  <1>3. UNCHANGED <<hash, codes, link>>
    BY <1>2 DEF user_vars
  <1>4. /\ \A d \in Call : Committed(d)' = Committed(d)
        /\ \A d \in Call \ {c} : Open(d)' = Open(d)
        /\ Open(c)' /\ ~Committed(c) /\ ~Open(c)
    BY <1>2 DEF Committed, Open
  <1>5. \A d \in Call : Open(d) => {c, d} \in met' /\ {d, c} \in met'
    <2> SUFFICES ASSUME NEW d \in Call, Open(d) PROVE {c, d} \in met' /\ {d, c} \in met'
      OBVIOUS
    <2>1. {c, d} \in met'
      BY <1>2
    <2>2. {c, d} = {d, c}
      OBVIOUS
    <2>3. QED
      BY <2>1, <2>2
  <1>6. /\ \A d \in Call \ {c} : /\ kind'[d] = kind[d] /\ stage'[d] = stage[d]
                                 /\ spends'[d] = spends[d] /\ found'[d] = found[d]
        /\ kind'[c] = what /\ stage'[c] = first /\ spends'[c] = p
        /\ found'[c] = [hash |-> hash, codes |-> codes]
    BY <1>2
  <1>7. Presented'
    <2>1. /\ what = "login" => p \in Code \cup {NoCall}
          /\ what \in {"refresh", "logout"} => p \in Call \ {c} /\ Committed(p) /\ InSession(p)
          /\ what = "reset" => p \in Call \ {c} /\ Committed(p) /\ kind[p] = "forgot"
          /\ what \in {"forgot", "change"} => p = NoCall
          /\ first = "revoke" => what \in {"reset", "change"}
      BY <1>1, <1>4 DEF ArrivesAs, SeInv, Presented
    <2>2. \A d \in Call \ {c} : InSession(d)' = InSession(d) /\ Changing(d)' = Changing(d)
      BY <1>6 DEF InSession, Changing
    <2>3. ~InSession(c) /\ kind[c] = "none"
      BY <1>2 DEF SeInv, Presented, InSession
    <2>4. \A d \in Call : Committed(d) => d # c
      BY <1>4
    <2>5. \A d \in Call : (stage[d] = "idle" <=> kind[d] = "none")'
      BY <1>6 DEF SeInv, Presented, Whats
    <2>6. \A d \in Call : (stage[d] = "revoke" => Changing(d))'
      BY <1>6, <2>1 DEF SeInv, Presented, Changing
    <2>7. \A d \in Call :
             /\ (kind[d] \in {"none", "forgot", "change"} => spends[d] = NoCall)'
             /\ (kind[d] = "login" => spends[d] \in Code \cup {NoCall})'
      BY <1>6, <2>1 DEF SeInv, Presented, Whats
    <2>8. \A d \in Call : (kind[d] \in {"refresh", "logout"} =>
             spends[d] \in Call /\ Committed(spends[d]) /\ InSession(spends[d]))'
      BY <1>4, <1>6, <2>1, <2>2, <2>4 DEF SeInv, Presented
    <2>9. \A d \in Call : (kind[d] = "reset" =>
             spends[d] \in Call /\ Committed(spends[d]) /\ kind[spends[d]] = "forgot")'
      BY <1>4, <1>6, <2>1, <2>4 DEF SeInv, Presented
    <2>10. \A k \in valid' : Committed(k)' /\ InSession(k)'
      BY <1>2, <1>4, <2>2, <2>4 DEF SeInv, Presented
    <2>11. (link # NoCall => Committed(link) /\ kind[link] = "forgot")'
      BY <1>3, <1>4, <1>6, <2>4 DEF SeInv, Presented
    <2>12. QED
      BY <2>5, <2>6, <2>7, <2>8, <2>9, <2>10, <2>11 DEF Presented
  <1>8. OpenCallsMet'
    BY <1>2, <1>4, <1>5 DEF SeInv, OpenCallsMet
  <1>9. SessionsInv'
    <2>1. /\ mixed \subseteq mixed' /\ \A k \in Call \ {c} : since'[k] = since[k]
          /\ \A k \in valid : k # c
      BY <1>1, <1>4 DEF ArrivesAs, OfSession, ChangesPassword, SeInv, Presented, Whats
    <2>2. \A d \in Call \ {c} : InSession(d)' = InSession(d) /\ Changing(d)' = Changing(d)
      BY <1>6 DEF InSession, Changing
    <2>3. InSession(c)' => since'[c] = changed' \/ c \in mixed'
      <3>1. CASE what = "login"
        BY <1>1, <1>2, <3>1 DEF ArrivesAs, OfSession
      <3>2. CASE what = "refresh"
        <4>1. p \in valid /\ OfSession(c, since[p], p \in mixed)
          BY <1>1, <3>2 DEF ArrivesAs
        <4>2. since[p] = changed \/ p \in mixed
          BY <4>1 DEF SeInv, SessionsInv, SessionsEndAtReset
        <4>3. QED
          BY <1>2, <4>1, <4>2 DEF OfSession
      <3>3. QED
        BY <1>6, <3>1, <3>2 DEF InSession
    <2>4. InSession(c)' => \A d \in Call : Open(d) /\ Changing(d) => c \in mixed'
      BY <1>1, <1>6 DEF ArrivesAs, OfSession, InSession
    <2>5. Changing(c)' => first = "revoke" /\ \A d \in Call : Open(d) => d \in mixed'
      BY <1>1, <1>6 DEF ArrivesAs, ChangesPassword, Changing
    <2>6. ~(InSession(c)' /\ Changing(c)')
      BY DEF InSession, Changing
    <2>7. SessionsEndAtReset'
      BY <1>2, <2>1 DEF SeInv, SessionsInv, SessionsEndAtReset
    <2>8. \A d \in Call : (Open(d) /\ InSession(d) => since[d] = changed \/ d \in mixed)'
      BY <1>2, <1>4, <2>1, <2>2, <2>3 DEF SeInv, SessionsInv
    <2>9. \A b, d \in Call :
             (Open(b) /\ Changing(b) /\ Open(d) /\ InSession(d) => d \in mixed)'
      BY <1>4, <2>1, <2>2, <2>4, <2>5, <2>6 DEF SeInv, SessionsInv
    <2>10. \A d \in Call : (stage[d] = "commit" /\ Changing(d) =>
             \A k \in valid \ ending[d] : k \in mixed)'
      BY <1>2, <1>6, <2>1, <2>2, <2>5 DEF SeInv, SessionsInv
    <2>11. QED
      BY <2>7, <2>8, <2>9, <2>10 DEF SessionsInv
  <1>10. PasswordInv'
    <2>1. mixed \subseteq mixed' /\ (\A d \in Call \ {c} : Rehashes(d)' = Rehashes(d))
      BY <1>1, <1>6 DEF ArrivesAs, OfSession, ChangesPassword, Whats, Rehashes
    <2>2. Overwritten => Overwritten'
      BY <1>4, <2>1 DEF Overwritten
    <2>3. hash.by = changed \/ Overwritten
      BY DEF SeInv, PasswordInv, ChangedPasswordStays, Overwritten
    <2>4. ChangedPasswordStays'
      BY <1>2, <1>3, <2>2, <2>3 DEF ChangedPasswordStays, Overwritten
    <2>5. found'[c].hash.by = changed' \/ Overwritten'
      BY <1>2, <1>6, <2>2, <2>3
    <2>6. \A d \in Call : (Open(d) /\ Rehashes(d) =>
             found[d].hash.by = changed \/ d \in mixed \/ Overwritten)'
      BY <1>2, <1>4, <1>6, <2>1, <2>2, <2>5 DEF SeInv, PasswordInv
    <2>7. QED
      BY <2>4, <2>6 DEF PasswordInv
  <1>11. SpentInv'
    <2>1. /\ \A d \in Call : spends[d] \in Code => spends'[d] = spends[d] /\ d # c
          /\ met \subseteq met'
      BY <1>2, <1>6, NoCallAssumption DEF SeInv, Presented
    <2>2. \A d \in Call : MetCodeUser(d) => MetCodeUser(d)'
      BY <2>1 DEF MetCodeUser
    <2>3. \A b, d \in Call : b # c /\ RestoredCode(b, d) => RestoredCode(b, d)'
      BY <1>6, <2>1 DEF RestoredCode
    <2>4. SpentOnce'
      BY <1>4, <1>6, <2>1, <2>3 DEF SeInv, SpentInv, SpentOnce
    <2>5. ASSUME NEW d \in Call, Committed(d), spends[d] = p, p # NoCall
          PROVE  {d, c} \in met' \/ RestoredCode(d, c)'
      <3>1. d # c /\ spends'[d] = p
        BY <1>4, <1>6, <2>5
      <3>2. CASE what = "login"
        <4>1. p \in codes /\ p \in Code
          BY <1>1, <2>5, <3>2 DEF ArrivesAs
        <4>2. MetCodeUser(d)
          BY <2>5, <4>1 DEF SeInv, SpentInv
        <4>3. PICK e \in Call : spends[e] \in Code /\ {d, e} \in met
          BY <4>2 DEF MetCodeUser
        <4>4. QED
          BY <2>1, <3>1, <4>1, <4>3 DEF RestoredCode
      <3>3. CASE what \in {"refresh", "logout"}
        <4>1. p \in valid /\ InSession(p) /\ p \in Call
          BY <1>1, <3>3 DEF ArrivesAs, SeInv, Presented
        <4>2. kind[d] \in {"refresh", "logout"}
          BY <2>5, <4>1, CodeAssumption, NoCallAssumption DEF SeInv, Presented, InSession
        <4>3. QED
          BY <2>5, <4>1, <4>2 DEF SeInv, SpentInv
      <3>4. CASE what = "reset"
        <4>1. p = link /\ kind[p] = "forgot" /\ p \in Call
          BY <1>1, <3>4 DEF ArrivesAs, SeInv, Presented
        <4>2. kind[d] = "reset"
          BY <2>5, <4>1, CodeAssumption, NoCallAssumption DEF SeInv, Presented, InSession
        <4>3. QED
          BY <2>5, <4>1, <4>2 DEF SeInv, SpentInv
      <3>5. QED
        BY <1>1, <2>5, <3>2, <3>3, <3>4 DEF ArrivesAs, Whats
    <2>6. \A d \in Call : Committed(d) /\ p # NoCall /\ spends[d] = p =>
             {d, c} \in met' \/ RestoredCode(d, c)'
      BY <2>5
    <2>7. \A b, d \in Call :
             (/\ Committed(b) /\ Open(d)
              /\ spends[b] = spends[d] /\ spends[b] # NoCall
              => {b, d} \in met \/ RestoredCode(b, d))'
      BY <1>4, <1>6, <2>1, <2>3, <2>6 DEF SeInv, SpentInv
    <2>8. \A d \in Call : (Committed(d) /\ spends[d] \in codes => MetCodeUser(d))'
      BY <1>3, <1>4, <1>6, <2>2 DEF SeInv, SpentInv
    <2>9. \A b, d \in Call :
             (Committed(b) /\ Open(d) /\ spends[b] \in found[d].codes =>
                MetCodeUser(b) \/ {b, d} \in met)'
      BY <1>3, <1>4, <1>6, <2>1, <2>2 DEF SeInv, SpentInv
    <2>10. \A d \in Call :
             /\ (Committed(d) /\ kind[d] \in {"refresh", "logout"} => spends[d] \notin valid)'
             /\ (Committed(d) /\ kind[d] = "reset" => spends[d] # link)'
      BY <1>2, <1>3, <1>4, <1>6 DEF SeInv, SpentInv
    <2>11. QED
      BY <2>4, <2>7, <2>8, <2>9, <2>10 DEF SpentInv
  <1>12. QED
    BY <1>7, <1>8, <1>9, <1>10, <1>11 DEF SeInv

-----------------------------------------------------------------------------
(* Sessions: a call goes on, is refused, or commits                        *)

\* Steps that commit nothing: some calls are refused, some have revoked.
LEMMA QuietKeeps ==
    ASSUME SeTypeOK, SeInv,
           UNCHANGED <<user_vars, valid, kind, spends, found, history>>,
           stage' \in [Call -> {"idle", "revoke", "commit", "done", "refused"}],
           \A c \in Call :
              \/ stage'[c] = stage[c] /\ ending'[c] = ending[c]
              \/ Open(c) /\ stage'[c] = "refused"
              \/ stage[c] = "revoke" /\ stage'[c] = "commit" /\ ending'[c] = valid
    PROVE  SeInv'
  <1>1. UNCHANGED <<hash, codes, link, valid, kind, spends, found, changed, since, mixed, met>>
    BY DEF user_vars, history
  <1>2. /\ \A c \in Call : Committed(c)' = Committed(c) /\ (Open(c)' => Open(c))
        /\ \A c \in Call : stage[c]' = "idle" <=> stage[c] = "idle"
        /\ \A c \in Call : stage[c]' = "revoke" => stage[c] = "revoke"
    BY DEF Committed, Open, SeTypeOK
  <1>3. /\ \A c \in Call : InSession(c)' = InSession(c) /\ Changing(c)' = Changing(c)
        /\ \A c \in Call : Rehashes(c)' = Rehashes(c) /\ MetCodeUser(c)' = MetCodeUser(c)
        /\ \A c, d \in Call : RestoredCode(c, d)' = RestoredCode(c, d)
    BY <1>1 DEF InSession, Changing, Rehashes, MetCodeUser, RestoredCode
  <1>4. \A k \in valid : k \in Call
    BY DEF SeTypeOK
  <1>5. Presented'
    <2>1. link # NoCall => link \in Call
      BY DEF SeTypeOK
    <2>2. QED
      BY <1>1, <1>2, <1>3, <1>4, <2>1 DEF SeInv, Presented
  <1>6. OpenCallsMet'
    BY <1>1, <1>2 DEF SeInv, OpenCallsMet
  <1>7. \A c \in Call : (stage[c] = "commit" /\ Changing(c) =>
           \A k \in valid \ ending[c] : k \in mixed)'
    BY <1>1, <1>3 DEF SeInv, SessionsInv
  <1>8. SessionsInv'
    BY <1>1, <1>2, <1>3, <1>7 DEF SeInv, SessionsInv, SessionsEndAtReset
  <1>9. Overwritten' = Overwritten
    BY <1>1, <1>2, <1>3 DEF Overwritten
  <1>10. PasswordInv'
    BY <1>1, <1>2, <1>3, <1>9 DEF SeInv, PasswordInv, ChangedPasswordStays, Overwritten
  <1>11. SpentInv'
    BY <1>1, <1>2, <1>3 DEF SeInv, SpentInv, SpentOnce
  <1>12. QED
    BY <1>5, <1>6, <1>8, <1>10, <1>11 DEF SeInv

LEMMA CommitKeeps ==
    ASSUME SeTypeOK, SeInv, NEW c \in Call, CommitCall(c)
    PROVE  SeInv'
  <1>1. /\ stage[c] = "commit" /\ stage' = [stage EXCEPT ![c] = "done"]
        /\ valid' = (valid \ Revoked(c)) \cup Issued(c)
        /\ hash' = NewHash(c) /\ codes' = NewCodes(c) /\ link' = NewLink(c)
        /\ changed' = IF Changing(c) THEN c ELSE changed
        /\ UNCHANGED <<kind, spends, found, ending, since, mixed, met>>
    BY DEF CommitCall
  <1> USE DEF SeTypeOK
  <1>2. /\ \A d \in Call \ {c} : /\ Committed(d)' = Committed(d) /\ Open(d)' = Open(d)
                                 /\ stage'[d] = stage[d]
        /\ Committed(c)' /\ ~Committed(c) /\ Open(c) /\ ~Open(c)' /\ stage'[c] = "done"
    BY <1>1 DEF Committed, Open
  <1>3. /\ \A d \in Call : InSession(d)' = InSession(d) /\ Changing(d)' = Changing(d)
        /\ \A d \in Call : Rehashes(d)' = Rehashes(d) /\ MetCodeUser(d)' = MetCodeUser(d)
        /\ \A b, d \in Call : RestoredCode(b, d)' = RestoredCode(b, d)
    BY <1>1 DEF InSession, Changing, Rehashes, MetCodeUser, RestoredCode
  <1>4. \A d \in Call : Open(d) => d = c \/ ({c, d} \in met /\ {d, c} \in met)
    <2> SUFFICES ASSUME NEW d \in Call, Open(d), d # c PROVE {c, d} \in met /\ {d, c} \in met
      OBVIOUS
    <2>1. {c, d} \in met
      BY <1>2 DEF SeInv, OpenCallsMet
    <2>2. {c, d} = {d, c}
      OBVIOUS
    <2>3. QED
      BY <2>1, <2>2
  <1>5. /\ \A k \in valid' : k \in valid \/ (k = c /\ InSession(c))
        /\ InSession(c) \/ c \notin valid'
        /\ \A k \in valid : k # c
    BY <1>1, <1>2 DEF Issued, InSession, SeInv, Presented
  <1>6. Presented'
    <2>1. \A d \in Call : Committed(d) => Committed(d)'
      BY <1>2
    <2>2. link' # NoCall => stage'[link'] = "done" /\ kind[link'] = "forgot"
      <3>1. \/ link' = c /\ kind[c] = "forgot"
            \/ link' \in {link, NoCall}
        BY <1>1 DEF NewLink
      <3>2. link # NoCall => stage[link] = "done" /\ kind[link] = "forgot" /\ link # c
        BY <1>1 DEF SeInv, Presented, Committed
      <3>3. QED
        BY <1>1, <1>2, <3>1, <3>2
    <2>3. \A d \in Call : (stage[d] = "idle" <=> kind[d] = "none")'
      BY <1>1, <1>2 DEF SeInv, Presented
    <2>4. \A d \in Call : (stage[d] = "revoke" => Changing(d))'
      BY <1>2, <1>3 DEF SeInv, Presented
    <2>5. \A k \in valid' : Committed(k)' /\ InSession(k)'
      BY <1>2, <1>3, <1>5, <2>1 DEF SeInv, Presented
    <2>6. \A d \in Call : (kind[d] \in {"refresh", "logout"} =>
             spends[d] \in Call /\ Committed(spends[d]) /\ InSession(spends[d]))'
      BY <1>1, <1>3, <2>1 DEF SeInv, Presented
    <2>7. \A d \in Call : (kind[d] = "reset" =>
             spends[d] \in Call /\ Committed(spends[d]) /\ kind[spends[d]] = "forgot")'
      BY <1>1, <2>1 DEF SeInv, Presented
    <2>8. (link # NoCall => Committed(link) /\ kind[link] = "forgot")'
      BY <1>1, <2>2 DEF Committed
    <2>9. \A d \in Call :
             /\ (kind[d] \in {"none", "forgot", "change"} => spends[d] = NoCall)'
             /\ (kind[d] = "login" => spends[d] \in Code \cup {NoCall})'
      BY <1>1 DEF SeInv, Presented
    <2>10. QED
      BY <2>3, <2>4, <2>5, <2>6, <2>7, <2>8, <2>9 DEF Presented
  <1>7. OpenCallsMet'
    BY <1>1, <1>2 DEF SeInv, OpenCallsMet
  <1>8. SessionsInv'
    <2>1. CASE Changing(c)
      <3>1. \A d \in Call : Open(d) /\ InSession(d) => d \in mixed
        BY <1>2, <2>1 DEF SeInv, SessionsInv
      <3>2. \A k \in valid' : k \in mixed
        <4>1. ~InSession(c) /\ \A k \in valid' : k \in valid \ ending[c]
          BY <1>1, <2>1 DEF Changing, InSession, Issued, Revoked
        <4>2. QED
          BY <1>1, <2>1, <4>1 DEF SeInv, SessionsInv
      <3>3. SessionsEndAtReset'
        BY <1>1, <3>2 DEF SessionsEndAtReset
      <3>4. \A d \in Call : (stage[d] = "commit" /\ Changing(d) =>
               \A k \in valid \ ending[d] : k \in mixed)'
        BY <1>1, <3>2
      <3>5. QED
        BY <1>1, <1>2, <1>3, <3>1, <3>3, <3>4 DEF SeInv, SessionsInv
    <2>2. CASE ~Changing(c)
      <3>1. InSession(c) => since[c] = changed \/ c \in mixed
        BY <1>2 DEF SeInv, SessionsInv
      <3>2. SessionsEndAtReset'
        BY <1>1, <1>5, <2>2, <3>1 DEF SeInv, SessionsInv, SessionsEndAtReset
      <3>3. \A d \in Call : Open(d) /\ Changing(d) /\ InSession(c) => c \in mixed
        BY <1>2 DEF SeInv, SessionsInv
      <3>4. \A d \in Call : (stage[d] = "commit" /\ Changing(d) =>
               \A k \in valid \ ending[d] : k \in mixed)'
        <4> SUFFICES ASSUME NEW d \in Call, stage'[d] = "commit", Changing(d),
                            NEW k \in valid', k \notin ending[d]
                     PROVE  k \in mixed
          BY <1>1, <1>3
        <4>1. d # c /\ stage[d] = "commit" /\ Open(d)
          BY <1>2 DEF Open
        <4>2. k \in valid => k \in mixed
          BY <4>1 DEF SeInv, SessionsInv
        <4>3. k \notin valid => k \in mixed
          BY <1>5, <3>3, <4>1
        <4>4. QED
          BY <4>2, <4>3
      <3>5. QED
        BY <1>1, <1>2, <1>3, <2>2, <3>2, <3>4 DEF SeInv, SessionsInv
    <2>3. QED
      BY <2>1, <2>2
  <1>9. PasswordInv'
    <2>1. Overwritten => Overwritten'
      BY <1>1, <1>2, <1>3 DEF Overwritten
    <2>2. Rehashes(c) => InSession(c) /\ ~Changing(c)
      BY DEF Rehashes, InSession, Changing
    <2>3. hash.by = changed \/ Overwritten
      BY DEF SeInv, PasswordInv, ChangedPasswordStays, Overwritten
    <2>4. CASE Changing(c)
      <3>1. NewHash(c) = [by |-> c, outdated |-> FALSE]
        BY <2>2, <2>4 DEF NewHash
      <3>2. hash'.by = c /\ changed' = c
        BY <1>1, <2>4, <3>1
      <3>3. \A d \in Call : Open(d) /\ Rehashes(d) => d \in mixed
        <4>1. \A d \in Call : Rehashes(d) => InSession(d)
          BY DEF Rehashes, InSession
        <4>2. QED
          BY <1>2, <2>4, <4>1 DEF SeInv, SessionsInv
      <3>4. QED
        BY <1>1, <1>2, <1>3, <3>3, <3>2 DEF PasswordInv, ChangedPasswordStays
    <2>5. CASE ~Changing(c)
      <3>1. changed' = changed
        BY <1>1, <2>5
      <3>2. Rehashes(c) /\ c \in mixed => Overwritten'
        BY <1>1, <1>2, <1>3 DEF Overwritten
      <3>3. hash'.by = changed' \/ Overwritten'
        <4>1. CASE Rehashes(c)
          <5>1. hash'.by = found[c].hash.by
            BY <1>1, <2>5, <4>1 DEF NewHash
          <5>2. found[c].hash.by = changed \/ c \in mixed \/ Overwritten
            BY <1>2, <4>1 DEF SeInv, PasswordInv
          <5>3. QED
            BY <2>1, <3>1, <3>2, <4>1, <5>1, <5>2
        <4>2. CASE ~Rehashes(c)
          BY <1>1, <2>1, <2>3, <2>5, <3>1, <4>2 DEF NewHash
        <4>3. QED
          BY <4>1, <4>2
      <3>4. QED
        BY <1>1, <1>2, <1>3, <2>1, <3>1, <3>3
           DEF SeInv, PasswordInv, ChangedPasswordStays, Overwritten
    <2>6. QED
      BY <2>4, <2>5
  <1>10. SpentInv'
    <2>1. SpentOnce'
      <3>1. ASSUME NEW d \in Call, Committed(d), spends[d] = spends[c], spends[c] # NoCall
            PROVE  /\ {d, c} \in met \/ RestoredCode(d, c)
                   /\ {c, d} \in met \/ RestoredCode(c, d)
        <4>1. {d, c} \in met \/ RestoredCode(d, c)
          BY <1>2, <3>1 DEF SeInv, SpentInv
        <4>2. {d, c} = {c, d} /\ (RestoredCode(d, c) => RestoredCode(c, d))
          BY <3>1 DEF RestoredCode
        <4>3. QED
          BY <4>1, <4>2
      <3>2. ASSUME NEW b \in Call, NEW d \in Call, Committed(b)', Committed(d)',
                   spends[b] = spends[d], spends[b] # NoCall
            PROVE  b = d \/ {b, d} \in met \/ RestoredCode(b, d)
        <4>1. CASE b # c /\ d # c
          BY <1>2, <3>2, <4>1 DEF SeInv, SpentInv, SpentOnce
        <4>2. CASE b = c \/ d = c
          BY <1>2, <3>1, <3>2, <4>2
        <4>3. QED
          BY <4>1, <4>2
      <3>3. QED
        BY <1>1, <1>3, <3>2 DEF SpentOnce
    <2>2. \A d \in Call :
             (Committed(d) /\ kind[d] \in {"refresh", "logout"} => spends[d] \notin valid)'
      <3>1. kind[c] \in {"refresh", "logout"} => spends[c] \notin valid'
        BY <1>1, <1>2 DEF Revoked, Issued, SeInv, Presented
      <3>2. \A d \in Call : kind[d] \in {"refresh", "logout"} => spends[d] # c
        BY <1>2 DEF SeInv, Presented
      <3>3. QED
        BY <1>1, <1>2, <1>5, <3>1, <3>2 DEF SeInv, SpentInv
    <2>3. \A d \in Call : (Committed(d) /\ kind[d] = "reset" => spends[d] # link)'
      <3>1. kind[c] = "reset" => link' = NoCall
        BY <1>1 DEF NewLink
      <3>2. link' \in {link, c, NoCall}
        BY <1>1 DEF NewLink
      <3>3. \A d \in Call : kind[d] = "reset" => spends[d] # c /\ spends[d] # NoCall
        BY <1>2, NoCallAssumption DEF SeInv, Presented
      <3>4. QED
        BY <1>1, <1>2, <3>1, <3>2, <3>3 DEF SeInv, SpentInv
    <2>4. \A d \in Call : (Committed(d) /\ spends[d] \in codes => MetCodeUser(d))'
      <3>1. CASE spends[c] \in Code
        <4>1. codes' = found[c].codes \ {spends[c]}
          BY <1>1, <3>1 DEF NewCodes
        <4>2. ASSUME NEW d \in Call, Committed(d), spends[d] \in codes' PROVE MetCodeUser(d)
          <5>1. MetCodeUser(d) \/ {d, c} \in met
            BY <1>2, <4>1, <4>2 DEF SeInv, SpentInv
          <5>2. QED
            BY <3>1, <5>1 DEF MetCodeUser
        <4>3. spends[c] \notin codes'
          BY <4>1
        <4>4. QED
          BY <1>1, <1>2, <1>3, <4>2, <4>3
      <3>2. CASE spends[c] \notin Code
        <4>1. codes' = codes /\ spends[c] \notin codes
          BY <1>1, <3>2 DEF NewCodes
        <4>2. QED
          BY <1>1, <1>2, <1>3, <4>1 DEF SeInv, SpentInv
      <3>3. QED
        BY <3>1, <3>2
    <2>5. \A b, d \in Call :
             (/\ Committed(b) /\ Open(d)
              /\ spends[b] = spends[d] /\ spends[b] # NoCall
              => {b, d} \in met \/ RestoredCode(b, d))'
      BY <1>1, <1>2, <1>3, <1>4 DEF SeInv, SpentInv
    <2>6. \A b, d \in Call :
             (Committed(b) /\ Open(d) /\ spends[b] \in found[d].codes =>
                MetCodeUser(b) \/ {b, d} \in met)'
      BY <1>1, <1>2, <1>3, <1>4 DEF SeInv, SpentInv
    <2>7. QED
      BY <2>1, <2>2, <2>3, <2>4, <2>5, <2>6 DEF SpentInv
  <1>11. QED
    BY <1>6, <1>7, <1>8, <1>9, <1>10 DEF SeInv

LEMMA SeStep ==
    ASSUME SeTypeOK, SeInv, [SeNext \/ SessionsDie]_svars
    PROVE  SeTypeOK' /\ SeInv'
  <1>1. SeTypeOK'
    BY SeTypes DEF SeInv
  <1>2. stage' \in [Call -> {"idle", "revoke", "commit", "done", "refused"}]
    BY <1>1 DEF SeTypeOK
  <1>3. CASE UNCHANGED svars
    <2>1. /\ UNCHANGED <<user_vars, valid, kind, spends, found, history>>
          /\ stage' = stage /\ ending' = ending
      BY <1>3 DEF svars, call_vars
    <2>2. QED
      BY <1>1, <1>2, <2>1, QuietKeeps
  <1>4. CASE SessionsDie
    <2>1. UNCHANGED <<user_vars, valid, kind, spends, found, history>> /\ ending' = ending
      BY <1>4 DEF SessionsDie
    <2>2. \A c \in Call : stage'[c] = IF Open(c) THEN "refused" ELSE stage[c]
      BY <1>4 DEF SessionsDie
    <2>3. QED
      BY <1>1, <1>2, <2>1, <2>2, QuietKeeps
  <1>5. ASSUME NEW c \in Call, RevokeAll(c) PROVE SeInv'
    BY <1>2, <1>5, QuietKeeps DEF RevokeAll, RevokedSessions, SeTypeOK
  <1>6. ASSUME NEW c \in Call, Refuse(c) PROVE SeInv'
    BY <1>2, <1>6, QuietKeeps DEF Refuse, SeTypeOK
  <1>7. QED
    BY <1>1, <1>3, <1>4, <1>5, <1>6, ArrivalKeeps, CommitKeeps DEF SeNext, Proceeds

-----------------------------------------------------------------------------
(* Sessions: theorems                                                      *)

\* Calls, tokens, links, codes and the password stay in the relations that the
\* transactions of the code set up.
THEOREM SessionsInvariance == SeSpec => [](SeTypeOK /\ SeInv)
  <1>1. SeInit => SeTypeOK /\ SeInv
    BY SeInitInv
  <1>2. SeTypeOK /\ SeInv /\ [SeNext \/ SessionsDie]_svars => SeTypeOK' /\ SeInv'
    BY SeStep
  <1>3. QED
    BY <1>1, <1>2, PTL DEF SeSpec

\* A change of the password ends every session none of whose calls overlapped a change.
THEOREM ResetEndsSessions == SeSpec => []SessionsEndAtReset
  <1>1. SeInv => SessionsEndAtReset
    BY DEF SeInv, SessionsInv
  <1>2. QED
    BY <1>1, SessionsInvariance, PTL

\* A refresh token, a reset link and a backup code are honoured once by calls that do
\* not overlap.
THEOREM CredentialsAreSpent == SeSpec => []SpentOnce
  <1>1. SeInv => SpentOnce
    BY DEF SeInv, SpentInv
  <1>2. QED
    BY <1>1, SessionsInvariance, PTL

\* A password is replaced by an older one only by a login that rehashes it while it is
\* being changed.
THEOREM PasswordStays == SeSpec => []ChangedPasswordStays
  <1>1. SeInv => ChangedPasswordStays
    BY DEF SeInv, PasswordInv
  <1>2. QED
    BY <1>1, SessionsInvariance, PTL

-----------------------------------------------------------------------------
(* Workspace: locks and presence                                           *)

\* While no lock in use was deleted, the only analyst who may edit is the one whose
\* connection set the key, a connection about to send lock.acquired is that connection,
\* and a release that has seen the key deletes the lock of its own analyst.
LockInv ==
    \/ snatched
    \/ /\ \A a \in told : lock # NoOne /\ a = UserOf[lock]
       /\ \A c \in Conn : at[c] = "granted" => lock = c
       /\ \A c \in Conn : at[c] = "release" => lock # NoOne /\ UserOf[lock] = UserOf[c]

WsInv == WsTypeOK /\ LockInv /\ PresenceExpires

LEMMA WsInitInv == WsInit => WsInv
  BY DEF WsInit, WsInv, WsTypeOK, LockInv, PresenceExpires

\* The connection's next step is one of the steps.
LEMMA WsTypes ==
    ASSUME WsTypeOK, [WsNext \/ WorkspaceDies]_wvars
    PROVE  WsTypeOK'
  <1> USE UserOfAssumption DEF WsTypeOK, Joining, Serving, Go, lock_vars, presence_vars
  <1>1. CASE UNCHANGED wvars
    BY <1>1 DEF wvars
  <1>2. CASE WorkspaceDies
    BY <1>2 DEF WorkspaceDies, Strand
  <1>3. CASE LockExpires
    BY <1>3 DEF LockExpires
  <1>4. ASSUME NEW a \in Analyst, GrantEnds(a) \/ PresenceLapses(a) PROVE WsTypeOK'
    BY <1>4 DEF GrantEnds, PresenceLapses
  <1>5. ASSUME NEW c \in Conn, Serve(c) PROVE WsTypeOK'
    <2>1. CASE Connect(c) \/ AddOnline(c) \/ Welcome(c)
            \/ RemoveOnline(c) \/ LeaveFails(c) \/ Heartbeat(c)
      BY <2>1 DEF Connect, AddOnline, Welcome, RemoveOnline, LeaveFails, Heartbeat
    <2>2. CASE SetPresence(c) \/ ExpirePresence(c) \/ LeavePresence(c)
      BY <2>2 DEF SetPresence, Written, ExpirePresence, LeavePresence
    <2>3. CASE Disconnect(c) \/ ConnectFails(c)
      BY <2>3 DEF Disconnect, ConnectFails, Strand
    <2>4. CASE AcquireLock(c) \/ SendAcquired(c) \/ ReleaseLock(c)
      BY <2>4 DEF AcquireLock, SendAcquired, ReleaseLock
    <2>5. CASE DeleteLock(c)
      <3>1. (snatched \/ (lock # NoOne /\ StillInUse(c))) \in BOOLEAN
        OBVIOUS
      <3>2. snatched' \in BOOLEAN
        BY <2>5, <3>1 DEF DeleteLock
      <3>3. QED
        BY <2>5, <3>2 DEF DeleteLock
    <2>6. QED
      BY <1>5, <2>1, <2>2, <2>3, <2>4, <2>5 DEF Serve
  <1>6. QED
    BY <1>1, <1>2, <1>3, <1>4, <1>5 DEF WsNext

\* Each step keeps what is known of the lock.
LEMMA LockKept ==
    ASSUME WsTypeOK, LockInv, [WsNext \/ WorkspaceDies]_wvars
    PROVE  LockInv'
  <1> USE UserOfAssumption, NoOneAssumption DEF WsTypeOK, LockInv, Go, lock_vars, presence_vars
  <1>1. CASE UNCHANGED wvars
    BY <1>1 DEF wvars
  <1>2. CASE WorkspaceDies
    BY <1>2 DEF WorkspaceDies
  <1>3. CASE LockExpires
    BY <1>3 DEF LockExpires
  <1>4. ASSUME NEW a \in Analyst, GrantEnds(a) \/ PresenceLapses(a) PROVE LockInv'
    BY <1>4 DEF GrantEnds, PresenceLapses
  <1>5. ASSUME NEW c \in Conn, Serve(c) PROVE LockInv'
    <2>1. CASE Connect(c) \/ AddOnline(c) \/ Welcome(c)
            \/ RemoveOnline(c) \/ LeaveFails(c) \/ Heartbeat(c)
      BY <2>1 DEF Connect, AddOnline, Welcome, RemoveOnline, LeaveFails, Heartbeat
    <2>2. CASE SetPresence(c) \/ ExpirePresence(c) \/ LeavePresence(c)
      BY <2>2 DEF SetPresence, ExpirePresence, LeavePresence
    <2>3. CASE Disconnect(c) \/ ConnectFails(c)
      BY <2>3 DEF Disconnect, ConnectFails
    <2>4. CASE AcquireLock(c)
      BY <2>4 DEF AcquireLock
    <2>5. CASE SendAcquired(c)
      BY <2>5 DEF SendAcquired
    <2>6. CASE ReleaseLock(c)
      BY <2>6 DEF ReleaseLock, Owns
    <2>7. CASE DeleteLock(c)
      <3>1. /\ at[c] \in {"release", "lapsed"} /\ lock' = NoOne /\ told' = told
            /\ \A d \in Conn : at'[d] # "release" /\ (at'[d] = "granted" => at[d] = "granted")
        BY <2>7 DEF DeleteLock
      <3>2. CASE snatched \/ (lock # NoOne /\ StillInUse(c))
        BY <2>7, <3>2 DEF DeleteLock
      <3>3. CASE ~snatched /\ (lock = NoOne \/ ~StillInUse(c))
        <4>1. told = {} /\ \A d \in Conn : at[d] # "granted"
          BY <3>1, <3>3 DEF StillInUse
        <4>2. QED
          BY <3>1, <4>1
      <3>4. QED
        BY <3>2, <3>3
    <2>8. QED
      BY <1>5, <2>1, <2>2, <2>3, <2>4, <2>5, <2>6, <2>7 DEF Serve
  <1>6. QED
    BY <1>1, <1>2, <1>3, <1>4, <1>5 DEF WsNext

\* Each step keeps the watch over keys without a TTL.
LEMMA PresenceKept ==
    ASSUME WsTypeOK, PresenceExpires, [WsNext \/ WorkspaceDies]_wvars
    PROVE  PresenceExpires'
  <1> USE UserOfAssumption DEF WsTypeOK, PresenceExpires, Go, lock_vars, presence_vars
  <1>1. CASE UNCHANGED wvars
    BY <1>1 DEF wvars
  <1>2. CASE WorkspaceDies
    BY <1>2 DEF WorkspaceDies, Strand
  <1>3. CASE LockExpires
    BY <1>3 DEF LockExpires
  <1>4. ASSUME NEW a \in Analyst, GrantEnds(a) \/ PresenceLapses(a) PROVE PresenceExpires'
    BY <1>4 DEF GrantEnds, PresenceLapses
  <1>5. ASSUME NEW c \in Conn, Serve(c) PROVE PresenceExpires'
    <2>1. CASE Connect(c) \/ AddOnline(c) \/ Welcome(c)
            \/ RemoveOnline(c) \/ LeaveFails(c) \/ Heartbeat(c)
      BY <2>1 DEF Connect, AddOnline, Welcome, RemoveOnline, LeaveFails, Heartbeat
    <2>2. CASE SetPresence(c)
      BY <2>2 DEF SetPresence
    <2>3. CASE ExpirePresence(c) \/ LeavePresence(c)
      BY <2>3 DEF ExpirePresence, LeavePresence
    <2>4. CASE Disconnect(c) \/ ConnectFails(c)
      BY <2>4 DEF Disconnect, ConnectFails, Strand
    <2>5. CASE AcquireLock(c) \/ SendAcquired(c) \/ ReleaseLock(c)
      BY <2>5 DEF AcquireLock, SendAcquired, ReleaseLock
    <2>6. CASE DeleteLock(c)
      BY <2>6 DEF DeleteLock
    <2>7. QED
      BY <1>5, <2>1, <2>2, <2>3, <2>4, <2>5, <2>6 DEF Serve
  <1>6. QED
    BY <1>1, <1>2, <1>3, <1>4, <1>5 DEF WsNext

\* Locks and presence stay in the relations that the handlers set up.
THEOREM WorkspaceInvariance == WsSpec => []WsInv
  <1>1. WsInv /\ [WsNext \/ WorkspaceDies]_wvars => WsInv'
    BY WsTypes, LockKept, PresenceKept DEF WsInv
  <1>2. QED
    BY <1>1, WsInitInv, PTL DEF WsSpec

-----------------------------------------------------------------------------
(* The process                                                             *)

\* The parts share a process and nothing else: each of them behaves as it does alone.
THEOREM PartsAreIndependent == ApiSpec => EnSpec /\ SeSpec /\ WsSpec
  <1>1. ApiInit => EnInit /\ SeInit /\ WsInit
    BY DEF ApiInit
  <1>2. [ApiNext]_avars => /\ [EnNext \/ EnrollmentDies]_evars
                          /\ [SeNext \/ SessionsDie]_svars
                          /\ [WsNext \/ WorkspaceDies]_wvars
    BY DEF ApiNext, EnrollmentMoves, SessionsMove, WorkspaceMoves, ApiDies, avars
  <1>3. QED
    BY <1>1, <1>2, PTL DEF ApiSpec, EnSpec, SeSpec, WsSpec
===============================================================================
