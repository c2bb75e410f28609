------------------------------- MODULE Sessions -------------------------------
(***************************************************************************)
(* The sessions of one user: logins with a password and maybe a backup     *)
(* code, rotation of refresh tokens, logout, and the two ways to change a  *)
(* password.  A call is one transaction: it reads what is committed, and   *)
(* its writes take effect at Commit, or never.  Row locks need no          *)
(* variable: the updates are made whatever they overwrite, so they take    *)
(* effect in the order of the commits; the bulk revocation skips rows that *)
(* are revoked already.  Calls with a wrong password, an unknown or an     *)
(* expired token are refused and change nothing.  A token, a link and a    *)
(* password are named by the call that made them.                          *)
(***************************************************************************)
CONSTANTS
    Call,       \* each call is made at most once
    Code,       \* the backup codes of the user
    NoCall      \* the password and session of before; no token, link or code

ASSUME NoCallAssumption == NoCall \notin Call \cup Code

ASSUME CodeAssumption == Code \cap Call = {}

VARIABLES
    hash,       \* users.password_hash: whose password, and if it needs_rehash
    codes,      \* users.mfa_backup_codes
    link,       \* users.password_reset_token
    valid,      \* refresh tokens that are stored and not revoked
    kind,       \* what each call is
    stage,      \* its next step
    spends,     \* the refresh token, reset link or backup code it presents
    found,      \* hash and codes as the call read them
    ending,     \* the tokens its bulk revocation met
    changed,    \* the last call that committed a new password
    since,      \* for each session: changed, when its login began
    mixed,      \* calls whose session was in flight together with a change
    met         \* pairs of calls that were in flight at the same time

user_vars == <<hash, codes, link>>
call_vars == <<kind, stage, spends, found, ending>>
history == <<changed, since, mixed, met>>
svars == <<user_vars, valid, call_vars, history>>

Hash == [by : Call \cup {NoCall}, outdated : BOOLEAN]

Open(c) == stage[c] \in {"revoke", "commit"}

Committed(c) == stage[c] = "done"

Changing(c) == kind[c] \in {"change", "reset"}

Receive(c, what, presented, first) ==
    /\ stage[c] = "idle"
    /\ kind' = [kind EXCEPT ![c] = what]
    /\ stage' = [stage EXCEPT ![c] = first]
    /\ spends' = [spends EXCEPT ![c] = presented]
    /\ found' = [found EXCEPT ![c] = [hash |-> hash, codes |-> codes]]
    /\ met' = met \cup {{c, d} : d \in {b \in Call : Open(b)}}
    /\ UNCHANGED <<user_vars, valid, ending, changed>>

\* The call is about a session that logged in when `then' was the last change.
OfSession(c, then, was_mixed) ==
    /\ since' = [since EXCEPT ![c] = then]
    /\ mixed' = IF was_mixed \/ \E d \in Call : Open(d) /\ Changing(d)
                THEN mixed \cup {c} ELSE mixed

ChangesPassword(c) ==
    /\ mixed' = mixed \cup {d \in Call : Open(d)}
    /\ UNCHANGED since

-----------------------------------------------------------------------------
(* Calls                                                                   *)

\* The password is right, and so is the backup code if one is presented instead of
\* a TOTP code.
Login(c, code) ==
    /\ code \in codes \cup {NoCall}
    /\ Receive(c, "login", code, "commit")
    /\ OfSession(c, changed, FALSE)

\* stored.is_valid
Refresh(c, k) ==
    /\ k \in valid
    /\ Receive(c, "refresh", k, "commit")
    /\ OfSession(c, since[k], k \in mixed)

\* stored.revoked_at is None
Logout(c, k) ==
    /\ k \in valid
    /\ Receive(c, "logout", k, "commit")
    /\ UNCHANGED <<since, mixed>>

\* The mail with the link leaves before the commit; the link works after it.
ForgotPassword(c) ==
    /\ Receive(c, "forgot", NoCall, "commit")
    /\ UNCHANGED <<since, mixed>>

ResetPassword(c) ==
    /\ link # NoCall
    /\ Receive(c, "reset", link, "revoke")
    /\ ChangesPassword(c)

ChangePassword(c) ==
    /\ Receive(c, "change", NoCall, "revoke")
    /\ ChangesPassword(c)

\* Mutant of RevokedSessions: the caller's own session is spared.
RevokedAllButOne == IF valid = {} THEN {} ELSE valid \ {CHOOSE k \in valid : TRUE}

\* UPDATE ... WHERE user_id AND revoked_at IS NULL
RevokedSessions == valid

RevokeAll(c) ==
    /\ stage[c] = "revoke"
    /\ ending' = [ending EXCEPT ![c] = RevokedSessions]
    /\ stage' = [stage EXCEPT ![c] = "commit"]
    /\ UNCHANGED <<user_vars, valid, kind, spends, found, history>>

-----------------------------------------------------------------------------
(* What a call commits                                                     *)

Issued(c) == IF kind[c] \in {"login", "refresh"} THEN {c} ELSE {}

\* Mutant of Revoked: refresh issues a token and leaves the old one.
RevokedUnlessRotated(c) == ending[c] \cup (IF kind[c] = "logout" THEN {spends[c]} ELSE {})

Revoked(c) ==
    ending[c] \cup (IF kind[c] \in {"refresh", "logout"} THEN {spends[c]} ELSE {})

\* Mutant of NewHash: the rehash is done at each login, from the password it verified.
NewHashAlways(c) ==
    CASE Changing(c)       -> [by |-> c, outdated |-> FALSE]
      [] kind[c] = "login" -> [by |-> found[c].hash.by, outdated |-> FALSE]
      [] OTHER             -> hash

\* A login stores its password anew if the hash it read is outdated.
Rehashes(c) == kind[c] = "login" /\ found[c].hash.outdated

NewHash(c) ==
    CASE Changing(c) -> [by |-> c, outdated |-> FALSE]
      [] Rehashes(c) -> [by |-> found[c].hash.by, outdated |-> FALSE]
      [] OTHER       -> hash

\* The list of codes is replaced by the one that was read, less the code.
NewCodes(c) == IF spends[c] \in Code THEN found[c].codes \ {spends[c]} ELSE codes

NewLink(c) ==
    CASE kind[c] = "forgot" -> c
      [] kind[c] = "reset"  -> NoCall
      [] OTHER              -> link

CommitCall(c) ==
    /\ stage[c] = "commit"
    /\ stage' = [stage EXCEPT ![c] = "done"]
    /\ valid' = (valid \ Revoked(c)) \cup Issued(c)
    /\ hash' = NewHash(c)
    /\ codes' = NewCodes(c)
    /\ link' = NewLink(c)
    /\ changed' = IF Changing(c) THEN c ELSE changed
    /\ UNCHANGED <<kind, spends, found, ending, since, mixed, met>>

\* Any step may raise: the transaction is rolled back.
Refuse(c) ==
    /\ Open(c)
    /\ stage' = [stage EXCEPT ![c] = "refused"]
    /\ UNCHANGED <<user_vars, valid, kind, spends, found, ending, history>>

\* The API process dies: PostgreSQL rolls every open transaction back.
SessionsDie ==
    /\ stage' = [c \in Call |-> IF Open(c) THEN "refused" ELSE stage[c]]
    /\ UNCHANGED <<user_vars, valid, kind, spends, found, ending, history>>

-----------------------------------------------------------------------------
SeInit ==
    /\ hash \in [by : {NoCall}, outdated : BOOLEAN]
    /\ codes = Code
    /\ link = NoCall
    /\ valid = {}
    /\ kind = [c \in Call |-> "none"]
    /\ stage = [c \in Call |-> "idle"]
    /\ spends = [c \in Call |-> NoCall]
    /\ found = [c \in Call |-> [hash |-> hash, codes |-> codes]]
    /\ ending = [c \in Call |-> {}]
    /\ changed = NoCall
    /\ since = [c \in Call |-> NoCall]
    /\ mixed = {}
    /\ met = {}

Arrives(c) ==
    \/ \E code \in Code \cup {NoCall} : Login(c, code)
    \/ \E k \in Call : Refresh(c, k) \/ Logout(c, k)
    \/ ForgotPassword(c) \/ ResetPassword(c) \/ ChangePassword(c)

Proceeds(c) == RevokeAll(c) \/ CommitCall(c) \/ Refuse(c)

SeNext == \E c \in Call : Arrives(c) \/ Proceeds(c)

SeSpec == SeInit /\ [][SeNext \/ SessionsDie]_svars

-----------------------------------------------------------------------------
(***************************************************************************)
(* Properties                                                              *)
(***************************************************************************)

\* Every variable has its type.
SeTypeOK ==
    /\ hash \in Hash
    /\ codes \subseteq Code
    /\ link \in Call \cup {NoCall}
    /\ valid \subseteq Call
    /\ kind \in [Call -> {"none", "login", "refresh", "logout", "forgot", "reset", "change"}]
    /\ stage \in [Call -> {"idle", "revoke", "commit", "done", "refused"}]
    /\ spends \in [Call -> Call \cup Code \cup {NoCall}]
    /\ found \in [Call -> [hash : Hash, codes : SUBSET Code]]
    /\ ending \in [Call -> SUBSET Call]
    /\ changed \in Call \cup {NoCall}
    /\ since \in [Call -> Call \cup {NoCall}]
    /\ mixed \subseteq Call
    /\ met \subseteq SUBSET Call

\* A change of the password ends all sessions: a refresh token that is valid belongs to
\* a session that logged in after the last change, however often it was rotated,
\* unless a call of the session was in flight together with a change.
SessionsEndAtReset == \A k \in valid : since[k] = changed \/ k \in mixed

\* A refresh token, a reset link and a backup code are honoured once: two calls that
\* spent the same one met, or the code was restored by a login that met one of them
\* and wrote back the list of codes it had read.
RestoredCode(c, d) ==
    /\ spends[c] \in Code
    /\ \E e \in Call : spends[e] \in Code /\ ({c, e} \in met \/ {d, e} \in met)

SpentOnce ==
    \A c, d \in Call :
        /\ Committed(c) /\ Committed(d)
        /\ spends[c] = spends[d] /\ spends[c] # NoCall
        => c = d \/ {c, d} \in met \/ RestoredCode(c, d)

\* The password is the one of the last change, unless a login that had read an outdated
\* hash was in flight together with a change and stored the old password again.
ChangedPasswordStays ==
    \/ hash.by = changed
    \/ \E c \in Call : Committed(c) /\ Rehashes(c) /\ c \in mixed
=============================================================================
