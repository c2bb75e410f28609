----------------------------- MODULE DetectionStage -----------------------------
(***************************************************************************)
(* workers/detection_worker.py and detection/engine.py: the consumers of   *)
(* normalized_events run every enabled rule on the event, keep the alerts  *)
(* of the rules that fire in a database session, publish them to           *)
(* alert_events and commit.  Rate counters, threshold windows and          *)
(* suppression keys are in Redis, shared by all consumers; each command is *)
(* a step, so the handlers of two consumers, also of the same entry, mix.  *)
(*                                                                         *)
(* All events are of one host and one user, where suppression and          *)
(* deduplication do their work, and have an event_id: for an empty one,    *)
(* which the API accepts though no agent sends it, ThresholdEvaluator      *)
(* draws a new member on every call.  Time only shows as the expiry of     *)
(* keys.                                                                   *)
(***************************************************************************)
EXTENDS StreamConsumer

CONSTANTS
    Rule,           \* enabled detection rules
    ThresholdRule,  \* those of type threshold; the others are of type pattern
    Threshold,      \* occurrences at which a threshold rule fires
    Rank,           \* severity rank of the alert of each rule
    Tactic,         \* first MITRE tactic of each rule
    Ignored,        \* rules whose alerts a user's suppression rule matches
    NoMatch,        \* pairs <<rule, event>>: conditions or filters not met
    EventOf,        \* event_id of each entry: a retried normalization puts the
                    \* same event in the stream twice
    RateLimit,      \* _RULE_RATE_LIMIT_DEFAULT
    MaxAlerts,      \* _MAX_ALERTS_PER_EVENT
    MaxExpiries     \* bound: expiries explored per suppression key

ASSUME DetectionAssumption ==
    /\ ThresholdRule \cup Ignored \subseteq Rule
    /\ Threshold \in Nat \ {0}
    /\ RateLimit \in Nat
    /\ MaxAlerts \in Nat \ {0}
    /\ MaxExpiries \in Nat

VARIABLES
    rate,       \* rl:{rule}: evaluations counted, as far as RateLimit + 1
    window,     \* threshold:{rule}:{group}: event ids in the sliding window
    quiet,      \* suppression keys that exist
    expiries,   \* history: times each suppression key has expired
    announced,  \* alerts in the alert_events stream
    stored,     \* alerts committed to the database
    phase,      \* per consumer: what its handler does next
    todo,       \* per consumer: rules the loop of run has not reached
    current,    \* per consumer: rule being evaluated and the count it fired with
    drafts,     \* per consumer: alerts flushed in the session, not committed
    outbox      \* per consumer: alerts publish_alerts has still to publish

redis_vars == <<rate, window, quiet, expiries>>
engine_vars == <<phase, todo, current, drafts, outbox>>
dvars == <<vars, redis_vars, announced, stored, engine_vars>>

\* Pattern rules fire without a count.
NoCount == 0
Key == Rule \X (NoCount .. MaxEntries)
Alert == [entry : 1 .. MaxEntries, rule : Rule, count : NoCount .. MaxEntries,
          period : 0 .. MaxExpiries]
KeyOf(a) == <<a.rule, a.count>>
NoRule == <<>>

-----------------------------------------------------------------------------
\* The entry whose handler the consumer runs.
Handling(c, m) ==
    /\ IsHead(c, m)
    /\ m \notin NotDict \cup Poison
    /\ ~returned[c]

\* Leave the consumer loop and the stream as they are.
InHandler == UNCHANGED vars

Begin(c) ==
    /\ phase[c] = "idle"
    /\ \E m \in batch[c] : Handling(c, m)
    /\ phase' = [phase EXCEPT ![c] = "rules"]
    /\ todo' = [todo EXCEPT ![c] = Rule]
    /\ InHandler
    /\ UNCHANGED <<redis_vars, announced, stored, current, drafts, outbox>>

\* The loop goes on to its next rule.
NextRule(c) ==
    /\ current' = [current EXCEPT ![c] = NoRule]
    /\ phase' = [phase EXCEPT ![c] = "rules"]

\* _is_rate_limited: INCR and EXPIRE in one pipeline.  Rules come in no order.
CheckRate(c) ==
    /\ phase[c] = "rules"
    /\ \E r \in todo[c] :
          /\ todo' = [todo EXCEPT ![c] = @ \ {r}]
          /\ rate' = [rate EXCEPT ![r] = Smaller(@ + 1, RateLimit + 1)]
          /\ IF rate'[r] > RateLimit
             THEN UNCHANGED <<phase, current>>
             ELSE /\ phase' = [phase EXCEPT ![c] = "match"]
                  /\ current' = [current EXCEPT ![c] = <<r, NoCount>>]
    /\ InHandler
    /\ UNCHANGED <<window, quiet, expiries, announced, stored, drafts, outbox>>

\* Mutant of CountEvent: the member is a fresh time stamp on every call.
CountCall(r, m) == window' = [window EXCEPT ![r] = @ \cup {Cardinality(@) + 1}]

\* ThresholdEvaluator: the member added to the sorted set is the event id.
CountEvent(r, m) == window' = [window EXCEPT ![r] = @ \cup {EventOf[m]}]

\* evaluate, up to the outcome `fired`.
Match(c) ==
    /\ phase[c] = "match"
    /\ \E m \in batch[c], r \in Rule :
          /\ IsHead(c, m)
          /\ r = current[c][1]
          /\ \/ /\ <<r, EventOf[m]>> \in NoMatch
                /\ NextRule(c)
                /\ UNCHANGED window
             \/ /\ <<r, EventOf[m]>> \notin NoMatch
                /\ r \notin ThresholdRule
                /\ phase' = [phase EXCEPT ![c] = "suppress"]
                /\ UNCHANGED <<window, current>>
             \/ /\ <<r, EventOf[m]>> \notin NoMatch
                /\ r \in ThresholdRule
                /\ CountEvent(r, m)
                /\ LET n == Cardinality(window'[r])
                   IN  IF n >= Threshold
                       THEN /\ phase' = [phase EXCEPT ![c] = "suppress"]
                            /\ current' = [current EXCEPT ![c] = <<r, n>>]
                       ELSE NextRule(c)
    /\ InHandler
    /\ UNCHANGED <<rate, quiet, expiries, announced, stored, todo, drafts, outbox>>

\* Mutant of SetIfAbsent: SET without NX, decided by an earlier EXISTS.
SetAlways(k) == quiet' = quiet \cup {k}

\* check_and_suppress: SET key NX EX; the alert fires if the key was not there.
SetIfAbsent(k) == k \notin quiet /\ quiet' = quiet \cup {k}

\* The alert is flushed; if a user's suppression rule matches it, it is deleted
\* from the session again.
Suppress(c) ==
    /\ phase[c] = "suppress"
    /\ \E m \in batch[c] :
          /\ IsHead(c, m)
          /\ LET k == current[c]
                 a == [entry |-> m, rule |-> k[1], count |-> k[2],
                       period |-> expiries[k]]
             IN  \/ /\ SetIfAbsent(k)
                    /\ drafts' = [drafts EXCEPT ![c] =
                                    IF k[1] \in Ignored THEN @ ELSE @ \cup {a}]
                 \/ /\ k \in quiet
                    /\ UNCHANGED <<quiet, drafts>>
    /\ NextRule(c)
    /\ InHandler
    /\ UNCHANGED <<rate, window, expiries, announced, stored, todo, outbox>>

\* A Redis call of the rule raises, executed or not: logged, next rule.
RuleFails(c) ==
    /\ \/ /\ phase[c] = "rules"
          /\ \E r \in todo[c] :
                /\ todo' = [todo EXCEPT ![c] = @ \ {r}]
                /\ rate' \in {rate, [rate EXCEPT ![r] = Smaller(@ + 1, RateLimit + 1)]}
          /\ UNCHANGED <<window, quiet>>
       \/ /\ phase[c] = "match"
          /\ current[c][1] \in ThresholdRule
          /\ \/ UNCHANGED window
             \/ \E m \in batch[c] : IsHead(c, m) /\ CountEvent(current[c][1], m)
          /\ UNCHANGED <<todo, rate, quiet>>
       \/ /\ phase[c] = "suppress"
          /\ SetIfAbsent(current[c]) \/ UNCHANGED quiet
          /\ UNCHANGED <<todo, rate, window>>
    /\ NextRule(c)
    /\ Fault
    /\ UNCHANGED <<stream_vars, group_vars, pending, stale, loop_vars, handled,
                   acked>>
    /\ UNCHANGED <<expiries, announced, stored, drafts, outbox>>

\* _deduplicate_alerts: the best alert of each host and tactic, at most
\* MaxAlerts of them.  The others stay in the session.
Outranks(a, b) == Rank[a.rule] > Rank[b.rule]
OneBestPerTactic(S, D) ==
    /\ {Tactic[a.rule] : a \in S} = {Tactic[a.rule] : a \in D}
    /\ \A a, b \in S : Tactic[a.rule] = Tactic[b.rule] => a = b
    /\ \A a \in S, b \in D : Tactic[a.rule] = Tactic[b.rule] => ~Outranks(b, a)

Deduplicate(c) ==
    /\ phase[c] = "rules"
    /\ todo[c] = {}
    /\ \E S \in SUBSET drafts[c] :
          /\ OneBestPerTactic(S, drafts[c])
          /\ \E T \in SUBSET S :
                /\ Cardinality(T) = Smaller(Cardinality(S), MaxAlerts)
                /\ outbox' = [outbox EXCEPT ![c] = T]
    /\ phase' = [phase EXCEPT ![c] = "publish"]
    /\ InHandler
    /\ UNCHANGED <<redis_vars, announced, stored, todo, current, drafts>>

\* publish_alerts: one XADD per alert; an error is logged.
Publish(c) ==
    /\ phase[c] = "publish"
    /\ \E a \in outbox[c] :
          /\ outbox' = [outbox EXCEPT ![c] = @ \ {a}]
          /\ announced' = announced \cup {a}
    /\ InHandler
    /\ UNCHANGED <<redis_vars, stored, phase, todo, current, drafts>>

PublishAlertFails(c) ==
    /\ phase[c] = "publish"
    /\ \E a \in outbox[c] : outbox' = [outbox EXCEPT ![c] = @ \ {a}]
    /\ Fault
    /\ UNCHANGED <<stream_vars, group_vars, pending, stale, loop_vars, handled,
                   acked>>
    /\ UNCHANGED <<redis_vars, announced, stored, phase, todo, current, drafts>>

\* Mutant of Commit: the session is closed without a commit.
CloseSession(c) ==
    /\ phase[c] = "publish"
    /\ outbox[c] = {}
    /\ stored' = stored
    /\ drafts' = [drafts EXCEPT ![c] = {}]
    /\ phase' = [phase EXCEPT ![c] = "notify"]
    /\ InHandler
    /\ UNCHANGED <<redis_vars, announced, todo, current, outbox>>

\* Mutant of Commit: the rest of the loop's data is not kept apart.
CommitKeepsOutbox(c) ==
    /\ phase[c] = "publish"
    /\ stored' = stored \cup drafts[c]
    /\ drafts' = [drafts EXCEPT ![c] = {}]
    /\ phase' = [phase EXCEPT ![c] = "notify"]
    /\ InHandler
    /\ UNCHANGED <<redis_vars, announced, todo, current, outbox>>

\* db.commit(): the whole session, also the alerts that were not published.
Commit(c) ==
    /\ phase[c] = "publish"
    /\ outbox[c] = {}
    /\ stored' = stored \cup drafts[c]
    /\ drafts' = [drafts EXCEPT ![c] = {}]
    /\ phase' = [phase EXCEPT ![c] = "notify"]
    /\ InHandler
    /\ UNCHANGED <<redis_vars, announced, todo, current, outbox>>

\* The handler is over, one way or another: the session is closed.
LeaveHandler(c) ==
    /\ phase' = [phase EXCEPT ![c] = "idle"]
    /\ todo' = [todo EXCEPT ![c] = {}]
    /\ current' = [current EXCEPT ![c] = NoRule]
    /\ drafts' = [drafts EXCEPT ![c] = {}]
    /\ outbox' = [outbox EXCEPT ![c] = {}]

\* Tasks are started and the WebSocket messages sent; the handler returns.
Notify(c) ==
    /\ phase[c] = "notify"
    /\ HandlerOk(c)
    /\ LeaveHandler(c)
    /\ UNCHANGED <<redis_vars, announced, stored>>

\* The handler raises: loading the rules, in the commit (executed or not), or
\* in the WebSocket publish after it.
HandlerBreaks(c) ==
    /\ \/ phase[c] \in {"idle", "notify"} /\ UNCHANGED stored
       \/ /\ phase[c] = "publish" /\ outbox[c] = {}
          /\ stored' \in {stored, stored \cup drafts[c]}
    /\ HandlerFails(c)
    /\ LeaveHandler(c)
    /\ UNCHANGED <<redis_vars, announced>>

DHalt(c) ==
    /\ Halt(c)
    /\ LeaveHandler(c)
    /\ UNCHANGED <<redis_vars, announced, stored>>

-----------------------------------------------------------------------------
\* Time.
RateExpires(r) ==
    /\ rate[r] > 0
    /\ rate' = [rate EXCEPT ![r] = 0]
    /\ UNCHANGED <<window, quiet, expiries>>

WindowSlides(r) ==
    /\ \E e \in window[r] : window' = [window EXCEPT ![r] = @ \ {e}]
    /\ UNCHANGED <<rate, quiet, expiries>>

QuietEnds(k) ==
    /\ k \in quiet
    /\ expiries[k] < MaxExpiries
    /\ quiet' = quiet \ {k}
    /\ expiries' = [expiries EXCEPT ![k] = @ + 1]
    /\ UNCHANGED <<rate, window>>

KeyExpires ==
    /\ \/ \E r \in Rule : RateExpires(r) \/ WindowSlides(r)
       \/ \E k \in quiet : QuietEnds(k)
    /\ InHandler
    /\ UNCHANGED <<announced, stored, engine_vars>>

\* What the stage leaves to the consumer loop and the stream.
LoopOnly ==
    /\ \/ XAdd
       \/ \E m \in pending : GoIdle(m)
       \/ \E c \in Consumer :
             \/ Start(c) \/ Poll(c) \/ Reclaim(c) \/ PoisonRaises(c) \/ Ack(c)
             \/ PollFails(c) \/ ReclaimFails(c) \/ AckFails(c)
    /\ UNCHANGED <<redis_vars, announced, stored, engine_vars>>

DInit ==
    /\ Init
    /\ rate = [r \in Rule |-> 0]
    /\ window = [r \in Rule |-> {}]
    /\ quiet = {}
    /\ expiries = [k \in Key |-> 0]
    /\ announced = {}
    /\ stored = {}
    /\ phase = [c \in Consumer |-> "idle"]
    /\ todo = [c \in Consumer |-> {}]
    /\ current = [c \in Consumer |-> NoRule]
    /\ drafts = [c \in Consumer |-> {}]
    /\ outbox = [c \in Consumer |-> {}]

DNext ==
    \/ LoopOnly
    \/ KeyExpires
    \/ \E c \in Consumer :
          \/ Begin(c) \/ CheckRate(c) \/ Match(c) \/ Suppress(c) \/ RuleFails(c)
          \/ Deduplicate(c) \/ Publish(c) \/ PublishAlertFails(c) \/ Commit(c)
          \/ Notify(c) \/ HandlerBreaks(c) \/ DHalt(c)

DSpec == DInit /\ [][DNext]_dvars

-----------------------------------------------------------------------------
\* Every variable has its type, and a handler's data is there while it runs.
DTypeOK ==
    /\ TypeOK
    /\ rate \in [Rule -> 0 .. RateLimit + 1]
    /\ window \in [Rule -> SUBSET {EventOf[m] : m \in Entry}]
    /\ quiet \subseteq Key
    /\ expiries \in [Key -> 0 .. MaxExpiries]
    /\ announced \subseteq Alert
    /\ stored \subseteq Alert
    /\ phase \in [Consumer -> {"idle", "rules", "match", "suppress", "publish",
                               "notify"}]
    /\ todo \in [Consumer -> SUBSET Rule]
    /\ current \in [Consumer -> Key \cup {NoRule}]
    /\ drafts \in [Consumer -> SUBSET Alert]
    /\ outbox \in [Consumer -> SUBSET Alert]
    /\ \A c \in Consumer :
          /\ outbox[c] \subseteq drafts[c]
          /\ phase[c] # "idle" => batch[c] # {}

\* The alerts that are committed, or still in the session of a handler.
Alerts == stored \cup UNION {drafts[c] : c \in Consumer}

\* The events the group has delivered so far.
DeliveredEvents == {EventOf[m] : m \in Delivered}

\* However many consumers and retries race for a suppression key, two alerts of one rule
\* are separated by an expiry of their key, or are of a threshold rule that fired with two
\* counts: evaluate() puts the count into the key, so that each count of a window fires.
OneAlertPerRuleCountAndPeriod ==
    \A a, b \in Alerts : a.rule = b.rule /\ a # b =>
        \/ a.rule \in ThresholdRule /\ a.count # b.count
        \/ a.count = b.count /\ a.period # b.period

\* build_suppression_key: "Two alerts from the same rule + host within the suppression
\* window share the same key, so only the first one fires." Until a key expires, a rule
\* has one alert.
OnlyFirstFires ==
    (\A k \in Key : expiries[k] = 0) =>
        \A a, b \in Alerts : a.rule = b.rule => a = b

\* A threshold alert counted that many different events: an event delivered
\* again, or published twice by the stage before, is not counted twice.
CountsDifferentEvents ==
    \A a \in Alerts :
        a.rule \in ThresholdRule =>
            Threshold <= a.count /\ a.count <= Cardinality(DeliveredEvents)

\* While nothing fails, an existing suppression key silences its rule only
\* because of an alert that is stored, or still in a handler's session: two
\* handlers of one entry do not suppress each other.
QuietKeysHaveAlerts ==
    faults = 0 =>
        \A k \in quiet : k[1] \notin Ignored =>
            \E a \in Alerts : KeyOf(a) = k /\ a.period = expiries[k]

\* When no alert of the session has yet been lost, whatever was published is
\* in the database, in the session of a running handler, or its entry failed.
AnnouncedIsStored ==
    faults = 0 => announced \subseteq Alerts

\* SuppressionStore: "First alert for a (rule, host) pair fires and sets a
\* suppression key".  Once every entry is dealt with, a key exists only if its
\* alert fired.
FirstAlertFires ==
    (pending = {} /\ \A c \in Consumer : phase[c] = "idle") =>
        \A k \in quiet : \E a \in stored : KeyOf(a) = k
=============================================================================
