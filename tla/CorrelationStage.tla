---------------------------- MODULE CorrelationStage ----------------------------
(***************************************************************************)
(* workers/correlation_worker.py, correlation/engine.py and                *)
(* correlation/grouping.py: the consumers of normalized_events in the      *)
(* correlate group look for the investigation group an event belongs to,   *)
(* create or update it, and publish a correlated event.  Groups live in    *)
(* Redis: mapping keys (correlation id, process tree, session -> group), a *)
(* metadata hash, a sorted set of event ids and a snapshot per event.      *)
(* Every command is a step, so the handlers of two consumers mix.          *)
(*                                                                         *)
(* The temporal windows and the rules only decide the score of the event;  *)
(* any score of Scores may come out.  Mapping keys are written once and    *)
(* expire _GROUP_TTL_SECONDS later; the hash and the sorted set, renewed   *)
(* by each event, outlive them.                                            *)
(***************************************************************************)
EXTENDS StreamConsumer, Sequences

CONSTANTS
    NoId,           \* no group
    Key,            \* correlation ids, process tree ids and session ids
    KeysOf,         \* per entry: its keys in the order they are looked up, the
                    \* correlation id (set by enrichment) first
    Scores,         \* what score_match may return
    Significant,    \* score from which an event is put in a group (10)
    MaxExpiries     \* bound: expiries of mapping keys explored

ASSUME CorrelationAssumption ==
    /\ KeysOf \in [1 .. MaxEntries -> Seq(Key) \ {<<>>}]
    /\ Scores \subseteq 0 .. 100
    /\ Significant \in 1 .. 100
    /\ NoId \notin Key

VARIABLES
    mapping,    \* cid:, ptid:, sid: the group of each key, or NoId
    groups,     \* grp:{id}: the metadata hash
    members,    \* grp:{id}:events, as pairs <<id, entry>>
    snapshots,  \* grp:{id}:snap:{event}, as pairs <<id, entry>>
    correlated, \* the correlated_events stream
    at,         \* per consumer: the command its handler does next
    pos,        \* per consumer: key of the event being looked up or written
    inv,        \* per consumer: investigation id of the event
    score,      \* per consumer: score of the event
    copy,       \* per consumer: the hash as HGETALL returned it
    ignored,    \* history: entries a handler found not significant
    overlapped, \* history: two handlers have been at work at the same time
    expiries    \* mapping keys expired so far

redis_vars == <<mapping, groups, members, snapshots>>
handler_vars == <<at, pos, inv, score, copy>>
cvars == <<vars, redis_vars, correlated, handler_vars, ignored, overlapped, expiries>>

NoGroup == [merged |-> {}, score |-> -1]
EmptyGroup == [merged |-> {}, score |-> 0]

\* The metadata of a group: the events whose entities and rules were merged into
\* it, and the score.
Group == [merged : SUBSET (1 .. MaxEntries), score : -1 .. 100]

-----------------------------------------------------------------------------
\* make_investigation_id: a function of the correlation id, which stands for it.
MakeId(m) == Head(KeysOf[m])

Handling(c, m) ==
    /\ IsHead(c, m)
    /\ m \notin NotDict \cup Poison
    /\ ~returned[c]

\* The handler of c is about to do the command of phase p for entry m.
Doing(c, m, p) ==
    /\ at[c] = p
    /\ Handling(c, m)

GoTo(c, p) == at' = [at EXCEPT ![c] = p]

\* The next command is still of this handler: the stream does not change.
Working == UNCHANGED <<vars, ignored, overlapped, expiries>>

\* The handler is over, one way or another.
LeaveHandler(c) ==
    /\ at' = [at EXCEPT ![c] = "idle"]
    /\ pos' = [pos EXCEPT ![c] = 1]
    /\ inv' = [inv EXCEPT ![c] = NoId]
    /\ score' = [score EXCEPT ![c] = 0]
    /\ copy' = [copy EXCEPT ![c] = NoGroup]

\* process_event: windows, context, match and score.
Match(c) ==
    \E m \in batch[c], s \in Scores :
        /\ Doing(c, m, "idle")
        /\ s >= Significant
        /\ GoTo(c, "resolve")
        /\ score' = [score EXCEPT ![c] = s]
        /\ overlapped' = (overlapped \/ \E d \in Consumer \ {c} : at[d] # "idle")
        /\ UNCHANGED <<vars, redis_vars, correlated, pos, inv, copy, ignored, expiries>>

\* A score below the threshold: nothing is stored, the handler returns.
Insignificant(c) ==
    \E m \in batch[c], s \in Scores :
        /\ Doing(c, m, "idle")
        /\ s < Significant
        /\ HandlerOk(c)
        /\ ignored' = ignored \cup {m}
        /\ UNCHANGED <<redis_vars, correlated, handler_vars, overlapped, expiries>>

\* resolve_investigation_id: GET of each key in turn; the first that answers is
\* the group.  When none does, the event founds one.
Resolve(c) ==
    \E m \in batch[c] :
        /\ Doing(c, m, "resolve")
        /\ LET found == mapping[KeysOf[m][pos[c]]] IN
           \/ /\ found # NoId
              /\ inv' = [inv EXCEPT ![c] = found]
              /\ GoTo(c, "read")
              /\ UNCHANGED pos
           \/ /\ found = NoId
              /\ pos[c] < Len(KeysOf[m])
              /\ pos' = [pos EXCEPT ![c] = @ + 1]
              /\ UNCHANGED <<at, inv>>
           \/ /\ found = NoId
              /\ pos[c] = Len(KeysOf[m])
              /\ inv' = [inv EXCEPT ![c] = MakeId(m)]
              /\ pos' = [pos EXCEPT ![c] = 1]
              /\ GoTo(c, "map")
        /\ Working
        /\ UNCHANGED <<redis_vars, correlated, score, copy>>

MapKey(c, m) == mapping' = [mapping EXCEPT ![KeysOf[m][pos[c]]] = inv[c]]

\* _write_mapping_keys: one SET per key.
WriteMapping(c) ==
    \E m \in batch[c] :
        /\ Doing(c, m, "map")
        /\ MapKey(c, m)
        /\ IF pos[c] < Len(KeysOf[m])
           THEN pos' = [pos EXCEPT ![c] = @ + 1] /\ UNCHANGED at
           ELSE GoTo(c, "init") /\ UNCHANGED pos
        /\ Working
        /\ UNCHANGED <<groups, members, snapshots, correlated, inv, score, copy>>

\* _init_group: HSET of all fields, whatever the hash holds.
InitGroup(c) ==
    \E m \in batch[c] :
        /\ Doing(c, m, "init")
        /\ groups' = [groups EXCEPT ![inv[c]] = EmptyGroup]
        /\ GoTo(c, "read")
        /\ Working
        /\ UNCHANGED <<mapping, members, snapshots, correlated, pos, inv, score, copy>>

\* _update_group: HGETALL; without a hash it returns.
ReadGroup(c) ==
    \E m \in batch[c] :
        /\ Doing(c, m, "read")
        /\ copy' = [copy EXCEPT ![c] = groups[inv[c]]]
        /\ GoTo(c, IF groups[inv[c]] = NoGroup THEN "index" ELSE "write")
        /\ Working
        /\ UNCHANGED <<redis_vars, correlated, pos, inv, score>>

\* Mutant of MergeInto: the lists are built from the event alone.
MergeLatest(g, m, s) == [merged |-> {m}, score |-> Smaller(Larger(g.score, s), 100)]

MergeInto(g, m, s) == [merged |-> g.merged \cup {m},
                       score |-> Smaller(Larger(g.score, s), 100)]

\* _update_group: HSET of the merged fields.
WriteGroup(c) ==
    \E m \in batch[c] :
        /\ Doing(c, m, "write")
        /\ groups' = [groups EXCEPT ![inv[c]] = MergeInto(copy[c], m, score[c])]
        /\ GoTo(c, "index")
        /\ Working
        /\ UNCHANGED <<mapping, members, snapshots, correlated, pos, inv, score, copy>>

\* Mutant of AddEvent: the event is put in the sorted set of its own id.
AddEventToOwnGroup(c) ==
    \E m \in batch[c] :
        /\ Doing(c, m, "index")
        /\ members' = members \cup {<<MakeId(m), m>>}
        /\ GoTo(c, "snap")
        /\ Working
        /\ UNCHANGED <<mapping, groups, snapshots, correlated, pos, inv, score, copy>>

\* add_event_to_group: ZADD (the cap of _MAX_GROUP_EVENTS is not reached).
AddEvent(c) ==
    \E m \in batch[c] :
        /\ Doing(c, m, "index")
        /\ members' = members \cup {<<inv[c], m>>}
        /\ GoTo(c, "snap")
        /\ Working
        /\ UNCHANGED <<mapping, groups, snapshots, correlated, pos, inv, score, copy>>

\* store_event_snapshot
StoreSnapshot(c) ==
    \E m \in batch[c] :
        /\ Doing(c, m, "snap")
        /\ snapshots' = snapshots \cup {<<inv[c], m>>}
        /\ GoTo(c, "publish")
        /\ Working
        /\ UNCHANGED <<mapping, groups, members, correlated, pos, inv, score, copy>>

Message(c, m) == [inv |-> inv[c], event |-> m, score |-> score[c]]

\* publish_correlated_event; the handler returns.
PublishCorrelated(c) ==
    \E m \in batch[c] :
        /\ Doing(c, m, "publish")
        /\ correlated' = correlated \cup {Message(c, m)}
        /\ HandlerOk(c)
        /\ LeaveHandler(c)
        /\ UNCHANGED <<redis_vars, ignored, overlapped, expiries>>

\* The effect of the command the handler was at, for the errors that leave it
\* unknown whether Redis executed it.
CommandDone(c, m) ==
    \/ /\ at[c] = "map"
       /\ MapKey(c, m)
       /\ UNCHANGED <<groups, members, snapshots, correlated>>
    \/ /\ at[c] = "init"
       /\ groups' = [groups EXCEPT ![inv[c]] = EmptyGroup]
       /\ UNCHANGED <<mapping, members, snapshots, correlated>>
    \/ /\ at[c] = "write"
       /\ groups' = [groups EXCEPT ![inv[c]] = MergeInto(copy[c], m, score[c])]
       /\ UNCHANGED <<mapping, members, snapshots, correlated>>
    \/ /\ at[c] = "index"
       /\ members' = members \cup {<<inv[c], m>>}
       /\ UNCHANGED <<mapping, groups, snapshots, correlated>>
    \/ /\ at[c] = "snap"
       /\ snapshots' = snapshots \cup {<<inv[c], m>>}
       /\ UNCHANGED <<mapping, groups, members, correlated>>
    \/ /\ at[c] = "publish"
       /\ correlated' = correlated \cup {Message(c, m)}
       /\ UNCHANGED redis_vars

\* Mutant of CommandFails: an error of Redis is logged and the handler returns.
ErrorSwallowed(c) ==
    /\ at[c] # "idle"
    /\ UNCHANGED <<redis_vars, correlated>>
    /\ HandlerOk(c)
    /\ LeaveHandler(c)
    /\ UNCHANGED <<ignored, overlapped, expiries>>

\* A command raises: so does the handler, and the entry stays in the PEL.
CommandFails(c) ==
    /\ \/ UNCHANGED <<redis_vars, correlated>>
       \/ \E m \in batch[c] : Handling(c, m) /\ CommandDone(c, m)
    /\ HandlerFails(c)
    /\ LeaveHandler(c)
    /\ UNCHANGED <<ignored, overlapped, expiries>>

CHalt(c) ==
    /\ Halt(c)
    /\ LeaveHandler(c)
    /\ UNCHANGED <<redis_vars, correlated, ignored, overlapped, expiries>>

\* A mapping key reaches its TTL, which nothing renews.
MappingExpires ==
    /\ expiries < MaxExpiries
    /\ expiries' = expiries + 1
    /\ \E k \in Key :
          /\ mapping[k] # NoId
          /\ mapping' = [mapping EXCEPT ![k] = NoId]
    /\ UNCHANGED <<vars, groups, members, snapshots, correlated, handler_vars, ignored,
                   overlapped>>

\* What the stage leaves to the consumer loop and the stream.
LoopOnly ==
    /\ \/ XAdd
       \/ \E m \in pending : GoIdle(m)
       \/ \E c \in Consumer :
             \/ Start(c) \/ Poll(c) \/ Reclaim(c) \/ PoisonRaises(c) \/ Ack(c)
             \/ PollFails(c) \/ ReclaimFails(c) \/ AckFails(c)
    /\ UNCHANGED <<redis_vars, correlated, handler_vars, ignored, overlapped, expiries>>

CInit ==
    /\ Init
    /\ mapping = [k \in Key |-> NoId]
    /\ groups = [i \in Key |-> NoGroup]
    /\ members = {}
    /\ snapshots = {}
    /\ correlated = {}
    /\ at = [c \in Consumer |-> "idle"]
    /\ pos = [c \in Consumer |-> 1]
    /\ inv = [c \in Consumer |-> NoId]
    /\ score = [c \in Consumer |-> 0]
    /\ copy = [c \in Consumer |-> NoGroup]
    /\ ignored = {}
    /\ overlapped = FALSE
    /\ expiries = 0

CNext ==
    \/ LoopOnly
    \/ MappingExpires
    \/ \E c \in Consumer :
          \/ Match(c) \/ Insignificant(c) \/ Resolve(c) \/ WriteMapping(c)
          \/ InitGroup(c) \/ ReadGroup(c) \/ WriteGroup(c) \/ AddEvent(c)
          \/ StoreSnapshot(c) \/ PublishCorrelated(c) \/ CommandFails(c) \/ CHalt(c)

CSpec == CInit /\ [][CNext]_cvars

-----------------------------------------------------------------------------
\* Every variable has its type.
HandlerTypeOK ==
    /\ at \in [Consumer -> {"idle", "resolve", "map", "init", "read", "write", "index",
                            "snap", "publish"}]
    /\ pos \in [Consumer -> Nat \ {0}]
    /\ inv \in [Consumer -> Key \cup {NoId}]
    /\ score \in [Consumer -> 0 .. 100]
    /\ copy \in [Consumer -> Group]

RedisTypeOK ==
    /\ mapping \in [Key -> Key \cup {NoId}]
    /\ groups \in [Key -> Group]
    /\ members \subseteq Key \X (1 .. MaxEntries)
    /\ snapshots \subseteq Key \X (1 .. MaxEntries)
    /\ correlated \subseteq [inv : Key, event : 1 .. MaxEntries, score : 0 .. 100]

CTypeOK ==
    /\ TypeOK
    /\ HandlerTypeOK
    /\ RedisTypeOK
    /\ ignored \subseteq 1 .. MaxEntries
    /\ overlapped \in BOOLEAN
    /\ expiries \in Nat

\* An entry of correlated_events can be worked on by whoever reads it: the event is
\* in the sorted set of the group the entry names, and its snapshot is stored,
\* although retries may find another group than the attempt before.
PublishedIsReadable ==
    \A x \in correlated :
        <<x.inv, x.event>> \in members /\ <<x.inv, x.event>> \in snapshots

\* An acknowledged event was found not significant, or it was published with a
\* group: crashes and claims between the commands lose no event.
AckedIsCorrelated ==
    \A m \in acked \ NotDict : m \in ignored \/ \E x \in correlated : x.event = m

\* While no two handlers overlap, nothing fails and no mapping key expires, the
\* metadata of a group holds every event published with it and no lower score:
\* what the read-modify-write of the hash relies on.
Calm == ~overlapped /\ faults = 0 /\ expiries = 0

CalmGroupsAreWhole ==
    Calm => \A x \in correlated :
                /\ x.event \in groups[x.inv].merged
                /\ x.score <= groups[x.inv].score

\* _GROUP_TTL_SECONDS: "expire investigation state after 7 days of inactivity", so
\* that slow campaigns do not "lose their correlation history mid-investigation":
\* the metadata of a live group never loses an event.
HistoryKept ==
    [][\A i \in Key :
          groups'[i] = NoGroup \/ groups[i].merged \subseteq groups'[i].merged]_cvars

\* CIInv is what CorrelationStageProofs proves inductive with IInv: a completed
\* entry is ignored or published, and a running handler has an entry at the head
\* of its batch and the effects of the commands behind it.
OnTrack(c) ==
    \/ at[c] = "idle" /\ pos[c] = 1
    \/ /\ at[c] # "idle"
       /\ \E m \in batch[c] :
             /\ Handling(c, m)
             /\ at[c] \in {"resolve", "map"} => pos[c] \in 1 .. Len(KeysOf[m])
             /\ at[c] # "resolve" => inv[c] \in Key
             /\ at[c] \in {"snap", "publish"} => <<inv[c], m>> \in members
             /\ at[c] = "publish" => <<inv[c], m>> \in snapshots

CIInv ==
    /\ PublishedIsReadable
    /\ \A m \in handled : m \in ignored \/ \E x \in correlated : x.event = m
    /\ \A c \in Consumer : OnTrack(c)
=============================================================================
