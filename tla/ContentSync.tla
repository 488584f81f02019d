---------------------------- MODULE ContentSync ----------------------------
(* How a replica keeps its compiled content policies in step with the      *)
(* database.  A policy is replaced in one transaction that also queues an   *)
(* invalidation event; each replica boots from a full load, then two tasks  *)
(* keep it current: the consumer of the events and the periodic             *)
(* reconciliation.  A load is five statements without a transaction, the    *)
(* last three at once, so a replacement can commit between any two of them. *)
(*   src/content_policy/{repository,service,snapshot,invalidation}.rs,      *)
(*   src/main.rs                                                            *)
EXTENDS Integers, Sequences

CONSTANTS
  Scopes,       \* the (authority, scope_id) pairs
  NoSnapshot,         \* no snapshot
  Torn,         \* patterns, surfaces or actions whose rules were replaced
  MaxVersion,   \* bound: replacements of one scope
  MaxUpsets     \* bound: crashes, lost records and database errors

ASSUME SyncAssumption == /\ MaxVersion \in Nat \ {0}
                         /\ MaxUpsets \in Nat
                         /\ NoSnapshot \notin Int /\ Torn \notin Int

VARIABLES
  policy,     \* content_policy rows: version (0: no row) and enabled
  outbox,     \* committed invalidations the relay has not published
  topic,      \* published invalidations
  slot,       \* PolicySnapshotStore: last version and what is shown
  mode,       \* of the replica: bootstrapping or up
  load,       \* the load under way in each task
  position,   \* the consumer's committed offset in the topic
  upsets

syncVars == <<policy, outbox, topic, slot, mode, load, position, upsets>>

Tasks == {"event", "sweep"}
Answers == 1 .. 3    \* to the queries for patterns, surfaces and actions
Versions == 0 .. MaxVersion
Contents == [rules : Versions, parts : [Answers -> Versions]]
Invalidations == [scope : Scopes, version : Versions]

EmptySlot == [last |-> 0, shows |-> NoSnapshot]
Looking(at, rows, todo) ==
  [at |-> at, rows |-> rows, rules |-> <<>>, parts |-> <<>>, todo |-> todo]
NoLoad == Looking("idle", <<>>, {})

(* ------------------------------ the store ----------------------------- *)
Stored(v, content) == [last |-> v, shows |-> content]

\* Slip: replace without the comparison of versions.
ReplaceUnordered(s, v, content) == Stored(v, content)

\* replace: an older version is stale, the same one is unchanged or stale.
Replace(s, v, content) ==
  IF v <= slot[s].last THEN slot[s] ELSE Stored(v, content)

\* remove: keeps the version, so that an older one stays stale.
Remove(s, v) ==
  IF v < slot[s].last THEN slot[s] ELSE Stored(v, NoSnapshot)

Read(t, s) == [rules |-> load[t].rules[s],
               parts |-> [n \in Answers |-> load[t].parts[n][s]]]

\* Slip: a sweep or an event that leaves disabled policies in place.
PublishesEnabled(t, s) ==
  LET row == load[t].rows[s] IN
  IF row.enabled THEN Replace(s, row.version, Read(t, s)) ELSE slot[s]

Publishes(t, s) ==
  LET row == load[t].rows[s] IN
  IF row.enabled THEN Replace(s, row.version, Read(t, s))
                 ELSE Remove(s, row.version)

Loaded(s) == slot[s].shows # NoSnapshot

(* --------------------------- the database ----------------------------- *)
ReplacePolicy(s) ==
  /\ policy[s].version < MaxVersion
  /\ \E on \in BOOLEAN :
       policy' = [policy EXCEPT ![s] = [version |-> policy[s].version + 1,
                                        enabled |-> on]]
  /\ outbox' = outbox \cup {[scope |-> s, version |-> policy[s].version + 1]}
  /\ UNCHANGED <<topic, slot, mode, load, position, upsets>>

Publish ==
  /\ \E e \in outbox : /\ topic' = topic \o <<e>>
                       /\ outbox' = outbox \ {e}
  /\ UNCHANGED <<policy, slot, mode, load, position, upsets>>

(* ------------------------ the statements of load ---------------------- *)
NextEvent == topic[position + 1]

\* What a task asks for: one scope, or (reconcile, bootstrap) every scope.
Wanted(t) == IF t = "event" THEN {NextEvent.scope} ELSE Scopes

MayStart(t) == t = "event" => mode = "up" /\ position < Len(topic)

\* Statement 1; without a row the load ends there.
ReadPolicies(t) ==
  /\ load[t].at = "idle"
  /\ MayStart(t)
  /\ LET found == {s \in Wanted(t) : policy[s].version > 0} IN
     load' = [load EXCEPT ![t] =
       Looking(IF found = {} THEN "apply" ELSE "rules",
               [s \in found |-> policy[s]],
               IF t = "event" THEN {NextEvent.scope} ELSE found)]
  /\ UNCHANGED <<policy, outbox, topic, slot, mode, position, upsets>>

\* Statement 2: the rules there are now, of the policies found before.
\* Without a rule nothing more is read, as if the rest followed at once.
ReadRules(t) ==
  /\ load[t].at = "rules"
  /\ load' = [load EXCEPT ![t] =
       [at    |-> "parts",
        rows  |-> load[t].rows,
        rules |-> [s \in DOMAIN load[t].rows |-> policy[s].version],
        parts |-> <<>>,
        todo  |-> load[t].todo]]
  /\ UNCHANGED <<policy, outbox, topic, slot, mode, position, upsets>>

\* By rule id, which a replacement keeps or changes for all of them.
PartOf(t, s, kept) ==
  LET seen == {load[t].rules[s]}
                \cup {load[t].parts[n][s] : n \in DOMAIN load[t].parts} IN
  IF policy[s].version \in seen \/ (Torn \notin seen /\ s \in kept)
  THEN policy[s].version ELSE Torn

PartsWith(t, kept) ==
  Append(load[t].parts, [s \in DOMAIN load[t].rows |-> PartOf(t, s, kept)])

\* Slip: the policy row is read with the parts, not first.
ReadPartThenPolicies(t) ==
  /\ load[t].at = "parts"
  /\ \E kept \in SUBSET Scopes :
       load' = [load EXCEPT ![t] =
         [at    |-> IF Len(load[t].parts) = 2 THEN "apply" ELSE "parts",
          rows  |-> [s \in DOMAIN load[t].rows |-> policy[s]],
          rules |-> load[t].rules,
          parts |-> PartsWith(t, kept),
          todo  |-> load[t].todo]]
  /\ UNCHANGED <<policy, outbox, topic, slot, mode, position, upsets>>

\* One of the statements 3 to 5, which are sent together: whichever is
\* answered first, the rest of the load treats them alike.
ReadPart(t) ==
  /\ load[t].at = "parts"
  /\ \E kept \in SUBSET Scopes :
       load' = [load EXCEPT ![t] =
         [at    |-> IF Len(load[t].parts) = 2 THEN "apply" ELSE "parts",
          rows  |-> load[t].rows,
          rules |-> load[t].rules,
          parts |-> PartsWith(t, kept),
          todo  |-> load[t].todo]]
  /\ UNCHANGED <<policy, outbox, topic, slot, mode, position, upsets>>

\* A rule without patterns, without surfaces or without actions fails the
\* validation that precedes compilation.
Compiles(t) ==
  \A s \in DOMAIN load[t].rows :
    load[t].rows[s].enabled => \A n \in Answers : load[t].parts[n][s] # Torn

(* ------------------------- process life and death --------------------- *)
\* The supervisor restarts the process with empty slots; its consumer group
\* is the old one (same host name and process id) or a new one.
Restart ==
  /\ mode' = "boot"
  /\ slot' = [s \in Scopes |-> EmptySlot]
  /\ load' = [t \in Tasks |-> NoLoad]
  /\ position' \in {0, position}
  /\ UNCHANGED <<policy, outbox, topic>>

\* A crash, a deployment, or an error of the database in a load at boot or
\* in the consumer (main stops every task when one of them fails).
CrashReplica ==
  /\ upsets < MaxUpsets
  /\ upsets' = upsets + 1
  /\ Restart

(* --------------------------- the consumer ----------------------------- *)
Expected == NextEvent.version

\* VersionNotVisible is retried; any other failure ends the process.
ApplyEvent ==
  /\ load["event"].at = "apply"
  /\ Compiles("event")
  /\ LET s == NextEvent.scope
         rows == load["event"].rows IN
     /\ s \in DOMAIN rows => rows[s].version >= Expected
     /\ slot' = [slot EXCEPT ![s] = IF s \in DOMAIN rows
                                    THEN Publishes("event", s)
                                    ELSE Remove(s, Expected)]
  /\ load' = [load EXCEPT !["event"] = Looking("commit", <<>>, {})]
  /\ UNCHANGED <<policy, outbox, topic, mode, position, upsets>>

EventFails ==
  /\ load["event"].at = "apply"
  /\ ~Compiles("event")
  /\ Restart
  /\ UNCHANGED upsets

CommitEvent ==
  /\ load["event"].at = "commit"
  /\ position' = position + 1
  /\ load' = [load EXCEPT !["event"] = NoLoad]
  /\ UNCHANGED <<policy, outbox, topic, slot, mode, upsets>>

\* Retention deletes a record before this replica gets to it.
MissEvent ==
  /\ upsets < MaxUpsets
  /\ load["event"].at = "idle"
  /\ MayStart("event")
  /\ upsets' = upsets + 1
  /\ topic' = SubSeq(topic, 1, position) \o SubSeq(topic, position + 2, Len(topic))
  /\ UNCHANGED <<policy, outbox, slot, mode, load, position>>

(* ------------------ bootstrap and the reconciliation ------------------ *)
\* Nothing is published unless everything compiles: bootstrap ends the
\* process, the reconciliation is tried again after its interval.
SweepFails ==
  /\ load["sweep"].at = "apply"
  /\ load["sweep"].todo = DOMAIN load["sweep"].rows
  /\ ~Compiles("sweep")
  /\ UNCHANGED upsets
  /\ \/ mode = "boot" /\ Restart
     \/ /\ mode = "up"
        /\ load' = [load EXCEPT !["sweep"] = NoLoad]
        /\ UNCHANGED <<policy, outbox, topic, slot, mode, position>>

\* One slot at a time, the enabled policies first.
SweepScope(s) ==
  /\ load["sweep"].at = "apply"
  /\ Compiles("sweep")
  /\ s \in load["sweep"].todo
  /\ load["sweep"].rows[s].enabled
       \/ \A o \in load["sweep"].todo : ~load["sweep"].rows[o].enabled
  /\ slot' = [slot EXCEPT ![s] = Publishes("sweep", s)]
  /\ load' = [load EXCEPT !["sweep"].todo = load["sweep"].todo \ {s}]
  /\ UNCHANGED <<policy, outbox, topic, mode, position, upsets>>

Absent == {s \in Scopes : Loaded(s) /\ s \notin DOMAIN load["sweep"].rows}

\* bootstrap ends here; reconcile goes on to the loaded scopes it did not find.
SweepPublished ==
  /\ load["sweep"].at = "apply"
  /\ Compiles("sweep")
  /\ load["sweep"].todo = {}
  /\ load' = [load EXCEPT !["sweep"] =
       IF mode = "up" /\ Absent # {} THEN Looking("absent", <<>>, Absent) ELSE NoLoad]
  /\ mode' = "up"
  /\ UNCHANGED <<policy, outbox, topic, slot, position, upsets>>

\* The version after the one loaded now is taken for that of a deletion.
SweepLooks(s) ==
  /\ load["sweep"].at = "absent"
  /\ s \in load["sweep"].todo
  /\ LET gone == [version |-> IF Loaded(s) THEN slot[s].last + 1 ELSE 1,
                  enabled |-> FALSE] IN
     load' = [load EXCEPT !["sweep"] =
       Looking("remove", [o \in {s} |-> gone], load["sweep"].todo \ {s})]
  /\ UNCHANGED <<policy, outbox, topic, slot, mode, position, upsets>>

\* Its slot may have moved on since.
SweepAbsent(s) ==
  /\ load["sweep"].at = "remove"
  /\ s \in DOMAIN load["sweep"].rows
  /\ slot' = [slot EXCEPT ![s] = Publishes("sweep", s)]
  /\ load' = [load EXCEPT !["sweep"] =
       IF load["sweep"].todo = {} THEN NoLoad
       ELSE Looking("absent", <<>>, load["sweep"].todo)]
  /\ UNCHANGED <<policy, outbox, topic, mode, position, upsets>>

(* --------------------------- specification ---------------------------- *)
SyncInit ==
  /\ policy \in [Scopes -> {[version |-> 0, enabled |-> FALSE],
                            [version |-> 1, enabled |-> TRUE],
                            [version |-> 1, enabled |-> FALSE]}]
  /\ outbox = {} /\ topic = <<>>
  /\ slot = [s \in Scopes |-> EmptySlot]
  /\ mode = "boot"
  /\ load = [t \in Tasks |-> NoLoad]
  /\ position = 0 /\ upsets = 0

Reads(t) == ReadPolicies(t) \/ ReadRules(t) \/ ReadPart(t)
Loading == \E t \in Tasks : Reads(t)

Sweeping == \/ SweepFails \/ SweepPublished
            \/ \E s \in Scopes : SweepScope(s) \/ SweepLooks(s) \/ SweepAbsent(s)

Consuming == ApplyEvent \/ EventFails \/ CommitEvent

SyncNext ==
  \/ \E s \in Scopes : ReplacePolicy(s)
  \/ Publish
  \/ Loading \/ Sweeping \/ Consuming
  \/ MissEvent \/ CrashReplica

\* The relay publishes, both tasks are scheduled, the database answers.
SyncFairness ==
  /\ WF_syncVars(Publish)
  /\ \A t \in Tasks : WF_syncVars(Reads(t))
  /\ WF_syncVars(Sweeping)
  /\ WF_syncVars(Consuming)

SyncSpec == SyncInit /\ [][SyncNext]_syncVars
FairSyncSpec == SyncSpec /\ SyncFairness

(* ----------------------------- properties ----------------------------- *)
SyncTypeOK ==
  /\ policy \in [Scopes -> [version : Versions, enabled : BOOLEAN]]
  /\ outbox \subseteq Invalidations
  /\ topic \in Seq(Invalidations)
  /\ slot \in [Scopes -> [last : Nat, shows : Contents \cup {NoSnapshot}]]
  /\ mode \in {"boot", "up"}
  /\ position \in 0 .. Len(topic)
  /\ upsets \in 0 .. MaxUpsets

\* What a snapshot shows is never older than the version it is filed under:
\* the row is read first, so a replacement between the five statements can
\* only make the content newer, and the newer version's event still replaces
\* it.  Read in another order, old rules would pass for the new version for
\* good.
ContentMatchesVersion ==
  \A s \in Scopes :
    Loaded(s) => /\ slot[s].shows.rules >= slot[s].last
                 /\ \A n \in Answers : slot[s].shows.parts[n] >= slot[s].shows.rules

\* An event whose offset is committed is never needed again: a replica that
\* is up has, for every record it will not read again, that version or a
\* later one, shown or removed.  The offset outlives a crash and the slots do
\* not, so the load at boot has to make up for them; and a sweep that read
\* before the event was applied, or one that takes a scope for deleted, must
\* not take it back.
ConsumedIsShown ==
  mode = "up" => \A i \in 1 .. position : slot[topic[i].scope].last >= topic[i].version

Current(s) ==
  /\ mode = "up"
  /\ IF policy[s].enabled
     THEN slot[s].shows = [rules |-> policy[s].version,
                           parts |-> [n \in Answers |-> policy[s].version]]
     ELSE ~Loaded(s)

\* A scope that had a policy when the replica started ends up showing the
\* latest one, whatever crashes, lost events and torn loads come between.
ExistingScopesConverge ==
  \A s \in Scopes : policy[s].version > 0 => <>[]Current(s)

\* "Periodic reconciliation recovers missed invalidation events"
\* (src/content_policy/service.rs): so every scope ends up current, those
\* created while the replica runs included.
ReconciliationRecovers == \A s \in Scopes : <>[]Current(s)
=============================================================================
