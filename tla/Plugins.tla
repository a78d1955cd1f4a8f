-------------------------------- MODULE Plugins --------------------------------
(***************************************************************************)
(* The activation of plugins: rows in the database, changed one change at  *)
(* a time under the locks of all of them, and read by every request        *)
(* through a cache in each process.  A change tells the processes by a     *)
(* notification of PostgreSQL, which a task of each listens for; workers   *)
(* drop their cache before they use it.                                    *)
(***************************************************************************)
EXTENDS Naturals, FiniteSets

CONSTANTS Plugin, Core,
          Depends,    \* Depends[p]: what p cannot be on without
          Default,    \* the plugins that are on at first
          Process,    \* processes that serve the API or work
          Client,     \* requests that change an activation
          Reader,     \* requests and passes that ask what is on
          NotCached,  \* no set
          Changes,    \* bound on changes
          Readings    \* bound on readings

PluginsAssumption ==
    /\ Process # {} /\ Changes \in Nat /\ Readings \in Nat
    /\ Core \in Default /\ Default \subseteq Plugin
    /\ Depends \in [Plugin -> SUBSET Plugin] /\ Depends[Core] = {}
    /\ \A p \in Default : Depends[p] \subseteq Default

VARIABLES
    enabled,    \* rows: the plugins that are on
    past,       \* the sets that were committed so far
    change,     \* changes under way
    cache,      \* PluginService::cache of each process
    snapshot,   \* AuthorizationService::active_plugins of each process
    reader,     \* readings under way
    notices,    \* processes with a notification to hear
    listening,  \* processes whose listener is connected
    excused,    \* processes that may not know of a change
    changes, readings

vars == <<enabled, past, change, cache, snapshot, reader, notices, listening, excused,
          changes, readings>>

NoChange  == [pc |-> "idle", at |-> CHOOSE p \in Process : TRUE, id |-> Core, on |-> TRUE]
NoReading == [pc |-> "idle", at |-> CHOOSE p \in Process : TRUE, set |-> {}]

Init ==
    /\ enabled = Default /\ past = {Default}
    /\ change = [c \in Client |-> NoChange]
    /\ cache = [p \in Process |-> NotCached]
    /\ snapshot = [p \in Process |-> NotCached]
    /\ reader = [r \in Reader |-> NoReading]
    /\ notices = {} /\ listening = Process /\ excused = {}
    /\ changes = Changes /\ readings = Readings

----------------------------------------------------------------------------
(* The registry.                                                           *)

\* validate_active
Valid(active) == Core \in active /\ \A p \in active : Depends[p] \subseteq active

\* validate_enable
MayEnable(p, active) == p # Core /\ Depends[p] \subseteq active

\* validate_disable
MayDisable(p, active) == p # Core /\ p \in active /\ \A q \in active : p \notin Depends[q]

\* invalidate
Invalidated(p)  == cache' = [cache EXCEPT ![p] = NotCached]
Known(p)        == excused' = excused \ {p}

----------------------------------------------------------------------------
(* change_plugin.  Who may change is decided before by the owner's role.   *)

Busy(c) == change[c].pc # "idle"

\* Mutant: the rows are read without their locks.
RowsAreRead(c) == TRUE

\* for update of all rows, in the order of their ids
RowsAreFree(c) == \A d \in Client \ {c} : change[d].pc \notin {"locked", "applied"}

LockRows(c, p, id, on) ==
    /\ ~Busy(c) /\ changes > 0 /\ RowsAreFree(c)
    /\ Valid(enabled)
    /\ IF on THEN MayEnable(id, enabled) ELSE MayDisable(id, enabled)
    /\ change' = [change EXCEPT ![c] = [pc |-> "locked", at |-> p, id |-> id, on |-> on]]
    /\ changes' = changes - 1
    /\ UNCHANGED <<enabled, past, cache, snapshot, reader, notices, listening, excused, readings>>

\* Updates the row and drops the cache of this process, before the commit.
Apply(c) ==
    /\ change[c].pc = "locked"
    /\ change' = [change EXCEPT ![c].pc = "applied"]
    /\ Invalidated(change[c].at) /\ Known(change[c].at)
    /\ UNCHANGED <<enabled, past, snapshot, reader, notices, listening, changes, readings>>

\* The notification goes out with the commit, to whoever listens.
Notified == listening

Commit(c) ==
    LET r == change[c]
        after == IF r.on THEN enabled \cup {r.id} ELSE enabled \ {r.id}
    IN  /\ r.pc = "applied"
        /\ enabled' = after /\ past' = past \cup {after}
        /\ change' = [change EXCEPT ![c].pc = "committed"]
        /\ notices' = notices \cup Notified
        /\ excused' = excused \cup {p \in Process \ (listening \cup {r.at}) : cache[p] # NotCached}
        /\ UNCHANGED <<cache, snapshot, reader, listening, changes, readings>>

\* Its audit entry or its commit fails.
Fail(c) ==
    /\ change[c].pc \in {"locked", "applied"}
    /\ change' = [change EXCEPT ![c] = NoChange]
    /\ UNCHANGED <<enabled, past, cache, snapshot, reader, notices, listening, excused, changes,
                   readings>>

Answer(c) ==
    /\ change[c].pc = "committed"
    /\ Invalidated(change[c].at) /\ Known(change[c].at)
    /\ change' = [change EXCEPT ![c] = NoChange]
    /\ UNCHANGED <<enabled, past, snapshot, reader, notices, listening, changes, readings>>

----------------------------------------------------------------------------
(* enabled_set, and those that ask.                                        *)

\* plugin_gate asks the cache; a worker's pass and a delivery drop it first.
Ask(r, p, fresh) ==
    LET had == IF fresh THEN NotCached ELSE cache[p]
    IN  /\ reader[r].pc = "idle" /\ readings > 0
        /\ reader' = [reader EXCEPT ![r] = IF had = NotCached
                                           THEN [pc |-> "asking", at |-> p, set |-> {}]
                                           ELSE [pc |-> "knows", at |-> p, set |-> had]]
        /\ IF fresh THEN Invalidated(p) /\ Known(p) ELSE UNCHANGED <<cache, excused>>
        /\ readings' = readings - 1
        /\ UNCHANGED <<enabled, past, change, snapshot, notices, listening, changes>>

\* list
List(r) ==
    /\ reader[r].pc = "asking"
    /\ reader' = [reader EXCEPT ![r].pc = "read", ![r].set = enabled]
    /\ UNCHANGED <<enabled, past, change, cache, snapshot, notices, listening, excused, changes,
                   readings>>

\* What was read is cached, whatever was committed and heard of meanwhile.
Fill(r) ==
    LET p == reader[r].at
    IN  /\ reader[r].pc = "read"
        /\ IF Valid(reader[r].set)
             THEN /\ reader' = [reader EXCEPT ![r].pc = "knows"]
                  /\ cache' = [cache EXCEPT ![p] = reader[r].set]
                  /\ excused' = IF reader[r].set = enabled THEN excused ELSE excused \cup {p}
             ELSE /\ reader' = [reader EXCEPT ![r] = NoReading]
                  /\ UNCHANGED <<cache, excused>>
        /\ UNCHANGED <<enabled, past, change, snapshot, notices, listening, changes, readings>>

\* set_active_plugins: the last request to come here decides what the next ones may do.
SetActivePlugins(r) ==
    /\ reader[r].pc = "knows"
    /\ snapshot' = [snapshot EXCEPT ![reader[r].at] = reader[r].set]
    /\ reader' = [reader EXCEPT ![r] = NoReading]
    /\ UNCHANGED <<enabled, past, change, cache, notices, listening, excused, changes, readings>>

----------------------------------------------------------------------------
(* spawn_plugin_activation_listener.                                       *)

Hear(p) ==
    /\ p \in notices
    /\ notices' = notices \ {p}
    /\ Invalidated(p) /\ Known(p)
    /\ UNCHANGED <<enabled, past, change, snapshot, reader, listening, changes, readings>>

Disconnect(p) ==
    /\ p \in listening
    /\ listening' = listening \ {p} /\ notices' = notices \ {p}
    /\ Invalidated(p) /\ Known(p)
    /\ UNCHANGED <<enabled, past, change, snapshot, reader, changes, readings>>

\* A second later it listens again; what was cached since then stays.
Listen(p) ==
    /\ p \notin listening
    /\ listening' = listening \cup {p}
    /\ UNCHANGED <<enabled, past, change, cache, snapshot, reader, notices, excused, changes,
                   readings>>

Next ==
    \/ \E c \in Client : \/ \E p \in Process, id \in Plugin, on \in BOOLEAN : LockRows(c, p, id, on)
                         \/ Apply(c) \/ Commit(c) \/ Fail(c) \/ Answer(c)
    \/ \E r \in Reader : \/ \E p \in Process, fresh \in BOOLEAN : Ask(r, p, fresh)
                         \/ List(r) \/ Fill(r) \/ SetActivePlugins(r)
    \/ \E p \in Process : Hear(p) \/ Disconnect(p) \/ Listen(p)

Spec == Init /\ [][Next]_vars

----------------------------------------------------------------------------
TypeOK ==
    /\ enabled \subseteq Plugin /\ past \subseteq SUBSET Plugin
    /\ change \in [Client -> [pc : {"idle", "locked", "applied", "committed"}, at : Process,
                              id : Plugin, on : BOOLEAN]]
    /\ cache \in [Process -> (SUBSET Plugin) \cup {NotCached}]
    /\ snapshot \in [Process -> (SUBSET Plugin) \cup {NotCached}]
    /\ reader \in [Reader -> [pc : {"idle", "asking", "read", "knows"}, at : Process,
                              set : SUBSET Plugin]]
    /\ notices \subseteq Process /\ listening \subseteq Process /\ excused \subseteq Process
    /\ changes \in 0 .. Changes /\ readings \in 0 .. Readings

\* Changes that overlap never leave a plugin on without what it depends on.
RowsAreClosed == Valid(enabled)

\* What a process decides by was committed as a whole at some time.
SetsWereCommitted == \A p \in Process : {cache[p], snapshot[p]} \subseteq past \cup {NotCached}

\* Someone is about to drop the cache.
Pending(p) == p \in notices \/ \E c \in Client : change[c].at = p /\ change[c].pc = "committed"

StaleIsDropped == \A p \in Process :
    cache[p] \notin {NotCached, enabled} => Pending(p) \/ p \in excused

(* Overlapping changes keep the plugins' dependencies, no process decides  *)
(* by a set that was never committed, and a cache that is out of date is   *)
(* about to be dropped, but for two races the code leaves: a reading that  *)
(* was under way at the commit, and a listener that was not connected.     *)
ActivationIsCoherent == RowsAreClosed /\ SetsWereCommitted /\ StaleIsDropped

(* The same without the races: once everyone has heard, every process      *)
(* knows what is on.  Not so: see Fill and Listen.                         *)
CachesConverge == \A p \in Process : cache[p] \in {NotCached, enabled} \/ Pending(p)
===============================================================================
