---------------------------- MODULE OwnershipClaim ----------------------------
(***************************************************************************)
(* Whose database it is.  Projects that have agreed on nothing, not even   *)
(* the name of the registry's schema, run against one database.  Each      *)
(* serializes its own runs on a lock derived from its id; creating or      *)
(* upgrading the registry happens under a second lock, common to all,      *)
(* taken while the first is held.  Binaries of different releases write    *)
(* different registry formats.                                             *)
(***************************************************************************)
EXTENDS Naturals, FiniteSets

CONSTANTS
    Runs,          \* invocations of the command line
    Projects,      \* project ids, each also its deployment lock's key
    Schemas,       \* registry_schema settings
    Formats,       \* registry formats that have ever been written
    ProjectOf,     \* the project a run is of
    SchemaOf,      \* the schema its zapadka.toml names
    Understands,   \* the REGISTRY_FORMAT_VERSION of its binary
    Ownership,     \* OWNERSHIP_KEY
    NoRun, NoRegistry

Locks == Projects \cup {Ownership}
Meta == [project : Projects, format : Formats]
Commands == {"deploy", "revert", "rehash"}   \* deploy: creates, as baseline does

ASSUME SettingsAssumption ==
    /\ Formats \subseteq Nat
    /\ ProjectOf \in [Runs -> Projects]
    /\ SchemaOf \in [Runs -> Schemas]
    /\ Understands \in [Runs -> Formats]
    /\ Ownership \notin Projects
    /\ NoRun \notin Runs
    /\ NoRegistry \notin Meta

VARIABLES
    registry,      \* the meta row in each schema, if there is one
    held,          \* the session holding each advisory lock
    session,       \* each run's backend: none, live, or orphan (no client)
    pc, cmd,
    snap           \* the meta row a run last read in its own schema

vars == <<registry, held, session, pc, cmd, snap>>

InClaim   == {"claiming", "cleared", "claimed", "unclaiming"}
UnderLock == {"locked", "reread", "refreshed", "claim_polling", "claim_queued",
              "working", "releasing"} \cup InClaim
Outside   == {"idle", "read", "opened", "polling", "queued", "done"}

-----------------------------------------------------------------------------
\* Mutation: a registry of any format is read and upgraded.
NeverTooNew(r, meta) == FALSE

TooNew(r, meta) == meta # NoRegistry /\ meta.format > Understands[r]

\* read accepts the row, and check_project does.
Readable(r, meta) ==
    /\ ~TooNew(r, meta)
    /\ meta # NoRegistry => meta.project = ProjectOf[r]

Owned == {s \in Schemas : registry[s] # NoRegistry}

\* Mutation: only the configured schema is looked at.
OwnSchemaOnly(r) ==
    registry[SchemaOf[r]] # NoRegistry => registry[SchemaOf[r]].project = ProjectOf[r]

\* check_database_ownership: no registry anywhere, or one, which is this one.
OwnershipOk(r) ==
    \/ Owned = {}
    \/ Owned = {SchemaOf[r]} /\ registry[SchemaOf[r]].project = ProjectOf[r]

Move(r, from, to) ==
    /\ pc[r] = from
    /\ session[r] = "live"
    /\ pc' = [pc EXCEPT ![r] = to]

\* The connection closes, and with the session go the locks it holds.
Unlocked(r) == [k \in Locks |-> IF held[k] = r THEN NoRun ELSE held[k]]

Init ==
    /\ registry = [s \in Schemas |-> NoRegistry]
    /\ held = [k \in Locks |-> NoRun]
    /\ session = [r \in Runs |-> "none"]
    /\ pc = [r \in Runs |-> "idle"]
    /\ cmd = [r \in Runs |-> "none"]
    /\ snap = [r \in Runs |-> NoRegistry]

(***************************************************************************)
(* target::open: the registry and the ownership of the database, read one  *)
(* after the other and without a lock.                                     *)
(***************************************************************************)
Open(r) ==
    /\ pc[r] = "idle"
    /\ \E c \in Commands : cmd' = [cmd EXCEPT ![r] = c]
    /\ snap' = [snap EXCEPT ![r] = registry[SchemaOf[r]]]
    /\ IF Readable(r, registry[SchemaOf[r]])
         THEN /\ pc' = [pc EXCEPT ![r] = "read"]
              /\ session' = [session EXCEPT ![r] = "live"]
         ELSE pc' = [pc EXCEPT ![r] = "done"] /\ UNCHANGED session
    /\ UNCHANGED <<registry, held>>

OpenChecked(r) ==
    /\ OwnershipOk(r)
    /\ Move(r, "read", "opened")
    /\ UNCHANGED <<registry, held, session, cmd, snap>>

\* Any refusal before the lock is asked for, or a poll whose deadline passes.
Leave(r) ==
    /\ \E from \in {"read", "opened", "polling"} : Move(r, from, "done")
    /\ session' = [session EXCEPT ![r] = "none"]
    /\ UNCHANGED <<registry, held, cmd, snap>>

(***************************************************************************)
(* acquire_key, for either lock.                                           *)
(***************************************************************************)
Acquire(r, key, from, to) ==
    /\ held[key] = NoRun
    /\ held' = [held EXCEPT ![key] = r]
    /\ Move(r, from, to)
    /\ UNCHANGED <<registry, session, cmd, snap>>

\* Taken already: a zero wait queues in the server, any other polls.
AwaitTurn(r, key, from, polling, queued) ==
    /\ held[key] # NoRun
    /\ Move(r, from, polling) \/ Move(r, from, queued)
    /\ UNCHANGED <<registry, held, session, cmd, snap>>

\* PostgreSQL grants the lock to a queued backend, whose client may be gone.
Grant(r, key, queued, to) ==
    /\ pc[r] = queued
    /\ held[key] = NoRun
    /\ held' = [held EXCEPT ![key] = r]
    /\ pc' = IF session[r] = "live" THEN [pc EXCEPT ![r] = to] ELSE pc
    /\ UNCHANGED <<registry, session, cmd, snap>>

TakeLock(r) ==
    \/ Acquire(r, ProjectOf[r], "opened", "locked")
    \/ AwaitTurn(r, ProjectOf[r], "opened", "polling", "queued")
    \/ Acquire(r, ProjectOf[r], "polling", "locked")

\* refresh_state, in the same two reads as open.
Refresh(r) ==
    /\ snap' = [snap EXCEPT ![r] = registry[SchemaOf[r]]]
    /\ Move(r, "locked",
            IF Readable(r, registry[SchemaOf[r]]) THEN "reread" ELSE "releasing")
    /\ UNCHANGED <<registry, held, session, cmd>>

RefreshChecked(r) ==
    /\ Move(r, "reread", IF OwnershipOk(r) THEN "refreshed" ELSE "releasing")
    /\ UNCHANGED <<registry, held, session, cmd, snap>>

\* A precondition of the command fails, or a query does.
Refuse(r) ==
    /\ \E from \in {"reread", "refreshed", "claim_polling"} : Move(r, from, "releasing")
    /\ UNCHANGED <<registry, held, session, cmd, snap>>

(***************************************************************************)
(* claim_and_upgrade: check and creation under the ownership lock.         *)
(***************************************************************************)
TakeOwnership(r) ==
    /\ cmd[r] = "deploy" \/ (cmd[r] = "revert" /\ snap[r] # NoRegistry)
    /\ \/ Acquire(r, Ownership, "refreshed", "claiming")
       \/ AwaitTurn(r, Ownership, "refreshed", "claim_polling", "claim_queued")
       \/ Acquire(r, Ownership, "claim_polling", "claiming")

ClaimChecked(r) ==
    /\ Move(r, "claiming", IF OwnershipOk(r) THEN "cleared" ELSE "unclaiming")
    /\ UNCHANGED <<registry, held, session, cmd, snap>>

\* upgrade_in_transaction.  Its DDL fails on a registry that is not the one the
\* snapshot described: a table or a column exists already.
Upgraded(r) ==
    /\ ~TooNew(r, snap[r])
    /\ registry[SchemaOf[r]] = snap[r]
    /\ registry' = [registry EXCEPT ![SchemaOf[r]] =
                       [project |-> ProjectOf[r], format |-> Understands[r]]]

\* upgrade: the snapshot has this binary's format, or a transaction gives it.
Claim(r) ==
    /\ Move(r, "cleared", "claimed")
    /\ \/ /\ snap[r] # NoRegistry
          /\ snap[r].format = Understands[r]
          /\ UNCHANGED registry
       \/ Upgraded(r)
    /\ UNCHANGED <<held, session, cmd, snap>>

ClaimFails(r) ==
    /\ \E from \in {"claiming", "cleared"} : Move(r, from, "unclaiming")
    /\ UNCHANGED <<registry, held, session, cmd, snap>>

\* The ownership lock is given back whether the claim succeeded or not.
ReleaseOwnership(r) ==
    /\ Move(r, "claimed", "working") \/ Move(r, "unclaiming", "releasing")
    /\ held' = [held EXCEPT ![Ownership] = NoRun]
    /\ UNCHANGED <<registry, session, cmd, snap>>

\* Runner::rehash upgrades in its own transaction, and only what is there.
Rehash(r) ==
    /\ cmd[r] = "rehash"
    /\ snap[r] # NoRegistry
    /\ Upgraded(r)
    /\ Move(r, "refreshed", "working")
    /\ UNCHANGED <<held, session, cmd, snap>>

Finish(r) ==
    /\ Move(r, "working", "releasing")
    /\ UNCHANGED <<registry, held, session, cmd, snap>>

\* Mutation: the lock is not given back when the run ends.
ReleaseForgotten(r) ==
    /\ Move(r, "releasing", "done")
    /\ session' = [session EXCEPT ![r] = "none"]
    /\ UNCHANGED <<registry, held, cmd, snap>>

Release(r) ==
    /\ Move(r, "releasing", "done")
    /\ held' = Unlocked(r)
    /\ session' = [session EXCEPT ![r] = "none"]
    /\ UNCHANGED <<registry, cmd, snap>>

Disconnect(r) ==
    /\ session[r] = "live"
    /\ session' = [session EXCEPT ![r] = "orphan"]
    /\ UNCHANGED <<registry, held, pc, cmd, snap>>

OrphanExits(r) ==
    /\ session[r] = "orphan"
    /\ session' = [session EXCEPT ![r] = "none"]
    /\ held' = Unlocked(r)
    /\ pc' = [pc EXCEPT ![r] = "done"]
    /\ UNCHANGED <<registry, cmd, snap>>

-----------------------------------------------------------------------------
ClientStep(r) ==
    \/ OpenChecked(r) \/ Leave(r) \/ TakeLock(r)
    \/ Refresh(r) \/ RefreshChecked(r) \/ Refuse(r)
    \/ TakeOwnership(r) \/ ClaimChecked(r) \/ Claim(r) \/ ClaimFails(r)
    \/ ReleaseOwnership(r) \/ Rehash(r) \/ Finish(r) \/ Release(r)

GrantProject(r) == Grant(r, ProjectOf[r], "queued", "locked")
GrantOwnership(r) == Grant(r, Ownership, "claim_queued", "claiming")

Next == \E r \in Runs :
    \/ Open(r) \/ ClientStep(r) \/ GrantProject(r) \/ GrantOwnership(r)
    \/ Disconnect(r) \/ OrphanExits(r)

Spec == Init /\ [][Next]_vars

\* A backend whose client is gone notices unless it waits in the lock's queue.
OrphanNotices(r) ==
    /\ pc[r] = "queued" => held[ProjectOf[r]] = r
    /\ pc[r] = "claim_queued" => held[Ownership] = r
    /\ OrphanExits(r)

Fairness ==
    \A r \in Runs :
        /\ WF_vars(ClientStep(r))
        /\ WF_vars(GrantProject(r) \/ GrantOwnership(r))
        /\ WF_vars(OrphanNotices(r))

FairSpec == Spec /\ Fairness

-----------------------------------------------------------------------------
TypeOK ==
    /\ registry \in [Schemas -> Meta \cup {NoRegistry}]
    /\ held \in [Locks -> Runs \cup {NoRun}]
    /\ session \in [Runs -> {"none", "live", "orphan"}]
    /\ pc \in [Runs -> Outside \cup UnderLock]
    /\ cmd \in [Runs -> Commands \cup {"none"}]
    /\ snap \in [Runs -> Meta \cup {NoRegistry}]

\* A database holds at most one registry, whatever the schemas are called and
\* whoever claims it at the same time: find_owning_project's "a state Zapadka
\* will not create".
SoleRegistry == \A s, t \in Owned : s = t

\* A run that goes to work is alone in the database, whatever its project, and
\* the registry is its own and of the format its binary writes.
WorkersOwnTheDatabase ==
    \A r \in Runs : pc[r] = "working" =>
        /\ registry[SchemaOf[r]] = [project |-> ProjectOf[r], format |-> Understands[r]]
        /\ \A q \in Runs : pc[q] = "working" => q = r

\* The database is claimed once and its format only rises.
Claims == INSTANCE DatabaseClaim WITH
    registries <- {[schema |-> s, project |-> registry[s].project,
                    format |-> registry[s].format] : s \in Owned}

ImplementsClaim == Claims!Spec

(***************************************************************************)
(* Why it is safe.                                                         *)
(***************************************************************************)

\* What a run holds and knows.  A registry it has not seen is another project's,
\* for its own project's runs it has locked out.
RunKnows(r) ==
    /\ pc[r] \in UnderLock => held[ProjectOf[r]] = r
    /\ pc[r] \in InClaim => held[Ownership] = r
    /\ pc[r] \in {"reread", "refreshed", "claim_polling", "claim_queued",
                  "claiming", "cleared", "claimed"} =>
          /\ Readable(r, snap[r])
          /\ pc[r] # "claimed" /\ registry[SchemaOf[r]] # snap[r] =>
                snap[r] = NoRegistry /\ registry[SchemaOf[r]].project # ProjectOf[r]
    /\ pc[r] = "cleared" => OwnershipOk(r)
    /\ pc[r] \in {"claimed", "working"} =>
          registry[SchemaOf[r]] = [project |-> ProjectOf[r], format |-> Understands[r]]

ClaimsHold == SoleRegistry /\ \A r \in Runs : RunKnows(r)

(***************************************************************************)
(* Liveness.                                                               *)
(***************************************************************************)

\* Every run that opens its connection ends: waiting for one lock while holding
\* the other never closes a circle.
EveryRunEnds == \A r \in Runs : pc[r] = "read" ~> pc[r] = "done"

===============================================================================
