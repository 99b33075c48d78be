---------------------------- MODULE ContainerPool ----------------------------
(***************************************************************************)
(* The sandbox container pool, avatar/runtime/executor/container_pool.py:  *)
(* executor threads that acquire, use and release a container (docker.py,  *)
(* kata.py), the health thread, and the threads that create containers.    *)
(*                                                                         *)
(* One lock guards the five collections.  Everything between two locked    *)
(* sections is open to the other threads: docker calls, and the writes of  *)
(* entry.state, which come before the lock is taken.  So a step here is a  *)
(* locked section, a write of entry.state or a docker call.                *)
(*                                                                         *)
(* The order of ready_queue and the event that ends a wait early play no   *)
(* role (the wait polls anyway): ready is a set.  shutdown is not modelled.*)
(*                                                                         *)
(* Paths are relative to server/app.                                       *)
(***************************************************************************)
EXTENDS Integers, FiniteSets

CONSTANTS
    Containers,    \* docker containers that may ever be created
    Callers,       \* executor threads
    None,          \* "no container"
    PoolSize,      \* pool_size
    Flaky,         \* containers whose start, inspection or removal docker may refuse
    MaxSpawns      \* bound on spawn threads in flight

ASSUME ContainersAssumption == IsFiniteSet(Containers)
ASSUME NoneAssumption == None \notin Containers
ASSUME SizeAssumption ==
    PoolSize \in Nat \ {0} /\ MaxSpawns \in Nat /\ MaxSpawns >= PoolSize
ASSUME FlakyAssumption == Flaky \subseteq Containers

\* ContainerState, with "none" before there is an entry.
ContainerState ==
    {"none", "creating", "ready", "busy", "draining", "broken", "removing"}

\* Where an executor thread is: outside the pool; in acquire's loop; creating a
\* container itself; running code; in release past the locked pop; or past the
\* write of entry.state that precedes the last locked section of release.
CallerPhases == {"idle", "acquiring", "rescuing", "using", "releasing",
                 "returning", "breaking", "retiring"}

\* Where the health thread is in its round.
HealthPhases == {"asleep", "checking", "dropping", "marking", "cleaning", "removing",
                 "replenishing"}

VARIABLES
    ready, busy, creating, broken, draining,  \* the pool's collections
    state,     \* entry.state
    docker,    \* what docker knows of the container
    at,        \* phase of every caller
    held,      \* the container a caller acquired and has not given back
    health,    \* phase of the health thread
    suspects,  \* entries it has still to deal with: its READY snapshot, those of
               \* them that failed the check, its BROKEN snapshot
    marked,    \* the suspect whose state it has just written, or None
    spawns     \* spawn threads that have no container yet

sets == <<ready, busy, creating, broken, draining>>
callerVars == <<at, held>>
healthVars == <<health, suspects, marked>>
vars == <<ready, busy, creating, broken, draining, state, docker, at, held,
          health, suspects, marked, spawns>>

TypeOK ==
    /\ ready \in SUBSET Containers
    /\ busy \in SUBSET Containers
    /\ creating \in SUBSET Containers
    /\ broken \in SUBSET Containers
    /\ draining \in SUBSET Containers
    /\ state \in [Containers -> ContainerState]
    /\ docker \in [Containers -> {"absent", "running", "stopped", "removed"}]
    /\ at \in [Callers -> CallerPhases]
    /\ held \in [Callers -> Containers \cup {None}]
    /\ health \in HealthPhases
    /\ suspects \in SUBSET Containers
    /\ marked \in Containers \cup {None}
    /\ spawns \in 0..MaxSpawns
    \* A container is in at most one of the three collections acquire looks at.
    /\ ready \cap creating = {} /\ ready \cap busy = {} /\ creating \cap busy = {}

\* start(): pool_size spawn threads and the health thread.
Init ==
    /\ ready = {} /\ busy = {} /\ creating = {} /\ broken = {} /\ draining = {}
    /\ state = [c \in Containers |-> "none"]
    /\ docker = [c \in Containers |-> "absent"]
    /\ at = [k \in Callers |-> "idle"]
    /\ held = [k \in Callers |-> None]
    /\ health = "asleep" /\ suspects = {} /\ marked = None
    /\ spawns = PoolSize

\* n more spawn threads.  Past the bound they count as failed at once, which
\* docker may do to any of them.
MoreSpawns(n) == IF spawns + n <= MaxSpawns THEN spawns + n ELSE MaxSpawns

\* containers.remove(force=True) on every member of S; an error is swallowed.
Remove(S) ==
    \E kept \in SUBSET (S \cap Flaky) :
        docker' = [c \in Containers |-> IF c \in S \ kept THEN "removed" ELSE docker[c]]

SetState(S, s) == state' = [c \in Containers |-> IF c \in S THEN s ELSE state[c]]

\* The locked section of _mark_broken, and its replacement thread.
BreakEntry(c) ==
    /\ ready' = ready \ {c}
    /\ busy' = busy \ {c}
    /\ creating' = creating \ {c}
    /\ draining' = draining \ {c}
    /\ broken' = broken \cup {c}
    /\ spawns' = MoreSpawns(1)

-----------------------------------------------------------------------------
(* acquire *)

Call(k) ==
    /\ at[k] = "idle"
    /\ at' = [at EXCEPT ![k] = "acquiring"]
    /\ UNCHANGED <<sets, state, docker, held, healthVars, spawns>>

\* Mutation of TakeReady: the head of the queue is read and not popped.
PeeksReady(k) ==
    /\ at[k] = "acquiring"
    /\ \E c \in ready :
        /\ busy' = busy \cup {c}
        /\ state' = [state EXCEPT ![c] = "busy"]
        /\ held' = [held EXCEPT ![k] = c]
    /\ at' = [at EXCEPT ![k] = "using"]
    /\ UNCHANGED <<ready, creating, broken, draining, docker, healthVars, spawns>>

TakeReady(k) ==
    /\ at[k] = "acquiring"
    /\ \E c \in ready :
        /\ ready' = ready \ {c}
        /\ busy' = busy \cup {c}
        /\ state' = [state EXCEPT ![c] = "busy"]
        /\ held' = [held EXCEPT ![k] = c]
    /\ at' = [at EXCEPT ![k] = "using"]
    /\ UNCHANGED <<creating, broken, draining, docker, healthVars, spawns>>

\* Nothing ready and nothing on its way: _sync_spawn_rescue.
NeedRescue(k) ==
    /\ at[k] = "acquiring"
    /\ ready = {} /\ creating = {}
    /\ at' = [at EXCEPT ![k] = "rescuing"]
    /\ UNCHANGED <<sets, state, docker, held, healthVars, spawns>>

Rescue(k, c) ==
    /\ at[k] = "rescuing"
    /\ docker[c] = "absent"
    /\ docker' = [docker EXCEPT ![c] = "running"]
    /\ state' = [state EXCEPT ![c] = "busy"]
    /\ busy' = busy \cup {c}
    /\ held' = [held EXCEPT ![k] = c]
    /\ at' = [at EXCEPT ![k] = "using"]
    /\ UNCHANGED <<ready, creating, broken, draining, healthVars, spawns>>

\* What it created, if anything, it has removed (or lost: see LoseCreated).
RescueFails(k) ==
    /\ at[k] = "rescuing"
    /\ at' = [at EXCEPT ![k] = "acquiring"]
    /\ UNCHANGED <<sets, state, docker, held, healthVars, spawns>>

\* The deadline has passed: SandboxFailure.
GiveUp(k) ==
    /\ at[k] = "acquiring"
    /\ at' = [at EXCEPT ![k] = "idle"]
    /\ UNCHANGED <<sets, state, docker, held, healthVars, spawns>>

\* start() or reload() raised after containers.create: in a spawn thread's
\* _create_raw_container or anywhere in the rescue, nothing removes the
\* container, and no entry names it.
LoseCreated(c) ==
    /\ c \in Flaky
    /\ docker[c] = "absent"
    /\ spawns > 0 \/ \E k \in Callers : at[k] = "rescuing"
    /\ \E status \in {"running", "stopped"} : docker' = [docker EXCEPT ![c] = status]
    /\ UNCHANGED <<sets, state, callerVars, healthVars, spawns>>

-----------------------------------------------------------------------------
(* release *)

Leave(k) ==
    /\ at' = [at EXCEPT ![k] = "idle"]
    /\ held' = [held EXCEPT ![k] = None]

\* busy_set.pop: a container that is not busy any more is left alone.
BeginRelease(k) ==
    /\ at[k] = "using"
    /\ busy' = busy \ {held[k]}
    /\ IF held[k] \in busy
       THEN at' = [at EXCEPT ![k] = "releasing"] /\ UNCHANGED held
       ELSE Leave(k)
    /\ UNCHANGED <<ready, creating, broken, draining, state, docker, healthVars, spawns>>

Decide(k, verdict, phase) ==
    /\ at[k] = "releasing"
    /\ state' = [state EXCEPT ![held[k]] = verdict]
    /\ at' = [at EXCEPT ![k] = phase]
    /\ UNCHANGED <<sets, docker, held, healthVars, spawns>>

\* failed=True, or reload failed, or docker does not say "running".
DecideBroken(k) == Decide(k, "broken", "breaking")

\* Used too often or too old: the age is left open.
DecideWorn(k) == Decide(k, "draining", "retiring")

\* reload() says "running": one step with the write of the state.
DecideReady(k) ==
    /\ at[k] = "releasing" /\ docker[held[k]] = "running"
    /\ Decide(k, "ready", "returning")

Return(k) ==
    /\ at[k] = "returning"
    /\ ready' = ready \cup {held[k]}
    /\ Leave(k)
    /\ UNCHANGED <<busy, creating, broken, draining, state, docker, healthVars, spawns>>

Break(k) ==
    /\ at[k] = "breaking"
    /\ BreakEntry(held[k])
    /\ Leave(k)
    /\ UNCHANGED <<state, docker, healthVars>>

\* Mutation of Retire: the entry goes back to READY as well.
RetiresReady(k) ==
    /\ at[k] = "retiring"
    /\ ready' = ready \cup {held[k]}
    /\ busy' = busy \ {held[k]}
    /\ draining' = draining \cup {held[k]}
    /\ spawns' = MoreSpawns(1)
    /\ Leave(k)
    /\ UNCHANGED <<creating, broken, state, docker, healthVars>>

\* The locked section of _mark_draining, and its replacement thread.
Retire(k) ==
    /\ at[k] = "retiring"
    /\ ready' = ready \ {held[k]}
    /\ busy' = busy \ {held[k]}
    /\ draining' = draining \cup {held[k]}
    /\ spawns' = MoreSpawns(1)
    /\ Leave(k)
    /\ UNCHANGED <<creating, broken, state, docker, healthVars>>

-----------------------------------------------------------------------------
(* Spawn threads *)

\* containers.create, start, and the entry in creating_set.
Spawn(c) ==
    /\ spawns > 0
    /\ docker[c] = "absent"
    /\ docker' = [docker EXCEPT ![c] = "running"]
    /\ state' = [state EXCEPT ![c] = "creating"]
    /\ creating' = creating \cup {c}
    /\ spawns' = spawns - 1
    /\ UNCHANGED <<ready, busy, broken, draining, callerVars, healthVars>>

SpawnGivesUp ==
    /\ spawns > 0
    /\ spawns' = spawns - 1
    /\ UNCHANGED <<sets, state, docker, callerVars, healthVars>>

\* Mutation of SpawnReady: the entry is not popped from creating_set.
KeepsCreating(c) ==
    /\ c \in creating
    /\ docker[c] = "running"
    /\ state' = [state EXCEPT ![c] = "ready"]
    /\ ready' = ready \cup {c}
    /\ UNCHANGED <<busy, creating, broken, draining, docker, callerVars, healthVars, spawns>>

SpawnReady(c) ==
    /\ c \in creating
    /\ docker[c] = "running"
    /\ state' = [state EXCEPT ![c] = "ready"]
    /\ creating' = creating \ {c}
    /\ ready' = ready \cup {c}
    /\ UNCHANGED <<busy, broken, draining, docker, callerVars, healthVars, spawns>>

\* Mutation of SpawnFails: the container that did not start is not removed.
SpawnForgets(c) ==
    /\ c \in creating
    /\ creating' = creating \ {c}
    /\ UNCHANGED <<ready, busy, broken, draining, state, docker, callerVars, healthVars, spawns>>

\* The container did not start in time, or reload raised.
SpawnFails(c) ==
    /\ c \in creating
    /\ creating' = creating \ {c}
    /\ Remove({c})
    /\ UNCHANGED <<ready, busy, broken, draining, state, callerVars, healthVars, spawns>>

-----------------------------------------------------------------------------
(* The health thread *)

Round(p) == health' = p

\* entries = list(self.ready_queue)
SnapshotReady ==
    /\ health = "asleep"
    /\ suspects' = ready
    /\ Round("checking")
    /\ UNCHANGED <<sets, state, docker, callerVars, marked, spawns>>

\* What the two-layer check condemns: every snapshot entry docker does not
\* report as running, and any other whose reload or ping failed or was slow.
Condemned(S) ==
    /\ S \subseteq suspects
    /\ \A c \in suspects : docker[c] # "running" => c \in S

CheckReady ==
    /\ health = "checking"
    /\ \E S \in SUBSET suspects : Condemned(S) /\ suspects' = S
    /\ Round("dropping")
    /\ UNCHANGED <<sets, state, docker, callerVars, marked, spawns>>

\* ready_queue.remove(entry) for the condemned; one that a caller has taken in
\* the meantime raises ValueError, which is ignored.
DropCondemned ==
    /\ health = "dropping"
    /\ ready' = ready \ suspects
    /\ Round("marking")
    /\ UNCHANGED <<busy, creating, broken, draining, state, docker, callerVars, suspects,
                   marked, spawns>>

\* _mark_broken(entry) for every condemned entry, those a caller has taken in
\* the meantime included: first the state ..
MarkSuspect(c) ==
    /\ health = "marking"
    /\ marked = None
    /\ c \in suspects
    /\ state' = [state EXCEPT ![c] = "broken"]
    /\ marked' = c
    /\ UNCHANGED <<sets, docker, callerVars, health, suspects, spawns>>

\* .. then the locked section.
BreakSuspect ==
    /\ health = "marking"
    /\ marked # None
    /\ BreakEntry(marked)
    /\ suspects' = suspects \ {marked}
    /\ marked' = None
    /\ UNCHANGED <<state, docker, callerVars, health>>

\* _drain_expired_containers: READY entries past their life time.
DrainExpired ==
    /\ health = "marking"
    /\ suspects = {}
    /\ \E old \in SUBSET ready :
        /\ ready' = ready \ old
        /\ draining' = draining \cup old
        /\ SetState(old, "draining")
        /\ spawns' = MoreSpawns(Cardinality(old))
    /\ Round("cleaning")
    /\ UNCHANGED <<busy, creating, broken, docker, callerVars, suspects, marked>>

\* _cleanup_broken_containers: to_clean = list(self.broken_set.values())
SnapshotBroken ==
    /\ health = "cleaning"
    /\ suspects' = broken
    /\ Round("removing")
    /\ UNCHANGED <<sets, state, docker, callerVars, marked, spawns>>

\* An entry whose state was overwritten since is passed over.
Cleanable(c) == state[c] = "broken"

CleanOne(c) ==
    /\ health = "removing"
    /\ marked = None
    /\ c \in suspects
    /\ IF Cleanable(c)
       THEN state' = [state EXCEPT ![c] = "removing"] /\ marked' = c /\ UNCHANGED suspects
       ELSE suspects' = suspects \ {c} /\ UNCHANGED <<state, marked>>
    /\ UNCHANGED <<sets, docker, callerVars, health, spawns>>

\* The docker call, and broken_set.pop.
RemoveCleaned ==
    /\ health = "removing"
    /\ marked # None
    /\ Remove({marked})
    /\ broken' = broken \ {marked}
    /\ suspects' = suspects \ {marked}
    /\ marked' = None
    /\ UNCHANGED <<ready, busy, creating, draining, state, callerVars, health, spawns>>

\* Only this thread touches what is in draining_set.
\* _cleanup_drained_containers
CleanDrained ==
    /\ health = "removing"
    /\ suspects = {}
    /\ LET gone == draining \ busy IN
        /\ SetState(gone, "removing")
        /\ Remove(gone)
        /\ draining' = draining \ gone
    /\ Round("replenishing")
    /\ UNCHANGED <<ready, busy, creating, broken, callerVars, suspects, marked, spawns>>

\* _replenish_pool: spawn threads without a container are not counted.
Replenish ==
    /\ health = "replenishing"
    /\ LET deficit == PoolSize - Cardinality(ready) - Cardinality(creating)
       IN spawns' = IF deficit > 0 THEN MoreSpawns(deficit) ELSE spawns
    /\ Round("asleep")
    /\ UNCHANGED <<sets, state, docker, callerVars, suspects, marked>>

-----------------------------------------------------------------------------

\* A container dies under its user, in the queue, anywhere.
Crash(c) ==
    /\ docker[c] = "running"
    /\ docker' = [docker EXCEPT ![c] = "stopped"]
    /\ UNCHANGED <<sets, state, callerVars, healthVars, spawns>>

Acquiring(k) ==
    \/ TakeReady(k) \/ NeedRescue(k) \/ RescueFails(k) \/ GiveUp(k)
    \/ \E c \in Containers : Rescue(k, c)

Releasing(k) ==
    \/ BeginRelease(k) \/ DecideBroken(k) \/ DecideWorn(k) \/ DecideReady(k)
    \/ Return(k) \/ Break(k) \/ Retire(k)

Spawning(c) == Spawn(c) \/ SpawnReady(c) \/ SpawnFails(c)

Health ==
    \/ SnapshotReady \/ CheckReady \/ DropCondemned \/ BreakSuspect \/ DrainExpired
    \/ SnapshotBroken \/ RemoveCleaned \/ CleanDrained \/ Replenish
    \/ \E c \in Containers : MarkSuspect(c) \/ CleanOne(c)

Next ==
    \/ \E k \in Callers : Call(k) \/ Acquiring(k) \/ Releasing(k)
    \/ \E c \in Containers : Spawning(c) \/ LoseCreated(c) \/ Crash(c)
    \/ SpawnGivesUp
    \/ Health

\* The health thread's rounds go on, code run in a container ends (docker.py
\* and kata.py time it out), and a spawn thread polls at most twenty times.
Fairness ==
    /\ WF_vars(Health)
    /\ \A k \in Callers : WF_vars(Releasing(k))
    /\ \A c \in Containers : WF_vars(SpawnReady(c) \/ SpawnFails(c))

Spec == Init /\ [][Next]_vars
FairSpec == Spec /\ Fairness

-----------------------------------------------------------------------------
(* Properties *)

\* Two executor threads never run code in the same container.
ExclusiveUse ==
    \A j, k \in Callers : held[j] # None /\ held[j] = held[k] => j = k

\* busy_set never keeps a container whose user has gone: the health thread does
\* not look there, so it would be lost to the pool for good.
BusyHasUser ==
    \A c \in busy : \E k \in Callers : at[k] = "using" /\ held[k] = c

\* A caller in release still owns its entry, or a collection does.
InTransit == {held[k] : k \in Callers} \ {None}

\* No container is forgotten: however the threads interleave, one that docker
\* has is in a collection, in use, or condemned and about to be marked.  Where
\* docker refuses a call (Flaky), the code does forget containers.
NoneForgotten ==
    \A c \in Containers \ Flaky :
        docker[c] \in {"running", "stopped"} =>
            \/ c \in ready \cup busy \cup creating \cup broken \cup draining
            \/ c \in InTransit
            \/ health = "marking" /\ c \in suspects

\* "DRAINING takes no new task": a container being retired is not in use, and
\* is not offered to anybody.
RetiredUnused ==
    \A c \in draining : c \notin ready /\ \A k \in Callers : held[k] # c

\* "Already taken by acquire, ignore": what a caller runs code in is not deleted
\* by the health thread.
UseUndisturbed ==
    \A k \in Callers : at[k] = "using" => docker[held[k]] # "removed"
=============================================================================
