---------------------------- MODULE SessionLease ----------------------------
(***************************************************************************)
(* The lease columns of one task_sessions row (worker_id, lease_expiry)    *)
(* and the workers that compete for it: acquire_lease, renew_heartbeat and *)
(* release_lease of services/task_session_store.py, the heartbeat loop of  *)
(* services/heartbeat_manager.py and the start/stop pair of                *)
(* DurableStateMixin.                                                      *)
(*                                                                         *)
(* acquire_lease and renew_heartbeat read the clock first and write the    *)
(* row afterwards, so an UPDATE may carry a reading that time has left     *)
(* behind; both UPDATEs are conditional and atomic.  A worker is one       *)
(* DurableContext: its id is a fresh uuid, so an id that died never comes  *)
(* back.                                                                   *)
(***************************************************************************)
EXTENDS Integers

CONSTANTS
    Workers,         \* worker ids that ever exist
    None,            \* SQL NULL, and "no store call in progress"
    AcquireTimeout,  \* timeout_s of acquire_lease (90 s)
    LeaseTimeout,    \* lease_timeout_s of the row, used by the renewal (90 s)
    MaxTime          \* bound on the clock

ASSUME NoneAssumption == None \notin Workers /\ None \notin Int
ASSUME CallAssumption == None \notin [op : {"acquire", "renew"}, at : Nat]
ASSUME TimeoutAssumption ==
    AcquireTimeout \in Nat \ {0} /\ LeaseTimeout \in Nat \ {0}
ASSUME MaxTimeAssumption == MaxTime \in Nat

\* A worker that believes it holds no lease.
Never == -1

VARIABLES
    now,           \* wall clock
    worker_id,     \* the column: owner, or None
    lease_expiry,  \* the column: end of the lease, or None
    pending,       \* pending[w]: store call of w between clock reading and UPDATE
    beating,       \* workers whose heartbeat loop runs
    until,         \* until[w]: the expiry w last wrote with success, or Never
    dead           \* workers whose process has died

leaseVars == <<now, worker_id, lease_expiry, pending, beating, until, dead>>

LeaseTypeOK ==
    /\ now \in Nat
    /\ worker_id \in Workers \cup {None}
    /\ lease_expiry \in Nat \cup {None}
    /\ pending \in [Workers -> [op : {"acquire", "renew"}, at : Nat] \cup {None}]
    /\ beating \in SUBSET Workers
    /\ until \in [Workers -> Nat \cup {Never}]
    /\ dead \in SUBSET Workers

LeaseInit ==
    /\ now = 0
    /\ worker_id = None
    /\ lease_expiry = None
    /\ pending = [w \in Workers |-> None]
    /\ beating = {}
    /\ until = [w \in Workers |-> Never]
    /\ dead = {}

Idle(w) == w \notin dead /\ pending[w] = None

-----------------------------------------------------------------------------
(* acquire_lease *)

\* now = datetime.now(..); expiry = now + timeout_s
BeginAcquire(w) ==
    /\ Idle(w)
    /\ pending' = [pending EXCEPT ![w] = [op |-> "acquire", at |-> now]]
    /\ UNCHANGED <<now, worker_id, lease_expiry, beating, until, dead>>

\* Mutation of Acquirable: the row's expiry is compared with the new expiry
\* instead of the clock.
AcquirableBeforeNewExpiry(t) ==
    \/ worker_id = None
    \/ lease_expiry = None
    \/ lease_expiry < t + AcquireTimeout

\* The WHERE clause of the acquiring UPDATE, at clock reading t.
Acquirable(t) ==
    \/ worker_id = None
    \/ lease_expiry = None
    \/ lease_expiry < t

FinishAcquire(w) ==
    /\ pending[w] # None
    /\ pending[w].op = "acquire"
    /\ IF Acquirable(pending[w].at)
       THEN /\ worker_id' = w
            /\ lease_expiry' = pending[w].at + AcquireTimeout
            /\ until' = [until EXCEPT ![w] = pending[w].at + AcquireTimeout]
       ELSE UNCHANGED <<worker_id, lease_expiry, until>>
    /\ pending' = [pending EXCEPT ![w] = None]
    /\ UNCHANGED <<now, beating, dead>>

-----------------------------------------------------------------------------
(* The heartbeat loop and renew_heartbeat *)

\* _start_heartbeat: nothing asks whether the worker holds the lease.
StartHeartbeat(w) ==
    /\ Idle(w)
    /\ w \notin beating
    /\ beating' = beating \cup {w}
    /\ UNCHANGED <<now, worker_id, lease_expiry, pending, until, dead>>

\* HeartbeatManager.stop
StopHeartbeat(w) ==
    /\ Idle(w)
    /\ w \in beating
    /\ beating' = beating \ {w}
    /\ UNCHANGED <<now, worker_id, lease_expiry, pending, until, dead>>

\* The sleep is over: renew_heartbeat reads the clock and the row's timeout.
BeginRenew(w) ==
    /\ Idle(w)
    /\ w \in beating
    /\ pending' = [pending EXCEPT ![w] = [op |-> "renew", at |-> now]]
    /\ UNCHANGED <<now, worker_id, lease_expiry, beating, until, dead>>

\* Mutation of FinishRenew: the UPDATE without its owner condition.
RenewsAnyLease(w) ==
    /\ pending[w] # None
    /\ pending[w].op = "renew"
    /\ lease_expiry' = pending[w].at + LeaseTimeout
    /\ until' = [until EXCEPT ![w] = pending[w].at + LeaseTimeout]
    /\ pending' = [pending EXCEPT ![w] = None]
    /\ UNCHANGED <<now, worker_id, beating, dead>>

\* UPDATE .. WHERE worker_id = w: expiry and status are not looked at.  A row
\* count of 0 ends the loop.
FinishRenew(w) ==
    /\ pending[w] # None
    /\ pending[w].op = "renew"
    /\ IF worker_id = w
       THEN /\ lease_expiry' = pending[w].at + LeaseTimeout
            /\ until' = [until EXCEPT ![w] = pending[w].at + LeaseTimeout]
            /\ UNCHANGED beating
       ELSE /\ beating' = beating \ {w}
            /\ UNCHANGED <<lease_expiry, until>>
    /\ pending' = [pending EXCEPT ![w] = None]
    /\ UNCHANGED <<now, worker_id, dead>>

-----------------------------------------------------------------------------
(* release_lease, process death, time *)

\* UPDATE .. SET worker_id=NULL, lease_expiry=NULL WHERE worker_id = w.  The
\* caller acts as a non-owner from here on, whatever the row count.
ReleaseLease(w) ==
    /\ Idle(w)
    /\ IF worker_id = w
       THEN worker_id' = None /\ lease_expiry' = None
       ELSE UNCHANGED <<worker_id, lease_expiry>>
    /\ until' = [until EXCEPT ![w] = Never]
    /\ UNCHANGED <<now, pending, beating, dead>>

\* The process dies between any two commits; the row keeps its columns.
Crash(w) ==
    /\ w \notin dead
    /\ dead' = dead \cup {w}
    /\ pending' = [pending EXCEPT ![w] = None]
    /\ beating' = beating \ {w}
    /\ until' = [until EXCEPT ![w] = Never]
    /\ UNCHANGED <<now, worker_id, lease_expiry>>

Tick ==
    /\ now < MaxTime
    /\ now' = now + 1
    /\ UNCHANGED <<worker_id, lease_expiry, pending, beating, until, dead>>

LeaseNext ==
    \/ Tick
    \/ \E w \in Workers :
        \/ BeginAcquire(w) \/ FinishAcquire(w)
        \/ StartHeartbeat(w) \/ StopHeartbeat(w)
        \/ BeginRenew(w) \/ FinishRenew(w)
        \/ ReleaseLease(w) \/ Crash(w)

LeaseSpec == LeaseInit /\ [][LeaseNext]_leaseVars

-----------------------------------------------------------------------------
(* Properties *)

\* w may still act as the owner: the expiry it wrote has not passed.
Holds(w) == until[w] >= now

\* Every worker that may act as the owner is the row's owner until exactly
\* the moment it believes.
LeaseMatchesRow ==
    \A w \in Workers : Holds(w) => worker_id = w /\ lease_expiry = until[w]

\* Two workers never act on one session at the same time, however old the
\* clock readings their UPDATEs carry are.
LeaseExclusive ==
    \A v, w \in Workers : Holds(v) /\ Holds(w) => v = w

\* An owner loses the row only by releasing it or by letting it expire: no
\* other worker's call takes a lease that is still running.
NoLeaseStolen ==
    [][\A w \in Workers :
         Holds(w) /\ worker_id' # w => until'[w] = Never]_leaseVars

\* The two columns are set and cleared together, so acquire_lease's "worker_id
\* IS NULL" and "lease_expiry IS NULL" never disagree.
ColumnsTogether == worker_id = None <=> lease_expiry = None

\* An UPDATE never carries a clock reading from the future.
ReadingsPast == \A w \in Workers : pending[w] # None => pending[w].at <= now
=============================================================================
