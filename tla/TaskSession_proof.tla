------------------------- MODULE TaskSession_proof -------------------------
(***************************************************************************)
(* Proofs about the two halves of a task_sessions row: the status column   *)
(* under concurrent callers of transition() and the lease columns.  No     *)
(* UPDATE touches both, so they are two specifications, with variables of  *)
(* their own, proved side by side.                                         *)
(*                                                                         *)
(* The conditional UPDATE makes the status column linearizable: for every  *)
(* transition table, every set of callers and every interleaving of their  *)
(* reads and writes the row implements StatusLifecycle.  The strengthening *)
(* is CallsValid: what a caller carries from its read to its write is an   *)
(* edge of the table, so a write that still matches is a legal move.       *)
(*                                                                         *)
(* The lease is exclusive for any set of workers and any timeouts.         *)
(* Exclusion alone is not inductive: LeaseInv also says that a holder's    *)
(* belief is what the row shows, that the two columns agree, and that      *)
(* clock readings lie in the past (so that an acquirer with an old reading *)
(* cannot see a running lease as expired).                                 *)
(***************************************************************************)
EXTENDS StatusStore, SessionLease, TLAPS

-----------------------------------------------------------------------------
(* The status column *)


StoreInv == TypeOK /\ ReportedIsCurrent

LEMMA StoreInvInit == Init => StoreInv
<1> SUFFICES ASSUME Init PROVE StoreInv
  OBVIOUS
<1>1. hops \in [count : Nat, from : Statuses, to : Statuses] /\ hops.to = status
  BY InitialAssumption DEF Init
<1>2. \A c \in Callers : call[c] = NoCall
  BY DEF Init
<1>3. call \in [Callers -> [current : Statuses, target : Statuses] \cup {NoCall}]
  BY DEF Init
<1> QED BY <1>1, <1>2, <1>3, InitialAssumption
        DEF Init, StoreInv, TypeOK, CallsValid, ReportedIsCurrent

LEMMA StoreInvStep == StoreInv /\ [Next]_vars => StoreInv'
<1> SUFFICES ASSUME StoreInv, [Next]_vars PROVE StoreInv'
  OBVIOUS
<1> USE DEF StoreInv, TypeOK, CallsValid, ReportedIsCurrent
<1>1. ASSUME NEW c \in Callers, NEW target \in Statuses, BeginTransition(c, target)
      PROVE StoreInv'
  <2>1. [current |-> status, target |-> target]
          \in [current : Statuses, target : Statuses]
    OBVIOUS
  <2>2. target \in Table[status]
    BY <1>1 DEF BeginTransition, ValidTransition
  <2> QED BY <1>1, <2>1, <2>2, NoCallAssumption DEF BeginTransition
<1>2. ASSUME NEW c \in Callers, CommitTransition(c) PROVE StoreInv'
  <2>1. call[c] \in [current : Statuses, target : Statuses]
    BY <1>2 DEF CommitTransition, EndStamp
  <2>2. status' = call[c].target /\ hops'.to = call[c].target
    BY <1>2 DEF CommitTransition, EndStamp
  <2> QED BY <1>2, <2>1, <2>2 DEF CommitTransition, EndStamp
<1>3. ASSUME NEW c \in Callers, RejectTransition(c) PROVE StoreInv'
  BY <1>3 DEF RejectTransition
<1>4. CASE UNCHANGED vars
  BY <1>4 DEF vars
<1> QED BY <1>1, <1>2, <1>3, <1>4 DEF Next

(***************************************************************************)
(* Type correctness, and the last reported change is the row's status.     *)
(***************************************************************************)
THEOREM StoreInvariant == Spec => [](TypeOK /\ ReportedIsCurrent)
<1>1. StoreInv => TypeOK /\ ReportedIsCurrent
  BY DEF StoreInv
<1> QED BY <1>1, StoreInvInit, StoreInvStep, PTL DEF Spec

(***************************************************************************)
(* Every commit of transition() is one legal move of the abstract life     *)
(* cycle, everything else a stutter: concurrent callers can neither leave  *)
(* the table nor stamp the end early.                                      *)
(***************************************************************************)
THEOREM Refinement == Spec => ImplementsLifecycle
<1>1. Init => Lifecycle!Init
  BY DEF Init, Lifecycle!Init
<1>2. StoreInv /\ [Next]_vars => [Lifecycle!Next]_(Lifecycle!vars)
  <2> SUFFICES ASSUME StoreInv, [Next]_vars
               PROVE [Lifecycle!Next]_(Lifecycle!vars)
    OBVIOUS
  <2>1. ASSUME NEW c \in Callers, NEW target \in Statuses, BeginTransition(c, target)
        PROVE UNCHANGED Lifecycle!vars
    BY <2>1 DEF BeginTransition, Lifecycle!vars
  <2>2. ASSUME NEW c \in Callers, CommitTransition(c)
        PROVE Lifecycle!Next
    <3>1. /\ call[c] # NoCall
          /\ call[c] \in [current : Statuses, target : Statuses]
          /\ call[c].current = status
      BY <2>2 DEF CommitTransition, EndStamp, Matches, StoreInv, TypeOK
    <3>2. call[c].target \in Table[status]
      BY <3>1 DEF StoreInv, TypeOK, CallsValid
    <3>3. Lifecycle!Move(call[c].target)
      BY <2>2, <3>2 DEF CommitTransition, EndStamp, Lifecycle!Move
    <3> QED BY <3>1, <3>3 DEF Lifecycle!Next, Statuses
  <2>3. ASSUME NEW c \in Callers, RejectTransition(c)
        PROVE UNCHANGED Lifecycle!vars
    BY <2>3 DEF RejectTransition, Lifecycle!vars
  <2>4. CASE UNCHANGED vars
    BY <2>4 DEF vars, Lifecycle!vars
  <2> QED BY <2>1, <2>2, <2>3, <2>4 DEF Next
<1>3. Spec => []StoreInv
  BY StoreInvInit, StoreInvStep, PTL DEF Spec
<1> QED BY <1>1, <1>2, <1>3, PTL DEF Spec, ImplementsLifecycle, Lifecycle!Spec

(***************************************************************************)
(* The changes reported to callers form one chain of legal hops.           *)
(***************************************************************************)
THEOREM ChainOfReports == Spec => ReportedChain
<1>1. StoreInv /\ [Next]_vars => [hops' # hops => hops'.from = hops.to]_vars
  <2> SUFFICES ASSUME StoreInv, Next, hops' # hops
               PROVE hops'.from = hops.to
    OBVIOUS
  <2>1. PICK c \in Callers : CommitTransition(c)
    BY DEF Next, BeginTransition, RejectTransition
  <2>2. hops'.from = call[c].current /\ call[c].current = status
    BY <2>1 DEF CommitTransition, EndStamp, Matches
  <2> QED BY <2>2 DEF StoreInv, ReportedIsCurrent
<1>2. Spec => []StoreInv
  BY StoreInvInit, StoreInvStep, PTL DEF Spec
<1> QED BY <1>1, <1>2, PTL DEF Spec, ReportedChain

-----------------------------------------------------------------------------
(* The lease columns *)


LeaseInv == LeaseTypeOK /\ ReadingsPast /\ ColumnsTogether /\ LeaseMatchesRow

USE DEF Never

(***************************************************************************)
(* Every column and every worker's bookkeeping keeps its type.             *)
(***************************************************************************)
THEOREM LeaseTypeCorrect == LeaseSpec => []LeaseTypeOK
<1>1. LeaseInit => LeaseTypeOK
  BY DEF LeaseInit, LeaseTypeOK
<1>2. LeaseTypeOK /\ [LeaseNext]_leaseVars => LeaseTypeOK'
  <2> SUFFICES ASSUME LeaseTypeOK, [LeaseNext]_leaseVars PROVE LeaseTypeOK'
    OBVIOUS
  <2> USE TimeoutAssumption, NoneAssumption, CallAssumption DEF LeaseTypeOK
  <2>1. CASE Tick
    BY <2>1 DEF Tick
  <2>2. ASSUME NEW w \in Workers, BeginAcquire(w) PROVE LeaseTypeOK'
    BY <2>2 DEF BeginAcquire
  <2>3. ASSUME NEW w \in Workers, FinishAcquire(w) PROVE LeaseTypeOK'
    <3>1. pending[w] \in [op : {"acquire", "renew"}, at : Nat]
      BY <2>3 DEF FinishAcquire
    <3>2. pending[w].at \in Nat /\ pending[w].at + AcquireTimeout \in Nat
      BY <3>1
    <3> QED BY <2>3, <3>2 DEF FinishAcquire
  <2>4. ASSUME NEW w \in Workers, StartHeartbeat(w) \/ StopHeartbeat(w) PROVE LeaseTypeOK'
    BY <2>4 DEF StartHeartbeat, StopHeartbeat
  <2>5. ASSUME NEW w \in Workers, BeginRenew(w) PROVE LeaseTypeOK'
    BY <2>5 DEF BeginRenew
  <2>6. ASSUME NEW w \in Workers, FinishRenew(w) PROVE LeaseTypeOK'
    <3>1. pending[w] \in [op : {"acquire", "renew"}, at : Nat]
      BY <2>6 DEF FinishRenew
    <3>2. pending[w].at \in Nat /\ pending[w].at + LeaseTimeout \in Nat
      BY <3>1
    <3> QED BY <2>6, <3>2 DEF FinishRenew
  <2>7. ASSUME NEW w \in Workers, ReleaseLease(w) PROVE LeaseTypeOK'
    BY <2>7 DEF ReleaseLease
  <2>8. ASSUME NEW w \in Workers, Crash(w) PROVE LeaseTypeOK'
    BY <2>8 DEF Crash
  <2>9. CASE UNCHANGED leaseVars
    BY <2>9 DEF leaseVars
  <2> QED BY <2>1, <2>2, <2>3, <2>4, <2>5, <2>6, <2>7, <2>8, <2>9 DEF LeaseNext
<1> QED BY <1>1, <1>2, PTL DEF LeaseSpec

LEMMA LeaseInvInit == LeaseInit => LeaseInv
BY NoneAssumption DEF LeaseInit, LeaseInv, LeaseTypeOK, ReadingsPast, ColumnsTogether,
                      LeaseMatchesRow, Holds

(***************************************************************************)
(* The inductive step; LeaseTypeOK' is the first theorem's, so the cases are    *)
(* about the three other conjuncts.                                        *)
(***************************************************************************)
LEMMA LeaseInvStep == LeaseInv /\ LeaseTypeOK' /\ [LeaseNext]_leaseVars => LeaseInv'
<1> SUFFICES ASSUME LeaseInv, LeaseTypeOK', [LeaseNext]_leaseVars PROVE LeaseInv'
  OBVIOUS
<1> USE TimeoutAssumption, NoneAssumption, CallAssumption
        DEF LeaseInv, ReadingsPast, ColumnsTogether, LeaseMatchesRow, Holds
<1>1. CASE Tick
  BY <1>1 DEF Tick, LeaseTypeOK
<1>2. ASSUME NEW w \in Workers, BeginAcquire(w) PROVE LeaseInv'
  BY <1>2 DEF BeginAcquire, LeaseTypeOK
<1>3. ASSUME NEW w \in Workers, FinishAcquire(w) PROVE LeaseInv'
  <2>1. /\ pending[w] \in [op : {"acquire", "renew"}, at : Nat]
        /\ pending[w].at \in Nat /\ pending[w].at <= now
    BY <1>3 DEF FinishAcquire, LeaseTypeOK
  <2>2. ReadingsPast' /\ ColumnsTogether'
    BY <1>3, <2>1 DEF FinishAcquire, LeaseTypeOK
  <2>3. LeaseMatchesRow'
    <3>1. CASE ~Acquirable(pending[w].at)
      BY <1>3, <3>1 DEF FinishAcquire, LeaseTypeOK
    <3>2. CASE Acquirable(pending[w].at)
      <4>1. \A v \in Workers : ~Holds(v)
        BY <2>1, <3>2 DEF Acquirable, LeaseTypeOK
      <4>2. \A v \in Workers \ {w} : ~Holds(v)'
        BY <4>1, <1>3, <3>2 DEF FinishAcquire, LeaseTypeOK
      <4> QED BY <4>2, <1>3, <3>2 DEF FinishAcquire, LeaseTypeOK
    <3> QED BY <3>1, <3>2
  <2> QED BY <2>2, <2>3
<1>4. ASSUME NEW w \in Workers, StartHeartbeat(w) \/ StopHeartbeat(w)
      PROVE LeaseInv'
  BY <1>4 DEF StartHeartbeat, StopHeartbeat
<1>5. ASSUME NEW w \in Workers, BeginRenew(w) PROVE LeaseInv'
  BY <1>5 DEF BeginRenew, LeaseTypeOK
<1>6. ASSUME NEW w \in Workers, FinishRenew(w) PROVE LeaseInv'
  <2>1. /\ pending[w] \in [op : {"acquire", "renew"}, at : Nat]
        /\ pending[w].at + LeaseTimeout \in Nat
    BY <1>6 DEF FinishRenew, LeaseTypeOK
  <2>2. ReadingsPast' /\ ColumnsTogether'
    BY <1>6, <2>1 DEF FinishRenew, LeaseTypeOK
  <2>3. LeaseMatchesRow'
    <3>1. CASE worker_id = w
      BY <1>6, <3>1, <2>1 DEF FinishRenew, LeaseTypeOK
    <3>2. CASE worker_id # w
      BY <1>6, <3>2 DEF FinishRenew, LeaseTypeOK
    <3> QED BY <3>1, <3>2
  <2> QED BY <2>2, <2>3
<1>7. ASSUME NEW w \in Workers, ReleaseLease(w) PROVE LeaseInv'
  BY <1>7 DEF ReleaseLease, LeaseTypeOK
<1>8. ASSUME NEW w \in Workers, Crash(w) PROVE LeaseInv'
  BY <1>8 DEF Crash, LeaseTypeOK
<1>9. CASE UNCHANGED leaseVars
  BY <1>9 DEF leaseVars
<1> QED BY <1>1, <1>2, <1>3, <1>4, <1>5, <1>6, <1>7, <1>8, <1>9 DEF LeaseNext

(***************************************************************************)
(* LeaseInv holds in every reachable state.                                *)
(***************************************************************************)
THEOREM LeaseInvariant == LeaseSpec => []LeaseInv
BY LeaseTypeCorrect, LeaseInvInit, LeaseInvStep, PTL DEF LeaseSpec

(***************************************************************************)
(* No two workers act as the owner of one session at the same time: the    *)
(* guarantee acquire_lease's conditional UPDATE is there to give.          *)
(***************************************************************************)
THEOREM LeaseSafety == LeaseSpec => []LeaseExclusive
<1>1. LeaseInv => LeaseExclusive
  BY DEF LeaseInv, LeaseMatchesRow, LeaseExclusive
<1> QED BY <1>1, LeaseInvariant, PTL

(***************************************************************************)
(* A running lease leaves its owner only by the owner's release or death.  *)
(***************************************************************************)
THEOREM LeaseHandover == LeaseSpec => NoLeaseStolen
<1> DEFINE Kept == \A w \in Workers :
                     Holds(w) /\ worker_id' # w => until'[w] = Never
<1>1. LeaseInv /\ LeaseInv' /\ [LeaseNext]_leaseVars => [Kept]_leaseVars
  <2> SUFFICES ASSUME LeaseInv, LeaseNext PROVE Kept
    OBVIOUS
  <2> USE NoneAssumption, CallAssumption DEF LeaseInv, LeaseMatchesRow, Holds, LeaseTypeOK
  <2>1. CASE Tick
    BY <2>1 DEF Tick
  <2>2. ASSUME NEW w \in Workers, FinishAcquire(w) PROVE Kept
    BY <2>2 DEF FinishAcquire, Acquirable, ReadingsPast
  <2>3. ASSUME NEW w \in Workers,
               BeginAcquire(w) \/ BeginRenew(w) \/ FinishRenew(w)
               \/ StartHeartbeat(w) \/ StopHeartbeat(w)
        PROVE Kept
    BY <2>3 DEF BeginAcquire, BeginRenew, FinishRenew, StartHeartbeat, StopHeartbeat
  <2>4. ASSUME NEW w \in Workers, ReleaseLease(w) \/ Crash(w) PROVE Kept
    BY <2>4 DEF ReleaseLease, Crash
  <2> QED BY <2>1, <2>2, <2>3, <2>4 DEF LeaseNext
<1> QED BY <1>1, LeaseInvariant, PTL DEF LeaseSpec, NoLeaseStolen
=============================================================================
