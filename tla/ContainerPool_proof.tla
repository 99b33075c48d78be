------------------------- MODULE ContainerPool_proof -------------------------
(***************************************************************************)
(* The pool's safety for any number of containers and threads, any pool    *)
(* size, and whatever docker does.                                         *)
(*                                                                         *)
(* The argument is that the right to touch a container is handed over and  *)
(* never copied.  It is created once; it is then on its way into the       *)
(* queue, in the queue, held by one caller, or retired, never two of       *)
(* these.  The health thread may condemn a container at any time, but it   *)
(* only takes containers out of the collections acquire looks at.  What a  *)
(* caller gives back although it is not busy any more was condemned under  *)
(* it: it waits in broken_set, or docker has deleted it (CondemnedKnown).  *)
(***************************************************************************)
EXTENDS ContainerPool, FiniteSetTheorems, TLAPS

HolderPhases == {"using", "releasing", "returning", "breaking", "retiring"}

Shape ==
    /\ ready \in SUBSET Containers
    /\ creating \in SUBSET Containers
    /\ draining \in SUBSET Containers
    /\ docker \in [Containers -> {"absent", "running", "stopped", "removed"}]
    /\ at \in [Callers -> CallerPhases]
    /\ held \in [Callers -> Containers \cup {None}]
    /\ marked \in Containers \cup {None}

\* Exactly the callers between acquire and the end of release hold a container.
HoldersHold == \A k \in Callers : held[k] # None <=> at[k] \in HolderPhases

\* What docker does not have yet is nowhere.
AbsentNowhere ==
    \A c \in Containers : docker[c] = "absent" =>
        /\ c \notin ready \cup creating \cup draining
        /\ \A k \in Callers : held[k] # c

\* A container that is held is neither queued nor on its way there.
HeldApart == \A k \in Callers : held[k] \notin ready \cup creating

\* A container on its way to the queue is not in it yet, and not retired.
CreatingApart == creating \cap (ready \cup draining) = {}

\* Who uses a container that is not busy any more uses a condemned one.
CondemnedKnown ==
    \A k \in Callers :
        at[k] = "using" /\ held[k] \notin busy \cup Flaky =>
            held[k] \in broken \/ docker[held[k]] = "removed"

IInv ==
    /\ Shape
    /\ HoldersHold
    /\ AbsentNowhere
    /\ HeldApart
    /\ CreatingApart
    /\ CondemnedKnown
    /\ ExclusiveUse
    /\ BusyHasUser
    /\ NoneForgotten
    /\ RetiredUnused

\* The pool starts empty.
THEOREM InitInv == Init => IInv
BY NoneAssumption DEF Init, IInv, Shape, HoldersHold, AbsentNowhere, HeldApart, CreatingApart,
       CondemnedKnown, ExclusiveUse, BusyHasUser, NoneForgotten, RetiredUnused,
       HolderPhases, CallerPhases

\* Every step of a caller, a spawn thread, the health thread or docker keeps it.
LEMMA Step == ASSUME IInv, [Next]_vars PROVE IInv'
<1> USE NoneAssumption DEF IInv, Shape, HoldersHold, AbsentNowhere, HeldApart, CreatingApart,
        CondemnedKnown, ExclusiveUse, BusyHasUser, NoneForgotten, RetiredUnused, InTransit,
        HolderPhases, CallerPhases, sets, callerVars, healthVars
<1>1. ASSUME NEW k \in Callers, Call(k) PROVE IInv'
    BY <1>1 DEF Call
<1>2. ASSUME NEW k \in Callers, TakeReady(k) PROVE IInv'
    BY <1>2 DEF TakeReady
<1>3. ASSUME NEW k \in Callers, NeedRescue(k) PROVE IInv'
    BY <1>3 DEF NeedRescue
<1>4. ASSUME NEW k \in Callers, RescueFails(k) PROVE IInv'
    BY <1>4 DEF RescueFails
<1>5. ASSUME NEW k \in Callers, GiveUp(k) PROVE IInv'
    BY <1>5 DEF GiveUp
<1>6. ASSUME NEW k \in Callers, BeginRelease(k) PROVE IInv'
    BY <1>6 DEF BeginRelease, Leave
<1>7. ASSUME NEW k \in Callers, DecideBroken(k) PROVE IInv'
    BY <1>7 DEF DecideBroken, Decide
<1>8. ASSUME NEW k \in Callers, DecideWorn(k) PROVE IInv'
    BY <1>8 DEF DecideWorn, Decide
<1>9. ASSUME NEW k \in Callers, DecideReady(k) PROVE IInv'
    BY <1>9 DEF DecideReady, Decide
<1>10. ASSUME NEW k \in Callers, Return(k) PROVE IInv'
    BY <1>10 DEF Return, Leave
<1>11. ASSUME NEW k \in Callers, Break(k) PROVE IInv'
    BY <1>11 DEF Break, BreakEntry, Leave
<1>12. ASSUME NEW k \in Callers, Retire(k) PROVE IInv'
    BY <1>12 DEF Retire, Leave
<1>13. ASSUME NEW k \in Callers, NEW c \in Containers, Rescue(k, c) PROVE IInv'
    BY <1>13 DEF Rescue
<1>14. ASSUME NEW c \in Containers, Spawn(c) PROVE IInv'
    BY <1>14 DEF Spawn
<1>15. ASSUME NEW c \in Containers, SpawnReady(c) PROVE IInv'
    BY <1>15 DEF SpawnReady
<1>16. ASSUME NEW c \in Containers, SpawnFails(c) PROVE IInv'
    BY <1>16 DEF SpawnFails, Remove
<1>17. ASSUME NEW c \in Containers, LoseCreated(c) PROVE IInv'
    BY <1>17 DEF LoseCreated
<1>18. ASSUME NEW c \in Containers, Crash(c) PROVE IInv'
    BY <1>18 DEF Crash
<1>19. ASSUME NEW c \in Containers, MarkSuspect(c) PROVE IInv'
    BY <1>19 DEF MarkSuspect
<1>20. ASSUME NEW c \in Containers, CleanOne(c) PROVE IInv'
    BY <1>20 DEF CleanOne
<1>21. ASSUME SpawnGivesUp PROVE IInv'
    BY <1>21 DEF SpawnGivesUp
<1>22. ASSUME SnapshotReady PROVE IInv'
    BY <1>22 DEF SnapshotReady, Round
<1>23. ASSUME CheckReady PROVE IInv'
    BY <1>23 DEF CheckReady, Round
<1>24. ASSUME DropCondemned PROVE IInv'
    BY <1>24 DEF DropCondemned, Round
<1>25. ASSUME BreakSuspect PROVE IInv'
    BY <1>25 DEF BreakSuspect, BreakEntry
<1>26. ASSUME DrainExpired PROVE IInv'
    BY <1>26 DEF DrainExpired, Round
<1>27. ASSUME SnapshotBroken PROVE IInv'
    BY <1>27 DEF SnapshotBroken, Round
<1>28. ASSUME RemoveCleaned PROVE IInv'
    BY <1>28 DEF RemoveCleaned, Remove
<1>29. ASSUME CleanDrained PROVE IInv'
    BY <1>29 DEF CleanDrained, Remove, Round
<1>30. ASSUME Replenish PROVE IInv'
    BY <1>30 DEF Replenish, Round
<1>31. CASE UNCHANGED vars
    BY <1>31 DEF vars
<1> HIDE DEF IInv
<1>32. ASSUME NEW k \in Callers, Acquiring(k) PROVE IInv'
    BY <1>2, <1>3, <1>4, <1>5, <1>13, <1>32 DEF Acquiring
<1>33. ASSUME NEW k \in Callers, Releasing(k) PROVE IInv'
    BY <1>6, <1>7, <1>8, <1>9, <1>10, <1>11, <1>12, <1>33 DEF Releasing
<1>34. ASSUME NEW c \in Containers, Spawning(c) PROVE IInv'
    BY <1>14, <1>15, <1>16, <1>34 DEF Spawning
<1>35. CASE Health
    BY <1>19, <1>20, <1>22, <1>23, <1>24, <1>25, <1>26, <1>27, <1>28, <1>29, <1>30, <1>35
       DEF Health
<1> QED
    BY <1>1, <1>17, <1>18, <1>21, <1>31, <1>32, <1>33, <1>34, <1>35 DEF Next

\* The invariant holds in every state the pool can reach.
THEOREM PoolInvariant == Spec => []IInv
<1>1. Init => IInv
    BY InitInv
<1>2. IInv /\ [Next]_vars => IInv'
    BY Step
<1> QED
    BY <1>1, <1>2, PTL DEF Spec

\* Two executor threads never run code in the same container.
THEOREM Exclusive == Spec => []ExclusiveUse
<1>1. IInv => ExclusiveUse
    BY DEF IInv
<1> QED
    BY <1>1, PoolInvariant, PTL

\* busy_set holds no container whose user has gone.
THEOREM NoBusyLeak == Spec => []BusyHasUser
<1>1. IInv => BusyHasUser
    BY DEF IInv
<1> QED
    BY <1>1, PoolInvariant, PTL

\* No container of a docker that does as it is told is forgotten.
THEOREM NoContainerLost == Spec => []NoneForgotten
<1>1. IInv => NoneForgotten
    BY DEF IInv
<1> QED
    BY <1>1, PoolInvariant, PTL

\* A container being retired is neither in use nor on offer.
THEOREM RetiredSafe == Spec => []RetiredUnused
<1>1. IInv => RetiredUnused
    BY DEF IInv
<1> QED
    BY <1>1, PoolInvariant, PTL

\* What a caller past acquire holds is a container, out of acquire's reach, and
\* out of busy_set once release has begun.
LEMMA HeldFacts ==
    ASSUME IInv, TypeOK, NEW k \in Callers, at[k] \in HolderPhases
    PROVE  /\ held[k] \in Containers
           /\ held[k] \notin ready \cup creating
           /\ at[k] # "using" => held[k] \notin busy
BY NoneAssumption DEF IInv, TypeOK, HoldersHold, HeldApart, BusyHasUser, ExclusiveUse

\* A container docker does not have yet is in none of acquire's collections.
LEMMA AbsentFacts ==
    ASSUME IInv, NEW c \in Containers, docker[c] = "absent"
    PROVE  c \notin ready \cup creating \cup busy
BY DEF IInv, AbsentNowhere, BusyHasUser

\* However many replacement threads start, their number keeps its type.
LEMMA SpawnsBounded ==
    ASSUME spawns \in 0..MaxSpawns, NEW n \in Nat
    PROVE  MoreSpawns(n) \in 0..MaxSpawns
BY SizeAssumption DEF MoreSpawns

\* The collections hold what they may hold, and acquire's three are disjoint.
LEMMA TypeStep == ASSUME IInv, TypeOK, [Next]_vars PROVE TypeOK'
<1> USE NoneAssumption, SizeAssumption DEF TypeOK, ContainerState, HealthPhases, CallerPhases,
        SetState, sets, callerVars, healthVars
<1>1. ASSUME NEW k \in Callers, Call(k) PROVE TypeOK'
    BY <1>1 DEF Call
<1>2. ASSUME NEW k \in Callers, TakeReady(k) PROVE TypeOK'
    BY <1>2 DEF TakeReady
<1>3. ASSUME NEW k \in Callers, NeedRescue(k) PROVE TypeOK'
    BY <1>3 DEF NeedRescue
<1>4. ASSUME NEW k \in Callers, RescueFails(k) PROVE TypeOK'
    BY <1>4 DEF RescueFails
<1>5. ASSUME NEW k \in Callers, GiveUp(k) PROVE TypeOK'
    BY <1>5 DEF GiveUp
<1>6. ASSUME NEW k \in Callers, BeginRelease(k) PROVE TypeOK'
    BY <1>6 DEF BeginRelease, Leave
<1>7. ASSUME NEW k \in Callers, DecideBroken(k) PROVE TypeOK'
    BY <1>7 DEF DecideBroken, Decide
<1>8. ASSUME NEW k \in Callers, DecideWorn(k) PROVE TypeOK'
    BY <1>8 DEF DecideWorn, Decide
<1>9. ASSUME NEW k \in Callers, DecideReady(k) PROVE TypeOK'
    BY <1>9 DEF DecideReady, Decide
<1>10. ASSUME NEW k \in Callers, Return(k) PROVE TypeOK'
    BY <1>10, HeldFacts DEF Return, Leave, HolderPhases
<1>11. ASSUME NEW k \in Callers, Break(k) PROVE TypeOK'
    BY <1>11, HeldFacts, SpawnsBounded DEF Break, BreakEntry, Leave, HolderPhases
<1>12. ASSUME NEW k \in Callers, Retire(k) PROVE TypeOK'
    BY <1>12, HeldFacts, SpawnsBounded DEF Retire, Leave, HolderPhases
<1>13. ASSUME NEW k \in Callers, NEW c \in Containers, Rescue(k, c) PROVE TypeOK'
    BY <1>13, AbsentFacts DEF Rescue
<1>14. ASSUME NEW c \in Containers, Spawn(c) PROVE TypeOK'
    BY <1>14, AbsentFacts DEF Spawn
<1>15. ASSUME NEW c \in Containers, SpawnReady(c) PROVE TypeOK'
    BY <1>15 DEF SpawnReady
<1>16. ASSUME NEW c \in Containers, SpawnFails(c) PROVE TypeOK'
    BY <1>16 DEF SpawnFails, Remove
<1>17. ASSUME NEW c \in Containers, LoseCreated(c) PROVE TypeOK'
    BY <1>17 DEF LoseCreated
<1>18. ASSUME NEW c \in Containers, Crash(c) PROVE TypeOK'
    BY <1>18 DEF Crash
<1>19. ASSUME NEW c \in Containers, MarkSuspect(c) PROVE TypeOK'
    BY <1>19 DEF MarkSuspect
<1>20. ASSUME NEW c \in Containers, CleanOne(c) PROVE TypeOK'
    BY <1>20 DEF CleanOne
<1>21. ASSUME SpawnGivesUp PROVE TypeOK'
    BY <1>21 DEF SpawnGivesUp
<1>22. ASSUME SnapshotReady PROVE TypeOK'
    BY <1>22 DEF SnapshotReady, Round
<1>23. ASSUME CheckReady PROVE TypeOK'
    BY <1>23 DEF CheckReady, Round
<1>24. ASSUME DropCondemned PROVE TypeOK'
    BY <1>24 DEF DropCondemned, Round
<1>25. ASSUME BreakSuspect PROVE TypeOK'
    BY <1>25, SpawnsBounded DEF BreakSuspect, BreakEntry
<1>26. ASSUME DrainExpired PROVE TypeOK'
  <2>1. PICK old \in SUBSET ready : spawns' = MoreSpawns(Cardinality(old))
        BY <1>26 DEF DrainExpired
  <2>2. Cardinality(old) \in Nat
        BY ContainersAssumption, FS_Subset, FS_CardinalityType
  <2>3. spawns' \in 0..MaxSpawns
        BY <2>1, <2>2, SpawnsBounded
  <2>. QED
        BY <1>26, <2>3 DEF DrainExpired, Round
<1>27. ASSUME SnapshotBroken PROVE TypeOK'
    BY <1>27 DEF SnapshotBroken, Round
<1>28. ASSUME RemoveCleaned PROVE TypeOK'
    BY <1>28 DEF RemoveCleaned, Remove
<1>29. ASSUME CleanDrained PROVE TypeOK'
    BY <1>29 DEF CleanDrained, Remove, Round
<1>30. ASSUME Replenish PROVE TypeOK'
  <2>. DEFINE deficit == PoolSize - Cardinality(ready) - Cardinality(creating)
  <2>1. deficit \in Int
        BY ContainersAssumption, SizeAssumption, FS_Subset, FS_CardinalityType
  <2>2. spawns' = IF deficit > 0 THEN MoreSpawns(deficit) ELSE spawns
        BY <1>30 DEF Replenish
  <2>3. spawns' \in 0..MaxSpawns
        BY <2>1, <2>2, SpawnsBounded
  <2>. QED
        BY <1>30, <2>3 DEF Replenish, Round
<1>31. CASE UNCHANGED vars
    BY <1>31 DEF vars
<1> HIDE DEF TypeOK
<1>32. ASSUME NEW k \in Callers, Acquiring(k) PROVE TypeOK'
    BY <1>2, <1>3, <1>4, <1>5, <1>13, <1>32 DEF Acquiring
<1>33. ASSUME NEW k \in Callers, Releasing(k) PROVE TypeOK'
    BY <1>6, <1>7, <1>8, <1>9, <1>10, <1>11, <1>12, <1>33 DEF Releasing
<1>34. ASSUME NEW c \in Containers, Spawning(c) PROVE TypeOK'
    BY <1>14, <1>15, <1>16, <1>34 DEF Spawning
<1>35. CASE Health
    BY <1>19, <1>20, <1>22, <1>23, <1>24, <1>25, <1>26, <1>27, <1>28, <1>29, <1>30, <1>35
       DEF Health
<1> QED
    BY <1>1, <1>17, <1>18, <1>21, <1>31, <1>32, <1>33, <1>34, <1>35 DEF Next

\* Every variable keeps its type: in particular no container is in two of the
\* collections acquire looks at.
THEOREM TypeCorrect == Spec => []TypeOK
<1>1. Init => TypeOK
    BY NoneAssumption, SizeAssumption DEF Init, TypeOK, ContainerState, HealthPhases, CallerPhases
<1>2. IInv /\ TypeOK /\ [Next]_vars => TypeOK'
    BY TypeStep
<1> QED
    BY <1>1, <1>2, PoolInvariant, PTL DEF Spec

-----------------------------------------------------------------------------
(* Custody: the pool hands each container over the way a status store      *)
(* moves a row.  The abstract specification is the one the stores          *)
(* implement.                                                              *)

CustodyStates ==
    ({"absent", "creating", "ready", "gone"} \X {None}) \cup ({"held"} \X Callers)

\* Who may hand over to whom.  Never one caller to another, never back to a
\* caller once the pool has let the container go.
HandOvers ==
    {<<"absent", "creating">>, <<"absent", "held">>, <<"absent", "gone">>,
     <<"creating", "ready">>, <<"creating", "gone">>,
     <<"ready", "held">>, <<"ready", "gone">>,
     <<"held", "ready">>, <<"held", "gone">>}

Gone == <<"gone", None>>

HeldBy(k, c) == held[k] = c

\* Who has container c now.  Gone is what no caller can get any more: broken,
\* retired, removed or lost.
Custody(c) ==
    IF docker[c] = "absent" THEN <<"absent", None>>
    ELSE IF c \in creating THEN <<"creating", None>>
    ELSE IF c \in ready THEN <<"ready", None>>
    ELSE IF \E k \in Callers : HeldBy(k, c)
         THEN <<"held", CHOOSE k \in Callers : HeldBy(k, c)>>
    ELSE Gone

CustodyOf(c) == INSTANCE StatusLifecycle WITH
    Table <- [s \in CustodyStates |-> {t \in CustodyStates : <<s[1], t[1]>> \in HandOvers}],
    Initial <- <<"absent", None>>,
    Ending <- {Gone},
    status <- Custody(c),
    ended <- Custody(c) = Gone

\* What of the state decides a custody, and how.
CustodyIs(c) ==
    /\ docker[c] = "absent" => Custody(c) = <<"absent", None>>
    /\ c \in creating => Custody(c) = <<"creating", None>>
    /\ c \in ready => Custody(c) = <<"ready", None>>
    /\ \A k \in Callers : HeldBy(k, c) => Custody(c) = <<"held", k>>
    /\ \/ docker[c] = "absent" \/ c \in creating \/ c \in ready
       \/ \E k \in Callers : HeldBy(k, c)
       \/ Custody(c) = Gone

CustodiesClear == \A c \in Containers : CustodyIs(c)

\* The invariant makes the four kinds of custody exclude each other.
LEMMA CustodyFacts == IInv => CustodiesClear
<1> SUFFICES ASSUME IInv, NEW c \in Containers PROVE CustodyIs(c)
    BY DEF CustodiesClear
<1>1. ASSUME NEW k \in Callers, HeldBy(k, c) PROVE Custody(c) = <<"held", k>>
  <2>1. \A j \in Callers : HeldBy(j, c) => j = k
    BY <1>1, NoneAssumption DEF IInv, ExclusiveUse, HeldBy
  <2>2. (CHOOSE j \in Callers : HeldBy(j, c)) = k
    BY <1>1, <2>1
  <2>3. docker[c] # "absent" /\ c \notin creating \cup ready
    BY <1>1 DEF IInv, AbsentNowhere, HeldApart, HeldBy
  <2> QED BY <1>1, <2>2, <2>3 DEF Custody
<1>2. docker[c] = "absent" => Custody(c) = <<"absent", None>>
  BY DEF Custody
<1>3. c \in creating => Custody(c) = <<"creating", None>>
  BY DEF Custody, IInv, AbsentNowhere
<1>4. c \in ready => Custody(c) = <<"ready", None>>
  BY DEF Custody, IInv, AbsentNowhere, CreatingApart
<1>5. \/ docker[c] = "absent" \/ c \in creating \/ c \in ready
      \/ \E k \in Callers : HeldBy(k, c)
      \/ Custody(c) = Gone
  BY DEF Custody
<1> QED BY <1>1, <1>2, <1>3, <1>4, <1>5 DEF CustodyIs

\* Wherever container c is after a step, it was there before, or where it could
\* be taken from.  (What a step may let go of, Gone, needs no source.)
HandedOver(c) ==
    /\ docker'[c] = "absent" => docker[c] = "absent"
    /\ c \in creating' => c \in creating \/ docker[c] = "absent"
    /\ c \in ready' => c \in ready \cup creating \/ \E k \in Callers : HeldBy(k, c)
    /\ \A k \in Callers : held'[k] = c => HeldBy(k, c) \/ c \in ready \/ docker[c] = "absent"

\* So it is for every step of a caller, a spawn thread, the health thread and docker.
LEMMA HandOverStep ==
    ASSUME IInv, [Next]_vars, NEW c \in Containers PROVE HandedOver(c)
<1> USE NoneAssumption DEF IInv, Shape, HoldersHold, HandedOver, HeldBy, HolderPhases,
        sets, callerVars, healthVars
<1>1. ASSUME NEW k \in Callers, Call(k) PROVE HandedOver(c)
    BY <1>1 DEF Call
<1>2. ASSUME NEW k \in Callers, TakeReady(k) PROVE HandedOver(c)
    BY <1>2 DEF TakeReady
<1>3. ASSUME NEW k \in Callers, NeedRescue(k) PROVE HandedOver(c)
    BY <1>3 DEF NeedRescue
<1>4. ASSUME NEW k \in Callers, RescueFails(k) PROVE HandedOver(c)
    BY <1>4 DEF RescueFails
<1>5. ASSUME NEW k \in Callers, GiveUp(k) PROVE HandedOver(c)
    BY <1>5 DEF GiveUp
<1>6. ASSUME NEW k \in Callers, BeginRelease(k) PROVE HandedOver(c)
    BY <1>6 DEF BeginRelease, Leave
<1>7. ASSUME NEW k \in Callers, DecideBroken(k) \/ DecideWorn(k) \/ DecideReady(k)
      PROVE  HandedOver(c)
    BY <1>7 DEF DecideBroken, DecideWorn, DecideReady, Decide
<1>8. ASSUME NEW k \in Callers, Return(k) PROVE HandedOver(c)
    BY <1>8 DEF Return, Leave
<1>9. ASSUME NEW k \in Callers, Break(k) PROVE HandedOver(c)
    BY <1>9 DEF Break, BreakEntry, Leave
<1>10. ASSUME NEW k \in Callers, Retire(k) PROVE HandedOver(c)
    BY <1>10 DEF Retire, Leave
<1>11. ASSUME NEW k \in Callers, NEW d \in Containers, Rescue(k, d) PROVE HandedOver(c)
    BY <1>11 DEF Rescue
<1>12. ASSUME NEW d \in Containers, Spawn(d) PROVE HandedOver(c)
    BY <1>12 DEF Spawn
<1>13. ASSUME NEW d \in Containers, SpawnReady(d) PROVE HandedOver(c)
    BY <1>13 DEF SpawnReady
<1>14. ASSUME NEW d \in Containers, SpawnFails(d) PROVE HandedOver(c)
    BY <1>14 DEF SpawnFails, Remove
<1>15. ASSUME NEW d \in Containers, LoseCreated(d) \/ Crash(d) PROVE HandedOver(c)
    BY <1>15 DEF LoseCreated, Crash
<1>16. ASSUME NEW d \in Containers, MarkSuspect(d) \/ CleanOne(d) PROVE HandedOver(c)
    BY <1>16 DEF MarkSuspect, CleanOne
<1>17. ASSUME SnapshotReady \/ CheckReady \/ DropCondemned \/ SnapshotBroken \/ Replenish
       PROVE  HandedOver(c)
    BY <1>17 DEF SnapshotReady, CheckReady, DropCondemned, SnapshotBroken, Replenish, Round
<1>18. ASSUME BreakSuspect \/ DrainExpired PROVE HandedOver(c)
    BY <1>18 DEF BreakSuspect, BreakEntry, DrainExpired, Round
<1>19. ASSUME RemoveCleaned \/ CleanDrained PROVE HandedOver(c)
    BY <1>19 DEF RemoveCleaned, CleanDrained, Remove, Round
<1>20. ASSUME SpawnGivesUp \/ UNCHANGED vars PROVE HandedOver(c)
    BY <1>20 DEF SpawnGivesUp, vars
<1> HIDE DEF IInv, HandedOver
<1> QED
    BY <1>1, <1>2, <1>3, <1>4, <1>5, <1>6, <1>7, <1>8, <1>9, <1>10, <1>11, <1>12, <1>13,
       <1>14, <1>15, <1>16, <1>17, <1>18, <1>19, <1>20
       DEF Next, Acquiring, Releasing, Spawning, Health

\* A hand-over is a step of the abstract specification.
LEMMA TableFacts ==
    ASSUME NEW s \in CustodyStates, NEW t \in CustodyStates, <<s[1], t[1]>> \in HandOvers,
           NEW c, Custody(c) = s, Custody(c)' = t
    PROVE  CustodyOf(c)!Next
<1>1. t \in [r \in CustodyStates |->
                {u \in CustodyStates : <<r[1], u[1]>> \in HandOvers}][s]
  OBVIOUS
<1>2. s # Gone
  BY DEF HandOvers, Gone
<1>3. (Custody(c) = Gone)' <=> (Custody(c) = Gone \/ t \in {Gone})
  BY <1>2
<1>4. CustodyOf(c)!Move(t)
  BY <1>1, <1>3 DEF CustodyOf!Move
<1> QED BY <1>4 DEF CustodyOf!Next

\* Every container, whatever its callers, the health thread, the spawn threads
\* and docker do and in whatever order: it is handed over along the table, one
\* hand at a time, and once the pool has let it go it is gone for good.
ContainersHandedOver ==
    /\ \A c \in Containers : CustodyOf(c)!Init
    /\ [][\A c \in Containers : [CustodyOf(c)!Next]_(CustodyOf(c)!vars)]_vars

\* For any containers and callers: the custody of each container implements the
\* abstract life cycle.
THEOREM CustodyFollowsLifecycle == Spec => ContainersHandedOver
<1>1. Init => \A c \in Containers : CustodyOf(c)!Init
  BY DEF Init, Custody, CustodyOf!Init, Gone
<1>2. IInv /\ CustodiesClear /\ CustodiesClear' /\ [Next]_vars
        => [\A c \in Containers : [CustodyOf(c)!Next]_(CustodyOf(c)!vars)]_vars
  <2> SUFFICES ASSUME IInv, CustodiesClear, CustodiesClear', [Next]_vars,
                      NEW c \in Containers
               PROVE  [CustodyOf(c)!Next]_(CustodyOf(c)!vars)
    OBVIOUS
  <2> DEFINE s == Custody(c)
             t == Custody(c)'
  <2>1. HandedOver(c) /\ CustodyIs(c) /\ CustodyIs(c)'
    BY HandOverStep DEF CustodiesClear
  <2>2. s \in CustodyStates /\ t \in CustodyStates
    BY <2>1 DEF CustodyIs, CustodyStates, Gone
  <2>3. s = t \/ <<s[1], t[1]>> \in HandOvers
    BY <2>1 DEF HandedOver, CustodyIs, HeldBy, HandOvers, Gone
  <2>4. CASE s = t
    BY <2>4 DEF CustodyOf!vars
  <2>5. CASE <<s[1], t[1]>> \in HandOvers
    BY <2>2, <2>5, TableFacts
  <2> QED BY <2>3, <2>4, <2>5
<1>3. IInv => CustodiesClear
  BY CustodyFacts
<1> QED BY <1>1, <1>2, <1>3, PoolInvariant, PTL DEF Spec, ContainersHandedOver
=============================================================================
