-------------------------- MODULE ApprovalGate_proof --------------------------
(***************************************************************************)
(* A gate opens on the row it asked for, and that row stays approved: every*)
(* writer of the table leaves a decided row alone (DecidedStay), and a gate*)
(* that is open asks no more, so its request stays the same one.           *)
(***************************************************************************)
EXTENDS ApprovalGate, TLAPS

Row == [status : RequestStatus, left : 0..Never]

GateInv == TypeOK /\ NothingUnapproved

(* What the helpers return.                                                *)

LEMMA RequestIds ==
    ASSUME TypeOK, NEW n \in Nodes
    PROVE  Request(n) \in Ids
<1>1. CASE n \in Asking
  BY <1>1 DEF Request, Ids
<1>2. CASE n \notin Asking
  <2>1. n \in Desktop /\ retries[n] \in 0..MaxRetries
    BY <1>2 DEF Nodes, TypeOK
  <2> QED BY <1>2, <2>1 DEF Request, Ids, Fresh
<1> QED BY <1>1, <1>2

LEMMA CreateKeeps ==
    ASSUME row \in [Ids -> Row], NEW i \in Ids,
           NEW left \in {Ttl, Never}
    PROVE  /\ Create(i, left) \in [Ids -> Row]
           /\ \A j \in Ids : row[j].status # "absent" => Create(i, left)[j] = row[j]
           /\ \A j \in Ids : Create(i, left)[j].status \in {row[j].status, "pending"}
<1>1. NewRequest(left) \in Row
  BY BoundsAssumption DEF NewRequest, Row, RequestStatus, Never
<1>2. NewRequest(left).status = "pending"
  BY DEF NewRequest
<1>3. CASE row[i].status = "absent"
  <2>1. Create(i, left) = [row EXCEPT ![i] = NewRequest(left)]
    BY <1>3 DEF Create
  <2>2. \A j \in Ids : Create(i, left)[j] =
                           IF j = i THEN NewRequest(left) ELSE row[j]
    BY <2>1
  <2> QED BY <1>1, <1>2, <1>3, <2>1, <2>2
<1>4. CASE row[i].status # "absent"
  BY <1>4 DEF Create
<1> QED BY <1>3, <1>4

LEMMA DecideKeeps ==
    ASSUME NEW r \in Row, NEW decision \in Decided
    PROVE  Decide(r, decision) \in Row /\ Decide(r, decision).status = decision
<1>1. Never \in 0..Never /\ decision \in RequestStatus
  BY BoundsAssumption DEF Never, RequestStatus
<1> QED BY <1>1 DEF Decide, Row

LEMMA FailsTypes ==
    ASSUME TypeOK, NEW n \in Nodes, NEW class \in Classes, Fails(n, class)
    PROVE  /\ pc' \in [Gates -> Phases] /\ pc'[n] # "approved"
           /\ \A g \in Gates \ {n} : pc'[g] = pc[g]
           /\ retries' \in [Nodes -> 0..MaxRetries]
           /\ \A m \in Nodes \ {n} : retries'[m] = retries[m]
           /\ history' \in [Steps -> Classes]
<1>1. n \in Gates /\ retries[n] \in 0..MaxRetries /\ MaxRetries \in Nat
  BY BoundsAssumption DEF Gates, TypeOK
<1>2. Retried(n, class) => retries[n] + 1 \in 0..MaxRetries
  BY <1>1 DEF Retried
<1>3. history' \in [Steps -> Classes]
  BY DEF TypeOK, Fails
<1>4. CASE Retried(n, class)
  BY <1>1, <1>2, <1>3, <1>4 DEF TypeOK, Fails, Phases
<1>5. CASE ~Retried(n, class)
  BY <1>1, <1>3, <1>5 DEF TypeOK, Fails, Phases
<1> QED BY <1>4, <1>5

(* One fact per action: the types stay right, decided rows stay decided,   *)
(* and rows move along the life cycle of a request.                        *)

RowsMove ==
    \A i \in Ids :
        \/ row'[i].status = row[i].status
        \/ row[i].status = "absent" /\ row'[i].status = "pending"
        \/ row[i].status = "pending" /\ row'[i].status \in Decided

LEMMA CreateMoves ==
    ASSUME row \in [Ids -> Row], NEW i \in Ids,
           NEW left \in {Ttl, Never}, row' = Create(i, left)
    PROVE  row' \in [Ids -> Row] /\ RowsMove
<1>1. \A j \in Ids :
          \/ row'[j].status = row[j].status
          \/ row[j].status = "absent" /\ row'[j].status = "pending"
  BY CreateKeeps
<1> QED BY <1>1, CreateKeeps DEF RowsMove

LEMMA GateStep == GateInv /\ [Next]_vars => GateInv' /\ RowsMove
<1> SUFFICES ASSUME GateInv, [Next]_vars PROVE GateInv' /\ RowsMove
  OBVIOUS
<1> USE DEF GateInv
<1>0. row \in [Ids -> Row] /\ TypeOK
  BY DEF TypeOK, Row
<1>a. \A n \in Nodes : n \in Gates /\ Request(n) \in Ids
  BY <1>0, RequestIds DEF Gates
\* An open gate stands on an approved row; it is enough that it stays open
\* on the same request.
<1>b. ASSUME TypeOK', RowsMove,
             \A n \in Nodes : pc'[n] = "approved" =>
                 \/ pc[n] = "approved" /\ retries'[n] = retries[n]
                 \/ row[Request(n)].status = "approved" /\ retries'[n] = retries[n]
      PROVE  GateInv'
  <2>1. ASSUME NEW n \in Nodes, pc'[n] = "approved"
        PROVE  row'[Request(n)'].status = "approved"
    <3>1. row[Request(n)].status = "approved" /\ retries'[n] = retries[n]
      BY <1>b, <2>1 DEF NothingUnapproved
    <3>2. Request(n)' = Request(n)
      BY <3>1 DEF Request
    <3> QED BY <1>a, <1>b, <3>1, <3>2 DEF RowsMove, Decided
  <2> QED BY <1>b, <2>1 DEF NothingUnapproved
<1>1. ASSUME NEW i \in Ids, NEW answer \in {"approved", "denied"}, Respond(i, answer)
      PROVE  GateInv' /\ RowsMove
  <2>1. Decide(row[i], answer) \in Row /\ Decide(row[i], answer).status = answer
    BY <1>0, DecideKeeps DEF Decided
  <2>2. row' \in [Ids -> Row] /\ RowsMove
    BY <1>0, <1>1, <2>1 DEF Respond, RowsMove, Decided
  <2>3. TypeOK'
    BY <1>0, <1>1, <2>2 DEF Respond, TypeOK, Row
  <2> QED BY <1>1, <1>b, <2>2, <2>3 DEF Respond
<1>2. CASE CleanUp
  <2>1. \A i \in Ids : Decide(row[i], "expired") \in Row
                       /\ Decide(row[i], "expired").status = "expired"
    BY <1>0, DecideKeeps DEF Decided
  <2>2. row' \in [Ids -> Row] /\ RowsMove
    BY <1>0, <1>2, <2>1 DEF CleanUp, RowsMove, Decided, Expired
  <2>3. TypeOK'
    BY <1>0, <1>2, <2>2 DEF CleanUp, TypeOK, Row
  <2> QED BY <1>2, <1>b, <2>2, <2>3 DEF CleanUp
<1>3. ASSUME NEW i \in Ids, NEW j \in Unpolled, Reopen(i, j)
      PROVE  GateInv' /\ RowsMove
  <2>1. j \in Ids /\ row' = Create(j, Ttl)
    BY <1>3 DEF Ids, Reopen
  <2>2. row' \in [Ids -> Row] /\ RowsMove
    BY <1>0, <2>1, CreateMoves
  <2>3. TypeOK'
    BY <1>0, <1>3, <2>2 DEF Reopen, TypeOK, Row
  <2> QED BY <1>3, <1>b, <2>2, <2>3 DEF Reopen
<1>4. ASSUME NEW n \in Desktop, AskDesktop(n)
      PROVE  GateInv' /\ RowsMove
  <2>1. n \in Nodes /\ n \in Gates
    BY DEF Nodes, Gates
  <2>2. row' \in [Ids -> Row] /\ RowsMove
    BY <1>0, <1>4, <1>a, <2>1, CreateMoves DEF AskDesktop
  <2>3. TypeOK'
    BY <1>0, <1>4, <2>1, <2>2, BoundsAssumption DEF AskDesktop, TypeOK, Row, Phases
  <2>4. \A m \in Nodes : pc'[m] = "approved" => pc[m] = "approved"
    BY <1>0, <1>4, <1>a, <2>1 DEF AskDesktop, TypeOK
  <2> QED BY <1>4, <1>b, <2>2, <2>3, <2>4 DEF AskDesktop
<1>5. ASSUME NEW n \in Desktop, Poll(n)
      PROVE  GateInv' /\ RowsMove
  <2>1. n \in Nodes /\ n \in Gates
    BY DEF Nodes, Gates
  <2>2. row' = row /\ restarts' = restarts /\ RowsMove
    BY <1>5 DEF Poll, RowsMove
  <2>3. CASE sleeps[n] < Ttl /\ pc' = [pc EXCEPT ![n] = "asleep"]
             /\ sleeps' = [sleeps EXCEPT ![n] = @ + 1] /\ UNCHANGED <<retries, history>>
    <3>1. sleeps[n] + 1 \in 0..Ttl
      BY <1>0, <2>3, BoundsAssumption DEF TypeOK
    <3>2. TypeOK'
      BY <1>0, <2>1, <2>2, <2>3, <3>1 DEF TypeOK, Phases
    <3>3. \A m \in Nodes : pc'[m] = "approved" => pc[m] = "approved"
      BY <1>0, <1>a, <2>1, <2>3 DEF TypeOK
    <3> QED BY <1>b, <2>2, <2>3, <3>2, <3>3
  <2>4. CASE row[Request(n)].status = "approved" /\ pc' = [pc EXCEPT ![n] = "approved"]
             /\ UNCHANGED <<sleeps, retries, history>>
    <3>1. TypeOK'
      BY <1>0, <2>1, <2>2, <2>4 DEF TypeOK, Phases
    <3>2. \A m \in Nodes : pc'[m] = "approved" =>
              pc[m] = "approved" \/ row[Request(m)].status = "approved"
      BY <1>0, <1>a, <2>1, <2>4 DEF TypeOK
    <3> QED BY <1>b, <2>2, <2>4, <3>1, <3>2
  <2>5. CASE Fails(n, "external_io") /\ UNCHANGED sleeps
    <3>1. "external_io" \in Classes
      BY DEF Classes
    <3>2. TypeOK'
      BY <1>0, <2>1, <2>2, <2>5, <3>1, FailsTypes DEF TypeOK
    <3>3. \A m \in Nodes : pc'[m] = "approved" =>
              pc[m] = "approved" /\ retries'[m] = retries[m]
      BY <1>0, <1>a, <2>1, <2>5, <3>1, FailsTypes
    <3> QED BY <1>b, <2>2, <3>2, <3>3
  <2> QED BY <1>5, <2>3, <2>4, <2>5 DEF Poll
<1>6. ASSUME NEW n \in Asking, NEW left \in {Ttl, Never}, AskShared(n, left)
      PROVE  GateInv' /\ RowsMove
  <2>1. n \in Nodes /\ n \in Gates /\ Request(n) = Shared /\ Shared \in Ids
    BY DEF Nodes, Gates, Request, Ids
  <2>2. row' \in [Ids -> Row] /\ RowsMove
    BY <1>0, <1>6, <2>1, CreateMoves DEF AskShared
  <2>3. sleeps' = sleeps /\ restarts' = restarts
    BY <1>6 DEF AskShared
  <2>4. CASE row[Shared].status \in Decided
    <3>1. /\ pc' = [pc EXCEPT ![n] =
                       IF row[Shared].status = "approved" THEN "approved" ELSE "refused"]
          /\ UNCHANGED <<retries, history>>
      BY <1>6, <2>4 DEF AskShared
    <3>2. TypeOK'
      BY <1>0, <2>1, <2>2, <2>3, <3>1 DEF TypeOK, Phases, Row
    <3>3. \A m \in Nodes : pc'[m] = "approved" =>
              pc[m] = "approved" \/ row[Request(m)].status = "approved"
      BY <1>0, <1>a, <2>1, <3>1 DEF TypeOK
    <3> QED BY <1>b, <2>2, <3>1, <3>2, <3>3
  <2>5. CASE row[Shared].status \notin Decided
    <3>1. Fails(n, "invalid_value") /\ "invalid_value" \in Classes
      BY <1>6, <2>5 DEF AskShared, Classes
    <3>2. TypeOK'
      BY <1>0, <2>1, <2>2, <2>3, <3>1, FailsTypes DEF TypeOK, Row
    <3>3. \A m \in Nodes : pc'[m] = "approved" =>
              pc[m] = "approved" /\ retries'[m] = retries[m]
      BY <1>0, <1>a, <2>1, <3>1, FailsTypes
    <3> QED BY <1>b, <2>2, <3>2, <3>3
  <2> QED BY <2>4, <2>5
<1>7. ASSUME NEW p \in Outside, AskPath(p)
      PROVE  GateInv' /\ RowsMove
  <2>1. PICK j \in Unpolled : row' = Create(j, Ttl)
    BY <1>7 DEF AskPath
  <2>2. p \in Gates /\ j \in Ids /\ p \notin Nodes
    BY GatesAssumption DEF Gates, Ids
  <2>3. row' \in [Ids -> Row] /\ RowsMove
    BY <1>0, <2>1, <2>2, CreateMoves
  <2>4. TypeOK'
    BY <1>0, <1>7, <2>2, <2>3 DEF AskPath, TypeOK, Row, Phases
  <2>5. \A m \in Nodes : pc'[m] = "approved" => pc[m] = "approved"
    BY <1>0, <1>7, <1>a, <2>2 DEF AskPath, TypeOK
  <2> QED BY <1>7, <1>b, <2>3, <2>4, <2>5 DEF AskPath
<1>8. CASE Tick
  <2>1. \A i \in Ids : row[i].left \notin {Past, Never} => row[i].left - 1 \in 0..Never
    BY <1>0, BoundsAssumption DEF Row, Past, Never
  <2>2. row' \in [Ids -> Row] /\ \A i \in Ids : row'[i].status = row[i].status
    BY <1>0, <1>8, <2>1 DEF Tick, Row
  <2>3. TypeOK' /\ \A n \in Nodes : pc'[n] = "approved" => pc[n] = "approved"
    BY <1>0, <1>8, <1>a, <2>2 DEF Tick, TypeOK, Row, Phases
  <2> QED BY <1>8, <1>b, <2>2, <2>3 DEF Tick, RowsMove
<1>9. CASE Restart
  <2>1. RowsMove
    BY <1>9 DEF Restart, RowsMove
  <2>2. TypeOK' /\ \A n \in Nodes : pc'[n] = "approved" => pc[n] = "approved"
    BY <1>0, <1>9, <1>a, BoundsAssumption DEF Restart, TypeOK, Phases, Classes
  <2> QED BY <1>9, <1>b, <2>1, <2>2 DEF Restart
<1>10. CASE UNCHANGED vars
  BY <1>10 DEF vars, TypeOK, NothingUnapproved, Request, RowsMove
<1> QED BY <1>1, <1>2, <1>3, <1>4, <1>5, <1>6, <1>7, <1>8, <1>9, <1>10 DEF Next

LEMMA GateInit == Init => GateInv
BY GatesAssumption, BoundsAssumption
   DEF Init, GateInv, TypeOK, NothingUnapproved, NoRequest, RequestStatus, Never,
       Phases, Classes, Gates

(***************************************************************************)
(* What a gate has let through stands approved, for every set of gates,    *)
(* every sharing of step ids and every number of retries and restarts.     *)
(***************************************************************************)
THEOREM GatesHold == Spec => [](TypeOK /\ NothingUnapproved)
<1>1. GateInv => TypeOK /\ NothingUnapproved
  BY DEF GateInv
<1> QED BY <1>1, GateInit, GateStep, PTL DEF Spec

\* Requests, retries, polls and phases keep their types.
THEOREM TypeCorrect == Spec => []TypeOK
BY GatesHold, PTL

(***************************************************************************)
(* Every request implements the abstract life cycle: answers, clean-up and *)
(* requests made again decide it once.                                     *)
(***************************************************************************)
THEOREM RequestsDecidedOnce == Spec => DecidedOnce
<1>1. Init => \A i \in Ids : Decision(i)!Init
  BY DEF Init, NoRequest, Decision!Init, Decided
<1>2. GateInv /\ [Next]_vars
        => [\A i \in Ids : [Decision(i)!Next]_(Decision(i)!vars)]_row
  <2> SUFFICES ASSUME GateInv, [Next]_vars, NEW i \in Ids
               PROVE  [Decision(i)!Next]_(Decision(i)!vars)
    OBVIOUS
  <2>1. RowsMove
    BY GateStep
  <2>2. CASE row'[i].status = row[i].status
    BY <2>2 DEF Decision!vars
  <2>3. CASE row[i].status = "absent" /\ row'[i].status = "pending"
    <3>1. Decision(i)!Move("pending")
      BY <2>3 DEF Decision!Move, Decided
    <3> QED BY <3>1 DEF Decision!Next
  <2>4. CASE row[i].status = "pending" /\ row'[i].status \in Decided
    <3>1. Decision(i)!Move(row'[i].status)
      BY <2>4 DEF Decision!Move, Decided
    <3> QED BY <2>4, <3>1 DEF Decision!Next, Decided
  <2> QED BY <2>1, <2>2, <2>3, <2>4 DEF RowsMove
<1>3. Spec => []GateInv
  BY GateInit, GateStep, PTL DEF Spec
<1> QED BY <1>1, <1>2, <1>3, PTL DEF Spec, DecidedOnce
=============================================================================
