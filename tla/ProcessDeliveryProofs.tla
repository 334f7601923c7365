------------------------ MODULE ProcessDeliveryProofs ------------------------
(***************************************************************************)
(* Machine-checked proofs about the bounded frontier, for every range,     *)
(* depth, ceiling, width and restored set ScheduleAssumption admits.  The  *)
(* iterator drives it by its own operations only, so what is proved of it  *)
(* holds in every process delivery, for every number of workers, ring      *)
(* capacity, batch size, policy and death.                                 *)
(* Then the books of the pool (PoolInv), the batches (BatchInv) and the    *)
(* reasons a loader is closed for (CloseInv), and the refinement of the    *)
(* abstract stream by the batches the user sees (FreshInv).                *)
(***************************************************************************)
EXTENDS ProcessDelivery, FiniteSetTheorems, TLAPS

-----------------------------------------------------------------------------
(* The frontier by itself.                                                  *)

(* The round-robin route is always below the live width.                   *)
LEMMA RouteInRange ==
    ASSUME NEW n \in Nat, NEW k \in Nat \ {0}
    PROVE  n % k \in 0..(k - 1)
  OBVIOUS

(* One step of any operation keeps the types.                              *)
LEMMA TypeStep == TypeOK /\ [Next]_vars => TypeOK'
<1> SUFFICES ASSUME TypeOK, [Next]_vars PROVE TypeOK'
  OBVIOUS
<1> USE ScheduleAssumption
<1>1. ASSUME NEW p \in Position, MarkDispatched(p) PROVE TypeOK'
  <2>1. Route \in Worker
    BY RouteInRange DEF Route, TypeOK, Worker
  <2> QED
    BY <1>1, <2>1 DEF MarkDispatched, TypeOK, PositionState
<1>2. ASSUME NEW p \in Position, NEW w \in Worker, MarkCompleted(p, w)
      PROVE  TypeOK'
  BY <1>2 DEF MarkCompleted, TypeOK, PositionState
<1>3. ASSUME NEW p \in Position, Commit(p) PROVE TypeOK'
  <2>1. next_commit' \in Start..End /\ delivered' \subseteq Position
    <3>1. CASE p = next_commit /\ AdvanceBase(p)
      BY <3>1 DEF AdvanceBase, TypeOK, Position
    <3>2. CASE p # next_commit /\ KeepBase(p)
      BY <3>2 DEF KeepBase, TypeOK
    <3> QED
      BY <1>3, <3>1, <3>2 DEF Commit, TryCommitReady
  <2>2. positions' \in [Position -> PositionState \cup {Absent}]
    BY <1>3 DEF Commit, TryCommitReady, TypeOK
  <2> QED
    BY <1>3, <2>1, <2>2 DEF Commit, TryCommitReady, TypeOK
<1>4. CASE RecordWait
  BY <1>4 DEF RecordWait, SetDepth, Grown, TypeOK
<1>5. ASSUME NEW n \in 1..WorkerCeiling, SetWorkerCount(n) PROVE TypeOK'
  <2>1. dispatch_ordinal % n \in Nat
    BY RouteInRange DEF TypeOK
  <2> QED
    BY <1>5, <2>1 DEF SetWorkerCount, TypeOK
<1>6. CASE UNCHANGED vars
  BY <1>6 DEF vars, TypeOK
<1> QED
  BY <1>1, <1>2, <1>3, <1>4, <1>5, <1>6 DEF Next

(* Type correctness of the frontier (static_frontier.rs, StaticSchedule).  *)
THEOREM TypeCorrect == Spec => []TypeOK
<1>1. Init => TypeOK
  BY ScheduleAssumption DEF Init, TypeOK, Position, Worker
<1> QED
  BY <1>1, TypeStep, PTL DEF Spec

(* Multiplying a depth by a positive factor never shrinks it.              *)
LEMMA GrowthMonotone ==
    ASSUME NEW d \in Nat, NEW m \in Nat \ {0}
    PROVE  d * m \in Nat /\ d <= d * m
  OBVIOUS

(* The part of OccupancyBound that speaks of the depth alone.              *)
DepthBound ==
    depth <= IF InitialDepth < Ceiling THEN Ceiling ELSE InitialDepth

(* The inductive invariant: the window, with the types and the depth bound *)
(* its steps rely on.                                                      *)
FrontierInv == TypeOK /\ FrontierWindow /\ DepthBound

LEMMA FrontierInit == Init => FrontierInv
  BY ScheduleAssumption
  DEF Init, FrontierInv, TypeOK, FrontierWindow, DepthBound, Occupied,
      Position, Worker

(* A commit keeps the window: whatever the base jumps over was delivered,  *)
(* so it was not in flight.                                                *)
LEMMA CommitKeepsWindow ==
    ASSUME FrontierInv, NEW p \in Position, Commit(p), TypeOK'
    PROVE  FrontierWindow'
<1> USE ScheduleAssumption
<1>1. p \in Occupied
  BY DEF Commit, TryCommitReady, Occupied, Absent
<1>2. Occupied' = Occupied \ {p}
  BY DEF Commit, TryCommitReady, Occupied, FrontierInv, TypeOK
<1>3. depth' = depth
  BY DEF Commit, TryCommitReady
<1>4. CASE p = next_commit /\ AdvanceBase(p)
  <2>1. PICK n \in (p + 1)..End :
            /\ n \notin delivered
            /\ \A q \in (p + 1)..(n - 1) : q \in delivered
            /\ next_commit' = n
            /\ delivered' = delivered \ ((p + 1)..(n - 1))
    BY <1>4 DEF AdvanceBase
  <2>2. ASSUME NEW q \in Occupied' \cup delivered'
        PROVE  next_commit' <= q /\ q < next_commit' + depth'
    <3>1. q \in Position /\ q # p /\ q \in Occupied \cup delivered
      BY <1>1, <1>2, <2>1 DEF Occupied, FrontierInv, TypeOK, FrontierWindow
    <3>2. next_commit <= q /\ q < next_commit + depth
      BY <3>1 DEF FrontierInv, FrontierWindow
    <3>3. q \notin (p + 1)..(n - 1)
      BY <1>2, <2>1 DEF FrontierInv, FrontierWindow
    <3> QED
      BY <1>3, <1>4, <2>1, <3>1, <3>2, <3>3 DEF Position, FrontierInv, TypeOK
  <2> QED
    BY <1>2, <2>1, <2>2 DEF FrontierWindow, FrontierInv
<1>5. CASE p # next_commit /\ KeepBase(p)
  BY <1>1, <1>2, <1>3, <1>5 DEF KeepBase, FrontierWindow, FrontierInv
<1> QED
  BY <1>4, <1>5 DEF Commit, TryCommitReady

LEMMA FrontierStep == FrontierInv /\ [Next]_vars => FrontierInv'
<1> SUFFICES ASSUME FrontierInv, [Next]_vars PROVE FrontierInv'
  OBVIOUS
<1> USE ScheduleAssumption
<1>0. TypeOK'
  BY TypeStep DEF FrontierInv
<1>1. ASSUME NEW p \in Position, MarkDispatched(p) PROVE FrontierInv'
  <2>1. Occupied' \subseteq Occupied \cup {p}
    BY <1>1 DEF MarkDispatched, Occupied, FrontierInv, TypeOK
  <2>2. /\ next_commit <= p /\ p < next_commit + depth
        /\ p \notin delivered
    BY <1>1 DEF MarkDispatched, DispatchCandidates
  <2> QED
    BY <1>0, <1>1, <2>1, <2>2
    DEF MarkDispatched, FrontierInv, FrontierWindow, DepthBound
<1>2. ASSUME NEW p \in Position, NEW w \in Worker, MarkCompleted(p, w)
      PROVE  FrontierInv'
  <2>1. Occupied' = Occupied
    BY <1>2 DEF MarkCompleted, Occupied, Absent, FrontierInv, TypeOK
  <2> QED
    BY <1>0, <1>2, <2>1
    DEF MarkCompleted, FrontierInv, FrontierWindow, DepthBound
<1>3. ASSUME NEW p \in Position, Commit(p) PROVE FrontierInv'
  BY <1>0, <1>3, CommitKeepsWindow
  DEF Commit, TryCommitReady, FrontierInv, DepthBound
<1>4. CASE RecordWait
  <2>1. depth' = Grown /\ UNCHANGED <<next_commit, positions, delivered>>
    BY <1>4 DEF RecordWait, SetDepth
  <2>2. depth <= Grown /\ Grown <= Ceiling /\ Grown \in Nat
    BY <1>4, GrowthMonotone DEF RecordWait, Saturated, Grown, FrontierInv, TypeOK
  <2>3. FrontierWindow'
    <3>1. Occupied' = Occupied
      BY <2>1 DEF Occupied
    <3>2. \A q \in Occupied \cup delivered : q \in Int
      BY DEF Occupied, Position, FrontierInv, TypeOK
    <3> QED
      BY <2>1, <2>2, <3>1, <3>2 DEF FrontierWindow, FrontierInv, TypeOK
  <2>4. DepthBound'
    BY <2>1, <2>2 DEF DepthBound
  <2> QED
    BY <1>0, <2>3, <2>4 DEF FrontierInv
<1>5. ASSUME NEW n \in 1..WorkerCeiling, SetWorkerCount(n) PROVE FrontierInv'
  BY <1>0, <1>5
  DEF SetWorkerCount, FrontierInv, FrontierWindow, DepthBound, Occupied
<1>6. CASE UNCHANGED vars
  BY <1>0, <1>6 DEF vars, FrontierInv, FrontierWindow, DepthBound, Occupied
<1> QED
  BY <1>1, <1>2, <1>3, <1>4, <1>5, <1>6 DEF Next

(* The frontier window holds in every reachable state: nothing the loader  *)
(* holds lies outside the window, and a delivered position is never sent   *)
(* again (static_frontier.rs, dispatch_at and try_commit_ready).           *)
THEOREM WindowAlwaysHolds == Spec => []FrontierWindow
<1>1. FrontierInv => FrontierWindow
  BY DEF FrontierInv
<1> QED
  BY <1>1, FrontierInit, FrontierStep, PTL DEF Spec

(* A set of integers inside a window of depth positions has at most depth  *)
(* members.                                                                *)
LEMMA WindowCardinality ==
    ASSUME NEW base \in Int, NEW d \in Nat, NEW S,
           \A p \in S : p \in Int /\ base <= p /\ p < base + d
    PROVE  Cardinality(S) <= d
<1>1. S \subseteq base..(base + d - 1)
  OBVIOUS
<1>2. /\ IsFiniteSet(base..(base + d - 1))
      /\ Cardinality(base..(base + d - 1)) = d
  <2>1. base + d - 1 \in Int
    OBVIOUS
  <2> QED
    BY <2>1, FS_Interval
<1> QED
  BY <1>1, <1>2, FS_Subset

(* The memory bound: results held never outnumber the live depth and the   *)
(* depth never passes the plan's ceiling (FrontierRuntime.record_wait).    *)
THEOREM OccupancyAlwaysBounded == Spec => []OccupancyBound
<1>1. FrontierInv => OccupancyBound
  <2> SUFFICES ASSUME FrontierInv PROVE OccupancyBound
    OBVIOUS
  <2>1. /\ next_commit \in Int /\ depth \in Nat
        /\ \A p \in Occupied :
               p \in Int /\ next_commit <= p /\ p < next_commit + depth
    BY ScheduleAssumption
    DEF FrontierInv, TypeOK, FrontierWindow, Occupied, Position
  <2>2. Cardinality(Occupied) <= depth
    BY <2>1, WindowCardinality
  <2> QED
    BY <2>2 DEF OccupancyBound, FrontierInv, DepthBound
<1> QED
  BY <1>1, FrontierInit, FrontierStep, PTL DEF Spec

(* The positions the consumer has received, read off the base and the set. *)
Taken == (Start..(next_commit - 1)) \cup delivered

LEMMA StreamInitMaps == Init => Stream!StreamInit
  BY ScheduleAssumption DEF Init, Stream!StreamInit

(* A commit is a Take of the same position.                                *)
LEMMA CommitTakes ==
    ASSUME FrontierInv, NEW p \in Position, Commit(p), FrontierInv'
    PROVE  Stream!Take(p)
<1> USE ScheduleAssumption
<1>1. /\ p \in Occupied
      /\ p \notin Taken
      /\ InOrder => p = next_commit
  <2>1. p \in Occupied
    BY DEF Commit, TryCommitReady, Occupied, Absent
  <2>2. next_commit <= p /\ p \notin delivered
    BY <2>1 DEF FrontierInv, FrontierWindow
  <2>3. next_commit \in Int /\ p \in Int /\ Start \in Int
    BY DEF FrontierInv, TypeOK, Position
  <2> QED
    BY <2>1, <2>2, <2>3 DEF Commit, Taken
<1>2. Taken' = Taken \cup {p}
  <2>1. CASE p = next_commit /\ AdvanceBase(p)
    <3>1. PICK n \in (p + 1)..End :
              /\ \A q \in (p + 1)..(n - 1) : q \in delivered
              /\ next_commit' = n
              /\ delivered' = delivered \ ((p + 1)..(n - 1))
      BY <2>1 DEF AdvanceBase
    <3>2. Start..(n - 1) = (Start..(p - 1)) \cup {p} \cup ((p + 1)..(n - 1))
      BY <2>1, <3>1 DEF Position, FrontierInv, TypeOK
    <3> QED
      BY <2>1, <3>1, <3>2 DEF Taken
  <2>2. CASE p # next_commit /\ KeepBase(p)
    BY <2>2 DEF KeepBase, Taken
  <2> QED
    BY <2>1, <2>2 DEF Commit, TryCommitReady
<1>3. InOrder => \A q \in Position \ Taken : p <= q
  BY <1>1 DEF Position, Taken, FrontierInv, TypeOK
<1>4. output' = Append(output, p)
  BY DEF Commit, TryCommitReady
<1> QED
  BY <1>1, <1>2, <1>3, <1>4
  DEF Taken, Position, Stream!Take, Stream!StreamPosition

(* Every other operation leaves the stream alone.                          *)
LEMMA StreamStepMaps ==
    FrontierInv /\ FrontierInv' /\ [Next]_vars => [Stream!StreamNext]_<<Taken, output>>
<1> SUFFICES ASSUME FrontierInv, FrontierInv', [Next]_vars
             PROVE  [Stream!StreamNext]_<<Taken, output>>
  OBVIOUS
<1>1. ASSUME NEW p \in Position, Commit(p) PROVE Stream!StreamNext
  BY <1>1, CommitTakes DEF Stream!StreamNext, Stream!StreamPosition, Position
<1>2. CASE UNCHANGED <<next_commit, delivered, output>>
  BY <1>2 DEF Taken
<1>3. ASSUME NEW p \in Position, MarkDispatched(p)
      PROVE  UNCHANGED <<next_commit, delivered, output>>
  BY <1>3 DEF MarkDispatched
<1>4. ASSUME NEW p \in Position, NEW w \in Worker, MarkCompleted(p, w)
      PROVE  UNCHANGED <<next_commit, delivered, output>>
  BY <1>4 DEF MarkCompleted
<1>5. CASE RecordWait
  BY <1>2, <1>5 DEF RecordWait, SetDepth
<1>6. ASSUME NEW n \in 1..WorkerCeiling, SetWorkerCount(n)
      PROVE  UNCHANGED <<next_commit, delivered, output>>
  BY <1>6 DEF SetWorkerCount
<1>7. CASE UNCHANGED vars
  BY <1>2, <1>7 DEF vars
<1> QED
  BY <1>1, <1>2, <1>3, <1>4, <1>5, <1>6, <1>7 DEF Next

(* The frontier implements the abstract stream: every position is handed   *)
(* out exactly once, and in strict delivery in increasing order            *)
(* (static_frontier.rs, try_commit and try_commit_ready).                  *)
THEOREM ScheduleImplementsStream == Spec => ImplementsStream
<1>1. FrontierInv /\ FrontierInv' /\ [Next]_vars
        => [Stream!StreamNext]_<<(Start..(next_commit - 1)) \cup delivered,
                                 output>>
  BY StreamStepMaps DEF Taken
<1> QED
  BY <1>1, StreamInitMaps, FrontierInit, FrontierStep, PTL
  DEF Spec, ImplementsStream, Stream!StreamSpec

-----------------------------------------------------------------------------
(* The iterator over its frontier.                                          *)

(* The steps of the consumer's thread that touch the frontier: filling,    *)
(* delivering, committing, receiving and growing.                          *)
LEMMA OwnerDrivesSchedule == OwnerStep => [Next]_vars
<1> SUFFICES ASSUME OwnerStep PROVE [Next]_vars
  OBVIOUS
<1>1. CASE OpenIterator
  BY <1>1 DEF OpenIterator, Next
<1>2. ASSUME NEW p \in Position, FillOne(p) PROVE Next
  BY <1>2 DEF FillOne, Next
<1>3. CASE FillEnds
  BY <1>3 DEF FillEnds, Deliver, Next
<1>4. CASE Take
  <2>1. CASE CommitNext
    BY <2>1 DEF CommitNext, Next
  <2>2. CASE TakeReady
    BY <2>2 DEF TakeReady, Next
  <2> QED
    BY <1>4, <2>1, <2>2 DEF Take
<1>5. ASSUME NEW w \in Worker, PollWorker(w) PROVE [Next]_vars
  <2>1. CASE Receive(w)
    BY <2>1 DEF Receive, Next
  <2> QED
    BY <1>5, <2>1 DEF PollWorker
<1>6. CASE Wait
  BY <1>6 DEF Wait, Next
<1>7. CASE CallNext \/ NothingReady \/ PollEnds \/ AllAlive \/ Timeout \/ WorkerDied
  BY <1>7 DEF CallNext, NothingReady, PollEnds, AllAlive, Timeout, WorkerDied
<1>8. ASSUME NEW w \in Worker, DeathNoticed(w) \/ ReplayOne(w)
      PROVE  UNCHANGED vars
  BY <1>8 DEF DeathNoticed, ReplayOne
<1> QED
  BY <1>1, <1>2, <1>3, <1>4, <1>5, <1>6, <1>7, <1>8 DEF OwnerStep

(* Workers do not reach the frontier, and neither do their deaths.         *)
LEMMA DeliveryDrivesSchedule == [DeliveryNext]_system => [Next]_vars
<1> SUFFICES ASSUME [DeliveryNext]_system PROVE [Next]_vars
  OBVIOUS
<1>1. CASE Owner
  BY <1>1, OwnerDrivesSchedule DEF Owner
<1>2. ASSUME NEW w \in Worker, Process(w) \/ ProcessDies(w)
      PROVE  UNCHANGED vars
  BY <1>2 DEF Process, ProcessDies, TryRecv, PublishCompletion, Die
<1>3. CASE Finished \/ UNCHANGED system
  BY <1>3 DEF Finished, system
<1> QED
  BY <1>1, <1>2, <1>3 DEF DeliveryNext

(* Every behaviour of the process delivery is one of its frontier          *)
(* (iterator.py calls FrontierRuntime only).                               *)
THEOREM DeliveryImplementsSchedule == DeliverySpec => Spec
<1>1. DeliveryInit => Init
  BY DEF DeliveryInit
<1> QED
  BY <1>1, DeliveryDrivesSchedule, PTL DEF DeliverySpec, Spec

(* Whatever workers do, however many die and however the width changes,    *)
(* the results a loader holds never outnumber the live depth, and that     *)
(* never passes its ceiling (FrontierRuntime.record_wait).                 *)
THEOREM DeliveryBoundsOccupancy == DeliverySpec => []OccupancyBound
  BY DeliveryImplementsSchedule, OccupancyAlwaysBounded

(* The samples leave the frontier once each, and in order when delivery is *)
(* strict (iterator.py, _next_completion).                                 *)
THEOREM DeliveryImplementsStream == DeliverySpec => ImplementsStream
  BY DeliveryImplementsSchedule, ScheduleImplementsStream

-----------------------------------------------------------------------------
(* Commands of a position in a ring.                                       *)

Places(ring, p) == {i \in DOMAIN ring : ring[i].position = p}

(* A ring holds finitely many commands of a position.                      *)
LEMMA PlacesFinite ==
    ASSUME NEW S, NEW ring \in Seq(S), NEW p
    PROVE  /\ IsFiniteSet(Places(ring, p))
           /\ CommandsFor(ring, p) = Cardinality(Places(ring, p))
           /\ CommandsFor(ring, p) \in Nat
<1>1. IsFiniteSet(1..Len(ring))
  BY FS_Interval
<1>2. Places(ring, p) \in SUBSET (1..Len(ring))
  BY DEF Places
<1>3. IsFiniteSet(Places(ring, p))
  BY <1>1, <1>2, FS_Subset
<1>4. CommandsFor(ring, p) = Cardinality(Places(ring, p))
  BY DEF CommandsFor, Places
<1> QED
  BY <1>3, <1>4, FS_CardinalityType

(* A command joins its ring at the back.                                   *)
LEMMA CountAppend ==
    ASSUME NEW S, NEW ring \in Seq(S), NEW c \in S, NEW p
    PROVE  CommandsFor(Append(ring, c), p) =
               CommandsFor(ring, p) + (IF c.position = p THEN 1 ELSE 0)
<1> DEFINE n == Len(ring) + 1
<1>1. Append(ring, c) \in Seq(S) /\ n \notin Places(ring, p)
  BY DEF Places
<1>2. Places(Append(ring, c), p) =
          IF c.position = p THEN Places(ring, p) \cup {n} ELSE Places(ring, p)
  BY DEF Places
<1>3. /\ CommandsFor(Append(ring, c), p) = Cardinality(Places(Append(ring, c), p))
      /\ CommandsFor(ring, p) = Cardinality(Places(ring, p))
      /\ IsFiniteSet(Places(ring, p)) /\ CommandsFor(ring, p) \in Nat
  BY <1>1, PlacesFinite
<1> HIDE DEF n
<1>4. CASE c.position = p
  <2>1. Cardinality(Places(ring, p) \cup {n}) = Cardinality(Places(ring, p)) + 1
    BY <1>1, <1>3, FS_AddElement
  <2> QED
    BY <1>2, <1>3, <1>4, <2>1
<1>5. CASE c.position # p
  BY <1>2, <1>3, <1>5
<1> QED
  BY <1>4, <1>5

(* A command leaves its ring at the front.                                 *)
LEMMA CountTail ==
    ASSUME NEW S, NEW ring \in Seq(S), ring # << >>, NEW p
    PROVE  CommandsFor(ring, p) =
               CommandsFor(Tail(ring), p)
                   + (IF Head(ring).position = p THEN 1 ELSE 0)
<1> DEFINE rest == Places(Tail(ring), p)
           moved == Places(ring, p) \ {1}
           shift == [i \in rest |-> i + 1]
<1>1. /\ Tail(ring) \in Seq(S) /\ Len(Tail(ring)) = Len(ring) - 1
      /\ Len(ring) \in Nat /\ Len(ring) > 0
      /\ \A i \in 1..(Len(ring) - 1) : Tail(ring)[i] = ring[i + 1]
      /\ Head(ring) = ring[1]
  OBVIOUS
<1>2. rest = {i \in 1..(Len(ring) - 1) : ring[i + 1].position = p}
  <2>1. DOMAIN Tail(ring) = 1..(Len(ring) - 1)
    BY <1>1
  <2> QED
    BY <1>1, <2>1 DEF Places
<1>3. moved = {i \in 2..Len(ring) : ring[i].position = p}
  <2>1. DOMAIN ring = 1..Len(ring)
    OBVIOUS
  <2> QED
    BY <1>1, <2>1 DEF Places
<1> HIDE DEF rest, moved
<1>4. shift \in Bijection(rest, moved)
  <2>1. shift \in [rest -> moved]
    BY <1>1, <1>2, <1>3
  <2>2. \A i, j \in rest : i # j => shift[i] # shift[j]
    BY <1>2
  <2>3. ASSUME NEW j \in moved PROVE \E i \in rest : shift[i] = j
    <3>1. j - 1 \in rest /\ (j - 1) + 1 = j
      BY <1>1, <1>2, <1>3
    <3> QED
      BY <3>1
  <2> QED
    BY <2>1, <2>2, <2>3 DEF Bijection, Injection, Surjection, IsInjective
<1>5. /\ IsFiniteSet(rest) /\ CommandsFor(Tail(ring), p) = Cardinality(rest)
      /\ IsFiniteSet(Places(ring, p))
      /\ CommandsFor(ring, p) = Cardinality(Places(ring, p))
      /\ CommandsFor(ring, p) \in Nat
  BY <1>1, PlacesFinite DEF rest
<1>6. Cardinality(moved) = Cardinality(rest)
  BY <1>4, <1>5, FS_Bijection DEF ExistsBijection
<1>7. 1 \in Places(ring, p) <=> Head(ring).position = p
  BY <1>1 DEF Places
<1>8. Cardinality(moved) = IF 1 \in Places(ring, p)
                           THEN Cardinality(Places(ring, p)) - 1
                           ELSE Cardinality(Places(ring, p))
  BY <1>5, FS_RemoveElement DEF moved
<1> QED
  BY <1>5, <1>6, <1>7, <1>8

(* The command in a worker's hands.                                        *)
LEMMA CountJob ==
    ASSUME NEW c, NEW p
    PROVE  CommandsFor(<<c>>, p) = IF c.position = p THEN 1 ELSE 0
<1>1. Places(<<c>>, p) = IF c.position = p THEN {1} ELSE {}
  BY DEF Places
<1>2. CommandsFor(<<c>>, p) = Cardinality(Places(<<c>>, p))
  BY DEF CommandsFor, Places
<1> QED
  BY <1>1, <1>2, FS_EmptySet, FS_Singleton

(* A fresh ring is empty.                                                  *)
LEMMA CountNone ==
    ASSUME NEW p
    PROVE  CommandsFor(<< >>, p) = 0
<1>1. {i \in DOMAIN << >> : << >>[i].position = p} = {}
  OBVIOUS
<1> QED
  BY <1>1, FS_EmptySet DEF CommandsFor

-----------------------------------------------------------------------------
(* The books of the pool.                                                  *)

PoolTypes ==
    /\ pending \subseteq Worker \X Position
    /\ ready \in [Position -> {"missing", "sample", "collate"}]
    /\ dispatches \in [Worker -> Seq(Command)]
    /\ completions \in [Worker -> Seq(Command)]
    /\ job \in [Worker -> Command \cup {Idle}]
    /\ alive \in [Worker -> BOOLEAN]
    /\ replay \in [Worker -> SUBSET Position]

(* What WorkConserved says of one position.                                *)
Conserved(p) ==
    /\ positions[p].state = "ready" <=> ready[p] # "missing"
    /\ \A w \in Worker :
        /\ positions[p] = [state |-> "dispatched", worker |-> w]
            <=> <<w, p>> \in pending \/ p \in replay[w]
        /\ <<w, p>> \notin pending => Copies(w, p) = 0
        /\ <<w, p>> \in pending => Copies(w, p) <= 1
        /\ <<w, p>> \in pending /\ alive[w] => Copies(w, p) = 1

(* A dead worker has no job; only a restart has commands to replay, and    *)
(* none of them is waited for yet.                                         *)
PoolInv ==
    /\ PoolTypes
    /\ \A w \in Worker : alive[w] \/ job[w] = Idle
    /\ outcome = "open" /\ step # "replay" => \A w \in Worker : replay[w] = {}
    /\ \A w \in Worker : \A p \in replay[w] : <<w, p>> \notin pending
    /\ outcome = "open" => \A p \in Position : Conserved(p)
    /\ outcome = "open" \/ step = "done"

(* The invariant of the books contains the property.                       *)
LEMMA PoolInvImpliesWork == PoolInv => WorkConserved
  BY DEF PoolInv, WorkConserved, Conserved

(* The copies of a command are counted by naturals.                        *)
LEMMA CopiesType ==
    ASSUME PoolTypes, NEW w \in Worker, NEW p
    PROVE  /\ CommandsFor(dispatches[w], p) \in Nat
           /\ CommandsFor(completions[w], p) \in Nat
           /\ CommandsFor(<<job[w]>>, p) \in Nat
           /\ Copies(w, p) \in Nat
<1>1. dispatches[w] \in Seq(Command) /\ completions[w] \in Seq(Command)
  BY DEF PoolTypes
<1>2. CommandsFor(<<job[w]>>, p) \in Nat
  BY CountJob
<1>3. /\ CommandsFor(dispatches[w], p) \in Nat
      /\ CommandsFor(completions[w], p) \in Nat
  BY <1>1, PlacesFinite
<1> QED
  BY <1>2, <1>3 DEF Copies

(* The same of the next state.                                             *)
LEMMA CopiesTypeNext ==
    ASSUME PoolTypes', NEW w \in Worker, NEW p
    PROVE  Copies(w, p)' \in Nat
<1>1. dispatches'[w] \in Seq(Command) /\ completions'[w] \in Seq(Command)
  BY DEF PoolTypes
<1>2. CommandsFor(<<job'[w]>>, p) \in Nat
  BY CountJob
<1> QED
  BY <1>1, <1>2, PlacesFinite DEF Copies

(* A step that leaves the pool and the positions alone.                    *)
LEMMA PoolUntouched ==
    ASSUME PoolInv, UNCHANGED <<pool, positions, replay>>,
           outcome' = "open" => outcome = "open",
           outcome' = "open" \/ step' = "done",
           step' = "replay" \/ step # "replay"
               \/ \A w \in Worker : replay[w] = {}
    PROVE  PoolInv'
<1>1. UNCHANGED <<pending, ready, dispatches, completions, job, alive>>
  BY DEF pool
<1>2. ASSUME NEW p \in Position PROVE Conserved(p)' <=> Conserved(p)
  BY <1>1 DEF Conserved, Copies
<1> QED
  BY <1>1, <1>2 DEF PoolInv, PoolTypes

(* A command goes out, and its position was not out before, or only as one *)
(* this worker has to replay.                                              *)
LEMMA CommandSent ==
    ASSUME PoolInv, NEW w \in Worker, NEW p \in Position, NEW c \in Command,
           c.position = p, outcome = "open", outcome' = "open",
           dispatches' = [dispatches EXCEPT ![w] = Append(@, c)],
           pending' = pending \cup {<<w, p>>},
           UNCHANGED <<ready, completions, job, alive>>,
           \A v \in Worker : <<v, p>> \notin pending,
           ready[p] = "missing",
           positions'[p] = [state |-> "dispatched", worker |-> w],
           \A q \in Position \ {p} : positions'[q] = positions[q],
           replay' \in [Worker -> SUBSET Position],
           \A v \in Worker : p \notin replay'[v],
           \A v \in Worker : \A q \in Position \ {p} :
               q \in replay'[v] <=> q \in replay[v],
           step' # "replay" => \A v \in Worker : replay'[v] = {}
    PROVE  PoolInv'
<1>0. PoolTypes
  BY DEF PoolInv
<1>1. PoolTypes'
  <2>1. Append(dispatches[w], c) \in Seq(Command)
    BY <1>0 DEF PoolTypes
  <2> QED
    BY <1>0, <2>1 DEF PoolTypes
<1>2. ASSUME NEW v \in Worker, NEW q \in Position
      PROVE  Copies(v, q)' = Copies(v, q) + (IF v = w /\ q = p THEN 1 ELSE 0)
  <2>0. dispatches[v] \in Seq(Command)
    BY <1>0 DEF PoolTypes
  <2>1. CASE v = w
    <3>1. dispatches'[v] = Append(dispatches[v], c)
      BY <1>0, <2>1 DEF PoolTypes
    <3>2. CommandsFor(dispatches'[v], q) = CommandsFor(dispatches[v], q)
                                           + (IF q = p THEN 1 ELSE 0)
      BY <2>0, <3>1, CountAppend
    <3> QED
      BY <1>0, <2>1, <3>2, CopiesType DEF Copies
  <2>2. CASE v # w
    <3>1. dispatches'[v] = dispatches[v]
      BY <1>0, <2>2 DEF PoolTypes
    <3> QED
      BY <1>0, <2>2, <3>1, CopiesType DEF Copies
  <2> QED
    BY <2>1, <2>2
<1>3. ASSUME NEW q \in Position PROVE Conserved(q)'
  <2>0. Conserved(q) /\ \A v \in Worker : Copies(v, q) \in Nat
    BY <1>0, CopiesType DEF PoolInv
  <2>1. CASE q = p
    <3>1. positions'[p].state # "ready"
      OBVIOUS
    <3>2. ASSUME NEW v \in Worker
          PROVE  positions'[p] = [state |-> "dispatched", worker |-> v] <=> v = w
      OBVIOUS
    <3>3. ASSUME NEW v \in Worker
          PROVE  /\ Copies(v, p)' = IF v = w THEN 1 ELSE 0
                 /\ <<v, p>> \in pending' <=> v = w
      <4>1. Copies(v, p) = 0
        BY <2>0, <2>1 DEF Conserved
      <4>2. Copies(v, p)' = Copies(v, p) + (IF v = w THEN 1 ELSE 0)
        BY <1>2
      <4>3. <<v, p>> \in pending' <=> v = w
        OBVIOUS
      <4> QED
        BY <4>1, <4>2, <4>3
    <3> QED
      BY <2>1, <3>1, <3>2, <3>3 DEF Conserved
  <2>2. CASE q # p
    <3>1. ASSUME NEW v \in Worker
          PROVE  /\ Copies(v, q)' = Copies(v, q)
                 /\ <<v, q>> \in pending' <=> <<v, q>> \in pending
                 /\ q \in replay'[v] <=> q \in replay[v]
      BY <1>2, <2>0, <2>2
    <3>2. positions'[q] = positions[q] /\ ready' = ready /\ alive' = alive
      BY <2>2
    <3> QED
      BY <2>0, <3>1, <3>2 DEF Conserved
  <2> QED
    BY <2>1, <2>2
<1>4. \A v \in Worker : \A q \in replay'[v] : <<v, q>> \notin pending'
  <2>1. ASSUME NEW v \in Worker, NEW q \in replay'[v]
        PROVE  q \in Position /\ q # p /\ q \in replay[v]
    OBVIOUS
  <2> QED
    BY <2>1 DEF PoolInv
<1>5. \A v \in Worker : alive'[v] \/ job'[v] = Idle
  BY DEF PoolInv
<1> QED
  BY <1>1, <1>3, <1>4, <1>5 DEF PoolInv

(* A command changes hands, or is gone with its worker: its position is    *)
(* still waited for.                                                       *)
LEMMA CommandMoves ==
    ASSUME PoolInv, PoolTypes', UNCHANGED <<pending, ready, replay, positions>>,
           UNCHANGED <<outcome, step>>,
           \A v \in Worker : alive'[v] \/ job'[v] = Idle,
           \A v \in Worker : alive'[v] => alive[v],
           \A v \in Worker : \A q \in Position :
               \/ Copies(v, q)' = Copies(v, q)
               \/ ~alive'[v] /\ Copies(v, q)' <= Copies(v, q)
    PROVE  PoolInv'
<1>0. PoolTypes
  BY DEF PoolInv
<1>1. ASSUME NEW q \in Position, Conserved(q) PROVE Conserved(q)'
  <2>1. ASSUME NEW v \in Worker
        PROVE  /\ <<v, q>> \notin pending => Copies(v, q)' = 0
               /\ <<v, q>> \in pending => Copies(v, q)' <= 1
               /\ <<v, q>> \in pending /\ alive'[v] => Copies(v, q)' = 1
    <3>1. Copies(v, q) \in Nat /\ Copies(v, q)' \in Nat
      BY <1>0, CopiesType, CopiesTypeNext
    <3>2. /\ <<v, q>> \notin pending => Copies(v, q) = 0
          /\ <<v, q>> \in pending => Copies(v, q) <= 1
          /\ <<v, q>> \in pending /\ alive[v] => Copies(v, q) = 1
      BY <1>1 DEF Conserved
    <3> QED
      BY <3>1, <3>2
  <2> QED
    BY <1>1, <2>1 DEF Conserved
<1>2. \A v \in Worker : \A q \in replay'[v] : <<v, q>> \notin pending'
  BY DEF PoolInv
<1>3. outcome' = "open" /\ step' # "replay" => \A v \in Worker : replay'[v] = {}
  BY DEF PoolInv
<1> QED
  BY <1>1, <1>2, <1>3 DEF PoolInv

(* A worker takes the oldest command: the copy moves from the ring to its  *)
(* hands (run_commands).                                                   *)
LEMMA TryRecvKeepsPool ==
    ASSUME PoolInv, NEW w \in Worker, TryRecv(w)
    PROVE  PoolInv'
<1>0. PoolTypes
  BY DEF PoolInv
<1>1. /\ job[w] = Idle /\ alive[w]
      /\ dispatches[w] \in Seq(Command) /\ dispatches[w] # << >>
      /\ job' = [job EXCEPT ![w] = Head(dispatches[w])]
      /\ dispatches' = [dispatches EXCEPT ![w] = Tail(@)]
      /\ UNCHANGED <<pending, ready, replay, positions, completions, alive,
                     outcome, step>>
  BY <1>0 DEF TryRecv, PoolTypes, vars, consumer
<1>2. PoolTypes'
  <2>1. Head(dispatches[w]) \in Command /\ Tail(dispatches[w]) \in Seq(Command)
    BY <1>1
  <2> QED
    BY <1>0, <1>1, <2>1 DEF PoolTypes
<1>3. ASSUME NEW v \in Worker, NEW q \in Position
      PROVE  Copies(v, q)' = Copies(v, q)
  <2>1. CASE v = w
    <3>1. /\ dispatches'[v] = Tail(dispatches[v])
          /\ job'[v] = Head(dispatches[v]) /\ completions'[v] = completions[v]
      BY <1>0, <1>1, <2>1 DEF PoolTypes
    <3>2. CommandsFor(<<job[v]>>, q) = 0
      BY <1>1, <2>1, CountJob DEF Idle, Position
    <3>3. CommandsFor(<<job'[v]>>, q)
              = IF Head(dispatches[v]).position = q THEN 1 ELSE 0
      BY <3>1, CountJob
    <3>4. CommandsFor(dispatches[v], q) = CommandsFor(Tail(dispatches[v]), q)
              + (IF Head(dispatches[v]).position = q THEN 1 ELSE 0)
      BY <1>1, <2>1, CountTail
    <3>5. CommandsFor(Tail(dispatches[v]), q) \in Nat
      <4>1. Tail(dispatches[v]) \in Seq(Command)
        BY <1>1, <2>1
      <4> QED
        BY <4>1, PlacesFinite
    <3>6. CommandsFor(completions[v], q) \in Nat
      BY <1>0, CopiesType
    <3> QED
      BY <3>1, <3>2, <3>3, <3>4, <3>5, <3>6 DEF Copies
  <2>2. CASE v # w
    <3>1. /\ dispatches'[v] = dispatches[v] /\ job'[v] = job[v]
          /\ completions'[v] = completions[v]
      BY <1>0, <1>1, <2>2 DEF PoolTypes
    <3> QED
      BY <3>1 DEF Copies
  <2> QED
    BY <2>1, <2>2
<1>4. \A v \in Worker : alive'[v] \/ job'[v] = Idle
  BY <1>0, <1>1 DEF PoolInv, PoolTypes
<1> QED
  BY <1>1, <1>2, <1>3, <1>4, CommandMoves

(* A worker publishes its result: the copy moves on to the completion      *)
(* ring.                                                                   *)
LEMMA PublishKeepsPool ==
    ASSUME PoolInv, NEW w \in Worker, PublishCompletion(w)
    PROVE  PoolInv'
<1>0. PoolTypes
  BY DEF PoolInv
<1>1. /\ job[w] \in Command /\ completions[w] \in Seq(Command)
      /\ job' = [job EXCEPT ![w] = Idle]
      /\ completions' = [completions EXCEPT ![w] = Append(@, job[w])]
      /\ UNCHANGED <<pending, ready, replay, positions, dispatches, alive,
                     outcome, step>>
  BY <1>0 DEF PublishCompletion, PoolTypes, vars, consumer
<1>2. PoolTypes'
  <2>1. Append(completions[w], job[w]) \in Seq(Command)
    BY <1>1
  <2> QED
    BY <1>0, <1>1, <2>1 DEF PoolTypes
<1>3. ASSUME NEW v \in Worker, NEW q \in Position
      PROVE  Copies(v, q)' = Copies(v, q)
  <2>1. CASE v = w
    <3>1. /\ completions'[v] = Append(completions[v], job[v])
          /\ job'[v] = Idle /\ dispatches'[v] = dispatches[v]
      BY <1>0, <1>1, <2>1 DEF PoolTypes
    <3>2. CommandsFor(<<job'[v]>>, q) = 0
      BY <3>1, CountJob DEF Idle, Position
    <3>3. CommandsFor(<<job[v]>>, q) = IF job[v].position = q THEN 1 ELSE 0
      BY CountJob
    <3>4. CommandsFor(completions'[v], q) = CommandsFor(completions[v], q)
              + (IF job[v].position = q THEN 1 ELSE 0)
      BY <1>1, <2>1, <3>1, CountAppend
    <3>5. /\ CommandsFor(completions[v], q) \in Nat
          /\ CommandsFor(dispatches[v], q) \in Nat
      BY <1>0, CopiesType
    <3> QED
      BY <3>1, <3>2, <3>3, <3>4, <3>5 DEF Copies
  <2>2. CASE v # w
    <3>1. /\ dispatches'[v] = dispatches[v] /\ job'[v] = job[v]
          /\ completions'[v] = completions[v]
      BY <1>0, <1>1, <2>2 DEF PoolTypes
    <3> QED
      BY <3>1 DEF Copies
  <2> QED
    BY <2>1, <2>2
<1>4. \A v \in Worker : alive'[v] \/ job'[v] = Idle
  BY <1>0, <1>1 DEF PoolInv, PoolTypes
<1> QED
  BY <1>1, <1>2, <1>3, <1>4, CommandMoves

(* A worker dies with its job; what is in its rings stays there.           *)
LEMMA DeathKeepsPool ==
    ASSUME PoolInv, NEW w \in Worker, Die(w)
    PROVE  PoolInv'
<1>0. PoolTypes
  BY DEF PoolInv
<1>1. /\ job' = [job EXCEPT ![w] = Idle]
      /\ alive' = [alive EXCEPT ![w] = FALSE]
      /\ UNCHANGED <<pending, ready, replay, positions, dispatches, completions,
                     outcome, step>>
  BY <1>0 DEF Die, vars, consumer
<1>2. PoolTypes'
  BY <1>0, <1>1 DEF PoolTypes
<1>3. ASSUME NEW v \in Worker, NEW q \in Position
      PROVE  \/ Copies(v, q)' = Copies(v, q)
             \/ ~alive'[v] /\ Copies(v, q)' <= Copies(v, q)
  <2>1. CASE v = w
    <3>1. job'[v] = Idle /\ ~alive'[v]
      BY <1>0, <1>1, <2>1 DEF PoolTypes
    <3>2. CommandsFor(<<job'[v]>>, q) = 0
      BY <3>1, CountJob DEF Idle, Position
    <3>3. /\ CommandsFor(completions[v], q) \in Nat
          /\ CommandsFor(dispatches[v], q) \in Nat
          /\ CommandsFor(<<job[v]>>, q) \in Nat
      BY <1>0, CopiesType
    <3> QED
      BY <1>1, <3>1, <3>2, <3>3 DEF Copies
  <2>2. CASE v # w
    <3>1. job'[v] = job[v]
      BY <1>0, <1>1, <2>2 DEF PoolTypes
    <3> QED
      BY <1>1, <3>1 DEF Copies
  <2> QED
    BY <2>1, <2>2
<1>4. \A v \in Worker : alive'[v] \/ job'[v] = Idle
  BY <1>0, <1>1 DEF PoolInv, PoolTypes
<1>5. \A v \in Worker : alive'[v] => alive[v]
  BY <1>0, <1>1 DEF PoolTypes
<1> QED
  BY <1>1, <1>2, <1>3, <1>4, <1>5, CommandMoves

(* What a live worker publishes, the pool waits for and the scheduler has  *)
(* sent to it: try_receive and mark_completed never refuse.                *)
LEMMA CompletionExpected ==
    ASSUME PoolInv, outcome = "open", NEW w \in Worker, completions[w] # << >>,
           NEW p \in Position, p = Head(completions[w]).position
    PROVE  /\ <<w, p>> \in pending
           /\ positions[p] = [state |-> "dispatched", worker |-> w]
<1>1. PoolTypes /\ Conserved(p)
  BY DEF PoolInv
<1>2. completions[w] \in Seq(Command)
  BY <1>1 DEF PoolTypes
<1>3. CommandsFor(completions[w], p) = CommandsFor(Tail(completions[w]), p) + 1
  BY <1>2, CountTail
<1>4. CommandsFor(Tail(completions[w]), p) \in Nat
  <2>1. Tail(completions[w]) \in Seq(Command)
    BY <1>2
  <2> QED
    BY <2>1, PlacesFinite
<1>5. Copies(w, p) # 0
  BY <1>1, <1>3, <1>4, CopiesType DEF Copies
<1> QED
  BY <1>1, <1>5 DEF Conserved

(* The iterator takes a completion, accepted by both of its checks         *)
(* (try_receive, mark_completed).                                          *)
LEMMA ReceiveKeepsPool ==
    ASSUME PoolInv, TypeOK, NEW w \in Worker, Receive(w), step = "poll",
           UNCHANGED <<dispatches, job, alive, replay>>
    PROVE  PoolInv' /\ outcome' = "open" /\ step' = step
<1>0. PoolTypes /\ outcome = "open"
  BY DEF PoolInv
<1>1. PICK p \in Position : p = Head(completions[w]).position
  BY DEF Receive
<1>2. /\ <<w, p>> \in pending
      /\ positions[p] = [state |-> "dispatched", worker |-> w]
  BY <1>0, <1>1, CompletionExpected DEF Receive
<1>3. /\ MarkCompleted(p, w)
      /\ pending' = pending \ {<<w, p>>}
      /\ ready' = [ready EXCEPT ![p] = Head(completions[w]).stage]
      /\ UNCHANGED <<step, outcome>>
      /\ completions[w] # << >> /\ completions[w] \in Seq(Command)
      /\ completions' = [completions EXCEPT ![w] = Tail(@)]
  BY <1>0, <1>1, <1>2 DEF Receive, PoolTypes
<1>4. positions' = [positions EXCEPT ![p] = [state |-> "ready", worker |-> w]]
  BY <1>3 DEF MarkCompleted
<1>5. Head(completions[w]) \in Command /\ Tail(completions[w]) \in Seq(Command)
  BY <1>3
<1>6. PoolTypes'
  BY <1>0, <1>3, <1>5 DEF PoolTypes, Command
<1>7. ASSUME NEW v \in Worker, NEW q \in Position
      PROVE  Copies(v, q) = Copies(v, q)' + (IF v = w /\ q = p THEN 1 ELSE 0)
  <2>0. /\ CommandsFor(dispatches[v], q) \in Nat
        /\ CommandsFor(<<job[v]>>, q) \in Nat
    BY <1>0, CopiesType
  <2>1. CASE v = w
    <3>1. completions'[v] = Tail(completions[v])
      BY <1>0, <1>3, <2>1 DEF PoolTypes
    <3>2. CommandsFor(completions[v], q) = CommandsFor(Tail(completions[v]), q)
              + (IF p = q THEN 1 ELSE 0)
      BY <1>1, <1>3, <2>1, CountTail
    <3>3. CommandsFor(Tail(completions[v]), q) \in Nat
      BY <1>5, <2>1, PlacesFinite
    <3> QED
      BY <2>0, <2>1, <3>1, <3>2, <3>3 DEF Copies
  <2>2. CASE v # w
    <3>1. completions'[v] = completions[v]
      BY <1>0, <1>3, <2>2 DEF PoolTypes
    <3>2. CommandsFor(completions[v], q) \in Nat
      BY <1>0, CopiesType
    <3> QED
      BY <2>0, <2>2, <3>1, <3>2 DEF Copies
  <2> QED
    BY <2>1, <2>2
<1>8. ASSUME NEW q \in Position PROVE Conserved(q)'
  <2>0. Conserved(q)
    BY <1>0 DEF PoolInv
  <2>1. CASE q = p
    <3>1. positions'[p] = [state |-> "ready", worker |-> w]
      BY <1>4 DEF TypeOK
    <3>2. ready'[p] # "missing"
      BY <1>0, <1>3, <1>5 DEF PoolTypes, Command
    <3>3. ASSUME NEW v \in Worker
          PROVE  /\ positions'[p] # [state |-> "dispatched", worker |-> v]
                 /\ <<v, p>> \notin pending' /\ p \notin replay'[v]
                 /\ Copies(v, p)' = 0
      <4>1. positions[p] = [state |-> "dispatched", worker |-> v] <=> v = w
        BY <1>2
      <4>2. p \notin replay[v]
        BY <1>2, <2>0, <2>1, <4>1 DEF PoolInv, Conserved
      <4>3. <<v, p>> \in pending <=> v = w
        BY <1>2, <2>0, <2>1, <4>1 DEF Conserved
      <4>4. /\ Copies(v, p)' \in Nat
            /\ Copies(v, p) = Copies(v, p)' + (IF v = w THEN 1 ELSE 0)
        BY <1>6, <1>7, CopiesTypeNext
      <4>5. /\ v = w => Copies(v, p) <= 1
            /\ v # w => Copies(v, p) = 0
        BY <2>0, <2>1, <4>3 DEF Conserved
      <4> QED
        BY <1>3, <3>1, <4>2, <4>3, <4>4, <4>5
    <3> QED
      BY <2>1, <3>1, <3>2, <3>3 DEF Conserved
  <2>2. CASE q # p
    <3>1. positions'[q] = positions[q] /\ ready'[q] = ready[q]
      BY <1>0, <1>3, <1>4, <2>2 DEF TypeOK, PoolTypes
    <3>2. ASSUME NEW v \in Worker
          PROVE  /\ Copies(v, q)' = Copies(v, q)
                 /\ <<v, q>> \in pending' <=> <<v, q>> \in pending
      <4>1. Copies(v, q) \in Nat /\ Copies(v, q) = Copies(v, q)' + 0
        BY <1>0, <1>7, <2>2, CopiesType
      <4>2. Copies(v, q)' \in Nat
        BY <1>6, CopiesTypeNext
      <4> QED
        BY <1>3, <2>2, <4>1, <4>2
    <3> QED
      BY <2>0, <3>1, <3>2 DEF Conserved
  <2> QED
    BY <2>1, <2>2
<1>9. \A v \in Worker : \A q \in replay'[v] : <<v, q>> \notin pending'
  BY <1>3 DEF PoolInv
<1> QED
  BY <1>0, <1>3, <1>6, <1>8, <1>9 DEF PoolInv

(* A committed position leaves the schedule with its result.               *)
LEMMA TakeKeepsPool ==
    ASSUME PoolInv, TypeOK, Take
    PROVE  PoolInv'
<1>0. PoolTypes /\ outcome = "open" /\ step = "commit"
  BY DEF PoolInv, Take
<1>1. PICK p \in Position :
          /\ Commit(p)
          /\ ready' = [ready EXCEPT ![p] = "missing"]
  BY DEF Take, CommitNext, TakeReady
<1>2. /\ positions' = [positions EXCEPT ![p] = Absent]
      /\ positions[p].state = "ready"
      /\ UNCHANGED <<pending, dispatches, completions, job, alive, replay>>
  BY <1>1 DEF Commit, TryCommitReady, Take
<1>3. PoolTypes'
  BY <1>0, <1>1, <1>2 DEF PoolTypes
<1>4. ASSUME NEW q \in Position PROVE Conserved(q)'
  <2>0. Conserved(q) /\ \A v \in Worker : Copies(v, q)' = Copies(v, q)
    BY <1>0, <1>2 DEF PoolInv, Copies
  <2>1. CASE q = p
    <3>1. positions'[p] = Absent /\ ready'[p] = "missing"
      BY <1>0, <1>1, <1>2 DEF TypeOK, PoolTypes
    <3>2. ASSUME NEW v \in Worker
          PROVE  /\ positions[p] # [state |-> "dispatched", worker |-> v]
                 /\ positions'[p] # [state |-> "dispatched", worker |-> v]
      BY <1>2, <3>1 DEF Absent
    <3>3. positions'[p].state # "ready"
      BY <3>1 DEF Absent
    <3> QED
      BY <1>2, <2>0, <2>1, <3>1, <3>2, <3>3 DEF Conserved
  <2>2. CASE q # p
    <3>1. positions'[q] = positions[q] /\ ready'[q] = ready[q]
      BY <1>0, <1>1, <1>2, <2>2 DEF TypeOK, PoolTypes
    <3> QED
      BY <1>2, <2>0, <3>1 DEF Conserved
  <2> QED
    BY <2>1, <2>2
<1>5. step' # "replay" /\ (outcome' = "open" \/ step' = "done")
  BY <1>0 DEF Take, CommitNext, TakeReady, Close, Goto
<1>6. /\ \A v \in Worker : \A q \in replay'[v] : <<v, q>> \notin pending'
      /\ \A v \in Worker : alive'[v] \/ job'[v] = Idle
      /\ \A v \in Worker : replay'[v] = {}
  BY <1>0, <1>2 DEF PoolInv
<1> QED
  BY <1>3, <1>4, <1>5, <1>6 DEF PoolInv

(* What the pool waits for from a dead worker is what it has to replay.    *)
LEMMA ReplaceKeepsPool ==
    ASSUME PoolInv, TypeOK, NEW w \in Worker, DeathNoticed(w)
    PROVE  PoolInv'
<1>0. PoolTypes /\ outcome = "open" /\ step # "replay" /\ ~alive[w]
  BY DEF PoolInv, DeathNoticed
<1>1. CASE policy = "close" /\ Close("died")
           /\ UNCHANGED <<alive, pending, replay, dispatches, completions>>
  <2>1. PoolTypes' /\ step' = "done" /\ outcome' # "open" /\ UNCHANGED job
    BY <1>0, <1>1 DEF PoolTypes, DeathNoticed, Close, Goto
  <2> QED
    BY <1>1, <2>1 DEF PoolInv
<1>2. CASE Replace(w) /\ Goto("replay") /\ UNCHANGED outcome
  <2>1. /\ alive' = [alive EXCEPT ![w] = TRUE]
        /\ pending' = {c \in pending : c[1] # w}
        /\ replay' = [replay EXCEPT ![w] = PendingOf(w)]
        /\ dispatches' = [dispatches EXCEPT ![w] = << >>]
        /\ completions' = [completions EXCEPT ![w] = << >>]
        /\ UNCHANGED <<positions, ready, job>>
        /\ step' = "replay"
    BY <1>2 DEF Replace, Goto, DeathNoticed, vars
  <2>2. PoolTypes'
    <3>1. << >> \in Seq(Command) /\ PendingOf(w) \subseteq Position
      BY DEF PendingOf
    <3> QED
      BY <1>0, <2>1, <3>1 DEF PoolTypes
  <2>3. ASSUME NEW v \in Worker, NEW q \in Position
        PROVE  /\ <<v, q>> \in pending' <=> v # w /\ <<v, q>> \in pending
               /\ q \in replay'[v] <=> v = w /\ <<v, q>> \in pending
               /\ Copies(v, q)' = IF v = w THEN 0 ELSE Copies(v, q)
    <3>1. replay[v] = {}
      BY <1>0 DEF PoolInv
    <3>2. CASE v = w
      <4>1. dispatches'[v] = << >> /\ completions'[v] = << >> /\ job'[v] = Idle
        BY <1>0, <2>1, <3>2 DEF PoolInv, PoolTypes
      <4>2. CommandsFor(<<job'[v]>>, q) = 0
        BY <4>1, CountJob DEF Idle, Position
      <4>3. Copies(v, q)' = 0
        BY <4>1, <4>2, CountNone DEF Copies
      <4> QED
        BY <1>0, <2>1, <3>2, <4>3 DEF PendingOf, PoolTypes
    <3>3. CASE v # w
      <4>1. /\ dispatches'[v] = dispatches[v] /\ job'[v] = job[v]
            /\ completions'[v] = completions[v] /\ replay'[v] = {}
        BY <1>0, <2>1, <3>1, <3>3 DEF PoolTypes
      <4> QED
        BY <2>1, <3>3, <4>1 DEF Copies
    <3> QED
      BY <3>2, <3>3
  <2>4. ASSUME NEW q \in Position PROVE Conserved(q)'
    <3>1. Conserved(q)
      BY <1>0 DEF PoolInv
    <3>2. ASSUME NEW v \in Worker
          PROVE  /\ v # w => alive'[v] = alive[v]
                 /\ q \notin replay[v]
      BY <1>0, <2>1 DEF PoolInv, PoolTypes
    <3>3. ASSUME NEW v \in Worker
          PROVE  /\ positions[q] = [state |-> "dispatched", worker |-> v]
                    <=> <<v, q>> \in pending' \/ q \in replay'[v]
                 /\ <<v, q>> \notin pending' => Copies(v, q)' = 0
                 /\ <<v, q>> \in pending' => Copies(v, q)' <= 1
                 /\ <<v, q>> \in pending' /\ alive'[v] => Copies(v, q)' = 1
      BY <2>3, <3>1, <3>2 DEF Conserved
    <3> QED
      BY <2>1, <3>1, <3>3 DEF Conserved
  <2>5. \A v \in Worker : \A q \in replay'[v] : <<v, q>> \notin pending'
    <3>1. \A v \in Worker : replay'[v] \subseteq Position
      BY <2>2 DEF PoolTypes
    <3> QED
      BY <2>3, <3>1
  <2>6. \A v \in Worker : alive'[v] \/ job'[v] = Idle
    BY <1>0, <2>1 DEF PoolInv, PoolTypes
  <2> QED
    BY <1>0, <1>2, <2>1, <2>2, <2>4, <2>5, <2>6 DEF PoolInv
<1> QED
  BY <1>1, <1>2 DEF DeathNoticed

(* A sample goes out for the first time (submit).                          *)
LEMMA FillKeepsPool ==
    ASSUME PoolInv, TypeOK, NEW p \in Position, FillOne(p)
    PROVE  PoolInv'
<1>0. /\ PoolTypes /\ outcome = "open" /\ UNCHANGED <<outcome, step, replay>>
      /\ step # "replay" /\ \A v \in Worker : replay[v] = {}
  BY DEF PoolInv, FillOne, Filling, consumer
<1>1. Route \in Worker
  BY ScheduleAssumption, RouteInRange DEF Route, TypeOK, Worker
<1>2. /\ positions[p] = Absent
      /\ positions' = [positions EXCEPT
                          ![p] = [state |-> "dispatched", worker |-> Route]]
  BY DEF FillOne, MarkDispatched, DispatchCandidates
<1>3. /\ ready[p] = "missing" /\ \A v \in Worker : <<v, p>> \notin pending
  <2>1. Conserved(p)
    BY <1>0 DEF PoolInv
  <2>2. /\ positions[p].state # "ready"
        /\ \A v \in Worker :
               positions[p] # [state |-> "dispatched", worker |-> v]
    BY <1>2 DEF Absent
  <2> QED
    BY <2>1, <2>2 DEF Conserved
<1>4. PICK c \in Command : c.position = p
          /\ dispatches' = [dispatches EXCEPT ![Route] = Append(@, c)]
  <2>1. [position |-> p, stage |-> Asked] \in Command
    BY DEF Asked, Command
  <2> QED
    BY <2>1 DEF FillOne
<1>5. /\ pending' = pending \cup {<<Route, p>>}
      /\ UNCHANGED <<ready, completions, job, alive>>
  BY DEF FillOne
<1>6. /\ positions'[p] = [state |-> "dispatched", worker |-> Route]
      /\ \A q \in Position \ {p} : positions'[q] = positions[q]
      /\ replay' \in [Worker -> SUBSET Position]
  BY <1>0, <1>2 DEF TypeOK, PoolTypes
<1> QED
  BY <1>0, <1>1, <1>3, <1>4, <1>5, <1>6, CommandSent

(* A command of a dead worker goes out again (restart_worker).             *)
LEMMA ReplayKeepsPool ==
    ASSUME PoolInv, TypeOK, NEW w \in Worker, ReplayOne(w)
    PROVE  PoolInv'
<1>0. PoolTypes /\ outcome = "open" /\ step = "replay"
  BY DEF PoolInv, ReplayOne
<1>1. PICK p \in replay[w] :
          \/ /\ dispatches' = [dispatches EXCEPT ![w] = Append(@,
                                  [position |-> p, stage |-> "sample"])]
             /\ pending' = pending \cup {<<w, p>>}
             /\ replay' = [replay EXCEPT ![w] = @ \ {p}]
             /\ UNCHANGED <<step, outcome>>
          \/ /\ Close("rejected")
             /\ UNCHANGED <<dispatches, pending, replay>>
  BY DEF ReplayOne
<1>2. /\ UNCHANGED <<positions, ready, completions, job, alive>>
      /\ p \in Position
  BY <1>0 DEF ReplayOne, vars, PoolTypes
<1>3. CASE dispatches' = [dispatches EXCEPT ![w] = Append(@,
                             [position |-> p, stage |-> "sample"])]
           /\ pending' = pending \cup {<<w, p>>}
           /\ replay' = [replay EXCEPT ![w] = @ \ {p}]
           /\ UNCHANGED <<step, outcome>>
  <2>1. Conserved(p)
    BY <1>0, <1>2 DEF PoolInv
  <2>2. positions[p] = [state |-> "dispatched", worker |-> w]
    BY <2>1 DEF Conserved
  <2>3. ASSUME NEW v \in Worker
        PROVE  v # w => <<v, p>> \notin pending /\ p \notin replay[v]
    <3>1. positions[p] = [state |-> "dispatched", worker |-> v] <=> v = w
      BY <2>2
    <3> QED
      BY <2>1, <3>1 DEF Conserved
  <2>4. <<w, p>> \notin pending
    BY DEF PoolInv
  <2>5. ready[p] = "missing"
    BY <2>1, <2>2 DEF Conserved
  <2>6. /\ replay' \in [Worker -> SUBSET Position]
        /\ \A v \in Worker : p \notin replay'[v]
        /\ \A v \in Worker : \A q \in Position \ {p} :
               q \in replay'[v] <=> q \in replay[v]
    BY <1>0, <1>3, <2>3 DEF PoolTypes
  <2>7. PICK c \in Command : c = [position |-> p, stage |-> "sample"]
    BY <1>2 DEF Command
  <2> QED
    <3>1. /\ PoolInv /\ w \in Worker /\ p \in Position /\ c \in Command
          /\ c.position = p /\ outcome = "open" /\ outcome' = "open"
      BY <1>0, <1>2, <1>3, <2>7
    <3>2. /\ dispatches' = [dispatches EXCEPT ![w] = Append(@, c)]
          /\ pending' = pending \cup {<<w, p>>}
          /\ UNCHANGED <<ready, completions, job, alive>>
      BY <1>2, <1>3, <2>7
    <3>3. \A v \in Worker : <<v, p>> \notin pending
      BY <2>3, <2>4
    <3>4. /\ positions'[p] = [state |-> "dispatched", worker |-> w]
          /\ \A q \in Position \ {p} : positions'[q] = positions[q]
      BY <1>2, <2>2
    <3>5. step' # "replay" => \A v \in Worker : replay'[v] = {}
      BY <1>0, <1>3
    <3> QED
      BY ONLY <2>5, <2>6, <3>1, <3>2, <3>3, <3>4, <3>5, CommandSent
<1>4. CASE Close("rejected") /\ UNCHANGED <<dispatches, pending, replay>>
  <2>1. PoolTypes' /\ outcome' # "open" /\ step' = "done"
    BY <1>0, <1>2, <1>4 DEF PoolTypes, Close, Goto
  <2> QED
    BY <1>2, <1>4, <2>1 DEF PoolInv
<1> QED
  BY <1>1, <1>3, <1>4

(* Every step of the consumer's thread keeps the books.                    *)
LEMMA OwnerKeepsPool ==
    ASSUME PoolInv, TypeOK, OwnerStep
    PROVE  PoolInv'
<1>1. CASE OpenIterator
  BY <1>1, PoolUntouched
  DEF OpenIterator, SetWorkerCount, Goto, pool, PoolInv
<1>2. CASE FillEnds
  <2>1. UNCHANGED positions /\ step' # "replay" /\ step # "replay"
    BY <1>2 DEF FillEnds, Filling, Deliver, SetWorkerCount, Goto, vars
  <2>2. UNCHANGED <<pool, replay, outcome>> /\ outcome = "open"
    BY <1>2 DEF FillEnds, Filling, PoolInv
  <2> QED
    BY <2>1, <2>2, PoolUntouched
<1>3. CASE CallNext \/ NothingReady \/ PollEnds \/ AllAlive \/ Timeout
  BY <1>3, PoolUntouched
  DEF CallNext, NothingReady, PollEnds, AllAlive, Timeout, Close, Goto, vars,
      pool, PoolInv
<1>4. CASE WorkerDied
  BY <1>4, PoolUntouched DEF WorkerDied, Goto, vars, pool, PoolInv
<1>5. CASE Wait
  <2>1. UNCHANGED <<positions, pool, replay, outcome>> /\ outcome = "open"
    BY <1>5 DEF Wait, RecordWait, SetDepth, vars, PoolInv
  <2> QED
    BY <1>5, <2>1, PoolUntouched DEF Wait, Goto
<1>6. ASSUME NEW w \in Worker, PollWorker(w) PROVE PoolInv'
  <2>1. CASE Receive(w)
    BY <1>6, <2>1, ReceiveKeepsPool DEF PollWorker
  <2>2. CASE ~Receive(w)
    BY <1>6, <2>2, PoolUntouched DEF PollWorker, vars, pool, PoolInv
  <2> QED
    BY <2>1, <2>2
<1> QED
  BY <1>1, <1>2, <1>3, <1>4, <1>5, <1>6, FillKeepsPool, TakeKeepsPool,
     ReplaceKeepsPool, ReplayKeepsPool DEF OwnerStep

(* So does every step of the system.                                       *)
LEMMA PoolInvStep == PoolInv /\ TypeOK /\ [DeliveryNext]_system => PoolInv'
<1> SUFFICES ASSUME PoolInv, TypeOK, [DeliveryNext]_system PROVE PoolInv'
  OBVIOUS
<1>1. CASE Finished \/ UNCHANGED system
  BY <1>1, PoolUntouched
  DEF Finished, system, vars, pool, consumer, PoolInv
<1> QED
  BY <1>1, OwnerKeepsPool, TryRecvKeepsPool, PublishKeepsPool, DeathKeepsPool
  DEF DeliveryNext, Owner, Process, ProcessDies

(* An iterator starts with empty books.                                    *)
LEMMA PoolInvInit == DeliveryInit => PoolInv
<1> SUFFICES ASSUME DeliveryInit PROVE PoolInv
  OBVIOUS
<1>1. PoolTypes
  <2>1. << >> \in Seq(Command)
    OBVIOUS
  <2> QED
    BY <2>1 DEF DeliveryInit, PoolTypes
<1>2. ASSUME NEW w \in Worker, NEW p \in Position PROVE Copies(w, p) = 0
  <2>1. dispatches[w] = << >> /\ completions[w] = << >> /\ job[w] = Idle
    BY DEF DeliveryInit
  <2>2. CommandsFor(<<job[w]>>, p) = 0
    BY <2>1, CountJob DEF Idle, Position
  <2> QED
    BY <2>1, <2>2, CountNone DEF Copies
<1>3. ASSUME NEW p \in Position PROVE Conserved(p)
  <2>1. positions[p] = Absent
    BY DEF DeliveryInit, Init
  <2> QED
    BY <1>2, <2>1 DEF Conserved, DeliveryInit, Absent
<1> QED
  BY <1>1, <1>3 DEF PoolInv, DeliveryInit

(* The books are kept for ever.                                            *)
LEMMA PoolInvAlways == DeliverySpec => []PoolInv
<1>1. DeliverySpec => []TypeOK
  BY DeliveryImplementsSchedule, TypeCorrect, PTL
<1> QED
  BY <1>1, PoolInvInit, PoolInvStep, PTL DEF DeliverySpec

(* No work is lost and none is done twice, for every number of workers,    *)
(* ring capacity, policy and death: what the scheduler has sent out the    *)
(* pool waits for or is about to replay, one copy of it at most is on its  *)
(* way, exactly one if its worker lives, and the ready positions are those *)
(* with a result (submit, try_receive, restart_worker).                    *)
THEOREM WorkAlwaysConserved == DeliverySpec => []WorkConserved
  BY PoolInvAlways, PoolInvImpliesWork, PTL

-----------------------------------------------------------------------------
(* The batches.                                                            *)

(* How many samples the batch that starts at p has.                        *)
LEMMA BatchLength ==
    ASSUME DeliveryAssumption, NEW p \in Position
    PROVE  /\ Cardinality(BatchFrom(p)) \in Nat \ {0}
           /\ Cardinality(BatchFrom(p)) =
                  IF p + BatchSize < End THEN BatchSize ELSE End - p
<1>1. p \in Int /\ p < End /\ End \in Int /\ BatchSize \in Nat /\ BatchSize > 0
  BY ScheduleAssumption DEF DeliveryAssumption, Position
<1> PICK last \in Int : last = (IF p + BatchSize < End THEN p + BatchSize
                                ELSE End) - 1
  BY <1>1
<1>2. Cardinality(p..last) = IF p > last THEN 0 ELSE last - p + 1
  BY <1>1, FS_Interval
<1>3. BatchFrom(p) = p..last
  BY DEF BatchFrom
<1> QED
  BY <1>1, <1>2, <1>3

(* A multiple, and the next one.                                           *)
LEMMA MultipleOf ==
    ASSUME NEW b \in Nat \ {0}, NEW k \in Nat
    PROVE  (k * b) % b = 0 /\ k * b + b = (k + 1) * b
  OBVIOUS

Multiple(n) == \E k \in Nat : n = k * BatchSize

(* A run of consecutive samples from n on.                                 *)
RunFrom(n, run) ==
    /\ run \in Seq(Position)
    /\ \A i \in DOMAIN run : run[i] = n + i - 1

(* What BatchesWhole says of one delivered batch.                          *)
Whole(run) ==
    /\ run # << >>
    /\ Multiple(run[1]) /\ RunFrom(run[1], run)
    /\ Len(run) = Cardinality(BatchFrom(run[1]))

(* In strict delivery the batch starts where the iterator is, and a        *)
(* restart may leave it incomplete; on completion it belongs to the batch  *)
(* at the head of the queue, and none is open while the iterator waits.    *)
BatchInv ==
    /\ batch \in Seq(Position)
    /\ InOrder =>
         /\ position \in Nat /\ (Multiple(position) \/ position = End)
         /\ RunFrom(position, batch)
         /\ batch # << >> => Len(batch) <= Cardinality(BatchFrom(position))
         /\ step # "refill" /\ batch # << >> =>
                Len(batch) < Cardinality(BatchFrom(position))
    /\ ~InOrder =>
         /\ ready_batches \in Seq(Nat)
         /\ batch # << >> => step \in {"commit", "refill"}
         /\ step = "commit" /\ batch # << >> =>
                /\ ready_batches # << >>
                /\ RunFrom(Head(ready_batches) * BatchSize, batch)
                /\ Len(batch) <
                       Cardinality(BatchFrom(Head(ready_batches) * BatchSize))
         /\ step = "refill" => Whole(batch)
    /\ served \in Seq(Seq(Position))
    /\ \A i \in DOMAIN served : Whole(served[i])

(* The invariant of the batches contains the property.                     *)
LEMMA BatchInvImpliesWhole ==
    ASSUME DeliveryAssumption, BatchInv PROVE BatchesWhole
<1> SUFFICES ASSUME NEW i \in DOMAIN served
             PROVE  /\ served[i][1] % BatchSize = 0
                    /\ Len(served[i]) = Cardinality(BatchFrom(served[i][1]))
                    /\ \A j \in DOMAIN served[i] :
                           served[i][j] = served[i][1] + j - 1
  BY DEF BatchesWhole
<1>1. Whole(served[i])
  BY DEF BatchInv
<1>2. PICK k \in Nat : served[i][1] = k * BatchSize
  BY <1>1 DEF Whole, Multiple
<1>3. served[i][1] % BatchSize = 0
  BY <1>2, MultipleOf DEF DeliveryAssumption
<1> QED
  BY <1>1, <1>3 DEF Whole, RunFrom

(* An iterator starts at a multiple of the batch size.                     *)
LEMMA BatchInvInit == DeliveryInit => BatchInv
<1> SUFFICES ASSUME DeliveryInit PROVE BatchInv
  OBVIOUS
<1>1. /\ batch = << >> /\ served = << >> /\ ready_batches = << >>
      /\ step = "open"
  BY DEF DeliveryInit
<1>2. ASSUME InOrder PROVE position \in Nat /\ Multiple(position)
  <2>1. Restored = {} /\ Start \in Nat
    BY <1>2, ScheduleAssumption DEF ScheduleAssumption
  <2>5. position = Start
    BY <2>1, FS_EmptySet DEF DeliveryInit
  <2>2. Start = BatchSize * (Start \div BatchSize) /\ Start \div BatchSize \in Nat
    BY <2>1, DeliveryAssumption DEF DeliveryAssumption
  <2>3. PICK k \in Nat : k = Start \div BatchSize
    BY <2>2
  <2>4. Start = k * BatchSize
    BY <2>1, <2>2, <2>3, DeliveryAssumption DEF DeliveryAssumption
  <2> QED
    BY <2>1, <2>4, <2>5 DEF Multiple
<1> QED
  BY <1>1, <1>2 DEF BatchInv, RunFrom

(* A step that takes and delivers nothing.                                 *)
LEMMA BatchUntouched ==
    ASSUME BatchInv, UNCHANGED <<position, served>>,
           batch' = batch \/ (batch' = << >> /\ step' # "refill"),
           InOrder \/ ready_batches' = ready_batches
               \/ (step = "poll" /\ step' # "refill"),
           ~InOrder => ready_batches' \in Seq(Nat),
           step' = step \/ (step \notin {"commit", "refill"} /\ step' # "refill")
    PROVE  BatchInv'
<1>2. CASE batch' = << >> /\ step' # "refill"
  <2>1. RunFrom(position', << >>)
    BY DEF RunFrom
  <2>2. << >> \in Seq(Position)
    OBVIOUS
  <2> QED
    BY <1>2, <2>1, <2>2 DEF BatchInv, RunFrom, Whole, Multiple
<1>3. CASE batch' = batch /\ InOrder
  BY <1>3 DEF BatchInv, RunFrom, Whole, Multiple, BatchFrom
<1>4. CASE batch' = batch /\ ~InOrder
  BY <1>4 DEF BatchInv, RunFrom, Whole, Multiple, BatchFrom
<1> QED
  BY <1>2, <1>3, <1>4

(* A sample joins a run behind its last one.                               *)
LEMMA RunGrows ==
    ASSUME NEW n \in Nat, NEW run, RunFrom(n, run),
           NEW p \in Position, p = n + Len(run)
    PROVE  /\ RunFrom(n, Append(run, p)) /\ Len(Append(run, p)) = Len(run) + 1
           /\ Append(run, p) # << >> /\ Append(run, p)[1] = n
           /\ n \in Position
<1>1. run \in Seq(Position) /\ \A i \in 1..Len(run) : run[i] = n + i - 1
  BY DEF RunFrom
<1>2. /\ Append(run, p) \in Seq(Position)
      /\ Len(Append(run, p)) = Len(run) + 1 /\ Len(run) \in Nat
      /\ \A i \in 1..Len(run) : Append(run, p)[i] = run[i]
      /\ Append(run, p)[Len(run) + 1] = p
  BY <1>1
<1>3. ASSUME NEW i \in 1..(Len(run) + 1) PROVE Append(run, p)[i] = n + i - 1
  BY <1>1, <1>2
<1>4. Append(run, p)[1] = n
  BY <1>2, <1>3
<1>5. Append(run, p)[1] \in Position
  BY <1>2
<1> QED
  BY <1>2, <1>3, <1>4, <1>5 DEF RunFrom

(* Strict delivery adds the next sample to its batch.                      *)
LEMMA CommitKeepsBatches ==
    ASSUME DeliveryAssumption, BatchInv, step = "commit", CommitNext,
           UNCHANGED <<position, served>>
    PROVE  BatchInv'
<1>1. PICK p \in Position :
          /\ Commit(p)
          /\ IF p = Expected
             THEN Goto("refill") /\ batch' = Append(batch, p)
             ELSE Close("noncontiguous") /\ UNCHANGED batch
  BY DEF CommitNext
<1>2. InOrder /\ UNCHANGED ready_batches
  BY DEF CommitNext
<1>3. CASE p # Expected
  BY <1>1, <1>2, <1>3 DEF BatchInv, Close, Goto, RunFrom, Whole, Multiple, BatchFrom
<1>4. CASE p = Expected
  <2>1. /\ RunFrom(position, batch) /\ position \in Nat
        /\ Multiple(position) \/ position = End
        /\ batch # << >> => Len(batch) < Cardinality(BatchFrom(position))
        /\ batch' = Append(batch, p) /\ step' = "refill"
        /\ batch \in Seq(Position)
    BY <1>1, <1>2, <1>4 DEF BatchInv, Goto
  <2>2. p = position + Len(batch)
    BY <1>4 DEF Expected
  <2>3. /\ RunFrom(position, batch') /\ Len(batch') = Len(batch) + 1
        /\ batch' # << >> /\ position \in Position
    BY <2>1, <2>2, RunGrows
  <2>4. Cardinality(BatchFrom(position)) \in Nat \ {0}
    BY <2>3, BatchLength
  <2>5. batch = << >> => Len(batch) = 0
    OBVIOUS
  <2>6. Len(batch') <= Cardinality(BatchFrom(position))
    BY <2>1, <2>3, <2>4, <2>5
  <2>7. batch' \in Seq(Position)
    BY <2>3 DEF RunFrom
  <2> HIDE DEF Multiple, RunFrom, BatchFrom, Whole
  <2>8. /\ position' = position /\ served' = served
    OBVIOUS
  <2>9. /\ RunFrom(position', batch')
        /\ Multiple(position') \/ position' = End
        /\ Len(batch') <= Cardinality(BatchFrom(position'))
    BY <2>1, <2>3, <2>6, <2>8
  <2>10. \A i \in DOMAIN served' : Whole(served'[i])
    BY <2>8 DEF BatchInv
  <2> QED
    BY <1>2, <2>1, <2>7, <2>8, <2>9, <2>10 DEF BatchInv
<1> QED
  BY <1>3, <1>4

(* On completion the batch at the head of the queue is filled.             *)
LEMMA TakeReadyKeepsBatches ==
    ASSUME DeliveryAssumption, BatchInv, step = "commit", TakeReady,
           UNCHANGED <<position, served>>
    PROVE  BatchInv'
<1>1. PICK n \in Nat : n = Head(ready_batches) * BatchSize
  <2>1. Head(ready_batches) \in Nat
    BY DEF TakeReady, BatchInv
  <2> QED
    BY <2>1 DEF DeliveryAssumption
<1>2. PICK p \in Position :
          /\ p = n + Len(batch)
          /\ batch' = Append(batch, p)
          /\ IF Len(batch') = Cardinality(BatchFrom(n))
             THEN ready_batches' = Tail(ready_batches) /\ step' = "refill"
             ELSE UNCHANGED <<ready_batches, step>>
  BY <1>1 DEF TakeReady, Goto
<1>3. ~InOrder /\ ready_batches # << >> /\ ready_batches \in Seq(Nat)
  BY DEF TakeReady, BatchInv
<1>4. /\ RunFrom(n, batch)
      /\ batch # << >> => Len(batch) < Cardinality(BatchFrom(n))
  <2>1. CASE batch = << >>
    BY <2>1 DEF RunFrom
  <2>2. CASE batch # << >>
    BY <1>1, <1>3, <2>2 DEF BatchInv
  <2> QED
    BY <2>1, <2>2
<1>5. /\ RunFrom(n, batch') /\ Len(batch') = Len(batch) + 1
      /\ batch' # << >> /\ batch'[1] = n /\ n \in Position
  BY <1>2, <1>4, RunGrows
<1>6. Cardinality(BatchFrom(n)) \in Nat \ {0}
  BY <1>5, BatchLength
<1>7. Multiple(n)
  <2>1. Head(ready_batches) \in Nat
    BY <1>3
  <2> QED
    BY <1>1, <2>1 DEF Multiple
<1>8. batch' \in Seq(Position)
  BY <1>5 DEF RunFrom
<1>9. \A i \in DOMAIN served' : Whole(served'[i])
  BY DEF BatchInv
<1>10. served' \in Seq(Seq(Position))
  BY DEF BatchInv
<1>11. CASE Len(batch') = Cardinality(BatchFrom(n))
  <2>1. Whole(batch')
    BY <1>5, <1>7, <1>11 DEF Whole
  <2>2. ready_batches' \in Seq(Nat) /\ step' = "refill"
    <3>1. Tail(ready_batches) \in Seq(Nat)
      BY <1>3
    <3> QED
      BY <1>2, <1>11, <3>1
  <2> QED
    BY <1>3, <1>8, <1>9, <1>10, <2>1, <2>2 DEF BatchInv
<1>12. CASE Len(batch') # Cardinality(BatchFrom(n))
  <2>1. ready_batches' = ready_batches /\ step' = "commit"
    BY <1>2, <1>12
  <2>2. Len(batch') < Cardinality(BatchFrom(n))
    <3>1. batch = << >> => Len(batch) = 0
      OBVIOUS
    <3>2. Len(batch) \in Nat
      BY DEF BatchInv
    <3> QED
      BY <1>4, <1>5, <1>6, <1>12, <3>1, <3>2
  <2>3. n = Head(ready_batches') * BatchSize
    BY <1>1, <2>1
  <2> QED
    BY <1>3, <1>5, <1>8, <1>9, <1>10, <2>1, <2>2, <2>3 DEF BatchInv
<1> QED
  BY <1>11, <1>12

(* A delivered batch is whole, and strict delivery goes on behind it.      *)
LEMMA DeliverKeepsBatches ==
    ASSUME DeliveryAssumption, BatchInv, step = "refill", Assembled, Deliver,
           UNCHANGED ready_batches
    PROVE  BatchInv'
<1>1. /\ batch # << >> /\ Cardinality(BatchFrom(batch[1])) = Len(batch)
      /\ served' = Append(served, batch) /\ position' = position + Len(batch)
      /\ batch' = << >> /\ step' = "user"
  BY DEF Assembled, Deliver, Goto
<1>2. batch \in Seq(Position) /\ batch[1] \in Position
  BY <1>1 DEF BatchInv
<1>3. Whole(batch)
  <2>1. CASE ~InOrder
    BY <2>1 DEF BatchInv
  <2>2. CASE InOrder
    <3>1. /\ RunFrom(position, batch) /\ (Multiple(position) \/ position = End)
          /\ position \in Nat
      BY <2>2 DEF BatchInv
    <3>2. batch[1] = position
      BY <1>1, <1>2, <3>1 DEF RunFrom
    <3>3. position # End
      BY <1>2, <3>2, ScheduleAssumption DEF Position, ScheduleAssumption
    <3> QED
      BY <1>1, <3>1, <3>2, <3>3 DEF Whole
  <2> QED
    BY <2>1, <2>2
<1>4. served' \in Seq(Seq(Position)) /\ \A i \in DOMAIN served' : Whole(served'[i])
  <2>1. /\ served' \in Seq(Seq(Position)) /\ DOMAIN served' = 1..(Len(served) + 1)
        /\ served \in Seq(Seq(Position)) /\ Len(served) \in Nat
        /\ \A i \in 1..Len(served) : served'[i] = served[i]
        /\ served'[Len(served) + 1] = batch
    BY <1>1, <1>2 DEF BatchInv
  <2>2. \A i \in 1..Len(served) : Whole(served[i])
    <3>1. \A i \in DOMAIN served : Whole(served[i])
      BY DEF BatchInv
    <3>2. DOMAIN served = 1..Len(served)
      BY <2>1
    <3> QED
      BY <3>1, <3>2
  <2>3. ASSUME NEW i \in 1..(Len(served) + 1) PROVE Whole(served'[i])
    <3>1. CASE i = Len(served) + 1
      <4>1. served'[i] = batch
        BY <2>1, <3>1
      <4> QED
        BY <1>3, <4>1
    <3>2. CASE i # Len(served) + 1
      <4>1. i \in 1..Len(served)
        BY <2>1, <3>2
      <4>2. served'[i] = served[i] /\ Whole(served[i])
        BY <2>1, <2>2, <4>1
      <4> QED
        BY <4>2
    <3> QED
      BY <3>1, <3>2
  <2> QED
    BY <2>1, <2>3
<1>5. << >> \in Seq(Position) /\ RunFrom(position', << >>)
  BY DEF RunFrom
<1>6. ASSUME InOrder
      PROVE  position' \in Nat /\ (Multiple(position') \/ position' = End)
  <2>1. PICK k \in Nat : batch[1] = k * BatchSize
    BY <1>3 DEF Whole, Multiple
  <2>2. position = batch[1] /\ position \in Nat
    BY <1>1, <1>2, <1>6 DEF BatchInv, RunFrom
  <2>3. Len(batch) = IF position + BatchSize < End THEN BatchSize
                                                   ELSE End - position
    BY <1>1, <1>2, <2>2, BatchLength
  <2>4. End \in Nat /\ BatchSize \in Nat \ {0}
    BY ScheduleAssumption DEF ScheduleAssumption, DeliveryAssumption
  <2>5. CASE position + BatchSize < End
    <3>1. position' = k * BatchSize + BatchSize /\ position' \in Nat
      BY <1>1, <2>1, <2>2, <2>3, <2>4, <2>5
    <3>2. position' = (k + 1) * BatchSize /\ k + 1 \in Nat
      BY <2>4, <3>1, MultipleOf
    <3> QED
      BY <3>1, <3>2 DEF Multiple
  <2>6. CASE ~(position + BatchSize < End)
    <3>1. Len(batch) = End - position /\ position \in Int /\ End \in Nat
      BY <2>2, <2>3, <2>4, <2>6
    <3>2. position' = position + Len(batch)
      BY <1>1
    <3> QED
      BY ONLY <3>1, <3>2
  <2> QED
    BY <2>5, <2>6
<1>7. ~InOrder => ready_batches' \in Seq(Nat)
  BY DEF BatchInv
<1> QED
  BY <1>1, <1>4, <1>5, <1>6, <1>7 DEF BatchInv

(* Every step of the consumer's thread keeps the batches.                  *)
LEMMA OwnerKeepsBatches ==
    ASSUME DeliveryAssumption, BatchInv, OwnerStep
    PROVE  BatchInv'
<1>1. CASE OpenIterator \/ CallNext \/ PollEnds \/ AllAlive \/ Timeout \/ Wait
  BY <1>1, BatchUntouched
  DEF OpenIterator, CallNext, PollEnds, AllAlive, Timeout, Wait, Close, Goto,
      BatchInv
<1>2. ASSUME NEW p \in Position, FillOne(p) PROVE BatchInv'
  BY <1>2, BatchUntouched DEF FillOne, consumer, BatchInv
<1>3. CASE FillEnds
  <2>1. CASE step = "refill" /\ Assembled /\ Deliver
    BY <1>3, <2>1, DeliverKeepsBatches DEF FillEnds
  <2>2. CASE ~(step = "refill" /\ Assembled)
    <3>1. /\ step' = CASE step = "prime" -> "user" [] step = "fill" -> "commit"
                        [] step = "refill" -> "fill"
          /\ step \in {"prime", "fill", "refill"}
          /\ UNCHANGED <<served, position, batch, ready_batches>>
      BY <1>3, <2>2 DEF FillEnds, Filling, Goto
    <3>2. CASE step # "refill"
      <4>1. step' \in {"user", "commit"}
        BY <3>1, <3>2
      <4>2. CASE step = "prime"
        BY <3>1, <4>2, BatchUntouched DEF BatchInv
      <4>3. CASE step = "fill"
        BY <3>1, <4>3, BatchUntouched DEF BatchInv
      <4> QED
        BY <3>1, <3>2, <4>2, <4>3
    <3>3. CASE step = "refill"
      <4>1. ~Assembled /\ step' = "fill"
        BY <2>2, <3>1, <3>3
      <4>2. InOrder
        BY <3>3, <4>1 DEF BatchInv, Whole, Assembled
      <4>3. batch # << >> => Len(batch) < Cardinality(BatchFrom(position))
        <5> SUFFICES ASSUME batch # << >>
                     PROVE  Len(batch) < Cardinality(BatchFrom(position))
          OBVIOUS
        <5>1. /\ batch[1] = position /\ batch[1] \in Position
              /\ Len(batch) <= Cardinality(BatchFrom(position))
              /\ Len(batch) \in Nat
          BY <4>2 DEF BatchInv, RunFrom
        <5>2. Cardinality(BatchFrom(position)) # Len(batch)
          BY <4>1, <5>1 DEF Assembled
        <5>3. Cardinality(BatchFrom(position)) \in Nat
          BY <5>1, BatchLength
        <5> QED
          BY <5>1, <5>2, <5>3
      <4> QED
        BY <3>1, <3>3, <4>1, <4>2, <4>3 DEF BatchInv, RunFrom, Whole, Multiple, BatchFrom
    <3> QED
      BY <3>2, <3>3
  <2> QED
    BY <1>3, <2>1, <2>2 DEF FillEnds
<1>4. CASE Take
  BY <1>4, CommitKeepsBatches, TakeReadyKeepsBatches DEF Take
<1>5. CASE NothingReady
  <2>1. /\ step = "commit" /\ step' = "poll"
        /\ UNCHANGED <<served, position, batch, ready_batches>>
        /\ ~InOrder => ready_batches = << >>
    BY <1>5 DEF NothingReady, Goto
  <2>2. ~InOrder => batch = << >>
    BY <2>1 DEF BatchInv
  <2> QED
    BY <2>1, <2>2 DEF BatchInv, RunFrom, Whole, Multiple, BatchFrom
<1>6. ASSUME NEW w \in Worker, PollWorker(w) PROVE BatchInv'
  <2>1. step = "poll" /\ UNCHANGED <<position, batch, served>>
    BY <1>6 DEF PollWorker
  <2>2. CASE Receive(w)
    <3>1. PICK p \in Position : ready_batches' \in
              {ready_batches, Append(ready_batches, p \div BatchSize)}
      BY <2>2 DEF Receive, Observe
    <3>2. p \div BatchSize \in Nat
      BY ScheduleAssumption DEF ScheduleAssumption, DeliveryAssumption, Position
    <3>3. ~InOrder => ready_batches' \in Seq(Nat)
      <4>1. ~InOrder => ready_batches \in Seq(Nat)
        BY DEF BatchInv
      <4> QED
        BY <3>1, <3>2, <4>1
    <3>4. step' = step \/ step' = "done"
      BY <2>2 DEF Receive, Close, Goto
    <3> QED
      BY <2>1, <3>3, <3>4, BatchUntouched
  <2>3. CASE ~Receive(w)
    BY <1>6, <2>3, BatchUntouched DEF PollWorker, BatchInv
  <2> QED
    BY <2>2, <2>3
<1>7. ASSUME NEW w \in Worker, DeathNoticed(w) \/ ReplayOne(w) PROVE BatchInv'
  BY <1>7, BatchUntouched
  DEF DeathNoticed, ReplayOne, Replace, Close, Goto, BatchInv
<1>8. CASE WorkerDied
  BY <1>8, BatchUntouched DEF WorkerDied, Goto, BatchInv
<1> QED
  BY <1>1, <1>2, <1>3, <1>4, <1>5, <1>6, <1>7, <1>8 DEF OwnerStep

(* Nobody else touches them.                                               *)
LEMMA BatchInvStep == BatchInv /\ [DeliveryNext]_system => BatchInv'
<1> SUFFICES ASSUME BatchInv, [DeliveryNext]_system PROVE BatchInv'
  OBVIOUS
<1>1. ASSUME UNCHANGED consumer PROVE BatchInv'
  BY <1>1, BatchUntouched DEF consumer, BatchInv
<1>2. CASE Owner
  BY <1>2, OwnerKeepsBatches, DeliveryAssumption DEF Owner
<1>3. ASSUME NEW w \in Worker, Process(w) \/ ProcessDies(w)
      PROVE  UNCHANGED consumer
  BY <1>3 DEF Process, ProcessDies, TryRecv, PublishCompletion, Die
<1>4. CASE Finished \/ UNCHANGED system
  BY <1>1, <1>4 DEF Finished, system
<1> QED
  BY <1>1, <1>2, <1>3, <1>4 DEF DeliveryNext

(* Whatever order samples complete in, whoever dies and whatever restarts, *)
(* a delivered batch is the whole run of consecutive samples the sampler   *)
(* put in it (CompletionBatchDelivery.observe, __next__).                  *)
THEOREM BatchesAlwaysWhole == DeliverySpec => []BatchesWhole
<1>1. BatchInv => BatchesWhole
  BY BatchInvImpliesWhole, DeliveryAssumption
<1> QED
  BY <1>1, BatchInvInit, BatchInvStep, PTL DEF DeliverySpec

-----------------------------------------------------------------------------
(* Why the loader is closed.                                               *)

(* Two commands for one position would be two copies of it.                *)
LEMMA OneCopyOnePlace ==
    ASSUME PoolInv, outcome = "open", NEW w \in Worker,
           NEW i \in DOMAIN dispatches[w]
    PROVE  /\ dispatches[w][i].position \in Position
           /\ <<w, dispatches[w][i].position>> \in pending
           /\ \A j \in DOMAIN dispatches[w] :
                 dispatches[w][j].position = dispatches[w][i].position => j = i
<1> PICK ring \in Seq(Command) : ring = dispatches[w]
  BY DEF PoolInv, PoolTypes
<1>0. i \in DOMAIN ring /\ ring[i] \in Command
  OBVIOUS
<1> PICK q \in Position : q = ring[i].position
  BY <1>0 DEF Command
<1>1. /\ CommandsFor(ring, q) = Cardinality(Places(ring, q))
      /\ IsFiniteSet(Places(ring, q)) /\ CommandsFor(ring, q) \in Nat
      /\ Places(ring, q) \subseteq DOMAIN ring /\ i \in Places(ring, q)
  <2>1. Places(ring, q) \subseteq DOMAIN ring /\ i \in Places(ring, q)
    BY <1>0 DEF Places
  <2> QED
    BY <2>1, PlacesFinite
<1>2. PoolTypes /\ Conserved(q)
  BY DEF PoolInv
<1>3. Copies(w, q) \in Nat /\ Copies(w, q) >= CommandsFor(ring, q)
  BY <1>1, <1>2, CopiesType DEF Copies
<1>4. ASSUME NEW j \in Places(ring, q), j # i PROVE CommandsFor(ring, q) >= 2
  <2>1. IsFiniteSet({i}) /\ Cardinality({i}) = 1
    BY FS_Singleton
  <2>2. Cardinality({i} \cup {j}) = 2
    <3>1. j \notin {i}
      BY <1>4
    <3>2. Cardinality({i} \cup {j}) = Cardinality({i}) + 1
      BY <2>1, <3>1, FS_AddElement
    <3> QED
      BY <2>1, <3>2
  <2>3. {i} \cup {j} \in SUBSET Places(ring, q)
    BY <1>1
  <2> QED
    BY <1>1, <2>2, <2>3, FS_Subset
<1>5. Cardinality(Places(ring, q)) # 0
  BY <1>1, FS_EmptySet
<1>6. <<w, q>> \in pending /\ Copies(w, q) <= 1
  <2>1. /\ <<w, q>> \notin pending => Copies(w, q) = 0
        /\ <<w, q>> \in pending => Copies(w, q) <= 1
    BY <1>2 DEF Conserved
  <2> QED
    BY <1>1, <1>3, <1>5, <2>1
<1>7. CommandsFor(ring, q) <= 1
  BY <1>1, <1>3, <1>6
<1>8. ASSUME NEW j \in DOMAIN ring, ring[j].position = q PROVE j = i
  <2>1. j \in Places(ring, q)
    BY <1>8 DEF Places
  <2> QED
    BY <1>1, <1>4, <1>7, <2>1
<1> QED
  BY <1>6, <1>8

(* The commands on the ring and the one to replay are distinct occupied    *)
(* positions: a ring as large as the frontier has room for it.             *)
LEMMA RoomForReplay ==
    ASSUME PoolInv, OccupancyBound, TypeOK, outcome = "open",
           InitialDepth <= Capacity, Ceiling <= Capacity, Capacity \in Nat,
           NEW w \in Worker, NEW p \in replay[w]
    PROVE  Len(dispatches[w]) < Capacity
<1> PICK ring \in Seq(Command) : ring = dispatches[w]
  BY DEF PoolInv, PoolTypes
<1>1. /\ p \in Position /\ <<w, p>> \notin pending /\ p \in Occupied
  <2>1. p \in Position /\ <<w, p>> \notin pending
    BY DEF PoolInv, PoolTypes
  <2>2. positions[p] = [state |-> "dispatched", worker |-> w]
    BY <2>1 DEF PoolInv, Conserved
  <2> QED
    BY <2>1, <2>2 DEF Occupied, Absent
<1>2. ASSUME NEW i \in DOMAIN ring
      PROVE  ring[i].position \in Occupied \ {p}
  <2>1. /\ ring[i].position \in Position
        /\ <<w, ring[i].position>> \in pending
    BY OneCopyOnePlace
  <2>2. positions[ring[i].position] = [state |-> "dispatched", worker |-> w]
    BY <2>1 DEF PoolInv, Conserved
  <2> QED
    BY <1>1, <2>1, <2>2 DEF Occupied, Absent
<1> DEFINE place == [i \in 1..Len(ring) |-> ring[i].position]
<1>3. place \in Injection(1..Len(ring), Occupied \ {p})
  <2>1. place \in [1..Len(ring) -> Occupied \ {p}]
    BY <1>2
  <2>2. \A i, j \in 1..Len(ring) : place[i] = place[j] => i = j
    <3> SUFFICES ASSUME NEW i \in DOMAIN ring, NEW j \in DOMAIN ring,
                        ring[i].position = ring[j].position
                 PROVE  i = j
      OBVIOUS
    <3> QED
      BY OneCopyOnePlace
  <2> QED
    BY <2>1, <2>2 DEF Injection, IsInjective
<1>4. IsFiniteSet(Occupied) /\ Cardinality(Occupied) \in Nat
  <2>1. Start \in Int /\ End - 1 \in Int
    BY ScheduleAssumption DEF ScheduleAssumption
  <2>2. IsFiniteSet(Position) /\ Occupied \in SUBSET Position
    BY <2>1, FS_Interval DEF Position, Occupied
  <2> QED
    BY <2>2, FS_Subset, FS_CardinalityType
<1>5. /\ IsFiniteSet(Occupied \ {p})
      /\ Cardinality(Occupied \ {p}) = Cardinality(Occupied) - 1
  BY <1>1, <1>4, FS_RemoveElement
<1>6. Cardinality(1..Len(ring)) = Len(ring)
  BY FS_Interval
<1>7. Len(ring) <= Cardinality(Occupied) - 1
  BY <1>3, <1>5, <1>6, FS_Injection
<1>8. Cardinality(Occupied) <= Capacity
  BY <1>4, ScheduleAssumption DEF OccupancyBound, TypeOK, ScheduleAssumption
<1> QED
  BY <1>4, <1>7, <1>8

(* Strict delivery goes on after a restart: a batch is one sample, or      *)
(* nothing can die and be restarted.                                       *)
GoesOn == BatchSize = 1 \/ MaxDeaths = 0 \/ "restart" \notin Policies

(* Only a loader with a dead worker and the restart policy replays, and    *)
(* then, in strict delivery, the iterator is at the frontier's base.       *)
CloseInv ==
    /\ policy \in Policies
    /\ deaths \in 0..MaxDeaths
    /\ deaths = 0 => \A w \in Worker : alive[w]
    /\ step = "replay" => MaxDeaths # 0 /\ "restart" \in Policies
    /\ InOrder /\ GoesOn /\ outcome = "open" =>
          /\ delivered = {}
          /\ next_commit = position + Len(batch)
    /\ NoInternalError

(* An iterator starts open, at the base of its frontier.                   *)
LEMMA CloseInvInit == DeliveryInit => CloseInv
<1> SUFFICES ASSUME DeliveryInit PROVE CloseInv
  OBVIOUS
<1>1. MaxDeaths \in Nat
  BY DeliveryAssumption DEF DeliveryAssumption
<1>2. ASSUME InOrder PROVE delivered = {} /\ next_commit = position + Len(batch)
  <2>1. Restored = {} /\ Start \in Nat
    BY <1>2, ScheduleAssumption DEF ScheduleAssumption
  <2>2. position = Start /\ batch = << >> /\ Len(<< >>) = 0
    BY <2>1, FS_EmptySet DEF DeliveryInit
  <2> QED
    BY <2>1, <2>2 DEF DeliveryInit, Init
<1> QED
  BY <1>1, <1>2 DEF DeliveryInit, CloseInv, NoInternalError

(* A step that leaves the base, the batch and the processes alone.         *)
LEMMA CloseUntouched ==
    ASSUME CloseInv, UNCHANGED <<next_commit, delivered, position, batch,
                                 alive, deaths, policy>>,
           step' # "replay",
           outcome' = outcome \/ outcome' \in {"died", "timeout"}
    PROVE  CloseInv'
  BY DEF CloseInv, NoInternalError

(* In order, the sample the frontier hands out is the one next() is at,    *)
(* and the base moves on by one.                                           *)
LEMMA CommitContinues ==
    ASSUME CloseInv, BatchInv, TypeOK, InOrder, GoesOn, outcome = "open",
           CommitNext, UNCHANGED <<position, deaths, alive, policy>>
    PROVE  CloseInv'
<1>1. PICK p \in Position :
          /\ Commit(p)
          /\ IF p = Expected
             THEN Goto("refill") /\ batch' = Append(batch, p) /\ UNCHANGED outcome
             ELSE Close("noncontiguous") /\ UNCHANGED batch
  BY DEF CommitNext
<1>2. /\ delivered = {} /\ next_commit = position + Len(batch)
      /\ batch \in Seq(Position) /\ position \in Nat
  BY DEF CloseInv, BatchInv
<1>3. p = next_commit /\ AdvanceBase(p)
  BY <1>1 DEF Commit, TryCommitReady
<1>4. step' = "refill" /\ batch' = Append(batch, p) /\ outcome' = outcome
  BY <1>1, <1>2, <1>3 DEF Expected, Goto
<1>5. p \in Int /\ End \in Int
  BY ScheduleAssumption DEF Position, ScheduleAssumption
<1>6. PICK n \in (p + 1)..End : /\ \A q \in (p + 1)..(n - 1) : q \in delivered
                                /\ next_commit' = n
                                /\ delivered' = delivered \ ((p + 1)..(n - 1))
  BY <1>3 DEF AdvanceBase
<1>7. n = p + 1
  <2> SUFFICES ASSUME n # p + 1 PROVE FALSE
    OBVIOUS
  <2>1. p + 1 \in (p + 1)..(n - 1)
    BY <1>5
  <2> QED
    BY <1>2, <1>6, <2>1
<1>8. delivered' = {} /\ next_commit' = p + 1
  BY <1>2, <1>6, <1>7
<1>9. Len(batch') = Len(batch) + 1 /\ Len(batch) \in Nat
  BY <1>2, <1>4
<1> QED
  BY <1>2, <1>3, <1>4, <1>5, <1>8, <1>9 DEF CloseInv, NoInternalError

(* Single samples leave nothing behind when next() is left.                *)
LEMMA NothingOpen ==
    ASSUME DeliveryAssumption, BatchInv, InOrder, BatchSize = 1, step # "refill"
    PROVE  batch = << >>
<1> SUFFICES ASSUME batch # << >> PROVE FALSE
  OBVIOUS
<1>1. /\ batch \in Seq(Position) /\ RunFrom(position, batch) /\ position \in Nat
      /\ Len(batch) < Cardinality(BatchFrom(position))
  BY DEF BatchInv
<1>2. position \in Position /\ Len(batch) \in Nat /\ Len(batch) > 0
  <2>1. Len(batch) \in Nat /\ Len(batch) > 0 /\ batch[1] \in Position
    BY <1>1
  <2>2. batch[1] = position
    BY <1>1, <2>1 DEF RunFrom
  <2> QED
    BY <2>1, <2>2
<1>3. Cardinality(BatchFrom(position)) =
          IF position + 1 < End THEN 1 ELSE End - position
  BY <1>2, BatchLength
<1>4. position < End /\ End \in Int
  BY <1>2, ScheduleAssumption DEF Position, ScheduleAssumption
<1> QED
  BY <1>1, <1>2, <1>3, <1>4

(* What the iterator's step needs of the rest.                             *)
Books == PoolInv /\ BatchInv /\ TypeOK /\ OccupancyBound

(* No step of the consumer's thread closes the loader for a reason of its  *)
(* own.                                                                    *)
LEMMA OwnerKeepsOpen ==
    ASSUME CloseInv, Books, OwnerStep, UNCHANGED policy, InOrder => GoesOn,
           InitialDepth <= Capacity, Ceiling <= Capacity
    PROVE  CloseInv'
<1>0. outcome = "open" \/ step = "done"
  BY DEF Books, PoolInv
<1>1. CASE OpenIterator
  BY <1>1, CloseUntouched DEF OpenIterator, SetWorkerCount, Goto, pool
<1>2. ASSUME NEW p \in Position, FillOne(p) PROVE CloseInv'
  BY <1>2, CloseUntouched DEF FillOne, Filling, MarkDispatched, consumer
<1>3. CASE FillEnds
  <2>1. /\ UNCHANGED <<next_commit, delivered, alive, deaths, outcome>>
        /\ step' # "replay"
    BY <1>3 DEF FillEnds, Filling, Deliver, SetWorkerCount, Goto, vars, pool
  <2>2. CASE UNCHANGED <<position, batch>>
    BY <2>1, <2>2, CloseUntouched
  <2>3. CASE Deliver
    <3>1. position' = position + Len(batch) /\ batch' = << >>
      BY <2>3 DEF Deliver
    <3>2. InOrder => position \in Nat /\ Len(batch) \in Nat
      BY DEF Books, BatchInv
    <3>3. InOrder => position' + Len(batch') = position + Len(batch)
      BY <3>1, <3>2
    <3> QED
      BY <2>1, <3>3 DEF CloseInv, NoInternalError
  <2> QED
    BY <1>3, <2>2, <2>3 DEF FillEnds
<1>4. CASE CallNext \/ NothingReady \/ PollEnds \/ AllAlive \/ Timeout
  BY <1>4, CloseUntouched
  DEF CallNext, NothingReady, PollEnds, AllAlive, Timeout, Close, Goto, vars, pool
<1>5. CASE Wait
  BY <1>5, CloseUntouched DEF Wait, RecordWait, SetDepth, Goto, vars, pool
<1>6. CASE Take
  <2>1. CASE CommitNext
    BY <1>0, <1>6, <2>1, CommitContinues DEF Take, Books, CommitNext
  <2>2. CASE TakeReady
    <3>1. ~InOrder /\ UNCHANGED <<outcome, deaths, alive>> /\ step' # "replay"
      BY <1>6, <2>2 DEF Take, TakeReady, Goto
    <3> QED
      BY <3>1 DEF CloseInv, NoInternalError
  <2> QED
    BY <1>6, <2>1, <2>2 DEF Take
<1>7. ASSUME NEW w \in Worker, PollWorker(w) PROVE CloseInv'
  <2>1. CASE Receive(w)
    <3>1. outcome' = "open" /\ step' = step
      BY <1>7, <2>1, ReceiveKeepsPool DEF PollWorker, Books
    <3>2. UNCHANGED <<next_commit, delivered>>
      BY <2>1 DEF Receive, MarkCompleted, vars
    <3>3. outcome = "open" /\ step = "poll"
      BY <1>0, <1>7 DEF PollWorker
    <3> QED
      BY <1>7, <3>1, <3>2, <3>3, CloseUntouched DEF PollWorker
  <2>2. CASE ~Receive(w)
    BY <1>7, <2>2, CloseUntouched DEF PollWorker, vars
  <2> QED
    BY <2>1, <2>2
<1>8. ASSUME NEW w \in Worker, DeathNoticed(w) PROVE CloseInv'
  <2>1. CASE policy = "close" /\ Close("died")
    BY <1>8, <2>1, CloseUntouched DEF DeathNoticed, Close, Goto, vars
  <2>2. CASE policy = "restart" /\ Replace(w) /\ Goto("replay") /\ UNCHANGED outcome
    <3>1. MaxDeaths # 0 /\ "restart" \in Policies
      BY <1>8, <2>2 DEF DeathNoticed, CloseInv
    <3>2. \A v \in Worker : alive[v] => alive'[v]
      BY <2>2 DEF Replace, Books, PoolInv, PoolTypes
    <3> QED
      BY <1>8, <2>2, <3>1, <3>2 DEF DeathNoticed, CloseInv, NoInternalError, vars
  <2> QED
    BY <1>8, <2>1, <2>2 DEF DeathNoticed
<1>9. ASSUME NEW w \in Worker, ReplayOne(w) PROVE CloseInv'
  <2>1. PICK p \in replay[w] :
            \/ Len(dispatches[w]) < Capacity /\ UNCHANGED <<step, outcome>>
            \/ Len(dispatches[w]) >= Capacity
    BY <1>9 DEF ReplayOne
  <2>2. Capacity \in Nat /\ outcome = "open" /\ step = "replay"
    BY <1>0, <1>9, DeliveryAssumption DEF ReplayOne, DeliveryAssumption
  <2>3. Len(dispatches[w]) < Capacity
    BY <2>2, RoomForReplay DEF Books
  <2>4. Len(dispatches[w]) \in Nat
    BY DEF Books, PoolInv, PoolTypes
  <2>5. UNCHANGED <<step, outcome>>
    BY <2>1, <2>2, <2>3, <2>4
  <2> QED
    BY <1>9, <2>5 DEF ReplayOne, CloseInv, NoInternalError, vars
<1>10. CASE WorkerDied
  <2>1. /\ step = "replay" /\ step' = "user" /\ batch' = << >>
        /\ UNCHANGED <<next_commit, delivered, position, alive, deaths, outcome>>
    BY <1>10 DEF WorkerDied, Goto, vars, pool
  <2>2. InOrder => batch = << >>
    BY <2>1, NothingOpen, DeliveryAssumption DEF Books, CloseInv, GoesOn
  <2> QED
    BY <2>1, <2>2 DEF CloseInv, NoInternalError
<1> QED
  BY <1>1, <1>2, <1>3, <1>4, <1>5, <1>6, <1>7, <1>8, <1>9, <1>10 DEF OwnerStep

(* Nothing but a policy closes the loader and no check of its books fires, *)
(* when the rings are as large as the frontier grows and strict delivery   *)
(* carries single samples or restarts no worker (try_receive,              *)
(* mark_completed, restart_worker, _next_completion).                      *)
THEOREM ClosedByPolicyOnly ==
    ASSUME InOrder => GoesOn, InitialDepth <= Capacity, Ceiling <= Capacity
    PROVE  DeliverySpec => []WorkKept
<1>1. CloseInv /\ Books /\ [DeliveryNext]_system => CloseInv'
  <2> SUFFICES ASSUME CloseInv, Books, [DeliveryNext]_system PROVE CloseInv'
    OBVIOUS
  <2>1. CASE Owner
    BY <2>1, OwnerKeepsOpen DEF Owner
  <2>2. ASSUME NEW w \in Worker, Process(w) PROVE CloseInv'
    BY <2>2 DEF Process, TryRecv, PublishCompletion, vars, consumer, CloseInv,
                NoInternalError
  <2>3. ASSUME NEW w \in Worker, ProcessDies(w) PROVE CloseInv'
    <3>1. /\ deaths' = deaths + 1 /\ deaths < MaxDeaths
          /\ UNCHANGED <<vars, consumer, policy>>
      BY <2>3 DEF ProcessDies, Die
    <3>2. deaths' \in 0..MaxDeaths /\ deaths' # 0
      BY <3>1, DeliveryAssumption DEF CloseInv, DeliveryAssumption
    <3> QED
      BY <3>1, <3>2 DEF vars, consumer, CloseInv, NoInternalError
  <2>4. CASE Finished \/ UNCHANGED system
    BY <2>4 DEF Finished, system, vars, pool, consumer, CloseInv, NoInternalError
  <2> QED
    BY <2>1, <2>2, <2>3, <2>4 DEF DeliveryNext
<1>2. DeliverySpec => []Books
  <2>1. DeliverySpec => []TypeOK
    BY DeliveryImplementsSchedule, TypeCorrect, PTL
  <2>2. DeliverySpec => []BatchInv
    BY BatchInvInit, BatchInvStep, PTL DEF DeliverySpec
  <2> QED
    BY <2>1, <2>2, PoolInvAlways, DeliveryBoundsOccupancy, PTL DEF Books
<1>3. CloseInv => NoInternalError
  BY DEF CloseInv
<1>4. DeliverySpec => []NoInternalError
  BY <1>1, <1>2, <1>3, CloseInvInit, PTL DEF DeliverySpec
<1> QED
  BY <1>4, WorkAlwaysConserved, PTL DEF WorkKept

-----------------------------------------------------------------------------
(* The stream of batches.                                                  *)

(* The batches handed out began with samples taken since the restore, and  *)
(* so does the open one, with a sample of its own; strict delivery has     *)
(* handed out every batch before its position.                             *)
FreshInv ==
    /\ Restored \subseteq Taken
    /\ \A i \in DOMAIN served : served[i][1] \in Taken
    /\ batch # << >> =>
         /\ batch[1] \in Taken
         /\ \A i \in DOMAIN served : served[i][1] # batch[1]
    /\ \A i \in DOMAIN batch : batch[i] \notin Restored
    /\ InOrder => \A q \in Nat :
         Start <= q * BatchSize /\ q * BatchSize < position
            => \E i \in DOMAIN served : served[i][1] = q * BatchSize

(* An iterator starts with the restored samples taken and nothing served.  *)
LEMMA FreshInvInit == DeliveryInit => FreshInv
<1> SUFFICES ASSUME DeliveryInit PROVE FreshInv
  OBVIOUS
<1>1. served = << >> /\ batch = << >> /\ delivered = Restored
  BY DEF DeliveryInit, Init
<1>2. ASSUME InOrder PROVE position = Start /\ Start \in Nat
  <2>1. Restored = {} /\ Start \in Nat
    BY <1>2, ScheduleAssumption DEF ScheduleAssumption
  <2> QED
    BY <2>1, FS_EmptySet DEF DeliveryInit
<1>3. ASSUME InOrder, NEW q \in Nat, Start <= q * BatchSize,
             q * BatchSize < position
      PROVE  FALSE
  <2>1. q * BatchSize \in Nat
    BY DeliveryAssumption DEF DeliveryAssumption
  <2> QED
    BY <1>2, <1>3, <2>1
<1> QED
  BY <1>1, <1>3 DEF FreshInv, Taken

(* A step that takes and delivers nothing.                                 *)
LEMMA FreshUntouched ==
    ASSUME FreshInv, UNCHANGED <<next_commit, delivered, position, served>>,
           batch' = batch \/ batch' = << >>
    PROVE  FreshInv'
<1>1. Taken' = Taken
  BY DEF Taken
<1> QED
  BY <1>1 DEF FreshInv

(* A sample committed was taken by nobody, restored or since.              *)
LEMMA CommitIsFresh ==
    ASSUME FrontierInv, FrontierInv', NEW p \in Position, Commit(p)
    PROVE  p \notin Taken /\ Taken' = Taken \cup {p}
  BY CommitTakes DEF Stream!Take, Taken

(* A commit keeps the batches apart.                                       *)
LEMMA TakeKeepsFresh ==
    ASSUME FreshInv, FrontierInv, FrontierInv', batch \in Seq(Position),
           UNCHANGED <<position, served>>, NEW p \in Position, Commit(p),
           batch' = batch \/ batch' = Append(batch, p)
    PROVE  FreshInv'
<1>1. p \notin Taken /\ Taken' = Taken \cup {p} /\ p \notin Restored
  BY CommitIsFresh DEF FreshInv
<1>2. \A i \in DOMAIN served : served[i][1] # p
  BY <1>1 DEF FreshInv
<1>3. CASE batch' = batch
  BY <1>1, <1>3 DEF FreshInv
<1>4. CASE batch' = Append(batch, p)
  <2>1. /\ DOMAIN batch' = 1..(Len(batch) + 1) /\ Len(batch) \in Nat
        /\ \A i \in 1..Len(batch) : batch'[i] = batch[i]
        /\ batch'[Len(batch) + 1] = p
        /\ DOMAIN batch = 1..Len(batch)
    BY <1>4
  <2>2. ASSUME NEW i \in 1..(Len(batch) + 1) PROVE batch'[i] \notin Restored
    <3>1. CASE i = Len(batch) + 1
      BY <1>1, <2>1, <3>1
    <3>2. CASE i # Len(batch) + 1
      <4>1. i \in DOMAIN batch /\ batch'[i] = batch[i]
        BY <2>1, <3>2
      <4> QED
        BY <4>1 DEF FreshInv
    <3> QED
      BY <3>1, <3>2
  <2>3. batch'[1] = IF batch = << >> THEN p ELSE batch[1]
    <3>1. CASE batch = << >>
      BY <2>1, <3>1
    <3>2. CASE batch # << >>
      <4>1. 1 \in 1..Len(batch)
        BY <3>2, <2>1
      <4> QED
        BY <2>1, <3>2, <4>1
    <3> QED
      BY <3>1, <3>2
  <2>4. batch'[1] \in Taken' /\ \A i \in DOMAIN served : served[i][1] # batch'[1]
    BY <1>1, <1>2, <2>3 DEF FreshInv
  <2> QED
    BY <1>1, <2>1, <2>2, <2>4 DEF FreshInv
<1> QED
  BY <1>3, <1>4

(* The batch a delivery hands out, as a multiple of the batch size.        *)
LEMMA DeliveredBatch ==
    ASSUME DeliveryAssumption, BatchInv, step = "refill", Assembled
    PROVE  /\ Whole(batch) /\ batch # << >> /\ batch \in Seq(Position)
           /\ batch[1] \in Position
           /\ InOrder => batch[1] = position
<1>1. batch # << >> /\ Cardinality(BatchFrom(batch[1])) = Len(batch)
  BY DEF Assembled
<1>2. batch \in Seq(Position) /\ batch[1] \in Position
  BY <1>1 DEF BatchInv
<1>3. ASSUME InOrder PROVE batch[1] = position
  BY <1>1, <1>2, <1>3 DEF BatchInv, RunFrom
<1>4. Whole(batch)
  <2>1. CASE ~InOrder
    BY <2>1 DEF BatchInv
  <2>2. CASE InOrder
    <3>1. RunFrom(position, batch) /\ (Multiple(position) \/ position = End)
      BY <2>2 DEF BatchInv
    <3>2. position # End
      BY <1>2, <1>3, <2>2, ScheduleAssumption DEF Position, ScheduleAssumption
    <3> QED
      BY <1>1, <1>3, <2>2, <3>1, <3>2 DEF Whole
  <2> QED
    BY <2>1, <2>2
<1> QED
  BY <1>1, <1>2, <1>3, <1>4

(* Multiples in order are multiples of numbers in order.                   *)
LEMMA MultiplesOrdered ==
    ASSUME NEW b \in Nat \ {0}, NEW m \in Nat, NEW q \in Nat,
           q * b < m * b + b
    PROVE  q <= m
<1> SUFFICES ASSUME q > m PROVE FALSE
  OBVIOUS
<1>1. PICK d \in Nat : q = m + 1 + d
  <2>1. q - m - 1 \in Nat /\ q = m + 1 + (q - m - 1)
    OBVIOUS
  <2> QED
    BY <2>1
<1>2. q * b = m * b + b + d * b /\ d * b \in Nat /\ m * b \in Nat
  BY <1>1
<1> QED
  BY <1>2

(* Strict delivery leaves no batch behind its position.                    *)
LEMMA DeliverKeepsFresh ==
    ASSUME FreshInv, BatchInv, step = "refill", Assembled, Deliver
    PROVE  FreshInv'
<1>1. /\ Whole(batch) /\ batch # << >> /\ batch \in Seq(Position)
      /\ batch[1] \in Position
      /\ InOrder => batch[1] = position
  BY DeliveredBatch, DeliveryAssumption
<1>2. /\ served' = Append(served, batch) /\ position' = position + Len(batch)
      /\ batch' = << >> /\ served \in Seq(Seq(Position))
  BY DEF Deliver, BatchInv
<1>3. Taken' = Taken
  BY DEF Deliver, SetWorkerCount, vars, Taken
<1>4. /\ DOMAIN served' = 1..(Len(served) + 1) /\ Len(served) \in Nat
      /\ DOMAIN served = 1..Len(served)
      /\ \A i \in 1..Len(served) : served'[i] = served[i]
      /\ served'[Len(served) + 1] = batch
  BY <1>1, <1>2
<1>5. ASSUME NEW i \in DOMAIN served' PROVE served'[i][1] \in Taken
  <2>1. CASE i = Len(served) + 1
    <3>1. served'[i] = batch
      BY <1>4, <2>1
    <3> QED
      BY <1>1, <3>1 DEF FreshInv
  <2>2. CASE i # Len(served) + 1
    <3>1. i \in DOMAIN served /\ served'[i] = served[i]
      BY <1>4, <2>2
    <3> QED
      BY <3>1 DEF FreshInv
  <2> QED
    BY <2>1, <2>2
<1>6. ASSUME InOrder, NEW q \in Nat, Start <= q * BatchSize,
             q * BatchSize < position'
      PROVE  \E i \in DOMAIN served' : served'[i][1] = q * BatchSize
  <2>1. BatchSize \in Nat \ {0} /\ q * BatchSize \in Nat /\ position \in Nat
    BY <1>6, DeliveryAssumption DEF DeliveryAssumption, BatchInv
  <2>2. CASE q * BatchSize < position
    <3>1. PICK i \in DOMAIN served : served[i][1] = q * BatchSize
      BY <1>6, <2>2 DEF FreshInv
    <3>2. i \in DOMAIN served' /\ served'[i] = served[i]
      BY <1>4
    <3> QED
      BY <3>1, <3>2
  <2>3. CASE ~(q * BatchSize < position)
    <3>1. PICK m \in Nat : position = m * BatchSize
      BY <1>1, <1>6 DEF Whole, Multiple
    <3>2. Len(batch) <= BatchSize /\ Len(batch) \in Nat
      <4>1. Len(batch) = Cardinality(BatchFrom(batch[1]))
        BY <1>1 DEF Whole
      <4>2. Len(batch) = IF batch[1] + BatchSize < End THEN BatchSize
                                                       ELSE End - batch[1]
        BY <1>1, <4>1, BatchLength, DeliveryAssumption
      <4> QED
        BY <1>1, <1>6, <2>1, <4>2, ScheduleAssumption DEF ScheduleAssumption
    <3>3. q * BatchSize < m * BatchSize + BatchSize
      <4>1. position' = position + Len(batch)
        BY <1>2
      <4>2. position' <= position + BatchSize /\ position' \in Nat
        BY <2>1, <3>2, <4>1
      <4>3. q * BatchSize < position + BatchSize
        BY <1>6, <2>1, <4>2
      <4> QED
        BY <3>1, <4>3
    <3>4. m * BatchSize < q * BatchSize + BatchSize
      BY <2>1, <2>3, <3>1
    <3>5. q <= m /\ m <= q
      BY <2>1, <3>3, <3>4, MultiplesOrdered
    <3>6. served'[Len(served) + 1][1] = q * BatchSize
      BY <1>1, <1>4, <1>6, <3>1, <3>5
    <3> QED
      BY <1>4, <3>6
  <2> QED
    BY <2>2, <2>3
<1>7. \A i \in DOMAIN batch' : batch'[i] \notin Restored
  BY <1>2
<1> QED
  BY <1>2, <1>3, <1>5, <1>6, <1>7 DEF FreshInv

(* The batches and the frontier, for the steps that need both.             *)
ServeInv == FreshInv /\ BatchInv /\ FrontierInv

(* Every step of the consumer's thread keeps them; one step serves.        *)
LEMMA OwnerKeepsFresh ==
    ASSUME ServeInv, FrontierInv', OwnerStep
    PROVE  /\ FreshInv'
           /\ UNCHANGED served \/ (step = "refill" /\ Assembled /\ Deliver)
<1>1. CASE OpenIterator \/ CallNext \/ NothingReady \/ PollEnds \/ AllAlive
           \/ Timeout \/ Wait \/ WorkerDied
  BY <1>1, FreshUntouched
  DEF OpenIterator, CallNext, NothingReady, PollEnds, AllAlive, Timeout, Wait,
      WorkerDied, SetWorkerCount, RecordWait, SetDepth, vars, ServeInv
<1>2. ASSUME NEW p \in Position, FillOne(p) PROVE FreshInv' /\ UNCHANGED served
  BY <1>2, FreshUntouched DEF FillOne, MarkDispatched, consumer, ServeInv
<1>3. CASE FillEnds
  <2>1. CASE step = "refill" /\ Assembled /\ Deliver
    BY <2>1, DeliverKeepsFresh DEF ServeInv
  <2>2. CASE ~(step = "refill" /\ Assembled)
    BY <1>3, <2>2, FreshUntouched DEF FillEnds, vars, ServeInv
  <2> QED
    BY <1>3, <2>1, <2>2 DEF FillEnds
<1>4. CASE Take
  <2>1. UNCHANGED <<position, served>>
    BY <1>4 DEF Take
  <2>2. PICK p \in Position :
            Commit(p) /\ (batch' = batch \/ batch' = Append(batch, p))
    BY <1>4 DEF Take, CommitNext, TakeReady
  <2>3. batch \in Seq(Position)
    BY DEF ServeInv, BatchInv
  <2> QED
    BY <2>1, <2>2, <2>3, TakeKeepsFresh DEF ServeInv
<1>5. ASSUME NEW w \in Worker, PollWorker(w) \/ DeathNoticed(w) \/ ReplayOne(w)
      PROVE  FreshInv' /\ UNCHANGED served
  BY <1>5, FreshUntouched
  DEF PollWorker, Receive, MarkCompleted, DeathNoticed, ReplayOne, vars, ServeInv
<1> QED
  BY <1>1, <1>2, <1>3, <1>4, <1>5 DEF OwnerStep

(* Both are kept for ever.                                                 *)
LEMMA ServeInvAlways == DeliverySpec => []ServeInv
<1>1. DeliverySpec => []FrontierInv
  BY DeliveryImplementsSchedule, FrontierInit, FrontierStep, PTL DEF Spec
<1>2. DeliverySpec => []BatchInv
  BY BatchInvInit, BatchInvStep, PTL DEF DeliverySpec
<1>3. ServeInv /\ FrontierInv' /\ [DeliveryNext]_system => FreshInv'
  <2> SUFFICES ASSUME ServeInv, FrontierInv', [DeliveryNext]_system
               PROVE  FreshInv'
    OBVIOUS
  <2>1. CASE Owner
    BY <2>1, OwnerKeepsFresh DEF Owner
  <2>2. CASE UNCHANGED <<vars, consumer>>
    BY <2>2, FreshUntouched DEF vars, consumer, ServeInv
  <2>3. ASSUME NEW w \in Worker, Process(w) \/ ProcessDies(w)
        PROVE  UNCHANGED <<vars, consumer>>
    BY <2>3 DEF Process, ProcessDies, TryRecv, PublishCompletion, Die
  <2>4. CASE Finished \/ UNCHANGED system
    BY <2>2, <2>4 DEF Finished, system
  <2> QED
    BY <2>1, <2>2, <2>3, <2>4 DEF DeliveryNext
<1> QED
  BY <1>1, <1>2, <1>3, FreshInvInit, PTL DEF DeliverySpec, ServeInv

(* A multiple divided.                                                     *)
LEMMA MultipleDivided ==
    ASSUME NEW b \in Nat \ {0}, NEW m \in Nat
    PROVE  (m * b) \div b = m
  OBVIOUS

(* A number lies between a multiple and the next one.                      *)
LEMMA Divided ==
    ASSUME NEW b \in Nat \ {0}, NEW n \in Nat
    PROVE  /\ n \div b \in Nat
           /\ (n \div b) * b <= n /\ n < (n \div b) * b + b
  OBVIOUS

(* The batches handed out, or restored: what the abstract stream calls     *)
(* taken.                                                                  *)
BatchesTaken ==
    RestoredBatches \cup (0..(Start \div BatchSize - 1)) \cup ToSet(Ordinals)

(* A delivery adds the ordinal of its batch.                               *)
LEMMA OrdinalJoins ==
    ASSUME BatchInv, batch \in Seq(Position), Deliver,
           NEW m \in Nat, m = batch[1] \div BatchSize,
           \A i \in DOMAIN served : served[i][1] \div BatchSize \in Nat
    PROVE  /\ Ordinals' = Append(Ordinals, m)
           /\ BatchesTaken' = BatchesTaken \cup {m}
<1>1. /\ served' = Append(served, batch) /\ served \in Seq(Seq(Position))
  BY DEF Deliver, BatchInv
<1>2. /\ DOMAIN served' = 1..(Len(served) + 1) /\ Len(served) \in Nat
      /\ DOMAIN served = 1..Len(served)
      /\ \A i \in 1..Len(served) : served'[i] = served[i]
      /\ served'[Len(served) + 1] = batch
  BY <1>1
<1>3. Ordinals \in Seq(Nat) /\ Len(Ordinals) = Len(served)
  <2>1. Ordinals \in [1..Len(served) -> Nat]
    BY <1>2 DEF Ordinals
  <2> QED
    BY <1>2, <2>1
<1>4. Ordinals' = [i \in 1..(Len(served) + 1) |->
                      served'[i][1] \div BatchSize]
  BY <1>2 DEF Ordinals
<1>5. ASSUME NEW i \in 1..(Len(served) + 1)
      PROVE  Ordinals'[i] = Append(Ordinals, m)[i]
  <2>1. CASE i = Len(served) + 1
    BY <1>2, <1>3, <1>4, <2>1
  <2>2. CASE i # Len(served) + 1
    <3>1. i \in 1..Len(served)
      BY <1>2, <2>2
    <3>2. Append(Ordinals, m)[i] = Ordinals[i]
      BY <1>3, <3>1
    <3>3. Ordinals[i] = served[i][1] \div BatchSize
      BY <1>2, <3>1 DEF Ordinals
    <3>4. Ordinals'[i] = served'[i][1] \div BatchSize
      BY <1>4
    <3> QED
      BY <1>2, <3>1, <3>2, <3>3, <3>4
  <2> QED
    BY <2>1, <2>2
<1>6. Ordinals' = Append(Ordinals, m)
  <2>1. /\ Append(Ordinals, m) \in Seq(Nat)
        /\ DOMAIN Append(Ordinals, m) = 1..(Len(served) + 1)
    BY <1>2, <1>3
  <2>2. Append(Ordinals, m) =
            [i \in 1..(Len(served) + 1) |-> Append(Ordinals, m)[i]]
    BY <2>1
  <2> QED
    BY <1>4, <1>5, <2>2
<1>7. ToSet(Ordinals') = ToSet(Ordinals) \cup {m}
  <2>1. /\ DOMAIN Ordinals = 1..Len(served)
        /\ DOMAIN Append(Ordinals, m) = 1..(Len(served) + 1)
        /\ \A i \in 1..Len(served) : Append(Ordinals, m)[i] = Ordinals[i]
        /\ Append(Ordinals, m)[Len(served) + 1] = m
    BY <1>2, <1>3
  <2>2. 1..(Len(served) + 1) = (1..Len(served)) \cup {Len(served) + 1}
    BY <1>2
  <2> QED
    BY <1>6, <2>1, <2>2 DEF ToSet
<1> QED
  BY <1>6, <1>7 DEF BatchesTaken, RestoredBatches

(* The batch a delivery hands out was neither restored nor served, and is  *)
(* the first such batch when delivery is strict.                           *)
LEMMA DeliverTakes ==
    ASSUME ServeInv, step = "refill", Assembled, Deliver
    PROVE  BatchStream!StreamNext
<1> USE ScheduleAssumption, DeliveryAssumption
<1>1. /\ Whole(batch) /\ batch # << >> /\ batch \in Seq(Position)
      /\ batch[1] \in Position
      /\ InOrder => batch[1] = position
  BY DeliveredBatch DEF ServeInv
<1>2. PICK m \in Nat : batch[1] = m * BatchSize
  BY <1>1 DEF Whole, Multiple
<1>3. BatchSize \in Nat \ {0} /\ Start \in Nat /\ End \in Nat
  BY DEF ScheduleAssumption, DeliveryAssumption
<1>4. m = batch[1] \div BatchSize
  BY <1>2, <1>3, MultipleDivided
<1>5. ASSUME NEW i \in DOMAIN served
      PROVE  \E k \in Nat : served[i][1] = k * BatchSize
                            /\ served[i][1] \div BatchSize = k
  <2>1. Whole(served[i])
    BY DEF ServeInv, BatchInv
  <2>2. PICK k \in Nat : served[i][1] = k * BatchSize
    BY <2>1 DEF Whole, Multiple
  <2> QED
    BY <1>3, <2>2, MultipleDivided
<1>6. /\ Ordinals' = Append(Ordinals, m)
      /\ BatchesTaken' = BatchesTaken \cup {m}
  BY <1>1, <1>4, <1>5, OrdinalJoins DEF ServeInv
<1> PICK first \in Nat : first = Start \div BatchSize
  BY <1>3, Divided
<1> PICK last \in Nat : last = (End + BatchSize - 1) \div BatchSize
  <2>1. End + BatchSize - 1 \in Nat
    BY <1>3
  <2> QED
    BY <1>3, <2>1, Divided
<1>7. first * BatchSize = Start
  <2>1. Start % BatchSize = 0
    BY DEF DeliveryAssumption
  <2>2. Start = BatchSize * (Start \div BatchSize) + (Start % BatchSize)
    BY <1>3
  <2> QED
    BY <1>3, <2>1, <2>2
<1>8. End + BatchSize - 1 < last * BatchSize + BatchSize
  <2>1. End + BatchSize - 1 \in Nat
    BY <1>3
  <2> QED
    BY <1>3, <2>1, Divided
<1>9. m * BatchSize \in Nat /\ Start <= m * BatchSize /\ m * BatchSize < End
  BY <1>1, <1>2, <1>3 DEF Position
<1>10. first <= m /\ m < last
  <2>1. first * BatchSize < m * BatchSize + BatchSize
    BY <1>3, <1>7, <1>9
  <2>2. first <= m
    BY <1>3, <2>1, MultiplesOrdered
  <2>3. last * BatchSize \in Nat /\ m * BatchSize < last * BatchSize
    BY <1>3, <1>8, <1>9
  <2>4. ~(last <= m)
    <3> SUFFICES ASSUME last <= m PROVE FALSE
      OBVIOUS
    <3>1. PICK d \in Nat : m = last + d
      <4>1. m - last \in Nat /\ m = last + (m - last)
        OBVIOUS
      <4> QED
        BY <4>1
    <3>2. m * BatchSize = last * BatchSize + d * BatchSize
          /\ d * BatchSize \in Nat
      BY <1>3, <3>1
    <3> QED
      BY <2>3, <3>2
  <2> QED
    BY <2>2, <2>4
<1>11. m \notin RestoredBatches
  <2> SUFFICES ASSUME NEW r \in Restored, m = r \div BatchSize PROVE FALSE
    BY DEF RestoredBatches
  <2>1. r \in Nat /\ Start <= r /\ r < End
    BY <1>3 DEF ScheduleAssumption
  <2>2. m * BatchSize <= r /\ r < m * BatchSize + BatchSize
    BY <1>3, <2>1, Divided
  <2>3. Len(batch) = IF batch[1] + BatchSize < End THEN BatchSize
                                                   ELSE End - batch[1]
    BY <1>1, BatchLength DEF Whole
  <2> PICK i \in Int : i = r - batch[1] + 1
    <3>1. r - batch[1] + 1 \in Int
      BY <1>2, <1>9, <2>1
    <3> QED
      BY <3>1
  <2>4. i \in 1..Len(batch) /\ batch[1] + i - 1 = r
    BY <1>2, <1>3, <1>9, <2>1, <2>2, <2>3
  <2>5. i \in DOMAIN batch
    BY <1>1, <2>4
  <2>6. batch[i] = r
    BY <1>1, <2>4, <2>5 DEF Whole, RunFrom
  <2> QED
    BY <2>5, <2>6 DEF ServeInv, FreshInv
<1>12. m \notin ToSet(Ordinals)
  <2> SUFFICES ASSUME NEW i \in DOMAIN Ordinals, m = Ordinals[i] PROVE FALSE
    BY DEF ToSet
  <2>1. i \in DOMAIN served /\ m = served[i][1] \div BatchSize
    BY DEF Ordinals
  <2>2. served[i][1] = batch[1]
    BY <1>2, <1>5, <2>1
  <2> QED
    BY <1>1, <2>1, <2>2 DEF ServeInv, FreshInv
<1>13. m \notin BatchesTaken
  BY <1>10, <1>11, <1>12 DEF BatchesTaken
<1>14. ASSUME InOrder, NEW q \in (first..(last - 1)) \ BatchesTaken PROVE m <= q
  <2> SUFFICES ASSUME q < m PROVE FALSE
    OBVIOUS
  <2>1. q \in Nat /\ first <= q
    OBVIOUS
  <2>2. PICK d \in Nat : m = q + 1 + d
    <3>1. m - q - 1 \in Nat /\ m = q + 1 + (m - q - 1)
      BY <2>1
    <3> QED
      BY <3>1
  <2>3. /\ m * BatchSize = q * BatchSize + BatchSize + d * BatchSize
        /\ d * BatchSize \in Nat /\ q * BatchSize \in Nat
    BY <1>3, <2>1, <2>2
  <2>4. q * BatchSize < position
    BY <1>1, <1>2, <1>3, <1>14, <2>3
  <2>5. PICK e \in Nat : q = first + e
    <3>1. q - first \in Nat /\ q = first + (q - first)
      BY <2>1
    <3> QED
      BY <3>1
  <2>6. q * BatchSize = first * BatchSize + e * BatchSize /\ e * BatchSize \in Nat
    BY <1>3, <2>5
  <2>7. Start <= q * BatchSize
    BY <1>3, <1>7, <2>6
  <2>8. PICK i \in DOMAIN served : served[i][1] = q * BatchSize
    BY <1>14, <2>1, <2>4, <2>7 DEF ServeInv, FreshInv
  <2>9. Ordinals[i] = q /\ i \in DOMAIN Ordinals
    BY <1>3, <2>1, <2>8, MultipleDivided DEF Ordinals
  <2>10. q \in ToSet(Ordinals)
    BY <2>9 DEF ToSet
  <2> QED
    BY <2>10 DEF BatchesTaken
<1>15. m \in (first..(last - 1)) \ BatchesTaken
  BY <1>10, <1>13
<1>16. BatchStream!Take(m)
  BY <1>6, <1>14, <1>15
  DEF BatchStream!Take, BatchStream!StreamPosition, BatchesTaken
<1> QED
  BY <1>15, <1>16 DEF BatchStream!StreamNext, BatchStream!StreamPosition

(* The user of the iterator sees the abstract stream of batches: each      *)
(* batch not restored is handed out at most once, in sampler order unless  *)
(* delivery is on completion, whatever the workers, their rings and their  *)
(* deaths do (__next__).                                                   *)
THEOREM DeliveryServesStream == DeliverySpec => ServesStream
<1>1. DeliveryInit => BatchStream!StreamInit
  <2> SUFFICES ASSUME DeliveryInit PROVE BatchStream!StreamInit
    OBVIOUS
  <2>1. Ordinals = << >>
    BY DEF DeliveryInit, Ordinals
  <2>2. ToSet(Ordinals) = {}
    BY <2>1 DEF ToSet
  <2> QED
    BY <2>1, <2>2 DEF BatchStream!StreamInit
<1>2. ServeInv /\ ServeInv' /\ [DeliveryNext]_system
        => [BatchStream!StreamNext]_<<BatchesTaken, Ordinals>>
  <2> SUFFICES ASSUME ServeInv, ServeInv', [DeliveryNext]_system
               PROVE  BatchStream!StreamNext \/ UNCHANGED <<BatchesTaken, Ordinals>>
    OBVIOUS
  <2>1. CASE UNCHANGED served
    BY <2>1 DEF BatchesTaken, Ordinals, RestoredBatches
  <2>2. CASE Owner
    BY <2>1, <2>2, OwnerKeepsFresh, DeliverTakes DEF Owner, ServeInv
  <2>3. ASSUME NEW w \in Worker, Process(w) \/ ProcessDies(w)
        PROVE  UNCHANGED served
    BY <2>3 DEF Process, ProcessDies, TryRecv, PublishCompletion, Die, consumer
  <2>4. CASE Finished \/ UNCHANGED system
    BY <2>1, <2>4 DEF Finished, system, consumer
  <2> QED
    BY <2>1, <2>2, <2>3, <2>4 DEF DeliveryNext
<1>3. ServeInv /\ ServeInv' /\ [DeliveryNext]_system
        => [BatchStream!StreamNext]_<<RestoredBatches
              \cup (0..(Start \div BatchSize - 1)) \cup ToSet(Ordinals), Ordinals>>
  BY <1>2 DEF BatchesTaken
<1> QED
  BY <1>1, <1>3, ServeInvAlways, PTL
  DEF DeliverySpec, ServesStream, BatchStream!StreamSpec
==============================================================================
