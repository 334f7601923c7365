-------------------------- MODULE ProcessControlProofs --------------------------
(***************************************************************************)
(* What surrounds process delivery: the route of the machine keeper, the   *)
(* width of the pool, the calibration, the hand-over of the first sample   *)
(* and the ranks of a distributed job.  A step of one of them leaves the   *)
(* variables of the others alone, so each has an inductive invariant of    *)
(* its own.                                                                *)
(***************************************************************************)
EXTENDS ProcessControl, FiniteSetTheorems, WellFoundedInduction, TLAPS

(* A step of the composition is a step of one part, and the others stand   *)
(* still.                                                                  *)
LEMMA PartsApart ==
    ASSUME [ControlNext]_controlVars
    PROVE  /\ (handoff # None /\ Probe!HandoffNext) \/ UNCHANGED handoff
           /\ (control # None /\ Width!WidthNext) \/ UNCHANGED control
           /\ (ranks # None /\ Ranks!PlacementNext) \/ UNCHANGED ranks
           /\ (route # None /\ Keeping!RouteNext) \/ UNCHANGED route
           /\ (store # None /\ Calibration!StoreNext) \/ UNCHANGED store
  BY DEF ControlNext, controlVars, Only

(* And one part exists from the start.                                     *)
LEMMA OnePart ==
    ASSUME ControlInit
    PROVE  /\ handoff = None \/ \E c \in HandoffConfigs : Probe!HandoffInit(c)
           /\ control = None \/ \E c \in WidthConfigs : Width!WidthInit(c)
           /\ ranks = None \/ \E c \in RankConfigs : Ranks!PlacementInit(c)
           /\ route = None \/ \E c \in RouteConfigs : Keeping!RouteInit(c)
           /\ store = None \/ Calibration!StoreInit
  BY DEF ControlInit, Others, Probe!HandoffUnused, Width!WidthUnused,
         Ranks!PlacementUnused, Keeping!RouteUnused, Calibration!StoreUnused,
         None, Probe!None, Width!None, Ranks!None, Keeping!None,
         Calibration!None

-----------------------------------------------------------------------------
(* The route of the machine keeper.                                        *)

Table == [cores : SUBSET Cpus, since : SUBSET Cpus]

KeeperState ==
    [cpus : SUBSET Cpus, asked : {"nothing", "gap", "park", "defer"}]

GapIterator ==
    [cores : SUBSET Cpus, consumer : Cpus, gap : BOOLEAN, gapless : 0..GaplessLimit,
     elapsed : (-1)..GaplessLimit, table : Table, state : {"live", "ended", "raised"}]

RouteState ==
    [config : RouteConfigs, cpu : Cpus, keeper : {None} \cup KeeperState,
     open : Nat, interrupts : SUBSET Cpus, elapsed : Int, batches : Int,
     delivered : BOOLEAN, it : {None} \cup GapIterator, calling : BOOLEAN,
     short : 0..GaplessLimit, quiet : 0..GaplessLimit, expected : BOOLEAN]

(* The clocks of KeeperRests run no faster than those of the iterator, so  *)
(* that a keeper that should rest by them has been asked to.               *)
ClocksAgree(s) ==
    s.it # None =>
        /\ s.short = s.it.gapless
        /\ s.it.elapsed = -1 => s.short = 0
        /\ s.short = 0 => s.quiet = 0
        /\ s.short > 0 => s.quiet <= s.it.elapsed
        /\ ~s.it.gap => s.short = 0

OneKeeper(s) == s.open = (IF s.keeper = None THEN 0 ELSE 1)

Feeding(s) == s.calling => s.it # None /\ s.it.state = "live"

Quieted(s) == ~s.config.drops /\ ~s.config.fails => Keeping!Rests(s)

RouteSound(s) ==
    /\ s \in RouteState
    /\ OneKeeper(s)
    /\ ClocksAgree(s)
    /\ Feeding(s)
    /\ Quieted(s)

RouteInv == route # None => RouteSound(route)

LEMMA RouteLimits ==
    /\ GaplessLimit \in Nat /\ GaplessLimit > 0 /\ RouteCadence \in Nat
    /\ 0 \in 0..GaplessLimit /\ -1 \in (-1)..GaplessLimit
  BY ControlAssumption DEF ControlAssumption

LEMMA NoneApart == None \notin KeeperState /\ None \notin GapIterator
<1>1. \A k \in KeeperState : DOMAIN k = {"cpus", "asked"}
  BY DEF KeeperState
<1>2. \A k \in GapIterator : "gap" \in DOMAIN k
  BY DEF GapIterator
<1>3. DOMAIN None = {"none"}
  BY DEF None
<1> QED
  BY <1>1, <1>2, <1>3

LEMMA RouteUpdates ==
    ASSUME NEW s \in RouteState
    PROVE  /\ \A k \in {None} \cup KeeperState : [s EXCEPT !.keeper = k] \in RouteState
           /\ \A v \in {None} \cup GapIterator : [s EXCEPT !.it = v] \in RouteState
           /\ \A n \in Nat : [s EXCEPT !.open = n] \in RouteState
           /\ \A c \in SUBSET Cpus : [s EXCEPT !.interrupts = c] \in RouteState
           /\ \A n \in Int : [s EXCEPT !.elapsed = n] \in RouteState
           /\ \A n \in Int : [s EXCEPT !.batches = n] \in RouteState
           /\ \A b \in BOOLEAN : [s EXCEPT !.delivered = b] \in RouteState
           /\ \A b \in BOOLEAN : [s EXCEPT !.calling = b] \in RouteState
           /\ \A b \in BOOLEAN : [s EXCEPT !.expected = b] \in RouteState
           /\ \A n \in 0..GaplessLimit : [s EXCEPT !.short = n] \in RouteState
           /\ \A n \in 0..GaplessLimit : [s EXCEPT !.quiet = n] \in RouteState
           /\ \A c \in Cpus : [s EXCEPT !.cpu = c] \in RouteState
<1>1. \A k \in {None} \cup KeeperState : [s EXCEPT !.keeper = k] \in RouteState
  BY DEF RouteState
<1>2. \A v \in {None} \cup GapIterator : [s EXCEPT !.it = v] \in RouteState
  BY DEF RouteState
<1>3. \A n \in Nat : [s EXCEPT !.open = n] \in RouteState
  BY DEF RouteState
<1>4. \A c \in SUBSET Cpus : [s EXCEPT !.interrupts = c] \in RouteState
  BY DEF RouteState
<1>5. \A n \in Int : [s EXCEPT !.elapsed = n] \in RouteState
  BY DEF RouteState
<1>6. \A n \in Int : [s EXCEPT !.batches = n] \in RouteState
  BY DEF RouteState
<1>7. \A b \in BOOLEAN : [s EXCEPT !.delivered = b] \in RouteState
  BY DEF RouteState
<1>8. \A b \in BOOLEAN : [s EXCEPT !.calling = b] \in RouteState
  BY DEF RouteState
<1>9. \A b \in BOOLEAN : [s EXCEPT !.expected = b] \in RouteState
  BY DEF RouteState
<1>10. \A n \in 0..GaplessLimit : [s EXCEPT !.short = n] \in RouteState
  BY DEF RouteState
<1>11. \A n \in 0..GaplessLimit : [s EXCEPT !.quiet = n] \in RouteState
  BY DEF RouteState
<1>12. \A c \in Cpus : [s EXCEPT !.cpu = c] \in RouteState
  BY DEF RouteState
<1> QED
  BY <1>1, <1>2, <1>3, <1>4, <1>5, <1>6, <1>7, <1>8, <1>9, <1>10, <1>11, <1>12

(* What no change of the route touches.                                    *)
Kept(t, s) ==
    /\ t \in RouteState /\ t.it \in GapIterator
    /\ t.config = s.config /\ t.calling = s.calling /\ t.expected = s.expected
    /\ t.short = s.short /\ t.quiet = s.quiet
    /\ t.it.gap = s.it.gap /\ t.it.gapless = s.it.gapless
    /\ t.it.elapsed = s.it.elapsed /\ t.it.state = s.it.state

(* The keeper is the one there was, or a new one that was asked nothing.   *)
Rerouted(t, s) ==
    /\ Kept(t, s) /\ OneKeeper(t)
    /\ s.keeper # None => t.keeper # None
    /\ t.keeper # None => t.keeper = s.keeper \/ t.keeper.asked = "nothing"

LEMMA TargetedKeeps ==
    ASSUME NEW s \in RouteState, s.it \in GapIterator, NEW force \in BOOLEAN
    PROVE  LET t == Keeping!Targeted(s, force)
           IN  Kept(t, s) /\ t.keeper = s.keeper /\ t.open = s.open
<1> DEFINE table == Keeping!Refreshed(s.it.table)
           cores == IF s.config.table THEN table.cores ELSE {}
           t == [s EXCEPT !.it.table = table, !.it.cores = cores,
                          !.it.consumer = s.cpu, !.interrupts = cores,
                          !.elapsed = 0, !.batches = 0]
<1>1. table \in Table
  BY DEF Keeping!Refreshed, Table, GapIterator
<1>2. cores \in SUBSET Cpus /\ s.cpu \in Cpus
  BY <1>1 DEF Table, RouteState
<1> HIDE DEF table, cores
<1>3. [s.it EXCEPT !.table = table, !.cores = cores, !.consumer = s.cpu] \in GapIterator
  BY <1>1, <1>2 DEF GapIterator
<1>4. t.it = [s.it EXCEPT !.table = table, !.cores = cores, !.consumer = s.cpu]
  BY DEF RouteState, GapIterator
<1>5. /\ t.keeper = s.keeper /\ t.open = s.open /\ t.config = s.config
      /\ t.calling = s.calling /\ t.expected = s.expected
      /\ t.short = s.short /\ t.quiet = s.quiet
  BY DEF RouteState
<1>6. /\ t.it.gap = s.it.gap /\ t.it.gapless = s.it.gapless
      /\ t.it.elapsed = s.it.elapsed /\ t.it.state = s.it.state
  <2> DEFINE n == [s.it EXCEPT !.table = table, !.cores = cores, !.consumer = s.cpu]
  <2>1. /\ n.gap = s.it.gap /\ n.gapless = s.it.gapless
        /\ n.elapsed = s.it.elapsed /\ n.state = s.it.state
    BY DEF GapIterator
  <2> QED
    BY <1>4, <2>1
<1>7. t \in RouteState
  <2> DEFINE n == [s.it EXCEPT !.table = table, !.cores = cores, !.consumer = s.cpu]
             u == [s EXCEPT !.it = n, !.interrupts = cores, !.elapsed = 0,
                            !.batches = 0]
  <2>1. t = u
    BY DEF RouteState, GapIterator
  <2> HIDE DEF t, n
  <2>2. n \in GapIterator
    BY <1>3 DEF n
  <2>3. u = [[[[s EXCEPT !.it = n] EXCEPT !.interrupts = cores]
                EXCEPT !.elapsed = 0] EXCEPT !.batches = 0]
    OBVIOUS
  <2> HIDE DEF u
  <2>4. u \in RouteState
    <3> DEFINE u1 == [s EXCEPT !.it = n]
               u2 == [u1 EXCEPT !.interrupts = cores]
               u3 == [u2 EXCEPT !.elapsed = 0]
    <3>1. u1 \in RouteState
      BY <2>2, RouteUpdates
    <3> HIDE DEF u1
    <3>2. u2 \in RouteState
      BY <3>1, <1>2, RouteUpdates
    <3> HIDE DEF u2
    <3>3. u3 \in RouteState
      BY <3>2, 0 \in Int, RouteUpdates
    <3>4. u = [u3 EXCEPT !.batches = 0]
      BY <2>3 DEF u1, u2
    <3> HIDE DEF u3
    <3> QED
      BY <3>3, <3>4, 0 \in Int, RouteUpdates
  <2> QED
    BY <2>1, <2>4
<1>8. Keeping!Targeted(s, force) = t \/ Keeping!Targeted(s, force) = s
  BY DEF Keeping!Targeted, t, table, cores
<1>9. Kept(t, s) /\ t.keeper = s.keeper /\ t.open = s.open
  BY <1>3, <1>4, <1>5, <1>6, <1>7 DEF Kept
<1>10. Kept(s, s)
  BY DEF Kept
<1> HIDE DEF t
<1> QED
  BY <1>8, <1>9, <1>10

LEMMA ReplacedKeeps ==
    ASSUME NEW s \in RouteState, s.it \in GapIterator, s.keeper # None,
           OneKeeper(s)
    PROVE  Rerouted(Keeping!Replaced(s), s)
<1>1. Keeping!Target(s) \in SUBSET Cpus
  BY DEF Keeping!Target, GapIterator
<1>2. CASE Keeping!Target(s) = s.keeper.cpus
  BY <1>2 DEF Keeping!Replaced, Rerouted, Kept
<1>3. CASE Keeping!Target(s) # s.keeper.cpus
  <2> DEFINE k == Keeping!NewKeeper(Keeping!Target(s))
             t == [s EXCEPT !.keeper = k]
  <2>1. k \in KeeperState /\ k.asked = "nothing"
    BY <1>1 DEF Keeping!NewKeeper, KeeperState
  <2>2. k # None
    BY <2>1, NoneApart
  <2> HIDE DEF k
  <2>3. t \in RouteState /\ t.keeper = k
    BY <2>1 DEF RouteState
  <2>4. Kept(t, s)
    BY <2>3 DEF Kept, RouteState
  <2>5. t.open = s.open
    BY DEF RouteState
  <2>6. Keeping!Replaced(s) = t
    BY <1>3 DEF Keeping!Replaced, k
  <2> HIDE DEF t
  <2> QED
    BY <2>1, <2>2, <2>3, <2>4, <2>5, <2>6 DEF Rerouted, OneKeeper
<1> QED
  BY <1>2, <1>3

LEMMA EnsuredKeeps ==
    ASSUME NEW s \in RouteState, s.it \in GapIterator, OneKeeper(s)
    PROVE  Rerouted(Keeping!Ensured(s), s)
<1> DEFINE t == Keeping!Targeted(s, s.keeper = Keeping!None)
<1>1. Kept(t, s) /\ t.keeper = s.keeper /\ t.open = s.open
  BY TargetedKeeps
<1> HIDE DEF t
<1>2. t \in RouteState /\ t.it \in GapIterator /\ OneKeeper(t)
  BY <1>1 DEF Kept, OneKeeper
<1>3. CASE t.keeper # None
  <2>1. Rerouted(Keeping!Replaced(t), t)
    BY <1>2, <1>3, ReplacedKeeps
  <2>2. Keeping!Ensured(s) = Keeping!Replaced(t)
    BY <1>3 DEF Keeping!Ensured, t, None, Keeping!None
  <2> QED
    BY <1>1, <1>3, <2>1, <2>2 DEF Rerouted, Kept
<1>4. CASE t.keeper = None
  <2> DEFINE k == Keeping!NewKeeper(Keeping!Target(t))
             u == [t EXCEPT !.keeper = k, !.open = @ + 1]
  <2>1. k \in KeeperState /\ k.asked = "nothing"
    BY <1>2 DEF Keeping!NewKeeper, KeeperState, Keeping!Target, GapIterator
  <2>2. k # None
    BY <2>1, NoneApart
  <2>3. Keeping!Ensured(s) = u
    BY <1>4 DEF Keeping!Ensured, t, None, Keeping!None
  <2> HIDE DEF k
  <2>9. u = [[t EXCEPT !.keeper = k] EXCEPT !.open = t.open + 1]
    OBVIOUS
  <2>10. t.open + 1 \in Nat
    BY <1>2 DEF RouteState
  <2>4. u \in RouteState
    <3> HIDE DEF u
    <3> QED
      BY <1>2, <2>1, <2>9, <2>10, RouteUpdates
  <2>8. u.keeper = k /\ u.open = t.open + 1
    BY <1>2, <2>1 DEF RouteState
  <2>5. Kept(u, t)
    BY <1>2, <2>4 DEF Kept, RouteState
  <2>6. u.open = 1
    BY <1>2, <1>4, <2>8 DEF OneKeeper
  <2> HIDE DEF u
  <2> QED
    BY <1>1, <2>1, <2>2, <2>3, <2>4, <2>5, <2>6, <2>8 DEF Rerouted, Kept, OneKeeper
<1> QED
  BY <1>3, <1>4

LEMMA BegunKeeps ==
    ASSUME NEW s \in RouteState, s.it \in GapIterator, OneKeeper(s)
    PROVE  Rerouted(Keeping!Begun(s), s)
<1> USE DEF None, Keeping!None
<1>1. Rerouted(s, s)
  BY DEF Rerouted, Kept
<1>2. CASE s.keeper # None /\ s.elapsed = -1
  <2> DEFINE t == [s EXCEPT !.elapsed = 0]
  <2>1. t \in RouteState
    BY 0 \in Int DEF RouteState
  <2>2. /\ t.keeper = s.keeper /\ t.open = s.open /\ t.config = s.config
        /\ t.calling = s.calling /\ t.expected = s.expected
        /\ t.short = s.short /\ t.quiet = s.quiet /\ t.it = s.it
    BY DEF RouteState
  <2>3. Keeping!Begun(s) = t
    BY <1>2 DEF Keeping!Begun
  <2> HIDE DEF t
  <2> QED
    BY <2>1, <2>2, <2>3 DEF Rerouted, Kept, OneKeeper
<1>3. CASE s.keeper # None /\ s.elapsed # -1 /\ Keeping!Due(s)
  <2> DEFINE t == Keeping!Targeted(s, FALSE)
  <2>1. Kept(t, s) /\ t.keeper = s.keeper /\ t.open = s.open
    BY TargetedKeeps
  <2>2. Keeping!Begun(s) = Keeping!Replaced(t)
    BY <1>3 DEF Keeping!Begun
  <2> HIDE DEF t
  <2>3. Rerouted(Keeping!Replaced(t), t)
    BY <1>3, <2>1, ReplacedKeeps DEF Kept, OneKeeper
  <2> QED
    BY <2>1, <2>2, <2>3, <1>3 DEF Rerouted, Kept
<1>4. CASE s.keeper = None \/ (s.elapsed # -1 /\ ~Keeping!Due(s))
  BY <1>1, <1>4 DEF Keeping!Begun
<1> QED
  BY <1>2, <1>3, <1>4

(* What the keeper is asked.                                               *)
LEMMA AskedKeeps ==
    ASSUME NEW s \in RouteState, NEW r \in {"gap", "park", "defer"}
    PROVE  LET t == Keeping!Asked(s, r)
           IN  /\ t \in RouteState
               /\ t.keeper = None <=> s.keeper = None
               /\ t.keeper # None => t.keeper.asked = r
               /\ t.config = s.config /\ t.open = s.open /\ t.it = s.it
               /\ t.calling = s.calling /\ t.expected = s.expected
               /\ t.short = s.short /\ t.quiet = s.quiet
<1>1. CASE s.keeper = None
  BY <1>1 DEF Keeping!Asked, None, Keeping!None
<1>2. CASE s.keeper # None
  <2> DEFINE k == [s.keeper EXCEPT !.asked = r]
             t == [s EXCEPT !.keeper = k]
  <2>1. k \in KeeperState /\ k.asked = r
    BY <1>2 DEF RouteState, KeeperState
  <2>2. Keeping!Asked(s, r) = t
    BY <1>2 DEF Keeping!Asked, None, Keeping!None
  <2> HIDE DEF k
  <2>3. t \in RouteState
    BY <2>1, RouteUpdates
  <2>4. /\ t.keeper = k /\ t.config = s.config /\ t.open = s.open /\ t.it = s.it
        /\ t.calling = s.calling /\ t.expected = s.expected
        /\ t.short = s.short /\ t.quiet = s.quiet
    BY DEF RouteState
  <2>5. k # None
    BY <2>1, NoneApart
  <2> HIDE DEF t
  <2> QED
    BY <1>2, <2>1, <2>2, <2>3, <2>4, <2>5
<1> QED
  BY <1>1, <1>2

(* A call while the iterator lives.  The clocks agree before and after,    *)
(* and a keeper at work by then is not one that was expected to rest.      *)
Resting(t) ==
    t.keeper # None /\ t.keeper.asked = "gap" =>
        ~(t.short = GaplessLimit /\ t.quiet = GaplessLimit)

CallKeeps(t, s) ==
    /\ t \in RouteState /\ t.it \in GapIterator
    /\ t.it.state = s.it.state /\ t.config = s.config
    /\ OneKeeper(t) /\ ClocksAgree(t) /\ Resting(t)

LEMMA LongGapKeeps ==
    ASSUME NEW s \in RouteState, s.it \in GapIterator, OneKeeper(s)
    PROVE  CallKeeps(Keeping!LongGap(s), s)
<1> DEFINE e == Keeping!Ensured(s)
           t == Keeping!Asked(e, "gap")
           i == [t.it EXCEPT !.gapless = 0, !.elapsed = -1]
           u == [t EXCEPT !.it.gapless = 0, !.it.elapsed = -1, !.short = 0, !.quiet = 0]
<1>1. Rerouted(e, s)
  BY EnsuredKeeps
<1> HIDE DEF e
<1>2. /\ t \in RouteState /\ t.config = s.config /\ OneKeeper(t)
      /\ t.it \in GapIterator /\ t.it.state = s.it.state
  BY <1>1, AskedKeeps DEF Rerouted, Kept, OneKeeper
<1>3. Keeping!LongGap(s) = u
  BY DEF Keeping!LongGap, e
<1> HIDE DEF t
<1>4. i \in GapIterator /\ i.state = s.it.state /\ i.gapless = 0 /\ i.elapsed = -1
  BY <1>2, RouteLimits DEF GapIterator
<1>5. u = [[[t EXCEPT !.it = i] EXCEPT !.short = 0] EXCEPT !.quiet = 0]
  BY <1>2 DEF RouteState, GapIterator
<1>6. /\ u.it = i /\ u.short = 0 /\ u.quiet = 0 /\ u.config = t.config
      /\ u.keeper = t.keeper /\ u.open = t.open
  BY <1>2, <1>5 DEF RouteState
<1> HIDE DEF i, u
<1>7. u \in RouteState
  <2> DEFINE u1 == [t EXCEPT !.it = i]
             u2 == [u1 EXCEPT !.short = 0]
  <2>1. u1 \in RouteState
    BY <1>2, <1>4, RouteUpdates
  <2> HIDE DEF u1
  <2>2. u2 \in RouteState
    BY <2>1, RouteLimits, RouteUpdates
  <2>3. u = [u2 EXCEPT !.quiet = 0]
    BY <1>5 DEF u1
  <2> HIDE DEF u2
  <2> QED
    BY <2>2, <2>3, RouteLimits, RouteUpdates
<1> QED
  BY <1>2, <1>3, <1>4, <1>6, <1>7, RouteLimits
  DEF CallKeeps, OneKeeper, ClocksAgree, Resting

LEMMA ShortGapKeeps ==
    ASSUME NEW s \in RouteState, s.it \in GapIterator, OneKeeper(s),
           ClocksAgree(s), s.it.gap
    PROVE  CallKeeps(Keeping!ShortGap(s), s)
<1>1. CASE s.keeper = None
  BY <1>1 DEF CallKeeps, Resting, Keeping!ShortGap, None, Keeping!None
<1>2. CASE s.keeper # None
  <2> DEFINE i == Keeping!Counted(s.it)
             n == Keeping!AtMost(s.short + 1, GaplessLimit)
             t == [s EXCEPT !.it = i, !.short = n]
  <2>1. /\ i \in GapIterator /\ i.state = s.it.state /\ i.gap = s.it.gap
        /\ i.gapless = Keeping!AtMost(s.it.gapless + 1, GaplessLimit)
        /\ i.elapsed = (IF s.it.elapsed = -1 THEN 0 ELSE s.it.elapsed)
    <3> DEFINE g == Keeping!AtMost(s.it.gapless + 1, GaplessLimit)
               e == IF s.it.elapsed = -1 THEN 0 ELSE s.it.elapsed
    <3>1. i = [s.it EXCEPT !.gapless = g, !.elapsed = e]
      BY DEF Keeping!Counted, GapIterator
    <3>2. g \in 0..GaplessLimit
      BY RouteLimits DEF Keeping!AtMost, GapIterator
    <3>3. e \in (-1)..GaplessLimit
      BY RouteLimits DEF GapIterator
    <3> HIDE DEF i, g, e
    <3> QED
      BY <3>1, <3>2, <3>3 DEF GapIterator, g, e
  <2>2. n \in 0..GaplessLimit /\ n > 0
    BY RouteLimits DEF Keeping!AtMost, RouteState
  <2>3. /\ s.it # None /\ i # None
    BY <2>1, NoneApart
  <2>4. n = i.gapless
    BY <2>1, <2>3 DEF ClocksAgree
  <2>5. /\ s.quiet \in 0..GaplessLimit /\ s.short \in 0..GaplessLimit
        /\ s.it.elapsed \in (-1)..GaplessLimit
    BY DEF RouteState, GapIterator
  <2>6. s.quiet <= i.elapsed
    BY <2>1, <2>3, <2>5 DEF ClocksAgree
  <2>7. Keeping!ShortGap(s)
        = IF Keeping!AtLimit(t.it) THEN Keeping!Asked(t, "park") ELSE t
    BY <1>2 DEF Keeping!ShortGap, None, Keeping!None
  <2> HIDE DEF i, n
  <2>8. /\ t.it = i /\ t.short = n /\ t.quiet = s.quiet /\ t.keeper = s.keeper
        /\ t.open = s.open /\ t.config = s.config
    BY DEF RouteState
  <2>9. t \in RouteState
    <3>1. [s EXCEPT !.it = i] \in RouteState
      BY <2>1, RouteUpdates
    <3>2. t = [[s EXCEPT !.it = i] EXCEPT !.short = n]
      OBVIOUS
    <3> QED
      BY <3>1, <3>2, <2>2, RouteUpdates
  <2> HIDE DEF t
  <2>10. ClocksAgree(t) /\ OneKeeper(t)
    <3>1. i.elapsed # -1
      BY <2>1, <2>5
    <3>2. i.gap
      BY <2>1
    <3> QED
      BY <2>2, <2>4, <2>6, <2>8, <3>1, <3>2 DEF ClocksAgree, OneKeeper
  <2>11. ~Keeping!AtLimit(t.it) => ~(t.short = GaplessLimit /\ t.quiet = GaplessLimit)
    BY <2>1, <2>4, <2>5, <2>6, <2>8, RouteLimits DEF Keeping!AtLimit
  <2>12. CASE Keeping!AtLimit(t.it)
    <3> DEFINE u == Keeping!Asked(t, "park")
    <3>1. /\ u \in RouteState /\ (u.keeper = None <=> t.keeper = None)
          /\ u.keeper # None => u.keeper.asked = "park"
          /\ u.config = t.config /\ u.open = t.open /\ u.it = t.it
          /\ u.short = t.short /\ u.quiet = t.quiet
      BY <2>9, AskedKeeps
    <3> HIDE DEF u
    <3> QED
      BY <2>1, <2>7, <2>8, <2>10, <2>12, <3>1
      DEF CallKeeps, OneKeeper, ClocksAgree, Resting, u
  <2>13. CASE ~Keeping!AtLimit(t.it)
    BY <2>1, <2>7, <2>8, <2>9, <2>10, <2>11, <2>13 DEF CallKeeps, Resting
  <2> QED
    BY <2>12, <2>13
<1> QED
  BY <1>1, <1>2

LEMMA MeasuredKeeps ==
    ASSUME NEW s \in RouteState, s.it \in GapIterator, OneKeeper(s),
           ClocksAgree(s), NEW long \in BOOLEAN
    PROVE  CallKeeps(Keeping!Measured(s, long), s)
<1>1. CASE ~s.it.gap
  BY <1>1, NoneApart, RouteLimits
  DEF CallKeeps, Resting, ClocksAgree, Keeping!Measured
<1>2. CASE s.it.gap /\ long
  BY <1>2, LongGapKeeps DEF Keeping!Measured
<1>3. CASE s.it.gap /\ ~long
  BY <1>3, ShortGapKeeps DEF Keeping!Measured
<1> QED
  BY <1>1, <1>2, <1>3

LEMMA CallNextKeeps ==
    ASSUME RouteSound(route), NEW long \in BOOLEAN, Keeping!CallNext(long)
    PROVE  RouteSound(route')
<1> DEFINE b == Keeping!Begun(route)
           t == Keeping!Measured(b, long)
           e == t.short = GaplessLimit /\ t.quiet = GaplessLimit
<1>1. /\ route \in RouteState /\ route.it # None /\ route.it.state = "live"
      /\ OneKeeper(route) /\ ClocksAgree(route)
  BY DEF Keeping!CallNext, RouteSound, None, Keeping!None
<1>2. route.it \in GapIterator
  BY <1>1 DEF RouteState
<1>3. Rerouted(b, route)
  BY <1>1, <1>2, BegunKeeps
<1>4. route' = [t EXCEPT !.calling = TRUE, !.expected = e]
  BY DEF Keeping!CallNext
<1> HIDE DEF b
<1>5. ClocksAgree(b)
  BY <1>1, <1>3, NoneApart DEF ClocksAgree, Rerouted, Kept
<1>6. CallKeeps(t, b)
  BY <1>3, <1>5, MeasuredKeeps DEF Rerouted, Kept
<1>7. t.it.state = "live"
  BY <1>1, <1>3, <1>6 DEF CallKeeps, Rerouted, Kept
<1> HIDE DEF t
<1>8. /\ t \in RouteState /\ t.it # None
  BY <1>6, NoneApart DEF CallKeeps
<1>9. e \in BOOLEAN
  OBVIOUS
<1>10. Resting(t) => (t.keeper # None /\ t.keeper.asked = "gap" => ~e)
  BY DEF Resting
<1> HIDE DEF e
<1>11. /\ route'.it = t.it /\ route'.keeper = t.keeper /\ route'.open = t.open
       /\ route'.calling /\ route'.expected = e /\ route'.short = t.short
       /\ route'.quiet = t.quiet /\ route'.config = t.config
  BY <1>4, <1>8 DEF RouteState
<1>12. route' \in RouteState
  <2>1. [t EXCEPT !.calling = TRUE] \in RouteState
    BY <1>8, TRUE \in BOOLEAN, RouteUpdates
  <2>2. route' = [[t EXCEPT !.calling = TRUE] EXCEPT !.expected = e]
    BY <1>4
  <2> QED
    BY <2>1, <2>2, <1>9, RouteUpdates
<1>13. ClocksAgree(route') /\ OneKeeper(route') /\ Feeding(route')
  BY <1>6, <1>7, <1>8, <1>11 DEF CallKeeps, ClocksAgree, OneKeeper, Feeding
<1>14. Keeping!Rests(route')
  BY <1>6, <1>7, <1>8, <1>10, <1>11
  DEF CallKeeps, Keeping!Rests, None, Keeping!None
<1> QED
  BY <1>12, <1>13, <1>14 DEF RouteSound, Quieted

(* A change of the state of the iterator alone.                            *)
LEMMA StateOnly ==
    ASSUME NEW s \in RouteState, s.it \in GapIterator,
           NEW x \in {"live", "ended", "raised"}
    PROVE  LET t == [s EXCEPT !.it.state = x]
           IN  /\ t \in RouteState /\ t.it \in GapIterator /\ t.it.state = x
               /\ t.it.gapless = s.it.gapless /\ t.it.elapsed = s.it.elapsed
               /\ t.it.gap = s.it.gap /\ t.config = s.config
               /\ t.keeper = s.keeper /\ t.open = s.open /\ t.calling = s.calling
               /\ t.short = s.short /\ t.quiet = s.quiet /\ t.expected = s.expected
<1> DEFINE i == [s.it EXCEPT !.state = x]
           t == [s EXCEPT !.it = i]
<1>1. /\ i \in GapIterator /\ i.state = x /\ i.gapless = s.it.gapless
      /\ i.elapsed = s.it.elapsed /\ i.gap = s.it.gap
  BY DEF GapIterator
<1>2. [s EXCEPT !.it.state = x] = t
  BY DEF RouteState
<1> HIDE DEF i
<1>3. t \in RouteState
  BY <1>1, RouteUpdates
<1>4. /\ t.it = i /\ t.config = s.config
      /\ t.keeper = s.keeper /\ t.open = s.open /\ t.calling = s.calling
      /\ t.short = s.short /\ t.quiet = s.quiet /\ t.expected = s.expected
  BY DEF RouteState
<1> HIDE DEF t
<1> QED
  BY <1>1, <1>2, <1>3, <1>4

LEMMA KeeperFailsKeeps ==
    ASSUME RouteSound(route), NEW long \in BOOLEAN, Keeping!KeeperFails(long)
    PROVE  RouteSound(route')
<1>1. /\ route.config.fails /\ route.it # None /\ ~route.calling
      /\ route' = [route EXCEPT !.it.state = "raised"]
  BY DEF Keeping!KeeperFails, None, Keeping!None
<1>2. route \in RouteState /\ route.it \in GapIterator
  BY <1>1 DEF RouteSound, RouteState
<1>3. /\ route' \in RouteState /\ route'.it \in GapIterator
      /\ route'.it.gapless = route.it.gapless /\ route'.it.elapsed = route.it.elapsed
      /\ route'.it.gap = route.it.gap /\ route'.config = route.config
      /\ route'.keeper = route.keeper /\ route'.open = route.open
      /\ route'.calling = route.calling /\ route'.short = route.short
      /\ route'.quiet = route.quiet
  BY <1>1, <1>2, StateOnly
<1>4. ClocksAgree(route')
  BY <1>1, <1>3 DEF RouteSound, ClocksAgree
<1> QED
  BY <1>1, <1>3, <1>4 DEF RouteSound, OneKeeper, Feeding, Quieted

LEMMA AnswerKeeps ==
    ASSUME RouteSound(route), Keeping!Answer
    PROVE  RouteSound(route')
<1>1. /\ route \in RouteState /\ route.calling /\ route.it # None
      /\ route.it \in GapIterator /\ route.it.state = "live"
  BY DEF RouteSound, RouteState, Feeding, Keeping!Answer
<1>2. CASE route' = [route EXCEPT !.calling = FALSE, !.it.gap = TRUE,
                        !.delivered = TRUE,
                        !.batches = Keeping!AtMost(@ + 1, RouteCadence)]
  <2> DEFINE i == [route.it EXCEPT !.gap = TRUE]
             n == Keeping!AtMost(route.batches + 1, RouteCadence)
             u1 == [route EXCEPT !.calling = FALSE]
             u2 == [u1 EXCEPT !.it = i]
             u3 == [u2 EXCEPT !.delivered = TRUE]
  <2>1. /\ i \in GapIterator /\ i.gap /\ i.state = "live"
        /\ i.gapless = route.it.gapless /\ i.elapsed = route.it.elapsed
    BY <1>1 DEF GapIterator
  <2>2. n \in Int
    BY <1>1, RouteLimits DEF RouteState, Keeping!AtMost
  <2>3. route' = [route EXCEPT !.calling = FALSE, !.it = i, !.delivered = TRUE,
                               !.batches = n]
    BY <1>1, <1>2 DEF RouteState
  <2> HIDE DEF i, n
  <2>4. /\ route'.it = i /\ route'.keeper = route.keeper /\ ~route'.calling
        /\ route'.open = route.open /\ route'.config = route.config
        /\ route'.short = route.short /\ route'.quiet = route.quiet
    BY <1>1, <2>3 DEF RouteState
  <2>5. route' \in RouteState
    <3>1. u1 \in RouteState
      BY <1>1, FALSE \in BOOLEAN, RouteUpdates
    <3> HIDE DEF u1
    <3>2. u2 \in RouteState
      BY <3>1, <2>1, RouteUpdates
    <3> HIDE DEF u2
    <3>3. u3 \in RouteState
      BY <3>2, TRUE \in BOOLEAN, RouteUpdates
    <3>4. route' = [u3 EXCEPT !.batches = n]
      BY <2>3 DEF u1, u2
    <3> HIDE DEF u3
    <3> QED
      BY <3>3, <3>4, <2>2, RouteUpdates
  <2>6. ClocksAgree(route')
    BY <1>1, <2>1, <2>4 DEF RouteSound, ClocksAgree
  <2>7. Quieted(route')
    BY <1>1, <2>1, <2>4, NoneApart
    DEF Quieted, Keeping!Rests, None, Keeping!None
  <2> QED
    BY <2>4, <2>5, <2>6, <2>7 DEF RouteSound, OneKeeper, Feeding
<1>3. ASSUME NEW r \in {"park", "defer"}, NEW x \in {"ended", "raised"},
             route' = [Keeping!Asked(route, r) EXCEPT !.calling = FALSE,
                                                      !.it.state = x]
      PROVE  RouteSound(route')
  <2> DEFINE t == Keeping!Asked(route, r)
             u == [t EXCEPT !.calling = FALSE]
  <2>1. /\ t \in RouteState /\ (t.keeper = None <=> route.keeper = None)
        /\ t.keeper # None => t.keeper.asked = r
        /\ t.config = route.config /\ t.open = route.open /\ t.it = route.it
        /\ t.short = route.short /\ t.quiet = route.quiet
    BY <1>1, AskedKeeps
  <2>2. route' = [u EXCEPT !.it.state = x]
    BY <1>1, <1>3, <2>1 DEF RouteState, GapIterator
  <2> HIDE DEF t
  <2>3. u \in RouteState
    BY <2>1, FALSE \in BOOLEAN, RouteUpdates
  <2>4. /\ ~u.calling /\ u.keeper = t.keeper /\ u.config = t.config
        /\ u.open = t.open /\ u.it = t.it /\ u.short = t.short /\ u.quiet = t.quiet
    BY <2>1 DEF RouteState
  <2> HIDE DEF u
  <2>5. /\ route' \in RouteState /\ route'.it \in GapIterator
        /\ route'.it.gapless = route.it.gapless /\ route'.it.elapsed = route.it.elapsed
        /\ route'.it.gap = route.it.gap /\ route'.config = u.config
        /\ route'.keeper = u.keeper /\ route'.open = u.open
        /\ route'.calling = u.calling /\ route'.short = u.short
        /\ route'.quiet = u.quiet
    <3>1. u.it \in GapIterator /\ u.it = route.it /\ x \in {"live", "ended", "raised"}
      BY <1>1, <2>1, <2>4
    <3> DEFINE v == [u EXCEPT !.it.state = x]
    <3>2. /\ v \in RouteState /\ v.it \in GapIterator
          /\ v.it.gapless = u.it.gapless /\ v.it.elapsed = u.it.elapsed
          /\ v.it.gap = u.it.gap /\ v.config = u.config
          /\ v.keeper = u.keeper /\ v.open = u.open /\ v.calling = u.calling
          /\ v.short = u.short /\ v.quiet = u.quiet
      BY <2>3, <3>1, StateOnly
    <3>3. route' = v
      BY <2>2
    <3> HIDE DEF v
    <3> QED
      BY <3>1, <3>2, <3>3
  <2>6. ClocksAgree(route')
    BY <1>1, <2>1, <2>4, <2>5 DEF RouteSound, ClocksAgree
  <2>7. OneKeeper(route')
    BY <2>1, <2>4, <2>5 DEF RouteSound, OneKeeper
  <2>8. Keeping!Rests(route')
    BY <2>1, <2>4, <2>5 DEF Keeping!Rests, None, Keeping!None
  <2> QED
    BY <2>4, <2>5, <2>6, <2>7, <2>8 DEF RouteSound, Feeding, Quieted
<1> QED
  BY <1>2, <1>3 DEF Keeping!Answer

LEMMA ClosedSound ==
    ASSUME NEW s, RouteSound(s), ~s.calling
    PROVE  LET t == Keeping!Closed(s)
           IN  /\ t \in RouteState /\ t.keeper = None /\ t.open = 0
               /\ t.it = None /\ ~t.calling /\ t.config = s.config
<1> DEFINE i == Keeping!Invalidated(s)
           o == IF i.keeper = None THEN i.open ELSE i.open - 1
           t1 == [i EXCEPT !.it = None]
           t2 == [t1 EXCEPT !.keeper = None]
           t3 == [t2 EXCEPT !.open = 0]
           t4 == [t3 EXCEPT !.interrupts = {}]
           t5 == [t4 EXCEPT !.elapsed = -1]
           t6 == [t5 EXCEPT !.batches = 0]
           t7 == [t6 EXCEPT !.delivered = FALSE]
           t8 == [t7 EXCEPT !.short = 0]
           t9 == [t8 EXCEPT !.quiet = 0]
<1>1. /\ i \in RouteState /\ (i.keeper = None <=> s.keeper = None)
      /\ i.open = s.open /\ i.calling = s.calling /\ i.config = s.config
  BY AskedKeeps DEF Keeping!Invalidated, RouteSound
<1>2. Keeping!Closed(s) = [i EXCEPT !.it = None, !.keeper = None,
        !.open = IF s.keeper = None THEN @ ELSE @ - 1, !.interrupts = {},
        !.elapsed = -1, !.batches = 0, !.delivered = FALSE,
        !.short = 0, !.quiet = 0]
  BY DEF Keeping!Closed, None, Keeping!None
<1>3. (IF s.keeper = None THEN i.open ELSE i.open - 1) = 0
  BY <1>1 DEF RouteSound, OneKeeper
<1> HIDE DEF i
<1>4. Keeping!Closed(s) = t9
  BY <1>1, <1>2, <1>3 DEF RouteState
<1>5. t2 \in RouteState
  BY <1>1, RouteUpdates
<1> HIDE DEF t2
<1>6. t4 \in RouteState
  <2>1. t3 \in RouteState
    BY <1>5, 0 \in Nat, RouteUpdates
  <2> HIDE DEF t3
  <2> QED
    BY <2>1, RouteUpdates
<1> HIDE DEF t4
<1>7. t6 \in RouteState
  <2>1. t5 \in RouteState
    BY <1>6, -1 \in Int, RouteUpdates
  <2> HIDE DEF t5
  <2> QED
    BY <2>1, 0 \in Int, RouteUpdates
<1> HIDE DEF t6
<1>8. t8 \in RouteState
  <2>1. t7 \in RouteState
    BY <1>7, FALSE \in BOOLEAN, RouteUpdates
  <2> HIDE DEF t7
  <2> QED
    BY <2>1, RouteLimits, RouteUpdates
<1> HIDE DEF t8
<1>9. t9 \in RouteState
  BY <1>8, RouteLimits, RouteUpdates
<1>10. /\ t9.keeper = None /\ t9.open = 0 /\ t9.it = None
       /\ t9.calling = i.calling /\ t9.config = i.config
  BY <1>1 DEF RouteState, t8, t6, t4, t2
<1> HIDE DEF t9
<1> QED
  BY <1>1, <1>4, <1>9, <1>10

LEMMA IterateKeeps ==
    ASSUME RouteSound(route), Keeping!Iterate
    PROVE  RouteSound(route')
<1> DEFINE s == IF route.it # None /\ route.it.state # "ended"
                THEN Keeping!Closed(route) ELSE route
           n == Keeping!NewIterator(s)
<1>1. ~route.calling /\ route' = [s EXCEPT !.it = n, !.short = 0, !.quiet = 0]
  BY DEF Keeping!Iterate, None, Keeping!None
<1>2. /\ s \in RouteState /\ OneKeeper(s) /\ ~s.calling /\ s.config = route.config
      /\ ~s.config.drops /\ ~s.config.fails =>
             ~(s.keeper # None /\ s.keeper.asked = "gap")
  <2>1. CASE route.it # None /\ route.it.state # "ended"
    BY <1>1, <2>1, ClosedSound DEF OneKeeper
  <2>2. CASE ~(route.it # None /\ route.it.state # "ended")
    BY <1>1, <2>2 DEF RouteSound, Quieted, Keeping!Rests, None, Keeping!None
  <2> QED
    BY <2>1, <2>2
<1> HIDE DEF s
<1>3. /\ n \in GapIterator /\ n.gapless = 0 /\ n.elapsed = -1 /\ n.state = "live"
  BY <1>2, RouteLimits
  DEF Keeping!NewIterator, Keeping!Discovered, Table, GapIterator, RouteState
<1>4. n # None
  BY <1>3, NoneApart
<1> HIDE DEF n
<1>5. /\ route'.it = n /\ route'.short = 0 /\ route'.quiet = 0
      /\ route'.keeper = s.keeper /\ route'.open = s.open
      /\ route'.config = s.config /\ route'.calling = s.calling
  BY <1>1, <1>2 DEF RouteState
<1>6. route' \in RouteState
  <2> DEFINE u1 == [s EXCEPT !.it = n]
             u2 == [u1 EXCEPT !.short = 0]
  <2>1. u1 \in RouteState
    BY <1>2, <1>3, RouteUpdates
  <2> HIDE DEF u1
  <2>2. u2 \in RouteState
    BY <2>1, RouteLimits, RouteUpdates
  <2>3. route' = [u2 EXCEPT !.quiet = 0]
    BY <1>1 DEF u1
  <2> HIDE DEF u2
  <2> QED
    BY <2>2, <2>3, RouteLimits, RouteUpdates
<1> QED
  BY <1>2, <1>3, <1>4, <1>5, <1>6
  DEF RouteSound, OneKeeper, ClocksAgree, Feeding, Quieted, Keeping!Rests,
      None, Keeping!None

LEMMA CloseDropKeep ==
    ASSUME RouteSound(route), Keeping!Close \/ Keeping!Drop
    PROVE  RouteSound(route')
<1>1. CASE Keeping!Close
  BY <1>1, ClosedSound
  DEF Keeping!Close, RouteSound, OneKeeper, ClocksAgree, Feeding, Quieted,
      Keeping!Rests, None, Keeping!None
<1>2. CASE Keeping!Drop
  <2>1. /\ route.config.drops /\ ~route.calling
        /\ route' = [route EXCEPT !.it = None]
    BY <1>2 DEF Keeping!Drop, None, Keeping!None
  <2>2. route' \in RouteState
    BY <2>1, RouteUpdates DEF RouteSound
  <2>3. /\ route'.it = None /\ route'.keeper = route.keeper
        /\ route'.open = route.open /\ route'.config = route.config
        /\ route'.calling = route.calling
    BY <2>1 DEF RouteSound, RouteState
  <2> QED
    BY <2>1, <2>2, <2>3
    DEF RouteSound, OneKeeper, ClocksAgree, Feeding, Quieted
<1> QED
  BY <1>1, <1>2

LEMMA MachineKeeps ==
    ASSUME RouteSound(route), NEW cpu \in Cpus,
           Keeping!Migrate(cpu) \/ Keeping!Interrupt(cpu)
    PROVE  RouteSound(route')
<1>1. route \in RouteState
  BY DEF RouteSound
<1>2. CASE Keeping!Migrate(cpu)
  <2>1. route' = [route EXCEPT !.cpu = cpu]
    BY <1>2 DEF Keeping!Migrate
  <2>2. route' \in RouteState
    BY <1>1, <2>1, RouteUpdates
  <2>3. /\ route'.it = route.it /\ route'.keeper = route.keeper
        /\ route'.open = route.open /\ route'.config = route.config
        /\ route'.calling = route.calling /\ route'.short = route.short
        /\ route'.quiet = route.quiet /\ route'.expected = route.expected
    BY <1>1, <2>1 DEF RouteState
  <2> QED
    BY <2>2, <2>3
    DEF RouteSound, OneKeeper, ClocksAgree, Feeding, Quieted, Keeping!Rests
<1>3. CASE Keeping!Interrupt(cpu)
  <2> DEFINE b == [route.it.table EXCEPT !.since = @ \cup {cpu}]
             i == [route.it EXCEPT !.table = b]
  <2>1. route.it # None /\ route.it \in GapIterator
    BY <1>1, <1>3 DEF Keeping!Interrupt, RouteState, None, Keeping!None
  <2>2. b \in Table
    BY <2>1 DEF GapIterator, Table
  <2>3. route' = [route EXCEPT !.it = i]
    BY <1>1, <1>3, <2>1 DEF Keeping!Interrupt, RouteState, GapIterator, Table
  <2> HIDE DEF b
  <2>4. /\ i \in GapIterator /\ i.gap = route.it.gap /\ i.gapless = route.it.gapless
        /\ i.elapsed = route.it.elapsed /\ i.state = route.it.state
    BY <2>1, <2>2 DEF GapIterator
  <2>5. i # None
    BY <2>4, NoneApart
  <2> HIDE DEF i
  <2>6. route' \in RouteState
    BY <1>1, <2>3, <2>4, RouteUpdates
  <2>7. /\ route'.it = i /\ route'.keeper = route.keeper
        /\ route'.open = route.open /\ route'.config = route.config
        /\ route'.calling = route.calling /\ route'.short = route.short
        /\ route'.quiet = route.quiet /\ route'.expected = route.expected
    BY <1>1, <2>3 DEF RouteState
  <2> QED
    BY <2>1, <2>4, <2>5, <2>6, <2>7
    DEF RouteSound, OneKeeper, ClocksAgree, Feeding, Quieted, Keeping!Rests,
        None, Keeping!None
<1> QED
  BY <1>2, <1>3

LEMMA TickKeeps ==
    ASSUME RouteSound(route), Keeping!Tick
    PROVE  RouteSound(route')
<1> DEFINE e == IF route.elapsed = -1 THEN route.elapsed
                ELSE Keeping!AtMost(route.elapsed + 1, RouteCadence)
           q == IF route.short > 0 THEN Keeping!AtMost(route.quiet + 1, GaplessLimit)
                ELSE route.quiet
           c == IF route.it.elapsed = -1 THEN route.it.elapsed
                ELSE Keeping!AtMost(route.it.elapsed + 1, GaplessLimit)
           i == IF route.it = None THEN route.it
                ELSE [route.it EXCEPT !.elapsed = c]
           u1 == [route EXCEPT !.elapsed = e]
           u2 == [u1 EXCEPT !.quiet = q]
<1>1. /\ route \in RouteState /\ route.it \in {None} \cup GapIterator
      /\ route.short \in 0..GaplessLimit /\ route.quiet \in 0..GaplessLimit
      /\ route.elapsed \in Int
  BY DEF RouteSound, RouteState
<1>2. e \in Int
  BY <1>1, RouteLimits DEF Keeping!AtMost
<1>3. q \in 0..GaplessLimit
  BY <1>1, RouteLimits DEF Keeping!AtMost
<1>4. CASE route.it # None
  <2>1. /\ route.it \in GapIterator /\ route.it.elapsed \in (-1)..GaplessLimit
    BY <1>1, <1>4 DEF GapIterator
  <2>2. c \in (-1)..GaplessLimit
    BY <2>1, RouteLimits DEF Keeping!AtMost
  <2>3. /\ i \in GapIterator /\ i.elapsed = c /\ i.gap = route.it.gap
        /\ i.gapless = route.it.gapless /\ i.state = route.it.state
    <3> HIDE DEF c
    <3> QED
      BY <1>4, <2>1, <2>2 DEF GapIterator
  <2>4. /\ route.it.elapsed = -1 <=> c = -1
        /\ route.it.elapsed # -1 /\ route.quiet <= route.it.elapsed => q <= c
        /\ route.short = 0 => q = route.quiet
    BY <1>1, <2>1, RouteLimits DEF Keeping!AtMost
  <2>5. i # None
    BY <2>3, NoneApart
  <2>6. route' = [route EXCEPT !.elapsed = e, !.quiet = q, !.it = i]
    BY DEF Keeping!Tick, Keeping!Aged, None, Keeping!None
  <2> HIDE DEF e, q, i, c
  <2>7. /\ route'.it = i /\ route'.keeper = route.keeper
        /\ route'.open = route.open /\ route'.config = route.config
        /\ route'.calling = route.calling /\ route'.short = route.short
        /\ route'.quiet = q /\ route'.expected = route.expected
    BY <1>1, <2>6 DEF RouteState
  <2>8. route' \in RouteState
    <3>1. u1 \in RouteState
      BY <1>1, <1>2, RouteUpdates
    <3> HIDE DEF u1
    <3>2. u2 \in RouteState
      BY <3>1, <1>3, RouteUpdates
    <3>3. route' = [u2 EXCEPT !.it = i]
      BY <2>6 DEF u1
    <3> HIDE DEF u2
    <3> QED
      BY <3>2, <3>3, <2>3, RouteUpdates
  <2>9. ClocksAgree(route')
    <3>1. /\ route.short = i.gapless
          /\ c = -1 => route.short = 0
          /\ route.short = 0 => q = 0
          /\ ~i.gap => route.short = 0
      BY <1>4, <2>3, <2>4 DEF RouteSound, ClocksAgree
    <3>2. route.short > 0 => q <= c
      BY <1>1, <1>4, <2>4 DEF RouteSound, ClocksAgree
    <3> QED
      BY <2>3, <2>7, <3>1, <3>2 DEF ClocksAgree
  <2> QED
    BY <1>4, <2>3, <2>5, <2>7, <2>8, <2>9
    DEF RouteSound, OneKeeper, Feeding, Quieted, Keeping!Rests,
        None, Keeping!None
<1>5. CASE route.it = None
  <2>1. route' = [route EXCEPT !.elapsed = e, !.quiet = q, !.it = None]
    BY <1>1, <1>5 DEF Keeping!Tick, None, Keeping!None, RouteState
  <2> HIDE DEF e, q
  <2>2. /\ route'.it = None /\ route'.keeper = route.keeper
        /\ route'.open = route.open /\ route'.config = route.config
        /\ route'.calling = route.calling
    BY <1>1, <2>1 DEF RouteState
  <2>3. route' \in RouteState
    <3>1. u1 \in RouteState
      BY <1>1, <1>2, RouteUpdates
    <3> HIDE DEF u1
    <3>2. u2 \in RouteState
      BY <3>1, <1>3, RouteUpdates
    <3>3. route' = [u2 EXCEPT !.it = None]
      BY <2>1 DEF u1
    <3> HIDE DEF u2
    <3> QED
      BY <3>2, <3>3, RouteUpdates
  <2> QED
    BY <1>5, <2>2, <2>3
    DEF RouteSound, OneKeeper, ClocksAgree, Feeding, Quieted, Keeping!Rests,
        None, Keeping!None
<1> QED
  BY <1>4, <1>5

LEMMA RouteInvInit == ControlInit => RouteInv
<1> SUFFICES ASSUME ControlInit, route # None
             PROVE  RouteSound(route)
  BY DEF RouteInv
<1>1. PICK config \in RouteConfigs : Keeping!RouteInit(config)
  BY OnePart
<1>2. PICK cpu \in Cpus :
        route = [config |-> config, cpu |-> cpu, keeper |-> None, open |-> 0,
                 interrupts |-> {}, elapsed |-> -1, batches |-> 0,
                 delivered |-> FALSE, it |-> None, calling |-> FALSE,
                 short |-> 0, quiet |-> 0, expected |-> FALSE]
  BY <1>1 DEF Keeping!RouteInit, None, Keeping!None
<1>3. route \in RouteState
  BY <1>1, <1>2, RouteLimits DEF RouteState
<1> QED
  BY <1>2, <1>3
  DEF RouteSound, OneKeeper, ClocksAgree, Feeding, Quieted, Keeping!Rests,
      None, Keeping!None

LEMMA RouteInvStep == RouteInv /\ [ControlNext]_controlVars => RouteInv'
<1> SUFFICES ASSUME RouteInv, [ControlNext]_controlVars
             PROVE  RouteInv'
  OBVIOUS
<1>1. CASE UNCHANGED route
  BY <1>1 DEF RouteInv
<1>2. CASE route # None /\ Keeping!RouteNext
  <2>1. RouteSound(route)
    BY <1>2 DEF RouteInv
  <2>2. CASE \E long \in BOOLEAN : Keeping!CallNext(long) \/ Keeping!KeeperFails(long)
    BY <2>1, <2>2, CallNextKeeps, KeeperFailsKeeps DEF RouteInv
  <2>3. CASE Keeping!Answer \/ Keeping!Iterate
    BY <2>1, <2>3, AnswerKeeps, IterateKeeps DEF RouteInv
  <2>4. CASE Keeping!Close \/ Keeping!Drop
    BY <2>1, <2>4, CloseDropKeep DEF RouteInv
  <2>5. CASE Keeping!Tick
    BY <2>1, <2>5, TickKeeps DEF RouteInv
  <2>6. CASE \E cpu \in Cpus : Keeping!Migrate(cpu) \/ Keeping!Interrupt(cpu)
    BY <2>1, <2>6, MachineKeeps DEF RouteInv
  <2> QED
    BY <1>2, <2>2, <2>3, <2>4, <2>5, <2>6 DEF Keeping!RouteNext
<1> QED
  BY <1>1, <1>2, PartsApart

(* control/machine_keeping.py:189: whatever the CPUs, the limits and the   *)
(* changes of route, a keeper that nobody feeds, or that had short gaps    *)
(* for long enough, has been asked to rest, and the loader never has two.  *)
THEOREM KeepersRest == ControlSpec => []KeeperRests
<1>1. RouteInv => KeeperRests
  BY DEF RouteInv, RouteSound, OneKeeper, Quieted, KeeperRests,
         Keeping!KeeperRests, None, Keeping!None
<1> QED
  BY <1>1, RouteInvInit, RouteInvStep, PTL DEF ControlSpec

-----------------------------------------------------------------------------
(* The width of the pool.                                                  *)

LEMMA WidthLimits ==
    /\ CadenceBatches \in Nat /\ CadenceBatches > 0
    /\ CadenceTicks \in Nat /\ CadenceTicks > 0
    /\ StepClip \in Nat /\ StepClip > 0
    /\ Hysteresis \in Nat /\ Hysteresis > 0
    /\ WidthLength \in Nat
    /\ \A config \in WidthConfigs : config.cores \in Nat /\ config.cores > 0
    /\ Hysteresis * CadenceBatches \in Nat
  BY ControlAssumption DEF ControlAssumption

ControllerState ==
    [width : Nat, elapsed : Int, batches : 0..CadenceBatches, stalled : BOOLEAN,
     quiet : 0..Hysteresis]

(* Records, whatever most of their fields hold.                            *)
FrontierShape(it) ==
    it = [f \in {"base", "depth", "ordinal", "routes", "stalled", "calling",
                 "sent", "done", "ready"} |-> it[f]]

WidthShape(c) ==
    c = [f \in {"config", "controller", "it", "calm", "fed", "cause"} |-> c[f]]

(* The deliveries that did not wait, since the last that did, are at least *)
(* those of the quiet cadences and of this one.                            *)
CalmCounts(c) ==
    ~c.controller.stalled =>
        c.calm >= Width!AtMost(c.controller.quiet * CadenceBatches
                                   + c.controller.batches,
                               Hysteresis * CadenceBatches)

(* A fed decision that released nothing is a quiet cadence.                *)
FedCounts(c) ==
    c.config.batch = 1 =>
        \/ c.controller.width = 1
        \/ c.fed <= c.controller.quiet /\ c.fed < Hysteresis

Routing(c) ==
    c.it # None =>
        /\ FrontierShape(c.it) /\ c.it.stalled \in BOOLEAN
        /\ c.it.routes = c.controller.width

WidthSound(c) ==
    /\ WidthShape(c)
    /\ c.config \in WidthConfigs
    /\ c.controller \in ControllerState
    /\ c.controller.width \in 1..c.config.cores
    /\ c.calm \in Nat /\ c.fed \in Nat
    /\ Routing(c) /\ CalmCounts(c) /\ FedCounts(c)

WidthInv == control # None => WidthSound(control)

LEMMA FrontierNotNone == \A it : FrontierShape(it) => it # None
<1>1. DOMAIN None = {"none"}
  BY DEF None
<1>2. ASSUME NEW it, FrontierShape(it)
      PROVE  "base" \in DOMAIN it
  BY <1>2, Zenon DEF FrontierShape
<1> QED
  BY <1>1, <1>2

(* A step that moves the frontier alone.                                   *)
LEMMA FrontierMoves ==
    ASSUME WidthSound(control), NEW it, FrontierShape(it), it.stalled \in BOOLEAN,
           it.routes = control.controller.width,
           control' = [control EXCEPT !.it = it, !.cause = "none"]
    PROVE  /\ WidthSound(control')
           /\ control'.controller = control.controller
<1>1. /\ control'.it = it /\ control'.controller = control.controller
      /\ control'.config = control.config /\ control'.calm = control.calm
      /\ control'.fed = control.fed
  BY DEF WidthSound, WidthShape
<1>2. WidthShape(control')
  BY DEF WidthSound, WidthShape
<1> QED
  BY <1>1, <1>2
  DEF WidthSound, Routing, CalmCounts, FedCounts

LEMMA FillKeeps ==
    ASSUME NEW it, FrontierShape(it)
    PROVE  LET t == Width!FilledFrom(it)
           IN  FrontierShape(t) /\ t.routes = it.routes /\ t.stalled = it.stalled
                 /\ t.base = it.base
  BY DEF Width!FilledFrom, FrontierShape

(* The iterator's steps between its deliveries.                            *)
LEMMA FrontierStepKeeps ==
    ASSUME WidthSound(control), control.it # None,
           \/ Width!CallNext \/ Width!Poll \/ Width!Wait
           \/ \E w \in Width!Workers : Width!Evaluate(w)
    PROVE  WidthSound(control') /\ control'.controller = control.controller
<1> DEFINE it == control.it
<1>1. /\ FrontierShape(it) /\ it.stalled \in BOOLEAN
      /\ it.routes = control.controller.width /\ WidthShape(control)
  BY DEF WidthSound, Routing
<1>2. CASE Width!CallNext
  <2> DEFINE n == [it EXCEPT !.calling = TRUE]
  <2>1. control' = [control EXCEPT !.it = n, !.cause = "none"]
    BY <1>1, <1>2 DEF Width!CallNext, WidthShape, FrontierShape
  <2>2. FrontierShape(n) /\ n.stalled = it.stalled /\ n.routes = it.routes
    BY <1>1 DEF FrontierShape
  <2> HIDE DEF n
  <2> QED
    BY <1>1, <2>1, <2>2, FrontierMoves
<1>3. CASE Width!Poll
  <2> DEFINE d == it.done \ Width!Received(it)
             r == it.ready \cup Width!Received(it)
             n == [it EXCEPT !.done = d, !.ready = r]
  <2>1. control' = [control EXCEPT !.it = n, !.cause = "none"]
    BY <1>1, <1>3 DEF Width!Poll, WidthShape, FrontierShape
  <2>2. FrontierShape(n) /\ n.stalled = it.stalled /\ n.routes = it.routes
    BY <1>1 DEF FrontierShape
  <2> HIDE DEF n
  <2> QED
    BY <1>1, <2>1, <2>2, FrontierMoves
<1>4. CASE Width!Wait
  <2> DEFINE g == Width!Grown(control.config, it)
             n == [it EXCEPT !.stalled = TRUE, !.depth = g]
  <2>1. control' = [control EXCEPT !.it = n, !.cause = "none"]
    BY <1>1, <1>4 DEF Width!Wait, WidthShape, FrontierShape
  <2>2. FrontierShape(n) /\ n.stalled = TRUE /\ n.routes = it.routes
    BY <1>1 DEF FrontierShape
  <2> HIDE DEF n
  <2> QED
    BY <1>1, <2>1, <2>2, FrontierMoves
<1>5. CASE \E w \in Width!Workers : Width!Evaluate(w)
  <2>1. PICK w \in Width!Workers : Width!Evaluate(w)
    BY <1>5
  <2> DEFINE mine == {p \in Width!Positions : it.sent[p] = w} \ (it.done \cup it.ready)
             d == it.done \cup {Width!Min(mine)}
             n == [it EXCEPT !.done = d]
  <2>2. control' = [control EXCEPT !.it = n, !.cause = "none"]
    BY <1>1, <2>1 DEF Width!Evaluate, WidthShape, FrontierShape
  <2>3. FrontierShape(n) /\ n.stalled = it.stalled /\ n.routes = it.routes
    BY <1>1 DEF FrontierShape
  <2> HIDE DEF n
  <2> QED
    BY <1>1, <2>2, <2>3, FrontierMoves
<1> QED
  BY <1>2, <1>3, <1>4, <1>5

LEMMA IteratorKeeps ==
    ASSUME WidthSound(control), Width!Iterate \/ Width!Finish
    PROVE  WidthSound(control') /\ control'.controller = control.controller
<1>1. CASE Width!Iterate
  <2> DEFINE f == Width!NewFrontier(control.config, control.controller.width)
             n == Width!FilledFrom(f)
  <2>1. FrontierShape(f) /\ f.stalled = FALSE /\ f.routes = control.controller.width
    BY DEF Width!NewFrontier, FrontierShape
  <2> HIDE DEF f
  <2>2. FrontierShape(n) /\ n.stalled \in BOOLEAN /\ n.routes = control.controller.width
    BY <2>1, FillKeeps
  <2>3. control' = [control EXCEPT !.it = n, !.cause = "none"]
    BY <1>1 DEF Width!Iterate, f
  <2> HIDE DEF n
  <2> QED
    BY <2>2, <2>3, FrontierMoves
<1>2. CASE Width!Finish
  <2>1. control' = [control EXCEPT !.it = None, !.cause = "none"]
    BY <1>2 DEF Width!Finish, None, Width!None
  <2>2. /\ control'.it = None /\ control'.controller = control.controller
        /\ control'.config = control.config /\ control'.calm = control.calm
        /\ control'.fed = control.fed
    BY <2>1 DEF WidthSound, WidthShape
  <2>3. WidthShape(control')
    BY <2>1 DEF WidthSound, WidthShape
  <2> QED
    BY <2>2, <2>3 DEF WidthSound, Routing, CalmCounts, FedCounts
<1> QED
  BY <1>1, <1>2

LEMMA SameSize == \A S : Width!Cardinality(S) = Cardinality(S)
  BY Zenon DEF Width!Cardinality, Cardinality

LEMMA FlightCounted == \A it : Width!Cardinality(Width!Occupied(it)) \in Nat
<1>1. IsFiniteSet(Width!Positions)
  BY WidthLimits, FS_Interval DEF Width!Positions
<1>2. \A it : IsFiniteSet(Width!Occupied(it))
  BY <1>1, FS_Subset DEF Width!Occupied
<1> QED
  BY <1>2, FS_CardinalityType, SameSize

(* What the controller has counted when a delivery comes.                  *)
LEMMA CountedMore ==
    ASSUME NEW c \in ControllerState, NEW dt \in {0, 1}, NEW b \in BOOLEAN
    PROVE  LET n == Width!Counted(c, dt, b)
           IN  /\ n \in ControllerState /\ n.width = c.width /\ n.quiet = c.quiet
               /\ n.batches = Width!AtMost(c.batches + 1, CadenceBatches)
               /\ n.stalled = (c.stalled \/ b)
<1> DEFINE e == IF c.elapsed = -1 THEN 0
                ELSE Width!AtMost(c.elapsed + dt, CadenceTicks)
           m == Width!AtMost(c.batches + 1, CadenceBatches)
           z == Width!AnyStall(c.stalled, b)
           n == [c EXCEPT !.elapsed = e, !.batches = m, !.stalled = z]
<1>1. Width!Counted(c, dt, b) = n
  BY DEF Width!Counted
<1>2. e \in Int /\ m \in 0..CadenceBatches
  BY WidthLimits DEF ControllerState, Width!AtMost
<1>3. z = (c.stalled \/ b) /\ z \in BOOLEAN
  BY DEF Width!AnyStall, ControllerState
<1> HIDE DEF e, m, z
<1>4. n \in ControllerState
  BY <1>2, <1>3 DEF ControllerState
<1>5. n.width = c.width /\ n.quiet = c.quiet /\ n.batches = m /\ n.stalled = z
  BY DEF ControllerState
<1> QED
  BY <1>1, <1>3, <1>4, <1>5 DEF m

LEMMA Cleared ==
    ASSUME NEW x \in ControllerState
    PROVE  LET n == [x EXCEPT !.elapsed = 0, !.batches = 0, !.stalled = FALSE]
           IN  /\ n \in ControllerState /\ n.width = x.width /\ n.quiet = x.quiet
               /\ n.batches = 0 /\ n.stalled = FALSE
<1> DEFINE n == [x EXCEPT !.elapsed = 0, !.batches = 0, !.stalled = FALSE]
<1>1. /\ n.width = x.width /\ n.quiet = x.quiet
      /\ n.batches = 0 /\ n.stalled = FALSE
  BY DEF ControllerState
<1>2. 0 \in Int /\ 0 \in 0..CadenceBatches /\ FALSE \in BOOLEAN
  BY WidthLimits
<1>3. n \in ControllerState
  BY <1>2 DEF ControllerState
<1> QED
  BY <1>1, <1>3

(* And what a decision makes of it.                                        *)
LEMMA DecidedNext ==
    ASSUME NEW config \in WidthConfigs, NEW c \in ControllerState,
           c.width \in 1..config.cores, NEW over \in BOOLEAN,
           NEW starvation \in BOOLEAN
    PROVE  LET n == Width!Decided(config, c, over, starvation)
           IN  /\ n \in ControllerState /\ n.width \in 1..config.cores
               /\ n.batches = 0 /\ n.stalled = FALSE
               /\ n.quiet = 0
                  \/ (~over /\ ~starvation
                       /\ n.quiet = Width!AtMost(c.quiet + 1, Hysteresis))
               /\ n.width < c.width =>
                      over \/ (~starvation /\ c.quiet + 1 >= Hysteresis)
               /\ (~over /\ ~starvation /\ n.width = c.width) =>
                      c.width = 1 \/ (c.quiet + 1 < Hysteresis
                                      /\ n.quiet = c.quiet + 1)
<1> DEFINE x == IF over THEN [c EXCEPT !.width = Width!Shrunk(@), !.quiet = 0]
                ELSE IF starvation THEN Width!Widened(config, c)
                ELSE Width!Released(c)
           n == [x EXCEPT !.elapsed = 0, !.batches = 0, !.stalled = FALSE]
<1>1. /\ config.cores \in Nat /\ config.cores > 0 /\ StepClip \in Nat
      /\ StepClip > 0 /\ Hysteresis \in Nat /\ Hysteresis > 0
      /\ c.quiet \in 0..Hysteresis /\ c.width \in Nat
  BY WidthLimits DEF ControllerState
<1> DEFINE shrunk == Width!Shrunk(c.width)
           wider == Width!AtMost(c.width + StepClip, config.cores)
           more == Width!AtMost(c.quiet + 1, Hysteresis)
<1>2. /\ shrunk \in 1..config.cores /\ shrunk \in Nat
      /\ c.width > 1 => shrunk < c.width
      /\ c.width = 1 => shrunk = 1
  BY <1>1 DEF Width!Shrunk
<1>3. wider \in 1..config.cores /\ wider \in Nat /\ wider >= c.width
  BY <1>1 DEF Width!AtMost
<1>4. more \in 0..Hysteresis /\ (c.quiet + 1 < Hysteresis => more = c.quiet + 1)
  BY <1>1 DEF Width!AtMost
<1>5. 0 \in 0..Hysteresis /\ 0 \in 0..CadenceBatches
  BY WidthLimits
<1>6. x \in {[c EXCEPT !.width = shrunk, !.quiet = 0],
             [c EXCEPT !.width = wider, !.quiet = 0], [c EXCEPT !.quiet = more]}
  BY DEF Width!Widened, Width!Released
<1>7. CASE over
  <2>1. x = [c EXCEPT !.width = shrunk, !.quiet = 0]
    BY <1>7
  <2> HIDE DEF shrunk, x
  <2>2. x \in ControllerState /\ x.width = shrunk /\ x.quiet = 0
    BY <1>2, <1>5, <2>1 DEF ControllerState
  <2>3. /\ n \in ControllerState /\ n.width = shrunk /\ n.quiet = 0
        /\ n.batches = 0 /\ n.stalled = FALSE
    BY <2>2, Cleared
  <2> QED
    BY <1>2, <1>7, <2>3 DEF Width!Decided, x, shrunk
<1>8. CASE ~over /\ starvation
  <2>1. x = [c EXCEPT !.width = wider, !.quiet = 0]
    BY <1>8 DEF Width!Widened
  <2> HIDE DEF wider, x
  <2>2. x \in ControllerState /\ x.width = wider /\ x.quiet = 0
    BY <1>3, <1>5, <2>1 DEF ControllerState
  <2>3. /\ n \in ControllerState /\ n.width = wider /\ n.quiet = 0
        /\ n.batches = 0 /\ n.stalled = FALSE
    BY <2>2, Cleared
  <2>4. ~(n.width < c.width)
    BY <1>1, <1>3, <2>3
  <2> QED
    BY <1>3, <1>8, <2>3, <2>4 DEF Width!Decided, x, wider
<1>9. CASE ~over /\ ~starvation /\ c.quiet + 1 >= Hysteresis /\ c.width > 1
  <2>1. x = [c EXCEPT !.width = shrunk, !.quiet = 0]
    BY <1>9 DEF Width!Released
  <2> HIDE DEF shrunk, x
  <2>2. x \in ControllerState /\ x.width = shrunk /\ x.quiet = 0
    BY <1>2, <1>5, <2>1 DEF ControllerState
  <2>3. /\ n \in ControllerState /\ n.width = shrunk /\ n.quiet = 0
        /\ n.batches = 0 /\ n.stalled = FALSE
    BY <2>2, Cleared
  <2>4. n.width # c.width
    BY <1>1, <1>2, <1>9, <2>3
  <2> QED
    BY <1>2, <1>9, <2>3, <2>4 DEF Width!Decided, x, shrunk
<1>10. CASE ~over /\ ~starvation /\ ~(c.quiet + 1 >= Hysteresis /\ c.width > 1)
  <2>1. x = [c EXCEPT !.quiet = more]
    BY <1>10 DEF Width!Released
  <2> HIDE DEF more, x
  <2>2. x \in ControllerState /\ x.width = c.width /\ x.quiet = more
    BY <1>1, <1>4, <2>1 DEF ControllerState
  <2>3. /\ n \in ControllerState /\ n.width = c.width /\ n.quiet = more
        /\ n.batches = 0 /\ n.stalled = FALSE
    BY <2>2, Cleared
  <2>4. ~(n.width < c.width)
    BY <1>1, <2>3
  <2>5. c.width = 1 \/ (c.quiet + 1 < Hysteresis /\ n.quiet = c.quiet + 1)
    BY <1>1, <1>4, <1>10, <2>3
  <2> QED
    BY <1>1, <1>10, <2>3, <2>4, <2>5 DEF Width!Decided, x, more
<1> QED
  BY <1>7, <1>8, <1>9, <1>10

LEMMA QuietDeliveries ==
    ASSUME NEW q \in 0..Hysteresis
    PROVE  /\ q * CadenceBatches \in Nat /\ 0 * CadenceBatches = 0
           /\ q + 1 >= Hysteresis =>
                  q * CadenceBatches + CadenceBatches >= Hysteresis * CadenceBatches
           /\ Width!AtMost(q + 1, Hysteresis) * CadenceBatches
                  <= q * CadenceBatches + CadenceBatches
           /\ Width!AtMost(q + 1, Hysteresis) * CadenceBatches \in Nat
<1>1. /\ CadenceBatches \in Nat /\ Hysteresis \in Nat /\ q \in Nat /\ q <= Hysteresis
  BY WidthLimits
<1>2. (q + 1) * CadenceBatches = q * CadenceBatches + CadenceBatches
  BY <1>1
<1>3. \A m, n \in Nat : m <= n => m * CadenceBatches <= n * CadenceBatches
  BY <1>1
<1>4. \A m \in Nat : m * CadenceBatches \in Nat
  BY <1>1
<1>5. q + 1 >= Hysteresis =>
         q * CadenceBatches + CadenceBatches >= Hysteresis * CadenceBatches
  <2> HAVE q + 1 >= Hysteresis
  <2>1. Hysteresis * CadenceBatches <= (q + 1) * CadenceBatches
    BY <1>1, <1>3
  <2>2. /\ q * CadenceBatches \in Nat /\ Hysteresis * CadenceBatches \in Nat
        /\ (q + 1) * CadenceBatches \in Nat
    BY <1>1, <1>4
  <2> QED
    BY <1>2, <2>1, <2>2
<1>6. Width!AtMost(q + 1, Hysteresis) \in Nat /\ Width!AtMost(q + 1, Hysteresis) <= q + 1
  BY <1>1 DEF Width!AtMost
<1>7. Width!AtMost(q + 1, Hysteresis) * CadenceBatches <= (q + 1) * CadenceBatches
  BY <1>1, <1>3, <1>6
<1> QED
  BY <1>1, <1>2, <1>4, <1>5, <1>6, <1>7

Parked(c, n) ==
    /\ n.it # None => n.it.routes = n.controller.width
    /\ n.controller.width < c.controller.width =>
           n.cause = "bandwidth" \/ n.calm >= Hysteresis * CadenceBatches

LEMMA DeliverKeeps ==
    ASSUME WidthSound(control), NEW dt \in {0, 1}, NEW over \in BOOLEAN,
           Width!Deliver(dt, over)
    PROVE  WidthSound(control') /\ Parked(control, control')
<1> DEFINE config == control.config
           c == control.controller
           base == control.it.base + 1
           moved == [control.it EXCEPT !.base = base, !.calling = FALSE]
           it == Width!FilledFrom(moved)
           quieted == [it EXCEPT !.stalled = FALSE]
           flight == Width!Cardinality(Width!Occupied(it))
           seen == Width!Counted(c, dt, it.stalled)
           starvation == seen.stalled \/ flight < config.batch
           next == Width!Decided(config, seen, over, starvation)
           full == flight * config.batch >= config.batch
           calm == IF it.stalled THEN 0
                   ELSE Width!AtMost(control.calm + 1, Hysteresis * CadenceBatches)
           steady == ~over /\ ~seen.stalled /\ full /\ next.width = seen.width
           fed == IF steady THEN Width!AtMost(control.fed + 1, Hysteresis) ELSE 0
<1>1. /\ WidthShape(control) /\ config \in WidthConfigs /\ c \in ControllerState
      /\ c.width \in 1..config.cores /\ control.calm \in Nat /\ control.fed \in Nat
      /\ CalmCounts(control) /\ FedCounts(control) /\ control.it # None
      /\ FrontierShape(control.it) /\ control.it.stalled \in BOOLEAN
      /\ control.it.routes = c.width
  BY DEF WidthSound, Routing, Width!Deliver, None, Width!None
<1>2. FrontierShape(moved) /\ moved.stalled = control.it.stalled /\ moved.routes = c.width
  BY <1>1 DEF FrontierShape
<1>3. FrontierShape(it) /\ it.stalled \in BOOLEAN /\ it.routes = c.width
  <2> HIDE DEF moved
  <2> QED
    BY <1>1, <1>2, FillKeeps
<1>4. flight \in Nat
  BY FlightCounted
<1>5. \/ base = WidthLength
         /\ control' = [control EXCEPT !.it = quieted, !.cause = "none"]
      \/ ~Width!AtCadence(seen)
         /\ control' = [control EXCEPT !.controller = seen, !.calm = calm,
                                       !.cause = "none", !.it = quieted]
      \/ Width!AtCadence(seen)
         /\ control' = [control EXCEPT !.controller = next, !.calm = calm,
                             !.fed = fed,
                             !.cause = IF over THEN "bandwidth" ELSE "decision",
                             !.it = Width!Routed(quieted, next.width)]
  BY DEF Width!Deliver
<1> HIDE DEF it, flight
<1>6. FrontierShape(quieted) /\ quieted.stalled = FALSE /\ quieted.routes = c.width
  BY <1>3 DEF FrontierShape
<1>7. /\ seen \in ControllerState /\ seen.width = c.width /\ seen.quiet = c.quiet
      /\ seen.batches = Width!AtMost(c.batches + 1, CadenceBatches)
      /\ seen.stalled = (c.stalled \/ it.stalled)
  <2> DEFINE b == it.stalled
  <2>1. c \in ControllerState /\ b \in BOOLEAN
    BY <1>1, <1>3
  <2> HIDE DEF b, c
  <2>2. /\ Width!Counted(c, dt, b) \in ControllerState
        /\ Width!Counted(c, dt, b).width = c.width
        /\ Width!Counted(c, dt, b).quiet = c.quiet
        /\ Width!Counted(c, dt, b).batches = Width!AtMost(c.batches + 1, CadenceBatches)
        /\ Width!Counted(c, dt, b).stalled = (c.stalled \/ b)
    BY <2>1, CountedMore, SMTT(30)
  <2> QED
    BY <2>2 DEF b
<1> HIDE DEF quieted
<1>8. /\ c.batches \in 0..CadenceBatches /\ c.quiet \in 0..Hysteresis
      /\ Hysteresis * CadenceBatches \in Nat
      /\ c.quiet * CadenceBatches \in Nat /\ CadenceBatches \in Nat
      /\ CadenceBatches > 0
  BY <1>1, WidthLimits, QuietDeliveries DEF ControllerState
<1>9. calm \in Nat
  BY <1>1, <1>8 DEF Width!AtMost
<1>10. ~seen.stalled =>
          calm >= Width!AtMost(c.quiet * CadenceBatches + seen.batches,
                               Hysteresis * CadenceBatches)
  <2> HAVE ~seen.stalled
  <2>1. ~c.stalled /\ ~it.stalled
    BY <1>7
  <2>2. control.calm >= Width!AtMost(c.quiet * CadenceBatches + c.batches,
                                     Hysteresis * CadenceBatches)
    BY <1>1, <2>1 DEF CalmCounts
  <2>3. calm = Width!AtMost(control.calm + 1, Hysteresis * CadenceBatches)
    BY <2>1
  <2> HIDE DEF calm, seen
  <2> DEFINE m == c.quiet * CadenceBatches
             h == Hysteresis * CadenceBatches
  <2>4. m \in Nat /\ h \in Nat
    BY <1>8
  <2> HIDE DEF m, h
  <2>5. control.calm >= Width!AtMost(m + c.batches, h) /\ calm = Width!AtMost(control.calm + 1, h)
    BY <2>2, <2>3 DEF m, h
  <2>6. calm >= Width!AtMost(m + seen.batches, h)
    BY <1>1, <1>7, <1>8, <2>4, <2>5 DEF Width!AtMost
  <2> QED
    BY <2>6 DEF m, h
<1>11. CASE control' = [control EXCEPT !.it = quieted, !.cause = "none"]
  <2>1. WidthSound(control') /\ control'.controller = control.controller
    BY <1>6, <1>11, FrontierMoves
  <2>2. ~(c.width < c.width)
    BY <1>1
  <2> QED
    BY <2>1, <2>2 DEF Parked, WidthSound, Routing
<1>12. CASE control' = [control EXCEPT !.controller = seen, !.calm = calm,
                                       !.cause = "none", !.it = quieted]
  <2> HIDE DEF seen, calm
  <2>1. /\ control'.it = quieted /\ control'.controller = seen
        /\ control'.config = config /\ control'.calm = calm
        /\ control'.fed = control.fed
    BY <1>1, <1>12 DEF WidthShape
  <2>2. WidthShape(control')
    BY <1>1, <1>12 DEF WidthShape
  <2>3. CalmCounts(control')
    BY <1>7, <1>10, <2>1 DEF CalmCounts
  <2>4. FedCounts(control')
    BY <1>1, <1>7, <2>1 DEF FedCounts
  <2>5. Routing(control')
    BY <1>6, <1>7, <2>1 DEF Routing
  <2>6. WidthSound(control')
    BY <1>1, <1>7, <1>9, <2>1, <2>2, <2>3, <2>4, <2>5 DEF WidthSound
  <2>7. ~(seen.width < c.width)
    BY <1>1, <1>7
  <2> QED
    BY <2>1, <2>5, <2>6, <2>7 DEF Parked, Routing
<1>13. CASE /\ Width!AtCadence(seen)
            /\ control' = [control EXCEPT !.controller = next, !.calm = calm,
                             !.fed = fed,
                             !.cause = IF over THEN "bandwidth" ELSE "decision",
                             !.it = Width!Routed(quieted, next.width)]
  <2> DEFINE n == Width!Routed(quieted, next.width)
             cause == IF over THEN "bandwidth" ELSE "decision"
             more == Width!AtMost(c.quiet + 1, Hysteresis)
  <2>1. starvation \in BOOLEAN
    OBVIOUS
  <2>2. /\ next \in ControllerState /\ next.width \in 1..config.cores
        /\ next.batches = 0 /\ next.stalled = FALSE
        /\ next.quiet = 0 \/ (~over /\ ~starvation /\ next.quiet = more)
        /\ next.width < c.width => over \/ (~starvation /\ c.quiet + 1 >= Hysteresis)
        /\ (~over /\ ~starvation /\ next.width = c.width) =>
               c.width = 1 \/ (c.quiet + 1 < Hysteresis /\ next.quiet = c.quiet + 1)
    <3> DEFINE v == seen
    <3>1. /\ v \in ControllerState /\ v.width = c.width /\ v.quiet = c.quiet
          /\ v.width \in 1..config.cores
      BY <1>1, <1>7
    <3>2. config \in WidthConfigs
      BY <1>1
    <3> HIDE DEF starvation, v, config
    <3> DEFINE chosen == Width!Decided(config, v, over, starvation)
    <3>3. /\ chosen \in ControllerState /\ chosen.width \in 1..config.cores
          /\ chosen.batches = 0 /\ chosen.stalled = FALSE
          /\ chosen.quiet = 0
             \/ (~over /\ ~starvation
                  /\ chosen.quiet = Width!AtMost(v.quiet + 1, Hysteresis))
          /\ chosen.width < v.width =>
                 over \/ (~starvation /\ v.quiet + 1 >= Hysteresis)
          /\ (~over /\ ~starvation /\ chosen.width = v.width) =>
                 v.width = 1 \/ (v.quiet + 1 < Hysteresis /\ chosen.quiet = v.quiet + 1)
      BY <2>1, <3>1, <3>2, DecidedNext, Zenon
    <3>4. next = chosen
      BY DEF v
    <3> HIDE DEF chosen, next
    <3> QED
      BY <3>1, <3>3, <3>4
  <2>3. seen.batches = CadenceBatches
    BY <1>7, <1>8, <1>13 DEF Width!AtCadence, Width!AtMost
  <2>4. ~starvation => ~seen.stalled
    OBVIOUS
  <2>5. fed \in Nat /\ (~steady => fed = 0)
    <3> HIDE DEF steady
    <3> QED
      BY <1>1, WidthLimits DEF Width!AtMost
  <2>6. config.batch = 1 /\ steady => ~starvation
    BY <1>4
  <2>7. steady => ~over /\ next.width = c.width
    BY <1>7
  <2>8. control' = [control EXCEPT !.controller = next, !.calm = calm, !.fed = fed,
                                   !.cause = cause, !.it = n]
    BY <1>13
  <2>9. fed = IF steady THEN Width!AtMost(control.fed + 1, Hysteresis) ELSE 0
    OBVIOUS
  <2> HIDE DEF next, calm, fed, n, cause, steady, starvation, seen
  <2>10. /\ control'.it = n /\ control'.controller = next
         /\ control'.config = config /\ control'.calm = calm
         /\ control'.fed = fed /\ control'.cause = cause
    BY <1>1, <2>8 DEF WidthShape
  <2>11. WidthShape(control')
    BY <1>1, <2>8 DEF WidthShape
  <2>12. FrontierShape(n) /\ n.stalled = FALSE /\ n.routes = next.width
    BY <1>6 DEF n, Width!Routed, FrontierShape
  <2>13. ~starvation =>
            calm >= Width!AtMost(c.quiet * CadenceBatches + CadenceBatches,
                                 Hysteresis * CadenceBatches)
    BY <1>10, <2>3, <2>4
  <2>14. CalmCounts(control')
    <3>1. calm >= Width!AtMost(next.quiet * CadenceBatches, Hysteresis * CadenceBatches)
      <4>1. CASE next.quiet = 0
        BY <1>8, <1>9, <4>1, QuietDeliveries DEF Width!AtMost
      <4>2. CASE ~starvation /\ next.quiet = more
        <5> DEFINE m == c.quiet * CadenceBatches
                   h == Hysteresis * CadenceBatches
                   k == more * CadenceBatches
        <5>1. m \in Nat /\ h \in Nat /\ k \in Nat /\ k <= m + CadenceBatches
          BY <1>8, QuietDeliveries
        <5>2. calm >= Width!AtMost(m + CadenceBatches, h)
          BY <2>13, <4>2
        <5> HIDE DEF m, h, k, more
        <5>3. calm >= Width!AtMost(k, h)
          BY <1>8, <1>9, <5>1, <5>2 DEF Width!AtMost
        <5> QED
          BY <4>2, <5>3 DEF k, h
      <4> QED
        BY <2>2, <4>1, <4>2
    <3>2. next.quiet * CadenceBatches + next.batches = next.quiet * CadenceBatches
      <4>1. next.quiet \in 0..Hysteresis
        BY <2>2 DEF ControllerState
      <4>2. next.quiet * CadenceBatches \in Nat
        BY <4>1, QuietDeliveries
      <4> QED
        BY <2>2, <4>2
    <3> QED
      BY <2>10, <3>1, <3>2 DEF CalmCounts
  <2>15. FedCounts(control')
    <3> SUFFICES ASSUME config.batch = 1, next.width # 1
                 PROVE  fed <= next.quiet /\ fed < Hysteresis
      BY <2>10 DEF FedCounts
    <3>1. next.quiet \in 0..Hysteresis
      BY <2>2 DEF ControllerState
    <3>2. CASE ~steady
      BY <2>5, <3>1, <3>2, WidthLimits
    <3>3. CASE steady
      <4>1. c.width # 1 /\ c.quiet + 1 < Hysteresis /\ next.quiet = c.quiet + 1
        BY <2>2, <2>6, <2>7, <3>3
      <4>2. control.fed <= c.quiet
        BY <1>1, <4>1 DEF FedCounts
      <4> QED
        BY <1>1, <1>8, <2>9, <3>3, <4>1, <4>2, WidthLimits DEF Width!AtMost
    <3> QED
      BY <3>2, <3>3
  <2>16. Routing(control')
    BY <2>10, <2>12 DEF Routing
  <2>17. WidthSound(control')
    BY <1>1, <1>9, <2>2, <2>5, <2>10, <2>11, <2>14, <2>15, <2>16 DEF WidthSound
  <2>18. next.width < c.width => cause = "bandwidth" \/ calm >= Hysteresis * CadenceBatches
    <3> SUFFICES ASSUME next.width < c.width, ~over
                 PROVE  calm >= Hysteresis * CadenceBatches
      BY DEF cause
    <3>1. ~starvation /\ c.quiet + 1 >= Hysteresis
      BY <2>2
    <3>2. c.quiet * CadenceBatches + CadenceBatches >= Hysteresis * CadenceBatches
      BY <1>8, <3>1, QuietDeliveries
    <3>3. calm >= Width!AtMost(c.quiet * CadenceBatches + CadenceBatches,
                               Hysteresis * CadenceBatches)
      BY <2>13, <3>1
    <3> QED
      BY <1>8, <1>9, <3>2, <3>3 DEF Width!AtMost
  <2> QED
    BY <2>10, <2>12, <2>17, <2>18 DEF Parked
<1> QED
  BY <1>5, <1>11, <1>12, <1>13

LEMMA WidthInvInit == ControlInit => WidthInv
<1> SUFFICES ASSUME ControlInit, control # None
             PROVE  WidthSound(control)
  BY DEF WidthInv
<1>1. PICK config \in WidthConfigs : Width!WidthInit(config)
  BY OnePart
<1> DEFINE c == [width |-> config.cores, elapsed |-> -1, batches |-> 0,
                 stalled |-> FALSE, quiet |-> 0]
<1>2. control = [config |-> config, controller |-> c, it |-> None,
                 calm |-> 0, fed |-> 0, cause |-> "none"]
  BY <1>1 DEF Width!WidthInit, Width!BuiltController, None, Width!None
<1>3. c \in ControllerState /\ c.width \in 1..config.cores
  BY WidthLimits DEF ControllerState
<1>4. c.stalled = FALSE /\ c.quiet = 0 /\ c.batches = 0
  OBVIOUS
<1> HIDE DEF c
<1>5. /\ control.config = config /\ control.controller = c /\ control.it = None
      /\ control.calm = 0 /\ control.fed = 0 /\ WidthShape(control)
  BY <1>2 DEF WidthShape
<1>6. CalmCounts(control)
  BY <1>4, <1>5, WidthLimits DEF CalmCounts, Width!AtMost
<1> QED
  BY <1>3, <1>4, <1>5, <1>6, WidthLimits DEF WidthSound, Routing, FedCounts

LEMMA WidthInvStep ==
    ASSUME WidthInv, [ControlNext]_controlVars
    PROVE  WidthInv' /\ (control = None \/ control' = control \/ Parked(control, control'))
<1>1. CASE UNCHANGED control
  BY <1>1 DEF WidthInv
<1>2. CASE control # None /\ Width!WidthNext
  <2>1. WidthSound(control)
    BY <1>2 DEF WidthInv
  <2>2. ASSUME WidthSound(control'), control'.controller = control.controller
        PROVE  Parked(control, control')
    <3>1. control.controller.width \in Nat
      BY <2>1 DEF WidthSound, ControllerState
    <3> QED
      BY <2>2, <3>1 DEF WidthSound, Routing, Parked
  <2>3. CASE Width!Iterate \/ Width!Finish
    BY <2>1, <2>2, <2>3, IteratorKeeps DEF WidthInv
  <2>4. CASE \/ Width!CallNext \/ Width!Poll \/ Width!Wait
             \/ \E w \in Width!Workers : Width!Evaluate(w)
    <3>1. control.it # None
      BY <2>4 DEF Width!CallNext, Width!Poll, Width!Wait, Width!Evaluate, None, Width!None
    <3> QED
      BY <2>1, <2>2, <2>4, <3>1, FrontierStepKeeps DEF WidthInv
  <2>5. CASE \E dt \in {0, 1}, over \in BOOLEAN : Width!Deliver(dt, over)
    BY <2>1, <2>5, DeliverKeeps DEF WidthInv
  <2> QED
    BY <1>2, <2>3, <2>4, <2>5
    DEF Width!WidthNext, Width!WidthConsumerStep, Width!WidthWorkerStep
<1> QED
  BY <1>1, <1>2, PartsApart

(* control/controller.py:23, its second half, of commands that are         *)
(* samples: whatever the workers, the cadence, the clipping and the        *)
(* hysteresis, a consumer that was fed for hysteresis cadences in a row    *)
(* has one route left or has just been given one less.                     *)
THEOREM RoutesAreReleased == ControlSpec => []RoutesReleased
<1>1. WidthInv => RoutesReleased
  <2> SUFFICES ASSUME WidthInv, control # None, control.config.batch = 1
               PROVE  Width!RoutesReleased
    BY DEF RoutesReleased
  <2> QED
    BY DEF WidthInv, WidthSound, FedCounts, Width!RoutesReleased
<1>2. WidthInv /\ [ControlNext]_controlVars => WidthInv'
  BY WidthInvStep
<1> QED
  BY <1>1, <1>2, WidthInvInit, PTL DEF ControlSpec

(* And its first half: without a bandwidth ceiling a route is parked only  *)
(* after hysteresis whole cadences in which no delivery waited, over       *)
(* however many iterators they spread, and the frontier follows the width. *)
THEOREM ParkingIsEarned == ControlSpec => ParkingEarned
<1>1. WidthInv /\ [ControlNext]_controlVars => WidthInv'
  BY WidthInvStep
<1>2. WidthInv /\ [ControlNext]_controlVars =>
        [control # None =>
            /\ control'.it # None => control'.it.routes = control'.controller.width
            /\ control'.controller.width < control.controller.width =>
                   \/ control'.cause = "bandwidth"
                   \/ control'.calm >= Hysteresis * CadenceBatches]_control
  BY WidthInvStep DEF Parked
<1>3. ParkingEarned <=>
        [][control # None =>
            /\ control'.it # None => control'.it.routes = control'.controller.width
            /\ control'.controller.width < control.controller.width =>
                   \/ control'.cause = "bandwidth"
                   \/ control'.calm >= Hysteresis * CadenceBatches]_control
  BY DEF ParkingEarned, Width!ParkingEarned, None, Width!None
<1> QED
  BY <1>1, <1>2, <1>3, WidthInvInit, PTL DEF ControlSpec

-----------------------------------------------------------------------------
(* The calibration.                                                        *)

LEMMA LossLimits == Whole \in Nat /\ Whole > 3 /\ MaxWidth \in Nat
  BY LossAssumption DEF LossAssumption

PointType == [at : Int, loss : Int]

(* Points in their order, with losses below one.                           *)
GoodPoints(points) ==
    /\ points \in Seq(PointType)
    /\ Calibration!ValidPoints(points) /\ Calibration!ValidLosses(points)

LEMMA Least ==
    ASSUME NEW T, T \in SUBSET Nat, T # {}
    PROVE  \E m \in T : \A k \in T : m <= k
<1>1. PICK R : R = OpToRel(<, Nat)
  OBVIOUS
<1>2. IsWellFoundedOn(R, Nat)
  BY <1>1, NatLessThanWellFounded, Zenon
<1>3. PICK m \in T : \A k \in T : ~(<<k, m>> \in R)
  BY <1>2, WFMin, Zenon
<1>4. \A k \in T : ~(k < m)
  BY <1>1, <1>3 DEF OpToRel
<1> QED
  BY <1>4

LEMMA LossBounds ==
    ASSUME NEW S, S \in SUBSET (0..Whole - 1), S # {}
    PROVE  /\ Calibration!Min(S) \in S /\ \A y \in S : Calibration!Min(S) <= y
           /\ Calibration!Max(S) \in S /\ \A y \in S : Calibration!Max(S) >= y
<1>1. S \in SUBSET Nat
  BY LossLimits
<1>2. \E x \in S : \A y \in S : x <= y
  BY <1>1, Least
<1>3. \E x \in S : \A y \in S : x >= y
  <2> DEFINE T == {Whole - x : x \in S}
  <2>5. \A x \in S : Whole - x \in Nat
    BY LossLimits
  <2>1. T \in SUBSET Nat /\ T # {}
    BY <2>5
  <2> HIDE DEF T
  <2>2. PICK m \in T : \A k \in T : m <= k
    BY <2>1, Least
  <2>3. PICK x \in S : m = Whole - x
    BY DEF T
  <2>4. ASSUME NEW y \in S
        PROVE  x >= y
    <3>1. Whole - y \in T
      BY DEF T
    <3>2. Whole - x <= Whole - y
      BY <2>2, <2>3, <3>1
    <3> QED
      BY <1>1, <3>2, LossLimits
  <2> QED
    BY <2>4
<1>4. Calibration!Min(S) \in S /\ \A y \in S : Calibration!Min(S) <= y
  BY <1>2 DEF Calibration!Min
<1>5. Calibration!Max(S) \in S /\ \A y \in S : Calibration!Max(S) >= y
  BY <1>3 DEF Calibration!Max
<1> QED
  BY <1>4, <1>5

(* A number between two ends, scaled by the span, is between them.         *)
LEMMA Between ==
    ASSUME NEW lo \in Int, NEW hi \in Int, NEW a \in lo..hi, NEW b \in lo..hi,
           NEW span \in Nat, NEW d \in 0..span
    PROVE  /\ lo * span <= a * span + d * (b - a)
           /\ a * span + d * (b - a) <= hi * span
<1>1. a \in Int /\ b \in Int /\ d \in Int /\ span - d \in Nat
  OBVIOUS
<1>2. \A x, y \in Nat : x * y \in Nat
  OBVIOUS
<1>3. (a - lo) * (span - d) >= 0 /\ (b - lo) * d >= 0
  <2>1. a - lo \in Nat /\ b - lo \in Nat /\ d \in Nat
    OBVIOUS
  <2> QED
    BY <1>1, <1>2, <2>1
<1>4. (hi - a) * (span - d) >= 0 /\ (hi - b) * d >= 0
  <2>1. hi - a \in Nat /\ hi - b \in Nat /\ d \in Nat
    OBVIOUS
  <2> QED
    BY <1>1, <1>2, <2>1
<1>5. (a - lo) * (span - d) + (b - lo) * d = (a * span + d * (b - a)) - lo * span
  BY <1>1
<1>6. (hi - a) * (span - d) + (hi - b) * d = hi * span - (a * span + d * (b - a))
  BY <1>1
<1>7. /\ a * span + d * (b - a) \in Int /\ lo * span \in Int /\ hi * span \in Int
      /\ (a - lo) * (span - d) \in Int /\ (b - lo) * d \in Int
      /\ (hi - a) * (span - d) \in Int /\ (hi - b) * d \in Int
  BY <1>1
<1> DEFINE v == a * span + d * (b - a)
           l == lo * span
           h == hi * span
           p1 == (a - lo) * (span - d)
           p2 == (b - lo) * d
           p3 == (hi - a) * (span - d)
           p4 == (hi - b) * d
<1>8. /\ v \in Int /\ l \in Int /\ h \in Int
      /\ p1 \in Int /\ p2 \in Int /\ p3 \in Int /\ p4 \in Int
      /\ p1 >= 0 /\ p2 >= 0 /\ p3 >= 0 /\ p4 >= 0
      /\ p1 + p2 = v - l /\ p3 + p4 = h - v
  BY <1>3, <1>4, <1>5, <1>6, <1>7
<1> HIDE DEF v, l, h, p1, p2, p3, p4
<1>9. l <= v /\ v <= h
  BY <1>8
<1> QED
  BY <1>9 DEF v, l, h

(* The segment a number lies in: the first one that does not end before.   *)
LEMMA SegmentFound ==
    ASSUME NEW points, GoodPoints(points), NEW at \in Int,
           at > points[1].at, at <= points[Len(points)].at
    PROVE  LET i == Calibration!Segment(points, at)
           IN  /\ i \in 2..Len(points) /\ at <= points[i].at
               /\ at > points[i - 1].at
<1> DEFINE T == {i \in 2..Len(points) : at <= points[i].at}
<1>1. Len(points) \in Nat /\ Len(points) >= 2
  BY DEF GoodPoints, Calibration!ValidPoints
<1>2. \A i \in 1..Len(points) : points[i].at \in Int
  <2>1. \A i \in 1..Len(points) : points[i] \in PointType
    BY DEF GoodPoints
  <2> QED
    BY <2>1 DEF PointType
<1>3. T \in SUBSET Nat /\ Len(points) \in T
  BY <1>1
<1>4. PICK m \in T : \A k \in T : m <= k
  BY <1>3, Least
<1>5. \A j \in 2..(m - 1) : at > points[j].at
  <2> TAKE j \in 2..(m - 1)
  <2>1. j \in 2..Len(points) /\ ~(m <= j)
    BY <1>1, <1>4
  <2>2. ~(at <= points[j].at)
    BY <1>4, <2>1
  <2> QED
    BY <1>1, <1>2, <2>1, <2>2
<1>6. \E i \in 2..Len(points) :
        at <= points[i].at /\ \A j \in 2..(i - 1) : at > points[j].at
  BY <1>4, <1>5
<1> DEFINE i == Calibration!Segment(points, at)
<1>7. /\ i \in 2..Len(points) /\ at <= points[i].at
      /\ \A j \in 2..(i - 1) : at > points[j].at
  BY <1>6 DEF Calibration!Segment
<1> HIDE DEF i
<1>8. at > points[i - 1].at
  <2>1. CASE i = 2
    BY <2>1
  <2>2. CASE i # 2
    <3>1. i - 1 \in 2..(i - 1)
      BY <1>1, <1>7, <2>2
    <3> QED
      BY <1>7, <3>1
  <2> QED
    BY <2>1, <2>2
<1> QED
  BY <1>7, <1>8 DEF i

(* Wherever a loss is read off good points, it lies between theirs.        *)
LEMMA GoodPointsSound ==
    ASSUME NEW points, GoodPoints(points)
    PROVE  Calibration!Sound(points)
<1> DEFINE losses == {points[i].loss : i \in DOMAIN points}
           lo == Calibration!Min(losses)
           hi == Calibration!Max(losses)
           n == Len(points)
<1>1. n \in Nat /\ n >= 2 /\ DOMAIN points = 1..n
  BY DEF GoodPoints, Calibration!ValidPoints
<1>2. \A i \in 1..n : points[i].at \in Int /\ points[i].loss \in Int
  <2>1. \A i \in 1..n : points[i] \in PointType
    BY DEF GoodPoints
  <2> QED
    BY <2>1 DEF PointType
<1>3. losses \in SUBSET (0..Whole - 1) /\ losses # {}
  <2>1. \A i \in DOMAIN points : points[i].loss \in 0..Whole - 1
    BY DEF GoodPoints, Calibration!ValidLosses
  <2>2. 1 \in DOMAIN points
    BY <1>1
  <2> QED
    BY <2>1, <2>2
<1>4. \A i \in 1..n : points[i].loss \in losses
  BY <1>1
<1>5. /\ lo \in losses /\ hi \in losses
      /\ \A y \in losses : lo <= y /\ hi >= y
  <2> HIDE DEF losses
  <2> QED
    BY <1>3, LossBounds
<1> HIDE DEF losses, lo, hi
<1>6. lo \in Int /\ hi \in Int /\ hi < Whole /\ Whole \in Int
  BY <1>3, <1>5, LossLimits
<1>7. \A i \in 1..n : points[i].loss \in lo..hi
  BY <1>2, <1>4, <1>5, <1>6
<1>8. \A i \in 2..n : points[i].at > points[i - 1].at
  <2> TAKE i \in 2..n
  <2>1. i - 1 \in 1..(n - 1) /\ (i - 1) + 1 = i
    BY <1>1
  <2>2. \A j \in 1..(n - 1) : points[j].at < points[j + 1].at
    BY DEF GoodPoints, Calibration!ValidPoints
  <2>3. points[i - 1].at < points[(i - 1) + 1].at
    BY <2>1, <2>2
  <2>4. points[i - 1].at \in Int /\ points[i].at \in Int
    BY <1>1, <1>2, <2>1
  <2> QED
    BY <2>1, <2>3, <2>4
<1>9. ASSUME NEW at \in 0..MaxWidth
      PROVE  LET value == Calibration!Interpolated(points, at)
             IN  /\ lo * value.span <= value.over
                 /\ value.over <= hi * value.span
                 /\ value.over < Whole * value.span
  <2> DEFINE value == Calibration!Interpolated(points, at)
  <2>1. at \in Int
    BY LossLimits
  <2>2. \A k \in 1..n : value = [over |-> points[k].loss, span |-> 1] =>
           /\ lo * value.span <= value.over
           /\ value.over <= hi * value.span
           /\ value.over < Whole * value.span
    <3> SUFFICES ASSUME NEW k \in 1..n, value = [over |-> points[k].loss, span |-> 1]
                 PROVE  /\ lo * value.span <= value.over
                        /\ value.over <= hi * value.span
                        /\ value.over < Whole * value.span
      OBVIOUS
    <3>1. value.over = points[k].loss /\ value.span = 1
      OBVIOUS
    <3> HIDE DEF value
    <3>2. lo * 1 = lo /\ hi * 1 = hi /\ Whole * 1 = Whole
      BY <1>6
    <3>3. points[k].loss \in lo..hi
      BY <1>7
    <3> QED
      BY <1>6, <3>1, <3>2, <3>3
  <2>3. CASE at <= points[1].at
    <3>1. value = [over |-> points[1].loss, span |-> 1]
      BY <2>3 DEF Calibration!Interpolated
    <3>2. 1 \in 1..n
      BY <1>1
    <3> HIDE DEF value
    <3> QED
      BY <2>2, <3>1, <3>2 DEF value
  <2>4. CASE at > points[1].at /\ at > points[n].at
    <3>1. ~(at <= points[1].at)
      BY <1>1, <1>2, <2>1, <2>4
    <3>2. value = [over |-> points[n].loss, span |-> 1]
      BY <2>4, <3>1 DEF Calibration!Interpolated
    <3>3. n \in 1..n
      BY <1>1
    <3> HIDE DEF value
    <3> QED
      BY <2>2, <3>2, <3>3 DEF value
  <2>5. CASE at > points[1].at /\ at <= points[n].at
    <3> DEFINE i == Calibration!Segment(points, at)
               right == points[i]
               left == points[i - 1]
               span == right.at - left.at
               d == at - left.at
               over == left.loss * span + d * (right.loss - left.loss)
    <3>1. i \in 2..n /\ at <= right.at /\ at > left.at
      BY <2>1, <2>5, SegmentFound
    <3>2. ~(at <= points[1].at) /\ ~(at > points[n].at)
      BY <1>1, <1>2, <2>1, <2>5
    <3>3. value = [over |-> over, span |-> span]
      BY <3>2 DEF Calibration!Interpolated
    <3> HIDE DEF i
    <3>4. i \in 1..n /\ i - 1 \in 1..n
      BY <1>1, <3>1
    <3>5. /\ right.at \in Int /\ left.at \in Int
          /\ right.loss \in lo..hi /\ left.loss \in lo..hi
      BY <1>2, <1>7, <3>4
    <3> HIDE DEF right, left
    <3>6. span \in Nat /\ span > 0 /\ d \in 0..span
      BY <2>1, <3>1, <3>5
    <3> HIDE DEF span, d
    <3>7. lo * span <= over /\ over <= hi * span
      BY <1>6, <3>5, <3>6, Between
    <3>8. hi * span < Whole * span
      <4>1. Whole - hi \in Nat /\ Whole - hi > 0
        BY <1>6
      <4>2. (Whole - hi) * span > 0
        BY <3>6, <4>1
      <4>3. (Whole - hi) * span = Whole * span - hi * span
        BY <1>6, <3>6
      <4>4. hi * span \in Int /\ Whole * span \in Int
        BY <1>6, <3>6
      <4> DEFINE h == hi * span
                 w == Whole * span
      <4>5. h \in Int /\ w \in Int /\ w - h > 0
        BY <4>2, <4>3, <4>4
      <4> HIDE DEF h, w
      <4>6. h < w
        BY <4>5
      <4> QED
        BY <4>6 DEF h, w
    <3>9. over \in Int /\ hi * span \in Int /\ Whole * span \in Int
      BY <1>6, <3>5, <3>6
    <3> HIDE DEF over
    <3>10. over < Whole * span
      <4> DEFINE h == hi * span
                 w == Whole * span
      <4>1. h \in Int /\ w \in Int /\ over <= h /\ h < w
        BY <3>7, <3>8, <3>9
      <4> HIDE DEF h, w
      <4>2. over < w
        BY <3>9, <4>1
      <4> QED
        BY <4>2 DEF w
    <3>11. value.over = over /\ value.span = span
      BY <3>3
    <3> HIDE DEF value
    <3> QED
      BY <3>7, <3>10, <3>11 DEF value
  <2>6. points[1].at \in Int /\ points[n].at \in Int
    BY <1>1, <1>2
  <2>7. at <= points[1].at \/ at > points[1].at
    BY <2>1, <2>6
  <2>8. at <= points[n].at \/ at > points[n].at
    BY <2>1, <2>6
  <2> QED
    BY <2>3, <2>4, <2>5, <2>7, <2>8
<1> QED
  BY <1>8, <1>9 DEF Calibration!Sound, losses, lo, hi

(* A payload whose points can at least be compared.                        *)
Readable(p) ==
    /\ p.bandwidth \in Seq(PointType)
    /\ \A i \in DOMAIN p.steal : p.steal[i].points \in Seq(PointType)

(* A record a loader may be given for a machine.                           *)
Usable(p, m) ==
    /\ p.machine = m
    /\ GoodPoints(p.bandwidth)
    /\ \A i \in DOMAIN p.steal : GoodPoints(p.steal[i].points)

LEMMA PointPairs ==
    ASSUME NEW a \in Int, NEW b \in Int, NEW x \in Int, NEW y \in Int
    PROVE  LET points == <<Calibration!Point(a, x), Calibration!Point(b, y)>>
           IN  /\ points \in Seq(PointType)
               /\ a < b /\ x \in 0..Whole - 1 /\ y \in 0..Whole - 1 => GoodPoints(points)
<1> DEFINE p == Calibration!Point(a, x)
           q == Calibration!Point(b, y)
           points == <<p, q>>
<1>1. /\ p \in PointType /\ p.at = a /\ p.loss = x
      /\ q \in PointType /\ q.at = b /\ q.loss = y
  BY DEF Calibration!Point, PointType
<1> HIDE DEF p, q
<1>2. points \in Seq(PointType) /\ Len(points) = 2 /\ points[1] = p /\ points[2] = q
  BY <1>1
<1>3. DOMAIN points = 1..2
  BY <1>2
<1> HIDE DEF points
<1>4. ASSUME a < b, x \in 0..Whole - 1, y \in 0..Whole - 1
      PROVE  GoodPoints(points)
  <2>1. \A i \in 1..2 : i = 1 \/ i = 2
    OBVIOUS
  <2>2. Calibration!ValidLosses(points)
    BY <1>1, <1>2, <1>3, <1>4, <2>1 DEF Calibration!ValidLosses
  <2>3. \A i \in 1..(2 - 1) : i = 1 /\ i + 1 = 2
    OBVIOUS
  <2>4. Calibration!ValidPoints(points)
    BY <1>1, <1>2, <1>4, <2>3 DEF Calibration!ValidPoints
  <2> QED
    BY <1>2, <2>2, <2>4 DEF GoodPoints
<1> QED
  BY <1>2, <1>4 DEF points, p, q

LEMMA GridGood ==
    ASSUME NEW shape
    PROVE  LET c == Calibration!GridCurve(shape)
           IN  /\ GoodPoints(c.points) /\ c.shape = shape
               /\ c.provenance = "measured"
               /\ [i \in DOMAIN c.points |-> c.points[i].at] = Calibration!Grid
<1> DEFINE points == [i \in 1..3 |-> Calibration!Point(Calibration!Grid[i], i)]
           c == Calibration!GridCurve(shape)
<1>1. c.points = points /\ c.shape = shape /\ c.provenance = "measured"
  BY DEF Calibration!GridCurve, Calibration!Curve
<1>2. /\ Calibration!Grid[1] = 1 /\ Calibration!Grid[2] = 2 /\ Calibration!Grid[3] = 4
      /\ \A i \in 1..3 : Calibration!Grid[i] \in Int
      /\ Calibration!Grid = [i \in 1..3 |-> Calibration!Grid[i]]
  <2>1. \A i \in 1..3 : i = 1 \/ i = 2 \/ i = 3
    OBVIOUS
  <2> QED
    BY <2>1 DEF Calibration!Grid
<1>3. \A i \in 1..3 : /\ points[i] = [at |-> Calibration!Grid[i], loss |-> i]
                      /\ points[i] \in PointType
  BY <1>2 DEF Calibration!Point, PointType
<1>4. DOMAIN points = 1..3
  OBVIOUS
<1>5. points \in Seq(PointType) /\ Len(points) = 3
  <2>1. points \in [1..3 -> PointType]
    BY <1>3
  <2> HIDE DEF points
  <2> QED
    BY <2>1
<1>6. \A i \in 1..3 : points[i].at = Calibration!Grid[i] /\ points[i].loss = i
  BY <1>3
<1> HIDE DEF points, c
<1>7. Calibration!ValidLosses(points)
  <2>1. \A i \in 1..3 : i \in 0..Whole - 1
    BY LossLimits
  <2> QED
    BY <1>4, <1>6, <2>1 DEF Calibration!ValidLosses
<1>8. Calibration!ValidPoints(points)
  <2>1. \A i \in 1..(3 - 1) : i = 1 \/ i = 2
    OBVIOUS
  <2>2. points[1].at < points[2].at /\ points[2].at < points[3].at
    BY <1>2, <1>6
  <2>3. \A i \in 1..(Len(points) - 1) : points[i].at < points[i + 1].at
    BY <1>5, <2>1, <2>2
  <2> QED
    BY <1>5, <2>3 DEF Calibration!ValidPoints
<1>9. [i \in DOMAIN points |-> points[i].at] = Calibration!Grid
  BY <1>2, <1>4, <1>6
<1> QED
  BY <1>1, <1>5, <1>7, <1>8, <1>9 DEF GoodPoints, c

LEMMA SameSizes == \A S : Calibration!Cardinality(S) = Cardinality(S)
  BY Zenon DEF Calibration!Cardinality, Cardinality

LEMMA PayloadUsable ==
    ASSUME NEW m
    PROVE  /\ Calibration!ValidRecord(Calibration!Payload(m))
           /\ Usable(Calibration!Payload(m), m)
           /\ Readable(Calibration!Payload(m))
<1> DEFINE p == Calibration!Payload(m)
           compute == Calibration!GridCurve("compute")
           stream == Calibration!GridCurve("stream")
           band == <<Calibration!Point(0, 0), Calibration!Point(2, 1)>>
<1>1. /\ p.steal = <<compute, stream>> /\ p.bandwidth = band
      /\ p.machine = m /\ p.key = m /\ p.schema = Calibration!Schema
      /\ p.scalars = TRUE
  BY DEF Calibration!Payload
<1>2. GoodPoints(band)
  BY LossLimits, PointPairs
<1>3. /\ GoodPoints(compute.points) /\ compute.shape = "compute"
      /\ compute.provenance = "measured"
      /\ [i \in DOMAIN compute.points |-> compute.points[i].at] = Calibration!Grid
      /\ GoodPoints(stream.points) /\ stream.shape = "stream"
      /\ stream.provenance = "measured"
      /\ [i \in DOMAIN stream.points |-> stream.points[i].at] = Calibration!Grid
  BY GridGood
<1> HIDE DEF p, compute, stream, band
<1>4. /\ DOMAIN p.steal = 1..2 /\ Len(p.steal) = 2
      /\ p.steal[1] = compute /\ p.steal[2] = stream
      /\ \A i \in 1..2 : i = 1 \/ i = 2
  BY <1>1
<1>5. \A i \in DOMAIN p.steal : GoodPoints(p.steal[i].points)
  BY <1>3, <1>4
<1>6. Usable(p, m) /\ Readable(p)
  BY <1>1, <1>2, <1>5 DEF Usable, Readable, GoodPoints
<1>7. \A i \in DOMAIN p.steal : Calibration!ValidCurve(p.steal[i])
  <2>1. Calibration!ValidCurve(compute) /\ Calibration!ValidCurve(stream)
    BY <1>3 DEF Calibration!ValidCurve, GoodPoints
  <2> QED
    BY <1>4, <2>1
<1>8. {p.steal[i].shape : i \in DOMAIN p.steal} = {"compute", "stream"}
  <2>1. 1 \in DOMAIN p.steal /\ 2 \in DOMAIN p.steal
    BY <1>4
  <2>2. \A i \in DOMAIN p.steal : p.steal[i].shape \in {"compute", "stream"}
    BY <1>3, <1>4
  <2>3. p.steal[1].shape = "compute" /\ p.steal[2].shape = "stream"
    BY <1>3, <1>4
  <2> QED
    BY <2>1, <2>2, <2>3
<1>9. Calibration!Cardinality({"compute", "stream"}) = 2
  <2>1. /\ IsFiniteSet({"stream"}) /\ Cardinality({"stream"}) = 1
    BY FS_Singleton
  <2>2. {"compute", "stream"} = {"stream"} \cup {"compute"} /\ "compute" \notin {"stream"}
    OBVIOUS
  <2>3. Cardinality({"stream"} \cup {"compute"}) = Cardinality({"stream"}) + 1
    BY <2>1, <2>2, FS_AddElement
  <2> QED
    BY <2>1, <2>2, <2>3, SameSizes
<1>10. Calibration!ValidRecord(p)
  BY <1>1, <1>2, <1>4, <1>7, <1>8, <1>9 DEF Calibration!ValidRecord, GoodPoints
<1> QED
  BY <1>6, <1>10 DEF p

LEMMA PriorUsable ==
    ASSUME NEW m
    PROVE  Usable(Calibration!SparkPrior(m), m)
<1> DEFINE p == Calibration!Payload(m)
           points == <<Calibration!Point(1, 0), Calibration!Point(4, 2)>>
           c == Calibration!Derived(points)
           q == [p EXCEPT !.steal[1] = c]
           stream == Calibration!GridCurve("stream")
           compute == Calibration!GridCurve("compute")
<1>1. Calibration!SparkPrior(m) = q
  BY DEF Calibration!SparkPrior
<1>2. GoodPoints(points)
  BY LossLimits, PointPairs
<1>3. c.points = points
  BY DEF Calibration!Derived, Calibration!Curve
<1>4. GoodPoints(stream.points)
  BY GridGood
<1> HIDE DEF c, points, stream, compute
<1>5. /\ q.steal = [<<compute, stream>> EXCEPT ![1] = c]
      /\ q.bandwidth = p.bandwidth /\ q.machine = p.machine
  BY DEF Calibration!Payload, stream, compute
<1>6. q.steal[1] = c /\ q.steal[2] = stream /\ DOMAIN q.steal = 1..2
  BY <1>5
<1>7. \A i \in 1..2 : i = 1 \/ i = 2
  OBVIOUS
<1>8. Usable(p, m)
  BY PayloadUsable
<1> HIDE DEF p, q
<1> QED
  BY <1>1, <1>2, <1>3, <1>4, <1>5, <1>6, <1>7, <1>8 DEF Usable, q

LEMMA OneTuple == \A x : DOMAIN <<x>> = 1..1 /\ \A i \in 1..1 : <<x>>[i] = x
<1> TAKE x
<1>1. Len(<<x>>) = 1
  OBVIOUS
<1>2. <<x>>[1] = x
  OBVIOUS
<1>3. DOMAIN <<x>> = 1..1
  BY <1>1
<1>4. \A i \in 1..1 : i = 1
  OBVIOUS
<1> QED
  BY <1>2, <1>3, <1>4

LEMMA OnePair ==
    ASSUME NEW a \in Int, NEW x \in Int
    PROVE  Calibration!Point(a, x) \in PointType
  BY DEF Calibration!Point, PointType

(* Whatever files there are, their points can be compared.                 *)
LEMMA VariantsReadable ==
    ASSUME NEW m, NEW v \in Calibration!Variants(m)
    PROVE  Readable(v)
<1> DEFINE p == Calibration!Payload(m)
           stream == Calibration!GridCurve("stream")
           compute == Calibration!GridCurve("compute")
           gaps == <<Calibration!Point(1, 0), Calibration!Point(3, 1)>>
           twice == <<Calibration!Point(0, 0), Calibration!Point(0, 1)>>
           lists == {<<Calibration!Point(2, 1)>>,
                     <<Calibration!Point(2, 0), Calibration!Point(4, 1)>>,
                     <<Calibration!Point(2, 0), Calibration!Point(2, 1),
                       Calibration!Point(4, 2)>>,
                     <<Calibration!Point(4, 0), Calibration!Point(1, 1)>>,
                     <<Calibration!Point(1, 0), Calibration!Point(4, Whole)>>}
<1>1. Readable(p)
  BY PayloadUsable
<1>2. stream.points \in Seq(PointType) /\ compute.points \in Seq(PointType)
  BY GridGood DEF GoodPoints
<1>3. Whole \in Int
  BY LossLimits
<1>4. \A a, x \in Int : Calibration!Point(a, x) \in PointType
  BY OnePair
<1>5. \A points \in lists : points \in Seq(PointType)
  <2>1. /\ Calibration!Point(2, 1) \in PointType /\ Calibration!Point(2, 0) \in PointType
        /\ Calibration!Point(4, 1) \in PointType /\ Calibration!Point(4, 2) \in PointType
        /\ Calibration!Point(4, 0) \in PointType /\ Calibration!Point(1, 1) \in PointType
        /\ Calibration!Point(1, 0) \in PointType
        /\ Calibration!Point(4, Whole) \in PointType
    BY <1>3, <1>4
  <2>2. \A x, y, z \in PointType : /\ <<x>> \in Seq(PointType)
                                  /\ <<x, y>> \in Seq(PointType)
                                  /\ <<x, y, z>> \in Seq(PointType)
    OBVIOUS
  <2> QED
    BY <2>1, <2>2, Zenon
<1>6. gaps \in Seq(PointType) /\ twice \in Seq(PointType)
  <2>1. /\ Calibration!Point(1, 0) \in PointType /\ Calibration!Point(3, 1) \in PointType /\ Calibration!Point(0, 0) \in PointType
        /\ Calibration!Point(0, 1) \in PointType
    BY <1>4
  <2> QED
    BY <2>1
<1>7. \/ v \in {p, [p EXCEPT !.schema = 2], [p EXCEPT !.schema = 2, !.lacks = TRUE],
                [p EXCEPT !.scalars = FALSE]}
      \/ v = [p EXCEPT !.steal = <<stream>>]
      \/ v = [p EXCEPT !.steal = @ \o <<stream>>]
      \/ v = [p EXCEPT !.steal[1].points = gaps]
      \/ v = [p EXCEPT !.bandwidth = twice]
      \/ \E n \in Machines : v = [p EXCEPT !.machine = n]
                            \/ v = [p EXCEPT !.machine = n, !.key = n]
      \/ \E points \in lists :
             v = [p EXCEPT !.steal = <<Calibration!Derived(points), stream>>]
  <2> DEFINE A == {p, [p EXCEPT !.schema = 2], [p EXCEPT !.schema = 2, !.lacks = TRUE],
                  [p EXCEPT !.scalars = FALSE], [p EXCEPT !.steal = <<stream>>],
                  [p EXCEPT !.steal = @ \o <<stream>>],
                  [p EXCEPT !.steal[1].points = gaps], [p EXCEPT !.bandwidth = twice]}
             B == {[p EXCEPT !.machine = n] : n \in Machines}
             C == {[p EXCEPT !.machine = n, !.key = n] : n \in Machines}
             D == {[p EXCEPT !.steal = <<Calibration!Derived(points), stream>>] :
                       points \in lists}
  <2>1. v \in A \cup B \cup C \cup D
    BY DEF Calibration!Variants
  <2> HIDE DEF p, gaps, twice, lists, stream
  <2>2. CASE v \in A
    <3> HIDE DEF A
    <3>1. \/ v = p \/ v = [p EXCEPT !.schema = 2]
          \/ v = [p EXCEPT !.schema = 2, !.lacks = TRUE]
          \/ v = [p EXCEPT !.scalars = FALSE] \/ v = [p EXCEPT !.steal = <<stream>>]
          \/ v = [p EXCEPT !.steal = @ \o <<stream>>]
          \/ v = [p EXCEPT !.steal[1].points = gaps]
          \/ v = [p EXCEPT !.bandwidth = twice]
      BY <2>2, Zenon DEF A
    <3> QED
      BY <3>1, Zenon
  <2>3. CASE v \in B
    BY <2>3, Zenon
  <2>4. CASE v \in C
    BY <2>4, Zenon
  <2>5. CASE v \in D
    BY <2>5, Zenon
  <2> QED
    BY <2>1, <2>2, <2>3, <2>4, <2>5
<1>8. p.steal = <<compute, stream>> /\ p.bandwidth \in Seq(PointType)
  BY <1>1 DEF Calibration!Payload, Readable
<1>9. "steal" \in DOMAIN p /\ "bandwidth" \in DOMAIN p
  BY DEF Calibration!Payload
<1> HIDE DEF p, gaps, twice, lists, stream, compute
<1>10. ASSUME v.steal = p.steal, v.bandwidth = p.bandwidth
       PROVE  Readable(v)
  BY <1>1, <1>10 DEF Readable
<1>11. CASE v \in {p, [p EXCEPT !.schema = 2], [p EXCEPT !.schema = 2, !.lacks = TRUE],
                  [p EXCEPT !.scalars = FALSE]}
  BY <1>9, <1>10, <1>11
<1>12. CASE v = [p EXCEPT !.steal = <<stream>>]
  <2>1. v.steal = <<stream>> /\ v.bandwidth = p.bandwidth
    BY <1>9, <1>12
  <2>2. DOMAIN <<stream>> = 1..1 /\ \A i \in 1..1 : <<stream>>[i] = stream
    BY OneTuple
  <2> QED
    BY <1>2, <1>8, <2>1, <2>2 DEF Readable
<1>13. CASE v = [p EXCEPT !.steal = @ \o <<stream>>]
  <2> DEFINE list == {compute, stream}
  <2>1. v.steal = <<compute, stream>> \o <<stream>> /\ v.bandwidth = p.bandwidth
    BY <1>8, <1>9, <1>13
  <2>2. \A i \in DOMAIN v.steal : v.steal[i] \in list
    <3>1. <<compute, stream>> \in Seq(list) /\ <<stream>> \in Seq(list)
      OBVIOUS
    <3> HIDE DEF list
    <3> QED
      BY <2>1, <3>1
  <2> QED
    BY <1>2, <1>8, <2>1, <2>2 DEF Readable
<1>14. CASE v = [p EXCEPT !.steal[1].points = gaps]
  <2> DEFINE c == [compute EXCEPT !.points = gaps]
  <2>1. v.steal = [<<compute, stream>> EXCEPT ![1] = c] /\ v.bandwidth = p.bandwidth
    BY <1>8, <1>9, <1>14
  <2>2. c.points = gaps
    BY DEF compute, Calibration!GridCurve, Calibration!Curve
  <2> HIDE DEF c
  <2>3. v.steal[1] = c /\ v.steal[2] = stream /\ DOMAIN v.steal = 1..2
    BY <2>1
  <2>4. \A i \in 1..2 : i = 1 \/ i = 2
    OBVIOUS
  <2> QED
    BY <1>2, <1>6, <1>8, <2>1, <2>2, <2>3, <2>4 DEF Readable
<1>15. CASE v = [p EXCEPT !.bandwidth = twice]
  <2>1. v.steal = p.steal /\ v.bandwidth = twice
    BY <1>9, <1>15
  <2> QED
    BY <1>1, <1>6, <2>1 DEF Readable
<1>16. CASE \E n \in Machines : v = [p EXCEPT !.machine = n]
                             \/ v = [p EXCEPT !.machine = n, !.key = n]
  BY <1>9, <1>10, <1>16
<1>17. CASE \E points \in lists :
              v = [p EXCEPT !.steal = <<Calibration!Derived(points), stream>>]
  <2>1. PICK points \in lists :
              v = [p EXCEPT !.steal = <<Calibration!Derived(points), stream>>]
    BY <1>17
  <2> DEFINE c == Calibration!Derived(points)
  <2>2. c.points = points
    BY DEF Calibration!Derived, Calibration!Curve
  <2> HIDE DEF c
  <2>3. v.steal = <<c, stream>> /\ v.bandwidth = p.bandwidth
    BY <1>9, <2>1 DEF c
  <2>4. v.steal[1] = c /\ v.steal[2] = stream /\ DOMAIN v.steal = 1..2
    BY <2>3
  <2>5. \A i \in 1..2 : i = 1 \/ i = 2
    OBVIOUS
  <2> QED
    BY <1>2, <1>5, <1>8, <2>2, <2>3, <2>4, <2>5 DEF Readable
<1> QED
  BY <1>7, <1>11, <1>12, <1>13, <1>14, <1>15, <1>16, <1>17

(* Records and functions, whatever most of them hold.                      *)
StoreShape(s) ==
    /\ s = [f \in {"disk", "savers", "saved", "resolved", "raised", "spent"} |-> s[f]]
    /\ s.disk = [m \in Machines |-> s.disk[m]]
    /\ s.savers = [x \in Savers |-> s.savers[x]]
    /\ s.saved \in [Machines -> BOOLEAN]
    /\ s.resolved = [m \in Machines |-> s.resolved[m]]

Measured(m) == Calibration!File(Calibration!Payload(m), TRUE)

Started(m) == Calibration!File(Calibration!Payload(m), FALSE)

Saver(m, file) == [machine |-> m, file |-> file]

(* A process saves what it measured; a machine's file is what was saved    *)
(* last, unless another one took its place; what was resolved is usable.   *)
StoreSound(s) ==
    /\ StoreShape(s)
    /\ \A m \in Machines :
           /\ s.disk[m] # None => Readable(s.disk[m].payload)
           /\ s.saved[m] => s.disk[m] = Measured(m)
           /\ s.resolved[m] # None => Usable(s.resolved[m], m)
    /\ \A x \in Savers : s.savers[x] # None =>
           \E m \in Machines :
               s.savers[x] = Saver(m, Measured(m)) \/ s.savers[x] = Saver(m, Started(m))

StoreInv == store # None => StoreSound(store)

LEMMA MeasuredFields ==
    ASSUME NEW m
    PROVE  /\ Measured(m).payload = Calibration!Payload(m)
           /\ Measured(m) # None /\ Measured(m).whole /\ ~Started(m).whole
           /\ [Started(m) EXCEPT !.whole = TRUE] = Measured(m)
<1>1. DOMAIN Measured(m) = {"payload", "whole"} /\ DOMAIN None = {"none"}
  BY DEF Measured, Calibration!File, None
<1>2. Measured(m) # None
  BY <1>1
<1>3. Measured(m).payload = Calibration!Payload(m)
  BY DEF Measured, Calibration!File
<1>4. Measured(m).whole = TRUE /\ Started(m).whole = FALSE
  BY DEF Measured, Started, Calibration!File
<1>5. [Started(m) EXCEPT !.whole = TRUE] = Measured(m)
  <2> DEFINE p == Calibration!Payload(m)
  <2>1. \A b, c : [[payload |-> p, whole |-> b] EXCEPT !.whole = c]
                  = [payload |-> p, whole |-> c]
    OBVIOUS
  <2>2. /\ Started(m) = [payload |-> p, whole |-> FALSE]
        /\ Measured(m) = [payload |-> p, whole |-> TRUE]
    BY DEF Measured, Started, Calibration!File
  <2> HIDE DEF p
  <2> QED
    BY <2>1, <2>2, Zenon
<1> QED
  BY <1>2, <1>3, <1>4, <1>5

LEMMA SaverFields ==
    ASSUME NEW m, NEW file
    PROVE  /\ Saver(m, file).machine = m /\ Saver(m, file).file = file
           /\ Saver(m, file) # None
           /\ \A new : [Saver(m, file) EXCEPT !.file = new] = Saver(m, new)
<1>1. DOMAIN Saver(m, file) = {"machine", "file"} /\ DOMAIN None = {"none"}
  BY DEF Saver, None
<1>2. Saver(m, file) # None
  BY <1>1
<1> QED
  BY <1>2 DEF Saver

LEMMA LoadedUsable ==
    ASSUME StoreSound(store), NEW m \in Machines, Calibration!Loaded(m) # None
    PROVE  Usable(Calibration!Loaded(m), m)
<1> DEFINE p == store.disk[m].payload
<1>1. /\ Calibration!Loaded(m) = p /\ store.disk[m] # None
      /\ Calibration!ValidRecord(p) /\ p.machine = m
  BY DEF Calibration!Loaded, None, Calibration!None
<1>2. Readable(p)
  BY <1>1 DEF StoreSound
<1> HIDE DEF p
<1> QED
  BY <1>1, <1>2
  DEF Usable, Readable, GoodPoints, Calibration!ValidRecord, Calibration!ValidCurve

LEMMA SaverKeeps ==
    ASSUME StoreSound(store), NEW x \in Savers,
           \/ \E m \in Machines : Calibration!BeginSave(x, m)
           \/ Calibration!Write(x) \/ Calibration!GiveUp(x) \/ Calibration!Replace(x)
    PROVE  StoreSound(store')
<1> DEFINE old == store.savers[x]
<1>1. StoreShape(store)
  BY DEF StoreSound
<1>2. ASSUME NEW new, NEW spent,
             store' = [store EXCEPT !.spent = spent, !.savers[x] = new],
             new # None => \E m \in Machines :
                               new = Saver(m, Measured(m)) \/ new = Saver(m, Started(m))
      PROVE  StoreSound(store')
  <2>1. /\ store'.disk = store.disk /\ store'.saved = store.saved
        /\ store'.resolved = store.resolved
        /\ store'.savers = [store.savers EXCEPT ![x] = new]
    BY <1>1, <1>2 DEF StoreShape
  <2>2. StoreShape(store')
    BY <1>1, <1>2, <2>1 DEF StoreShape
  <2>3. ASSUME NEW y \in Savers, store'.savers[y] # None
        PROVE  \E m \in Machines : \/ store'.savers[y] = Saver(m, Measured(m))
                                  \/ store'.savers[y] = Saver(m, Started(m))
    <3>1. store'.savers[y] = IF y = x THEN new ELSE store.savers[y]
      BY <1>1, <2>1 DEF StoreShape
    <3>2. CASE y = x
      BY <1>2, <2>3, <3>1, <3>2
    <3>3. CASE y # x
      BY <2>3, <3>1, <3>3 DEF StoreSound
    <3> QED
      BY <3>2, <3>3
  <2> QED
    BY <2>1, <2>2, <2>3 DEF StoreSound
<1>3. store = [store EXCEPT !.spent = store.spent]
  BY <1>1 DEF StoreShape
<1>4. CASE \E m \in Machines : Calibration!BeginSave(x, m)
  <2>1. PICK m \in Machines : Calibration!BeginSave(x, m)
    BY <1>4
  <2> DEFINE new == Saver(m, Started(m))
  <2>2. store' = [store EXCEPT !.spent = store.spent + 1, !.savers[x] = new]
    BY <2>1 DEF Calibration!BeginSave, Saver, Started
  <2>3. \E n \in Machines : new = Saver(n, Measured(n)) \/ new = Saver(n, Started(n))
    OBVIOUS
  <2> HIDE DEF new
  <2> QED
    BY <1>2, <2>2, <2>3
<1>5. CASE Calibration!Write(x)
  <2>1. /\ old # None /\ ~old.file.whole
        /\ store' = [store EXCEPT !.savers[x].file.whole = TRUE]
    BY <1>5 DEF Calibration!Write, None, Calibration!None
  <2>2. PICK m \in Machines : old = Saver(m, Measured(m)) \/ old = Saver(m, Started(m))
    BY <2>1 DEF StoreSound
  <2>3. old = Saver(m, Started(m)) /\ old.file = Started(m)
    BY <2>1, <2>2, MeasuredFields, SaverFields
  <2> DEFINE new == Saver(m, Measured(m))
  <2>4. [old EXCEPT !.file = [Started(m) EXCEPT !.whole = TRUE]] = new
    BY <2>3, MeasuredFields, SaverFields
  <2>5. store' = [store EXCEPT !.savers[x] = [old EXCEPT !.file.whole = TRUE]]
    BY <1>1, <2>1 DEF StoreShape
  <2>6. [old EXCEPT !.file.whole = TRUE] = [old EXCEPT !.file = [old.file EXCEPT !.whole = TRUE]]
    OBVIOUS
  <2> HIDE DEF old, new
  <2>7. store' = [store EXCEPT !.savers[x] = new]
    BY <2>3, <2>4, <2>5, <2>6
  <2>8. store' = [store EXCEPT !.spent = store.spent, !.savers[x] = new]
    BY <1>1, <2>7 DEF StoreShape
  <2>9. \E n \in Machines : new = Saver(n, Measured(n)) \/ new = Saver(n, Started(n))
    BY DEF new
  <2> QED
    BY <1>2, <2>8, <2>9
<1>6. CASE Calibration!GiveUp(x)
  <2>1. store' = [store EXCEPT !.savers[x] = None]
    BY <1>6 DEF Calibration!GiveUp, None, Calibration!None
  <2>2. store' = [store EXCEPT !.spent = store.spent, !.savers[x] = None]
    BY <1>1, <2>1 DEF StoreShape
  <2> QED
    BY <1>2, <2>2
<1>7. CASE Calibration!Replace(x)
  <2>1. /\ old # None /\ old.file.whole
        /\ store' = [store EXCEPT !.savers[x] = None, !.disk[old.machine] = old.file,
                                  !.saved[old.machine] = TRUE]
    BY <1>7 DEF Calibration!Replace, Calibration!Written, None, Calibration!None
  <2>2. PICK n \in Machines : old = Saver(n, Measured(n)) \/ old = Saver(n, Started(n))
    BY <2>1 DEF StoreSound
  <2>3. old.machine = n /\ old.file = Measured(n)
    BY <2>1, <2>2, MeasuredFields, SaverFields
  <2> HIDE DEF old
  <2>4. /\ store'.disk = [store.disk EXCEPT ![n] = Measured(n)]
        /\ store'.saved = [store.saved EXCEPT ![n] = TRUE]
        /\ store'.resolved = store.resolved
        /\ store'.savers = [store.savers EXCEPT ![x] = None]
    BY <1>1, <2>1, <2>3 DEF StoreShape
  <2>5. StoreShape(store')
    <3>1. store' = [f \in {"disk", "savers", "saved", "resolved", "raised", "spent"} |->
                       store'[f]]
      BY <1>1, <2>1 DEF StoreShape
    <3> QED
      BY <1>1, <2>4, <3>1 DEF StoreShape
  <2>6. Readable(Measured(n).payload)
    BY MeasuredFields, PayloadUsable
  <2>7. ASSUME NEW m \in Machines
        PROVE  /\ store'.disk[m] # None => Readable(store'.disk[m].payload)
               /\ store'.saved[m] => store'.disk[m] = Measured(m)
    <3>1. CASE m = n
      <4>1. store'.disk[m] = Measured(m)
        BY <1>1, <2>4, <3>1 DEF StoreShape
      <4> QED
        BY <2>6, <3>1, <4>1
    <3>2. CASE m # n
      <4>1. store'.disk[m] = store.disk[m] /\ store'.saved[m] = store.saved[m]
        BY <1>1, <2>4, <3>2 DEF StoreShape
      <4> QED
        BY <4>1 DEF StoreSound
    <3> QED
      BY <3>1, <3>2
  <2>8. ASSUME NEW y \in Savers, store'.savers[y] # None
        PROVE  \E m \in Machines : \/ store'.savers[y] = Saver(m, Measured(m))
                                  \/ store'.savers[y] = Saver(m, Started(m))
    <3>1. store'.savers[y] = IF y = x THEN None ELSE store.savers[y]
      BY <1>1, <2>4 DEF StoreShape
    <3> QED
      BY <2>8, <3>1 DEF StoreSound
  <2> QED
    BY <2>4, <2>5, <2>7, <2>8 DEF StoreSound
<1> QED
  BY <1>4, <1>5, <1>6, <1>7

LEMMA FileKeeps ==
    ASSUME StoreSound(store), NEW m \in Machines,
           Calibration!Foreign(m) \/ Calibration!Resolve(m)
    PROVE  StoreSound(store')
<1>1. StoreShape(store)
  BY DEF StoreSound
<1>2. CASE Calibration!Foreign(m)
  <2>1. PICK payload \in Calibration!Variants(m), whole \in BOOLEAN :
           store' = [store EXCEPT !.spent = @ + 1, !.saved[m] = FALSE,
                                  !.disk[m] = Calibration!File(payload, whole)]
    BY <1>2 DEF Calibration!Foreign
  <2> DEFINE file == Calibration!File(payload, whole)
  <2>2. Readable(file.payload)
    <3>1. file.payload = payload
      BY DEF Calibration!File
    <3> HIDE DEF file
    <3> QED
      BY <3>1, VariantsReadable
  <2>3. store' = [store EXCEPT !.spent = @ + 1, !.saved[m] = FALSE, !.disk[m] = file]
    BY <2>1
  <2> HIDE DEF file
  <2>4. /\ store'.disk = [store.disk EXCEPT ![m] = file]
        /\ store'.saved = [store.saved EXCEPT ![m] = FALSE]
        /\ store'.resolved = store.resolved /\ store'.savers = store.savers
    BY <1>1, <2>3 DEF StoreShape
  <2>5. StoreShape(store')
    <3>1. store' = [f \in {"disk", "savers", "saved", "resolved", "raised", "spent"} |->
                       store'[f]]
      BY <1>1, <2>3 DEF StoreShape
    <3> QED
      BY <1>1, <2>4, <3>1 DEF StoreShape
  <2>6. ASSUME NEW n \in Machines
        PROVE  /\ store'.disk[n] # None => Readable(store'.disk[n].payload)
               /\ store'.saved[n] => store'.disk[n] = Measured(n)
    <3>1. CASE n = m
      <4>1. store'.disk[n] = file /\ ~store'.saved[n]
        BY <1>1, <2>4, <3>1 DEF StoreShape
      <4> QED
        BY <2>2, <4>1
    <3>2. CASE n # m
      <4>1. store'.disk[n] = store.disk[n] /\ store'.saved[n] = store.saved[n]
        BY <1>1, <2>4, <3>2 DEF StoreShape
      <4> QED
        BY <4>1 DEF StoreSound
    <3> QED
      BY <3>1, <3>2
  <2> QED
    BY <2>4, <2>5, <2>6 DEF StoreSound
<1>3. CASE Calibration!Resolve(m)
  <2> DEFINE prior == IF m \in PriorMachines THEN Calibration!SparkPrior(m) ELSE None
             got == IF Calibration!Loaded(m) # None THEN Calibration!Loaded(m) ELSE prior
  <2>1. \/ store' = [store EXCEPT !.raised = TRUE]
        \/ store' = [store EXCEPT !.resolved[m] = got]
    BY <1>3 DEF Calibration!Resolve, None, Calibration!None
  <2>2. got # None => Usable(got, m)
    BY LoadedUsable, PriorUsable
  <2> HIDE DEF got
  <2>3. CASE store' = [store EXCEPT !.raised = TRUE]
    <3>1. /\ store'.disk = store.disk /\ store'.saved = store.saved
          /\ store'.resolved = store.resolved /\ store'.savers = store.savers
          /\ store' = [f \in {"disk", "savers", "saved", "resolved", "raised", "spent"} |->
                         store'[f]]
      BY <1>1, <2>3 DEF StoreShape
    <3> QED
      BY <1>1, <3>1 DEF StoreSound, StoreShape
  <2>4. CASE store' = [store EXCEPT !.resolved[m] = got]
    <3>1. /\ store'.disk = store.disk /\ store'.saved = store.saved
          /\ store'.resolved = [store.resolved EXCEPT ![m] = got]
          /\ store'.savers = store.savers
          /\ store' = [f \in {"disk", "savers", "saved", "resolved", "raised", "spent"} |->
                         store'[f]]
      BY <1>1, <2>4 DEF StoreShape
    <3>2. StoreShape(store')
      BY <1>1, <3>1 DEF StoreShape
    <3>3. ASSUME NEW n \in Machines, store'.resolved[n] # None
          PROVE  Usable(store'.resolved[n], n)
      <4>1. store'.resolved[n] = IF n = m THEN got ELSE store.resolved[n]
        BY <1>1, <3>1 DEF StoreShape
      <4> QED
        BY <2>2, <3>3, <4>1 DEF StoreSound
    <3> QED
      BY <3>1, <3>2, <3>3 DEF StoreSound
  <2> QED
    BY <2>1, <2>3, <2>4
<1> QED
  BY <1>2, <1>3

LEMMA StoreInvInit == ControlInit => StoreInv
<1> SUFFICES ASSUME ControlInit, store # None
             PROVE  StoreSound(store)
  BY DEF StoreInv
<1>1. store = [disk |-> [m \in Machines |-> None], savers |-> [x \in Savers |-> None],
               saved |-> [m \in Machines |-> FALSE],
               resolved |-> [m \in Machines |-> None], raised |-> FALSE, spent |-> 0]
  BY OnePart DEF Calibration!StoreInit, None, Calibration!None
<1>2. StoreShape(store)
  BY <1>1 DEF StoreShape
<1> QED
  BY <1>1, <1>2 DEF StoreSound

LEMMA StoreInvStep == StoreInv /\ [ControlNext]_controlVars => StoreInv'
<1> SUFFICES ASSUME StoreInv, [ControlNext]_controlVars
             PROVE  StoreInv'
  OBVIOUS
<1>1. CASE UNCHANGED store
  BY <1>1 DEF StoreInv
<1>2. CASE store # None /\ Calibration!StoreNext
  BY <1>2, SaverKeeps, FileKeeps DEF StoreInv, Calibration!StoreNext
<1> QED
  BY <1>1, <1>2, PartsApart

(* control/cache.py:29 and control/record.py:119: whatever becomes of the  *)
(* saves and of the files of a cache, a machine that was calibrated gets   *)
(* its measured record, and the losses that can be scored of what a loader *)
(* was given lie between those that were measured, below one.              *)
THEOREM CalibrationsKept == ControlSpec => []CalibrationKept
<1>1. StoreInv => CalibrationKept
  <2> SUFFICES ASSUME StoreSound(store)
               PROVE  Calibration!CurvesUsable /\ Calibration!MeasuredKept
    BY DEF StoreInv, CalibrationKept
  <2>1. Calibration!CurvesUsable
    <3> SUFFICES ASSUME NEW m \in Machines, store.resolved[m] # None
                 PROVE  /\ store.resolved[m].machine = m
                        /\ Calibration!Sound(store.resolved[m].bandwidth)
                        /\ \A i \in DOMAIN store.resolved[m].steal :
                               Calibration!Sound(store.resolved[m].steal[i].points)
      BY DEF Calibration!CurvesUsable, None, Calibration!None
    <3>1. Usable(store.resolved[m], m)
      BY DEF StoreSound
    <3> QED
      BY <3>1, GoodPointsSound DEF Usable
  <2>2. Calibration!MeasuredKept
    <3> SUFFICES ASSUME NEW m \in Machines, store.saved[m]
                 PROVE  Calibration!Loaded(m) = Calibration!Payload(m)
      BY DEF Calibration!MeasuredKept
    <3>1. store.disk[m] = Measured(m)
      BY DEF StoreSound
    <3>2. /\ store.disk[m] # None /\ store.disk[m].whole
          /\ store.disk[m].payload = Calibration!Payload(m)
      BY <3>1, MeasuredFields
    <3>3. /\ Calibration!ValidRecord(Calibration!Payload(m))
          /\ Calibration!Payload(m).machine = m
      BY PayloadUsable DEF Usable
    <3> QED
      BY <3>2, <3>3 DEF Calibration!Loaded, None, Calibration!None
  <2> QED
    BY <2>1, <2>2
<1> QED
  BY <1>1, StoreInvInit, StoreInvStep, PTL DEF ControlSpec

-----------------------------------------------------------------------------
(* The hand-over of the first sample.                                      *)

CommandType == [epoch : Nat, position : Probe!Positions]

ValueType == [position : Probe!Positions, first : Nat, rest : Nat]

PoolType ==
    [key : Nat, at : {0}, retained : BOOLEAN, kept : BOOLEAN,
     immediate : Seq(ValueType), queues : [Probe!Workers -> Seq(CommandType)],
     results : [Probe!Workers -> Seq(ValueType)], turn : Probe!Workers]

Sendings == UNION {[D -> Probe!Workers] : D \in SUBSET Probe!Positions}

IteratorType ==
    [epoch : Nat, base : Nat, ordinal : Nat, sent : Sendings, ready : SUBSET ValueType]

EpochType == [current : Nat, active : Int, delivered : BOOLEAN, override : BOOLEAN]

HandoffType ==
    [config : HandoffConfigs, pool : {None} \cup PoolType, epochs : EpochType,
     cursor : Nat, it : {None} \cup IteratorType, calling : BOOLEAN,
     own : BOOLEAN, error : {"none", "routing", "frontier"}, spent : Nat]

(* Commands and values of the epoch at their positions.                    *)
Asked(c, w, it) ==
    c.epoch = it.epoch /\ c.position \in DOMAIN it.sent /\ it.sent[c.position] = w

Answer(v, w, it) ==
    /\ v = Probe!Fresh(v.position, it.epoch)
    /\ v.position \in DOMAIN it.sent /\ it.sent[v.position] = w

(* The position is nowhere in the line of the worker.                      *)
NotAsked(p, w, q) ==
    /\ \A i \in 1..Len(p.queues[w]) : p.queues[w][i].position # q
    /\ \A i \in 1..Len(p.results[w]) : p.results[w][i].position # q

(* What a worker has yet to evaluate and what it has not given back: each  *)
(* was sent to it and is there once.                                       *)
LineOf(p, w, it) ==
    /\ \A i \in 1..Len(p.queues[w]) : Asked(p.queues[w][i], w, it)
    /\ \A i \in 1..Len(p.results[w]) : Answer(p.results[w][i], w, it)
    /\ \A i, j \in 1..Len(p.queues[w]) :
           p.queues[w][i].position = p.queues[w][j].position => i = j
    /\ \A i, j \in 1..Len(p.results[w]) :
           p.results[w][i].position = p.results[w][j].position => i = j
    /\ \A i \in 1..Len(p.queues[w]), j \in 1..Len(p.results[w]) :
           p.queues[w][i].position # p.results[w][j].position

(* What is ready is in no line, and neither is what the owner holds.       *)
Lines(p, it) ==
    /\ \A q \in DOMAIN it.sent : it.base <= q
    /\ 0 \in DOMAIN it.sent => it.sent[0] = 0
    /\ \A w \in Probe!Workers : LineOf(p, w, it)
    /\ \A v \in it.ready :
           /\ v = Probe!Fresh(v.position, it.epoch) /\ v.position \in DOMAIN it.sent
           /\ \A w \in Probe!Workers : NotAsked(p, w, v.position)
    /\ p.immediate # <<>> =>
           /\ p.immediate = <<Probe!Fresh(0, it.epoch)>>
           /\ 0 \in DOMAIN it.sent /\ \A v \in it.ready : v.position # 0
           /\ \A w \in Probe!Workers : NotAsked(p, w, 0)

(* The first position is the first sent, and an owner that holds its value *)
(* has a pool with more under way, which is not used again.                *)
Aimed(it) == it.base = 0 => 0 \in DOMAIN it.sent

Heard(p) == p.immediate # <<>> => Probe!HasPending(p)

Idle(p) == p.immediate = <<>> /\ ~Probe!HasPending(p)

(* With whole batches worker zero keeps the value until it evaluates the   *)
(* first of them, in the epoch of the probe.                               *)
KeptForEpoch(h) ==
    /\ ~h.epochs.override /\ h.cursor = 0
    /\ h.pool # None /\ h.pool.kept =>
           /\ h.pool.key = h.epochs.current /\ ~h.epochs.delivered
           /\ h.it # None =>
                  /\ h.it.epoch = h.pool.key /\ h.it.base = 0
                  /\ \A w \in Probe!Workers :
                         \A i \in 1..Len(h.pool.results[w]) :
                             h.pool.results[w][i].position # 0
                  /\ \A v \in h.it.ready : v.position # 0

(* With one sample at a time the owner has it until the first call.        *)
RetainedForEpoch(h) ==
    /\ ~h.epochs.override /\ h.cursor = 0
    /\ h.pool # None =>
           /\ Idle(h.pool)
           /\ h.pool.retained =>
                  /\ h.pool.turn = 0 /\ h.pool.key = h.epochs.current
                  /\ ~h.epochs.delivered
                  /\ h.it # None => h.it.epoch = h.pool.key /\ h.it.base = 0

HandoffSound(h) ==
    /\ h \in HandoffType
    /\ h.own /\ h.error = "none"
    /\ h.calling => h.it # None
    /\ h.calling => h.it.base < HandoffLength
    /\ h.it # None => h.pool # None
    /\ h.config.kind # "execute" /\ h.pool # None =>
           IF h.it = None THEN Idle(h.pool)
           ELSE Lines(h.pool, h.it) /\ Aimed(h.it) /\ Heard(h.pool)
    /\ h.config.kind = "batches" =>
           (h.pool # None => h.pool.immediate = <<>>) /\ KeptForEpoch(h)
    /\ h.config.kind = "execute" => RetainedForEpoch(h)

HandoffInv == handoff # None => HandoffSound(handoff)

(* Where the probe is delivered for its own command only: samples whose    *)
(* window holds two, and whole batches or a user's sampler where no epoch  *)
(* is set and no state is loaded.                                          *)
ProbeMeets ==
    /\ HandoffLength >= 2
    /\ \A config \in HandoffConfigs :
           \/ config.kind = "samples" /\ config.depth >= 2
           \/ /\ config.kind \in {"batches", "execute"}
              /\ ~config.moves /\ ~config.loads

LEMMA HandoffLimits ==
    /\ HandoffWorkers \in Nat /\ HandoffWorkers > 0 /\ HandoffLength \in Nat
    /\ \A config \in HandoffConfigs : config.depth \in Nat /\ config.depth > 0
    /\ 0 \in Probe!Workers
  BY ControlAssumption DEF ControlAssumption, Probe!Workers

LEMMA HandoffNoneApart ==
    /\ \A p \in PoolType : p # None
    /\ \A it \in IteratorType : it # None
<1>1. DOMAIN None = {"none"}
  BY DEF None
<1>2. \A p \in PoolType : "key" \in DOMAIN p
  BY DEF PoolType
<1>3. \A it \in IteratorType : "base" \in DOMAIN it
  BY DEF IteratorType
<1> QED
  BY <1>1, <1>2, <1>3

LEMMA PoolUpdates ==
    ASSUME NEW p \in PoolType
    PROVE  /\ \A b \in BOOLEAN : [p EXCEPT !.retained = b] \in PoolType
           /\ \A b \in BOOLEAN : [p EXCEPT !.kept = b] \in PoolType
           /\ \A l \in Seq(ValueType) : [p EXCEPT !.immediate = l] \in PoolType
           /\ \A q \in [Probe!Workers -> Seq(CommandType)] :
                  [p EXCEPT !.queues = q] \in PoolType
           /\ \A q \in [Probe!Workers -> Seq(ValueType)] :
                  [p EXCEPT !.results = q] \in PoolType
           /\ \A t \in Probe!Workers : [p EXCEPT !.turn = t] \in PoolType
<1>1. \A b \in BOOLEAN : [p EXCEPT !.retained = b] \in PoolType
  BY DEF PoolType
<1>2. \A b \in BOOLEAN : [p EXCEPT !.kept = b] \in PoolType
  BY DEF PoolType
<1>3. \A l \in Seq(ValueType) : [p EXCEPT !.immediate = l] \in PoolType
  BY DEF PoolType
<1>4. \A q \in [Probe!Workers -> Seq(CommandType)] : [p EXCEPT !.queues = q] \in PoolType
  BY DEF PoolType
<1>5. \A q \in [Probe!Workers -> Seq(ValueType)] : [p EXCEPT !.results = q] \in PoolType
  BY DEF PoolType
<1>6. \A t \in Probe!Workers : [p EXCEPT !.turn = t] \in PoolType
  BY DEF PoolType
<1> QED
  BY <1>1, <1>2, <1>3, <1>4, <1>5, <1>6

LEMMA IteratorUpdates ==
    ASSUME NEW it \in IteratorType
    PROVE  /\ \A n \in Nat : [it EXCEPT !.base = n] \in IteratorType
           /\ \A n \in Nat : [it EXCEPT !.ordinal = n] \in IteratorType
           /\ \A s \in Sendings : [it EXCEPT !.sent = s] \in IteratorType
           /\ \A r \in SUBSET ValueType : [it EXCEPT !.ready = r] \in IteratorType
<1>1. \A n \in Nat : [it EXCEPT !.base = n] \in IteratorType
  BY DEF IteratorType
<1>2. \A n \in Nat : [it EXCEPT !.ordinal = n] \in IteratorType
  BY DEF IteratorType
<1>3. \A s \in Sendings : [it EXCEPT !.sent = s] \in IteratorType
  BY DEF IteratorType
<1>4. \A r \in SUBSET ValueType : [it EXCEPT !.ready = r] \in IteratorType
  BY DEF IteratorType
<1> QED
  BY <1>1, <1>2, <1>3, <1>4

LEMMA HandoffUpdates ==
    ASSUME NEW h \in HandoffType
    PROVE  /\ \A p \in {None} \cup PoolType : [h EXCEPT !.pool = p] \in HandoffType
           /\ \A e \in EpochType : [h EXCEPT !.epochs = e] \in HandoffType
           /\ \A n \in Nat : [h EXCEPT !.cursor = n] \in HandoffType
           /\ \A t \in {None} \cup IteratorType : [h EXCEPT !.it = t] \in HandoffType
           /\ \A b \in BOOLEAN : [h EXCEPT !.calling = b] \in HandoffType
           /\ \A b \in BOOLEAN : [h EXCEPT !.own = b] \in HandoffType
           /\ \A n \in Nat : [h EXCEPT !.spent = n] \in HandoffType
<1>1. \A p \in {None} \cup PoolType : [h EXCEPT !.pool = p] \in HandoffType
  BY DEF HandoffType
<1>2. \A e \in EpochType : [h EXCEPT !.epochs = e] \in HandoffType
  BY DEF HandoffType
<1>3. \A n \in Nat : [h EXCEPT !.cursor = n] \in HandoffType
  BY DEF HandoffType
<1>4. \A t \in {None} \cup IteratorType : [h EXCEPT !.it = t] \in HandoffType
  BY DEF HandoffType
<1>5. \A b \in BOOLEAN : [h EXCEPT !.calling = b] \in HandoffType
  BY DEF HandoffType
<1>6. \A b \in BOOLEAN : [h EXCEPT !.own = b] \in HandoffType
  BY DEF HandoffType
<1>7. \A n \in Nat : [h EXCEPT !.spent = n] \in HandoffType
  BY DEF HandoffType
<1> QED
  BY <1>1, <1>2, <1>3, <1>4, <1>5, <1>6, <1>7

(* Sequences, one element at either end.                                   *)
LEMMA AppendedTo ==
    ASSUME NEW S, NEW s \in Seq(S), NEW e \in S
    PROVE  /\ Append(s, e) \in Seq(S) /\ Len(Append(s, e)) = Len(s) + 1
           /\ \A i \in 1..Len(s) : Append(s, e)[i] = s[i]
           /\ Append(s, e)[Len(s) + 1] = e
           /\ Append(s, e) # <<>>
<1>1. Append(s, e) \in Seq(S) /\ Len(Append(s, e)) = Len(s) + 1
  OBVIOUS
<1>2. \A i \in 1..Len(s) : Append(s, e)[i] = s[i]
  OBVIOUS
<1>3. Append(s, e)[Len(s) + 1] = e
  OBVIOUS
<1>4. Len(s) \in Nat /\ Len(<<>>) = 0
  OBVIOUS
<1> QED
  BY <1>1, <1>2, <1>3, <1>4

LEMMA TakenFrom ==
    ASSUME NEW S, NEW s \in Seq(S), s # <<>>
    PROVE  /\ Head(s) \in S /\ Tail(s) \in Seq(S) /\ Len(Tail(s)) = Len(s) - 1
           /\ Len(s) >= 1 /\ Head(s) = s[1]
           /\ \A i \in 1..Len(Tail(s)) : Tail(s)[i] = s[i + 1] /\ i + 1 \in 1..Len(s)
<1>1. Len(s) >= 1 /\ Head(s) = s[1] /\ Head(s) \in S
  OBVIOUS
<1>2. Tail(s) \in Seq(S) /\ Len(Tail(s)) = Len(s) - 1
  OBVIOUS
<1>3. \A i \in 1..Len(Tail(s)) : Tail(s)[i] = s[i + 1] /\ i + 1 \in 1..Len(s)
  BY <1>1, <1>2
<1> QED
  BY <1>1, <1>2, <1>3

(* The lines of the workers, operation by operation.                       *)
LEMMA NoneAsked ==
    ASSUME NEW p, NEW it, NEW w, LineOf(p, w, it),
           NEW q, q \notin DOMAIN it.sent \/ it.sent[q] # w
    PROVE  NotAsked(p, w, q)
  BY DEF LineOf, NotAsked, Asked, Answer

(* One more command is sent, to another worker or not through a line.      *)
LEMMA OtherLine ==
    ASSUME NEW p, NEW it, NEW w, LineOf(p, w, it),
           NEW p2, NEW it2,
           p2.queues[w] = p.queues[w], p2.results[w] = p.results[w],
           it2.epoch = it.epoch,
           \A q \in DOMAIN it.sent : it.sent[q] = w =>
               q \in DOMAIN it2.sent /\ it2.sent[q] = w
    PROVE  LineOf(p2, w, it2)
  BY DEF LineOf, Asked, Answer

SentTo(it2, it, q, w) ==
    /\ it2.base = it.base /\ it2.epoch = it.epoch /\ it2.ready = it.ready
    /\ it2.sent = [r \in DOMAIN it.sent \cup {q} |-> IF r = q THEN w ELSE it.sent[r]]

LEMMA LinesQueued ==
    ASSUME NEW p \in PoolType, NEW it \in IteratorType, Lines(p, it),
           NEW p2 \in PoolType, NEW it2 \in IteratorType,
           NEW w \in Probe!Workers, NEW q \in Probe!Positions,
           q \notin DOMAIN it.sent, it.base <= q, q = 0 => w = 0,
           SentTo(it2, it, q, w),
           p2.queues = [p.queues EXCEPT ![w] =
                            Append(@, [epoch |-> it.epoch, position |-> q])],
           p2.results = p.results, p2.immediate = p.immediate
    PROVE  Lines(p2, it2) /\ Probe!HasPending(p2)
<1> DEFINE c == [epoch |-> it.epoch, position |-> q]
           Q == p.queues[w]
           Q2 == p2.queues[w]
           R == p.results[w]
<1>1. /\ DOMAIN it2.sent = DOMAIN it.sent \cup {q} /\ it2.sent[q] = w
      /\ \A r \in DOMAIN it.sent : it2.sent[r] = it.sent[r]
  BY DEF SentTo
<1>2. /\ Q \in Seq(CommandType) /\ c \in CommandType /\ R \in Seq(ValueType)
      /\ c.epoch = it.epoch /\ c.position = q
  BY DEF PoolType, IteratorType, CommandType
<1>3. Q2 = Append(Q, c) /\ \A x \in Probe!Workers : x # w => p2.queues[x] = p.queues[x]
  BY DEF PoolType
<1>4. LineOf(p, w, it)
  BY DEF Lines
<1>5. NotAsked(p, w, q)
  BY <1>4, NoneAsked
<1> HIDE DEF c
<1>6. /\ Len(Q2) = Len(Q) + 1 /\ Q2[Len(Q) + 1] = c /\ Q2 # <<>> /\ Len(Q) \in Nat
      /\ \A i \in 1..Len(Q) : Q2[i] = Q[i]
  BY <1>2, <1>3, AppendedTo
<1>7. LineOf(p2, w, it2)
  <2>1. \A i \in 1..Len(Q2) : i \in 1..Len(Q) \/ i = Len(Q) + 1
    BY <1>6
  <2>2. \A i \in 1..Len(Q2) : Asked(Q2[i], w, it2)
    BY <1>1, <1>2, <1>4, <1>6, <2>1 DEF LineOf, Asked, SentTo
  <2>3. \A i \in 1..Len(R) : Answer(R[i], w, it2)
    BY <1>1, <1>4 DEF LineOf, Answer, SentTo
  <2>4. \A i, j \in 1..Len(Q2) : Q2[i].position = Q2[j].position => i = j
    BY <1>2, <1>4, <1>5, <1>6, <2>1 DEF LineOf, NotAsked
  <2>5. \A i \in 1..Len(Q2), j \in 1..Len(R) : Q2[i].position # R[j].position
    BY <1>2, <1>4, <1>5, <1>6, <2>1 DEF LineOf, NotAsked
  <2> HIDE DEF Q, Q2
  <2> QED
    BY <1>4, <2>2, <2>3, <2>4, <2>5 DEF LineOf, Q2
<1>8. \A x \in Probe!Workers : LineOf(p2, x, it2)
  <2> SUFFICES ASSUME NEW x \in Probe!Workers, x # w
               PROVE  LineOf(p2, x, it2)
    BY <1>7
  <2>1. LineOf(p, x, it)
    BY DEF Lines
  <2>2. p2.queues[x] = p.queues[x] /\ p2.results[x] = p.results[x]
    BY <1>3
  <2>3. it2.epoch = it.epoch
    BY DEF SentTo
  <2>4. \A r \in DOMAIN it.sent : it.sent[r] = x =>
            r \in DOMAIN it2.sent /\ it2.sent[r] = x
    BY <1>1
  <2> QED
    BY <2>1, <2>2, <2>3, <2>4, OtherLine
<1>9. \A r \in DOMAIN it.sent, x \in Probe!Workers :
          NotAsked(p, x, r) => NotAsked(p2, x, r)
  <2> SUFFICES ASSUME NEW r \in DOMAIN it.sent, NEW x \in Probe!Workers,
                      NotAsked(p, x, r)
               PROVE  NotAsked(p2, x, r)
    OBVIOUS
  <2>1. CASE x = w
    <3>1. \A i \in 1..Len(Q2) : Q2[i].position # r
      BY <1>2, <1>6, <2>1 DEF NotAsked
    <3> QED
      BY <2>1, <3>1 DEF NotAsked
  <2>2. CASE x # w
    BY <1>3, <2>2 DEF NotAsked
  <2> QED
    BY <2>1, <2>2
<1>10. \A r \in DOMAIN it2.sent : it2.base <= r
  BY <1>1 DEF Lines, SentTo
<1>11. 0 \in DOMAIN it2.sent => it2.sent[0] = 0
  BY <1>1 DEF Lines
<1>12. \A v \in it2.ready :
           /\ v = Probe!Fresh(v.position, it2.epoch) /\ v.position \in DOMAIN it2.sent
           /\ \A x \in Probe!Workers : NotAsked(p2, x, v.position)
  BY <1>1, <1>9 DEF Lines, SentTo
<1>13. p2.immediate # <<>> =>
           /\ p2.immediate = <<Probe!Fresh(0, it2.epoch)>>
           /\ 0 \in DOMAIN it2.sent /\ \A v \in it2.ready : v.position # 0
           /\ \A x \in Probe!Workers : NotAsked(p2, x, 0)
  BY <1>1, <1>9 DEF Lines, SentTo
<1>14. Lines(p2, it2)
  BY <1>8, <1>10, <1>11, <1>12, <1>13 DEF Lines
<1>15. Probe!HasPending(p2)
  BY <1>6 DEF Probe!HasPending
<1> QED
  BY <1>14, <1>15

LEMMA LinesHeld ==
    ASSUME NEW p \in PoolType, NEW it \in IteratorType, Lines(p, it),
           NEW p2 \in PoolType, NEW it2 \in IteratorType,
           0 \notin DOMAIN it.sent, it.base = 0, p.immediate = <<>>,
           SentTo(it2, it, 0, 0),
           p2.queues = p.queues, p2.results = p.results,
           p2.immediate = <<Probe!Fresh(0, it.epoch)>>
    PROVE  Lines(p2, it2)
<1>1. /\ DOMAIN it2.sent = DOMAIN it.sent \cup {0} /\ it2.sent[0] = 0
      /\ \A r \in DOMAIN it.sent : it2.sent[r] = it.sent[r]
  BY DEF SentTo
<1>2. \A x \in Probe!Workers : LineOf(p2, x, it2)
  <2> SUFFICES ASSUME NEW x \in Probe!Workers
               PROVE  LineOf(p2, x, it2)
    OBVIOUS
  <2>1. LineOf(p, x, it)
    BY DEF Lines
  <2> QED
    BY <1>1, <2>1, OtherLine DEF SentTo
<1>3. \A x, q : NotAsked(p, x, q) => NotAsked(p2, x, q)
  BY DEF NotAsked
<1>4. \A x \in Probe!Workers : NotAsked(p2, x, 0)
  BY <1>3, NoneAsked DEF Lines
<1>5. \A v \in it2.ready :
          /\ v = Probe!Fresh(v.position, it2.epoch) /\ v.position \in DOMAIN it2.sent
          /\ \A x \in Probe!Workers : NotAsked(p2, x, v.position)
  BY <1>1, <1>3 DEF Lines, SentTo
<1>6. \A v \in it2.ready : v.position # 0
  BY DEF Lines, SentTo
<1>7. \A r \in DOMAIN it2.sent : it2.base <= r
  <2>1. it.base = 0 /\ it2.base = it.base
    BY DEF SentTo
  <2> QED
    BY <1>1, <2>1 DEF Lines
<1> QED
  BY <1>1, <1>2, <1>4, <1>5, <1>6, <1>7 DEF Lines, SentTo

LEMMA LinesEvaluated ==
    ASSUME NEW p \in PoolType, NEW it \in IteratorType, Lines(p, it),
           NEW p2 \in PoolType, NEW w \in Probe!Workers, p.queues[w] # <<>>,
           NEW v \in ValueType,
           v = Probe!Fresh(Head(p.queues[w]).position, it.epoch),
           p2.queues = [p.queues EXCEPT ![w] = Tail(@)],
           p2.results = [p.results EXCEPT ![w] = Append(@, v)],
           p2.immediate = p.immediate
    PROVE  Lines(p2, it) /\ Probe!HasPending(p2)
<1> DEFINE Q == p.queues[w]
           Q2 == p2.queues[w]
           R == p.results[w]
           R2 == p2.results[w]
<1>1. Q \in Seq(CommandType) /\ R \in Seq(ValueType)
  BY DEF PoolType
<1>2. /\ Q2 = Tail(Q) /\ R2 = Append(R, v)
      /\ \A x \in Probe!Workers : x # w => /\ p2.queues[x] = p.queues[x]
                                          /\ p2.results[x] = p.results[x]
  BY DEF PoolType
<1>3. LineOf(p, w, it)
  BY DEF Lines
<1> DEFINE q == Q[1].position
<1>4. /\ Len(Q) >= 1 /\ Len(Q) \in Nat /\ Len(Q2) = Len(Q) - 1
      /\ \A i \in 1..Len(Q2) : Q2[i] = Q[i + 1] /\ i + 1 \in 1..Len(Q) /\ i + 1 # 1
      /\ Head(Q) = Q[1]
  <2>1. /\ Len(Q) >= 1 /\ Len(Tail(Q)) = Len(Q) - 1 /\ Head(Q) = Q[1]
        /\ \A i \in 1..Len(Tail(Q)) : Tail(Q)[i] = Q[i + 1] /\ i + 1 \in 1..Len(Q)
    BY <1>1, TakenFrom, Zenon
  <2>2. Len(Q) \in Nat 
    BY <1>1
  <2>3. \A i \in 1..Len(Tail(Q)) : i + 1 # 1
    OBVIOUS
  <2> HIDE DEF Q
  <2> QED
    BY <1>2, <2>1, <2>2, <2>3
<1>5. /\ Len(R2) = Len(R) + 1 /\ Len(R) \in Nat /\ R2[Len(R) + 1] = v /\ R2 # <<>>
      /\ \A i \in 1..Len(R) : R2[i] = R[i]
  BY <1>1, <1>2, AppendedTo
<1>6. v.position = q /\ v = Probe!Fresh(q, it.epoch)
  BY <1>4 DEF Probe!Fresh, Probe!Value
<1>7. /\ 1 \in 1..Len(Q) /\ q \in DOMAIN it.sent /\ it.sent[q] = w
      /\ \A i \in 1..Len(Q2) : Q2[i].position # q
      /\ \A i \in 1..Len(R) : R[i].position # q
  BY <1>3, <1>4 DEF LineOf, Asked
<1> HIDE DEF q
<1>8. \A i \in 1..Len(R2) : i \in 1..Len(R) \/ i = Len(R) + 1
  BY <1>5
<1>9. LineOf(p2, w, it)
  <2>1. \A i \in 1..Len(Q2) : Asked(Q2[i], w, it)
    BY <1>3, <1>4 DEF LineOf
  <2>2. \A i \in 1..Len(R2) : Answer(R2[i], w, it)
    BY <1>3, <1>5, <1>6, <1>7, <1>8 DEF LineOf, Answer
  <2>3. \A i, j \in 1..Len(Q2) : Q2[i].position = Q2[j].position => i = j
    BY <1>3, <1>4 DEF LineOf
  <2>4. \A i, j \in 1..Len(R2) : R2[i].position = R2[j].position => i = j
    BY <1>3, <1>5, <1>6, <1>7, <1>8 DEF LineOf
  <2>5. \A i \in 1..Len(Q2), j \in 1..Len(R2) : Q2[i].position # R2[j].position
    <3> SUFFICES ASSUME NEW i \in 1..Len(Q2), NEW j \in 1..Len(R2)
                 PROVE  Q2[i].position # R2[j].position
      OBVIOUS
    <3>1. CASE j \in 1..Len(R)
      BY <1>3, <1>4, <1>5, <3>1 DEF LineOf
    <3>2. CASE j = Len(R) + 1
      <4>1. R2[j] = v
        BY <1>5, <3>2
      <4>2. R2[j].position = q
        BY <1>6, <4>1
      <4> QED
        BY <1>7, <4>2
    <3> QED
      BY <1>8, <3>1, <3>2
  <2> HIDE DEF Q, R
  <2> QED
    BY <2>1, <2>2, <2>3, <2>4, <2>5 DEF LineOf, Q2, R2
<1>10. \A x \in Probe!Workers : LineOf(p2, x, it)
  <2> SUFFICES ASSUME NEW x \in Probe!Workers, x # w
               PROVE  LineOf(p2, x, it)
    BY <1>9
  <2>1. LineOf(p, x, it)
    BY DEF Lines
  <2>2. p2.queues[x] = p.queues[x] /\ p2.results[x] = p.results[x]
    BY <1>2
  <2> QED
    BY <2>1, <2>2, OtherLine
<1>11. \A r, x : x \in Probe!Workers /\ NotAsked(p, x, r) => NotAsked(p2, x, r)
  <2> SUFFICES ASSUME NEW r, NEW x \in Probe!Workers, NotAsked(p, x, r)
               PROVE  NotAsked(p2, x, r)
    OBVIOUS
  <2>1. CASE x = w
    <3>1. \A i \in 1..Len(Q2) : Q2[i].position # r
      BY <1>4, <2>1 DEF NotAsked
    <3>2. q # r
      BY <1>7, <2>1 DEF NotAsked, q
    <3>3. \A i \in 1..Len(R2) : R2[i].position # r
      BY <1>5, <1>6, <1>8, <2>1, <3>2 DEF NotAsked
    <3> QED
      BY <2>1, <3>1, <3>3 DEF NotAsked
  <2>2. CASE x # w
    BY <1>2, <2>2 DEF NotAsked
  <2> QED
    BY <2>1, <2>2
<1>12. Lines(p2, it)
  BY <1>10, <1>11 DEF Lines
<1>13. Probe!HasPending(p2)
  BY <1>5 DEF Probe!HasPending
<1> QED
  BY <1>12, <1>13

ReadyWith(it2, it, v) ==
    /\ it2.base = it.base /\ it2.epoch = it.epoch /\ it2.sent = it.sent
    /\ it2.ready = it.ready \cup {v}

LEMMA LinesReceived ==
    ASSUME NEW p \in PoolType, NEW it \in IteratorType, Lines(p, it),
           NEW p2 \in PoolType, NEW it2 \in IteratorType,
           NEW w \in Probe!Workers, p.results[w] # <<>>, p.immediate = <<>>,
           ReadyWith(it2, it, Head(p.results[w])),
           p2.queues = p.queues, p2.immediate = <<>>,
           p2.results = [p.results EXCEPT ![w] = Tail(@)]
    PROVE  Lines(p2, it2)
<1> DEFINE R == p.results[w]
           R2 == p2.results[w]
           v == R[1]
           q == v.position
<1>1. R \in Seq(ValueType) /\ p.queues[w] \in Seq(CommandType)
  BY DEF PoolType
<1>2. /\ R2 = Tail(R)
      /\ \A x \in Probe!Workers : x # w => p2.results[x] = p.results[x]
  BY DEF PoolType
<1>3. LineOf(p, w, it)
  BY DEF Lines
<1>4. /\ Len(R) >= 1 /\ Len(R) \in Nat /\ Len(R2) = Len(R) - 1
      /\ \A i \in 1..Len(R2) : R2[i] = R[i + 1] /\ i + 1 \in 1..Len(R) /\ i + 1 # 1
      /\ Head(R) = v
  <2>1. /\ Len(R) >= 1 /\ Len(Tail(R)) = Len(R) - 1 /\ Head(R) = R[1]
        /\ \A i \in 1..Len(Tail(R)) : Tail(R)[i] = R[i + 1] /\ i + 1 \in 1..Len(R)
    BY <1>1, TakenFrom, Zenon
  <2>2. Len(R) \in Nat
    BY <1>1
  <2>3. \A i \in 1..Len(Tail(R)) : i + 1 # 1
    OBVIOUS
  <2> HIDE DEF R
  <2> QED
    BY <1>2, <2>1, <2>2, <2>3
<1>5. /\ 1 \in 1..Len(R) /\ Answer(v, w, it)
      /\ \A i \in 1..Len(R2) : R2[i].position # q
      /\ \A i \in 1..Len(p.queues[w]) : p.queues[w][i].position # q
  BY <1>3, <1>4 DEF LineOf
<1> HIDE DEF v
<1>6. it2.ready = it.ready \cup {v} /\ it2.base = it.base
      /\ it2.epoch = it.epoch /\ it2.sent = it.sent
  BY <1>4 DEF ReadyWith
<1>7. LineOf(p2, w, it2)
  <2> DEFINE S == p2.queues[w]
  <2>6. S = p.queues[w]
    OBVIOUS
  <2>1. \A i \in 1..Len(S) : Asked(S[i], w, it2)
    BY <1>3, <2>6, <1>6 DEF LineOf, Asked
  <2>2. \A i \in 1..Len(R2) : Answer(R2[i], w, it2)
    BY <1>3, <2>6, <1>4, <1>6 DEF LineOf, Answer
  <2>3. \A i, j \in 1..Len(R2) : R2[i].position = R2[j].position => i = j
    BY <1>3, <2>6, <1>4 DEF LineOf
  <2>4. \A i \in 1..Len(S), j \in 1..Len(R2) :
            S[i].position # R2[j].position
    BY <1>3, <2>6, <1>4 DEF LineOf
  <2>5. \A i, j \in 1..Len(S) :
            S[i].position = S[j].position => i = j
    BY <1>3, <2>6 DEF LineOf
  <2> HIDE DEF R, R2, S
  <2> QED
    BY <2>1, <2>2, <2>3, <2>4, <2>5 DEF LineOf, R2, S
<1>8. \A x \in Probe!Workers : LineOf(p2, x, it2)
  <2> SUFFICES ASSUME NEW x \in Probe!Workers, x # w
               PROVE  LineOf(p2, x, it2)
    BY <1>7
  <2>1. LineOf(p, x, it)
    BY DEF Lines
  <2>2. p2.queues[x] = p.queues[x] /\ p2.results[x] = p.results[x]
    BY <1>2
  <2> QED
    BY <1>6, <2>1, <2>2, OtherLine
<1>9. \A r, x : x \in Probe!Workers /\ NotAsked(p, x, r) => NotAsked(p2, x, r)
  <2> SUFFICES ASSUME NEW r, NEW x \in Probe!Workers, NotAsked(p, x, r)
               PROVE  NotAsked(p2, x, r)
    OBVIOUS
  <2>1. CASE x = w
    <3>1. \A i \in 1..Len(R2) : R2[i].position # r
      BY <1>4, <2>1 DEF NotAsked
    <3> QED
      BY <2>1, <3>1 DEF NotAsked
  <2>2. CASE x # w
    BY <1>2, <2>2 DEF NotAsked
  <2> QED
    BY <2>1, <2>2
<1>10. \A x \in Probe!Workers : NotAsked(p2, x, q)
  <2> SUFFICES ASSUME NEW x \in Probe!Workers
               PROVE  NotAsked(p2, x, q)
    OBVIOUS
  <2>1. CASE x = w
    BY <1>5, <2>1 DEF NotAsked
  <2>2. CASE x # w
    <3>1. LineOf(p, x, it) /\ it.sent[q] # x
      BY <1>5, <2>2 DEF Lines, Answer
    <3> QED
      BY <1>9, <3>1, NoneAsked
  <2> QED
    BY <2>1, <2>2
<1>11. \A u \in it2.ready :
           /\ u = Probe!Fresh(u.position, it2.epoch) /\ u.position \in DOMAIN it2.sent
           /\ \A x \in Probe!Workers : NotAsked(p2, x, u.position)
  <2> SUFFICES ASSUME NEW u \in it2.ready
               PROVE  /\ u = Probe!Fresh(u.position, it2.epoch)
                      /\ u.position \in DOMAIN it2.sent
                      /\ \A x \in Probe!Workers : NotAsked(p2, x, u.position)
    OBVIOUS
  <2>1. CASE u = v
    BY <1>5, <1>6, <1>10, <2>1 DEF Answer
  <2>2. CASE u \in it.ready
    BY <1>6, <1>9, <2>2 DEF Lines
  <2> QED
    BY <1>6, <2>1, <2>2
<1> HIDE DEF R, R2, q
<1> QED
  BY <1>6, <1>8, <1>11 DEF Lines

LEMMA LinesTaken ==
    ASSUME NEW p \in PoolType, NEW it \in IteratorType, Lines(p, it),
           NEW p2 \in PoolType, NEW it2 \in IteratorType, p.immediate # <<>>,
           ReadyWith(it2, it, Probe!Fresh(0, it.epoch)),
           p2.queues = p.queues, p2.results = p.results, p2.immediate = <<>>
    PROVE  Lines(p2, it2)
<1> DEFINE v == Probe!Fresh(0, it.epoch)
<1>1. v.position = 0
  BY DEF Probe!Fresh, Probe!Value
<1>2. 0 \in DOMAIN it.sent /\ \A x \in Probe!Workers : NotAsked(p, x, 0)
  BY DEF Lines
<1> HIDE DEF v
<1>3. it2.ready = it.ready \cup {v} /\ it2.base = it.base
      /\ it2.epoch = it.epoch /\ it2.sent = it.sent
  BY DEF ReadyWith, v
<1>4. \A x, r : NotAsked(p, x, r) => NotAsked(p2, x, r)
  BY DEF NotAsked
<1>5. \A x \in Probe!Workers : LineOf(p2, x, it2)
  <2> SUFFICES ASSUME NEW x \in Probe!Workers
               PROVE  LineOf(p2, x, it2)
    OBVIOUS
  <2>1. LineOf(p, x, it)
    BY DEF Lines
  <2> QED
    BY <1>3, <2>1, OtherLine
<1>6. v = Probe!Fresh(v.position, it2.epoch)
  BY <1>1, <1>3 DEF v
<1>7. \A u \in it2.ready :
          /\ u = Probe!Fresh(u.position, it2.epoch) /\ u.position \in DOMAIN it2.sent
          /\ \A x \in Probe!Workers : NotAsked(p2, x, u.position)
  BY <1>1, <1>2, <1>3, <1>4, <1>6 DEF Lines
<1> QED
  BY <1>3, <1>5, <1>7 DEF Lines

LEMMA LinesDelivered ==
    ASSUME NEW p \in PoolType, NEW it \in IteratorType, Lines(p, it),
           NEW it2 \in IteratorType, NEW v \in it.ready, v.position = it.base,
           it2.base = it.base + 1, it2.epoch = it.epoch, it2.ready = it.ready \ {v},
           it2.sent = [q \in DOMAIN it.sent \ {it.base} |-> it.sent[q]]
    PROVE  Lines(p, it2)
<1>1. /\ DOMAIN it2.sent = DOMAIN it.sent \ {it.base}
      /\ \A q \in DOMAIN it2.sent : it2.sent[q] = it.sent[q]
  OBVIOUS
<1>2. \A x \in Probe!Workers : NotAsked(p, x, it.base)
  BY DEF Lines
<1>3. \A x \in Probe!Workers : LineOf(p, x, it2)
  <2> SUFFICES ASSUME NEW x \in Probe!Workers
               PROVE  LineOf(p, x, it2)
    OBVIOUS
  <2>1. LineOf(p, x, it)
    BY DEF Lines
  <2>2. \A i \in 1..Len(p.queues[x]) : Asked(p.queues[x][i], x, it2)
    BY <1>1, <1>2, <2>1 DEF LineOf, Asked, NotAsked
  <2>3. \A i \in 1..Len(p.results[x]) : Answer(p.results[x][i], x, it2)
    BY <1>1, <1>2, <2>1 DEF LineOf, Answer, NotAsked
  <2> QED
    BY <2>1, <2>2, <2>3 DEF LineOf
<1>4. \A u \in it2.ready : u.position # it.base
  BY DEF Lines
<1>5. \A u \in it2.ready :
          /\ u = Probe!Fresh(u.position, it2.epoch) /\ u.position \in DOMAIN it2.sent
          /\ \A x \in Probe!Workers : NotAsked(p, x, u.position)
  BY <1>1, <1>4 DEF Lines
<1>6. \A q \in DOMAIN it2.sent : it2.base <= q
  <2>1. \A q \in DOMAIN it.sent : q \in Nat
    BY DEF IteratorType, Sendings, Probe!Positions
  <2>2. it.base \in Nat
    BY DEF IteratorType
  <2> QED
    BY <1>1, <2>1, <2>2 DEF Lines
<1>7. p.immediate # <<>> => 0 # it.base
  BY DEF Lines
<1> QED
  BY <1>1, <1>3, <1>5, <1>6, <1>7 DEF Lines

-----------------------------------------------------------------------------
(* Filling the frontier.                                                   *)

Served(h) ==
    /\ h \in HandoffType /\ h.config.kind # "execute"
    /\ h.pool # None /\ h.it # None /\ Lines(h.pool, h.it)
    /\ h.config.kind = "batches" => h.pool.immediate = <<>>

(* What filling leaves alone.                                              *)
FilledFrom(g, h) ==
    /\ g.config = h.config /\ g.epochs = h.epochs /\ g.cursor = h.cursor
    /\ g.calling = h.calling /\ g.own = h.own /\ g.error = h.error
    /\ g.it.base = h.it.base /\ g.it.epoch = h.it.epoch /\ g.it.ready = h.it.ready
    /\ g.pool.key = h.pool.key /\ g.pool.kept = h.pool.kept
    /\ g.pool.results = h.pool.results

(* The first command of an iterator that starts at the front is the first. *)
StartsFirst(it) ==
    it.base = 0 /\ 0 \notin DOMAIN it.sent => it.ordinal = 0 /\ DOMAIN it.sent = {}

(* The owner has the value of the first, and nothing else is sent yet.     *)
Half(h) ==
    /\ h.config.kind = "samples" /\ h.it.base = 0
    /\ 0 \in DOMAIN h.it.sent /\ 1 \notin DOMAIN h.it.sent

LEMMA PartTypes ==
    ASSUME NEW h \in HandoffType
    PROVE  /\ h.pool # None => h.pool \in PoolType
           /\ h.it # None => h.it \in IteratorType
           /\ h.epochs \in EpochType /\ h.cursor \in Nat /\ h.config \in HandoffConfigs
           /\ h.calling \in BOOLEAN /\ h.spent \in Nat
  BY DEF HandoffType

LEMMA FreshTyped ==
    ASSUME NEW q \in Probe!Positions, NEW e \in Nat
    PROVE  Probe!Fresh(q, e) \in ValueType /\ Probe!Fresh(q, e).position = q
  BY DEF Probe!Fresh, Probe!Value, ValueType

LEMMA SubmitKeeps ==
    ASSUME ProbeMeets, NEW h, Served(h), NEW q \in Probe!Positions, NEW w \in Probe!Workers,
           q \notin DOMAIN h.it.sent, h.it.base <= q, q = 0 => w = 0,
           NEW it2 \in IteratorType, SentTo(it2, h.it, q, w)
    PROVE  LET g == Probe!Submitted(h, h.it.epoch, q, w)
           IN  /\ g \in HandoffType /\ g.pool \in PoolType /\ g.it = h.it
               /\ FilledFrom(g, h) /\ Lines(g.pool, it2)
               /\ g.config.kind = "batches" => g.pool.immediate = <<>>
               /\ \/ Probe!HasPending(g.pool)
                  \/ q = 0 /\ h.it.base = 0 /\ h.config.kind = "samples"
<1> DEFINE p == h.pool
           it == h.it
           probed == Probe!IsProbed(p, it.epoch, q)
           c == [epoch |-> it.epoch, position |-> q]
           g == Probe!Submitted(h, it.epoch, q, w)
<1>1. /\ h \in HandoffType /\ p \in PoolType /\ it \in IteratorType
      /\ Lines(p, it) /\ h.config.kind # "execute"
      /\ h.config.kind = "batches" => p.immediate = <<>>
      /\ h.config.kind # "batches" => h.config.kind = "samples"
  BY PartTypes DEF Served, ProbeMeets
<1>2. it.epoch \in Nat /\ p.key \in Nat /\ p.at = 0 /\ it.base \in Nat /\ q \in Nat
  BY <1>1 DEF IteratorType, PoolType, Probe!Positions
<1>3. CASE probed /\ h.config.kind # "batches"
  <2>1. q = 0 /\ w = 0 /\ it.base = 0 /\ it.epoch = p.key
    BY <1>2, <1>3 DEF Probe!IsProbed
  <2>2. p.immediate = <<>>
    BY <1>1, <2>1 DEF Lines
  <2> DEFINE v == Probe!Fresh(0, it.epoch)
             p1 == [p EXCEPT !.immediate = <<v>>]
             p2 == [p1 EXCEPT !.retained = FALSE]
  <2>3. v \in ValueType
    BY <1>2, <2>1, FreshTyped
  <2> HIDE DEF v
  <2>4. <<v>> \in Seq(ValueType) /\ Append(<<>>, v) = <<v>>
    BY <2>3
  <2>5. p1 \in PoolType
    BY <1>1, <2>4, PoolUpdates
  <2>6. p2 \in PoolType
    BY <2>5, FALSE \in BOOLEAN, PoolUpdates
  <2>7. /\ p2.queues = p.queues /\ p2.results = p.results /\ p2.immediate = <<v>>
        /\ p2.key = p.key /\ p2.kept = p.kept
    BY <1>1 DEF PoolType
  <2>8. g = [h EXCEPT !.pool.immediate = Append(@, Probe!Fresh(q, p.key)),
                      !.pool.retained = FALSE]
    BY <1>3, <2>1 DEF Probe!Submitted
  <2>9. Append(p.immediate, Probe!Fresh(q, p.key)) = <<v>>
    BY <2>1, <2>2, <2>4 DEF v
  <2>10. g = [h EXCEPT !.pool = p2]
    BY <1>1, <2>8, <2>9 DEF HandoffType, PoolType
  <2> HIDE DEF p2, g
  <2>11. g \in HandoffType
    BY <1>1, <2>6, <2>10, HandoffUpdates
  <2>12. /\ g.pool = p2 /\ g.it = it /\ g.config = h.config /\ g.epochs = h.epochs
         /\ g.cursor = h.cursor /\ g.calling = h.calling /\ g.own = h.own
         /\ g.error = h.error
    BY <1>1, <2>10 DEF HandoffType
  <2>13. Lines(p2, it2)
    BY <1>1, <2>1, <2>2, <2>6, <2>7, LinesHeld DEF v
  <2> QED
    BY <1>1, <1>3, <2>1, <2>6, <2>7, <2>11, <2>12, <2>13 DEF FilledFrom, g
<1>4. CASE ~(probed /\ h.config.kind # "batches")
  <2> DEFINE queues == [p.queues EXCEPT ![w] = Append(@, c)]
             left == p.retained /\ ~probed
             p1 == [p EXCEPT !.queues = queues]
             p2 == [p1 EXCEPT !.retained = left]
  <2>1. c \in CommandType
    BY <1>2 DEF CommandType
  <2>2. queues \in [Probe!Workers -> Seq(CommandType)]
    <3>1. p.queues \in [Probe!Workers -> Seq(CommandType)]
      BY <1>1 DEF PoolType
    <3> HIDE DEF c
    <3>2. Append(p.queues[w], c) \in Seq(CommandType)
      BY <2>1, <3>1, AppendedTo
    <3> QED
      BY <3>1, <3>2
  <2>3. g = [h EXCEPT !.pool.queues[w] = Append(@, c),
                      !.pool.retained = @ /\ ~probed]
    BY <1>4 DEF Probe!Submitted
  <2>4. left \in BOOLEAN
    OBVIOUS
  <2> HIDE DEF left, c, probed
  <2>5. g = [h EXCEPT !.pool = p2]
    BY <1>1, <2>3 DEF HandoffType, PoolType, left
  <2> HIDE DEF queues
  <2>6. p1 \in PoolType
    BY <1>1, <2>2, PoolUpdates
  <2>7. p2 \in PoolType
    BY <2>4, <2>6, PoolUpdates
  <2>8. /\ p2.queues = queues /\ p2.results = p.results
        /\ p2.immediate = p.immediate /\ p2.key = p.key /\ p2.kept = p.kept
    BY <1>1 DEF PoolType
  <2> HIDE DEF p1, p2, g
  <2>9. g \in HandoffType
    BY <1>1, <2>5, <2>7, HandoffUpdates
  <2>10. /\ g.pool = p2 /\ g.it = it /\ g.config = h.config /\ g.epochs = h.epochs
         /\ g.cursor = h.cursor /\ g.calling = h.calling /\ g.own = h.own
         /\ g.error = h.error
    BY <1>1, <2>5 DEF HandoffType
  <2>11. Lines(p2, it2) /\ Probe!HasPending(p2)
    BY <1>1, <2>7, <2>8, LinesQueued DEF queues, c
  <2> QED
    BY <1>1, <2>7, <2>8, <2>9, <2>10, <2>11 DEF FilledFrom, g
<1> QED
  BY <1>3, <1>4

(* A round of filling.                                                     *)
LEMMA FillRoundKeeps ==
    ASSUME ProbeMeets, NEW h, Served(h), StartsFirst(h.it)
    PROVE  LET g == Probe!FillRound(h)
           IN  /\ Served(g) /\ FilledFrom(g, h) /\ Aimed(g.it)
               /\ Aimed(h.it) /\ (Heard(h.pool) \/ Half(h)) => Heard(g.pool)
               /\ h.pool.immediate = <<>> => Heard(g.pool) \/ Half(g)
<1> DEFINE p == h.pool
           it == h.it
           g == Probe!FillRound(h)
           open == Probe!Open(h)
<1>1. /\ h \in HandoffType /\ p \in PoolType /\ it \in IteratorType /\ it # None
      /\ Lines(p, it) /\ h.config.kind # "execute" /\ h.config \in HandoffConfigs
      /\ h.config.kind = "batches" => p.immediate = <<>>
  BY PartTypes DEF Served
<1>2. /\ HandoffLength \in Nat /\ HandoffLength >= 2 /\ h.config.depth \in Nat
      /\ h.config.depth > 0
      /\ h.config.kind = "samples" => h.config.depth >= 2
      /\ it.base \in Nat /\ it.ordinal \in Nat
  BY <1>1, HandoffLimits DEF ProbeMeets, IteratorType
<1>3. open = {q \in it.base .. it.base + h.config.depth - 1 :
                  q \in Probe!Positions /\ q \notin DOMAIN it.sent}
  BY DEF Probe!Open
<1>4. it.base = 0 /\ 0 \notin DOMAIN it.sent => 0 \in open
  <2>1. it.base = 0 => 0 \in it.base .. it.base + h.config.depth - 1
    BY <1>2
  <2>2. 0 \in Probe!Positions
    BY <1>2 DEF Probe!Positions
  <2> QED
    BY <1>3, <2>1, <2>2
<1>5. Half(h) => 1 \in open
  <2>1. Half(h) => 1 \in it.base .. it.base + h.config.depth - 1 /\ 1 \notin DOMAIN it.sent
    BY <1>2 DEF Half
  <2>2. 1 \in Probe!Positions
    BY <1>2 DEF Probe!Positions
  <2> QED
    BY <1>3, <2>1, <2>2
<1>6. CASE open = {}
  <2>1. g = h
    BY <1>1, <1>6 DEF Probe!FillRound, None, Probe!None
  <2>2. Aimed(it)
    BY <1>4, <1>6 DEF Aimed
  <2>3. ~Half(h)
    BY <1>5, <1>6
  <2>4. h.pool.immediate = <<>> => Heard(h.pool)
    BY DEF Heard
  <2> HIDE DEF g
  <2> QED
    BY <2>1, <2>2, <2>3, <2>4 DEF FilledFrom, g
<1>7. CASE open # {}
  <2> DEFINE q == CHOOSE r \in open : \A s \in open : r <= s
             w == it.ordinal % HandoffWorkers
             s == Probe!Submitted(h, it.epoch, q, w)
             sent == [r \in DOMAIN it.sent \cup {q} |-> IF r = q THEN w ELSE it.sent[r]]
             i1 == [it EXCEPT !.ordinal = it.ordinal + 1]
             i2 == [i1 EXCEPT !.sent = sent]
  <2>1. q \in open /\ \A r \in open : q <= r
    <3>1. open \in SUBSET Nat
      BY <1>3 DEF Probe!Positions
    <3>2. \E r \in open : \A t \in open : r <= t
      BY <1>7, <3>1, Least
    <3> HIDE DEF open
    <3> QED
      BY <3>2
  <2> HIDE DEF q
  <2>2. /\ q \in Probe!Positions /\ q \notin DOMAIN it.sent /\ it.base <= q /\ q \in Nat
    BY <1>2, <1>3, <2>1 DEF Probe!Positions
  <2>3. q = 0 => it.base = 0 /\ it.ordinal = 0 /\ DOMAIN it.sent = {}
    BY <1>2, <2>2 DEF StartsFirst
  <2>4. w \in Probe!Workers /\ (q = 0 => w = 0)
    BY <1>2, <2>3, HandoffLimits DEF Probe!Workers
  <2> HIDE DEF w
  <2>5. sent \in Sendings
    <3>1. PICK D \in SUBSET Probe!Positions : it.sent \in [D -> Probe!Workers]
      BY <1>1 DEF IteratorType, Sendings
    <3>2. sent \in [D \cup {q} -> Probe!Workers]
      BY <2>4, <3>1
    <3>3. D \cup {q} \in SUBSET Probe!Positions
      BY <2>2
    <3> HIDE DEF sent
    <3> QED
      BY <3>2, <3>3 DEF Sendings
  <2>6. i1 \in IteratorType
    <3>1. it.ordinal + 1 \in Nat
      BY <1>2
    <3> QED
      BY <1>1, <3>1, IteratorUpdates
  <2>7. i2 \in IteratorType
    <3> HIDE DEF i1, sent
    <3> QED
      BY <2>5, <2>6, IteratorUpdates
  <2>8. SentTo(i2, it, q, w) /\ i2.sent = sent
    BY <1>1 DEF IteratorType, SentTo
  <2> HIDE DEF i2
  <2>9. /\ s \in HandoffType /\ s.pool \in PoolType /\ s.it = it
        /\ FilledFrom(s, h) /\ Lines(s.pool, i2)
        /\ s.config.kind = "batches" => s.pool.immediate = <<>>
        /\ \/ Probe!HasPending(s.pool)
           \/ q = 0 /\ it.base = 0 /\ h.config.kind = "samples"
    BY <2>2, <2>4, <2>7, <2>8, SubmitKeeps
  <2> HIDE DEF s
  <2>10. g = [s EXCEPT !.it.ordinal = @ + 1,
                       !.it.sent = [r \in DOMAIN @ \cup {q} |->
                                       IF r = q THEN w ELSE @[r]]]
    BY <1>1, <1>7, <2>9 DEF Probe!FillRound, None, Probe!None, q, w, s
  <2>11. g = [s EXCEPT !.it = i2]
    BY <1>1, <2>9, <2>10 DEF HandoffType, IteratorType, i2
  <2> HIDE DEF g, sent
  <2>12. g \in HandoffType
    BY <2>7, <2>9, <2>11, HandoffUpdates
  <2>13. /\ g.it = i2 /\ g.pool = s.pool /\ g.config = s.config
         /\ g.epochs = s.epochs /\ g.cursor = s.cursor /\ g.calling = s.calling
         /\ g.own = s.own /\ g.error = s.error
    BY <2>9, <2>11 DEF HandoffType
  <2>14. FilledFrom(g, h)
    BY <2>8, <2>9, <2>13 DEF FilledFrom, SentTo
  <2>15. Served(g)
    BY <1>1, <2>7, <2>9, <2>12, <2>13, <2>14, HandoffNoneApart DEF Served, FilledFrom
  <2>16. DOMAIN i2.sent = DOMAIN it.sent \cup {q} /\ i2.base = it.base
    BY <2>8 DEF SentTo
  <2>17. Aimed(g.it)
    <3> SUFFICES ASSUME it.base = 0, 0 \notin DOMAIN it.sent
                 PROVE  q = 0
      BY <2>13, <2>16 DEF Aimed
    <3> QED
      BY <1>4, <2>1, <2>2
  <2>18. q # 0 => Heard(g.pool)
    BY <2>9, <2>13 DEF Heard
  <2>19. Aimed(it) \/ Half(h) => q # 0
    BY <2>2, <2>3 DEF Aimed, Half
  <2>20. h.pool.immediate = <<>> => Heard(g.pool) \/ Half(g)
    <3>1. CASE Probe!HasPending(s.pool)
      BY <2>13, <3>1 DEF Heard
    <3>2. CASE ~Probe!HasPending(s.pool)
      <4>1. q = 0 /\ it.base = 0 /\ h.config.kind = "samples"
        BY <2>9, <3>2
      <4>2. DOMAIN i2.sent = {0}
        BY <2>3, <2>16, <4>1
      <4> QED
        BY <2>13, <2>14, <2>16, <4>1, <4>2 DEF Half, FilledFrom
    <3> QED
      BY <3>1, <3>2
  <2> QED
    BY <2>14, <2>15, <2>17, <2>18, <2>19, <2>20 DEF g
<1> QED
  BY <1>6, <1>7

LEMMA FilledKeepsAll ==
    \A g1, g2, h : FilledFrom(g1, g2) /\ FilledFrom(g2, h) => FilledFrom(g1, h)
  BY DEF FilledFrom

RoundsTo(f, n, h) ==
    f = [i \in 0..n |-> IF i = 0 THEN h ELSE Probe!FillRound(f[i - 1])]

LEMMA RoundsExist ==
    ASSUME NEW h, NEW n \in Nat
    PROVE  \E f : RoundsTo(f, n, h)
<1> DEFINE Bad == {k \in Nat : ~\E f : RoundsTo(f, k, h)}
<1> SUFFICES ASSUME Bad # {}
             PROVE  FALSE
  OBVIOUS
<1>1. PICK m \in Bad : \A k \in Bad : m <= k
  <2>1. Bad \in SUBSET Nat
    OBVIOUS
  <2> HIDE DEF Bad
  <2> QED
    BY <2>1, Least
<1>2. m \in Nat /\ ~\E f : RoundsTo(f, m, h)
  OBVIOUS
<1>3. m # 0
  <2> DEFINE f == [i \in 0..0 |-> h]
  <2>1. \A i \in 0..0 : i = 0
    OBVIOUS
  <2>2. RoundsTo(f, 0, h)
    BY <2>1 DEF RoundsTo
  <2> HIDE DEF f
  <2> QED
    BY <1>2, <2>2
<1>4. m - 1 \in Nat /\ m - 1 \notin Bad
  BY <1>1, <1>2, <1>3
<1>5. PICK f : RoundsTo(f, m - 1, h)
  BY <1>4
<1> DEFINE e == [i \in 0..m |-> IF i = m THEN Probe!FillRound(f[m - 1]) ELSE f[i]]
<1>6. DOMAIN e = 0..m /\ e[m] = Probe!FillRound(f[m - 1])
      /\ \A i \in 0..m : i # m => e[i] = f[i] /\ i \in 0..m - 1
  BY <1>2
<1>7. \A i \in 0..m : e[i] = IF i = 0 THEN h ELSE Probe!FillRound(e[i - 1])
  <2> SUFFICES ASSUME NEW i \in 0..m
               PROVE  e[i] = IF i = 0 THEN h ELSE Probe!FillRound(e[i - 1])
    OBVIOUS
  <2> HIDE DEF e
  <2>1. i # 0 => i - 1 \in 0..m /\ i - 1 # m
    BY <1>2
  <2>2. CASE i = m
    <3>1. e[m - 1] = f[m - 1]
      BY <1>3, <1>6, <2>1, <2>2
    <3> QED
      BY <1>3, <1>6, <2>2, <3>1
  <2>3. CASE i # m
    <3>1. e[i] = f[i] /\ i \in 0..m - 1 /\ (i # 0 => e[i - 1] = f[i - 1])
      BY <1>6, <2>1, <2>3
    <3>2. f[i] = IF i = 0 THEN h ELSE Probe!FillRound(f[i - 1])
      BY <1>5, <3>1 DEF RoundsTo
    <3> QED
      BY <3>1, <3>2
  <2> QED
    BY <2>2, <2>3
<1>8. RoundsTo(e, m, h)
  BY <1>7, Zenon DEF RoundsTo, e
<1> HIDE DEF e
<1> QED
  BY <1>2, <1>8

LEMMA FilledKeeps ==
    ASSUME ProbeMeets, NEW h, Served(h), StartsFirst(h.it),
           h.pool.immediate = <<>> \/ (Aimed(h.it) /\ Heard(h.pool))
    PROVE  LET g == Probe!Filled(h)
           IN  Served(g) /\ FilledFrom(g, h) /\ Aimed(g.it) /\ Heard(g.pool)
<1> DEFINE N == HandoffLength
           f == CHOOSE f : RoundsTo(f, N, h)
<1>1. N \in Nat /\ N >= 2
  BY HandoffLimits DEF ProbeMeets
<1>2. Probe!Filled(h) = f[N]
  BY DEF Probe!Filled, RoundsTo
<1>3. RoundsTo(f, N, h)
  BY <1>1, RoundsExist
<1> HIDE DEF f
<1>4. /\ f[0] = h
      /\ \A i \in 0..N : i # 0 => f[i] = Probe!FillRound(f[i - 1])
  BY <1>1, <1>3 DEF RoundsTo
<1> DEFINE Good(i) == /\ Served(f[i]) /\ FilledFrom(f[i], h)
                      /\ i = 0 \/ (Aimed(f[i].it) /\ (Heard(f[i].pool) \/ Half(f[i])))
                      /\ i >= 2 => Heard(f[i].pool)
           Bad == {k \in 0..N : ~Good(k)}
<1>5. \A k \in 0..N : Good(k)
  <2> SUFFICES ASSUME Bad # {}
               PROVE  FALSE
    OBVIOUS
  <2>1. PICK m \in Bad : \A k \in Bad : m <= k
    <3>1. Bad \in SUBSET Nat
      OBVIOUS
    <3> HIDE DEF Bad
    <3> QED
      BY <3>1, Least
  <2>2. m \in 0..N /\ ~Good(m)
    OBVIOUS
  <2>3. m # 0
    <3>1. Good(0)
      BY <1>4 DEF FilledFrom
    <3> HIDE DEF Good
    <3> QED
      BY <2>2, <3>1
  <2>4. m - 1 \in 0..N /\ Good(m - 1)
    <3>1. m - 1 \in 0..N /\ m - 1 \notin Bad
      BY <1>1, <2>1, <2>2, <2>3
    <3> HIDE DEF Good
    <3> QED
      BY <3>1
  <2> DEFINE e == f[m - 1]
             g == f[m]
  <2>5. g = Probe!FillRound(e)
    BY <1>4, <2>2, <2>3
  <2>6. /\ Served(e) /\ FilledFrom(e, h)
        /\ m - 1 # 0 => Aimed(e.it) /\ (Heard(e.pool) \/ Half(e))
        /\ m - 1 = 0 => e = h
    BY <1>4, <2>4
  <2>7. StartsFirst(e.it)
    <3>1. CASE m - 1 = 0
      BY <2>6, <3>1
    <3>2. CASE m - 1 # 0
      BY <2>6, <3>2 DEF StartsFirst, Aimed
    <3> QED
      BY <3>1, <3>2
  <2> HIDE DEF e, g
  <2>8. /\ Served(g) /\ FilledFrom(g, e) /\ Aimed(g.it)
        /\ Aimed(e.it) /\ (Heard(e.pool) \/ Half(e)) => Heard(g.pool)
        /\ e.pool.immediate = <<>> => Heard(g.pool) \/ Half(g)
    BY <2>5, <2>6, <2>7, FillRoundKeeps
  <2>9. FilledFrom(g, h)
    BY <2>6, <2>8, FilledKeepsAll
  <2>10. Heard(g.pool) \/ Half(g)
    BY <2>6, <2>8
  <2>11. m >= 2 => Heard(g.pool)
    <3>1. m >= 2 => m - 1 # 0
      BY <2>2
    <3> QED
      BY <2>6, <2>8, <3>1
  <2>12. Good(m)
    BY <2>8, <2>9, <2>10, <2>11 DEF g
  <2> HIDE DEF Good
  <2> QED
    BY <2>2, <2>12
<1>6. N \in 0..N
  BY <1>1
<1>7. Good(N)
  <2> HIDE DEF Good
  <2> QED
    BY <1>5, <1>6
<1> QED
  BY <1>1, <1>2, <1>7

-----------------------------------------------------------------------------
(* Receiving what the workers have done.                                   *)

(* What receiving leaves alone.                                            *)
PolledFrom(g, h) ==
    /\ g.config = h.config /\ g.epochs = h.epochs /\ g.cursor = h.cursor
    /\ g.calling = h.calling /\ g.own = h.own /\ g.error = h.error
    /\ g.it.base = h.it.base /\ g.it.epoch = h.it.epoch /\ g.it.sent = h.it.sent
    /\ g.pool.key = h.pool.key /\ g.pool.kept = h.pool.kept

(* The first of the batches is not evaluated yet.                          *)
FirstOpen(p, it) ==
    /\ \A w \in Probe!Workers :
           \A i \in 1..Len(p.results[w]) : p.results[w][i].position # 0
    /\ \A v \in it.ready : v.position # 0

LEMMA ReceivedKeeps ==
    ASSUME NEW h, Served(h), NEW w \in Probe!Workers,
           w # 0 => h.pool.immediate = <<>>
    PROVE  LET g == Probe!Received(h, w)
           IN  /\ Served(g) /\ PolledFrom(g, h) /\ g.pool.immediate = <<>>
               /\ h.config.kind = "batches" /\ FirstOpen(h.pool, h.it) =>
                      FirstOpen(g.pool, g.it)
<1> DEFINE p == h.pool
           it == h.it
           g == Probe!Received(h, w)
<1>1. /\ h \in HandoffType /\ p \in PoolType /\ it \in IteratorType /\ it # None
      /\ Lines(p, it) /\ h.config.kind # "execute"
      /\ h.config.kind = "batches" => p.immediate = <<>>
  BY PartTypes DEF Served
<1>2. CASE w = 0 /\ p.immediate # <<>>
  <2> DEFINE v == Probe!Fresh(0, it.epoch)
             p2 == [p EXCEPT !.immediate = <<>>]
             h2 == [h EXCEPT !.pool = p2]
             i2 == [it EXCEPT !.ready = it.ready \cup {v}]
  <2>1. /\ p.immediate = <<v>> /\ 0 \in DOMAIN it.sent /\ it.sent[0] = 0
        /\ \A u \in it.ready : u.position # 0
    BY <1>1, <1>2 DEF Lines
  <2>2. v \in ValueType /\ v.position = 0
    <3>1. 0 \in Probe!Positions
      BY <1>1, <2>1 DEF IteratorType, Sendings
    <3>2. it.epoch \in Nat
      BY <1>1 DEF IteratorType
    <3> QED
      BY <3>1, <3>2, FreshTyped
  <2> HIDE DEF v
  <2>3. Head(p.immediate) = v /\ Tail(p.immediate) = <<>> /\ <<>> \in Seq(ValueType)
    BY <2>1, <2>2
  <2>4. p2 \in PoolType
    BY <1>1, <2>3, PoolUpdates
  <2>5. [h EXCEPT !.pool.immediate = Tail(@)] = h2
    BY <1>1, <2>3 DEF HandoffType
  <2>6. p2.queues = p.queues /\ p2.results = p.results /\ p2.immediate = <<>>
        /\ p2.key = p.key /\ p2.kept = p.kept
    BY <1>1 DEF PoolType
  <2> HIDE DEF p2
  <2>7. h2 \in HandoffType
    BY <1>1, <2>4, HandoffUpdates
  <2>8. /\ h2.it = it /\ h2.pool = p2 /\ h2.config = h.config /\ h2.epochs = h.epochs
        /\ h2.cursor = h.cursor /\ h2.calling = h.calling /\ h2.own = h.own
        /\ h2.error = h.error
    BY <1>1 DEF HandoffType
  <2>9. g = Probe!Completed(h2, v, 0)
    BY <1>1, <1>2, <2>3, <2>5 DEF Probe!Received, None, Probe!None
  <2> HIDE DEF h2, g
  <2>10. g = [h2 EXCEPT !.it.ready = @ \cup {v}]
    BY <2>1, <2>2, <2>8, <2>9 DEF Probe!Completed
  <2>11. i2 \in IteratorType
    <3>1. it.ready \cup {v} \in SUBSET ValueType
      BY <1>1, <2>2 DEF IteratorType
    <3> QED
      BY <1>1, <3>1, IteratorUpdates
  <2>12. g = [h2 EXCEPT !.it = i2]
    BY <2>7, <2>8, <2>10 DEF HandoffType
  <2>13. ReadyWith(i2, it, v)
    BY <1>1 DEF IteratorType, ReadyWith
  <2> HIDE DEF i2
  <2>14. g \in HandoffType
    BY <2>7, <2>11, <2>12, HandoffUpdates
  <2>15. /\ g.it = i2 /\ g.pool = p2 /\ g.config = h.config /\ g.epochs = h.epochs
         /\ g.cursor = h.cursor /\ g.calling = h.calling /\ g.own = h.own
         /\ g.error = h.error
    BY <2>7, <2>8, <2>12 DEF HandoffType
  <2>16. Lines(p2, i2)
    BY <1>1, <1>2, <2>4, <2>6, <2>11, <2>13, LinesTaken DEF v
  <2>17. Served(g)
    BY <1>1, <2>4, <2>6, <2>11, <2>14, <2>15, <2>16, HandoffNoneApart DEF Served
  <2>18. PolledFrom(g, h)
    BY <2>6, <2>13, <2>15 DEF PolledFrom, ReadyWith
  <2> QED
    BY <1>1, <1>2, <2>6, <2>15, <2>17, <2>18 DEF g
<1>3. CASE ~(w = 0 /\ p.immediate # <<>>) /\ p.results[w] # <<>>
  <2> DEFINE R == p.results[w]
             v == Head(R)
             results == [p.results EXCEPT ![w] = Tail(@)]
             p2 == [p EXCEPT !.results = results]
             h2 == [h EXCEPT !.pool = p2]
             i2 == [it EXCEPT !.ready = it.ready \cup {v}]
  <2>1. p.immediate = <<>>
    BY <1>3
  <2>2. R \in Seq(ValueType)
    BY <1>1 DEF PoolType
  <2>3. /\ v = R[1] /\ v \in ValueType /\ Tail(R) \in Seq(ValueType)
        /\ Len(R) >= 1 /\ Len(R) \in Nat
        /\ \A i \in 1..Len(Tail(R)) : Tail(R)[i] = R[i + 1] /\ i + 1 \in 1..Len(R)
    <3> HIDE DEF R
    <3> QED
      BY <1>3, <2>2, TakenFrom DEF R
  <2>4. /\ v.position \in DOMAIN it.sent /\ it.sent[v.position] = w
        /\ \A u \in it.ready : u.position # v.position
    <3>1. LineOf(p, w, it) /\ 1 \in 1..Len(R)
      BY <1>1, <2>3 DEF Lines
    <3>2. \A u \in it.ready : NotAsked(p, w, u.position)
      BY <1>1 DEF Lines
    <3> QED
      BY <2>3, <3>1, <3>2 DEF LineOf, Answer, NotAsked
  <2>5. results \in [Probe!Workers -> Seq(ValueType)]
    BY <1>1, <2>3 DEF PoolType
  <2>6. p2 \in PoolType
    <3> HIDE DEF results
    <3> QED
      BY <1>1, <2>5, PoolUpdates
  <2>7. [h EXCEPT !.pool.results[w] = Tail(@)] = h2
    BY <1>1 DEF HandoffType, PoolType
  <2>8. p2.queues = p.queues /\ p2.results = results /\ p2.immediate = <<>>
        /\ p2.key = p.key /\ p2.kept = p.kept
    BY <1>1, <2>1 DEF PoolType
  <2> HIDE DEF p2, v
  <2>9. h2 \in HandoffType
    BY <1>1, <2>6, HandoffUpdates
  <2>10. /\ h2.it = it /\ h2.pool = p2 /\ h2.config = h.config /\ h2.epochs = h.epochs
        /\ h2.cursor = h.cursor /\ h2.calling = h.calling /\ h2.own = h.own
        /\ h2.error = h.error
    BY <1>1 DEF HandoffType
  <2>11. g = Probe!Completed(h2, v, w)
    BY <1>1, <1>3, <2>7 DEF Probe!Received, None, Probe!None, v
  <2> HIDE DEF h2, g
  <2>12. g = [h2 EXCEPT !.it.ready = @ \cup {v}]
    BY <2>4, <2>10, <2>11 DEF Probe!Completed
  <2>13. i2 \in IteratorType
    <3>1. it.ready \cup {v} \in SUBSET ValueType
      BY <1>1, <2>3 DEF IteratorType
    <3> QED
      BY <1>1, <3>1, IteratorUpdates
  <2>14. g = [h2 EXCEPT !.it = i2]
    BY <2>9, <2>10, <2>12 DEF HandoffType
  <2>15. ReadyWith(i2, it, v)
    BY <1>1 DEF IteratorType, ReadyWith
  <2> HIDE DEF i2
  <2>16. g \in HandoffType
    BY <2>9, <2>13, <2>14, HandoffUpdates
  <2>17. /\ g.it = i2 /\ g.pool = p2 /\ g.config = h.config /\ g.epochs = h.epochs
         /\ g.cursor = h.cursor /\ g.calling = h.calling /\ g.own = h.own
         /\ g.error = h.error
    BY <2>9, <2>10, <2>14 DEF HandoffType
  <2>18. Lines(p2, i2)
    BY <1>1, <1>3, <2>1, <2>6, <2>8, <2>13, <2>15, LinesReceived DEF v
  <2>19. Served(g)
    BY <1>1, <2>6, <2>8, <2>13, <2>16, <2>17, <2>18, HandoffNoneApart DEF Served
  <2>20. PolledFrom(g, h)
    BY <2>8, <2>15, <2>17 DEF PolledFrom, ReadyWith
  <2>21. ASSUME FirstOpen(p, it)
         PROVE  FirstOpen(p2, i2)
    <3>1. v.position # 0 /\ i2.ready = it.ready \cup {v}
      BY <2>3, <2>15, <2>21 DEF FirstOpen, ReadyWith
    <3>2. ASSUME NEW x \in Probe!Workers, NEW i \in 1..Len(p2.results[x])
          PROVE  p2.results[x][i].position # 0
      <4>1. CASE x = w
        <5>1. p2.results[x] = Tail(R)
          BY <1>1, <2>8, <4>1 DEF PoolType
        <5> HIDE DEF R
        <5>2. p2.results[x][i] = R[i + 1] /\ i + 1 \in 1..Len(R)
          BY <2>3, <3>2, <5>1
        <5> QED
          BY <2>21, <5>2 DEF FirstOpen, R
      <4>2. CASE x # w
        <5>1. p2.results[x] = p.results[x]
          BY <1>1, <2>8, <4>2 DEF PoolType
        <5> QED
          BY <2>21, <3>2, <5>1 DEF FirstOpen
      <4> QED
        BY <4>1, <4>2
    <3>3. \A u \in i2.ready : u.position # 0
      BY <2>21, <3>1 DEF FirstOpen
    <3> QED
      BY <3>2, <3>3 DEF FirstOpen
  <2> QED
    BY <2>8, <2>17, <2>19, <2>20, <2>21 DEF g
<1>4. CASE ~(w = 0 /\ p.immediate # <<>>) /\ p.results[w] = <<>>
  <2>1. g = h
    BY <1>1, <1>4 DEF Probe!Received, None, Probe!None
  <2> HIDE DEF g
  <2> QED
    BY <1>4, <2>1 DEF PolledFrom, g
<1> QED
  BY <1>2, <1>3, <1>4

ReceivedTo(f, n, h) ==
    f = [i \in 0..n |-> IF i = 0 THEN h ELSE Probe!Received(f[i - 1], i - 1)]

LEMMA ReceivingExists ==
    ASSUME NEW h, NEW n \in Nat
    PROVE  \E f : ReceivedTo(f, n, h)
<1> DEFINE Bad == {k \in Nat : ~\E f : ReceivedTo(f, k, h)}
<1> SUFFICES ASSUME Bad # {}
             PROVE  FALSE
  OBVIOUS
<1>1. PICK m \in Bad : \A k \in Bad : m <= k
  <2>1. Bad \in SUBSET Nat
    OBVIOUS
  <2> HIDE DEF Bad
  <2> QED
    BY <2>1, Least
<1>2. m \in Nat /\ ~\E f : ReceivedTo(f, m, h)
  OBVIOUS
<1>3. m # 0
  <2> DEFINE f == [i \in 0..0 |-> h]
  <2>1. \A i \in 0..0 : i = 0
    OBVIOUS
  <2>2. ReceivedTo(f, 0, h)
    BY <2>1 DEF ReceivedTo
  <2> HIDE DEF f
  <2> QED
    BY <1>2, <2>2
<1>4. m - 1 \in Nat /\ m - 1 \notin Bad
  BY <1>1, <1>2, <1>3
<1>5. PICK f : ReceivedTo(f, m - 1, h)
  BY <1>4
<1> DEFINE e == [i \in 0..m |-> IF i = m THEN Probe!Received(f[m - 1], m - 1) ELSE f[i]]
<1>6. DOMAIN e = 0..m /\ e[m] = Probe!Received(f[m - 1], m - 1)
      /\ \A i \in 0..m : i # m => e[i] = f[i] /\ i \in 0..m - 1
  BY <1>2
<1>7. \A i \in 0..m : e[i] = IF i = 0 THEN h ELSE Probe!Received(e[i - 1], i - 1)
  <2> SUFFICES ASSUME NEW i \in 0..m
               PROVE  e[i] = IF i = 0 THEN h ELSE Probe!Received(e[i - 1], i - 1)
    OBVIOUS
  <2> HIDE DEF e
  <2>1. i # 0 => i - 1 \in 0..m /\ i - 1 # m
    BY <1>2
  <2>2. CASE i = m
    <3>1. e[m - 1] = f[m - 1]
      BY <1>3, <1>6, <2>1, <2>2
    <3> QED
      BY <1>3, <1>6, <2>2, <3>1
  <2>3. CASE i # m
    <3>1. e[i] = f[i] /\ i \in 0..m - 1 /\ (i # 0 => e[i - 1] = f[i - 1])
      BY <1>6, <2>1, <2>3
    <3>2. f[i] = IF i = 0 THEN h ELSE Probe!Received(f[i - 1], i - 1)
      BY <1>5, <3>1 DEF ReceivedTo
    <3> QED
      BY <3>1, <3>2
  <2> QED
    BY <2>2, <2>3
<1>8. ReceivedTo(e, m, h)
  BY <1>7, Zenon DEF ReceivedTo, e
<1> HIDE DEF e
<1> QED
  BY <1>2, <1>8

LEMMA PolledKeepsAll ==
    \A g1, g2, h : PolledFrom(g1, g2) /\ PolledFrom(g2, h) => PolledFrom(g1, h)
  BY DEF PolledFrom

(* What the owner held is taken with worker zero's answer.                 *)
LEMMA PollKeeps ==
    ASSUME NEW h, Served(h), NEW g,
           g = LET polled[n \in 0 .. HandoffWorkers] ==
                       IF n = 0 THEN h ELSE Probe!Received(polled[n - 1], n - 1)
               IN  polled[HandoffWorkers]
    PROVE  /\ Served(g) /\ PolledFrom(g, h) /\ g.pool.immediate = <<>>
           /\ h.config.kind = "batches" /\ FirstOpen(h.pool, h.it) =>
                  FirstOpen(g.pool, g.it)
<1> DEFINE N == HandoffWorkers
           f == CHOOSE f : ReceivedTo(f, N, h)
           Opened(e) == h.config.kind = "batches" /\ FirstOpen(h.pool, h.it) =>
                          FirstOpen(e.pool, e.it)
<1>1. N \in Nat /\ N >= 1
  BY HandoffLimits
<1>2. g = f[N]
  BY DEF ReceivedTo
<1>3. ReceivedTo(f, N, h)
  BY <1>1, ReceivingExists
<1> HIDE DEF f
<1>4. /\ f[0] = h
      /\ \A i \in 0..N : i # 0 => f[i] = Probe!Received(f[i - 1], i - 1)
  BY <1>1, <1>3 DEF ReceivedTo
<1> DEFINE Good(i) == /\ Served(f[i]) /\ PolledFrom(f[i], h) /\ Opened(f[i])
                      /\ i = 0 \/ f[i].pool.immediate = <<>>
           Bad == {k \in 0..N : ~Good(k)}
<1>5. \A k \in 0..N : Good(k)
  <2> SUFFICES ASSUME Bad # {}
               PROVE  FALSE
    OBVIOUS
  <2>1. PICK m \in Bad : \A k \in Bad : m <= k
    <3>1. Bad \in SUBSET Nat
      OBVIOUS
    <3> HIDE DEF Bad
    <3> QED
      BY <3>1, Least
  <2>2. m \in 0..N /\ ~Good(m)
    OBVIOUS
  <2>3. m # 0
    <3>1. Good(0)
      BY <1>4 DEF PolledFrom
    <3> HIDE DEF Good
    <3> QED
      BY <2>2, <3>1
  <2>4. m - 1 \in 0..N /\ Good(m - 1)
    <3>1. m - 1 \in 0..N /\ m - 1 \notin Bad
      BY <1>1, <2>1, <2>2, <2>3
    <3> HIDE DEF Good
    <3> QED
      BY <3>1
  <2> DEFINE e == f[m - 1]
             t == f[m]
  <2>5. t = Probe!Received(e, m - 1) /\ m - 1 \in Probe!Workers
    BY <1>1, <1>4, <2>2, <2>3 DEF Probe!Workers
  <2>6. /\ Served(e) /\ PolledFrom(e, h) /\ Opened(e)
        /\ m - 1 # 0 => e.pool.immediate = <<>>
    BY <2>4
  <2> HIDE DEF e, t, Opened
  <2>7. /\ Served(t) /\ PolledFrom(t, e) /\ t.pool.immediate = <<>>
        /\ e.config.kind = "batches" /\ FirstOpen(e.pool, e.it) =>
               FirstOpen(t.pool, t.it)
    BY <2>5, <2>6, ReceivedKeeps
  <2>8. PolledFrom(t, h)
    BY <2>6, <2>7, PolledKeepsAll
  <2>9. Opened(t)
    BY <2>6, <2>7 DEF Opened, PolledFrom
  <2>10. Good(m)
    BY <2>7, <2>8, <2>9 DEF t
  <2> HIDE DEF Good
  <2> QED
    BY <2>2, <2>10
<1>6. N \in 0..N /\ N # 0
  BY <1>1
<1>7. Good(N)
  <2> HIDE DEF Good
  <2> QED
    BY <1>5, <1>6
<1> HIDE DEF N
<1> QED
  BY <1>2, <1>6, <1>7

-----------------------------------------------------------------------------
(* The epochs, the pool and the iterators.                                 *)

LEMMA EpochsTyped ==
    ASSUME NEW e \in EpochType
    PROVE  /\ Probe!BeginIteration(e) \in EpochType
           /\ ~Probe!BeginIteration(e).override /\ ~Probe!BeginIteration(e).delivered
           /\ ~e.delivered => Probe!BeginIteration(e).current = e.current
           /\ \A n \in Nat :
                  /\ Probe!CompleteEpoch(e, n) \in EpochType
                  /\ Probe!CompleteEpoch(e, n).override = e.override
                  /\ Probe!MarkDelivered(e, n) \in EpochType
                  /\ Probe!MarkDelivered(e, n).override = e.override
<1>1. e.current \in Nat /\ e.current + 1 \in Nat /\ -1 \in Int
      /\ \A n \in Nat : n \in Int
  BY DEF EpochType
<1>2. Probe!BeginIteration(e) \in EpochType
  BY <1>1 DEF Probe!BeginIteration, EpochType
<1>3. /\ ~Probe!BeginIteration(e).override /\ ~Probe!BeginIteration(e).delivered
      /\ ~e.delivered => Probe!BeginIteration(e).current = e.current
  BY DEF Probe!BeginIteration
<1>4. ASSUME NEW n \in Nat
      PROVE  /\ Probe!CompleteEpoch(e, n) \in EpochType
             /\ Probe!CompleteEpoch(e, n).override = e.override
  <2>1. CASE e.active # n
    BY <2>1 DEF Probe!CompleteEpoch
  <2>2. CASE e.active = n
    BY <1>1, <2>2 DEF Probe!CompleteEpoch, EpochType
  <2> QED
    BY <2>1, <2>2
<1>5. ASSUME NEW n \in Nat
      PROVE  /\ Probe!MarkDelivered(e, n) \in EpochType
             /\ Probe!MarkDelivered(e, n).override = e.override
  BY DEF Probe!MarkDelivered, EpochType
<1> QED
  BY <1>2, <1>3, <1>4, <1>5

LEMMA NewPoolIdle ==
    ASSUME NEW e \in Nat
    PROVE  /\ Probe!NewPool(e, 0) \in PoolType /\ Idle(Probe!NewPool(e, 0))
           /\ Probe!NewPool(e, 0).key = e /\ Probe!NewPool(e, 0).turn = 0
<1>1. <<>> \in Seq(CommandType) /\ <<>> \in Seq(ValueType)
  OBVIOUS
<1>2. [w \in Probe!Workers |-> <<>>] \in [Probe!Workers -> Seq(CommandType)]
  BY <1>1
<1>3. [w \in Probe!Workers |-> <<>>] \in [Probe!Workers -> Seq(ValueType)]
  BY <1>1
<1> QED
  BY <1>1, <1>2, <1>3, HandoffLimits
  DEF Probe!NewPool, PoolType, Idle, Probe!HasPending

(* A pool that is used again holds nothing.                                *)
LEMMA PreparedIdle ==
    ASSUME NEW p \in {None} \cup PoolType, NEW e \in Nat, p # None => Heard(p)
    PROVE  LET g == Probe!Prepared(p, e, 0)
           IN  /\ g \in PoolType /\ Idle(g)
               /\ (g.key = e /\ g.turn = 0) \/ (p # None /\ g = p)
<1>1. CASE p = None \/ Probe!HasPending(p)
  BY <1>1, NewPoolIdle DEF Probe!Prepared, None, Probe!None
<1>2. CASE ~(p = None \/ Probe!HasPending(p))
  BY <1>2 DEF Probe!Prepared, None, Probe!None, Idle, Heard
<1> QED
  BY <1>1, <1>2

LEMMA IdleLines ==
    ASSUME NEW p \in PoolType, NEW it, DOMAIN it.sent = {}, it.ready = {}, Idle(p)
    PROVE  Lines(p, it)
<1>1. \A w \in Probe!Workers : p.queues[w] = <<>> /\ p.results[w] = <<>>
  BY DEF Idle, Probe!HasPending
<1>2. Len(<<>>) = 0 /\ 1..0 = {}
  OBVIOUS
<1>3. \A w \in Probe!Workers : LineOf(p, w, it)
  BY <1>1, <1>2 DEF LineOf
<1> QED
  BY <1>3 DEF Lines, Idle

LEMMA EmptyLines ==
    ASSUME NEW p \in PoolType, NEW it, DOMAIN it.sent = {}, Lines(p, it)
    PROVE  Idle(p)
<1>1. ASSUME NEW w \in Probe!Workers
      PROVE  p.queues[w] = <<>> /\ p.results[w] = <<>>
  <2>1. LineOf(p, w, it)
    BY DEF Lines
  <2>2. p.queues[w] \in Seq(CommandType) /\ p.results[w] \in Seq(ValueType)
    BY DEF PoolType
  <2>3. p.queues[w] # <<>> => 1 \in 1..Len(p.queues[w])
    BY <2>2
  <2>4. p.results[w] # <<>> => 1 \in 1..Len(p.results[w])
    BY <2>2
  <2> QED
    BY <2>1, <2>3, <2>4 DEF LineOf, Asked, Answer
<1> QED
  BY <1>1 DEF Idle, Lines, Probe!HasPending

LEMMA NewIteratorTyped ==
    ASSUME NEW e \in Nat, NEW n \in Nat
    PROVE  LET it == Probe!NewIterator(e, n)
           IN  /\ it \in IteratorType /\ StartsFirst(it)
               /\ DOMAIN it.sent = {} /\ it.ready = {} /\ it.epoch = e /\ it.base = n
<1>1. DOMAIN <<>> = {}
  OBVIOUS
<1>2. <<>> \in [{} -> Probe!Workers]
  OBVIOUS
<1>3. <<>> \in Sendings
  BY <1>2 DEF Sendings
<1> QED
  BY <1>1, <1>3 DEF Probe!NewIterator, IteratorType, StartsFirst

LEMMA Kinds ==
    ASSUME ProbeMeets, NEW h \in HandoffType
    PROVE  /\ h.config.kind \in {"samples", "batches", "execute"}
           /\ h.config.kind # "samples" => ~h.config.moves /\ ~h.config.loads
           /\ HandoffLength \in Nat /\ HandoffLength >= 2
  BY PartTypes, HandoffLimits DEF ProbeMeets

(* An iterator that a loader without user's sampler is at.                 *)
LEMMA IteratesServed ==
    ASSUME NEW h, HandoffSound(h), h.config.kind # "execute", h.it # None
    PROVE  Served(h) /\ Aimed(h.it) /\ Heard(h.pool)
  BY DEF HandoffSound, Served

(* A step that ends in a state the workers can serve.                      *)
LEMMA ServedSound ==
    ASSUME ProbeMeets, NEW g, Served(g), Aimed(g.it), Heard(g.pool), g.own,
           g.error = "none", g.calling => g.it.base < HandoffLength,
           g.config.kind = "batches" => KeptForEpoch(g)
    PROVE  HandoffSound(g)
  BY DEF HandoffSound, Served

-----------------------------------------------------------------------------
(* The actions.                                                            *)

LEMMA HandoffIterates ==
    ASSUME ProbeMeets, HandoffSound(handoff), NEW dropped \in BOOLEAN,
           Probe!Iterate(dropped)
    PROVE  HandoffSound(handoff')
<1> DEFINE h == handoff
           e == Probe!BeginIteration(h.epochs)
           left == IF h.it = None \/ dropped THEN h.pool ELSE None
           p == Probe!Prepared(left, e.current, 0)
           it == Probe!NewIterator(e.current, h.cursor)
           h1 == [h EXCEPT !.epochs = e]
           h2 == [h1 EXCEPT !.cursor = 0]
           h3 == [h2 EXCEPT !.spent = h.spent + 1]
           h4 == [h3 EXCEPT !.pool = p]
           g == [h4 EXCEPT !.it = it]
<1>1. /\ h \in HandoffType /\ h.own /\ h.error = "none" /\ ~h.calling
      /\ h.config.kind = "execute" => h.cursor = 0
      /\ h.config.kind = "batches" => h.cursor = 0
  BY DEF HandoffSound, RetainedForEpoch, KeptForEpoch, Probe!Iterate
<1>2. /\ h.epochs \in EpochType /\ h.cursor \in Nat /\ h.spent \in Nat
      /\ h.pool # None => h.pool \in PoolType
      /\ h.spent + 1 \in Nat /\ 0 \in Nat
  BY <1>1, PartTypes
<1>3. /\ e \in EpochType /\ ~e.override /\ ~e.delivered
      /\ ~h.epochs.delivered => e.current = h.epochs.current
  BY <1>2, EpochsTyped
<1>4. e.current \in Nat
  BY <1>3 DEF EpochType
<1>5. left \in {None} \cup PoolType /\ (left # None => Heard(left) /\ left = h.pool)
  <2>1. h.pool # None => Heard(h.pool)
    BY DEF HandoffSound, RetainedForEpoch, Heard, Idle
  <2> QED
    BY <1>2, <2>1
<1> HIDE DEF e, left
<1>6. /\ p \in PoolType /\ Idle(p)
      /\ (p.key = e.current /\ p.turn = 0) \/ (left # None /\ p = left)
  BY <1>4, <1>5, PreparedIdle
<1>7. /\ it \in IteratorType /\ StartsFirst(it) /\ DOMAIN it.sent = {}
      /\ it.ready = {} /\ it.epoch = e.current /\ it.base = h.cursor
  BY <1>2, <1>4, NewIteratorTyped
<1> HIDE DEF p, it
<1>8. h1 \in HandoffType
  BY <1>1, <1>3, HandoffUpdates
<1> HIDE DEF h1
<1>9. h2 \in HandoffType
  BY <1>8, <1>2, HandoffUpdates
<1> HIDE DEF h2
<1>10. h3 \in HandoffType
  BY <1>9, <1>2, HandoffUpdates
<1> HIDE DEF h3
<1>11. h4 \in HandoffType
  BY <1>10, <1>6, HandoffUpdates
<1> HIDE DEF h4
<1>12. g \in HandoffType
  BY <1>11, <1>7, HandoffUpdates
<1> USE DEF h1, h2, h3, h4
<1>13. g = [h EXCEPT !.epochs = e, !.cursor = 0, !.spent = @ + 1,
                     !.pool = Probe!Prepared(left, e.current,
                                 IF h.config.kind = "execute" THEN h.cursor ELSE 0),
                     !.it = Probe!NewIterator(e.current, h.cursor)]
  <2>1. (IF h.config.kind = "execute" THEN h.cursor ELSE 0) = 0
    BY <1>1
  <2> QED
    BY <1>1, <2>1 DEF HandoffType, p, it
<1>14. handoff' = IF h.config.kind = "execute" THEN g ELSE Probe!Filled(g)
  BY <1>13 DEF Probe!Iterate, None, Probe!None, e, left
<1>15. /\ g.config = h.config /\ g.epochs = e /\ g.cursor = 0 /\ g.pool = p /\ g.it = it
       /\ g.calling = h.calling /\ g.own = h.own /\ g.error = h.error
  BY <1>1 DEF HandoffType
<1> HIDE DEF g, h1, h2, h3, h4, h
<1>16. p # None /\ it # None
  BY <1>6, <1>7, HandoffNoneApart
<1>17. CASE h.config.kind = "execute"
  <2>1. p.retained => p.turn = 0 /\ p.key = e.current
    <3> SUFFICES ASSUME left # None, p = left, p.retained
                 PROVE  p.turn = 0 /\ p.key = e.current
      BY <1>6
    <3>1. h.pool # None /\ p = h.pool
      BY <1>5
    <3> QED
      BY <1>3, <1>17, <3>1 DEF HandoffSound, RetainedForEpoch, h
  <2>2. it.base = 0
    BY <1>1, <1>7, <1>17
  <2>3. RetainedForEpoch(g)
    BY <1>3, <1>6, <1>7, <1>15, <2>1, <2>2 DEF RetainedForEpoch
  <2> QED
    BY <1>1, <1>12, <1>14, <1>15, <1>16, <1>17, <2>3 DEF HandoffSound
<1>18. CASE h.config.kind # "execute"
  <2> DEFINE t == Probe!Filled(g)
  <2>1. Lines(p, it) /\ p.immediate = <<>>
    BY <1>6, <1>7, IdleLines DEF Idle
  <2>2. Served(g) /\ StartsFirst(g.it) /\ g.pool.immediate = <<>>
    BY <1>7, <1>12, <1>15, <1>16, <1>18, <2>1 DEF Served
  <2>3. Served(t) /\ FilledFrom(t, g) /\ Aimed(t.it) /\ Heard(t.pool)
    BY <2>2, FilledKeeps
  <2> HIDE DEF t
  <2>4. ASSUME h.config.kind = "batches"
        PROVE  KeptForEpoch(t)
    <3>1. p.kept => p.key = e.current
      <4> SUFFICES ASSUME left # None, p = left, p.kept
                   PROVE  p.key = e.current
        BY <1>6
      <4>1. h.pool # None /\ p = h.pool
        BY <1>5
      <4> QED
        BY <1>3, <2>4, <4>1 DEF HandoffSound, KeptForEpoch, h
    <3>2. it.base = 0
      BY <1>1, <1>7, <2>4
    <3>3. \A w \in Probe!Workers : \A i \in 1..Len(p.results[w]) : FALSE
      <4>1. \A w \in Probe!Workers : p.results[w] = <<>>
        BY <1>6 DEF Idle, Probe!HasPending
      <4>2. Len(<<>>) = 0 /\ 1..0 = {}
        OBVIOUS
      <4> QED
        BY <4>1, <4>2
    <3> QED
      BY <1>3, <1>7, <1>15, <2>3, <3>1, <3>2, <3>3 DEF KeptForEpoch, FilledFrom
  <2>5. HandoffSound(t)
    BY <1>1, <1>15, <2>3, <2>4, ServedSound DEF FilledFrom
  <2> QED
    BY <1>14, <1>18, <2>5 DEF t
<1> QED
  BY <1>17, <1>18

LEMMA HandoffCalls ==
    ASSUME ProbeMeets, HandoffSound(handoff), Probe!CallNext
    PROVE  HandoffSound(handoff')
<1> DEFINE h == handoff
           g == handoff'
<1>1. /\ g = [h EXCEPT !.calling = TRUE] /\ h \in HandoffType
      /\ h.it # None /\ h.it.base < HandoffLength
  BY DEF Probe!CallNext, HandoffSound, None, Probe!None
<1> HIDE DEF g
<1>2. g \in HandoffType
  BY <1>1, TRUE \in BOOLEAN, HandoffUpdates
<1>3. /\ g.config = h.config /\ g.epochs = h.epochs /\ g.cursor = h.cursor
      /\ g.pool = h.pool /\ g.it = h.it /\ g.own = h.own /\ g.error = h.error
  BY <1>1 DEF HandoffType
<1>4. HandoffSound(g)
  BY <1>1, <1>2, <1>3 DEF HandoffSound, KeptForEpoch, RetainedForEpoch
<1> QED
  BY <1>4 DEF g

LEMMA HandoffPolls ==
    ASSUME ProbeMeets, HandoffSound(handoff), Probe!Poll
    PROVE  HandoffSound(handoff')
<1> DEFINE h == handoff
           g == handoff'
<1>1. /\ h \in HandoffType /\ h.own /\ h.error = "none" /\ h.calling
      /\ h.it # None /\ h.config.kind # "execute" /\ h.it.base < HandoffLength
  BY DEF HandoffSound, Probe!Poll
<1>2. Served(h) /\ Aimed(h.it)
  BY <1>1, IteratesServed
<1>3. g = LET polled[n \in 0 .. HandoffWorkers] ==
                  IF n = 0 THEN h ELSE Probe!Received(polled[n - 1], n - 1)
          IN  polled[HandoffWorkers]
  BY DEF Probe!Poll
<1> HIDE DEF g
<1>4. /\ Served(g) /\ PolledFrom(g, h) /\ g.pool.immediate = <<>>
      /\ h.config.kind = "batches" /\ FirstOpen(h.pool, h.it) =>
             FirstOpen(g.pool, g.it)
  BY <1>2, <1>3, PollKeeps
<1>5. Aimed(g.it) /\ Heard(g.pool)
  BY <1>2, <1>4 DEF Aimed, Heard, PolledFrom
<1>6. ASSUME g.config.kind = "batches"
      PROVE  KeptForEpoch(g)
  <2>1. KeptForEpoch(h) /\ h.config.kind = "batches" /\ h.pool # None
    BY <1>4, <1>2, <1>6 DEF HandoffSound, PolledFrom, Served
  <2>2. h.pool.kept => FirstOpen(h.pool, h.it)
    BY <1>1, <2>1 DEF KeptForEpoch, FirstOpen
  <2>3. g.pool.kept => FirstOpen(g.pool, g.it) /\ h.pool.kept
    BY <1>4, <2>1, <2>2 DEF PolledFrom
  <2> QED
    BY <1>1, <1>4, <2>1, <2>3 DEF KeptForEpoch, FirstOpen, PolledFrom
<1>7. HandoffSound(g)
  BY <1>1, <1>4, <1>5, <1>6, ServedSound DEF PolledFrom
<1> QED
  BY <1>7 DEF g

LEMMA HandoffDelivers ==
    ASSUME ProbeMeets, HandoffSound(handoff), Probe!Deliver
    PROVE  HandoffSound(handoff')
<1> DEFINE h == handoff
           p == h.pool
           it == h.it
           e == Probe!MarkDelivered(h.epochs, it.epoch)
<1>1. /\ h \in HandoffType /\ h.own /\ h.error = "none" /\ h.calling
      /\ it # None /\ h.config.kind # "execute"
  BY DEF HandoffSound, Probe!Deliver
<1>2. /\ Served(h) /\ Heard(p) /\ p \in PoolType /\ it \in IteratorType
      /\ Lines(p, it) /\ h.epochs \in EpochType
      /\ h.config.kind = "batches" => p.immediate = <<>>
  BY <1>1, IteratesServed, PartTypes DEF Served
<1>3. PICK v \in it.ready :
          /\ v.position = it.base
          /\ handoff' = Probe!Filled([Probe!Given(h, v) EXCEPT
                 !.it.ready = @ \ {v},
                 !.it.sent = [q \in DOMAIN @ \ {v.position} |-> @[q]]])
  BY DEF Probe!Deliver
<1>4. it.base \in Nat /\ it.epoch \in Nat /\ it.base + 1 \in Nat
  BY <1>2 DEF IteratorType
<1>5. e \in EpochType /\ e.override = h.epochs.override
  BY <1>2, <1>4, EpochsTyped
<1>6. v = Probe!Fresh(it.base, it.epoch)
  BY <1>2, <1>3 DEF Lines
<1> DEFINE ready == it.ready \ {v}
           sent == [q \in DOMAIN it.sent \ {it.base} |-> it.sent[q]]
           i1 == [it EXCEPT !.base = it.base + 1]
           i2 == [i1 EXCEPT !.ready = ready]
           i3 == [i2 EXCEPT !.sent = sent]
           h1 == [h EXCEPT !.epochs = e]
           h2 == [h1 EXCEPT !.calling = FALSE]
           g == [h2 EXCEPT !.it = i3]
           t == Probe!Filled(g)
<1>7. sent \in Sendings
  <2>1. PICK D \in SUBSET Probe!Positions : it.sent \in [D -> Probe!Workers]
    BY <1>2 DEF IteratorType, Sendings
  <2>2. sent \in [D \ {it.base} -> Probe!Workers] /\ D \ {it.base} \in SUBSET Probe!Positions
    BY <2>1
  <2> HIDE DEF sent
  <2> QED
    BY <2>2 DEF Sendings
<1>8. ready \in SUBSET ValueType
  BY <1>2 DEF IteratorType
<1> HIDE DEF e, ready, sent
<1>9. i1 \in IteratorType
  BY <1>2, <1>4, IteratorUpdates
<1> HIDE DEF i1
<1>10. i2 \in IteratorType
  BY <1>8, <1>9, IteratorUpdates
<1> HIDE DEF i2
<1>11. i3 \in IteratorType
  BY <1>7, <1>10, IteratorUpdates
<1> USE DEF i1, i2
<1>12. /\ i3.base = it.base + 1 /\ i3.epoch = it.epoch /\ i3.ready = ready
       /\ i3.sent = sent
  BY <1>2 DEF IteratorType
<1>13. i3 = [it EXCEPT !.base = @ + 1, !.ready = @ \ {v},
                       !.sent = [q \in DOMAIN @ \ {v.position} |-> @[q]]]
  BY <1>2, <1>3 DEF IteratorType, ready, sent
<1> HIDE DEF i1, i2, i3
<1>14. h1 \in HandoffType
  BY <1>1, <1>5, HandoffUpdates
<1> HIDE DEF h1
<1>15. h2 \in HandoffType
  BY <1>14, FALSE \in BOOLEAN, HandoffUpdates
<1> HIDE DEF h2
<1>16. g \in HandoffType
  BY <1>11, <1>15, HandoffUpdates
<1> USE DEF h1, h2
<1>17. /\ g.config = h.config /\ g.epochs = e /\ g.cursor = h.cursor /\ g.pool = p
       /\ g.it = i3 /\ ~g.calling /\ g.own = h.own /\ g.error = h.error
  BY <1>1 DEF HandoffType
<1>18. g = [Probe!Given(h, v) EXCEPT
                !.it.ready = @ \ {v},
                !.it.sent = [q \in DOMAIN @ \ {v.position} |-> @[q]]]
  <2> DEFINE k == [it EXCEPT !.base = @ + 1]
             G == Probe!Given(h, v)
  <2>1. G = [h EXCEPT !.it = k, !.calling = FALSE, !.epochs = e]
    BY <1>1, <1>2, <1>6 DEF Probe!Given, HandoffType, IteratorType, e
  <2>2. [k EXCEPT !.ready = @ \ {v},
                  !.sent = [q \in DOMAIN @ \ {v.position} |-> @[q]]] = i3
    BY <1>2, <1>13 DEF IteratorType
  <2> HIDE DEF k, G
  <2>3. G.it = k /\ G = [G EXCEPT !.it = k]
    BY <1>1, <2>1 DEF HandoffType
  <2>4. [G EXCEPT !.it.ready = @ \ {v},
                  !.it.sent = [q \in DOMAIN @ \ {v.position} |-> @[q]]] =
        [G EXCEPT !.it = i3]
    BY <2>2, <2>3
  <2>5. [G EXCEPT !.it = i3] = [h EXCEPT !.it = i3, !.calling = FALSE, !.epochs = e]
    BY <1>1, <2>1 DEF HandoffType
  <2>6. [h EXCEPT !.it = i3, !.calling = FALSE, !.epochs = e] = g
    BY <1>1 DEF HandoffType
  <2> HIDE DEF g
  <2> QED
    BY <2>4, <2>5, <2>6 DEF G
<1> HIDE DEF g, h1, h2, h
<1>19. Lines(p, i3)
  BY <1>2, <1>3, <1>11, <1>12, LinesDelivered DEF ready, sent
<1>20. Served(g)
  BY <1>1, <1>2, <1>11, <1>16, <1>17, <1>19, HandoffNoneApart DEF Served
<1>21. StartsFirst(g.it) /\ Aimed(g.it)
  BY <1>4, <1>12, <1>17 DEF StartsFirst, Aimed
<1>22. Served(t) /\ FilledFrom(t, g) /\ Aimed(t.it) /\ Heard(t.pool)
  BY <1>2, <1>17, <1>20, <1>21, FilledKeeps
<1>23. handoff' = t
  BY <1>3, <1>18 DEF h
<1> HIDE DEF t
<1>24. ASSUME h.config.kind = "batches"
       PROVE  KeptForEpoch(t)
  <2>1. KeptForEpoch(h) /\ p # None
    BY <1>2, <1>24 DEF HandoffSound, Served, h
  <2>2. ~p.kept
    BY <1>1, <1>3, <2>1 DEF KeptForEpoch
  <2> QED
    BY <1>5, <1>17, <1>22, <2>1, <2>2 DEF KeptForEpoch, FilledFrom
<1>25. HandoffSound(t)
  BY <1>1, <1>17, <1>22, <1>24, ServedSound DEF FilledFrom
<1> QED
  BY <1>23, <1>25

LEMMA HandoffExecutes ==
    ASSUME ProbeMeets, HandoffSound(handoff), Probe!Execute
    PROVE  HandoffSound(handoff')
<1> DEFINE h == handoff
           p == h.pool
           it == h.it
           e == Probe!MarkDelivered(h.epochs, it.epoch)
           sent == Probe!Submitted(h, it.epoch, it.base, p.turn)
           value == IF sent.pool.immediate # <<>> THEN Head(sent.pool.immediate)
                    ELSE Probe!Fresh(it.base, it.epoch)
           next == (p.turn + 1) % HandoffWorkers
           probed == Probe!IsProbed(p, it.epoch, it.base)
<1>1. /\ h \in HandoffType /\ h.own /\ h.error = "none" /\ h.calling
      /\ it # None /\ p # None /\ h.config.kind = "execute" /\ RetainedForEpoch(h)
  BY DEF HandoffSound, Probe!Execute
<1>2. /\ p \in PoolType /\ it \in IteratorType /\ h.epochs \in EpochType
      /\ p.immediate = <<>> /\ Idle(p)
  BY <1>1, PartTypes DEF RetainedForEpoch, Idle
<1>3. it.base \in Nat /\ it.epoch \in Nat /\ it.base + 1 \in Nat /\ p.at = 0
  BY <1>2 DEF IteratorType, PoolType
<1>4. e \in EpochType /\ e.override = h.epochs.override
  BY <1>2, <1>3, EpochsTyped
<1>5. next \in Probe!Workers
  <2> DEFINE turn == p.turn
  <2>1. turn \in 0 .. HandoffWorkers - 1
    BY <1>2 DEF PoolType, Probe!Workers
  <2> HIDE DEF turn
  <2>2. HandoffWorkers \in Nat /\ HandoffWorkers > 0
    BY HandoffLimits
  <2>3. (turn + 1) % HandoffWorkers \in 0 .. HandoffWorkers - 1
    BY ONLY <2>1, <2>2
  <2> QED
    BY <2>3 DEF turn, Probe!Workers
<1>6. p.retained => p.turn = 0 /\ it.epoch = p.key /\ it.base = 0 /\ probed
  BY <1>1, <1>2, <1>3 DEF RetainedForEpoch, Probe!IsProbed
<1>7. probed => p.retained
  BY DEF Probe!IsProbed
<1> DEFINE i2 == [it EXCEPT !.base = it.base + 1]
           p1 == [p EXCEPT !.turn = next]
           p2 == [p1 EXCEPT !.retained = FALSE]
           h1 == [h EXCEPT !.epochs = e]
           h2 == [h1 EXCEPT !.calling = FALSE]
           h3 == [h2 EXCEPT !.pool = p2]
           g == [h3 EXCEPT !.it = i2]
<1> HIDE DEF next, e, probed
<1>8. i2 \in IteratorType
  BY <1>2, <1>3, IteratorUpdates
<1>9. p1 \in PoolType
  BY <1>2, <1>5, PoolUpdates
<1> HIDE DEF p1
<1>10. p2 \in PoolType
  BY <1>9, FALSE \in BOOLEAN, PoolUpdates
<1> USE DEF p1
<1>11. /\ p2.queues = p.queues /\ p2.results = p.results /\ p2.immediate = <<>>
       /\ ~p2.retained
  BY <1>2 DEF PoolType
<1> HIDE DEF p1, p2, i2
<1>12. h1 \in HandoffType
  BY <1>1, <1>4, HandoffUpdates
<1> HIDE DEF h1
<1>13. h2 \in HandoffType
  BY <1>12, FALSE \in BOOLEAN, HandoffUpdates
<1> HIDE DEF h2
<1>14. h3 \in HandoffType
  BY <1>10, <1>13, HandoffUpdates
<1> HIDE DEF h3
<1>15. g \in HandoffType
  BY <1>8, <1>14, HandoffUpdates
<1> USE DEF h1, h2, h3
<1>16. /\ g.config = h.config /\ g.epochs = e /\ g.cursor = h.cursor /\ g.pool = p2
       /\ g.it = i2 /\ ~g.calling /\ g.own = h.own /\ g.error = h.error
  BY <1>1 DEF HandoffType
<1>17. Probe!Given(h, Probe!Fresh(it.base, it.epoch)) =
           [h EXCEPT !.it = i2, !.calling = FALSE, !.epochs = e]
  BY <1>1, <1>2 DEF Probe!Given, HandoffType, IteratorType, e, i2
<1>18. ASSUME probed
       PROVE  handoff' = g
  <2> DEFINE v == Probe!Fresh(it.base, p.key)
             kept == [p EXCEPT !.immediate = <<v>>, !.retained = FALSE]
  <2>1. p.turn = 0 /\ p.key = it.epoch
    BY <1>6, <1>7, <1>18
  <2>2. v \in {v} /\ Append(<<>>, v) = <<v>> /\ Head(<<v>>) = v /\ <<v>> # <<>>
    OBVIOUS
  <2> HIDE DEF v
  <2>3. sent = [h EXCEPT !.pool.immediate = Append(@, Probe!Fresh(it.base, p.key)),
                         !.pool.retained = FALSE]
    BY <1>1, <1>18, <2>1 DEF Probe!Submitted, probed
  <2>4. sent = [h EXCEPT !.pool = kept]
    BY <1>1, <1>2, <2>2, <2>3 DEF HandoffType, PoolType, v
  <2>5. sent.it = it /\ sent.pool = kept /\ kept.immediate = <<v>>
    BY <1>1, <1>2, <2>4 DEF HandoffType, PoolType
  <2>6. value = Probe!Fresh(it.base, it.epoch)
    BY <2>1, <2>2, <2>5 DEF v
  <2>7. handoff' = [Probe!Given(sent, value) EXCEPT
                        !.pool.turn = (@ + 1) % HandoffWorkers,
                        !.pool.immediate = <<>>, !.pool.queues = p.queues]
    BY <1>1, <2>5 DEF Probe!Execute, None, Probe!None
  <2>8. Probe!Given(sent, value) =
            [h EXCEPT !.it = i2, !.calling = FALSE, !.epochs = e, !.pool = kept]
    <3> HIDE DEF sent, value, kept
    <3> QED
      BY <1>1, <1>2, <2>4, <2>6 DEF Probe!Given, HandoffType, IteratorType, e, i2
  <2>9. [kept EXCEPT !.turn = (@ + 1) % HandoffWorkers, !.immediate = <<>>,
                     !.queues = p.queues] = p2
    BY <1>2 DEF PoolType, p2, p1, next
  <2> HIDE DEF sent, value, kept
  <2>10. handoff' = [h EXCEPT !.it = i2, !.calling = FALSE, !.epochs = e, !.pool = p2]
    BY <1>1, <2>7, <2>8, <2>9 DEF HandoffType
  <2> QED
    BY <1>1, <2>10 DEF HandoffType
<1>19. ASSUME ~probed
       PROVE  handoff' = g
  <2> DEFINE c == [epoch |-> it.epoch, position |-> it.base]
             left == p.retained /\ ~probed
             kept == [p EXCEPT !.queues = [p.queues EXCEPT ![p.turn] = Append(@, c)],
                               !.retained = left]
  <2>1. left = FALSE
    BY <1>6, <1>19
  <2>2. sent = [h EXCEPT !.pool.queues[p.turn] = Append(@, c),
                         !.pool.retained = @ /\ ~probed]
    BY <1>1, <1>19 DEF Probe!Submitted, probed
  <2> HIDE DEF c
  <2>3. sent = [h EXCEPT !.pool = kept]
    BY <1>1, <1>2, <2>2 DEF HandoffType, PoolType
  <2> HIDE DEF left
  <2>4. sent.it = it /\ sent.pool = kept /\ kept.immediate = <<>>
    BY <1>1, <1>2, <2>3 DEF HandoffType, PoolType
  <2>5. value = Probe!Fresh(it.base, it.epoch)
    BY <2>4
  <2>6. handoff' = [Probe!Given(sent, value) EXCEPT
                        !.pool.turn = (@ + 1) % HandoffWorkers,
                        !.pool.immediate = <<>>, !.pool.queues = p.queues]
    BY <1>1, <2>4 DEF Probe!Execute, None, Probe!None
  <2>7. Probe!Given(sent, value) =
            [h EXCEPT !.it = i2, !.calling = FALSE, !.epochs = e, !.pool = kept]
    <3> HIDE DEF sent, value, kept
    <3> QED
      BY <1>1, <1>2, <2>3, <2>5 DEF Probe!Given, HandoffType, IteratorType, e, i2
  <2>8. [kept EXCEPT !.turn = (@ + 1) % HandoffWorkers, !.immediate = <<>>,
                     !.queues = p.queues] = p2
    BY <1>2, <2>1 DEF PoolType, p2, p1, next
  <2> HIDE DEF sent, value, kept
  <2>9. handoff' = [h EXCEPT !.it = i2, !.calling = FALSE, !.epochs = e, !.pool = p2]
    BY <1>1, <2>6, <2>7, <2>8 DEF HandoffType
  <2> QED
    BY <1>1, <2>9 DEF HandoffType
<1>20. handoff' = g
  BY <1>18, <1>19
<1> HIDE DEF g, h1, h2, h3
<1>21. p2 \in PoolType /\ Idle(p2) /\ p2 # None
  BY <1>2, <1>10, <1>11, HandoffNoneApart DEF Idle, Probe!HasPending
<1>22. RetainedForEpoch(g)
  BY <1>1, <1>4, <1>11, <1>16, <1>21 DEF RetainedForEpoch
<1>23. HandoffSound(g)
  BY <1>1, <1>15, <1>16, <1>21, <1>22 DEF HandoffSound
<1> QED
  BY <1>20, <1>23

LEMMA HandoffFinishes ==
    ASSUME ProbeMeets, HandoffSound(handoff), Probe!Finish
    PROVE  HandoffSound(handoff')
<1> DEFINE h == handoff
           p == h.pool
           it == h.it
           e == Probe!CompleteEpoch(h.epochs, it.epoch)
           h1 == [h EXCEPT !.epochs = e]
           g == [h1 EXCEPT !.it = None]
<1>1. /\ h \in HandoffType /\ h.own /\ h.error = "none" /\ it # None
      /\ it.base = HandoffLength /\ p # None
      /\ h.calling => it.base < HandoffLength
      /\ HandoffLength \in Nat /\ HandoffLength >= 2
      /\ handoff' = [h EXCEPT !.epochs = e, !.it = None]
  BY Kinds DEF HandoffSound, Probe!Finish, None, Probe!None
<1>2. /\ p \in PoolType /\ it \in IteratorType /\ h.epochs \in EpochType
      /\ h.calling \in BOOLEAN
  BY <1>1, PartTypes
<1>3. ~h.calling
  BY <1>1, <1>2
<1>4. it.epoch \in Nat /\ it.sent \in Sendings
  BY <1>2 DEF IteratorType
<1>5. e \in EpochType /\ e.override = h.epochs.override
  BY <1>2, <1>4, EpochsTyped
<1> HIDE DEF e
<1>6. h1 \in HandoffType
  BY <1>1, <1>5, HandoffUpdates
<1> HIDE DEF h1
<1>7. g \in HandoffType
  BY <1>6, HandoffUpdates
<1> USE DEF h1
<1>8. /\ g.config = h.config /\ g.epochs = e /\ g.cursor = h.cursor /\ g.pool = p
      /\ g.it = None /\ ~g.calling /\ g.own = h.own /\ g.error = h.error
      /\ handoff' = g
  BY <1>1, <1>3 DEF HandoffType
<1> HIDE DEF g, h1
<1>9. h.config.kind # "execute" => Idle(p)
  <2> SUFFICES ASSUME h.config.kind # "execute"
               PROVE  Idle(p)
    OBVIOUS
  <2>1. Lines(p, it)
    BY <1>1 DEF HandoffSound
  <2>2. \A q \in DOMAIN it.sent : q \in 0..HandoffLength - 1 /\ HandoffLength <= q
    BY <1>1, <1>4, <2>1 DEF Lines, Sendings, Probe!Positions
  <2>3. DOMAIN it.sent = {}
    BY <1>1, <2>2
  <2> QED
    BY <1>2, <2>1, <2>3, EmptyLines
<1>10. ASSUME h.config.kind = "batches"
       PROVE  KeptForEpoch(g) /\ p.immediate = <<>>
  <2>1. KeptForEpoch(h) /\ p.immediate = <<>>
    BY <1>1, <1>10 DEF HandoffSound
  <2>2. ~p.kept
    BY <1>1, <2>1 DEF KeptForEpoch
  <2> QED
    BY <1>5, <1>8, <2>1, <2>2 DEF KeptForEpoch
<1>11. ASSUME h.config.kind = "execute"
       PROVE  RetainedForEpoch(g)
  <2>1. RetainedForEpoch(h)
    BY <1>11 DEF HandoffSound
  <2>2. ~p.retained
    BY <1>1, <2>1 DEF RetainedForEpoch
  <2> QED
    BY <1>1, <1>5, <1>8, <2>1, <2>2 DEF RetainedForEpoch
<1>12. HandoffSound(g)
  BY <1>1, <1>7, <1>8, <1>9, <1>10, <1>11 DEF HandoffSound
<1> QED
  BY <1>8, <1>12

LEMMA HandoffMoves ==
    ASSUME ProbeMeets, HandoffSound(handoff), Probe!SetEpoch
    PROVE  HandoffSound(handoff')
<1> DEFINE h == handoff
           g == handoff'
<1>1. h \in HandoffType /\ h.config.moves
  BY DEF HandoffSound, Probe!SetEpoch
<1>2. h.config.kind = "samples" /\ h.epochs \in EpochType /\ h.spent \in Nat
  BY <1>1, Kinds, PartTypes
<1>3. PICK n \in 0..1 :
          g = [h EXCEPT !.epochs.current = n, !.cursor = 0,
                        !.epochs.override = TRUE, !.spent = @ + 1]
  BY DEF Probe!SetEpoch
<1> DEFINE e == [h.epochs EXCEPT !.current = n, !.override = TRUE]
           h1 == [h EXCEPT !.epochs = e]
           h2 == [h1 EXCEPT !.cursor = 0]
           h3 == [h2 EXCEPT !.spent = h.spent + 1]
<1>4. e \in EpochType
  <2>1. n \in Nat
    BY <1>3
  <2> QED
    BY <1>2, <2>1 DEF EpochType
<1> HIDE DEF g
<1>5. g = h3
  BY <1>1, <1>2, <1>3 DEF HandoffType, EpochType
<1> HIDE DEF e
<1>6. h1 \in HandoffType
  BY <1>1, <1>4, HandoffUpdates
<1> HIDE DEF h1
<1>7. h2 \in HandoffType
  BY <1>6, 0 \in Nat, HandoffUpdates
<1> HIDE DEF h2
<1>8. h3 \in HandoffType
  <2>1. h.spent + 1 \in Nat
    BY <1>2
  <2> QED
    BY <1>7, <2>1, HandoffUpdates
<1> USE DEF h1, h2
<1>9. /\ g.config = h.config /\ g.pool = h.pool /\ g.it = h.it
      /\ g.calling = h.calling /\ g.own = h.own /\ g.error = h.error
  BY <1>1, <1>5 DEF HandoffType
<1> HIDE DEF h1, h2, h3
<1>10. HandoffSound(g)
  BY <1>2, <1>5, <1>8, <1>9 DEF HandoffSound
<1> QED
  BY <1>10 DEF g

LEMMA HandoffLoads ==
    ASSUME ProbeMeets, HandoffSound(handoff), Probe!Load
    PROVE  HandoffSound(handoff')
<1> DEFINE h == handoff
           g == handoff'
           e == [h.epochs EXCEPT !.current = 0, !.override = TRUE]
           h1 == [h EXCEPT !.it = None]
           h2 == [h1 EXCEPT !.pool = None]
           h3 == [h2 EXCEPT !.cursor = 1]
           h4 == [h3 EXCEPT !.spent = h.spent + 1]
           h5 == [h4 EXCEPT !.epochs = e]
<1>1. /\ h \in HandoffType /\ h.config.loads /\ ~h.calling
      /\ h.own /\ h.error = "none"
      /\ g = [h EXCEPT !.it = None, !.pool = None, !.cursor = 1, !.spent = @ + 1,
                       !.epochs.current = 0, !.epochs.override = TRUE]
  BY DEF HandoffSound, Probe!Load, None, Probe!None
<1>2. h.config.kind = "samples" /\ h.epochs \in EpochType /\ h.spent + 1 \in Nat
  BY <1>1, Kinds, PartTypes
<1>3. e \in EpochType
  BY <1>2 DEF EpochType
<1> HIDE DEF g
<1>4. g = h5
  BY <1>1, <1>2 DEF HandoffType, EpochType
<1> HIDE DEF e
<1>5. h1 \in HandoffType
  BY <1>1, HandoffUpdates
<1> HIDE DEF h1
<1>6. h2 \in HandoffType
  BY <1>5, HandoffUpdates
<1> HIDE DEF h2
<1>7. h3 \in HandoffType
  BY <1>6, 1 \in Nat, HandoffUpdates
<1> HIDE DEF h3
<1>8. h4 \in HandoffType
  BY <1>2, <1>7, HandoffUpdates
<1> HIDE DEF h4
<1>9. h5 \in HandoffType
  BY <1>3, <1>8, HandoffUpdates
<1> USE DEF h1, h2, h3, h4
<1>10. /\ g.config = h.config /\ g.pool = None /\ g.it = None
       /\ g.calling = h.calling /\ g.own = h.own /\ g.error = h.error
  BY <1>1, <1>4 DEF HandoffType
<1> HIDE DEF h1, h2, h3, h4, h5
<1>11. HandoffSound(g)
  BY <1>1, <1>2, <1>4, <1>9, <1>10 DEF HandoffSound
<1> QED
  BY <1>11 DEF g

LEMMA HandoffEvaluates ==
    ASSUME ProbeMeets, HandoffSound(handoff), NEW w \in Probe!Workers,
           Probe!Evaluate(w)
    PROVE  HandoffSound(handoff')
<1> DEFINE h == handoff
           p == h.pool
           it == h.it
           c == Head(p.queues[w])
           v == IF h.config.kind = "batches" THEN Probe!Evaluated(p, w, c)
                ELSE Probe!Fresh(c.position, c.epoch)
           left == p.kept /\ ~(h.config.kind = "batches" /\ w = 0 /\ c.position = 0)
           queues == [p.queues EXCEPT ![w] = Tail(@)]
           results == [p.results EXCEPT ![w] = Append(@, v)]
           p1 == [p EXCEPT !.queues = queues]
           p2 == [p1 EXCEPT !.results = results]
           p3 == [p2 EXCEPT !.kept = left]
           g == [h EXCEPT !.pool = p3]
<1>1. /\ h \in HandoffType /\ h.own /\ h.error = "none" /\ p # None
      /\ p.queues[w] # <<>>
      /\ h.calling => it # None
      /\ h.calling => it.base < HandoffLength
      /\ handoff' = [h EXCEPT
               !.pool.queues[w] = Tail(@),
               !.pool.results[w] = Append(@, v),
               !.pool.kept = @ /\ ~(h.config.kind = "batches" /\ w = 0
                                    /\ c.position = 0)]
  BY DEF HandoffSound, Probe!Evaluate, None, Probe!None
<1>2. h.config.kind # "execute" /\ it # None
  <2>1. ~Idle(p)
    BY <1>1 DEF Idle, Probe!HasPending
  <2> QED
    BY <1>1, <2>1 DEF HandoffSound, RetainedForEpoch
<1>3. /\ Served(h) /\ Aimed(it) /\ Lines(p, it) /\ p \in PoolType
      /\ it \in IteratorType
      /\ h.config.kind = "batches" => p.immediate = <<>> /\ KeptForEpoch(h)
  BY <1>1, <1>2, IteratesServed, PartTypes DEF Served, HandoffSound
<1>4. p.queues \in [Probe!Workers -> Seq(CommandType)]
      /\ p.results \in [Probe!Workers -> Seq(ValueType)] /\ p.kept \in BOOLEAN
  BY <1>3 DEF PoolType
<1>5. /\ c \in CommandType /\ c = p.queues[w][1] /\ 1 \in 1..Len(p.queues[w])
      /\ Tail(p.queues[w]) \in Seq(CommandType)
  <2> DEFINE Q == p.queues[w]
  <2>1. Q \in Seq(CommandType) /\ Q # <<>>
    BY <1>1, <1>4
  <2> HIDE DEF Q
  <2>2. Head(Q) \in CommandType /\ Head(Q) = Q[1] /\ Len(Q) >= 1
        /\ Tail(Q) \in Seq(CommandType) /\ Len(Q) \in Nat
    BY <2>1, TakenFrom
  <2> QED
    BY <2>2 DEF Q
<1>6. c.epoch = it.epoch /\ c.position \in DOMAIN it.sent /\ it.sent[c.position] = w
  BY <1>3, <1>5 DEF Lines, LineOf, Asked
<1>7. c.position \in Probe!Positions /\ c.epoch \in Nat
  BY <1>5 DEF CommandType
<1>8. v = Probe!Fresh(c.position, it.epoch)
  <2>1. CASE h.config.kind = "batches" /\ c.position = 0 /\ w = 0 /\ p.kept
    <3>1. p.key = it.epoch
      BY <1>1, <1>2, <1>3, <2>1 DEF KeptForEpoch
    <3> QED
      BY <1>6, <2>1, <3>1 DEF Probe!Evaluated, Probe!Fresh
  <2>2. CASE ~(h.config.kind = "batches" /\ c.position = 0 /\ w = 0 /\ p.kept)
    BY <1>6, <2>2 DEF Probe!Evaluated
  <2> QED
    BY <2>1, <2>2
<1>9. v \in ValueType /\ v.position = c.position
  BY <1>6, <1>7, <1>8, FreshTyped
<1>10. left \in BOOLEAN /\ (left => p.kept)
  OBVIOUS
<1>11. left /\ h.config.kind = "batches" => c.position # 0
  BY <1>3, <1>6 DEF Lines
<1> HIDE DEF v, left
<1>12. queues \in [Probe!Workers -> Seq(CommandType)]
  BY <1>4, <1>5
<1>13. results \in [Probe!Workers -> Seq(ValueType)]
  <2>1. Append(p.results[w], v) \in Seq(ValueType)
    BY <1>4, <1>9, AppendedTo
  <2> QED
    BY <1>4, <2>1
<1>14. handoff' = g
  BY <1>1, <1>3 DEF HandoffType, PoolType, left
<1> HIDE DEF queues, results
<1>15. p1 \in PoolType
  BY <1>3, <1>12, PoolUpdates
<1> HIDE DEF p1
<1>16. p2 \in PoolType
  BY <1>13, <1>15, PoolUpdates
<1> HIDE DEF p2
<1>17. p3 \in PoolType
  BY <1>10, <1>16, PoolUpdates
<1> USE DEF p1, p2
<1>18. /\ p3.queues = queues /\ p3.results = results /\ p3.immediate = p.immediate
       /\ p3.key = p.key /\ p3.kept = left
  BY <1>3 DEF PoolType
<1> HIDE DEF p1, p2, p3
<1>19. g \in HandoffType
  BY <1>1, <1>17, HandoffUpdates
<1>20. /\ g.config = h.config /\ g.epochs = h.epochs /\ g.cursor = h.cursor
       /\ g.pool = p3 /\ g.it = it /\ g.calling = h.calling /\ g.own = h.own
       /\ g.error = h.error
  BY <1>1 DEF HandoffType
<1> HIDE DEF g
<1>21. Lines(p3, it) /\ Probe!HasPending(p3)
  BY <1>1, <1>3, <1>8, <1>9, <1>17, <1>18, LinesEvaluated DEF queues, results
<1>22. Served(g) /\ Heard(g.pool)
  BY <1>2, <1>3, <1>17, <1>18, <1>19, <1>20, <1>21, HandoffNoneApart DEF Served, Heard
<1>23. ASSUME h.config.kind = "batches"
       PROVE  KeptForEpoch(g)
  <2>1. KeptForEpoch(h)
    BY <1>3, <1>23
  <2>2. ASSUME p3.kept, NEW x \in Probe!Workers, NEW i \in 1..Len(p3.results[x])
        PROVE  p3.results[x][i].position # 0
    <3>1. p.kept /\ c.position # 0
      BY <1>10, <1>11, <1>18, <1>23, <2>2
    <3>2. \A j \in 1..Len(p.results[x]) : p.results[x][j].position # 0
      BY <1>1, <1>2, <2>1, <3>1 DEF KeptForEpoch
    <3>3. CASE x # w
      <4>1. p3.results[x] = p.results[x]
        BY <1>4, <1>18, <3>3 DEF results
      <4> QED
        BY <2>2, <3>2, <4>1
    <3>4. CASE x = w
      <4> DEFINE R == p.results[w]
      <4>1. p3.results[x] = Append(R, v) /\ R \in Seq(ValueType)
        BY <1>4, <1>18, <3>4 DEF results
      <4> HIDE DEF R
      <4>2. /\ Len(Append(R, v)) = Len(R) + 1 /\ Len(R) \in Nat
            /\ \A j \in 1..Len(R) : Append(R, v)[j] = R[j]
            /\ Append(R, v)[Len(R) + 1] = v
        BY <1>9, <4>1, AppendedTo
      <4>3. i \in 1..Len(R) \/ i = Len(R) + 1
        BY <2>2, <4>1, <4>2
      <4>4. i = Len(R) + 1 => p3.results[x][i].position # 0
        BY <1>9, <3>1, <4>1, <4>2
      <4>5. i \in 1..Len(R) => p3.results[x][i].position # 0
        BY <3>2, <3>4, <4>1, <4>2 DEF R
      <4> QED
        BY <4>3, <4>4, <4>5
    <3> QED
      BY <3>3, <3>4
  <2> QED
    BY <1>1, <1>2, <1>10, <1>18, <1>20, <2>1, <2>2 DEF KeptForEpoch
<1>24. HandoffSound(g)
  BY <1>1, <1>3, <1>20, <1>22, <1>23, ServedSound
<1> QED
  BY <1>14, <1>24 DEF g

LEMMA HandoffInvInit ==
    ASSUME ProbeMeets, ControlInit
    PROVE  HandoffInv
<1> SUFFICES ASSUME NEW c \in HandoffConfigs, Probe!HandoffInit(c)
             PROVE  HandoffSound(handoff)
  BY OnePart DEF HandoffInv
<1> DEFINE p == IF c.kind = "execute" THEN None ELSE Probe!NewPool(0, 0)
           e == Probe!StartingEpoch
<1>1. handoff = [config |-> c, pool |-> p, epochs |-> e, cursor |-> 0, it |-> None,
                 calling |-> FALSE, own |-> TRUE, error |-> "none", spent |-> 0]
  BY DEF Probe!HandoffInit, None, Probe!None
<1>2. /\ Probe!NewPool(0, 0) \in PoolType /\ Idle(Probe!NewPool(0, 0))
      /\ Probe!NewPool(0, 0).key = 0 /\ Probe!NewPool(0, 0).turn = 0
  BY 0 \in Nat, NewPoolIdle
<1>3. /\ p \in {None} \cup PoolType
      /\ p # None => Idle(p) /\ p.key = 0
      /\ c.kind = "execute" => p = None
  BY <1>2
<1>4. e \in EpochType /\ e.current = 0 /\ e.override = FALSE /\ e.delivered = FALSE
  BY DEF Probe!StartingEpoch, EpochType
<1> HIDE DEF p, e
<1> DEFINE h == [config |-> c, pool |-> p, epochs |-> e, cursor |-> 0, it |-> None,
                 calling |-> FALSE, own |-> TRUE, error |-> "none", spent |-> 0]
<1>5. h \in HandoffType
  BY <1>3, <1>4 DEF HandoffType
<1>6. /\ h.config = c /\ h.pool = p /\ h.epochs = e /\ h.cursor = 0 /\ h.it = None
      /\ ~h.calling /\ h.own /\ h.error = "none"
  OBVIOUS
<1>7. handoff = h
  BY <1>1
<1> HIDE DEF h
<1>8. HandoffSound(h)
  BY <1>3, <1>4, <1>5, <1>6
  DEF HandoffSound, KeptForEpoch, RetainedForEpoch, Idle
<1> QED
  BY <1>7, <1>8

LEMMA HandoffInvStep ==
    ASSUME ProbeMeets, HandoffInv, [ControlNext]_controlVars
    PROVE  HandoffInv'
<1>1. CASE UNCHANGED handoff
  BY <1>1 DEF HandoffInv
<1>2. CASE handoff # None /\ Probe!HandoffNext
  <2> SUFFICES HandoffSound(handoff')
    BY DEF HandoffInv
  <2>1. HandoffSound(handoff)
    BY <1>2 DEF HandoffInv
  <2>2. ASSUME NEW dropped \in BOOLEAN, Probe!Iterate(dropped)
        PROVE  HandoffSound(handoff')
    BY <2>1, <2>2, HandoffIterates
  <2>3. CASE Probe!CallNext
    BY <2>1, <2>3, HandoffCalls
  <2>4. CASE Probe!Poll
    BY <2>1, <2>4, HandoffPolls
  <2>5. CASE Probe!Deliver
    BY <2>1, <2>5, HandoffDelivers
  <2>6. CASE Probe!Execute
    BY <2>1, <2>6, HandoffExecutes
  <2>7. CASE Probe!Finish
    BY <2>1, <2>7, HandoffFinishes
  <2>8. CASE Probe!SetEpoch
    BY <2>1, <2>8, HandoffMoves
  <2>9. CASE Probe!Load
    BY <2>1, <2>9, HandoffLoads
  <2>10. ASSUME NEW w \in Probe!Workers, Probe!Evaluate(w)
         PROVE  HandoffSound(handoff')
    BY <2>1, <2>10, HandoffEvaluates
  <2> QED
    BY <1>2, <2>2, <2>3, <2>4, <2>5, <2>6, <2>7, <2>8, <2>9, <2>10
    DEF Probe!HandoffNext
<1> QED
  BY <1>1, <1>2, PartsApart

(* process/worker.py:267 and process/pool.py:221: the value of the sample  *)
(* that was evaluated to build the pool is delivered for its own position  *)
(* and epoch only, it is never asked of another worker than the first, and *)
(* no completion comes that the frontier does not wait for, whatever the   *)
(* length of the epochs, the number of workers and of iterators over one   *)
(* pool, wherever the plans are those of ProbeMeets.                       *)
THEOREM ProbesAreDelivered ==
    ASSUME ProbeMeets
    PROVE  ControlSpec => []ProbeDelivered
<1>1. ControlInit => HandoffInv
  BY HandoffInvInit
<1>2. HandoffInv /\ [ControlNext]_controlVars => HandoffInv'
  BY HandoffInvStep
<1>3. HandoffInv => ProbeDelivered
  BY DEF HandoffInv, HandoffSound, ProbeDelivered, Probe!ValuesOwnEpoch,
         Probe!HandoffAccepted
<1> QED
  BY <1>1, <1>2, <1>3, PTL DEF ControlSpec

-----------------------------------------------------------------------------
(* The ranks of a job.                                                     *)

Smaller(a, b) == IF a <= b THEN a ELSE b

(* The coordinates of the first positions of each rank.                    *)
Coordinates(c, world, upto) ==
    UNION {{Ranks!Coordinate(c, world, r, q) : q \in 0 .. upto[r] - 1} :
               r \in 0 .. world - 1}

(* Those that stand for a position of the dataset.                         *)
At(S, c, p) == {k \in S : k % c.n = p}

(* The first global batches.                                               *)
Front(c, batches) ==
    {k \in 0 .. Ranks!StreamLength(c) - 1 : k < batches * c.bg}

Fits(c, world) == c.bg % world = 0 /\ (c.enabled \/ world = 1)

Placed(s) ==
    s = [config |-> s.config, world |-> s.world, job |-> s.job, saved |-> s.saved,
         seen |-> s.seen, refused |-> s.refused, resumes |-> s.resumes]

JobShape(s) ==
    /\ Placed(s)
    /\ s.config \in RankConfigs /\ s.world \in Worlds /\ Fits(s.config, s.world)
    /\ s.job \in [position : [Ranks!RankIds(s) -> Nat], calls : [Ranks!RankIds(s) -> Nat],
                  ended : [Ranks!RankIds(s) -> BOOLEAN]]
    /\ s.seen \in [0 .. s.config.n - 1 -> Nat]

(* Every rank is as many batches past the front as it was called, and one  *)
(* that has not ended has not been called past its last.                   *)
InStep(s, front) ==
    \A r \in Ranks!RankIds(s) :
        LET length == Ranks!Length(s.config, s.world, r)
            batch == Ranks!Batch(s.config, s.world)
            batches == front + s.job.calls[r]
        IN  /\ s.job.position[r] = Smaller(length, batches * batch)
            /\ IF s.job.ended[r] THEN s.job.position[r] = length
               ELSE batches * batch < length + batch

(* What was seen is what the ranks are past, each coordinate once.         *)
Counted(s) ==
    \A p \in 0 .. s.config.n - 1 :
        s.seen[p] = Cardinality(At(Coordinates(s.config, s.world, s.job.position),
                                   s.config, p))

SavedCounted(s) ==
    /\ s.saved.cursor \in Nat /\ s.saved.seen \in [0 .. s.config.n - 1 -> Nat]
    /\ \A p \in 0 .. s.config.n - 1 :
           s.saved.seen[p] =
               Cardinality(At(Front(s.config, s.saved.cursor), s.config, p))

RanksSound(s) ==
    /\ JobShape(s)
    /\ ~s.refused => Counted(s) /\ \E front \in Nat : InStep(s, front)
    /\ s.saved # None => SavedCounted(s)

RanksInv == ranks # None => RanksSound(ranks)

(* Arithmetic.                                                             *)
LEMMA Products ==
    /\ \A x, y \in Nat : x * y \in Nat
    /\ \A x, y, b \in Nat : x <= y => x * b <= y * b
    /\ \A x, y, b \in Nat : (x + y) * b = x * b + y * b
    /\ \A x, b \in Nat : (x + 1) * b = x * b + b
    /\ \A x, y \in Nat : x * y = y * x
    /\ \A x, y, z \in Nat : (x * y) * z = x * (y * z)
<1>1. \A x, y \in Nat : x * y \in Nat
  OBVIOUS
<1>2. \A x, y, b \in Nat : x <= y => x * b <= y * b
  OBVIOUS
<1>3. \A x, y, b \in Nat : (x + y) * b = x * b + y * b
  OBVIOUS
<1>4. \A x, b \in Nat : (x + 1) * b = x * b + b
  OBVIOUS
<1>5. \A x, y \in Nat : x * y = y * x
  OBVIOUS
<1>6. \A x, y, z \in Nat : (x * y) * z = x * (y * z)
  OBVIOUS
<1> QED
  BY <1>1, <1>2, <1>3, <1>4, <1>5, <1>6

LEMMA Divided ==
    ASSUME NEW a \in Nat, NEW b \in Nat, b > 0
    PROVE  /\ a \div b \in Nat /\ a % b \in 0 .. b - 1
           /\ a = (a \div b) * b + (a % b)
<1>1. a \div b \in Int /\ a % b \in 0 .. b - 1
  OBVIOUS
<1>2. a = (a \div b) * b + (a % b)
  OBVIOUS
<1>3. a \div b \in Nat
  OBVIOUS
<1> QED
  BY <1>1, <1>2, <1>3

LEMMA OneQuotient ==
    ASSUME NEW b \in Nat, b > 0, NEW x \in Nat, NEW y \in Nat,
           NEW u \in 0 .. b - 1, NEW v \in 0 .. b - 1, x * b + u = y * b + v
    PROVE  x = y /\ u = v
<1>1. ASSUME x < y
      PROVE  FALSE
  <2>1. (x + 1) * b <= y * b
    BY <1>1, Products
  <2>2. (x + 1) * b = x * b + b /\ x * b \in Nat /\ y * b \in Nat
    BY Products
  <2> QED
    BY <2>1, <2>2
<1>2. ASSUME y < x
      PROVE  FALSE
  <2>1. (y + 1) * b <= x * b
    BY <1>2, Products
  <2>2. (y + 1) * b = y * b + b /\ x * b \in Nat /\ y * b \in Nat
    BY Products
  <2> QED
    BY <2>1, <2>2
<1>3. x = y
  BY <1>1, <1>2
<1> QED
  BY <1>3

LEMMA QuotientOf ==
    ASSUME NEW b \in Nat, b > 0, NEW x \in Nat, NEW u \in 0 .. b - 1
    PROVE  (x * b + u) \div b = x /\ (x * b + u) % b = u
<1> DEFINE a == x * b + u
<1>1. a \in Nat
  BY Products
<1> HIDE DEF a
<1>2. /\ a \div b \in Nat /\ a % b \in 0 .. b - 1
      /\ a = (a \div b) * b + (a % b)
  BY <1>1, Divided
<1>3. x = a \div b /\ u = a % b
  <2> DEFINE y == a \div b
             v == a % b
  <2>1. x * b + u = y * b + v
    BY <1>2 DEF a
  <2>2. y \in Nat /\ v \in 0 .. b - 1
    BY <1>2
  <2> HIDE DEF y, v
  <2>3. x = y /\ u = v
    BY <2>1, <2>2, OneQuotient, SMTT(30)
  <2> QED
    BY <2>3 DEF y, v
<1> QED
  BY <1>3 DEF a

LEMMA Quotients ==
    ASSUME NEW a \in Nat, NEW b \in Nat, b > 0, NEW x \in Nat
    PROVE  /\ x * b <= a => x <= a \div b
           /\ a < x * b => a \div b < x
           /\ a < x * b + b => a \div b <= x
<1> DEFINE q == a \div b
           u == a % b
<1>1. q \in Nat /\ u \in 0 .. b - 1 /\ a = q * b + u
  BY Divided
<1> HIDE DEF q, u
<1>2. q * b \in Nat /\ x * b \in Nat /\ (q + 1) * b = q * b + b /\ (x + 1) * b = x * b + b
  BY <1>1, Products
<1>3. x * b <= a => x <= q
  <2> SUFFICES ASSUME x * b <= a, q < x
               PROVE  FALSE
    BY <1>1
  <2>1. (q + 1) * b <= x * b
    BY <1>1, Products
  <2> QED
    BY <1>1, <1>2, <2>1
<1>4. a < x * b => q < x
  <2> SUFFICES ASSUME a < x * b, x <= q
               PROVE  FALSE
    BY <1>1
  <2>1. x * b <= q * b
    BY <1>1, Products
  <2> QED
    BY <1>1, <1>2, <2>1
<1>5. a < x * b + b => q <= x
  <2> SUFFICES ASSUME a < x * b + b, x + 1 <= q
               PROVE  FALSE
    BY <1>1
  <2>1. (x + 1) * b <= q * b
    BY <1>1, Products
  <2> QED
    BY <1>1, <1>2, <2>1
<1> QED
  BY <1>3, <1>4, <1>5 DEF q

(* One topology.                                                           *)
LEMMA Topology ==
    ASSUME NEW c \in RankConfigs, NEW world \in Worlds, Fits(c, world)
    PROVE  LET batch == Ranks!Batch(c, world)
               full == Ranks!FullBatches(c)
               tail == Ranks!Tail(c)
           IN  /\ c.n \in Nat /\ c.bg \in Nat /\ c.bg > 0
               /\ world \in Nat /\ world > 0
               /\ batch \in Nat /\ batch > 0 /\ c.bg = batch * world
               /\ full \in Nat /\ tail \in Nat /\ tail < c.bg
               /\ full * c.bg \in Nat /\ full * batch \in Nat
               /\ c.n = full * c.bg + tail
               /\ ~c.enabled => world = 1
<1>1. /\ c.n \in Nat /\ c.bg \in Nat /\ c.bg > 0 /\ world \in Nat /\ world > 0
      /\ c.bg % world = 0
      /\ ~c.enabled => world = 1
  BY ControlAssumption DEF ControlAssumption, Fits
<1> DEFINE batch == Ranks!Batch(c, world)
           full == Ranks!FullBatches(c)
           tail == Ranks!Tail(c)
<1>2. batch \in Nat /\ c.bg = batch * world
  <2>1. batch \in Nat /\ c.bg = batch * world + (c.bg % world) /\ batch * world \in Nat
    BY <1>1, Divided, Products DEF Ranks!Batch
  <2> HIDE DEF batch
  <2> QED
    BY <1>1, <2>1
<1>3. full \in Nat /\ tail \in 0 .. c.bg - 1 /\ c.n = full * c.bg + tail
  BY <1>1, Divided DEF Ranks!FullBatches, Ranks!Tail
<1> HIDE DEF batch, full, tail
<1>4. batch > 0
  <2>1. batch = 0 => batch * world = 0
    BY <1>1
  <2> QED
    BY <1>1, <1>2, <2>1
<1>5. full * c.bg \in Nat /\ full * batch \in Nat
  BY <1>1, <1>2, <1>3, Products
<1>6. tail \in Nat /\ tail < c.bg
  BY <1>1, <1>3
<1> QED
  BY <1>1, <1>2, <1>3, <1>4, <1>5, <1>6, Zenon DEF batch, full, tail

(* The shares of an exact tail follow one another and cover it.            *)
LEMMA Shares ==
    ASSUME NEW c \in RankConfigs, NEW world \in Worlds, Fits(c, world)
    PROVE  LET start(r) == Ranks!ShareStart(c, world, r)
               tail == Ranks!Tail(c)
           IN  /\ \A r \in 0 .. world : start(r) \in Nat /\ start(r) <= tail
               /\ start(0) = 0 /\ start(world) = tail
               /\ \A r, r2 \in 0 .. world : r <= r2 => start(r) <= start(r2)
               /\ \A r \in 0 .. world - 1 :
                      start(r + 1) - start(r) \in 0 .. Ranks!Batch(c, world)
               /\ \A x \in 0 .. tail - 1 : \E r \in 0 .. world - 1 :
                      start(r) <= x /\ x < start(r + 1)
<1> DEFINE start(r) == Ranks!ShareStart(c, world, r)
           T == Ranks!Tail(c)
           B == Ranks!Batch(c, world)
<1>1. /\ world \in Nat /\ world > 0 /\ B \in Nat /\ B > 0 /\ c.bg = B * world
      /\ T \in Nat /\ T < c.bg
  BY Topology
<1>2. \A r : start(r) = (r * T) \div world
  BY DEF Ranks!ShareStart
<1> HIDE DEF start, T, B
<1>3. \A r \in Nat : r * T \in Nat /\ start(r) \in Nat
  BY <1>1, <1>2, Products, Divided
<1>4. start(0) = 0
  <2>1. 0 * T = 0 /\ 0 * world = 0
    BY <1>1
  <2>2. start(0) = 0 \div world
    BY <1>2, <2>1
  <2>3. (0 * world + 0) \div world = 0
    BY <1>1, QuotientOf
  <2> QED
    BY <2>1, <2>2, <2>3
<1>5. start(world) = T
  <2>1. world * T = T * world + 0 /\ T * world \in Nat
    BY <1>1, Products
  <2>2. (T * world + 0) \div world = T
    BY <1>1, QuotientOf
  <2>3. start(world) = (T * world + 0) \div world
    BY <1>2, <2>1
  <2> QED
    BY <2>2, <2>3
<1>6. \A r, r2 \in Nat : r <= r2 => start(r) <= start(r2)
  <2> SUFFICES ASSUME NEW r \in Nat, NEW r2 \in Nat, r <= r2
               PROVE  start(r) <= start(r2)
    OBVIOUS
  <2>1. r * T <= r2 * T /\ r * T \in Nat /\ r2 * T \in Nat
    BY <1>1, Products
  <2>2. start(r) * world <= r * T
    <3>1. /\ start(r) \in Nat /\ r * T = start(r) * world + ((r * T) % world)
          /\ (r * T) % world \in 0 .. world - 1 /\ start(r) * world \in Nat
      BY <1>1, <1>2, <1>3, <2>1, Divided, Products
    <3> QED
      BY <1>1, <2>1, <3>1
  <2>3. start(r) \in Nat /\ start(r) * world \in Nat
    BY <1>1, <1>3, Products
  <2>4. start(r) * world <= r2 * T
    BY <2>1, <2>2, <2>3
  <2>5. start(r) <= (r2 * T) \div world
    BY <1>1, <2>1, <2>3, <2>4, Quotients
  <2> QED
    BY <1>2, <2>5
<1>7. \A r \in Nat : start(r + 1) - start(r) \in 0 .. B
  <2> SUFFICES ASSUME NEW r \in Nat
               PROVE  start(r + 1) - start(r) \in 0 .. B
    OBVIOUS
  <2> DEFINE s == start(r)
             t == start(r + 1)
             a == r * T
             e == (r + 1) * T
  <2>1. s \in Nat /\ t \in Nat /\ s <= t
    <3>1. r + 1 \in Nat /\ r <= r + 1
      OBVIOUS
    <3> QED
      BY <1>3, <1>6, <3>1
  <2>2. /\ a \in Nat /\ e \in Nat /\ e = a + T
    <3>1. a \in Nat /\ r * T + T = (r + 1) * T
      BY <1>1, Products
    <3> QED
      BY <1>1, <3>1
  <2>3. s = a \div world /\ t = e \div world
    BY <1>2
  <2> HIDE DEF s, t, a, e
  <2>4. a = s * world + (a % world) /\ a % world \in 0 .. world - 1
    BY <1>1, <2>2, <2>3, Divided, SMTT(30)
  <2>5. (s + B) * world = s * world + B * world /\ s * world \in Nat
        /\ (s + B) * world \in Nat /\ s + B \in Nat
    BY <1>1, <2>1, Products, SMTT(30)
  <2>6. e < (s + B) * world + world
    BY <1>1, <2>2, <2>4, <2>5
  <2>7. t <= s + B
    BY <1>1, <2>2, <2>3, <2>5, <2>6, Quotients, SMTT(30)
  <2> QED
    BY <1>1, <2>1, <2>7 DEF s, t
<1>8. ASSUME NEW x \in 0 .. T - 1
      PROVE  \E r \in 0 .. world - 1 : start(r) <= x /\ x < start(r + 1)
  <2> DEFINE Past == {r \in Nat : x < start(r)}
  <2>1. world \in Past
    BY <1>1, <1>5, <1>8
  <2>2. PICK m \in Past : \A r \in Past : m <= r
    <3>1. Past \in SUBSET Nat
      OBVIOUS
    <3> HIDE DEF Past
    <3> QED
      BY <2>1, <3>1, Least, Zenon
  <2>3. m \in Nat /\ x < start(m) /\ m <= world
    BY <2>1, <2>2
  <2>4. m # 0
    BY <1>4, <1>8, <2>3
  <2>5. m - 1 \in 0 .. world - 1 /\ m - 1 \in Nat /\ (m - 1) + 1 = m /\ m - 1 \notin Past
    BY <1>1, <2>2, <2>3, <2>4
  <2>6. start(m - 1) <= x
    BY <1>1, <1>3, <1>8, <2>5
  <2> QED
    BY <2>3, <2>5, <2>6
<1>9. \A r \in 0 .. world : start(r) \in Nat /\ start(r) <= T
  BY <1>1, <1>3, <1>5, <1>6
<1> QED
  BY <1>1, <1>4, <1>5, <1>6, <1>7, <1>8, <1>9, SMTT(30) DEF start, T, B

LEMMA Within ==
    ASSUME NEW b \in Nat, b > 0, NEW x \in Nat, NEW m \in Nat, NEW u \in 0 .. b - 1
    PROVE  /\ x * b + u \in Nat
           /\ x * b + u < m * b <=> x < m
<1>1. x * b \in Nat /\ m * b \in Nat /\ (x + 1) * b = x * b + b
  BY Products
<1>2. x < m => (x + 1) * b <= m * b
  BY Products
<1>3. m <= x => m * b <= x * b
  BY Products
<1> QED
  BY <1>1, <1>2, <1>3

(* Whole batches, rank after rank.                                         *)
LEMMA StridedOf ==
    ASSUME NEW c \in RankConfigs, NEW world \in Worlds, Fits(c, world),
           NEW r \in 0 .. world - 1, NEW x \in Nat,
           NEW u \in 0 .. Ranks!Batch(c, world) - 1
    PROVE  Ranks!Strided(c, world, r, x * Ranks!Batch(c, world) + u) =
               (x * world + r) * Ranks!Batch(c, world) + u
<1> DEFINE B == Ranks!Batch(c, world)
<1>1. B \in Nat /\ B > 0 /\ c.bg = B * world /\ world \in Nat /\ r \in Nat
  BY Topology
<1>2. Ranks!Strided(c, world, r, x * B + u) =
          ((x * B + u) \div B) * c.bg + r * B + ((x * B + u) % B)
  BY DEF Ranks!Strided
<1> HIDE DEF B
<1>3. (x * B + u) \div B = x /\ (x * B + u) % B = u
  BY <1>1, QuotientOf DEF B
<1>4. x * c.bg = (x * world) * B
  <2>1. x * (B * world) = x * (world * B) /\ x * (world * B) = (x * world) * B
    BY <1>1, Products
  <2> QED
    BY <1>1, <2>1
<1>5. (x * world + r) * B = (x * world) * B + r * B
  <2>1. x * world \in Nat
    BY <1>1, Products
  <2> QED
    BY <1>1, <2>1, Products
<1>6. Ranks!Strided(c, world, r, x * B + u) = x * c.bg + r * B + u
  BY <1>2, <1>3
<1> QED
  BY <1>4, <1>5, <1>6 DEF B

LEMMA StridedOrder ==
    ASSUME NEW c \in RankConfigs, NEW world \in Worlds, Fits(c, world),
           NEW r \in 0 .. world - 1, NEW q \in Nat, NEW m \in Nat
    PROVE  /\ Ranks!Strided(c, world, r, q) \in Nat
           /\ q < m * Ranks!Batch(c, world) <=>
                  Ranks!Strided(c, world, r, q) < m * c.bg
<1> DEFINE B == Ranks!Batch(c, world)
           k == Ranks!Strided(c, world, r, q)
           x == q \div B
           u == q % B
           y == x * world + r
<1>1. B \in Nat /\ B > 0 /\ c.bg = B * world /\ world \in Nat /\ world > 0 /\ r \in Nat
  BY Topology
<1> HIDE DEF B
<1>2. x \in Nat /\ u \in 0 .. B - 1 /\ q = x * B + u
  BY <1>1, Divided
<1> HIDE DEF x, u
<1>3. k = y * B + u
  BY <1>2, StridedOf DEF B
<1> HIDE DEF k
<1>4. y \in Nat /\ (y < m * world <=> x < m)
  BY <1>1, <1>2, Within
<1> HIDE DEF y
<1>5. m * world \in Nat /\ m * c.bg = (m * world) * B
  <2>1. m * (B * world) = m * (world * B) /\ m * (world * B) = (m * world) * B
        /\ m * world \in Nat
    BY <1>1, Products
  <2> QED
    BY <1>1, <2>1
<1>6. /\ k \in Nat
      /\ k < (m * world) * B <=> y < m * world
  <2> DEFINE z == m * world
  <2>1. z \in Nat
    BY <1>5
  <2> HIDE DEF z
  <2>2. y * B + u \in Nat /\ (y * B + u < z * B <=> y < z)
    BY <1>1, <1>2, <1>4, <2>1, Within
  <2> QED
    BY <1>3, <2>2 DEF z
<1>7. q < m * B <=> x < m
  BY <1>1, <1>2, Within
<1> QED
  BY <1>4, <1>5, <1>6, <1>7 DEF B, k

LEMMA StridedApart ==
    ASSUME NEW c \in RankConfigs, NEW world \in Worlds, Fits(c, world),
           NEW r \in 0 .. world - 1, NEW q \in Nat,
           NEW r2 \in 0 .. world - 1, NEW q2 \in Nat,
           Ranks!Strided(c, world, r, q) = Ranks!Strided(c, world, r2, q2)
    PROVE  r = r2 /\ q = q2
<1> DEFINE B == Ranks!Batch(c, world)
           x == q \div B
           u == q % B
           x2 == q2 \div B
           u2 == q2 % B
           y == x * world + r
           y2 == x2 * world + r2
<1>1. B \in Nat /\ B > 0 /\ world \in Nat /\ world > 0
  BY Topology
<1> HIDE DEF B
<1>2. /\ x \in Nat /\ u \in 0 .. B - 1 /\ q = x * B + u
      /\ x2 \in Nat /\ u2 \in 0 .. B - 1 /\ q2 = x2 * B + u2
  BY <1>1, Divided
<1> HIDE DEF x, u, x2, u2
<1>3. Ranks!Strided(c, world, r, q) = y * B + u
  BY <1>2, StridedOf DEF B
<1>4. Ranks!Strided(c, world, r2, q2) = y2 * B + u2
  BY <1>2, StridedOf DEF B
<1>5. y \in Nat /\ y2 \in Nat
  BY <1>1, <1>2, Within
<1> HIDE DEF y, y2
<1>6. y = y2 /\ u = u2
  BY <1>1, <1>2, <1>3, <1>4, <1>5, OneQuotient
<1>7. x = x2 /\ r = r2
  BY <1>1, <1>2, <1>6, OneQuotient DEF y, y2
<1> QED
  BY <1>2, <1>6, <1>7

LEMMA StridedCovers ==
    ASSUME NEW c \in RankConfigs, NEW world \in Worlds, Fits(c, world),
           NEW m \in Nat, NEW k \in Nat, k < m * c.bg
    PROVE  \E r \in 0 .. world - 1, q \in Nat :
               q < m * Ranks!Batch(c, world) /\ Ranks!Strided(c, world, r, q) = k
<1> DEFINE B == Ranks!Batch(c, world)
           y == k \div B
           u == k % B
           x == y \div world
           r == y % world
           q == x * B + u
<1>1. B \in Nat /\ B > 0 /\ world \in Nat /\ world > 0
  BY Topology
<1> HIDE DEF B
<1>2. y \in Nat /\ u \in 0 .. B - 1 /\ k = y * B + u
  BY <1>1, Divided
<1> HIDE DEF y, u
<1>3. x \in Nat /\ r \in 0 .. world - 1 /\ y = x * world + r
  BY <1>1, <1>2, Divided
<1> HIDE DEF x, r
<1>4. q \in Nat
  BY <1>1, <1>2, <1>3, Within
<1>5. Ranks!Strided(c, world, r, q) = k
  BY <1>2, <1>3, StridedOf DEF B
<1> HIDE DEF q
<1>6. q < m * B
  BY <1>3, <1>4, <1>5, StridedOrder DEF B
<1> QED
  BY <1>3, <1>4, <1>5, <1>6 DEF B

-----------------------------------------------------------------------------
(* What the ranks have of the stream.                                      *)

Shared(c) == Ranks!Tail(c) # 0 /\ (~c.enabled \/ c.exact)

(* Past its whole batches a rank has its share, a padded batch or nothing. *)
Extra(c, world, r) ==
    IF c.drop \/ Ranks!Tail(c) = 0 THEN 0
    ELSE IF ~c.enabled \/ c.exact THEN Ranks!Share(c, world, r)
    ELSE Ranks!Batch(c, world)

LEMMA AloneShares ==
    ASSUME NEW c \in RankConfigs, NEW world \in Worlds, Fits(c, world), ~c.enabled
    PROVE  /\ world = 1 /\ Ranks!Batch(c, world) = c.bg
           /\ Ranks!ShareStart(c, world, 0) = 0
           /\ Ranks!Share(c, world, 0) = Ranks!Tail(c)
<1>1. world = 1 /\ Ranks!Batch(c, world) = c.bg
  <2>1. world = 1 /\ Ranks!Batch(c, world) \in Nat /\ c.bg = Ranks!Batch(c, world) * world
    BY Topology
  <2> QED
    BY <2>1
<1>2. /\ Ranks!ShareStart(c, world, 0) = 0
      /\ Ranks!ShareStart(c, world, world) = Ranks!Tail(c)
      /\ Ranks!Tail(c) \in Nat
  BY Shares, Topology, Zenon
<1>3. Ranks!ShareStart(c, world, 0 + 1) = Ranks!Tail(c)
  BY <1>1, <1>2
<1> QED
  BY <1>1, <1>2, <1>3 DEF Ranks!Share

LEMMA Lengths ==
    ASSUME NEW c \in RankConfigs, NEW world \in Worlds, Fits(c, world),
           NEW r \in 0 .. world - 1
    PROVE  /\ Extra(c, world, r) \in 0 .. Ranks!Batch(c, world)
           /\ Ranks!Length(c, world, r) =
                  Ranks!FullBatches(c) * Ranks!Batch(c, world) + Extra(c, world, r)
<1> DEFINE B == Ranks!Batch(c, world)
           F == Ranks!FullBatches(c)
           T == Ranks!Tail(c)
           share == Ranks!Share(c, world, r)
<1>1. /\ B \in Nat /\ B > 0 /\ F \in Nat /\ T \in Nat /\ F * B \in Nat
      /\ c.n = F * c.bg + T /\ world \in Nat /\ world > 0
  BY Topology
<1>2. share \in 0 .. B
  BY Shares DEF Ranks!Share
<1>3. Extra(c, world, r) \in 0 .. B
  BY <1>1, <1>2 DEF Extra
<1>4. CASE ~c.enabled
  <2>1. world = 1 /\ B = c.bg /\ Ranks!Share(c, world, 0) = T
    BY <1>4, AloneShares
  <2>2. r = 0 /\ share = T
    BY <2>1
  <2>3. c.n = F * B + T
    BY <1>1, <2>1
  <2>4. Ranks!Length(c, world, r) = IF c.drop THEN F * B ELSE c.n
    BY <1>4 DEF Ranks!Length
  <2>5. Extra(c, world, r) = IF c.drop THEN 0 ELSE T
    BY <1>4, <2>2 DEF Extra
  <2> HIDE DEF B, F, T
  <2>6. Ranks!Length(c, world, r) = F * B + Extra(c, world, r)
    BY <1>1, <2>3, <2>4, <2>5
  <2> QED
    BY <1>3, <2>6 DEF B, F
<1>5. CASE c.enabled
  <2>1. Ranks!Length(c, world, r) =
            IF c.drop \/ T = 0 THEN F * B
            ELSE IF c.exact THEN F * B + share ELSE F * B + B
    BY <1>5 DEF Ranks!Length
  <2>2. Extra(c, world, r) =
            IF c.drop \/ T = 0 THEN 0 ELSE IF c.exact THEN share ELSE B
    BY <1>5 DEF Extra
  <2> HIDE DEF B, F, T, share
  <2>3. Ranks!Length(c, world, r) = F * B + Extra(c, world, r)
    BY <1>1, <2>1, <2>2
  <2> QED
    BY <1>3, <2>3 DEF B, F
<1> QED
  BY <1>4, <1>5

LEMMA CoordinateOf ==
    ASSUME NEW c \in RankConfigs, NEW world \in Worlds, Fits(c, world),
           NEW r \in 0 .. world - 1, NEW q \in Nat
    PROVE  LET full == Ranks!FullBatches(c) * Ranks!Batch(c, world)
           IN  Ranks!Coordinate(c, world, r, q) =
                   IF q >= full /\ Shared(c)
                   THEN Ranks!FullBatches(c) * c.bg + Ranks!ShareStart(c, world, r)
                        + (q - full)
                   ELSE Ranks!Strided(c, world, r, q)
<1> DEFINE B == Ranks!Batch(c, world)
           F == Ranks!FullBatches(c)
           T == Ranks!Tail(c)
           start == Ranks!ShareStart(c, world, r)
           k == Ranks!Coordinate(c, world, r, q)
           strided == Ranks!Strided(c, world, r, q)
<1>1. /\ B \in Nat /\ B > 0 /\ F \in Nat /\ T \in Nat /\ F * B \in Nat
      /\ F * c.bg \in Nat /\ start \in Nat
  BY Topology, Shares
<1>2. CASE c.enabled
  <2>1. k = IF q >= F * B /\ c.exact /\ T # 0 THEN F * c.bg + start + q - F * B
            ELSE strided
    BY <1>2 DEF Ranks!Coordinate
  <2>2. Shared(c) <=> c.exact /\ T # 0
    BY <1>2 DEF Shared
  <2> HIDE DEF B, F, T, start, k, strided
  <2>3. F * c.bg + start + q - F * B = F * c.bg + start + (q - F * B)
    BY <1>1
  <2>4. k = IF q >= F * B /\ Shared(c) THEN F * c.bg + start + (q - F * B)
            ELSE strided
    BY <2>1, <2>2, <2>3
  <2> QED
    BY <2>4 DEF B, F, start, k, strided
<1>3. CASE ~c.enabled
  <2>1. world = 1 /\ B = c.bg /\ Ranks!ShareStart(c, world, 0) = 0 /\ r = 0
    BY <1>3, AloneShares
  <2>2. k = q
    BY <1>3 DEF Ranks!Coordinate
  <2>3. strided = q
    <3>1. strided = (q \div B) * B + 0 * B + (q % B)
      BY <2>1 DEF Ranks!Strided
    <3>2. q = (q \div B) * B + (q % B) /\ q \div B \in Nat /\ q % B \in 0 .. B - 1
      BY <1>1, Divided
    <3>3. (q \div B) * B \in Nat /\ 0 * B = 0
      BY <1>1, <3>2, Products, SMTT(30)
    <3> QED
      BY <3>1, <3>2, <3>3
  <2>4. F * c.bg + start + (q - F * B) = q
    <3>1. F * c.bg = F * B /\ start = 0
      BY <2>1
    <3> HIDE DEF F, B, start
    <3> QED
      BY <1>1, <3>1
  <2> HIDE DEF B, F, start, k, strided
  <2>5. k = IF q >= F * B /\ Shared(c) THEN F * c.bg + start + (q - F * B)
            ELSE strided
    BY <2>2, <2>3, <2>4
  <2> QED
    BY <2>5 DEF B, F, start, k, strided
<1> QED
  BY <1>2, <1>3

LEMMA Streams ==
    ASSUME NEW c \in RankConfigs, NEW world \in Worlds, Fits(c, world)
    PROVE  Ranks!StreamLength(c) =
               Ranks!FullBatches(c) * c.bg
               + IF c.drop \/ Ranks!Tail(c) = 0 THEN 0
                 ELSE IF Shared(c) THEN Ranks!Tail(c) ELSE c.bg
<1> DEFINE whole == Ranks!FullBatches(c) * c.bg
           T == Ranks!Tail(c)
<1>1. T \in Nat /\ whole \in Nat /\ c.n = whole + T
  BY Topology
<1>2. Ranks!StreamLength(c) =
          IF c.drop THEN whole
          ELSE IF ~c.enabled \/ c.exact \/ T = 0 THEN c.n ELSE whole + c.bg
  BY DEF Ranks!StreamLength
<1>3. Shared(c) <=> T # 0 /\ (~c.enabled \/ c.exact)
  BY DEF Shared
<1> HIDE DEF whole, T
<1> DEFINE rest == IF c.drop \/ T = 0 THEN 0 ELSE IF Shared(c) THEN T ELSE c.bg
<1>4. Ranks!StreamLength(c) = whole + rest
  BY <1>1, <1>2, <1>3
<1> QED
  BY <1>4 DEF whole, T

(* A position in the shared tail.                                          *)
LEMMA TailPlaced ==
    ASSUME NEW c \in RankConfigs, NEW world \in Worlds, Fits(c, world),
           NEW r \in 0 .. world - 1, NEW q \in Nat, Shared(c),
           q < Ranks!Length(c, world, r),
           q >= Ranks!FullBatches(c) * Ranks!Batch(c, world)
    PROVE  \E x \in 0 .. Ranks!Tail(c) - 1 :
               /\ Ranks!Coordinate(c, world, r, q) = Ranks!FullBatches(c) * c.bg + x
               /\ Ranks!ShareStart(c, world, r) <= x
               /\ x < Ranks!ShareStart(c, world, r + 1)
               /\ q = Ranks!FullBatches(c) * Ranks!Batch(c, world)
                      + (x - Ranks!ShareStart(c, world, r))
               /\ ~c.drop
<1> DEFINE full == Ranks!FullBatches(c) * Ranks!Batch(c, world)
           whole == Ranks!FullBatches(c) * c.bg
           T == Ranks!Tail(c)
           start == Ranks!ShareStart(c, world, r)
           next == Ranks!ShareStart(c, world, r + 1)
           k == Ranks!Coordinate(c, world, r, q)
           extra == Extra(c, world, r)
           x == start + (q - full)
<1>1. full \in Nat /\ whole \in Nat /\ T \in Nat
  BY Topology
<1>2. start \in Nat /\ next \in Nat /\ next <= T
  <2>1. r \in 0 .. world /\ r + 1 \in 0 .. world
    BY Topology
  <2> QED
    BY <2>1, Shares
<1>3. q < full + extra /\ extra \in Nat /\ q >= full
  BY Lengths, Topology
<1>4. extra = next - start /\ ~c.drop
  <2>1. extra > 0
    BY <1>1, <1>3
  <2> QED
    BY <2>1 DEF Extra, Shared, Ranks!Share
<1>5. k = whole + start + (q - full)
  BY <1>3, CoordinateOf
<1> HIDE DEF full, whole, T, start, next, k, extra
<1>6. /\ x \in 0 .. T - 1 /\ k = whole + x /\ start <= x /\ x < next
      /\ q = full + (x - start)
  BY <1>1, <1>2, <1>3, <1>4, <1>5
<1> QED
  BY <1>4, <1>6 DEF full, whole, T, start, next, k

LEMMA PlacedApart ==
    ASSUME NEW c \in RankConfigs, NEW world \in Worlds, Fits(c, world),
           NEW r \in 0 .. world - 1, NEW q \in Nat, q < Ranks!Length(c, world, r),
           NEW r2 \in 0 .. world - 1, NEW q2 \in Nat, q2 < Ranks!Length(c, world, r2),
           Ranks!Coordinate(c, world, r, q) = Ranks!Coordinate(c, world, r2, q2)
    PROVE  r = r2 /\ q = q2
<1> DEFINE F == Ranks!FullBatches(c)
           full == F * Ranks!Batch(c, world)
           whole == F * c.bg
           start(i) == Ranks!ShareStart(c, world, i)
           high(p) == p >= full /\ Shared(c)
<1>1. full \in Nat /\ whole \in Nat /\ F \in Nat /\ world \in Nat
  BY Topology
<1>2. CASE ~high(q) /\ ~high(q2)
  <2>1. Ranks!Coordinate(c, world, r, q) = Ranks!Strided(c, world, r, q)
    BY <1>2, CoordinateOf
  <2>2. Ranks!Coordinate(c, world, r2, q2) = Ranks!Strided(c, world, r2, q2)
    BY <1>2, CoordinateOf
  <2>3. Ranks!Strided(c, world, r, q) = Ranks!Strided(c, world, r2, q2)
    BY <2>1, <2>2
  <2> QED
    BY <2>3, StridedApart
<1>3. ASSUME NEW i \in 0 .. world - 1, NEW p \in Nat, ~high(p), Shared(c)
      PROVE  Ranks!Coordinate(c, world, i, p) \in Nat
             /\ Ranks!Coordinate(c, world, i, p) < whole
  <2>1. p < full
    BY <1>1, <1>3
  <2>2. Ranks!Coordinate(c, world, i, p) = Ranks!Strided(c, world, i, p)
    BY <1>3, CoordinateOf
  <2> QED
    BY <1>1, <2>1, <2>2, StridedOrder
<1>4. ASSUME NEW i \in 0 .. world - 1, NEW p \in Nat, high(p),
             p < Ranks!Length(c, world, i)
      PROVE  \E x \in Nat :
                 /\ Ranks!Coordinate(c, world, i, p) = whole + x
                 /\ start(i) <= x /\ x < start(i + 1) /\ p = full + (x - start(i))
  BY <1>4, TailPlaced
<1>5. CASE high(q) /\ ~high(q2)
  BY <1>1, <1>3, <1>4, <1>5
<1>6. CASE ~high(q) /\ high(q2)
  BY <1>1, <1>3, <1>4, <1>6
<1>7. CASE high(q) /\ high(q2)
  <2>1. PICK x \in Nat : /\ Ranks!Coordinate(c, world, r, q) = whole + x
                         /\ start(r) <= x /\ x < start(r + 1)
                         /\ q = full + (x - start(r))
    BY <1>4, <1>7
  <2>2. PICK y \in Nat : /\ Ranks!Coordinate(c, world, r2, q2) = whole + y
                         /\ start(r2) <= y /\ y < start(r2 + 1)
                         /\ q2 = full + (y - start(r2))
    BY <1>4, <1>7
  <2>3. x = y
    <3>1. whole + x = whole + y
      BY <2>1, <2>2
    <3> HIDE DEF whole
    <3> QED
      BY <1>1, <3>1
  <2>4. /\ \A i \in 0 .. world : start(i) \in Nat
        /\ \A i, j \in 0 .. world : i <= j => start(i) <= start(j)
    BY Shares
  <2>5. r \in 0 .. world /\ r + 1 \in 0 .. world /\ r2 \in 0 .. world
        /\ r2 + 1 \in 0 .. world
    BY <1>1
  <2> HIDE DEF start, full, whole
  <2>6. ~(r < r2)
    <3> SUFFICES ASSUME r < r2
                 PROVE  FALSE
      OBVIOUS
    <3>1. start(r + 1) <= start(r2)
      BY <2>4, <2>5
    <3> QED
      BY <2>1, <2>2, <2>3, <2>4, <2>5, <3>1
  <2>7. ~(r2 < r)
    <3> SUFFICES ASSUME r2 < r
                 PROVE  FALSE
      OBVIOUS
    <3>1. start(r2 + 1) <= start(r)
      BY <2>4, <2>5
    <3> QED
      BY <2>1, <2>2, <2>3, <2>4, <2>5, <3>1
  <2>8. r = r2
    BY <2>5, <2>6, <2>7
  <2> QED
    BY <2>1, <2>2, <2>3, <2>8
<1> QED
  BY <1>2, <1>5, <1>6, <1>7

(* The first batches of every rank are the first global batches.           *)
LEMMA PlacedInFront ==
    ASSUME NEW c \in RankConfigs, NEW world \in Worlds, Fits(c, world), NEW m \in Nat,
           NEW r \in 0 .. world - 1, NEW q \in Nat, q < Ranks!Length(c, world, r),
           q < m * Ranks!Batch(c, world)
    PROVE  Ranks!Coordinate(c, world, r, q) \in Front(c, m)
<1> DEFINE B == Ranks!Batch(c, world)
           F == Ranks!FullBatches(c)
           T == Ranks!Tail(c)
           full == F * B
           whole == F * c.bg
           k == Ranks!Coordinate(c, world, r, q)
           stream == Ranks!StreamLength(c)
           extra == Extra(c, world, r)
<1>1. /\ full \in Nat /\ whole \in Nat /\ F \in Nat /\ T \in Nat /\ T < c.bg
      /\ c.bg \in Nat /\ B \in Nat
  BY Topology
<1>2. stream = whole + IF c.drop \/ T = 0 THEN 0 ELSE IF Shared(c) THEN T ELSE c.bg
  BY Streams
<1>3. q < full + extra /\ extra \in 0 .. B
  BY Lengths
<1>4. m >= F + 1 => m * c.bg >= whole + c.bg
  <2>1. (F + 1) * c.bg = whole + c.bg
    BY <1>1, Products
  <2>2. m >= F + 1 => (F + 1) * c.bg <= m * c.bg
    BY <1>1, Products
  <2> QED
    BY <2>1, <2>2
<1>5. q >= full => m >= F + 1
  <2> SUFFICES ASSUME q >= full, m <= F
               PROVE  FALSE
    BY <1>1
  <2>1. m * B <= full /\ m * B \in Nat
    BY <1>1, Products
  <2> HIDE DEF full
  <2> QED
    BY <1>1, <2>1
<1>6. CASE q >= full /\ Shared(c)
  <2>1. PICK x \in 0 .. T - 1 : k = whole + x /\ ~c.drop
    BY <1>6, TailPlaced
  <2>2. T # 0 /\ stream = whole + T
    BY <1>2, <1>6, <2>1 DEF Shared
  <2>3. m * c.bg \in Nat /\ m * c.bg >= whole + c.bg
    BY <1>1, <1>4, <1>5, <1>6, Products
  <2> HIDE DEF k, whole, T, stream
  <2>4. k \in 0 .. stream - 1 /\ k < m * c.bg
    BY <1>1, <2>1, <2>2, <2>3
  <2> QED
    BY <2>4 DEF Front, k, stream
<1>7. CASE ~(q >= full /\ Shared(c))
  <2>1. k = Ranks!Strided(c, world, r, q)
    BY <1>7, CoordinateOf
  <2>2. k \in Nat /\ k < m * c.bg
    BY <2>1, StridedOrder
  <2>3. q < full => k < whole
    BY <1>1, <2>1, StridedOrder
  <2>4. q < full + B => k < whole + c.bg
    <3>1. full + B = (F + 1) * B /\ whole + c.bg = (F + 1) * c.bg /\ F + 1 \in Nat
      BY <1>1, Products
    <3>2. q < (F + 1) * B <=> Ranks!Strided(c, world, r, q) < (F + 1) * c.bg
      BY <3>1, StridedOrder
    <3> HIDE DEF k, full, whole
    <3> QED
      BY <2>1, <3>1, <3>2
  <2>5. q < full \/ (~c.drop /\ T # 0 /\ ~Shared(c))
    <3>1. extra > 0 \/ q < full
      BY <1>1, <1>3
    <3>2. extra > 0 => ~c.drop /\ T # 0
      BY DEF Extra
    <3> QED
      BY <1>1, <1>7, <3>1, <3>2
  <2>6. k < stream
    <3> HIDE DEF k, full, whole, T, stream, extra
    <3>1. q < full => k < stream
      BY <1>1, <1>2, <2>2, <2>3
    <3>2. ~c.drop /\ T # 0 /\ ~Shared(c) => k < stream
      BY <1>1, <1>2, <1>3, <2>2, <2>4
    <3> QED
      BY <2>5, <3>1, <3>2
  <2>7. stream \in Int
    <3> HIDE DEF whole, T, stream
    <3> QED
      BY <1>1, <1>2
  <2> HIDE DEF k, stream
  <2>8. k \in 0 .. stream - 1
    BY <2>2, <2>6, <2>7
  <2> QED
    BY <2>2, <2>8 DEF Front, k, stream
<1> QED
  BY <1>6, <1>7

LEMMA FrontPlaced ==
    ASSUME NEW c \in RankConfigs, NEW world \in Worlds, Fits(c, world), NEW m \in Nat,
           NEW k \in Front(c, m)
    PROVE  \E r \in 0 .. world - 1, q \in Nat :
               /\ q < Ranks!Length(c, world, r)
               /\ q < m * Ranks!Batch(c, world)
               /\ Ranks!Coordinate(c, world, r, q) = k
<1> DEFINE B == Ranks!Batch(c, world)
           F == Ranks!FullBatches(c)
           T == Ranks!Tail(c)
           full == F * B
           whole == F * c.bg
           stream == Ranks!StreamLength(c)
           length(r) == Ranks!Length(c, world, r)
           extra(r) == Extra(c, world, r)
<1>1. /\ full \in Nat /\ whole \in Nat /\ F \in Nat /\ T \in Nat /\ T < c.bg
      /\ c.bg \in Nat /\ c.bg > 0 /\ B \in Nat /\ world \in Nat
  BY Topology
<1>2. stream = whole + IF c.drop \/ T = 0 THEN 0 ELSE IF Shared(c) THEN T ELSE c.bg
  BY Streams
<1>3. \A r \in 0 .. world - 1 : length(r) = full + extra(r) /\ extra(r) \in 0 .. B
  BY Lengths
<1>4. k \in Nat /\ k < stream /\ k < m * c.bg /\ m * c.bg \in Nat /\ m * B \in Nat
  <2>1. stream \in Int
    <3> HIDE DEF whole, T, stream
    <3> QED
      BY <1>1, <1>2
  <2>2. k \in 0 .. stream - 1 /\ k < m * c.bg
    BY DEF Front
  <2> HIDE DEF stream
  <2>3. m * c.bg \in Nat /\ m * B \in Nat
    BY <1>1, Products
  <2> QED
    BY <2>1, <2>2, <2>3
<1>5. CASE k < whole
  <2> DEFINE j == Smaller(m, F)
  <2>1. j \in Nat /\ j <= m /\ j <= F /\ (j = m \/ j = F)
    BY <1>1 DEF Smaller
  <2>2. k < j * c.bg
    BY <1>4, <1>5, <2>1
  <2> HIDE DEF j
  <2>3. PICK r \in 0 .. world - 1, q \in Nat :
            q < j * B /\ Ranks!Strided(c, world, r, q) = k
    BY <1>4, <2>1, <2>2, StridedCovers
  <2>4. q < m * B /\ q < full
    <3>1. j * B <= m * B /\ j * B <= full /\ j * B \in Nat
      BY <1>1, <2>1, Products
    <3> HIDE DEF full
    <3> QED
      BY <1>1, <1>4, <2>3, <3>1
  <2>5. Ranks!Coordinate(c, world, r, q) = k
    <3>1. ~(q >= full)
      BY <1>1, <2>4
    <3> QED
      BY <2>3, <3>1, CoordinateOf
  <2>6. q < length(r)
    <3>1. length(r) = full + extra(r) /\ extra(r) \in Nat
      BY <1>1, <1>3
    <3> HIDE DEF full, length, extra
    <3> QED
      BY <1>1, <2>4, <3>1
  <2> QED
    BY <2>4, <2>5, <2>6
<1>6. CASE k >= whole
  <2>1. m >= F + 1
    <3> SUFFICES ASSUME m <= F
                 PROVE  FALSE
      BY <1>1
    <3>1. m * c.bg <= whole
      BY <1>1, Products
    <3> HIDE DEF whole
    <3> QED
      BY <1>1, <1>4, <1>6, <3>1
  <2>2. m * B >= full + B
    <3>1. (F + 1) * B = full + B /\ (F + 1) * B <= m * B
      BY <1>1, <2>1, Products
    <3> QED
      BY <3>1
  <2>3. ~c.drop /\ T # 0
    <3> HIDE DEF whole, T, stream
    <3> QED
      BY <1>1, <1>2, <1>4, <1>6
  <2>4. CASE Shared(c)
    <3> DEFINE x == k - whole
               start(r) == Ranks!ShareStart(c, world, r)
    <3>1. x \in 0 .. T - 1
      <4> HIDE DEF whole, T, stream
      <4> QED
        BY <1>1, <1>2, <1>4, <1>6, <2>3, <2>4
    <3>2. PICK r \in 0 .. world - 1 : start(r) <= x /\ x < start(r + 1)
      BY <3>1, Shares
    <3>3. start(r) \in Nat /\ start(r + 1) \in Nat
      <4>1. r \in 0 .. world /\ r + 1 \in 0 .. world
        BY <1>1
      <4> QED
        BY <4>1, Shares
    <3>4. extra(r) = start(r + 1) - start(r)
      BY <2>3, <2>4 DEF Extra, Shared, Ranks!Share
    <3> DEFINE q == full + (x - start(r))
    <3>5. q \in Nat /\ q >= full /\ q < length(r) /\ q < full + B
      <4>1. length(r) = full + extra(r) /\ extra(r) \in 0 .. B
        BY <1>3
      <4> HIDE DEF full, whole, T, start, extra, length
      <4> QED
        BY <1>1, <3>1, <3>2, <3>3, <3>4, <4>1
    <3>6. q < m * B
      <4> HIDE DEF q, full
      <4> QED
        BY <1>1, <1>4, <2>2, <3>5
    <3>7. q - full = x - start(r)
      <4> HIDE DEF full, whole, start
      <4> QED
        BY <1>1, <1>4, <3>3
    <3> HIDE DEF q
    <3>8. Ranks!Coordinate(c, world, r, q) = whole + start(r) + (q - full)
      BY <2>4, <3>5, CoordinateOf
    <3>9. Ranks!Coordinate(c, world, r, q) = k
      <4> HIDE DEF full, whole, start
      <4> QED
        BY <1>1, <1>4, <3>3, <3>7, <3>8
    <3> QED
      BY <3>5, <3>6, <3>9
  <2>5. CASE ~Shared(c)
    <3>1. F + 1 \in Nat /\ (F + 1) * c.bg = whole + c.bg /\ (F + 1) * B = full + B
      BY <1>1, Products
    <3>2. k < (F + 1) * c.bg
      <4> HIDE DEF whole, T, stream
      <4> QED
        BY <1>2, <1>4, <2>3, <2>5, <3>1
    <3>3. PICK r \in 0 .. world - 1, q \in Nat :
              q < (F + 1) * B /\ Ranks!Strided(c, world, r, q) = k
      BY <1>4, <3>1, <3>2, StridedCovers
    <3>4. Ranks!Coordinate(c, world, r, q) = k
      BY <2>5, <3>3, CoordinateOf
    <3>5. extra(r) = B
      BY <2>3, <2>5 DEF Extra, Shared
    <3>6. q < length(r) /\ q < m * B
      <4>1. length(r) = full + B
        BY <1>3, <3>5
      <4> HIDE DEF full, length
      <4> QED
        BY <1>1, <1>4, <2>2, <3>1, <3>3, <4>1
    <3> QED
      BY <3>4, <3>6
  <2> QED
    BY <2>4, <2>5
<1> QED
  BY <1>1, <1>4, <1>5, <1>6

-----------------------------------------------------------------------------
(* Counting what was seen.                                                 *)

LEMMA SmallerOf ==
    ASSUME NEW a \in Nat, NEW b \in Nat
    PROVE  /\ Smaller(a, b) \in Nat /\ Smaller(a, b) <= a /\ Smaller(a, b) <= b
           /\ Smaller(a, b) = a \/ Smaller(a, b) = b
           /\ Ranks!Min({a, b}) = Smaller(a, b)
           /\ Ranks!Min({b, a}) = Smaller(a, b)
<1>1. /\ Smaller(a, b) \in Nat /\ Smaller(a, b) <= a /\ Smaller(a, b) <= b
      /\ Smaller(a, b) = a \/ Smaller(a, b) = b
  BY DEF Smaller
<1>2. /\ Ranks!Min({a, b}) = Smaller(a, b)
      /\ Ranks!Min({b, a}) = Smaller(a, b)
  BY DEF Smaller, Ranks!Min
<1> QED
  BY <1>1, <1>2

(* MapPlacement.index: the position of a coordinate.                       *)
LEMMA SourceOf ==
    ASSUME NEW c, c.n \in Nat, c.n > 0, NEW k \in Nat
    PROVE  Ranks!SourcePosition(c, k) = k % c.n
<1>1. CASE k < c.n
  <2>1. k \in 0 .. c.n - 1 /\ 0 * c.n + k = k
    BY <1>1
  <2>2. (0 * c.n + k) % c.n = k
    BY <2>1, QuotientOf
  <2> QED
    BY <1>1, <2>1, <2>2 DEF Ranks!SourcePosition
<1>2. CASE k >= c.n
  <2> DEFINE j == k - c.n
             x == j \div c.n
             u == j % c.n
  <2>1. j \in Nat
    BY <1>2
  <2> HIDE DEF j
  <2>2. x \in Nat /\ u \in 0 .. c.n - 1 /\ j = x * c.n + u
    BY <2>1, Divided
  <2> HIDE DEF x, u
  <2>3. (x + 1) * c.n = x * c.n + c.n /\ x * c.n \in Nat /\ x + 1 \in Nat
    BY <2>2, Products
  <2>4. k = j + c.n
    BY <1>2 DEF j
  <2>5. k = (x + 1) * c.n + u
    BY <2>2, <2>3, <2>4
  <2>6. ((x + 1) * c.n + u) % c.n = u
    BY <2>2, <2>3, QuotientOf
  <2>7. k % c.n = u
    BY <2>5, <2>6
  <2>8. Ranks!SourcePosition(c, k) = u
    BY <1>2 DEF Ranks!SourcePosition, j, u
  <2> QED
    BY <2>7, <2>8
<1> QED
  BY <1>1, <1>2

LEMMA CoordinateNat ==
    ASSUME NEW c \in RankConfigs, NEW world \in Worlds, Fits(c, world),
           NEW r \in 0 .. world - 1, NEW q \in Nat, q < Ranks!Length(c, world, r)
    PROVE  Ranks!Coordinate(c, world, r, q) \in Front(c, Ranks!FullBatches(c) + 1)
<1> DEFINE B == Ranks!Batch(c, world)
           F == Ranks!FullBatches(c)
<1>1. F \in Nat /\ B \in Nat /\ F * B \in Nat /\ F + 1 \in Nat
  BY Topology
<1>2. (F + 1) * B = F * B + B
  BY <1>1, Products
<1>3. Ranks!Length(c, world, r) = F * B + Extra(c, world, r)
      /\ Extra(c, world, r) \in 0 .. B
  BY Lengths
<1> HIDE DEF B, F
<1>4. q < (F + 1) * B
  BY <1>1, <1>2, <1>3
<1> QED
  BY <1>1, <1>4, PlacedInFront DEF B, F

LEMMA LengthNat ==
    ASSUME NEW c \in RankConfigs, NEW world \in Worlds, Fits(c, world),
           NEW r \in 0 .. world - 1
    PROVE  Ranks!Length(c, world, r) \in Nat
<1>1. Extra(c, world, r) \in Nat
      /\ Ranks!FullBatches(c) * Ranks!Batch(c, world) \in Nat
  BY Lengths, Topology
<1> QED
  BY <1>1, Lengths

LEMMA FrontFinite ==
    ASSUME NEW c \in RankConfigs, NEW world \in Worlds, Fits(c, world), NEW m
    PROVE  /\ Front(c, m) \subseteq Nat
           /\ IsFiniteSet(Front(c, m))
<1>1. Ranks!StreamLength(c) \in Int
  <2> DEFINE whole == Ranks!FullBatches(c) * c.bg
  <2>1. whole \in Nat /\ Ranks!Tail(c) \in Nat /\ c.bg \in Nat
    BY Topology
  <2>2. Ranks!StreamLength(c) =
            whole + IF c.drop \/ Ranks!Tail(c) = 0 THEN 0
                    ELSE IF Shared(c) THEN Ranks!Tail(c) ELSE c.bg
    BY Streams
  <2> HIDE DEF whole
  <2> QED
    BY <2>1, <2>2
<1>2. IsFiniteSet(0 .. Ranks!StreamLength(c) - 1)
  BY <1>1, FS_Interval
<1>3. Front(c, m) \in SUBSET (0 .. Ranks!StreamLength(c) - 1)
  BY DEF Front
<1> QED
  BY <1>1, <1>2, <1>3, FS_Subset

(* The ranks are past the first global batches when each is past as many   *)
(* of its own, or past all it has.                                         *)
LEMMA CoordinatesFront ==
    ASSUME NEW c \in RankConfigs, NEW world \in Worlds, Fits(c, world), NEW m \in Nat,
           NEW upto, \A r \in 0 .. world - 1 :
               upto[r] = Smaller(Ranks!Length(c, world, r), m * Ranks!Batch(c, world))
    PROVE  Coordinates(c, world, upto) = Front(c, m)
<1>1. m * Ranks!Batch(c, world) \in Nat
  BY Topology, Products
<1>2. ASSUME NEW r \in 0 .. world - 1, NEW q
      PROVE  q \in 0 .. upto[r] - 1 <=>
                 /\ q \in Nat
                 /\ q < Ranks!Length(c, world, r) /\ q < m * Ranks!Batch(c, world)
  <2>1. Ranks!Length(c, world, r) \in Nat
    BY LengthNat
  <2>2. upto[r] = Smaller(Ranks!Length(c, world, r), m * Ranks!Batch(c, world))
    OBVIOUS
  <2> HIDE DEF Ranks!Length, Ranks!Batch
  <2> DEFINE l == Ranks!Length(c, world, r)
             b == m * Ranks!Batch(c, world)
  <2>3. l \in Nat /\ b \in Nat /\ upto[r] = Smaller(l, b)
    BY <1>1, <2>1, <2>2
  <2> HIDE DEF l, b
  <2>4. q \in 0 .. upto[r] - 1 <=> q \in Nat /\ q < l /\ q < b
    BY <2>3 DEF Smaller
  <2> QED
    BY <2>4 DEF l, b
<1>3. ASSUME NEW k \in Coordinates(c, world, upto)
      PROVE  k \in Front(c, m)
  <2>1. PICK r \in 0 .. world - 1 :
            \E q \in 0 .. upto[r] - 1 : k = Ranks!Coordinate(c, world, r, q)
    BY DEF Coordinates
  <2>2. PICK q \in 0 .. upto[r] - 1 : k = Ranks!Coordinate(c, world, r, q)
    BY <2>1
  <2> QED
    BY <1>2, <2>2, PlacedInFront
<1>4. ASSUME NEW k \in Front(c, m)
      PROVE  k \in Coordinates(c, world, upto)
  <2>1. PICK r \in 0 .. world - 1, q \in Nat :
               /\ q < Ranks!Length(c, world, r)
               /\ q < m * Ranks!Batch(c, world)
               /\ Ranks!Coordinate(c, world, r, q) = k
    BY FrontPlaced
  <2>2. q \in 0 .. upto[r] - 1
    BY <1>2, <2>1
  <2> QED
    BY <2>1, <2>2 DEF Coordinates
<1> QED
  BY <1>3, <1>4

(* All the stream.                                                         *)
LEMMA AllCovered ==
    ASSUME NEW c \in RankConfigs, NEW world \in Worlds, Fits(c, world),
           NEW upto, \A r \in 0 .. world - 1 : upto[r] = Ranks!Length(c, world, r)
    PROVE  Coordinates(c, world, upto) = 0 .. Ranks!StreamLength(c) - 1
<1> DEFINE B == Ranks!Batch(c, world)
           F == Ranks!FullBatches(c)
           T == Ranks!Tail(c)
           stream == Ranks!StreamLength(c)
           whole == F * c.bg
<1>1. /\ F \in Nat /\ B \in Nat /\ F * B \in Nat /\ F + 1 \in Nat
      /\ c.bg \in Nat /\ whole \in Nat /\ T \in Nat /\ T < c.bg
  BY Topology
<1>2. (F + 1) * B = F * B + B /\ (F + 1) * c.bg = whole + c.bg
  BY <1>1, Products
<1>3. ASSUME NEW r \in 0 .. world - 1
      PROVE  upto[r] = Smaller(Ranks!Length(c, world, r), (F + 1) * B)
  <2>1. Ranks!Length(c, world, r) = F * B + Extra(c, world, r)
        /\ Extra(c, world, r) \in 0 .. B
    BY Lengths
  <2>2. Ranks!Length(c, world, r) <= (F + 1) * B
    <3> HIDE DEF B, F
    <3> QED
      BY <1>1, <1>2, <2>1
  <2> QED
    BY <2>2 DEF Smaller
<1>4. Coordinates(c, world, upto) = Front(c, F + 1)
  BY <1>1, <1>3, CoordinatesFront
<1>5. stream = whole + IF c.drop \/ T = 0 THEN 0 ELSE IF Shared(c) THEN T ELSE c.bg
  BY Streams
<1>6. \A k \in 0 .. stream - 1 : k < (F + 1) * c.bg
  <2> HIDE DEF whole, T, stream
  <2>1. \A k \in 0 .. stream - 1 : k < whole + c.bg
    BY <1>1, <1>5
  <2> QED
    BY <1>2, <2>1
<1>7. Front(c, F + 1) = 0 .. stream - 1
  BY <1>6 DEF Front
<1> QED
  BY <1>4, <1>7

(* A rank goes on from where it is to stop, and new are those of its       *)
(* positions that stand for p.                                             *)
Advances(c, world, r, upto, stop, p, new) ==
    /\ c \in RankConfigs /\ world \in Worlds /\ Fits(c, world)
    /\ r \in 0 .. world - 1 /\ upto \in [0 .. world - 1 -> Nat]
    /\ stop \in Nat /\ upto[r] <= stop /\ stop <= Ranks!Length(c, world, r)
    /\ \A i \in 0 .. world - 1 : upto[i] <= Ranks!Length(c, world, i)
    /\ p \in 0 .. c.n - 1
    /\ new \subseteq upto[r] .. stop - 1
    /\ \A q \in upto[r] .. stop - 1 :
           q \in new <=>
               Ranks!SourcePosition(c, Ranks!Coordinate(c, world, r, q)) = p

LEMMA SeenGrows ==
    ASSUME NEW c, NEW world, NEW r, NEW upto, NEW stop, NEW p, NEW new,
           Advances(c, world, r, upto, stop, p, new)
    PROVE  /\ Cardinality(At(Coordinates(c, world, upto), c, p)) \in Nat
           /\ Cardinality(new) \in Nat
           /\ Cardinality(At(Coordinates(c, world, [upto EXCEPT ![r] = stop]), c, p)) =
                  Cardinality(At(Coordinates(c, world, upto), c, p)) + Cardinality(new)
<1> SUFFICES ASSUME c \in RankConfigs, world \in Worlds, Fits(c, world),
                    r \in 0 .. world - 1, upto \in [0 .. world - 1 -> Nat],
                    stop \in Nat, upto[r] <= stop, stop <= Ranks!Length(c, world, r),
                    \A i \in 0 .. world - 1 : upto[i] <= Ranks!Length(c, world, i),
                    p \in 0 .. c.n - 1, new \subseteq upto[r] .. stop - 1,
                    \A q \in upto[r] .. stop - 1 :
                        q \in new <=>
                            Ranks!SourcePosition(c, Ranks!Coordinate(c, world, r, q)) = p,
                    NEW more, more = [upto EXCEPT ![r] = stop]
             PROVE  /\ Cardinality(At(Coordinates(c, world, upto), c, p)) \in Nat
                    /\ Cardinality(new) \in Nat
                    /\ Cardinality(At(Coordinates(c, world, more), c, p)) =
                           Cardinality(At(Coordinates(c, world, upto), c, p))
                           + Cardinality(new)
  BY DEF Advances
<1> DEFINE at(q) == Ranks!Coordinate(c, world, r, q)
           before == At(Coordinates(c, world, upto), c, p)
           after == At(Coordinates(c, world, more), c, p)
           added == {at(q) : q \in new}
<1>1. c.n \in Nat /\ c.n > 0
  BY Topology
<1>2. \A i \in 0 .. world - 1 : Ranks!Length(c, world, i) \in Nat
  BY LengthNat
<1>3. \A i \in 0 .. world - 1, q \in Nat :
          q < Ranks!Length(c, world, i) =>
              Ranks!Coordinate(c, world, i, q)
                  \in Front(c, Ranks!FullBatches(c) + 1)
  BY CoordinateNat
<1>4. ASSUME NEW q \in upto[r] .. stop - 1
      PROVE  /\ q \in Nat /\ q < Ranks!Length(c, world, r) /\ at(q) \in Nat
             /\ Ranks!SourcePosition(c, at(q)) = at(q) % c.n
  <2>1. q \in Nat /\ q < Ranks!Length(c, world, r)
    BY <1>2
  <2>2. at(q) \in Nat
    BY <1>3, <2>1, FrontFinite
  <2> QED
    BY <1>1, <2>1, <2>2, SourceOf
<1>5. new = {q \in upto[r] .. stop - 1 : at(q) % c.n = p}
  BY <1>4
<1>6. IsFiniteSet(new)
  <2>0. upto[r] \in Int /\ stop - 1 \in Int
    OBVIOUS
  <2>1. IsFiniteSet(upto[r] .. stop - 1)
    BY <2>0, FS_Interval
  <2>2. new \in SUBSET (upto[r] .. stop - 1)
    OBVIOUS
  <2> QED
    BY <2>1, <2>2, FS_Subset
<1>7. IsFiniteSet(before)
  <2>1. \A k \in Coordinates(c, world, upto) : k \in Front(c, Ranks!FullBatches(c) + 1)
    <3> SUFFICES ASSUME NEW k \in Coordinates(c, world, upto)
                 PROVE  k \in Front(c, Ranks!FullBatches(c) + 1)
      OBVIOUS
    <3>1. PICK i \in 0 .. world - 1 :
              \E q \in 0 .. upto[i] - 1 : k = Ranks!Coordinate(c, world, i, q)
      BY DEF Coordinates
    <3>2. PICK q \in 0 .. upto[i] - 1 : k = Ranks!Coordinate(c, world, i, q)
      BY <3>1
    <3>3. q \in Nat /\ q < Ranks!Length(c, world, i)
      BY <1>2
    <3> QED
      BY <1>3, <3>2, <3>3
  <2>2. before \in SUBSET Front(c, Ranks!FullBatches(c) + 1)
    BY <2>1 DEF At
  <2> QED
    BY <2>2, FrontFinite, FS_Subset
<1>8. IsFiniteSet(added) /\ Cardinality(added) = Cardinality(new)
  <2> DEFINE f == [q \in new |-> at(q)]
  <2>1. \A x, y \in new : at(x) = at(y) => x = y
    <3> SUFFICES ASSUME NEW x \in new, NEW y \in new, at(x) = at(y)
                 PROVE  x = y
      OBVIOUS
    <3>1. x \in upto[r] .. stop - 1 /\ y \in upto[r] .. stop - 1
      BY <1>5
    <3> QED
      BY <1>4, <3>1, PlacedApart
  <2> HIDE DEF at
  <2>2. f \in Bijection(new, added)
    BY <2>1 DEF Bijection, Injection, Surjection, IsInjective
  <2>3. ExistsBijection(new, added)
    BY <2>2 DEF ExistsBijection
  <2> QED
    BY <1>6, <2>3, FS_Bijection
<1>9. before \cap added = {}
  <2> SUFFICES ASSUME NEW k \in before, k \in added
               PROVE  FALSE
    OBVIOUS
  <2>1. PICK q2 \in upto[r] .. stop - 1 : k = at(q2)
    BY <1>5
  <2>2. k \in Coordinates(c, world, upto)
    BY DEF At
  <2>3. PICK i \in 0 .. world - 1 :
            \E q \in 0 .. upto[i] - 1 : k = Ranks!Coordinate(c, world, i, q)
    BY <2>2 DEF Coordinates
  <2>4. PICK q \in 0 .. upto[i] - 1 : k = Ranks!Coordinate(c, world, i, q)
    BY <2>3
  <2>5. q \in Nat /\ q < Ranks!Length(c, world, i)
    BY <1>2
  <2>6. i = r /\ q = q2
    BY <1>4, <2>1, <2>4, <2>5, PlacedApart
  <2> QED
    BY <2>6
<1>10. after = before \cup added
  <2>1. ASSUME NEW k \in after
        PROVE  k \in before \cup added
    <3>1. k \in Coordinates(c, world, more) /\ k % c.n = p
      BY DEF At
    <3>2. PICK i \in 0 .. world - 1 :
              \E q \in 0 .. more[i] - 1 : k = Ranks!Coordinate(c, world, i, q)
      BY <3>1 DEF Coordinates
    <3>3. PICK q \in 0 .. more[i] - 1 : k = Ranks!Coordinate(c, world, i, q)
      BY <3>2
    <3>4. CASE q < upto[i]
      <4>1. q \in 0 .. upto[i] - 1
        BY <3>4
      <4>2. k \in Coordinates(c, world, upto)
        BY <3>3, <4>1 DEF Coordinates
      <4> QED
        BY <3>1, <4>2 DEF At
    <3>5. CASE q >= upto[i]
      <4>1. i = r /\ q \in upto[r] .. stop - 1
        BY <3>5
      <4>2. k = at(q)
        BY <3>3, <4>1
      <4>3. q \in new
        BY <1>5, <3>1, <4>1, <4>2
      <4> QED
        BY <4>2, <4>3
    <3>6. q < upto[i] \/ q >= upto[i]
      <4>1. upto[i] \in Nat /\ q \in Int
        OBVIOUS
      <4> QED
        BY <4>1
    <3> HIDE DEF before, added
    <3> QED
      BY <3>4, <3>5, <3>6
  <2>2. ASSUME NEW k \in before
        PROVE  k \in after
    <3>1. k \in Coordinates(c, world, upto) /\ k % c.n = p
      BY DEF At
    <3>2. PICK i \in 0 .. world - 1 :
              \E q \in 0 .. upto[i] - 1 : k = Ranks!Coordinate(c, world, i, q)
      BY <3>1 DEF Coordinates
    <3>3. PICK q \in 0 .. upto[i] - 1 : k = Ranks!Coordinate(c, world, i, q)
      BY <3>2
    <3>4. q \in 0 .. more[i] - 1
      OBVIOUS
    <3>5. k \in Coordinates(c, world, more)
      BY <3>3, <3>4 DEF Coordinates
    <3> QED
      BY <3>1, <3>5 DEF At
  <2>3. ASSUME NEW k \in added
        PROVE  k \in after
    <3>1. PICK q \in new : k = at(q)
      OBVIOUS
    <3>2. q \in upto[r] .. stop - 1 /\ k % c.n = p
      BY <1>5, <3>1
    <3>3. q \in 0 .. more[r] - 1
      BY <3>2
    <3>4. k \in Coordinates(c, world, more)
      BY <3>1, <3>3 DEF Coordinates
    <3> QED
      BY <3>2, <3>4 DEF At
  <2> QED
    BY <2>1, <2>2, <2>3
<1> HIDE DEF before, after, added
<1>11. Cardinality(before \cap added) = 0
  BY <1>9, FS_EmptySet
<1>12. Cardinality(after) = Cardinality(before) + Cardinality(added) - 0
  BY <1>7, <1>8, <1>10, <1>11, FS_Union
<1>13. Cardinality(before) \in Nat /\ Cardinality(new) \in Nat
  BY <1>6, <1>7, FS_CardinalityType
<1> QED
  BY <1>8, <1>12, <1>13 DEF before, after-----------------------------------------------------------------------------
(* The steps of the ranks.                                                 *)

LEMMA RanksStart ==
    ASSUME NEW c \in RankConfigs, Ranks!PlacementInit(c)
    PROVE  RanksSound(ranks)
<1>1. PICK world \in Worlds :
          /\ Fits(c, world)
          /\ ranks = [config |-> c, world |-> world,
                      job |-> Ranks!Started(c, world), saved |-> Ranks!None,
                      seen |-> [p \in 0 .. c.n - 1 |-> 0],
                      refused |-> FALSE, resumes |-> 0]
  BY DEF Ranks!PlacementInit, Fits
<1> DEFINE s == ranks
<1>2. /\ s.config = c /\ s.world = world /\ s.saved = Ranks!None
      /\ s.seen = [p \in 0 .. c.n - 1 |-> 0]
      /\ s.job = Ranks!Started(c, world)
  BY <1>1
<1>3. /\ s.job.position = [i \in 0 .. world - 1 |-> 0]
      /\ s.job.calls = [i \in 0 .. world - 1 |-> 0]
      /\ s.job.ended = [i \in 0 .. world - 1 |-> FALSE]
      /\ s.job = [position |-> s.job.position, calls |-> s.job.calls,
                  ended |-> s.job.ended]
  BY <1>2 DEF Ranks!Started
<1>4. JobShape(s)
  <2>1. Placed(s)
    BY <1>1 DEF Placed
  <2>2. s.job \in [position : [Ranks!RankIds(s) -> Nat], calls : [Ranks!RankIds(s) -> Nat],
                   ended : [Ranks!RankIds(s) -> BOOLEAN]]
    <3>1. Ranks!RankIds(s) = 0 .. world - 1
      BY <1>2 DEF Ranks!RankIds
    <3>2. FALSE \in BOOLEAN /\ 0 \in Nat
      OBVIOUS
    <3> DEFINE zeros == [i \in 0 .. world - 1 |-> 0]
               running == [i \in 0 .. world - 1 |-> FALSE]
    <3>3. zeros \in [0 .. world - 1 -> Nat] /\ running \in [0 .. world - 1 -> BOOLEAN]
      BY <3>2
    <3>4. s.job = [position |-> zeros, calls |-> zeros, ended |-> running]
      BY <1>3
    <3> HIDE DEF zeros, running
    <3> QED
      BY <3>1, <3>3, <3>4
  <2>3. s.seen \in [0 .. s.config.n - 1 -> Nat]
    BY <1>2
  <2> QED
    BY <1>1, <1>2, <2>1, <2>2, <2>3 DEF JobShape
<1>5. InStep(s, 0)
  <2> SUFFICES ASSUME NEW i \in 0 .. world - 1
               PROVE  /\ 0 = Smaller(Ranks!Length(c, world, i),
                                     (0 + 0) * Ranks!Batch(c, world))
                      /\ (0 + 0) * Ranks!Batch(c, world)
                             < Ranks!Length(c, world, i) + Ranks!Batch(c, world)
    BY <1>2, <1>3 DEF InStep, Ranks!RankIds
  <2> DEFINE b == Ranks!Batch(c, world)
             l == Ranks!Length(c, world, i)
  <2>1. b \in Nat /\ b > 0 /\ l \in Nat
    BY <1>1, LengthNat, Topology
  <2> HIDE DEF b, l
  <2>2. 0 = Smaller(l, (0 + 0) * b) /\ (0 + 0) * b < l + b
    BY <2>1 DEF Smaller
  <2> QED
    BY <2>2 DEF b, l
<1>6. Counted(s)
  <2>1. Coordinates(c, world, s.job.position) = {}
    BY <1>3 DEF Coordinates
  <2>2. \A p : At({}, c, p) = {}
    BY DEF At
  <2>3. Cardinality({}) = 0
    BY FS_EmptySet
  <2> QED
    BY <1>2, <2>1, <2>2, <2>3 DEF Counted
<1>7. 0 \in Nat
  OBVIOUS
<1> QED
  BY <1>2, <1>4, <1>5, <1>6, <1>7 DEF RanksSound, None, Ranks!None

(* What next does to the record.                                           *)
Called(s, r, calls, ended, stop, seen) ==
    [s EXCEPT !.job.calls[r] = calls, !.job.ended[r] = ended,
              !.job.position[r] = stop, !.seen = seen]

CalledJob(s, r, calls, ended, stop) ==
    [position |-> [s.job.position EXCEPT ![r] = stop],
     calls |-> [s.job.calls EXCEPT ![r] = calls],
     ended |-> [s.job.ended EXCEPT ![r] = ended]]

LEMMA RankUpdates ==
    ASSUME NEW s, JobShape(s), NEW r \in 0 .. s.world - 1,
           NEW calls, NEW ended, NEW stop, NEW seen
    PROVE  LET t == Called(s, r, calls, ended, stop, seen)
           IN  /\ Placed(t)
               /\ t.config = s.config /\ t.world = s.world /\ t.saved = s.saved
               /\ t.refused = s.refused
               /\ t.seen = seen
               /\ t.job = CalledJob(s, r, calls, ended, stop)
<1> DEFINE t == Called(s, r, calls, ended, stop, seen)
<1> DEFINE ids == 0 .. s.world - 1
<1>0. /\ Placed(s) /\ r \in ids
      /\ s.job \in [position : [ids -> Nat], calls : [ids -> Nat],
                    ended : [ids -> BOOLEAN]]
  BY DEF JobShape, Ranks!RankIds
<1> HIDE DEF ids
<1> DEFINE t1 == [s EXCEPT !.job.calls[r] = calls]
           t2 == [t1 EXCEPT !.job.ended[r] = ended]
           t3 == [t2 EXCEPT !.job.position[r] = stop]
<1>1. t = [t3 EXCEPT !.seen = seen]
  BY DEF Called
<1> HIDE DEF t
<1>2. s.job = [position |-> s.job.position, calls |-> s.job.calls,
               ended |-> s.job.ended]
  BY <1>0
<1>3. /\ Placed(t1) /\ t1.config = s.config /\ t1.world = s.world
      /\ t1.saved = s.saved /\ t1.refused = s.refused /\ t1.seen = s.seen
      /\ t1.resumes = s.resumes
      /\ t1.job = [position |-> s.job.position,
                   calls |-> [s.job.calls EXCEPT ![r] = calls],
                   ended |-> s.job.ended]
  BY <1>0, <1>2 DEF Placed
<1> HIDE DEF t1
<1>4. /\ Placed(t2) /\ t2.config = s.config /\ t2.world = s.world
      /\ t2.saved = s.saved /\ t2.refused = s.refused /\ t2.seen = s.seen
      /\ t2.resumes = s.resumes
      /\ t2.job = [position |-> s.job.position,
                   calls |-> [s.job.calls EXCEPT ![r] = calls],
                   ended |-> [s.job.ended EXCEPT ![r] = ended]]
  BY <1>3 DEF Placed
<1> HIDE DEF t2
<1>5. /\ Placed(t3) /\ t3.config = s.config /\ t3.world = s.world
      /\ t3.saved = s.saved /\ t3.refused = s.refused /\ t3.seen = s.seen
      /\ t3.resumes = s.resumes
      /\ t3.job = [position |-> [s.job.position EXCEPT ![r] = stop],
                   calls |-> [s.job.calls EXCEPT ![r] = calls],
                   ended |-> [s.job.ended EXCEPT ![r] = ended]]
  BY <1>4 DEF Placed
<1> HIDE DEF t3
<1>6. /\ t.config = t3.config /\ t.world = t3.world /\ t.saved = t3.saved
      /\ t.refused = t3.refused /\ t.seen = seen /\ t.job = t3.job
      /\ Placed(t)
  BY <1>1, <1>5 DEF Placed
<1> QED
  BY <1>5, <1>6 DEF t, CalledJob

(* Where a rank is after one more batch.                                   *)
LEMMA NextBatch ==
    ASSUME NEW length \in Nat, NEW b \in Nat, b > 0, NEW m \in Nat,
           m * b < length + b
    PROVE  LET start == Smaller(length, m * b)
           IN  /\ start \in Nat /\ start <= length
               /\ start <= Smaller(length, (m + 1) * b)
               /\ Smaller(length, (m + 1) * b) \in Nat
               /\ Smaller(length, (m + 1) * b) <= length
               /\ Smaller(start + b, length) = Smaller(length, (m + 1) * b)
               /\ start = length => Smaller(length, (m + 1) * b) = length
               /\ start # length => (m + 1) * b < length + b
<1>1. m * b \in Nat /\ (m + 1) * b = m * b + b
  BY Products
<1> DEFINE x == m * b
           y == (m + 1) * b
<1>2. x \in Nat /\ y = x + b /\ x < length + b
  BY <1>1
<1> HIDE DEF x, y
<1> DEFINE start == Smaller(length, x)
<1>3. /\ start \in Nat /\ start <= length
      /\ start <= Smaller(length, y) /\ Smaller(length, y) \in Nat
      /\ Smaller(length, y) <= length
      /\ Smaller(start + b, length) = Smaller(length, y)
      /\ start = length => Smaller(length, y) = length
      /\ start # length => y < length + b
  BY <1>2 DEF Smaller
<1> QED
  BY <1>3 DEF x, y

(* What every rank in step is at.                                          *)
LEMMA RankAt ==
    ASSUME NEW s, JobShape(s), NEW front \in Nat, InStep(s, front),
           NEW i \in 0 .. s.world - 1,
           NEW batch, batch = Ranks!Batch(s.config, s.world),
           NEW length, length = Ranks!Length(s.config, s.world, i),
           NEW batches, batches = front + s.job.calls[i]
    PROVE  /\ batches \in Nat /\ batch \in Nat /\ batch > 0 /\ length \in Nat
           /\ batches * batch \in Nat
           /\ s.job.position[i] \in Nat /\ s.job.position[i] <= length
           /\ s.job.position[i] = Smaller(length, batches * batch)
           /\ s.job.ended[i] => s.job.position[i] = length
           /\ ~s.job.ended[i] => batches * batch < length + batch
<1>1. /\ s.config \in RankConfigs /\ s.world \in Worlds /\ Fits(s.config, s.world)
      /\ s.job.calls[i] \in Nat
  BY DEF JobShape, Ranks!RankIds
<1>2. batches \in Nat /\ batch \in Nat /\ batch > 0 /\ length \in Nat
  BY <1>1, LengthNat, Topology
<1>3. batches * batch \in Nat
  BY <1>2, Products
<1>4. /\ s.job.position[i] = Smaller(length, batches * batch)
      /\ IF s.job.ended[i] THEN s.job.position[i] = length
         ELSE batches * batch < length + batch
  BY DEF InStep, Ranks!RankIds
<1> DEFINE far == batches * batch
<1> HIDE DEF far
<1>5. s.job.position[i] = Smaller(length, far) /\ far \in Nat
  BY <1>3, <1>4 DEF far
<1>6. Smaller(length, far) \in Nat /\ Smaller(length, far) <= length
  BY <1>2, <1>5, SmallerOf
<1> QED
  BY <1>2, <1>3, <1>4, <1>5, <1>6

(* The instance counts as the module does.                                 *)
LEMMA RanksCardinality == \A S : Ranks!Cardinality(S) = Cardinality(S)
  BY Zenon DEF Ranks!Cardinality, Cardinality

(* A rank that has not ended takes up to a batch, to stop.                 *)
Stops(s, front, r, batch, length, batches, stop) ==
    /\ JobShape(s) /\ front \in Nat /\ InStep(s, front)
    /\ r \in 0 .. s.world - 1 /\ ~s.job.ended[r]
    /\ batch = Ranks!Batch(s.config, s.world)
    /\ length = Ranks!Length(s.config, s.world, r)
    /\ batches = front + s.job.calls[r]
    /\ stop = Ranks!Min({s.job.position[r] + batch, length})

(* What next delivers there, and what it leaves.                           *)
Takes(s, r, length, stop, ended, seen, t) ==
    /\ ended \in BOOLEAN /\ (ended <=> s.job.position[r] = length)
    /\ LET sources == [q \in s.job.position[r] .. stop - 1 |->
                          Ranks!SourcePosition(s.config,
                              Ranks!Coordinate(s.config, s.world, r, q))]
       IN  seen = [p \in DOMAIN s.seen |-> s.seen[p] +
                      Ranks!Cardinality({q \in DOMAIN sources : sources[q] = p})]
    /\ t = Called(s, r, s.job.calls[r] + 1, ended, stop, seen)

LEMMA RankStops ==
    ASSUME NEW s, NEW front, NEW r, NEW batch, NEW length, NEW batches, NEW stop,
           Stops(s, front, r, batch, length, batches, stop),
           NEW start, start = s.job.position[r]
    PROVE  /\ stop = Smaller(length, (batches + 1) * batch) /\ stop \in Nat
           /\ start \in Nat /\ start <= stop /\ stop <= length
           /\ start = length => stop = length
           /\ start # length => (batches + 1) * batch < length + batch
<1>1. /\ batches \in Nat /\ batch \in Nat /\ batch > 0 /\ length \in Nat
      /\ start = Smaller(length, batches * batch)
      /\ batches * batch < length + batch
  BY RankAt DEF Stops
<1>2. /\ start \in Nat /\ start <= length
      /\ start <= Smaller(length, (batches + 1) * batch)
      /\ Smaller(length, (batches + 1) * batch) \in Nat
      /\ Smaller(length, (batches + 1) * batch) <= length
      /\ Smaller(start + batch, length) = Smaller(length, (batches + 1) * batch)
      /\ start = length => Smaller(length, (batches + 1) * batch) = length
      /\ start # length => (batches + 1) * batch < length + batch
  BY ONLY <1>1, NextBatch
<1>3. stop = Smaller(start + batch, length)
  <2>1. start + batch \in Nat
    BY ONLY <1>1, <1>2
  <2>2. Ranks!Min({start + batch, length}) = Smaller(start + batch, length)
    BY ONLY <1>1, <2>1, SmallerOf
  <2> QED
    BY <2>2 DEF Stops
<1> QED
  BY ONLY <1>2, <1>3

LEMMA RankInStep ==
    ASSUME NEW s, NEW front, NEW r, NEW batch, NEW length, NEW batches, NEW stop,
           Stops(s, front, r, batch, length, batches, stop),
           NEW ended, NEW seen, NEW t, Takes(s, r, length, stop, ended, seen, t)
    PROVE  /\ InStep(t, front)
           /\ t.job \in [position : [0 .. s.world - 1 -> Nat],
                         calls : [0 .. s.world - 1 -> Nat],
                         ended : [0 .. s.world - 1 -> BOOLEAN]]
<1>a. /\ JobShape(s) /\ r \in 0 .. s.world - 1
      /\ t = Called(s, r, s.job.calls[r] + 1, ended, stop, seen)
      /\ ended \in BOOLEAN /\ (ended <=> s.job.position[r] = length)
  BY DEF Stops, Takes
<1>b. /\ t.config = s.config /\ t.world = s.world
      /\ t.job = CalledJob(s, r, s.job.calls[r] + 1, ended, stop)
  BY ONLY <1>a, RankUpdates
<1> SUFFICES ASSUME NEW calls, calls = s.job.calls[r] + 1,
                    ended \in BOOLEAN, ended <=> s.job.position[r] = length,
                    JobShape(s), front \in Nat, InStep(s, front),
                    r \in 0 .. s.world - 1, ~s.job.ended[r],
                    batch = Ranks!Batch(s.config, s.world),
                    length = Ranks!Length(s.config, s.world, r),
                    t.config = s.config, t.world = s.world,
                    t.job = CalledJob(s, r, calls, ended, stop)
             PROVE  /\ InStep(t, front)
                    /\ t.job \in [position : [0 .. s.world - 1 -> Nat],
                                  calls : [0 .. s.world - 1 -> Nat],
                                  ended : [0 .. s.world - 1 -> BOOLEAN]]
  BY <1>a, <1>b DEF Stops
<1> DEFINE ids == 0 .. s.world - 1
           upto == s.job.position
           called == s.job.calls
           over == s.job.ended
<1>1. upto \in [ids -> Nat] /\ called \in [ids -> Nat] /\ over \in [ids -> BOOLEAN]
  BY DEF JobShape, Ranks!RankIds
<1> DEFINE m == front + called[r]
<1>2. m = batches
  BY DEF Stops
<1>3. /\ stop = Smaller(length, (m + 1) * batch) /\ stop \in Nat
      /\ upto[r] = length => stop = length
      /\ upto[r] # length => (m + 1) * batch < length + batch
  <2> HIDE DEF m
  <2> QED
    BY <1>2, RankStops DEF upto
<1>4. calls \in Nat /\ front + calls = m + 1
  <2>1. called[r] \in Nat
    BY <1>1
  <2>2. front \in Nat /\ calls = called[r] + 1
    OBVIOUS
  <2> HIDE DEF called
  <2> QED
    BY ONLY <2>1, <2>2
<1>5. ASSUME NEW i \in ids, i # r
      PROVE  /\ upto[i] = Smaller(Ranks!Length(s.config, s.world, i),
                                  (front + called[i]) * batch)
             /\ over[i] => upto[i] = Ranks!Length(s.config, s.world, i)
             /\ ~over[i] => (front + called[i]) * batch
                                < Ranks!Length(s.config, s.world, i) + batch
  BY RankAt
<1>6. /\ t.job.position = [upto EXCEPT ![r] = stop]
      /\ t.job.calls = [called EXCEPT ![r] = calls]
      /\ t.job.ended = [over EXCEPT ![r] = ended]
      /\ t.job = [position |-> t.job.position, calls |-> t.job.calls,
                  ended |-> t.job.ended]
      /\ r \in ids /\ ended \in BOOLEAN /\ (ended <=> upto[r] = length)
  BY DEF CalledJob
<1> HIDE DEF ids, upto, called, over, m
<1>7. /\ t.job.position \in [ids -> Nat] /\ t.job.calls \in [ids -> Nat]
      /\ t.job.ended \in [ids -> BOOLEAN]
  BY ONLY <1>1, <1>3, <1>4, <1>6
<1>8. t.job \in [position : [ids -> Nat], calls : [ids -> Nat], ended : [ids -> BOOLEAN]]
  BY ONLY <1>6, <1>7
<1>9. \A i \in ids :
          /\ t.job.position[i] = Smaller(Ranks!Length(s.config, s.world, i),
                                         (front + t.job.calls[i]) * batch)
          /\ IF t.job.ended[i]
             THEN t.job.position[i] = Ranks!Length(s.config, s.world, i)
             ELSE (front + t.job.calls[i]) * batch
                      < Ranks!Length(s.config, s.world, i) + batch
  <2> SUFFICES ASSUME NEW i \in ids
               PROVE  /\ t.job.position[i] = Smaller(Ranks!Length(s.config, s.world, i),
                                                    (front + t.job.calls[i]) * batch)
                      /\ IF t.job.ended[i]
                         THEN t.job.position[i] = Ranks!Length(s.config, s.world, i)
                         ELSE (front + t.job.calls[i]) * batch
                                  < Ranks!Length(s.config, s.world, i) + batch
    OBVIOUS
  <2>0. i \in ids
    OBVIOUS
  <2>1. CASE i = r
    <3>1. /\ t.job.position[i] = stop /\ t.job.calls[i] = calls
          /\ (t.job.ended[i] <=> upto[r] = length)
      BY ONLY <1>1, <1>6, <2>0, <2>1
    <3>2. Ranks!Length(s.config, s.world, i) = length
      BY <2>1
    <3> QED
      BY ONLY <1>3, <1>4, <3>1, <3>2
  <2>2. CASE i # r
    <3>1. /\ t.job.position[i] = upto[i] /\ t.job.calls[i] = called[i]
          /\ t.job.ended[i] = over[i]
      BY ONLY <1>1, <1>6, <2>0, <2>2
    <3> QED
      BY ONLY <1>5, <2>0, <2>2, <3>1
  <2> QED
    BY <2>1, <2>2
<1>10. InStep(t, front)
  BY <1>9 DEF InStep, Ranks!RankIds, ids
<1> QED
  BY <1>8, <1>10 DEF ids

LEMMA RankCounted ==
    ASSUME NEW s, NEW front, NEW r, NEW batch, NEW length, NEW batches, NEW stop,
           Stops(s, front, r, batch, length, batches, stop), Counted(s),
           NEW ended, NEW seen, NEW t, Takes(s, r, length, stop, ended, seen, t)
    PROVE  Counted(t) /\ t.seen \in [0 .. s.config.n - 1 -> Nat]
<1> DEFINE sources == [q \in s.job.position[r] .. stop - 1 |->
                         Ranks!SourcePosition(s.config,
                             Ranks!Coordinate(s.config, s.world, r, q))]
<1> SUFFICES ASSUME NEW c, c = s.config, NEW world, world = s.world,
                    NEW upto, upto = s.job.position, r \in 0 .. world - 1,
                    stop \in Nat, upto[r] <= stop, stop <= Ranks!Length(c, world, r),
                    \A i \in 0 .. world - 1 : upto[i] <= Ranks!Length(c, world, i),
                    t.config = c, t.world = world,
                    t.job.position = [upto EXCEPT ![r] = stop],
                    t.seen = [p \in DOMAIN s.seen |-> s.seen[p] +
                                 Cardinality({q \in DOMAIN sources : sources[q] = p})]
             PROVE  Counted(t) /\ t.seen \in [0 .. c.n - 1 -> Nat]
  <2>1. /\ JobShape(s) /\ front \in Nat /\ InStep(s, front)
        /\ r \in 0 .. s.world - 1 /\ length = Ranks!Length(s.config, s.world, r)
    BY DEF Stops
  <2>2. \A i \in 0 .. s.world - 1 :
            s.job.position[i] <= Ranks!Length(s.config, s.world, i)
    BY <2>1, RankAt
  <2>3. stop \in Nat /\ s.job.position[r] <= stop /\ stop <= length
    BY RankStops
  <2>4. /\ seen = [p \in DOMAIN s.seen |-> s.seen[p] +
                      Ranks!Cardinality({q \in DOMAIN sources : sources[q] = p})]
        /\ t = Called(s, r, s.job.calls[r] + 1, ended, stop, seen)
    BY DEF Takes
  <2>5. /\ t.config = s.config /\ t.world = s.world /\ t.seen = seen
        /\ t.job = CalledJob(s, r, s.job.calls[r] + 1, ended, stop)
    BY ONLY <2>1, <2>4, RankUpdates
  <2>6. t.job.position = [s.job.position EXCEPT ![r] = stop]
    BY <2>5 DEF CalledJob
  <2>7. seen = [p \in DOMAIN s.seen |-> s.seen[p] +
                   Cardinality({q \in DOMAIN sources : sources[q] = p})]
    BY <2>4, RanksCardinality, Zenon
  <2> QED
    BY <2>1, <2>2, <2>3, <2>5, <2>6, <2>7
<1> DEFINE more == [upto EXCEPT ![r] = stop]
           new(p) == {q \in DOMAIN sources : sources[q] = p}
           grown(p) == s.seen[p] + Cardinality(new(p))
<1>1. /\ c \in RankConfigs /\ world \in Worlds /\ Fits(c, world)
      /\ upto \in [0 .. world - 1 -> Nat] /\ DOMAIN s.seen = 0 .. c.n - 1
  BY DEF JobShape, Ranks!RankIds, Stops
<1>2. \A p \in 0 .. c.n - 1 :
          s.seen[p] = Cardinality(At(Coordinates(c, world, upto), c, p))
  BY DEF Counted
<1>3. t.seen = [p \in 0 .. c.n - 1 |-> grown(p)]
  BY <1>1
<1>4. ASSUME NEW p \in 0 .. c.n - 1
      PROVE  /\ grown(p) \in Nat
             /\ Cardinality(At(Coordinates(c, world, more), c, p)) = grown(p)
  <2>1. /\ new(p) \subseteq upto[r] .. stop - 1
        /\ \A q \in upto[r] .. stop - 1 :
               q \in new(p) <=>
                   Ranks!SourcePosition(c, Ranks!Coordinate(c, world, r, q)) = p
    OBVIOUS
  <2> HIDE DEF new, more
  <2>2. Advances(c, world, r, upto, stop, p, new(p))
    BY <1>1, <2>1 DEF Advances
  <2>3. /\ Cardinality(At(Coordinates(c, world, upto), c, p)) \in Nat
        /\ Cardinality(new(p)) \in Nat
        /\ Cardinality(At(Coordinates(c, world, [upto EXCEPT ![r] = stop]), c, p)) =
               Cardinality(At(Coordinates(c, world, upto), c, p)) + Cardinality(new(p))
    BY ONLY <2>2, SeenGrows
  <2> QED
    BY ONLY <1>2, <2>3 DEF more
<1> HIDE DEF grown, more
<1>5. /\ t.seen \in [0 .. c.n - 1 -> Nat]
      /\ \A p \in 0 .. c.n - 1 :
             t.seen[p] = Cardinality(At(Coordinates(c, world, more), c, p))
  BY ONLY <1>3, <1>4
<1> QED
  BY <1>5 DEF Counted, more
LEMMA RankCalled ==
    ASSUME NEW r, RanksSound(ranks), Ranks!NextOn(r)
    PROVE  RanksSound(ranks')
<1> DEFINE s == ranks
           t == ranks'
           batch == Ranks!Batch(s.config, s.world)
           start == s.job.position[r]
           length == Ranks!Length(s.config, s.world, r)
           stop == Ranks!Min({start + batch, length})
           sources == [q \in start .. stop - 1 |->
                          Ranks!SourcePosition(s.config,
                              Ranks!Coordinate(s.config, s.world, r, q))]
           seen == [p \in DOMAIN s.seen |-> s.seen[p] +
                       Ranks!Cardinality({q \in DOMAIN sources : sources[q] = p})]
           ended == start = length
           calls == s.job.calls[r] + 1
<1>1. ~s.refused /\ r \in 0 .. s.world - 1 /\ ~s.job.ended[r]
  BY DEF Ranks!NextOn, Ranks!Running, Ranks!RankIds
<1>2. t = Called(s, r, calls, ended, stop, seen)
  BY Zenon DEF Ranks!NextOn, Called
<1>3. /\ JobShape(s) /\ Counted(s)
      /\ s.saved # None => SavedCounted(s)
      /\ \E front \in Nat : InStep(s, front)
  BY <1>1 DEF RanksSound
<1>4. PICK front \in Nat : InStep(s, front)
  BY <1>3
<1>5. /\ ended \in BOOLEAN /\ (ended <=> start = length)
      /\ calls = s.job.calls[r] + 1
  OBVIOUS
<1> DEFINE batches == front + s.job.calls[r]
<1>6. Stops(s, front, r, batch, length, batches, stop)
  BY <1>1, <1>3, <1>4 DEF Stops
<1>7. Takes(s, r, length, stop, ended, seen, t)
  BY <1>2, <1>5 DEF Takes
<1> HIDE DEF t, batch, start, length, stop, sources, seen, ended, calls, batches
<1>8. /\ Placed(t) /\ t.config = s.config /\ t.world = s.world /\ t.saved = s.saved
  BY ONLY <1>1, <1>2, <1>3, RankUpdates
<1>9. /\ InStep(t, front)
      /\ t.job \in [position : [0 .. s.world - 1 -> Nat],
                    calls : [0 .. s.world - 1 -> Nat],
                    ended : [0 .. s.world - 1 -> BOOLEAN]]
  BY ONLY <1>6, <1>7, RankInStep
<1>10. Counted(t) /\ t.seen \in [0 .. s.config.n - 1 -> Nat]
  BY ONLY <1>3, <1>6, <1>7, RankCounted
<1>11. JobShape(t)
  BY <1>3, <1>8, <1>9, <1>10 DEF JobShape, Ranks!RankIds
<1>12. t.saved # None => SavedCounted(t)
  BY <1>3, <1>8 DEF SavedCounted
<1>13. RanksSound(t)
  BY <1>9, <1>10, <1>11, <1>12 DEF RanksSound
<1> QED
  BY <1>13 DEF t

LEMMA RankSaved ==
    ASSUME NEW r, RanksSound(ranks), Ranks!Save(r)
    PROVE  RanksSound(ranks')
<1> DEFINE s == ranks
           t == ranks'
           c == s.config
           world == s.world
           batch == Ranks!Batch(c, world)
           position == s.job.position[r]
           cursor == (position + batch - 1) \div batch
<1>1. /\ ~s.refused /\ r \in 0 .. world - 1 /\ ~s.job.ended[r]
      /\ \A q \in 0 .. world - 1 : s.job.calls[q] = s.job.calls[r]
      /\ t = [s EXCEPT !.saved = [cursor |-> cursor, seen |-> s.seen]]
  BY DEF Ranks!Save, Ranks!Running, Ranks!RankIds
<1>2. /\ JobShape(s) /\ Counted(s)
      /\ \E front \in Nat : InStep(s, front)
  BY <1>1 DEF RanksSound
<1>3. PICK front \in Nat : InStep(s, front)
  BY <1>2
<1>4. /\ Placed(s) /\ c \in RankConfigs /\ world \in Worlds /\ Fits(c, world)
      /\ s.seen \in [0 .. c.n - 1 -> Nat]
  BY <1>2 DEF JobShape
<1>5. /\ Placed(t) /\ t.config = c /\ t.world = world /\ t.job = s.job
      /\ t.seen = s.seen /\ t.refused = s.refused
      /\ t.saved = [cursor |-> cursor, seen |-> s.seen]
  <2> HIDE DEF cursor, t
  <2> QED
    BY <1>1, <1>4 DEF Placed
<1> DEFINE m == front + s.job.calls[r]
<1>6. ASSUME NEW i \in 0 .. world - 1
      PROVE  /\ m \in Nat /\ batch \in Nat /\ batch > 0 /\ m * batch \in Nat
             /\ Ranks!Length(c, world, i) \in Nat
             /\ s.job.position[i] = Smaller(Ranks!Length(c, world, i), m * batch)
             /\ ~s.job.ended[i] => m * batch < Ranks!Length(c, world, i) + batch
  <2> DEFINE l == Ranks!Length(s.config, s.world, i)
             b == Ranks!Batch(s.config, s.world)
             k == front + s.job.calls[i]
  <2>1. /\ l = Ranks!Length(s.config, s.world, i) /\ b = Ranks!Batch(s.config, s.world)
        /\ k = front + s.job.calls[i] /\ i \in 0 .. s.world - 1
    OBVIOUS
  <2>2. JobShape(s) /\ front \in Nat /\ InStep(s, front)
    BY <1>2, <1>3
  <2>3. k = m
    BY <1>1
  <2> HIDE DEF l, b, k
  <2>4. /\ k \in Nat /\ b \in Nat /\ b > 0 /\ l \in Nat /\ k * b \in Nat
        /\ s.job.position[i] = Smaller(l, k * b)
        /\ ~s.job.ended[i] => k * b < l + b
    BY ONLY <2>1, <2>2, RankAt
  <2> HIDE DEF m
  <2> QED
    BY <2>3, <2>4 DEF l, b
<1>7. cursor = m
  <2> DEFINE l == Ranks!Length(c, world, r)
             far == m * batch
             a == position + batch - 1
  <2>1. /\ m \in Nat /\ batch \in Nat /\ batch > 0 /\ far \in Nat /\ l \in Nat
        /\ position = Smaller(l, far) /\ far < l + batch
    BY <1>1, <1>6
  <2> HIDE DEF l, batch, position, m
  <2>2. /\ a \in Nat /\ far <= a /\ a < far + batch
    <3> HIDE DEF far
    <3> QED
      BY <2>1 DEF Smaller
  <2> HIDE DEF a
  <2>3. m <= a \div batch /\ a \div batch <= m
    BY <2>1, <2>2, Quotients
  <2>4. a \div batch \in Nat
    BY <2>1, <2>2, Divided
  <2>5. a \div batch = m
    BY <2>1, <2>3, <2>4
  <2> QED
    BY <2>5 DEF a
<1> HIDE DEF cursor, position
<1>8. m \in Nat
  BY <1>1, <1>6
<1>9. Coordinates(c, world, s.job.position) = Front(c, m)
  <2> HIDE DEF m
  <2>1. \A i \in 0 .. world - 1 :
            s.job.position[i] = Smaller(Ranks!Length(c, world, i),
                                        m * Ranks!Batch(c, world))
    BY <1>6
  <2> QED
    BY <1>4, <1>8, <2>1, CoordinatesFront
<1> HIDE DEF m
<1>10. SavedCounted(t)
  <2>1. t.saved.cursor = m /\ t.saved.seen = s.seen
    BY <1>5, <1>7
  <2>2. \A p \in 0 .. c.n - 1 : s.seen[p] = Cardinality(At(Front(c, m), c, p))
    BY <1>2, <1>9 DEF Counted
  <2> HIDE DEF t
  <2> QED
    BY <1>4, <1>5, <1>8, <2>1, <2>2 DEF SavedCounted
<1> HIDE DEF t
<1>11. JobShape(t)
  BY <1>2, <1>5 DEF JobShape, Ranks!RankIds
<1>12. InStep(t, front) /\ Counted(t)
  BY <1>2, <1>3, <1>5 DEF InStep, Counted, Ranks!RankIds
<1>13. RanksSound(t)
  BY <1>10, <1>11, <1>12 DEF RanksSound
<1> QED
  BY <1>13 DEF t

LEMMA RankResumed ==
    ASSUME NEW world \in Worlds, RanksSound(ranks), Ranks!Resume(world)
    PROVE  RanksSound(ranks')
<1> DEFINE s == ranks
           t == ranks'
           c == s.config
           ids == 0 .. world - 1
           batch == Ranks!Batch(c, world)
           cursor == s.saved.cursor
           refused == \E i \in ids : cursor > Ranks!TotalBatches(c, world, i)
           job == [position |-> [i \in ids |-> Ranks!Min({Ranks!Length(c, world, i),
                                                          cursor * batch})],
                   calls |-> [i \in ids |-> 0], ended |-> [i \in ids |-> FALSE]]
<1>1. /\ s.saved # Ranks!None /\ c.bg % world = 0
      /\ ~c.enabled => world = 1
      /\ t = [s EXCEPT !.world = world, !.seen = s.saved.seen, !.saved = Ranks!None,
                       !.resumes = s.resumes + 1, !.refused = refused,
                       !.job = [Ranks!Started(c, world) EXCEPT
                           !.position = [i \in ids |->
                               Ranks!Min({Ranks!Length(c, world, i),
                                          Ranks!ResumePosition(c, s.world, world, cursor)})]]]
  BY DEF Ranks!Resume
<1>2. JobShape(s) /\ SavedCounted(s)
  BY <1>1 DEF RanksSound, None, Ranks!None
<1>3. /\ Placed(s) /\ c \in RankConfigs /\ Fits(c, world)
  BY <1>1, <1>2 DEF JobShape, Fits
<1>4. [Ranks!Started(c, world) EXCEPT
           !.position = [i \in ids |->
               Ranks!Min({Ranks!Length(c, world, i),
                          Ranks!ResumePosition(c, s.world, world, cursor)})]] = job
  <2> DEFINE far == Ranks!ResumePosition(c, s.world, world, cursor)
             upto == [i \in ids |-> Ranks!Min({Ranks!Length(c, world, i), far})]
             started == Ranks!Started(c, world)
             zeros == [i \in ids |-> 0]
             going == [i \in ids |-> FALSE]
  <2>1. far = cursor * batch
    BY DEF Ranks!ResumePosition
  <2>2. started = [position |-> zeros, calls |-> zeros, ended |-> going]
    BY DEF Ranks!Started
  <2> HIDE DEF far, upto, started, zeros, going, ids
  <2>3. [started EXCEPT !.position = upto] =
            [position |-> upto, calls |-> zeros, ended |-> going]
    BY <2>2
  <2>4. upto = [i \in ids |-> Ranks!Min({Ranks!Length(c, world, i), cursor * batch})]
    BY <2>1, Zenon DEF upto
  <2> QED
    BY <2>3, <2>4, Zenon DEF upto, far, started, zeros, going, ids
<1>5. /\ Placed(t) /\ t.config = c /\ t.world = world /\ t.job = job
      /\ t.seen = s.saved.seen /\ t.saved = Ranks!None /\ (t.refused <=> refused)
  BY <1>1, <1>3, <1>4 DEF Placed
<1>6. /\ cursor \in Nat /\ s.saved.seen \in [0 .. c.n - 1 -> Nat]
      /\ \A p \in 0 .. c.n - 1 :
             s.saved.seen[p] = Cardinality(At(Front(c, cursor), c, p))
  BY <1>2 DEF SavedCounted
<1> HIDE DEF cursor, t
<1>7. batch \in Nat /\ batch > 0 /\ cursor * batch \in Nat
  BY <1>3, <1>6, Topology, Products
<1>8. ASSUME NEW i \in ids
      PROVE  /\ t.job.position[i] = Smaller(Ranks!Length(c, world, i), cursor * batch)
             /\ t.job.position[i] \in Nat
             /\ t.job.calls[i] = 0 /\ t.job.ended[i] = FALSE
             /\ ~t.refused => cursor * batch < Ranks!Length(c, world, i) + batch
  <2> DEFINE l == Ranks!Length(c, world, i)
  <2>1. l \in Nat
    BY <1>3, LengthNat
  <2>2. /\ t.job.position[i] = Ranks!Min({l, cursor * batch})
        /\ t.job.calls[i] = 0 /\ t.job.ended[i] = FALSE
    <3>1. t.job = job
      BY <1>5
    <3> HIDE DEF batch
    <3> QED
      BY <3>1
  <2>3. ~t.refused => ~(cursor > Ranks!TotalBatches(c, world, i))
    BY <1>5
  <2>4. Ranks!TotalBatches(c, world, i) = (l + batch - 1) \div batch
    BY DEF Ranks!TotalBatches
  <2> HIDE DEF l, batch, job, refused
  <2> DEFINE a == l + batch - 1
             far == cursor * batch
  <2>5. far \in Nat
    BY <1>7
  <2>6. /\ t.job.position[i] = Smaller(l, far)
        /\ t.job.position[i] \in Nat
    <3> HIDE DEF far
    <3>1. Ranks!Min({l, far}) = Smaller(l, far) /\ Smaller(l, far) \in Nat
      BY <2>1, <2>5, SmallerOf
    <3> QED
      BY <2>2, <3>1 DEF far
  <2>7. a \in Nat
    BY <1>7, <2>1
  <2> HIDE DEF a
  <2> DEFINE q == a \div batch
             u == a % batch
  <2>8. q \in Nat /\ u \in 0 .. batch - 1 /\ a = q * batch + u
    BY <1>7, <2>7, Divided
  <2>9. ~t.refused => cursor <= q
    BY <1>6, <2>3, <2>4, <2>8 DEF a
  <2> HIDE DEF q, u
  <2>10. cursor <= q => far <= q * batch
    BY <1>6, <1>7, <2>8, Products
  <2>11. q * batch \in Nat
    BY <1>7, <2>8, Products
  <2> HIDE DEF far
  <2>12. ~t.refused => far < l + batch
    BY <1>7, <2>1, <2>5, <2>8, <2>9, <2>10, <2>11 DEF a
  <2> QED
    BY <2>2, <2>6, <2>12 DEF l, far
<1>9. t.job \in [position : [ids -> Nat], calls : [ids -> Nat], ended : [ids -> BOOLEAN]]
  <2>1. job = [position |-> t.job.position, calls |-> t.job.calls,
               ended |-> t.job.ended]
    BY <1>5
  <2>2. /\ t.job.position = job.position /\ t.job.calls = job.calls
        /\ t.job.ended = job.ended
        /\ DOMAIN job.position = ids /\ DOMAIN job.calls = ids
        /\ DOMAIN job.ended = ids
    BY <1>5
  <2>3. /\ job.position = [i \in ids |-> job.position[i]]
        /\ job.calls = [i \in ids |-> job.calls[i]]
        /\ job.ended = [i \in ids |-> job.ended[i]]
    OBVIOUS
  <2> HIDE DEF job, ids
  <2>4. 0 \in Nat /\ FALSE \in BOOLEAN
    OBVIOUS
  <2>5. /\ t.job.position \in [ids -> Nat] /\ t.job.calls \in [ids -> Nat]
        /\ t.job.ended \in [ids -> BOOLEAN]
    BY <1>8, <2>2, <2>3, <2>4
  <2> QED
    BY <1>5, <2>1, <2>5
<1> HIDE DEF job, refused
<1>10. JobShape(t)
  <2>1. /\ t.config \in RankConfigs /\ t.world \in Worlds /\ Fits(t.config, t.world)
        /\ Placed(t) /\ t.seen \in [0 .. t.config.n - 1 -> Nat]
    BY <1>3, <1>5, <1>6
  <2>2. Ranks!RankIds(t) = ids
    BY <1>5 DEF Ranks!RankIds
  <2> QED
    BY <1>9, <2>1, <2>2 DEF JobShape
<1>11. ~t.refused => InStep(t, cursor)
  <2> SUFFICES ASSUME ~t.refused, NEW i \in ids
               PROVE  /\ t.job.position[i] =
                             Smaller(Ranks!Length(c, world, i),
                                     (cursor + t.job.calls[i]) * batch)
                      /\ ~t.job.ended[i]
                      /\ (cursor + t.job.calls[i]) * batch
                             < Ranks!Length(c, world, i) + batch
    BY <1>5 DEF InStep, Ranks!RankIds
  <2>1. cursor + t.job.calls[i] = cursor
    <3>1. t.job.calls[i] = 0
      BY <1>8
    <3> HIDE DEF ids
    <3> QED
      BY <1>6, <3>1
  <2> HIDE DEF batch
  <2> QED
    BY <1>8, <2>1
<1>12. Counted(t)
  <2>1. \A i \in 0 .. world - 1 :
            t.job.position[i] = Smaller(Ranks!Length(c, world, i),
                                        cursor * Ranks!Batch(c, world))
    BY <1>8
  <2>2. Coordinates(c, world, t.job.position) = Front(c, cursor)
    BY <1>3, <1>6, <2>1, CoordinatesFront
  <2> QED
    BY <1>5, <1>6, <2>2 DEF Counted
<1>13. RanksSound(t)
  BY <1>5, <1>6, <1>10, <1>11, <1>12 DEF RanksSound, None, Ranks!None
<1> QED
  BY <1>13 DEF t

(* An accepted restart begins where the state was saved, whatever the      *)
(* number of ranks, and no step delivers a coordinate a second time.       *)
LEMMA RanksStep ==
    ASSUME RanksInv, [ControlNext]_controlVars
    PROVE  RanksInv'
<1>1. CASE ranks # None /\ Ranks!PlacementNext
  <2>1. RanksSound(ranks)
    BY <1>1 DEF RanksInv
  <2>2. RanksSound(ranks')
    BY <1>1, <2>1, RankCalled, RankSaved, RankResumed DEF Ranks!PlacementNext
  <2> QED
    BY <2>2 DEF RanksInv
<1>2. CASE UNCHANGED ranks
  BY <1>2 DEF RanksInv
<1> QED
  BY <1>1, <1>2, PartsApart

LEMMA RanksCovered ==
    ASSUME NEW s, RanksSound(s), ~s.refused,
           \A r \in Ranks!RankIds(s) : s.job.ended[r]
    PROVE  \A p \in DOMAIN s.seen :
               s.seen[p] = Ranks!Cardinality({k \in 0 .. Ranks!StreamLength(s.config) - 1 :
                                                  k % s.config.n = p})
<1>1. JobShape(s) /\ Counted(s)
  BY DEF RanksSound
<1>2. PICK front \in Nat : InStep(s, front)
  BY DEF RanksSound
<1>3. \A r \in 0 .. s.world - 1 :
          s.job.position[r] = Ranks!Length(s.config, s.world, r)
  BY <1>2 DEF InStep, Ranks!RankIds
<1>4. Coordinates(s.config, s.world, s.job.position) =
          0 .. Ranks!StreamLength(s.config) - 1
  BY <1>1, <1>3, AllCovered DEF JobShape
<1>5. \A p \in 0 .. s.config.n - 1 :
          s.seen[p] = Cardinality(At(0 .. Ranks!StreamLength(s.config) - 1, s.config, p))
  BY <1>1, <1>4 DEF Counted
<1>6. DOMAIN s.seen = 0 .. s.config.n - 1
  BY <1>1 DEF JobShape
<1> QED
  BY <1>5, <1>6, RanksCardinality DEF At

(* distributed/map.py:13: the ranks of a job hand out one stream that does *)
(* not depend on how many they are.  When every rank has come to its end,  *)
(* each position was delivered as often as the stream has it, for every    *)
(* length, global batch and number of ranks, with the tail dropped, shared *)
(* or padded, however often the job was saved, and restarted with another  *)
(* number of ranks.                                                        *)
THEOREM StreamsAreCovered == ControlSpec => []StreamCovered
<1>1. ControlInit => RanksInv
  BY OnePart, RanksStart DEF RanksInv
<1>2. RanksInv /\ [ControlNext]_controlVars => RanksInv'
  BY RanksStep
<1>3. RanksInv => StreamCovered
  BY RanksCovered DEF RanksInv, StreamCovered, Ranks!StreamCovered, Ranks!Running,
     Ranks!Ended
<1> QED
  BY <1>1, <1>2, <1>3, PTL DEF ControlSpec
===============================================================================
