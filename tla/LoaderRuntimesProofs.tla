------------------------- MODULE LoaderRuntimesProofs -------------------------
(***************************************************************************)
(* What the runtimes of a loader keep, each by an inductive invariant of   *)
(* its own: a loader delivers through one of them for its whole life.      *)
(***************************************************************************)
EXTENDS LoaderRuntimes, FiniteSetTheorems, WellFoundedInduction, TLAPS

-----------------------------------------------------------------------------
(* One batch at a time.                                                    *)

SampleConfig ==
    [kind : {"native", "sampler", "batches", "tensor"}, pooled : BOOLEAN,
     dropLast : BOOLEAN, staged : BOOLEAN]

SampleCoordinate == [cursor : Nat, checksum : Seq(Nat), got : Seq(Int)]

Absent == {[none |-> TRUE]}

SampleSession == Absent \cup [ambient : Int]

SampleSaved == Absent \cup SampleCoordinate

SampleState ==
    [config : SampleConfig, stream : Seq(Nat), read : Nat, position : Nat,
     delivered : Nat, live : BOOLEAN, complete : BOOLEAN,
     call : {"idle", "next", "evaluate"}, width : Nat, ambient : Int,
     session : SampleSession, draws : Nat,
     resume : SampleCoordinate, saved : SampleSaved,
     got : Seq(Int), spent : Int]

(* What was delivered is what the samples at hand are, but for the fetches *)
(* that raised.                                                            *)
Matches(given, from) ==
    /\ Len(given) <= Len(from)
    /\ \A i \in 1..Len(given) : given[i] \in {from[i], -1}

(* A coordinate and the pass that got there.                               *)
Verified(config, c) ==
    IF OneByOne!ByUser(config)
    THEN Matches(c.got, c.checksum) /\ Len(c.got) = Len(c.checksum)
    ELSE LET order == OneByOne!Clipped(config)
         IN  /\ Matches(c.got, order)
             /\ Len(c.got) = OneByOne!Lesser(Len(order),
                                             c.cursor * OneByOne!WidthOf(config))

(* Where the batch in hand starts: the tensor's position has moved on.     *)
Before(s) ==
    IF s.config.kind = "tensor" /\ s.call = "evaluate" THEN s.position - s.width
    ELSE s.position

(* An iterator at a whole number of batches, or at the end.                *)
Placed(s) ==
    LET size == OneByOne!WidthOf(s.config)
    IN  /\ ~OneByOne!ByUser(s.config) => s.stream = OneByOne!Clipped(s.config)
        /\ \E k \in Nat :
              /\ s.position = OneByOne!Lesser(Len(s.stream), k * size)
              /\ s.config.kind # "tensor" => k = s.delivered
        /\ s.read <= Len(s.stream) /\ s.position <= s.read
        /\ s.read <= s.position + size
        /\ Matches(s.got, s.stream) /\ Len(s.got) = Before(s)
        /\ s.call = "evaluate" =>
              /\ s.width = OneByOne!Lesser(size, Len(s.stream) - Before(s))
              /\ s.width > 0 /\ Before(s) + s.width <= s.read
        /\ s.complete =>
              Len(s.stream) <= s.position
                  + (IF OneByOne!DropsLast(s.config) THEN BatchWidth - 1 ELSE 0)

(* The consumer's random state, set aside while a sample is evaluated here. *)
Ambient(s) ==
    IF s.session = [none |-> TRUE] THEN s.ambient = s.draws
    ELSE /\ s.call = "evaluate" /\ s.config.kind # "tensor" /\ ~s.config.pooled
         /\ s.session.ambient = s.draws /\ s.ambient = -1

SampleGood(s) ==
    /\ s \in SampleState
    /\ Verified(s.config, s.resume)
    /\ s.saved # [none |-> TRUE] => Verified(s.config, s.saved)
    /\ s.call # "idle" => s.live /\ ~s.complete
    /\ s.live => Placed(s)

SampleInv == sample # [none |-> TRUE] => SampleGood(sample)

Unstaged == \A config \in SampleConfigs :
                config.staged => config.pooled \/ config.kind = "tensor"

AmbientInv ==
    sample # [none |-> TRUE] =>
        /\ sample.config \in SampleConfigs
        /\ sample.call # "evaluate" => sample.session = [none |-> TRUE]
        /\ sample \in SampleState /\ Ambient(sample)

-----------------------------------------------------------------------------
(* Sequences of samples.                                                   *)

LEMMA Cut ==
  ASSUME NEW from \in Seq(Nat), NEW a \in Nat, NEW w \in Nat, a + w <= Len(from)
  PROVE  /\ SubSeq(from, a + 1, a + w) \in Seq(Nat)
         /\ Len(SubSeq(from, a + 1, a + w)) = w
         /\ \A i \in 1..w : SubSeq(from, a + 1, a + w)[i] = from[a + i]
  OBVIOUS

LEMMA CutFront ==
  ASSUME NEW from \in Seq(Nat), NEW n \in Nat, n <= Len(from)
  PROVE  /\ SubSeq(from, 1, n) \in Seq(Nat)
         /\ Len(SubSeq(from, 1, n)) = n
         /\ \A i \in 1..n : SubSeq(from, 1, n)[i] = from[i]
  OBVIOUS

LEMMA MatchesLonger ==
  ASSUME NEW given \in Seq(Int), NEW more \in Seq(Int), NEW from \in Seq(Nat),
         Matches(given, from), Len(given) + Len(more) <= Len(from),
         \A i \in 1..Len(more) : more[i] \in {from[Len(given) + i], -1}
  PROVE  /\ given \o more \in Seq(Int)
         /\ Len(given \o more) = Len(given) + Len(more)
         /\ Matches(given \o more, from)
<1>1. given \o more \in Seq(Int) /\ Len(given \o more) = Len(given) + Len(more)
  OBVIOUS
<1>2. ASSUME NEW i \in 1..Len(given \o more)
      PROVE  (given \o more)[i] \in {from[i], -1}
  <2>1. CASE i <= Len(given)
    <3>1. i \in 1..Len(given) /\ (given \o more)[i] = given[i]
      BY <2>1
    <3> QED BY <3>1 DEF Matches
  <2>2. CASE ~(i <= Len(given))
    <3>1. PICK j \in 1..Len(more) : i = Len(given) + j
      <4>1. i - Len(given) \in 1..Len(more) /\ i = Len(given) + (i - Len(given))
        BY <1>1, <2>2
      <4> QED BY <4>1
    <3>2. (given \o more)[i] = more[j]
      BY <2>2, <3>1
    <3> QED BY <3>1, <3>2
  <2> QED BY <2>1, <2>2
<1> QED BY <1>1, <1>2 DEF Matches

LEMMA MatchesPrefix ==
  ASSUME NEW given \in Seq(Int), NEW from \in Seq(Nat), NEW n \in Nat,
         Matches(given, from), Len(given) <= n, n <= Len(from)
  PROVE  Matches(given, SubSeq(from, 1, n))
<1>1. \A i \in 1..Len(given) : i \in 1..n /\ SubSeq(from, 1, n)[i] = from[i]
  BY CutFront
<1> QED BY <1>1, CutFront DEF Matches

LEMMA MatchesWhole ==
  ASSUME NEW given \in Seq(Int), NEW from \in Seq(Nat), NEW n \in Nat,
         n <= Len(from), Matches(given, SubSeq(from, 1, n))
  PROVE  Matches(given, from)
<1>1. Len(given) <= n
  BY CutFront DEF Matches
<1>2. \A i \in 1..Len(given) : i \in 1..n /\ SubSeq(from, 1, n)[i] = from[i]
  BY <1>1, CutFront
<1> QED BY <1>1, <1>2, CutFront DEF Matches

-----------------------------------------------------------------------------
(* Widths, orders and coordinates.                                         *)

LEMMA SampleConstants ==
  /\ BatchWidth \in Nat /\ BatchWidth > 0
  /\ Native \in Seq(Nat) /\ Streams \subseteq Seq(Nat)
  /\ SampleConfigs \subseteq SampleConfig
  BY RuntimesAssumption DEF OneByOne!SampleAssumption, SampleConfig

LEMMA WidthIs ==
  ASSUME NEW config \in SampleConfig
  PROVE  /\ OneByOne!WidthOf(config) \in Nat
         /\ OneByOne!WidthOf(config) > 0
         /\ OneByOne!WidthOf(config) <= BatchWidth
         /\ ~OneByOne!ByUser(config) => OneByOne!WidthOf(config) = BatchWidth
         /\ OneByOne!DropsLast(config) => OneByOne!WidthOf(config) = BatchWidth
  BY SampleConstants
     DEF OneByOne!WidthOf, OneByOne!ByUser, OneByOne!DropsLast, SampleConfig

LEMMA ClippedIs ==
  ASSUME NEW config \in SampleConfig
  PROVE  OneByOne!Clipped(config) \in Seq(Nat)
<1>1. (Len(Native) % BatchWidth) \in 0..Len(Native)
  <2>1. /\ Len(Native) \in Nat
        /\ Len(Native) = BatchWidth * (Len(Native) \div BatchWidth)
                           + (Len(Native) % BatchWidth)
        /\ (Len(Native) % BatchWidth) \in Nat /\ (Len(Native) \div BatchWidth) \in Nat
    BY SampleConstants
  <2>2. BatchWidth * (Len(Native) \div BatchWidth) \in Nat
    BY SampleConstants, <2>1
  <2> QED BY <2>1, <2>2
<1>2. Len(Native) - (Len(Native) % BatchWidth) \in Nat
      /\ Len(Native) - (Len(Native) % BatchWidth) <= Len(Native)
  BY <1>1, SampleConstants
<1> QED
  BY <1>2, CutFront, SampleConstants DEF OneByOne!Clipped, OneByOne!Prefix

LEMMA SourcesAre ==
  ASSUME NEW config \in SampleConfig, NEW s \in OneByOne!Sources(config)
  PROVE  /\ s \in Seq(Nat)
         /\ ~OneByOne!ByUser(config) => s = OneByOne!Clipped(config)
  BY SampleConstants, ClippedIs DEF OneByOne!Sources

(* Where a pass of a verified coordinate starts.                           *)
LEMMA VerifiedStarts ==
  ASSUME NEW config \in SampleConfig, NEW c \in SampleCoordinate,
         NEW s \in OneByOne!Sources(config), Verified(config, c),
         OneByOne!Reproduces(config, s, c)
  PROVE  LET start == OneByOne!Start(config, s, c)
         IN  /\ start \in Nat /\ start <= Len(s)
             /\ start = OneByOne!Lesser(Len(s), c.cursor * OneByOne!WidthOf(config))
             /\ Matches(c.got, s) /\ Len(c.got) = start
<1> USE DEF SampleCoordinate
<1>1. /\ s \in Seq(Nat) /\ Len(s) \in Nat
      /\ c.cursor * OneByOne!WidthOf(config) \in Nat
      /\ c.got \in Seq(Int) /\ c.checksum \in Seq(Nat)
  BY SourcesAre, WidthIs
<1>2. PICK start : start = OneByOne!Start(config, s, c)
  OBVIOUS
<1>3. /\ start \in Nat /\ start <= Len(s)
      /\ start = OneByOne!Lesser(Len(s), c.cursor * OneByOne!WidthOf(config))
  BY <1>1, <1>2 DEF OneByOne!Start, OneByOne!Lesser
<1>4. Matches(c.got, s) /\ Len(c.got) = start
  <2>1. CASE ~OneByOne!ByUser(config)
    BY <2>1, <1>3, SourcesAre DEF Verified
  <2>2. CASE config.kind = "sampler"
    <3>1. SubSeq(s, 1, start) = c.checksum
      BY <2>2, <1>2 DEF OneByOne!Reproduces, OneByOne!ReproducesSamples, OneByOne!Prefix
    <3>2. Len(SubSeq(s, 1, start)) = start
      BY CutFront, <1>1, <1>3
    <3>3. Matches(c.got, c.checksum) /\ Len(c.got) = Len(c.checksum)
      BY <2>2 DEF Verified, OneByOne!ByUser
    <3>4. Matches(c.got, SubSeq(s, 1, start)) /\ Len(c.got) = start
      BY <3>1, <3>2, <3>3
    <3> QED BY <3>4, MatchesWhole, <1>1, <1>3
  <2>3. CASE config.kind = "batches"
    <3>1. c.cursor <= Len(s) /\ SubSeq(s, 1, c.cursor) = c.checksum
      BY <2>3 DEF OneByOne!Reproduces, OneByOne!ReproducesBatches, OneByOne!Prefix
    <3>2. start = c.cursor
      BY <1>1, <1>3, <3>1, <2>3 DEF OneByOne!WidthOf, OneByOne!Lesser
    <3>3. Len(SubSeq(s, 1, start)) = start
      BY CutFront, <1>1, <1>3
    <3>4. Matches(c.got, c.checksum) /\ Len(c.got) = Len(c.checksum)
      BY <2>3 DEF Verified, OneByOne!ByUser
    <3>5. Matches(c.got, SubSeq(s, 1, start)) /\ Len(c.got) = start
      BY <3>1, <3>2, <3>3, <3>4
    <3> QED BY <3>5, MatchesWhole, <1>1, <1>3
  <2> QED BY <2>1, <2>2, <2>3 DEF OneByOne!ByUser
<1> QED BY <1>2, <1>3, <1>4

-----------------------------------------------------------------------------
(* The steps of the iterators that make one batch at a time.               *)

LEMMA LookedIs ==
  ASSUME NEW s \in SampleState, Placed(s), s.call = "next"
  PROVE  \E r \in Nat :
            /\ OneByOne!Looked(s) = [s EXCEPT !.read = r]
            /\ s.read <= r /\ r <= Len(s.stream)
            /\ r <= s.position + OneByOne!WidthOf(s.config)
            /\ OneByOne!NextWidth(s) \in Nat
            /\ OneByOne!NextWidth(s)
                  = OneByOne!Lesser(OneByOne!WidthOf(s.config),
                                    Len(s.stream) - s.position)
            /\ s.position + OneByOne!NextWidth(s) <= r
<1>1. PICK size : size = OneByOne!WidthOf(s.config)
  OBVIOUS
<1>2. /\ s.config \in SampleConfig /\ s.stream \in Seq(Nat) /\ s.read \in Nat
      /\ s.position \in Nat
  BY DEF SampleState
<1>3. size \in Nat /\ size > 0 /\ Len(s.stream) \in Nat
  BY <1>1, <1>2, WidthIs
<1>4. /\ s.read <= Len(s.stream) /\ s.position <= s.read
      /\ s.read <= s.position + size
  BY <1>1 DEF Placed
<1>5. /\ OneByOne!NextWidth(s) = OneByOne!Lesser(size, Len(s.stream) - s.position)
      /\ OneByOne!NextWidth(s) \in Nat
      /\ OneByOne!NextWidth(s) <= size
      /\ s.position + OneByOne!NextWidth(s) <= Len(s.stream)
  BY <1>1, <1>2, <1>3, <1>4 DEF OneByOne!NextWidth, OneByOne!Lesser
<1>6. CASE s.position + size <= s.read
  <2>1. OneByOne!Looked(s) = s
    BY <1>1, <1>6 DEF OneByOne!Looked, OneByOne!GenerateTo
  <2>2. s = [s EXCEPT !.read = s.read]
    BY DEF SampleState
  <2> QED BY <1>1, <1>2, <1>3, <1>4, <1>5, <1>6, <2>1, <2>2
<1>7. CASE ~(s.position + size <= s.read)
  <2>1. PICK r : r = OneByOne!Lesser(s.position + size, Len(s.stream))
    OBVIOUS
  <2>2. OneByOne!Looked(s) = [s EXCEPT !.read = r]
    BY <1>1, <1>7, <2>1 DEF OneByOne!Looked, OneByOne!GenerateTo
  <2>3. /\ r \in Nat /\ s.read <= r /\ r <= Len(s.stream) /\ r <= s.position + size
        /\ s.position + OneByOne!NextWidth(s) <= r
    BY <1>2, <1>3, <1>4, <1>5, <1>7, <2>1 DEF OneByOne!Lesser
  <2> QED BY <1>1, <1>5, <2>2, <2>3
<1> QED BY <1>6, <1>7

(* One batch further.                                                      *)
LEMMA NextMultiple ==
  ASSUME NEW length \in Nat, NEW size \in Nat, size > 0, NEW k \in Nat, NEW at \in Nat,
         NEW full, full = k * size, at = OneByOne!Lesser(length, full),
         NEW more, more = (k + 1) * size
  PROVE  at + OneByOne!Lesser(size, length - at) = OneByOne!Lesser(length, more)
<1>2. k * size \in Nat
  OBVIOUS
<1>1. PICK m \in Nat : m = k * size
  BY Zenon, <1>2
<1>3. (k + 1) * size = (k * size) + size
  OBVIOUS
<1> QED BY <1>1, <1>2, <1>3 DEF OneByOne!Lesser

(* The batches that reach a position.                                      *)
LEMMA RoundedUp ==
  ASSUME NEW length \in Nat, NEW size \in Nat, size > 0, NEW k \in Nat, NEW at \in Nat,
         NEW full, full = k * size, at = OneByOne!Lesser(length, full),
         NEW cursor, cursor = (at + size - 1) \div size
  PROVE  cursor \in Nat /\ at = OneByOne!Lesser(length, cursor * size)
<1>1. cursor = (at + size - 1) \div size
  OBVIOUS
<1>2. PICK rest : rest = ((at + size - 1) % size)
  OBVIOUS
<1>3. /\ cursor \in Nat /\ rest \in Nat /\ rest < size
      /\ at + size - 1 = size * cursor + rest
  <2>1. PICK n \in Nat : n = at + size - 1
    OBVIOUS
  <2>2. (n \div size) \in Nat /\ (n % size) \in 0..(size - 1)
        /\ n = size * (n \div size) + (n % size)
    OBVIOUS
  <2> QED BY <1>1, <1>2, <2>1, <2>2
<1>4. cursor * size \in Nat /\ size * cursor = cursor * size /\ k * size \in Nat
  BY <1>3
<1>5. at <= cursor * size
  BY <1>3, <1>4
<1>6. CASE at = length
  BY <1>1, <1>3, <1>4, <1>5, <1>6 DEF OneByOne!Lesser
<1>7. CASE at # length
  <2>1. at = k * size /\ at <= length
    BY <1>4, <1>7 DEF OneByOne!Lesser
  <2>2. cursor * size < (k + 1) * size
    <3>1. (k + 1) * size = (k * size) + size
      OBVIOUS
    <3> QED BY <1>3, <1>4, <2>1, <3>1
  <2>3. cursor < k + 1
    <3>1. SUFFICES ASSUME ~(cursor < k + 1) PROVE FALSE
      OBVIOUS
    <3>2. PICK d \in Nat : cursor = (k + 1) + d
      <4>1. cursor - (k + 1) \in Nat /\ cursor = (k + 1) + (cursor - (k + 1))
        BY <1>3, <3>1
      <4> QED BY <4>1
    <3>3. cursor * size = ((k + 1) * size) + (d * size) /\ d * size \in Nat
          /\ (k + 1) * size \in Nat
      BY <3>2
    <3> QED BY <2>2, <3>3, <1>4
  <2>4. k <= cursor
    <3>1. SUFFICES ASSUME ~(k <= cursor) PROVE FALSE
      OBVIOUS
    <3>2. PICK d \in Nat : k = (cursor + 1) + d
      <4>1. k - (cursor + 1) \in Nat /\ k = (cursor + 1) + (k - (cursor + 1))
        BY <1>3, <3>1
      <4> QED BY <4>1
    <3>3. k * size = (cursor * size) + size + (d * size) /\ d * size \in Nat
      BY <3>2, <1>3
    <3> QED BY <1>4, <1>5, <2>1, <3>3
  <2>5. cursor = k
    <3>1. cursor \in Int /\ k \in Int
      BY <1>3
    <3>2. \A x, y \in Int : x < y + 1 /\ y <= x => x = y
      OBVIOUS
    <3> QED BY <2>3, <2>4, <3>1, <3>2, Zenon
  <2> QED BY <1>1, <1>3, <2>1, <2>5
<1> QED BY <1>6, <1>7

LEMMA NothingVerified ==
  ASSUME NEW config \in SampleConfig
  PROVE  Verified(config, OneByOne!NoCursor)
<1>1. Len(OneByOne!Clipped(config)) \in Nat /\ OneByOne!WidthOf(config) \in Nat
  BY ClippedIs, WidthIs
<1>2. 0 = OneByOne!Lesser(Len(OneByOne!Clipped(config)),
                          0 * OneByOne!WidthOf(config))
  BY <1>1 DEF OneByOne!Lesser
<1>3. Matches(<<>>, OneByOne!Clipped(config))
  BY <1>1 DEF Matches
<1> QED BY <1>2, <1>3 DEF Verified, OneByOne!NoCursor, Matches

(* A coordinate of an iterator that is at its position.                    *)
LEMMA CapturedIs ==
  ASSUME NEW s \in SampleState, SampleGood(s), s.call = "idle"
  PROVE  /\ OneByOne!Captured(s) \in SampleCoordinate
         /\ Verified(s.config, OneByOne!Captured(s))
<1>1. /\ s.config \in SampleConfig /\ s.stream \in Seq(Nat) /\ s.position \in Nat
      /\ s.resume \in SampleCoordinate /\ s.got \in Seq(Int) /\ s.delivered \in Nat
      /\ s.live \in BOOLEAN /\ s.read \in Nat
  BY DEF SampleState
<1>2. Verified(s.config, s.resume)
  BY DEF SampleGood
<1>3. OneByOne!NoCursor \in SampleCoordinate
  BY DEF SampleCoordinate, OneByOne!NoCursor
<1>4. Verified(s.config, OneByOne!NoCursor)
  BY <1>1, NothingVerified
<1>5. ASSUME s.live, ~s.complete
      PROVE  /\ OneByOne!Captured(s) \in SampleCoordinate
             /\ Verified(s.config, OneByOne!Captured(s))
  <2>1. PICK size : size = OneByOne!WidthOf(s.config)
    OBVIOUS
  <2>2. PICK k \in Nat :
          /\ s.position = OneByOne!Lesser(Len(s.stream), k * size)
          /\ s.config.kind # "tensor" => k = s.delivered
    BY <1>5, <2>1 DEF SampleGood, Placed
  <2>3. /\ s.position <= Len(s.stream) /\ Matches(s.got, s.stream)
        /\ Len(s.got) = s.position
        /\ ~OneByOne!ByUser(s.config) => s.stream = OneByOne!Clipped(s.config)
    BY <1>1, <1>5 DEF SampleGood, Placed, Before
  <2>4. size \in Nat /\ size > 0 /\ Len(s.stream) \in Nat
    BY <1>1, <2>1, WidthIs
  <2>5. PICK c : c = OneByOne!CursorOf(s)
    OBVIOUS
  <2>6. c \in Nat /\ s.position = OneByOne!Lesser(Len(s.stream), c * size)
    <3>1. CASE s.config.kind = "tensor"
      <4>1. size = BatchWidth
        BY <3>1, <2>1, <1>1, WidthIs DEF OneByOne!ByUser
      <4>2. c = (s.position + size - 1) \div size
        BY <3>1, <4>1, <2>5 DEF OneByOne!CursorOf
      <4>3. PICK full : full = k * size /\ s.position = OneByOne!Lesser(Len(s.stream), full)
        BY <2>2
      <4> QED BY <1>1, <2>4, <4>2, <4>3, RoundedUp
    <3>2. CASE s.config.kind # "tensor"
      BY <3>2, <2>2, <2>5, <1>1 DEF OneByOne!CursorOf
    <3> QED BY <3>1, <3>2
  <2>7. OneByOne!Captured(s)
          = [cursor |-> c,
             checksum |-> IF OneByOne!ByUser(s.config)
                          THEN SubSeq(s.stream, 1, s.position) ELSE <<>>,
             got |-> s.got]
    BY <1>5, <2>5 DEF OneByOne!Captured, OneByOne!Prefix
  <2>8. SubSeq(s.stream, 1, s.position) \in Seq(Nat)
        /\ Len(SubSeq(s.stream, 1, s.position)) = s.position
        /\ Matches(s.got, SubSeq(s.stream, 1, s.position))
    BY <1>1, <2>3, CutFront, MatchesPrefix
  <2>9. OneByOne!Captured(s) \in SampleCoordinate
    BY <1>1, <2>6, <2>7, <2>8 DEF SampleCoordinate
  <2>10. CASE OneByOne!ByUser(s.config)
    BY <2>3, <2>7, <2>8, <2>9, <2>10 DEF Verified
  <2>11. CASE ~OneByOne!ByUser(s.config)
    BY <2>1, <2>3, <2>6, <2>7, <2>9, <2>11 DEF Verified
  <2> QED BY <2>9, <2>10, <2>11
<1> QED BY <1>1, <1>2, <1>3, <1>4, <1>5 DEF OneByOne!Captured

LEMMA SampleTypes ==
  ASSUME NEW s \in SampleState
  PROVE  /\ s.config \in SampleConfig /\ s.stream \in Seq(Nat) /\ s.read \in Nat
         /\ s.position \in Nat /\ s.delivered \in Nat
         /\ s.live \in BOOLEAN /\ s.complete \in BOOLEAN
         /\ s.call \in {"idle", "next", "evaluate"} /\ s.width \in Nat
         /\ s.ambient \in Int /\ s.session \in SampleSession
         /\ s.draws \in Nat /\ s.resume \in SampleCoordinate
         /\ s.saved \in SampleSaved /\ s.got \in Seq(Int)
         /\ s.spent \in Int
         /\ Len(s.stream) \in Nat /\ Len(s.got) \in Nat
         /\ OneByOne!WidthOf(s.config) \in Nat /\ OneByOne!WidthOf(s.config) > 0
  BY WidthIs DEF SampleState

LEMMA IterateGood ==
  ASSUME SampleGood(sample), NEW from \in OneByOne!Sources(sample.config),
         OneByOne!Iterate(from)
  PROVE  SampleGood(sample')
<1>1. sample \in SampleState /\ Verified(sample.config, sample.resume)
      /\ (sample.saved # [none |-> TRUE] => Verified(sample.config, sample.saved))
  BY DEF SampleGood
<1>2. PICK s : s = IF sample.complete THEN sample ELSE OneByOne!Closed(sample)
  OBVIOUS
<1>3. /\ s \in SampleState /\ s.config = sample.config /\ s.resume = sample.resume
      /\ s.saved = sample.saved /\ s.call = "idle" /\ s.spent + 1 \in Int
  <2>1. s.config = sample.config /\ s.resume = sample.resume
        /\ s.saved = sample.saved /\ s.call = "idle"
    BY <1>1, <1>2 DEF OneByOne!Closed, SampleState, OneByOne!Iterate
  <2>2. s \in SampleState
    BY <1>1, <1>2 DEF OneByOne!Closed, SampleState
  <2>3. s.spent + 1 \in Int
    BY <2>2 DEF SampleState
  <2> QED BY <2>1, <2>2, <2>3
<1>4. /\ from \in Seq(Nat)
      /\ ~OneByOne!ByUser(s.config) => from = OneByOne!Clipped(s.config)
  BY <1>1, <1>3, SampleTypes, SourcesAre
<1>5. CASE OneByOne!Reproduces(s.config, from, s.resume)
  <2>1. sample' = [OneByOne!BuiltFor(s, from) EXCEPT !.spent = @ + 1]
    BY <1>2, <1>5 DEF OneByOne!Iterate
  <2>2. PICK start : start = OneByOne!Start(s.config, from, s.resume)
    OBVIOUS
  <2>3. /\ start \in Nat /\ start <= Len(from)
        /\ start = OneByOne!Lesser(Len(from),
                                   s.resume.cursor * OneByOne!WidthOf(s.config))
        /\ Matches(s.resume.got, from) /\ Len(s.resume.got) = start
    BY <1>1, <1>3, <1>5, <2>2, SampleTypes, VerifiedStarts
  <2>4. PICK size : size = OneByOne!WidthOf(s.config)
    OBVIOUS
  <2>5. size \in Nat /\ size > 0 /\ Len(from) \in Nat
        /\ s.resume.cursor \in Nat /\ s.resume.got \in Seq(Int)
    BY <1>3, <1>4, <2>4, SampleTypes DEF SampleCoordinate
  <2>6. OneByOne!Built(s, from)
          = [s EXCEPT !.stream = from, !.read = start, !.position = start,
                      !.delivered = s.resume.cursor, !.live = TRUE,
                      !.complete = FALSE, !.got = s.resume.got,
                      !.resume = OneByOne!NoCursor]
    BY <2>2 DEF OneByOne!Built
  <2>7. PICK built : built = OneByOne!Built(s, from)
    OBVIOUS
  <2>8. /\ OneByOne!NoCursor \in SampleCoordinate
        /\ built \in SampleState /\ built.stream = from /\ built.read = start
        /\ built.position = start /\ built.delivered = s.resume.cursor
        /\ built.live /\ ~built.complete /\ built.got = s.resume.got
        /\ built.resume = OneByOne!NoCursor /\ built.config = s.config
        /\ built.call = "idle" /\ built.saved = s.saved
    <3>1. OneByOne!NoCursor \in SampleCoordinate
      BY DEF SampleCoordinate, OneByOne!NoCursor
    <3>2. built \in SampleState
      <4>1. s \in SampleState /\ from \in Seq(Nat) /\ start \in Nat
        BY <1>3, <1>4, <2>3
      <4>2. s.resume.cursor \in Nat /\ s.resume.got \in Seq(Int)
        BY <2>5
      <4>3. built = [s EXCEPT !.stream = from, !.read = start, !.position = start,
                              !.delivered = s.resume.cursor, !.live = TRUE,
                              !.complete = FALSE, !.got = s.resume.got,
                              !.resume = OneByOne!NoCursor]
        BY <2>6, <2>7
      <4> QED BY ONLY <3>1, <4>1, <4>2, <4>3 DEF SampleState
    <3> QED BY <1>3, <2>6, <2>7, <3>1, <3>2 DEF SampleState
  <2>9. \E r \in Nat : /\ sample' = [built EXCEPT !.read = r, !.spent = @ + 1]
                       /\ start <= r /\ r <= Len(from) /\ r <= start + size
    <3>1. CASE ~s.config.pooled
      <4>1. sample' = [built EXCEPT !.spent = @ + 1]
        BY <2>1, <2>7, <3>1 DEF OneByOne!BuiltFor
      <4>2. sample' = [built EXCEPT !.read = start, !.spent = @ + 1]
        BY <4>1, <2>8 DEF SampleState
      <4>3. start \in Nat /\ start <= start /\ start <= Len(from) /\ start <= start + size
        BY <2>3, <2>5
      <4> QED BY <4>2, <4>3, Zenon
    <3>2. CASE s.config.pooled
      <4>1. sample' = [OneByOne!GenerateTo(built, start + 1) EXCEPT !.spent = @ + 1]
        BY <2>1, <2>7, <2>8, <3>2 DEF OneByOne!BuiltFor, OneByOne!Probed
      <4>2. OneByOne!GenerateTo(built, start + 1)
              = [built EXCEPT !.read = OneByOne!Lesser(start + 1, Len(from))]
        BY <2>3, <2>8 DEF OneByOne!GenerateTo
      <4>3. PICK r : r = OneByOne!Lesser(start + 1, Len(from))
        OBVIOUS
      <4>4. sample' = [built EXCEPT !.read = r, !.spent = @ + 1]
        BY <4>1, <4>2, <4>3, <2>8 DEF SampleState
      <4>5. r \in Nat /\ start <= r /\ r <= Len(from) /\ r <= start + size
        BY <2>3, <2>5, <4>3 DEF OneByOne!Lesser
      <4> QED BY <4>4, <4>5, Zenon
    <3> QED BY <3>1, <3>2
  <2>10. PICK r \in Nat : /\ sample' = [built EXCEPT !.read = r, !.spent = @ + 1]
                          /\ start <= r /\ r <= Len(from) /\ r <= start + size
    BY <2>9
  <2>11. /\ sample' \in SampleState /\ sample'.stream = from /\ sample'.read = r
         /\ sample'.position = start /\ sample'.delivered = s.resume.cursor
         /\ sample'.live /\ ~sample'.complete /\ sample'.got = s.resume.got
         /\ sample'.resume = OneByOne!NoCursor /\ sample'.config = s.config
         /\ sample'.call = "idle" /\ sample'.saved = s.saved
    <3>1. built.spent + 1 \in Int
      BY <2>8 DEF SampleState
    <3>2. sample' \in SampleState
      BY <2>8, <2>10, <3>1 DEF SampleState
    <3> QED BY <2>8, <2>10, <3>1, <3>2 DEF SampleState
  <2>12. Placed(sample')
    <3>1. \E k \in Nat :
              /\ sample'.position = OneByOne!Lesser(Len(sample'.stream), k * size)
              /\ sample'.config.kind # "tensor" => k = sample'.delivered
      BY <2>3, <2>4, <2>5, <2>11
    <3> QED BY <1>4, <2>3, <2>4, <2>10, <2>11, <3>1 DEF Placed, Before
  <2>13. Verified(s.config, OneByOne!NoCursor)
    BY <1>3, NothingVerified, SampleTypes
  <2> QED BY <1>1, <1>3, <2>11, <2>12, <2>13 DEF SampleGood
<1>6. CASE ~OneByOne!Reproduces(s.config, from, s.resume)
  <2>1. sample' = [OneByOne!Closed(s) EXCEPT !.spent = @ + 1, !.got = <<>>]
    BY <1>2, <1>6 DEF OneByOne!Iterate
  <2>2. /\ sample' \in SampleState /\ sample'.config = s.config
        /\ sample'.resume = s.resume /\ sample'.saved = s.saved
        /\ sample'.call = "idle" /\ ~sample'.live
    <3>1. <<>> \in Seq(Int)
      OBVIOUS
    <3>2. sample' = [[s EXCEPT !.live = FALSE, !.complete = FALSE]
                        EXCEPT !.spent = @ + 1, !.got = <<>>]
      BY <2>1 DEF OneByOne!Closed
    <3>3. sample' \in SampleState
      BY <3>1, <3>2, <1>3 DEF SampleState
    <3> QED BY <3>1, <3>2, <3>3, <1>3 DEF SampleState
  <2> QED BY <1>1, <1>3, <2>2 DEF SampleGood
<1> QED BY <1>5, <1>6

LEMMA CallNextGood ==
  ASSUME SampleGood(sample), OneByOne!CallNext
  PROVE  SampleGood(sample')
<1>1. sample \in SampleState
  BY DEF SampleGood
<1>2. sample' = [sample EXCEPT !.call = "next"] /\ sample.call = "idle"
      /\ sample.live /\ ~sample.complete
  BY DEF OneByOne!CallNext
<1>3. sample' \in SampleState
  BY <1>1, <1>2 DEF SampleState
<1>4. /\ sample'.config = sample.config /\ sample'.stream = sample.stream
      /\ sample'.position = sample.position /\ sample'.delivered = sample.delivered
      /\ sample'.read = sample.read /\ sample'.got = sample.got
      /\ sample'.live = sample.live /\ sample'.complete = sample.complete
      /\ sample'.resume = sample.resume /\ sample'.saved = sample.saved
      /\ sample'.call = "next"
  BY <1>1, <1>2 DEF SampleState
<1>5. Placed(sample) /\ Before(sample) = sample.position
  BY <1>2 DEF SampleGood, Before
<1>6. Before(sample') = sample'.position
  BY <1>4 DEF Before
<1>7. Placed(sample')
  BY <1>2, <1>4, <1>5, <1>6 DEF Placed
<1> QED BY <1>2, <1>3, <1>4, <1>7 DEF SampleGood

LEMMA FinishGood ==
  ASSUME SampleGood(sample), OneByOne!Finish
  PROVE  SampleGood(sample')
<1>1. sample \in SampleState /\ sample.call = "next"
      /\ OneByOne!Ends(sample) /\ sample.live /\ ~sample.complete /\ Placed(sample)
  BY DEF SampleGood, OneByOne!Finish
<1>2. PICK r \in Nat :
            /\ OneByOne!Looked(sample) = [sample EXCEPT !.read = r]
            /\ sample.read <= r /\ r <= Len(sample.stream)
            /\ r <= sample.position + OneByOne!WidthOf(sample.config)
            /\ OneByOne!NextWidth(sample) \in Nat
            /\ OneByOne!NextWidth(sample)
                  = OneByOne!Lesser(OneByOne!WidthOf(sample.config),
                                    Len(sample.stream) - sample.position)
            /\ sample.position + OneByOne!NextWidth(sample) <= r
  BY <1>1, LookedIs
<1>3. sample' = [[sample EXCEPT !.read = r] EXCEPT !.complete = TRUE, !.call = "idle"]
  BY <1>2 DEF OneByOne!Finish
<1>4. sample' \in SampleState
  BY <1>1, <1>3 DEF SampleState
<1>5. /\ sample'.config = sample.config /\ sample'.stream = sample.stream
      /\ sample'.position = sample.position /\ sample'.delivered = sample.delivered
      /\ sample'.read = r /\ sample'.got = sample.got
      /\ sample'.live = sample.live /\ sample'.complete
      /\ sample'.resume = sample.resume /\ sample'.saved = sample.saved
      /\ sample'.call = "idle"
  BY <1>1, <1>3 DEF SampleState
<1>6. Before(sample) = sample.position /\ Before(sample') = sample.position
  BY <1>1, <1>5 DEF Before
<1>7. Len(sample.stream) <= sample.position
          + (IF OneByOne!DropsLast(sample.config) THEN BatchWidth - 1 ELSE 0)
  <2>1. /\ OneByOne!WidthOf(sample.config) \in Nat
        /\ OneByOne!WidthOf(sample.config) > 0
        /\ Len(sample.stream) \in Nat /\ sample.position \in Nat
        /\ sample.position <= Len(sample.stream) /\ BatchWidth \in Nat /\ BatchWidth > 0
    BY <1>1, SampleTypes, SampleConstants DEF Placed
  <2>2. CASE OneByOne!NextWidth(sample) = 0
    BY <1>2, <2>1, <2>2 DEF OneByOne!Lesser
  <2>3. CASE /\ OneByOne!NextWidth(sample) < OneByOne!WidthOf(sample.config)
             /\ OneByOne!DropsLast(sample.config)
    <3>1. OneByOne!WidthOf(sample.config) = BatchWidth
      BY <1>1, <2>3, SampleTypes, WidthIs
    <3> QED BY <1>2, <2>1, <2>3, <3>1 DEF OneByOne!Lesser
  <2> QED BY <1>1, <2>2, <2>3 DEF OneByOne!Ends
<1>8. /\ sample.position \in Nat /\ sample.read \in Nat
      /\ sample.position <= sample.read
  BY <1>1, SampleTypes DEF Placed
<1>9. sample.position <= r
  BY <1>2, <1>8
<1>10. Placed(sample')
  BY <1>1, <1>2, <1>5, <1>6, <1>7, <1>9 DEF Placed
<1>11. Verified(sample.config, sample.resume)
      /\ (sample.saved # [none |-> TRUE] => Verified(sample.config, sample.saved))
  BY DEF SampleGood
<1> QED BY <1>4, <1>5, <1>10, <1>11 DEF SampleGood

(* A batch is taken in hand: the tensor's position moves on with it.       *)
LEMMA EvaluatingGood ==
  ASSUME SampleGood(sample), sample.call = "next", ~OneByOne!Ends(sample),
         NEW w, w = OneByOne!NextWidth(sample),
         NEW t \in SampleState,
         t.config = sample.config, t.stream = sample.stream,
         t.delivered = sample.delivered, t.got = sample.got,
         t.live = sample.live, t.complete = sample.complete,
         t.resume = sample.resume, t.saved = sample.saved,
         t.call = "evaluate", t.width = w,
         t.read = OneByOne!Looked(sample).read,
         t.config.kind = "tensor" => t.position = sample.position + w,
         t.config.kind # "tensor" => t.position = sample.position
  PROVE  SampleGood(t)
<1>1. sample \in SampleState /\ sample.live /\ ~sample.complete /\ Placed(sample)
      /\ Verified(sample.config, sample.resume)
      /\ (sample.saved # [none |-> TRUE] => Verified(sample.config, sample.saved))
  BY DEF SampleGood
<1>2. PICK size : size = OneByOne!WidthOf(sample.config)
  OBVIOUS
<1>3. PICK r \in Nat :
            /\ OneByOne!Looked(sample) = [sample EXCEPT !.read = r]
            /\ sample.read <= r /\ r <= Len(sample.stream)
            /\ r <= sample.position + size
            /\ w \in Nat
            /\ w = OneByOne!Lesser(size, Len(sample.stream) - sample.position)
            /\ sample.position + w <= r
  BY <1>1, <1>2, LookedIs
<1>4. t.read = r
  BY <1>1, <1>3 DEF SampleState
<1>5. /\ size \in Nat /\ size > 0 /\ Len(sample.stream) \in Nat
      /\ sample.position \in Nat /\ sample.read \in Nat
  BY <1>1, <1>2, SampleTypes
<1>6. PICK k \in Nat :
          /\ sample.position = OneByOne!Lesser(Len(sample.stream), k * size)
          /\ sample.config.kind # "tensor" => k = sample.delivered
  BY <1>1, <1>2 DEF Placed
<1>7. /\ ~OneByOne!ByUser(sample.config)
              => sample.stream = OneByOne!Clipped(sample.config)
      /\ sample.position <= sample.read
      /\ Matches(sample.got, sample.stream) /\ Len(sample.got) = sample.position
  BY <1>1 DEF Placed, Before
<1>8. Before(t) = sample.position
  BY <1>3, <1>5 DEF Before
<1>9. \E n \in Nat :
          /\ t.position = OneByOne!Lesser(Len(t.stream), n * size)
          /\ t.config.kind # "tensor" => n = t.delivered
  <2>1. CASE t.config.kind = "tensor"
    <3>1. t.position = OneByOne!Lesser(Len(t.stream), (k + 1) * size)
      <4>1. PICK full : full = k * size
                /\ sample.position = OneByOne!Lesser(Len(sample.stream), full)
        BY <1>6
      <4>2. PICK more : more = (k + 1) * size
        OBVIOUS
      <4>3. sample.position + w = OneByOne!Lesser(Len(sample.stream), more)
        <5>1. /\ Len(sample.stream) \in Nat /\ sample.position \in Nat
              /\ size \in Nat /\ size > 0 /\ k \in Nat
          BY <1>5
        <5>2. w = OneByOne!Lesser(size, Len(sample.stream) - sample.position)
          BY <1>3
        <5> QED BY ONLY <4>1, <4>2, <5>1, <5>2, NextMultiple
      <4> QED BY <2>1, <4>2, <4>3
    <3>2. k + 1 \in Nat
      OBVIOUS
    <3> QED BY <2>1, <3>1, <3>2, Zenon
  <2>2. CASE t.config.kind # "tensor"
    BY <1>6, <2>2
  <2> QED BY <2>1, <2>2
<1>10. w > 0
  BY <1>3 DEF OneByOne!Ends
<1>11. /\ t.position <= t.read /\ t.read <= t.position + size
       /\ t.read <= Len(t.stream)
  BY <1>3, <1>4, <1>5, <1>7
<1>12. Placed(t)
  BY <1>1, <1>2, <1>3, <1>4, <1>7, <1>8, <1>9, <1>10, <1>11 DEF Placed
<1> QED BY <1>1, <1>12 DEF SampleGood

LEMMA EvaluateGood ==
  ASSUME SampleGood(sample),
         OneByOne!EvaluateHere \/ OneByOne!EvaluateStream \/ OneByOne!EvaluateBatch
  PROVE  SampleGood(sample')
<1>1. sample.call = "next" /\ ~OneByOne!Ends(sample)
      /\ sample.config.kind # "tensor"
  BY DEF OneByOne!EvaluateHere, OneByOne!EvaluateStream, OneByOne!EvaluateBatch,
         OneByOne!Next
<1>2. sample \in SampleState /\ Placed(sample)
  BY <1>1 DEF SampleGood
<1>3. PICK w : w = OneByOne!NextWidth(sample)
  OBVIOUS
<1>4. PICK r \in Nat : OneByOne!Looked(sample) = [sample EXCEPT !.read = r] /\ w \in Nat
  BY <1>1, <1>2, <1>3, LookedIs
<1>5. OneByOne!Evaluating(sample)
        = [[sample EXCEPT !.read = r] EXCEPT !.call = "evaluate", !.width = w]
  BY <1>3, <1>4 DEF OneByOne!Evaluating
<1>6. PICK e : e = OneByOne!Evaluating(sample)
  OBVIOUS
<1>7. e \in SampleState
  BY <1>2, <1>4, <1>5, <1>6 DEF SampleState
<1>8. /\ e.config = sample.config /\ e.stream = sample.stream
      /\ e.delivered = sample.delivered /\ e.got = sample.got
      /\ e.live = sample.live /\ e.complete = sample.complete
      /\ e.resume = sample.resume /\ e.saved = sample.saved
      /\ e.call = "evaluate" /\ e.width = w
      /\ e.read = OneByOne!Looked(sample).read /\ e.position = sample.position
  BY <1>2, <1>4, <1>5, <1>6 DEF SampleState
<1>9. CASE OneByOne!EvaluateHere
  <2>1. sample' = [e EXCEPT !.session = [ambient |-> e.ambient], !.ambient = -1]
    BY <1>6, <1>9 DEF OneByOne!EvaluateHere, OneByOne!Opened, OneByOne!Foreign
  <2>2. [ambient |-> e.ambient] \in SampleSession /\ -1 \in Int
    BY <1>7 DEF SampleState, SampleSession
  <2>3. sample' \in SampleState
    BY <1>7, <2>1, <2>2 DEF SampleState
  <2>4. /\ sample'.config = e.config /\ sample'.stream = e.stream
        /\ sample'.delivered = e.delivered /\ sample'.got = e.got
        /\ sample'.live = e.live /\ sample'.complete = e.complete
        /\ sample'.resume = e.resume /\ sample'.saved = e.saved
        /\ sample'.call = e.call /\ sample'.width = e.width
        /\ sample'.read = e.read /\ sample'.position = e.position
    BY <1>7, <2>1 DEF SampleState
  <2> QED BY <1>1, <1>3, <1>8, <2>3, <2>4, EvaluatingGood
<1>10. CASE OneByOne!EvaluateStream \/ OneByOne!EvaluateBatch
  <2>1. sample' = e
    BY <1>6, <1>10 DEF OneByOne!EvaluateStream, OneByOne!EvaluateBatch
  <2> QED BY <1>1, <1>3, <1>7, <1>8, <2>1, EvaluatingGood
<1> QED BY <1>9, <1>10

LEMMA FetchTensorGood ==
  ASSUME SampleGood(sample), OneByOne!FetchTensor
  PROVE  SampleGood(sample')
<1>1. sample.call = "next" /\ ~OneByOne!Ends(sample)
      /\ sample.config.kind = "tensor"
  BY DEF OneByOne!FetchTensor, OneByOne!Next
<1>2. sample \in SampleState /\ Placed(sample)
  BY <1>1 DEF SampleGood
<1>3. PICK w : w = OneByOne!NextWidth(sample)
  OBVIOUS
<1>4. PICK r \in Nat : OneByOne!Looked(sample) = [sample EXCEPT !.read = r] /\ w \in Nat
  BY <1>1, <1>2, <1>3, LookedIs
<1>5. sample' = [[[sample EXCEPT !.read = r] EXCEPT !.call = "evaluate", !.width = w]
                    EXCEPT !.position = @ + w]
  BY <1>3, <1>4 DEF OneByOne!Evaluating, OneByOne!FetchTensor
<1>6. sample.position + w \in Nat
  BY <1>2, <1>4, SampleTypes
<1>7. sample' = [sample EXCEPT !.read = r, !.call = "evaluate", !.width = w,
                               !.position = sample.position + w]
  BY <1>2, <1>5 DEF SampleState
<1>8. sample' \in SampleState
  BY <1>2, <1>4, <1>6, <1>7 DEF SampleState
<1>9. /\ sample'.config = sample.config /\ sample'.stream = sample.stream
      /\ sample'.delivered = sample.delivered /\ sample'.got = sample.got
      /\ sample'.live = sample.live /\ sample'.complete = sample.complete
      /\ sample'.resume = sample.resume /\ sample'.saved = sample.saved
      /\ sample'.call = "evaluate" /\ sample'.width = w
      /\ sample'.read = OneByOne!Looked(sample).read
      /\ sample'.position = sample.position + w
  BY <1>2, <1>4, <1>7 DEF SampleState
<1> QED BY <1>1, <1>3, <1>8, <1>9, EvaluatingGood

(* A session that is closed gives the consumer its random state back.      *)
LEMMA SessionClosedIs ==
  ASSUME NEW s \in SampleState
  PROVE  LET closed == OneByOne!SessionClosed(s)
         IN  /\ closed \in SampleState
             /\ closed.config = s.config /\ closed.stream = s.stream
             /\ closed.read = s.read /\ closed.position = s.position
             /\ closed.delivered = s.delivered
             /\ closed.live = s.live /\ closed.complete = s.complete
             /\ closed.resume = s.resume /\ closed.saved = s.saved
             /\ closed.got = s.got /\ closed.width = s.width
             /\ closed.draws = s.draws /\ closed.call = s.call
             /\ closed.session = [none |-> TRUE]
             /\ s.session = [none |-> TRUE] => closed.ambient = s.ambient
             /\ s.session # [none |-> TRUE] => closed.ambient = s.session.ambient
<1>1. CASE s.session = [none |-> TRUE]
  BY <1>1 DEF OneByOne!SessionClosed, OneByOne!None
<1>2. CASE s.session # [none |-> TRUE]
  <2>1. s.session.ambient \in Int /\ [none |-> TRUE] \in SampleSession
    BY <1>2 DEF SampleState, SampleSession, Absent
  <2>2. OneByOne!SessionClosed(s)
          = [s EXCEPT !.ambient = s.session.ambient, !.session = [none |-> TRUE]]
    BY <1>2 DEF OneByOne!SessionClosed, OneByOne!None
  <2>3. [s EXCEPT !.ambient = s.session.ambient, !.session = [none |-> TRUE]]
            \in SampleState
    BY <2>1 DEF SampleState
  <2> QED BY <1>2, <2>2, <2>3 DEF SampleState
<1> QED BY <1>1, <1>2

(* The batch in hand is delivered.                                         *)
LEMMA CommitGood ==
  ASSUME SampleGood(sample), OneByOne!Commit
  PROVE  SampleGood(sample')
<1>1. /\ sample \in SampleState /\ sample.call = "evaluate" /\ sample.live
      /\ ~sample.complete /\ Placed(sample)
      /\ Verified(sample.config, sample.resume)
      /\ (sample.saved # [none |-> TRUE] => Verified(sample.config, sample.saved))
  BY DEF SampleGood, OneByOne!Commit
<1>2. PICK size : size = OneByOne!WidthOf(sample.config)
  OBVIOUS
<1>3. /\ size \in Nat /\ size > 0 /\ sample.position \in Nat /\ sample.width \in Nat
      /\ sample.read \in Nat /\ sample.stream \in Seq(Nat) /\ sample.got \in Seq(Int)
      /\ Len(sample.stream) \in Nat /\ sample.delivered \in Nat
  BY <1>1, <1>2, SampleTypes
<1>4. PICK k \in Nat :
          /\ sample.position = OneByOne!Lesser(Len(sample.stream), k * size)
          /\ sample.config.kind # "tensor" => k = sample.delivered
  BY <1>1, <1>2 DEF Placed
<1>5. PICK first : first = Before(sample)
  OBVIOUS
<1>6. OneByOne!First(sample) = first
  BY <1>1, <1>5 DEF OneByOne!First, Before
<1>7. PICK w : w = sample.width
  OBVIOUS
<1>8. /\ ~OneByOne!ByUser(sample.config)
              => sample.stream = OneByOne!Clipped(sample.config)
      /\ sample.position <= sample.read /\ sample.read <= Len(sample.stream)
      /\ sample.read <= sample.position + size
      /\ Matches(sample.got, sample.stream) /\ Len(sample.got) = first
      /\ w = OneByOne!Lesser(size, Len(sample.stream) - first) /\ w > 0
      /\ first + w <= sample.read
  BY <1>1, <1>2, <1>5, <1>7 DEF Placed
<1>9. first \in Nat /\ w \in Nat
  BY <1>3, <1>7, <1>8
<1>10. PICK more : more = SubSeq(sample.stream, first + 1, first + w)
  OBVIOUS
<1>11. /\ more \in Seq(Nat) /\ Len(more) = w
       /\ \A i \in 1..w : more[i] = sample.stream[first + i]
  <2>1. first + w <= Len(sample.stream)
    BY <1>3, <1>8, <1>9
  <2>2. sample.stream \in Seq(Nat)
    BY <1>3
  <2> QED BY ONLY <1>9, <1>10, <2>1, <2>2, Cut
<1>12. /\ sample.got \o more \in Seq(Int) /\ Len(sample.got \o more) = first + w
       /\ Matches(sample.got \o more, sample.stream)
  <2>1. first + w <= Len(sample.stream)
    BY <1>3, <1>8, <1>9
  <2>2. more \in Seq(Int)
    BY <1>11
  <2>3. \A i \in 1..Len(more) : more[i] \in {sample.stream[Len(sample.got) + i], -1}
    BY <1>8, <1>11
  <2>4. Len(sample.got) + Len(more) <= Len(sample.stream)
    BY <1>8, <1>11, <2>1
  <2> QED BY <1>3, <1>8, <1>11, <2>2, <2>3, <2>4, MatchesLonger
<1>13. PICK s : s = OneByOne!SessionClosed(sample)
  OBVIOUS
<1>14. /\ s \in SampleState
       /\ s.config = sample.config /\ s.stream = sample.stream
       /\ s.read = sample.read /\ s.delivered = sample.delivered
       /\ s.live = sample.live /\ s.complete = sample.complete
       /\ s.resume = sample.resume /\ s.saved = sample.saved
  BY <1>1, <1>13, SessionClosedIs
<1>15. s.got = sample.got
  BY <1>1, <1>13, SessionClosedIs
<1>16. sample' = [s EXCEPT !.position = first + w, !.delivered = @ + 1,
                           !.got = @ \o more, !.call = "idle"]
  BY <1>6, <1>7, <1>10, <1>13 DEF OneByOne!Commit, OneByOne!Batch
<1>17. first + w \in Nat /\ sample.delivered + 1 \in Nat
  BY <1>3, <1>9
<1>18. sample' \in SampleState
  BY <1>12, <1>14, <1>15, <1>16, <1>17 DEF SampleState
<1>19. /\ sample'.config = sample.config /\ sample'.stream = sample.stream
       /\ sample'.read = sample.read /\ sample'.live = sample.live
       /\ sample'.complete = sample.complete /\ sample'.resume = sample.resume
       /\ sample'.saved = sample.saved /\ sample'.position = first + w
       /\ sample'.delivered = sample.delivered + 1 /\ sample'.call = "idle"
       /\ sample'.got = sample.got \o more
  BY <1>14, <1>15, <1>16 DEF SampleState
<1>20. \E n \in Nat :
          /\ sample'.position = OneByOne!Lesser(Len(sample'.stream), n * size)
          /\ sample'.config.kind # "tensor" => n = sample'.delivered
  <2>1. CASE sample.config.kind = "tensor"
    <3>1. first + w = sample.position
      BY <1>1, <1>3, <1>5, <1>7, <2>1 DEF Before
    <3> QED BY <1>4, <1>19, <2>1, <3>1, Zenon
  <2>2. CASE sample.config.kind # "tensor"
    <3>1. first = sample.position
      BY <1>5, <2>2 DEF Before
    <3>2. PICK full : full = k * size
                /\ sample.position = OneByOne!Lesser(Len(sample.stream), full)
      BY <1>4
    <3>3. PICK next : next = (k + 1) * size
      OBVIOUS
    <3>4. first + w = OneByOne!Lesser(Len(sample.stream), next)
      BY <1>3, <1>8, <3>1, <3>2, <3>3, NextMultiple
    <3>5. k + 1 \in Nat /\ k + 1 = sample'.delivered
      BY <1>4, <1>19, <2>2
    <3> QED BY <1>19, <3>3, <3>4, <3>5, Zenon
  <2> QED BY <2>1, <2>2
<1>21. Before(sample') = first + w
  BY <1>19 DEF Before
<1>22. first + w <= sample.read /\ sample.read <= first + w + size
  <2>1. sample.config.kind = "tensor" => first + w = sample.position
    BY <1>1, <1>3, <1>5, <1>7 DEF Before
  <2>2. sample.config.kind # "tensor" => first = sample.position
    BY <1>5 DEF Before
  <2>3. sample.position <= first + w
    BY <1>9, <2>1, <2>2
  <2>4. first + w <= sample.read /\ sample.read <= sample.position + size
    BY <1>8
  <2>5. sample.position \in Int /\ sample.read \in Int /\ size \in Int /\ first + w \in Int
    BY <1>3, <1>9
  <2> QED BY ONLY <2>3, <2>4, <2>5
<1>23. Placed(sample')
  BY <1>1, <1>2, <1>8, <1>12, <1>19, <1>20, <1>21, <1>22 DEF Placed
<1> QED BY <1>1, <1>18, <1>19, <1>23 DEF SampleGood

LEMMA EvaluationFailsGood ==
  ASSUME SampleGood(sample), OneByOne!EvaluationFails
  PROVE  SampleGood(sample')
<1>1. /\ sample \in SampleState
      /\ Verified(sample.config, sample.resume)
      /\ (sample.saved # [none |-> TRUE] => Verified(sample.config, sample.saved))
  BY DEF SampleGood
<1>2. PICK s : s = OneByOne!SessionClosed(sample)
  OBVIOUS
<1>3. s \in SampleState /\ s.config = sample.config
      /\ s.resume = sample.resume /\ s.saved = sample.saved
  BY <1>1, <1>2, SessionClosedIs
<1>4. sample' = [[s EXCEPT !.live = FALSE, !.complete = FALSE]
                    EXCEPT !.got = <<>>, !.call = "idle", !.spent = @ + 1]
  BY <1>2 DEF OneByOne!EvaluationFails, OneByOne!Closed
<1>5. s.spent + 1 \in Int /\ <<>> \in Seq(Int)
  BY <1>3 DEF SampleState
<1>6. sample' \in SampleState
  BY <1>3, <1>4, <1>5 DEF SampleState
<1>7. /\ sample'.config = s.config /\ sample'.resume = s.resume
      /\ sample'.saved = s.saved /\ ~sample'.live /\ sample'.call = "idle"
  BY <1>3, <1>4 DEF SampleState
<1> QED BY <1>1, <1>3, <1>6, <1>7 DEF SampleGood

(* A selection of the tensor raises, and the iterator goes on after it.    *)
LEMMA FetchFailsGood ==
  ASSUME SampleGood(sample), OneByOne!FetchFails
  PROVE  SampleGood(sample')
<1>1. /\ sample \in SampleState /\ sample.call = "evaluate" /\ sample.live
      /\ ~sample.complete /\ Placed(sample) /\ sample.config.kind = "tensor"
      /\ Verified(sample.config, sample.resume)
      /\ (sample.saved # [none |-> TRUE] => Verified(sample.config, sample.saved))
  BY DEF SampleGood, OneByOne!FetchFails
<1>2. PICK size : size = OneByOne!WidthOf(sample.config)
  OBVIOUS
<1>3. /\ size \in Nat /\ size > 0 /\ sample.position \in Nat /\ sample.width \in Nat
      /\ sample.read \in Nat /\ sample.stream \in Seq(Nat) /\ sample.got \in Seq(Int)
      /\ Len(sample.stream) \in Nat /\ Len(sample.got) \in Nat
  BY <1>1, <1>2, SampleTypes
<1>4. PICK w : w = sample.width
  OBVIOUS
<1>5. /\ ~OneByOne!ByUser(sample.config)
              => sample.stream = OneByOne!Clipped(sample.config)
      /\ sample.position <= sample.read /\ sample.read <= Len(sample.stream)
      /\ sample.read <= sample.position + size
      /\ Matches(sample.got, sample.stream) /\ Len(sample.got) = sample.position - w
  BY <1>1, <1>2, <1>4 DEF Placed, Before
<1>6. \E k \in Nat :
          /\ sample.position = OneByOne!Lesser(Len(sample.stream), k * size)
          /\ sample.config.kind # "tensor" => k = sample.delivered
  BY <1>1, <1>2 DEF Placed
<1>7. PICK more : more = [i \in 1..w |-> -1]
  OBVIOUS
<1>8. more \in Seq(Int) /\ Len(more) = w /\ \A i \in 1..w : more[i] = -1
  BY <1>3, <1>4, <1>7
<1>9. /\ sample.got \o more \in Seq(Int)
      /\ Len(sample.got \o more) = sample.position
      /\ Matches(sample.got \o more, sample.stream)
  <2>1. /\ Len(sample.got) + Len(more) = sample.position
        /\ Len(sample.got) + Len(more) <= Len(sample.stream)
    BY <1>3, <1>4, <1>5, <1>8
  <2>2. \A i \in 1..Len(more) : more[i] \in {sample.stream[Len(sample.got) + i], -1}
    BY <1>8
  <2> QED BY <1>3, <1>5, <1>8, <2>1, <2>2, MatchesLonger
<1>10. sample' = [sample EXCEPT !.got = sample.got \o more, !.call = "idle",
                                !.spent = @ + 1]
  BY <1>4, <1>7 DEF OneByOne!FetchFails, OneByOne!Missed
<1>11. sample.spent + 1 \in Int
  BY <1>1 DEF SampleState
<1>12. sample' \in SampleState
  BY <1>1, <1>9, <1>10, <1>11 DEF SampleState
<1>13. /\ sample'.config = sample.config /\ sample'.stream = sample.stream
       /\ sample'.read = sample.read /\ sample'.live = sample.live
       /\ sample'.complete = sample.complete /\ sample'.resume = sample.resume
       /\ sample'.saved = sample.saved /\ sample'.position = sample.position
       /\ sample'.delivered = sample.delivered /\ sample'.call = "idle"
       /\ sample'.got = sample.got \o more
  BY <1>1, <1>10 DEF SampleState
<1>14. Before(sample') = sample.position
  BY <1>13 DEF Before
<1>15. Placed(sample')
  BY <1>1, <1>2, <1>5, <1>6, <1>9, <1>13, <1>14 DEF Placed
<1> QED BY <1>1, <1>12, <1>13, <1>15 DEF SampleGood

(* The user's sampler raises: it has yielded what was read of it.          *)
LEMMA SamplerRaisesGood ==
  ASSUME SampleGood(sample), OneByOne!SamplerRaises
  PROVE  SampleGood(sample')
<1>1. /\ sample \in SampleState /\ sample.call = "next" /\ sample.live
      /\ ~sample.complete /\ Placed(sample) /\ OneByOne!ByUser(sample.config)
      /\ Verified(sample.config, sample.resume)
      /\ (sample.saved # [none |-> TRUE] => Verified(sample.config, sample.saved))
  BY DEF SampleGood, OneByOne!SamplerRaises
<1>2. PICK size : size = OneByOne!WidthOf(sample.config)
  OBVIOUS
<1>3. PICK n \in sample.read .. Len(sample.stream) - 1 :
          /\ n < sample.position + size
          /\ sample' = [sample EXCEPT !.stream = SubSeq(sample.stream, 1, n), !.read = n,
                                      !.call = "idle", !.spent = @ + 1]
  BY <1>2 DEF OneByOne!SamplerRaises, OneByOne!Prefix
<1>4. /\ size \in Nat /\ size > 0 /\ sample.position \in Nat
      /\ sample.read \in Nat /\ sample.stream \in Seq(Nat) /\ sample.got \in Seq(Int)
      /\ Len(sample.stream) \in Nat
  BY <1>1, <1>2, SampleTypes
<1>5. n \in Nat /\ sample.read <= n /\ n < Len(sample.stream)
  BY <1>3, <1>4
<1>6. /\ sample.position <= sample.read
      /\ Matches(sample.got, sample.stream) /\ Len(sample.got) = sample.position
  BY <1>1 DEF Placed, Before
<1>7. PICK from : from = SubSeq(sample.stream, 1, n)
  OBVIOUS
<1>8. from \in Seq(Nat) /\ Len(from) = n /\ Matches(sample.got, from)
  <2>1. from \in Seq(Nat) /\ Len(from) = n
    BY <1>4, <1>5, <1>7, CutFront
  <2>2. Len(sample.got) <= n /\ n <= Len(sample.stream)
    BY <1>4, <1>5, <1>6
  <2>3. Matches(sample.got, from)
    BY <1>4, <1>5, <1>6, <1>7, <2>2, MatchesPrefix
  <2> QED BY <2>1, <2>3
<1>9. sample' = [sample EXCEPT !.stream = from, !.read = n,
                               !.call = "idle", !.spent = @ + 1]
  BY <1>3, <1>7
<1>10. sample.spent + 1 \in Int
  BY <1>1 DEF SampleState
<1>11. sample' \in SampleState
  BY <1>1, <1>5, <1>8, <1>9, <1>10 DEF SampleState
<1>12. /\ sample'.config = sample.config /\ sample'.stream = from
       /\ sample'.read = n /\ sample'.live = sample.live
       /\ sample'.complete = sample.complete /\ sample'.resume = sample.resume
       /\ sample'.saved = sample.saved /\ sample'.position = sample.position
       /\ sample'.delivered = sample.delivered /\ sample'.call = "idle"
       /\ sample'.got = sample.got
  BY <1>1, <1>9 DEF SampleState
<1>13. Before(sample') = sample.position
  BY <1>12 DEF Before
<1>14. PICK k \in Nat :
          /\ sample.position = OneByOne!Lesser(Len(sample.stream), k * size)
          /\ sample.config.kind # "tensor" => k = sample.delivered
  BY <1>1, <1>2 DEF Placed
<1>15. sample.position = OneByOne!Lesser(n, k * size)
  <2>1. PICK full \in Nat : full = k * size
    <3>1. k * size \in Nat
      BY <1>4
    <3> QED BY <3>1, Zenon
  <2>2. sample.position = OneByOne!Lesser(n, full)
    BY <1>4, <1>5, <1>6, <1>14, <2>1 DEF OneByOne!Lesser
  <2> QED BY <2>1, <2>2
<1>16. sample.position <= n /\ n <= sample.position + size
  BY <1>3, <1>4, <1>5, <1>6
<1>17. Placed(sample')
  BY <1>1, <1>2, <1>6, <1>8, <1>12, <1>13, <1>14, <1>15, <1>16 DEF Placed
<1> QED BY <1>1, <1>11, <1>12, <1>17 DEF SampleGood

LEMMA OthersGood ==
  ASSUME SampleGood(sample),
         OneByOne!Draw \/ OneByOne!Capture \/ OneByOne!Load \/ OneByOne!SetEpoch
  PROVE  SampleGood(sample')
<1>1. /\ sample \in SampleState /\ (sample.live => Placed(sample))
      /\ (sample.call # "idle" => sample.live /\ ~sample.complete)
      /\ Verified(sample.config, sample.resume)
      /\ (sample.saved # [none |-> TRUE] => Verified(sample.config, sample.saved))
  BY DEF SampleGood
<1>2. ASSUME sample' \in SampleState,
             sample'.config = sample.config, sample'.stream = sample.stream,
             sample'.read = sample.read, sample'.live = sample.live,
             sample'.complete = sample.complete, sample'.width = sample.width,
             sample'.position = sample.position, sample'.call = sample.call,
             sample'.delivered = sample.delivered, sample'.got = sample.got
      PROVE  /\ sample'.live => Placed(sample')
             /\ sample'.call # "idle" => sample'.live /\ ~sample'.complete
  <2>1. Before(sample') = Before(sample)
    BY <1>2 DEF Before
  <2> QED BY <1>1, <1>2, <2>1 DEF Placed
<1>3. CASE OneByOne!Draw
  <2>1. PICK a : a = IF sample.ambient = OneByOne!Foreign THEN sample.ambient
                     ELSE sample.ambient + 1
    OBVIOUS
  <2>2. sample' = [sample EXCEPT !.ambient = a, !.draws = @ + 1, !.spent = @ + 1]
    BY <1>1, <1>3, <2>1 DEF OneByOne!Draw, SampleState
  <2>3. a \in Int /\ sample.draws + 1 \in Nat /\ sample.spent + 1 \in Int
    BY <1>1, <2>1, SampleTypes
  <2>4. sample' \in SampleState
    BY <1>1, <2>2, <2>3 DEF SampleState
  <2>5. /\ sample'.config = sample.config /\ sample'.stream = sample.stream
        /\ sample'.read = sample.read /\ sample'.live = sample.live
        /\ sample'.complete = sample.complete /\ sample'.width = sample.width
        /\ sample'.position = sample.position /\ sample'.call = sample.call
        /\ sample'.delivered = sample.delivered /\ sample'.got = sample.got
        /\ sample'.resume = sample.resume /\ sample'.saved = sample.saved
    BY <1>1, <2>2 DEF SampleState
  <2> QED BY <1>1, <1>2, <2>4, <2>5 DEF SampleGood
<1>4. CASE OneByOne!Capture
  <2>1. PICK c : c = OneByOne!Captured(sample)
    OBVIOUS
  <2>2. sample' = [sample EXCEPT !.saved = c] /\ sample.call = "idle"
    BY <1>4, <2>1 DEF OneByOne!Capture
  <2>3. c \in SampleCoordinate /\ Verified(sample.config, c)
    BY <1>1, <2>1, <2>2, CapturedIs
  <2>4. c \in SampleSaved
    BY <2>3 DEF SampleSaved
  <2>5. sample' \in SampleState
    BY <1>1, <2>2, <2>4 DEF SampleState
  <2>6. /\ sample'.config = sample.config /\ sample'.stream = sample.stream
        /\ sample'.read = sample.read /\ sample'.live = sample.live
        /\ sample'.complete = sample.complete /\ sample'.width = sample.width
        /\ sample'.position = sample.position /\ sample'.call = sample.call
        /\ sample'.delivered = sample.delivered /\ sample'.got = sample.got
        /\ sample'.resume = sample.resume /\ sample'.saved = c
    BY <1>1, <2>2 DEF SampleState
  <2> QED BY <1>1, <1>2, <2>3, <2>5, <2>6 DEF SampleGood
<1>5. CASE OneByOne!Load
  <2>1. /\ sample' = [[sample EXCEPT !.live = FALSE, !.complete = FALSE]
                          EXCEPT !.resume = sample.saved, !.got = <<>>]
        /\ sample.call = "idle" /\ sample.saved # [none |-> TRUE]
    BY <1>5 DEF OneByOne!Load, OneByOne!Closed, OneByOne!None
  <2>2. sample.saved \in SampleCoordinate /\ <<>> \in Seq(Int)
    <3>1. sample.saved \in SampleSaved
      BY <1>1, SampleTypes
    <3>2. sample.saved \in SampleCoordinate
      BY <2>1, <3>1, Zenon DEF SampleSaved, Absent
    <3> QED BY <3>2
  <2>3. sample' \in SampleState
    BY <1>1, <2>1, <2>2 DEF SampleState
  <2>4. /\ sample'.config = sample.config /\ ~sample'.live /\ sample'.call = "idle"
        /\ sample'.resume = sample.saved /\ sample'.saved = sample.saved
    BY <1>1, <2>1 DEF SampleState
  <2> QED BY <1>1, <2>1, <2>3, <2>4 DEF SampleGood
<1>6. CASE OneByOne!SetEpoch
  <2>1. sample' = [sample EXCEPT !.resume = OneByOne!NoCursor]
    BY <1>6 DEF OneByOne!SetEpoch
  <2>2. OneByOne!NoCursor \in SampleCoordinate
    BY DEF SampleCoordinate, OneByOne!NoCursor
  <2>3. sample' \in SampleState
    BY <1>1, <2>1, <2>2 DEF SampleState
  <2>4. /\ sample'.config = sample.config /\ sample'.stream = sample.stream
        /\ sample'.read = sample.read /\ sample'.live = sample.live
        /\ sample'.complete = sample.complete /\ sample'.width = sample.width
        /\ sample'.position = sample.position /\ sample'.call = sample.call
        /\ sample'.delivered = sample.delivered /\ sample'.got = sample.got
        /\ sample'.resume = OneByOne!NoCursor /\ sample'.saved = sample.saved
    BY <1>1, <2>1 DEF SampleState
  <2>5. Verified(sample.config, OneByOne!NoCursor)
    BY <1>1, SampleTypes, NothingVerified
  <2> QED BY <1>1, <1>2, <2>3, <2>4, <2>5 DEF SampleGood
<1> QED BY <1>3, <1>4, <1>5, <1>6

LEMMA SampleStep ==
  ASSUME SampleGood(sample), OneByOne!SampleNext
  PROVE  SampleGood(sample')
<1>1. CASE \E from \in OneByOne!Sources(sample.config) : OneByOne!Iterate(from)
  BY <1>1, IterateGood
<1>2. CASE OneByOne!CallNext
  BY <1>2, CallNextGood
<1>3. CASE OneByOne!Finish
  BY <1>3, FinishGood
<1>4. CASE \/ OneByOne!EvaluateHere \/ OneByOne!EvaluateStream
           \/ OneByOne!EvaluateBatch
  BY <1>4, EvaluateGood
<1>5. CASE OneByOne!FetchTensor
  BY <1>5, FetchTensorGood
<1>6. CASE OneByOne!Commit
  BY <1>6, CommitGood
<1>7. CASE OneByOne!EvaluationFails
  BY <1>7, EvaluationFailsGood
<1>8. CASE OneByOne!FetchFails
  BY <1>8, FetchFailsGood
<1>9. CASE OneByOne!SamplerRaises
  BY <1>9, SamplerRaisesGood
<1>10. CASE \/ OneByOne!Draw \/ OneByOne!Capture \/ OneByOne!Load
            \/ OneByOne!SetEpoch
  BY <1>10, OthersGood
<1> QED
  BY <1>1, <1>2, <1>3, <1>4, <1>5, <1>6, <1>7, <1>8, <1>9, <1>10
     DEF OneByOne!SampleNext

LEMMA SampleInitGood ==
  ASSUME RuntimesInit
  PROVE  SampleInv /\ (sample # [none |-> TRUE] =>
                          /\ sample.config \in SampleConfigs
                          /\ sample.call = "idle" /\ sample.session = [none |-> TRUE]
                          /\ sample.ambient = sample.draws)
<1>1. CASE sample = [none |-> TRUE]
  BY <1>1 DEF SampleInv
<1>2. CASE sample # [none |-> TRUE]
  <2>1. PICK config \in SampleConfigs : OneByOne!SampleInit(config)
    BY <1>2 DEF RuntimesInit, DispatchIterable, DispatchThread, DispatchStructured,
                DispatchOneByOne, OneByOne!SampleUnused, OneByOne!None
  <2>2. config \in SampleConfig
    BY SampleConstants
  <2>3. sample = [config |-> config, stream |-> <<>>, read |-> 0,
                  position |-> 0, delivered |-> 0, live |-> FALSE,
                  complete |-> FALSE, call |-> "idle", width |-> 0, ambient |-> 0,
                  session |-> [none |-> TRUE], draws |-> 0,
                  resume |-> OneByOne!NoCursor, saved |-> [none |-> TRUE],
                  got |-> <<>>, spent |-> 0]
    BY <2>1 DEF OneByOne!SampleInit, OneByOne!None
  <2>4. OneByOne!NoCursor \in SampleCoordinate
    BY DEF SampleCoordinate, OneByOne!NoCursor
  <2>5. [none |-> TRUE] \in SampleSession /\ [none |-> TRUE] \in SampleSaved
    BY DEF SampleSession, SampleSaved, Absent
  <2>6. <<>> \in Seq(Nat) /\ <<>> \in Seq(Int)
    OBVIOUS
  <2>7. sample \in SampleState
    BY <2>2, <2>3, <2>4, <2>5, <2>6 DEF SampleState
  <2>8. /\ sample.config = config /\ sample.resume = OneByOne!NoCursor
        /\ sample.saved = [none |-> TRUE] /\ sample.call = "idle" /\ ~sample.live
        /\ sample.session = [none |-> TRUE] /\ sample.ambient = sample.draws
    BY <2>3
  <2>9. SampleGood(sample)
    BY <2>2, <2>7, <2>8, NothingVerified DEF SampleGood
  <2> QED BY <2>1, <2>8, <2>9 DEF SampleInv
<1> QED BY <1>1, <1>2

LEMMA SampleInvStep ==
  ASSUME SampleInv, [RuntimesNext]_runtimeVars
  PROVE  SampleInv'
<1>1. CASE sample' = sample
  BY <1>1 DEF SampleInv, SampleGood
<1>2. CASE sample' # sample
  <2>1. sample # [none |-> TRUE] /\ OneByOne!SampleNext
    BY <1>2 DEF RuntimesNext, runtimeVars, None
  <2>2. SampleGood(sample')
    BY <2>1, SampleStep DEF SampleInv
  <2> QED BY <2>2 DEF SampleInv
<1> QED BY <1>1, <1>2

LEMMA SampleInvContinues ==
  ASSUME SampleInv, sample # [none |-> TRUE]
  PROVE  OneByOne!SamplerContinues
<1>1. SUFFICES ASSUME sample.live PROVE
         /\ OneByOne!Agrees(sample.got, sample.stream)
         /\ sample.read <= sample.position + OneByOne!WidthOf(sample.config)
         /\ sample.complete =>
               Len(sample.got) >= Len(sample.stream)
                   - (IF OneByOne!DropsLast(sample.config) THEN BatchWidth - 1 ELSE 0)
  BY DEF OneByOne!SamplerContinues
<1>2. /\ sample \in SampleState /\ Placed(sample)
      /\ (sample.call # "idle" => ~sample.complete)
  BY <1>1 DEF SampleInv, SampleGood
<1>3. OneByOne!Agrees(sample.got, sample.stream)
  <2>1. DOMAIN sample.got = 1..Len(sample.got)
    BY <1>2, SampleTypes
  <2>2. Matches(sample.got, sample.stream)
    BY <1>2 DEF Placed
  <2> QED BY <2>1, <2>2 DEF Matches, OneByOne!Agrees, OneByOne!Missed
<1>4. sample.read <= sample.position + OneByOne!WidthOf(sample.config)
  BY <1>2 DEF Placed
<1>5. ASSUME sample.complete
      PROVE  Len(sample.got) >= Len(sample.stream)
                 - (IF OneByOne!DropsLast(sample.config) THEN BatchWidth - 1 ELSE 0)
  <2>1. Len(sample.got) = sample.position
    BY <1>2, <1>5 DEF Placed, Before
  <2>2. Len(sample.stream) <= sample.position
          + (IF OneByOne!DropsLast(sample.config) THEN BatchWidth - 1 ELSE 0)
    BY <1>2, <1>5 DEF Placed
  <2>3. /\ Len(sample.stream) \in Nat /\ sample.position \in Nat
        /\ BatchWidth \in Nat
    BY <1>2, SampleTypes, SampleConstants
  <2>4. PICK left : left = IF OneByOne!DropsLast(sample.config)
                           THEN BatchWidth - 1 ELSE 0
    OBVIOUS
  <2>5. left \in Int
    BY <2>3, <2>4
  <2>6. Len(sample.stream) <= sample.position + left
    BY <2>2, <2>4
  <2>7. Len(sample.got) >= Len(sample.stream) - left
    BY <2>1, <2>3, <2>5, <2>6
  <2> QED BY <2>4, <2>7
<1> QED BY <1>3, <1>4, <1>5

(* state/sampler.py:14 and :69: over captures, restores and errors of the  *)
(* dataset, the collation and the sampler, the consumer has a prefix of    *)
(* what the sampler yields, and the sampler is read no further than the    *)
(* batch in hand; at the end it has all of it, whatever the loader drops   *)
(* left out.                                                               *)
THEOREM SamplesInOrder ==
  RuntimesSpec => [](sample # None => OneByOne!SamplerContinues)
<1>1. RuntimesInit => SampleInv
  BY SampleInitGood
<1>2. SampleInv /\ [RuntimesNext]_runtimeVars => SampleInv'
  BY SampleInvStep
<1>3. SampleInv => (sample # None => OneByOne!SamplerContinues)
  BY SampleInvContinues DEF None
<1> QED BY <1>1, <1>2, <1>3, PTL DEF RuntimesSpec

-----------------------------------------------------------------------------
(* The consumer's random state.                                            *)

LEMMA LookedKeeps ==
  ASSUME NEW s \in SampleState, NEW n \in Nat
  PROVE  LET looked == OneByOne!GenerateTo(s, n)
         IN  /\ looked.config = s.config /\ looked.session = s.session
             /\ looked.ambient = s.ambient /\ looked.draws = s.draws
             /\ looked.call = s.call
             /\ \E r \in Nat : looked = [s EXCEPT !.read = r]
<1>1. PICK r : r = OneByOne!Lesser(n, Len(s.stream))
  OBVIOUS
<1>2. r \in Nat
  BY <1>1, SampleTypes DEF OneByOne!Lesser
<1>3. CASE n <= s.read
  <2>1. OneByOne!GenerateTo(s, n) = s
    BY <1>3 DEF OneByOne!GenerateTo
  <2>2. s = [s EXCEPT !.read = s.read] /\ s.read \in Nat
    BY DEF SampleState
  <2> QED BY <2>1, <2>2, Zenon
<1>4. CASE ~(n <= s.read)
  <2>1. OneByOne!GenerateTo(s, n) = [s EXCEPT !.read = r]
    BY <1>1, <1>4 DEF OneByOne!GenerateTo
  <2>2. /\ [s EXCEPT !.read = r].config = s.config
        /\ [s EXCEPT !.read = r].session = s.session
        /\ [s EXCEPT !.read = r].ambient = s.ambient
        /\ [s EXCEPT !.read = r].draws = s.draws
        /\ [s EXCEPT !.read = r].call = s.call
    BY DEF SampleState
  <2> QED BY <1>2, <2>1, <2>2, Zenon
<1> QED BY <1>3, <1>4

(* A step that leaves the states alone.                                    *)
LEMMA AmbientSame ==
  ASSUME sample # [none |-> TRUE], SampleGood(sample), AmbientInv,
         sample.call # "evaluate" \/ sample.config.kind = "tensor",
         sample' \in SampleState,
         sample'.config = sample.config, sample'.session = sample.session,
         sample'.ambient = sample.ambient, sample'.draws = sample.draws
  PROVE  AmbientInv'
  BY DEF AmbientInv, Ambient

LEMMA AmbientStep ==
  ASSUME Unstaged, sample # [none |-> TRUE], SampleGood(sample), AmbientInv,
         OneByOne!SampleNext
  PROVE  AmbientInv'
<1>1. /\ sample \in SampleState /\ sample.config \in SampleConfigs
      /\ Ambient(sample)
      /\ (sample.call # "evaluate" => sample.session = [none |-> TRUE])
      /\ sample' \in SampleState
  BY SampleStep DEF AmbientInv, SampleGood
<1>2. /\ sample.position \in Nat /\ OneByOne!WidthOf(sample.config) \in Nat
      /\ sample.position + OneByOne!WidthOf(sample.config) \in Nat
      /\ sample.draws \in Nat /\ sample.ambient \in Int
  BY <1>1, SampleTypes
<1>3. ASSUME NEW from \in OneByOne!Sources(sample.config), OneByOne!Iterate(from)
      PROVE  AmbientInv'
  <2>1. PICK s : s = IF sample.complete THEN sample ELSE OneByOne!Closed(sample)
    OBVIOUS
  <2>2. s \in SampleState
    BY <1>1, <2>1 DEF OneByOne!Closed, SampleState
  <2>3. /\ s.config = sample.config /\ s.session = sample.session
        /\ s.ambient = sample.ambient /\ s.draws = sample.draws
    BY <1>1, <2>1 DEF OneByOne!Closed, SampleState
  <2>4. CASE OneByOne!Reproduces(s.config, from, s.resume)
    <3>1. sample' = [OneByOne!BuiltFor(s, from) EXCEPT !.spent = @ + 1]
      BY <1>3, <2>1, <2>4 DEF OneByOne!Iterate
    <3>2. PICK b : b = OneByOne!Built(s, from)
      OBVIOUS
    <3>3. /\ b.config = s.config /\ b.session = s.session
          /\ b.ambient = s.ambient /\ b.draws = s.draws
      BY <2>2, <3>2 DEF OneByOne!Built, SampleState
    <3>4. CASE ~s.config.pooled
      <4>1. sample' = [OneByOne!Built(s, from) EXCEPT !.spent = @ + 1]
        BY <3>1, <3>4 DEF OneByOne!BuiltFor
      <4>2. /\ sample'.config = s.config /\ sample'.session = s.session
            /\ sample'.ambient = s.ambient /\ sample'.draws = s.draws
        BY <2>2, <4>1 DEF OneByOne!Built, SampleState
      <4> QED BY <1>3, <1>1, <2>3, <4>2, AmbientSame DEF OneByOne!Iterate
    <3>5. CASE s.config.pooled
      <4>1. sample' = [OneByOne!Probed(OneByOne!Built(s, from)) EXCEPT !.spent = @ + 1]
        BY <3>1, <3>5 DEF OneByOne!BuiltFor
      <4>2. /\ sample'.config = s.config /\ sample'.session = s.session
            /\ sample'.ambient = s.ambient /\ sample'.draws = s.draws
        BY <2>2, <4>1 DEF OneByOne!Built, OneByOne!Probed, OneByOne!GenerateTo,
                          SampleState
      <4> QED BY <1>3, <1>1, <2>3, <4>2, AmbientSame DEF OneByOne!Iterate
    <3> QED BY <3>4, <3>5
  <2>5. CASE ~OneByOne!Reproduces(s.config, from, s.resume)
    <3>1. sample' = [OneByOne!Closed(s) EXCEPT !.spent = @ + 1, !.got = <<>>]
      BY <1>3, <2>1, <2>5 DEF OneByOne!Iterate
    <3>2. /\ sample'.config = s.config /\ sample'.session = s.session
          /\ sample'.ambient = s.ambient /\ sample'.draws = s.draws
      BY <2>2, <3>1 DEF OneByOne!Closed, SampleState
    <3> QED BY <1>3, <1>1, <2>3, <3>2, AmbientSame DEF OneByOne!Iterate
  <2> QED BY <2>4, <2>5
<1>4. PICK e : e = OneByOne!Looked(sample)
  OBVIOUS
<1>5. /\ e.config = sample.config /\ e.session = sample.session
      /\ e.ambient = sample.ambient /\ e.draws = sample.draws
      /\ \E r \in Nat : e = [sample EXCEPT !.read = r]
  <2>1. PICK n \in Nat : n = sample.position + OneByOne!WidthOf(sample.config)
    BY <1>2
  <2>2. e = OneByOne!GenerateTo(sample, n)
    BY <1>4, <2>1 DEF OneByOne!Looked
  <2>3. n \in Nat
    OBVIOUS
  <2> QED BY ONLY <1>1, <2>2, <2>3, LookedKeeps
<1>6. CASE OneByOne!CallNext \/ OneByOne!SamplerRaises \/ OneByOne!Capture
           \/ OneByOne!Load \/ OneByOne!SetEpoch \/ OneByOne!FetchFails
  <2>1. sample.call # "evaluate" \/ sample.config.kind = "tensor"
    BY <1>6 DEF OneByOne!CallNext, OneByOne!SamplerRaises, OneByOne!Capture,
                OneByOne!Load, OneByOne!SetEpoch, OneByOne!FetchFails
  <2>2. /\ sample'.config = sample.config /\ sample'.session = sample.session
        /\ sample'.ambient = sample.ambient /\ sample'.draws = sample.draws
    <3>1. CASE OneByOne!CallNext
      BY ONLY <1>1, <3>1 DEF OneByOne!CallNext, SampleState
    <3>2. CASE OneByOne!SamplerRaises
      <4>1. PICK n \in sample.read .. Len(sample.stream) - 1 :
                sample' = [sample EXCEPT !.stream = OneByOne!Prefix(@, n), !.read = n,
                                         !.call = "idle", !.spent = @ + 1]
        BY ONLY <3>2 DEF OneByOne!SamplerRaises
      <4> QED BY ONLY <1>1, <4>1 DEF SampleState
    <3>3. CASE OneByOne!Capture
      BY ONLY <1>1, <3>3 DEF OneByOne!Capture, SampleState
    <3>4. CASE OneByOne!Load
      BY ONLY <1>1, <3>4 DEF OneByOne!Load, OneByOne!Closed, SampleState
    <3>5. CASE OneByOne!SetEpoch
      BY ONLY <1>1, <3>5 DEF OneByOne!SetEpoch, SampleState
    <3>6. CASE OneByOne!FetchFails
      BY ONLY <1>1, <3>6 DEF OneByOne!FetchFails, SampleState
    <3> QED BY ONLY <1>6, <3>1, <3>2, <3>3, <3>4, <3>5, <3>6
  <2> QED BY <1>1, <2>1, <2>2, AmbientSame
<1>7. CASE \/ OneByOne!Finish \/ OneByOne!EvaluateStream \/ OneByOne!EvaluateBatch
           \/ OneByOne!FetchTensor
  <2>1. sample.call # "evaluate"
    BY <1>7 DEF OneByOne!Finish, OneByOne!EvaluateStream, OneByOne!EvaluateBatch,
                OneByOne!FetchTensor, OneByOne!Next
  <2>2. PICK r \in Nat : e = [sample EXCEPT !.read = r]
    BY <1>5
  <2>3. /\ sample'.config = sample.config /\ sample'.session = sample.session
        /\ sample'.ambient = sample.ambient /\ sample'.draws = sample.draws
    <3>1. CASE OneByOne!Finish
      <4>1. sample' = [e EXCEPT !.complete = TRUE, !.call = "idle"]
        BY <1>4, <3>1 DEF OneByOne!Finish
      <4> QED BY <1>1, <2>2, <4>1 DEF SampleState
    <3>2. CASE OneByOne!EvaluateStream \/ OneByOne!EvaluateBatch
      <4>1. sample' = [e EXCEPT !.call = "evaluate", !.width = OneByOne!NextWidth(sample)]
        BY <1>4, <3>2
           DEF OneByOne!EvaluateStream, OneByOne!EvaluateBatch, OneByOne!Evaluating
      <4> QED BY <1>1, <2>2, <4>1 DEF SampleState
    <3>3. CASE OneByOne!FetchTensor
      <4>1. sample' = [[e EXCEPT !.call = "evaluate", !.width = OneByOne!NextWidth(sample)]
                          EXCEPT !.position = @ + OneByOne!NextWidth(sample)]
        BY <1>4, <3>3 DEF OneByOne!FetchTensor, OneByOne!Evaluating
      <4> QED BY <1>1, <2>2, <4>1 DEF SampleState
    <3> QED BY <1>7, <3>1, <3>2, <3>3
  <2> QED BY <1>1, <2>1, <2>3, AmbientSame
<1>8. CASE OneByOne!EvaluateHere
  <2>1. /\ sample.config.kind # "tensor" /\ ~sample.config.pooled
        /\ sample.call = "next"
    BY <1>8 DEF OneByOne!EvaluateHere, OneByOne!Next
  <2>2. PICK r \in Nat : e = [sample EXCEPT !.read = r]
    BY <1>5
  <2>3. PICK f : f = OneByOne!Evaluating(sample)
    OBVIOUS
  <2>4. /\ f.config = sample.config /\ f.call = "evaluate"
        /\ f.ambient = sample.ambient /\ f.draws = sample.draws
    <3>1. PICK w : w = OneByOne!NextWidth(sample)
      OBVIOUS
    <3>2. f = [e EXCEPT !.call = "evaluate", !.width = w]
      BY <1>4, <2>3, <3>1 DEF OneByOne!Evaluating
    <3> QED BY ONLY <1>1, <2>2, <3>2 DEF SampleState
  <2>5. sample' = [f EXCEPT !.session = [ambient |-> f.ambient], !.ambient = -1]
    BY <1>8, <2>3 DEF OneByOne!EvaluateHere, OneByOne!Opened, OneByOne!Foreign
  <2>6. /\ sample'.config = f.config /\ sample'.call = f.call
        /\ sample'.draws = f.draws
        /\ sample'.session = [ambient |-> f.ambient] /\ sample'.ambient = -1
    BY <1>1, <1>4, <2>2, <2>3, <2>5 DEF OneByOne!Evaluating, SampleState
  <2>7. sample.ambient = sample.draws
    BY <1>1, <2>1 DEF Ambient
  <2>8. sample'.session.ambient = sample'.draws
    BY <2>4, <2>6, <2>7
  <2> QED BY <1>1, <2>1, <2>4, <2>6, <2>8 DEF AmbientInv, Ambient
<1>9. CASE OneByOne!Commit \/ OneByOne!EvaluationFails
  <2>1. PICK s : s = OneByOne!SessionClosed(sample)
    OBVIOUS
  <2>2. /\ s \in SampleState /\ s.config = sample.config /\ s.draws = sample.draws
        /\ s.session = [none |-> TRUE] /\ s.ambient = sample.draws
    BY <1>1, <2>1, SessionClosedIs DEF Ambient
  <2>3. /\ sample'.config = s.config /\ sample'.draws = s.draws
        /\ sample'.session = s.session /\ sample'.ambient = s.ambient
    BY <1>9, <2>1, <2>2
       DEF OneByOne!Commit, OneByOne!EvaluationFails, OneByOne!Closed, SampleState
  <2> QED BY <1>1, <2>2, <2>3 DEF AmbientInv, Ambient
<1>10. CASE OneByOne!Draw
  <2>1. sample.session = [none |-> TRUE]
    BY <1>1, <1>10 DEF OneByOne!Draw, Unstaged, Ambient
  <2>2. sample.ambient = sample.draws /\ sample.ambient # -1
    BY <1>1, <1>2, <2>1 DEF Ambient
  <2>3. /\ sample'.config = sample.config /\ sample'.session = sample.session
        /\ sample'.ambient = sample.ambient + 1 /\ sample'.draws = sample.draws + 1
    BY <1>1, <1>10, <2>2 DEF OneByOne!Draw, OneByOne!Foreign, SampleState
  <2> QED BY <1>1, <2>1, <2>2, <2>3 DEF AmbientInv, Ambient
<1> QED
  BY <1>3, <1>6, <1>7, <1>8, <1>9, <1>10 DEF OneByOne!SampleNext

(* state/sampler.py:14 and :69, inprocess/rng.py:13 "preserving the        *)
(* consumer's CPU RNG states": when no batch is made on a staging thread   *)
(* while the consumer goes on (a loader with num_workers=0 that stages to  *)
(* pinned memory), the consumer has what the sampler yields and its own    *)
(* random state is as it left it between two calls.                        *)
THEOREM SamplerAlwaysContinues ==
  Unstaged => (RuntimesSpec => []SamplerContinues)
<1> SUFFICES ASSUME Unstaged PROVE RuntimesSpec => []SamplerContinues
  OBVIOUS
<1>1. RuntimesInit => SampleInv /\ AmbientInv
  <2> SUFFICES ASSUME RuntimesInit PROVE SampleInv /\ AmbientInv
    OBVIOUS
  <2> QED BY SampleInitGood DEF SampleInv, SampleGood, AmbientInv, Ambient
<1>2. SampleInv /\ AmbientInv /\ [RuntimesNext]_runtimeVars => SampleInv' /\ AmbientInv'
  <2> SUFFICES ASSUME SampleInv, AmbientInv, [RuntimesNext]_runtimeVars
               PROVE  SampleInv' /\ AmbientInv'
    OBVIOUS
  <2>1. CASE sample' = sample
    BY <2>1, SampleInvStep DEF AmbientInv, Ambient
  <2>2. CASE sample' # sample
    <3>1. sample # [none |-> TRUE] /\ OneByOne!SampleNext
      BY <2>2 DEF RuntimesNext, runtimeVars, None
    <3>2. SampleGood(sample)
      BY <3>1 DEF SampleInv
    <3> QED BY <3>1, <3>2, AmbientStep, SampleInvStep
  <2> QED BY <2>1, <2>2
<1>3. SampleInv /\ AmbientInv => SamplerContinues
  BY SampleInvContinues
     DEF SamplerContinues, AmbientInv, Ambient, OneByOne!AmbientKept, OneByOne!None, None
<1> QED BY <1>1, <1>2, <1>3, PTL DEF RuntimesSpec

-----------------------------------------------------------------------------
(* Whole batches.                                                          *)

BufferSet ==
    [owner : {"none", "view", "consumer", "result", "task"}, value : Int]

MadeTask == [batch : Structured!Made, old : BOOLEAN]

MadeRun == [task : MadeTask, slot : Nat]

MadeResult == [batch : Structured!Made, slot : Nat, ok : BOOLEAN]

PipeTasks ==
    [queue : Seq(MadeTask), running : SUBSET MadeRun, results : SUBSET MadeResult]

PipeSaved == Absent \cup [cursor : Nat]

PipeState ==
    [config : PipeConfigs, probe : {"none", "value", "error"}, slot : Nat,
     buffers : Seq(BufferSet), pinning : BOOLEAN, tasks : PipeTasks,
     futures : SUBSET Structured!Made, next : Nat, position : Nat,
     live : BOOLEAN, complete : BOOLEAN, call : {"idle", "iterate", "next"},
     held : Nat, has : Nat, onHost : BOOLEAN, reads : [Structured!Made -> 0..1],
     got : Nat, resume : Nat, saved : PipeSaved, spent : Int]

SlotTypes(bufs, held, has, slot, results, running) ==
    /\ bufs \in Seq(BufferSet) /\ held \in Nat /\ has \in Nat /\ slot \in Nat
    /\ results \in SUBSET MadeResult /\ running \in SUBSET MadeRun

(* A buffer has one user: the consumer, the probe, a result or a task.     *)
SlotsGood(bufs, held, has, slot, results, running) ==
    /\ held # 0 => held <= Len(bufs) /\ bufs[held] = Structured!Buffer("consumer", has)
    /\ slot # 0 => slot <= Len(bufs) /\ bufs[slot].owner = "result"
    /\ \A r \in results :
          r.slot # 0 => /\ r.slot <= Len(bufs) /\ r.slot # slot
                        /\ bufs[r.slot] = Structured!Buffer("result", r.batch)
    /\ \A r, q \in results : r.slot = q.slot /\ r.slot # 0 => r = q
    /\ \A r \in running :
          r.slot # 0 => r.slot <= Len(bufs) /\ bufs[r.slot].owner = "task"
    /\ \A r, q \in running : r.slot = q.slot /\ r.slot # 0 => r = q

(* The batches of this pass that are still to be read.                     *)
ReadsGood(queue, reads, next) ==
    /\ \A b \in Structured!Made : b >= next => reads[b] = 0
    /\ \A i \in 1..Len(queue) :
          ~queue[i].old => queue[i].batch < next /\ reads[queue[i].batch] = 0
    /\ \A i, j \in 1..Len(queue) :
          ~queue[i].old /\ ~queue[j].old /\ queue[i].batch = queue[j].batch => i = j

PassGood(p) ==
    /\ p.live => p.got = p.position
    /\ p.complete => p.position = PipeBatches /\ p.call = "idle"
    /\ p.call # "idle" => p.live

PipeGood(p) ==
    /\ p \in PipeState
    /\ SlotsGood(p.buffers, p.held, p.has, p.slot, p.tasks.results, p.tasks.running)
    /\ ReadsGood(p.tasks.queue, p.reads, p.next)
    /\ PassGood(p)

PipeInv == pipe # [none |-> TRUE] => PipeGood(pipe)

LEMMA PipeConstants ==
  /\ PipeBatches \in Nat /\ Prefetch \in Nat
  /\ \A config \in PipeConfigs : config.pinned \in BOOLEAN /\ config.probeFails \in BOOLEAN
  BY RuntimesAssumption DEF Structured!PipeAssumption

LEMMA PlacedIs ==
  ASSUME NEW bufs \in Seq(BufferSet), NEW n \in Nat, n <= Len(bufs) + 1,
         NEW v \in BufferSet
  PROVE  /\ Structured!Placed(bufs, n, v) \in Seq(BufferSet)
         /\ Len(bufs) <= Len(Structured!Placed(bufs, n, v))
         /\ n # 0 => /\ n <= Len(Structured!Placed(bufs, n, v))
                     /\ Structured!Placed(bufs, n, v)[n] = v
         /\ \A i \in 1..Len(bufs) : i # n => Structured!Placed(bufs, n, v)[i] = bufs[i]
<1>1. CASE n = 0
  BY <1>1 DEF Structured!Placed, Structured!Host
<1>2. CASE n > Len(bufs)
  <2>1. Structured!Placed(bufs, n, v) = Append(bufs, v) /\ n = Len(bufs) + 1
    BY <1>2 DEF Structured!Placed, Structured!Host
  <2> QED BY <2>1
<1>3. CASE n # 0 /\ n <= Len(bufs)
  <2>1. Structured!Placed(bufs, n, v) = [bufs EXCEPT ![n] = v]
    BY <1>3 DEF Structured!Placed, Structured!Host
  <2> QED BY <1>3, <2>1
<1> QED BY <1>1, <1>2, <1>3

LEMMA ReleasedIs ==
  ASSUME NEW bufs \in Seq(BufferSet), NEW slots, NEW made,
         made = Structured!Released(bufs, slots)
  PROVE  /\ made \in Seq(BufferSet) /\ Len(made) = Len(bufs)
         /\ \A i \in 1..Len(bufs) : i \notin slots => made[i] = bufs[i]
<1>1. made = [i \in 1..Len(bufs) |->
                IF i \in slots THEN Structured!Buffer("none", bufs[i].value) ELSE bufs[i]]
  BY DEF Structured!Released
<1>2. \A i \in 1..Len(bufs) : made[i] \in BufferSet
  <2> SUFFICES ASSUME NEW i \in 1..Len(bufs) PROVE made[i] \in BufferSet
    OBVIOUS
  <2>1. bufs[i] \in BufferSet
    OBVIOUS
  <2>2. [owner |-> "none", value |-> bufs[i].value] \in BufferSet
    BY <2>1 DEF BufferSet
  <2> QED BY <1>1, <2>1, <2>2 DEF Structured!Buffer
<1>3. made \in Seq(BufferSet) /\ Len(made) = Len(bufs)
  BY <1>1, <1>2
<1> QED BY <1>1, <1>3

LEMMA Least ==
  ASSUME NEW T \in SUBSET Nat, T # {}
  PROVE  \E m \in T : \A k \in T : m <= k
<1>1. PICK R : R = OpToRel(<, Nat)
  OBVIOUS
<1>2. IsWellFoundedOn(R, Nat)
  BY <1>1, NatLessThanWellFounded, Zenon
<1>3. PICK m \in T : \A k \in T : ~(<<k, m>> \in R)
  BY <1>2, WFMin, Zenon
<1>4. \A k \in T : ~(k < m)
  BY <1>1, <1>3 DEF OpToRel
<1> QED BY <1>4

(* The buffer that a task takes is no one's.                               *)
LEMMA AcquiredIs ==
  ASSUME NEW bufs \in Seq(BufferSet), NEW n, n = Structured!Acquired(bufs)
  PROVE  /\ n \in Nat /\ n # 0 /\ n <= Len(bufs) + 1
         /\ n <= Len(bufs) => bufs[n].owner \in {"none", "view"}
<1>1. PICK free : free = Structured!Acquirable(bufs)
  OBVIOUS
<1>2. free \subseteq 1..Len(bufs)
      /\ \A i \in free : bufs[i].owner \in {"none", "view"}
  BY <1>1 DEF Structured!Acquirable, Structured!Free
<1>3. CASE free = {}
  BY <1>1, <1>3 DEF Structured!Acquired
<1>4. CASE free # {}
  <2>1. \E i \in free : \A j \in free : i <= j
    BY <1>2, <1>4, Least
  <2>2. n = CHOOSE i \in free : \A j \in free : i <= j
    BY <1>1, <1>4 DEF Structured!Acquired
  <2>3. n \in free
    BY <2>1, <2>2
  <2> QED BY <1>2, <2>3
<1> QED BY <1>3, <1>4

Placeable(bufs, n, v) ==
    bufs \in Seq(BufferSet) /\ n \in Nat /\ n <= Len(bufs) + 1 /\ v \in BufferSet

Placement(bufs, n, v, made) ==
    /\ made \in Seq(BufferSet) /\ Len(bufs) <= Len(made)
    /\ (n # 0 => n <= Len(made) /\ made[n] = v)
    /\ \A i \in 1..Len(bufs) : i # n => made[i] = bufs[i]

LEMMA PlacedAs ==
  ASSUME NEW bufs, NEW n, NEW v, Placeable(bufs, n, v), NEW made,
         made = Structured!Placed(bufs, n, v)
  PROVE  Placement(bufs, n, v, made)
<1>1. bufs \in Seq(BufferSet) /\ n \in Nat /\ n <= Len(bufs) + 1 /\ v \in BufferSet
  BY DEF Placeable
<1>2. PICK k \in Nat : k = n
  BY <1>1
<1>3. PICK b \in Seq(BufferSet) : b = bufs
  BY <1>1
<1>4. PICK w \in BufferSet : w = v
  BY <1>1
<1>5. k <= Len(b) + 1
  BY <1>1, <1>2, <1>3
<1>6. /\ Structured!Placed(b, k, w) \in Seq(BufferSet)
      /\ Len(b) <= Len(Structured!Placed(b, k, w))
      /\ k # 0 => /\ k <= Len(Structured!Placed(b, k, w))
                  /\ Structured!Placed(b, k, w)[k] = w
      /\ \A i \in 1..Len(b) : i # k => Structured!Placed(b, k, w)[i] = b[i]
  <2>1. k \in Nat /\ b \in Seq(BufferSet) /\ w \in BufferSet
    OBVIOUS
  <2> QED BY ONLY <1>5, <2>1, PlacedIs
<1> QED BY <1>2, <1>3, <1>4, <1>6 DEF Placement

LEMMA SlotsStart ==
  ASSUME NEW bufs, NEW held, NEW has, NEW slot, NEW results, NEW running,
         SlotTypes(bufs, held, has, slot, results, running),
         SlotsGood(bufs, held, has, slot, results, running),
         NEW run, run \in MadeRun,
         run.slot # 0 => run.slot = Structured!Acquired(bufs),
         NEW made,
         made = Structured!Placed(bufs, run.slot, Structured!Buffer("task", -1))
  PROVE  /\ SlotTypes(made, held, has, slot, results, running \cup {run})
         /\ SlotsGood(made, held, has, slot, results, running \cup {run})
<1>0. /\ bufs \in Seq(BufferSet) /\ held \in Nat /\ has \in Nat /\ slot \in Nat
      /\ results \in SUBSET MadeResult /\ running \in SUBSET MadeRun
  BY DEF SlotTypes
<1> USE <1>0
<1>1. Structured!Buffer("task", -1) \in BufferSet
      /\ Structured!Buffer("task", -1).owner = "task"
  BY DEF Structured!Buffer, BufferSet
<1>2. run.slot \in Nat /\ run.slot <= Len(bufs) + 1
      /\ (run.slot # 0 /\ run.slot <= Len(bufs) => bufs[run.slot].owner \in {"none", "view"})
  BY AcquiredIs DEF MadeRun
<1>3. /\ made \in Seq(BufferSet) /\ Len(bufs) <= Len(made)
      /\ (run.slot # 0 => /\ run.slot <= Len(made)
                          /\ made[run.slot] = Structured!Buffer("task", -1))
      /\ \A i \in 1..Len(bufs) : i # run.slot => made[i] = bufs[i]
  <2>1. Placeable(bufs, run.slot, Structured!Buffer("task", -1))
    BY <1>1, <1>2 DEF Placeable
  <2>2. Placement(bufs, run.slot, Structured!Buffer("task", -1), made)
    BY <2>1, PlacedAs
  <2> QED BY <2>2 DEF Placement
<1>4. ASSUME NEW i \in Nat, i # 0, i <= Len(bufs),
             bufs[i].owner \in {"consumer", "result", "task"}
      PROVE  i # run.slot /\ i <= Len(made) /\ made[i] = bufs[i]
  BY <1>2, <1>3, <1>4
<1>5. Structured!Buffer("consumer", has).owner = "consumer"
      /\ \A b : Structured!Buffer("result", b).owner = "result"
  BY DEF Structured!Buffer
<1>6. held # 0 => held <= Len(made) /\ made[held] = Structured!Buffer("consumer", has)
  BY <1>4, <1>5 DEF SlotsGood
<1>7. slot # 0 => slot <= Len(made) /\ made[slot].owner = "result"
  BY <1>4 DEF SlotsGood
<1>8. \A r \in results :
          r.slot # 0 => /\ r.slot <= Len(made) /\ r.slot # slot
                        /\ made[r.slot] = Structured!Buffer("result", r.batch)
  BY <1>4, <1>5 DEF SlotsGood, MadeResult
<1>9. \A r \in running : r.slot # 0 => /\ r.slot <= Len(made) /\ r.slot # run.slot
                                       /\ made[r.slot].owner = "task"
  BY <1>4 DEF SlotsGood, MadeRun
<1>10. SlotTypes(made, held, has, slot, results, running \cup {run})
  BY <1>3 DEF SlotTypes
<1> QED BY <1>1, <1>3, <1>6, <1>7, <1>8, <1>9, <1>10 DEF SlotsGood

(* The task's buffer goes to its result, or to no one.                     *)
LEMMA SlotsEnd ==
  ASSUME NEW bufs, NEW held, NEW has, NEW slot, NEW results, NEW running,
         SlotTypes(bufs, held, has, slot, results, running),
         SlotsGood(bufs, held, has, slot, results, running),
         NEW run, run \in running,
         NEW made, made \in Seq(BufferSet), Len(bufs) <= Len(made),
         \A i \in 1..Len(bufs) : i # run.slot => made[i] = bufs[i],
         NEW more, more \in SUBSET MadeResult,
         \A r, q \in more : r = q,
         \A r \in more : r.slot # 0 =>
            /\ r.slot = run.slot /\ made[r.slot] = Structured!Buffer("result", r.batch)
  PROVE  /\ SlotTypes(made, held, has, slot, results \cup more, running \ {run})
         /\ SlotsGood(made, held, has, slot, results \cup more, running \ {run})
<1>0. /\ bufs \in Seq(BufferSet) /\ held \in Nat /\ has \in Nat /\ slot \in Nat
      /\ results \in SUBSET MadeResult /\ running \in SUBSET MadeRun
  BY DEF SlotTypes
<1> USE <1>0
<1>1. run.slot \in Nat
      /\ (run.slot # 0 => run.slot <= Len(bufs) /\ bufs[run.slot].owner = "task")
  BY DEF SlotsGood, MadeRun
<1>2. ASSUME NEW i \in Nat, i # 0, i <= Len(bufs), i # run.slot
      PROVE  i <= Len(made) /\ made[i] = bufs[i]
  BY <1>2
<1>3. Structured!Buffer("consumer", has).owner = "consumer"
      /\ \A b : Structured!Buffer("result", b).owner = "result"
  BY DEF Structured!Buffer
<1>4. held # 0 => held <= Len(made) /\ made[held] = Structured!Buffer("consumer", has)
  <2>1. held # 0 => held <= Len(bufs) /\ bufs[held] = Structured!Buffer("consumer", has)
    BY DEF SlotsGood
  <2>2. held # 0 => held # run.slot
    BY <1>1, <1>3, <2>1
  <2> QED BY <1>2, <2>1, <2>2
<1>5. slot # 0 => /\ slot <= Len(made) /\ made[slot].owner = "result"
                  /\ slot # run.slot
  <2>1. slot # 0 => slot <= Len(bufs) /\ bufs[slot].owner = "result"
    BY DEF SlotsGood
  <2>2. slot # 0 => slot # run.slot
    BY <1>1, <2>1
  <2> QED BY <1>2, <2>1, <2>2
<1>6. \A r \in results :
          r.slot # 0 => /\ r.slot <= Len(made) /\ r.slot # slot /\ r.slot # run.slot
                        /\ made[r.slot] = Structured!Buffer("result", r.batch)
  <2> SUFFICES ASSUME NEW r \in results, r.slot # 0
               PROVE  /\ r.slot <= Len(made) /\ r.slot # slot /\ r.slot # run.slot
                      /\ made[r.slot] = Structured!Buffer("result", r.batch)
    OBVIOUS
  <2>1. /\ r.slot \in Nat /\ r.slot <= Len(bufs) /\ r.slot # slot
        /\ bufs[r.slot] = Structured!Buffer("result", r.batch)
    BY DEF SlotsGood, MadeResult
  <2>2. r.slot # run.slot
    BY <1>1, <1>3, <2>1
  <2> QED BY <1>2, <2>1, <2>2
<1>7. \A r \in more :
          r.slot # 0 => /\ r.slot <= Len(made) /\ r.slot # slot
                        /\ made[r.slot] = Structured!Buffer("result", r.batch)
  BY <1>1, <1>5
<1>8. \A r, q \in results \cup more : r.slot = q.slot /\ r.slot # 0 => r = q
  BY <1>6 DEF SlotsGood
<1>9. \A r \in running \ {run} : r.slot # 0 => r.slot <= Len(made) /\ made[r.slot].owner = "task"
  <2> SUFFICES ASSUME NEW r \in running \ {run}, r.slot # 0
               PROVE  r.slot <= Len(made) /\ made[r.slot].owner = "task"
    OBVIOUS
  <2>1. r.slot \in Nat /\ r.slot <= Len(bufs) /\ bufs[r.slot].owner = "task"
        /\ r.slot # run.slot
    BY DEF SlotsGood, MadeRun
  <2> QED BY <1>2, <2>1
<1>10. SlotTypes(made, held, has, slot, results \cup more, running \ {run})
  BY DEF SlotTypes
<1>11. \A r, q \in running \ {run} : r.slot = q.slot /\ r.slot # 0 => r = q
  BY DEF SlotsGood
<1>12. SlotsGood(made, held, has, slot, results \cup more, running \ {run})
  BY <1>4, <1>5, <1>6, <1>7, <1>8, <1>9, <1>11 DEF SlotsGood
<1> QED BY <1>10, <1>12

(* What is delivered is in buffer n; left and rest keep theirs.            *)
Deliverable(bufs, slot, results, n, owner, at, left, rest) ==
    /\ owner \in {"none", "view"} /\ at \in Nat /\ n \in Nat
    /\ n # 0 => n <= Len(bufs) /\ bufs[n].owner = "result"
    /\ left \in {0, slot} /\ (left # 0 => left # n)
    /\ rest \in SUBSET results /\ \A r \in rest : r.slot # 0 => r.slot # n

(* The consumer lets go of the batch it had, and has another.              *)
LEMMA SlotsDeliver ==
  ASSUME NEW bufs, NEW held, NEW has, NEW slot, NEW results, NEW running,
         SlotTypes(bufs, held, has, slot, results, running),
         SlotsGood(bufs, held, has, slot, results, running),
         NEW n, NEW owner, NEW at, NEW left, NEW rest,
         Deliverable(bufs, slot, results, n, owner, at, left, rest),
         NEW handed,
         handed = IF held = 0 THEN bufs ELSE [bufs EXCEPT ![held].owner = owner],
         NEW made,
         made = Structured!Placed(handed, n, Structured!Buffer("consumer", at))
  PROVE  /\ SlotTypes(made, n, at, left, rest, running)
         /\ SlotsGood(made, n, at, left, rest, running)
<1>0. /\ bufs \in Seq(BufferSet) /\ held \in Nat /\ has \in Nat /\ slot \in Nat
      /\ results \in SUBSET MadeResult /\ running \in SUBSET MadeRun
  BY DEF SlotTypes
<1>00. /\ owner \in {"none", "view"} /\ at \in Nat /\ n \in Nat
       /\ (n # 0 => n <= Len(bufs) /\ bufs[n].owner = "result")
       /\ left \in {0, slot} /\ (left # 0 => left # n)
       /\ rest \in SUBSET results /\ \A r \in rest : r.slot # 0 => r.slot # n
  BY DEF Deliverable
<1> USE <1>0, <1>00
<1>1. PICK v : v = Structured!Buffer("consumer", at)
  OBVIOUS
<1>2. v \in BufferSet /\ v.owner = "consumer"
  BY <1>1 DEF Structured!Buffer, BufferSet
<1>3. held # 0 => held <= Len(bufs) /\ bufs[held].owner = "consumer"
  BY DEF SlotsGood, Structured!Buffer
<1>4. /\ handed \in Seq(BufferSet) /\ Len(handed) = Len(bufs)
      /\ \A i \in 1..Len(bufs) : i # held => handed[i] = bufs[i]
  <2>1. CASE held = 0
    BY <2>1
  <2>2. CASE held # 0
    <3>1. held \in 1..Len(bufs) /\ bufs[held] \in BufferSet
      BY <1>3, <2>2
    <3>2. [bufs[held] EXCEPT !.owner = owner] \in BufferSet
      BY <3>1 DEF BufferSet
    <3>3. handed = [bufs EXCEPT ![held] = [bufs[held] EXCEPT !.owner = owner]]
      BY <2>2
    <3> QED BY <3>1, <3>2, <3>3
  <2> QED BY <2>1, <2>2
<1>5. n <= Len(handed) + 1 /\ made = Structured!Placed(handed, n, v)
  BY <1>1, <1>4
<1>6. /\ made \in Seq(BufferSet) /\ Len(handed) <= Len(made)
      /\ (n # 0 => n <= Len(made) /\ made[n] = v)
      /\ \A i \in 1..Len(handed) : i # n => made[i] = handed[i]
  <2>1. PICK b \in Seq(BufferSet) : b = handed
    BY <1>4
  <2>2. PICK c \in BufferSet : c = v
    BY <1>2
  <2>3. n <= Len(b) + 1 /\ made = Structured!Placed(b, n, c)
    BY <1>5, <2>1, <2>2
  <2>4. /\ Structured!Placed(b, n, c) \in Seq(BufferSet)
        /\ Len(b) <= Len(Structured!Placed(b, n, c))
        /\ n # 0 => /\ n <= Len(Structured!Placed(b, n, c))
                    /\ Structured!Placed(b, n, c)[n] = c
        /\ \A i \in 1..Len(b) : i # n => Structured!Placed(b, n, c)[i] = b[i]
    <3>1. n <= Len(b) + 1 /\ n \in Nat /\ b \in Seq(BufferSet) /\ c \in BufferSet
      BY <2>3
    <3> QED BY ONLY <3>1, PlacedIs
  <2> QED BY <2>1, <2>2, <2>3, <2>4
<1>7. ASSUME NEW i \in Nat, i # 0, i <= Len(bufs), i # n,
             bufs[i].owner \in {"task", "result"}
      PROVE  i <= Len(made) /\ made[i] = bufs[i]
  <2>1. i \in 1..Len(bufs) /\ i # held /\ Len(bufs) \in Nat
    BY <1>3, <1>7
  <2>2. handed[i] = bufs[i] /\ i \in 1..Len(handed)
    BY <1>4, <2>1
  <2>3. made[i] = bufs[i]
    BY <1>6, <1>7, <2>2
  <2> QED BY <1>4, <1>6, <2>1, <2>3
<1>8. n # 0 => n <= Len(made) /\ made[n] = Structured!Buffer("consumer", at)
  BY <1>1, <1>6
<1>9. left # 0 => left <= Len(made) /\ made[left].owner = "result"
  <2>1. left # 0 => left \in Nat /\ left <= Len(bufs) /\ bufs[left].owner = "result"
    BY DEF SlotsGood
  <2> QED BY <1>7, <2>1
<1>10. \A r \in rest :
          r.slot # 0 => /\ r.slot <= Len(made) /\ r.slot # left
                        /\ made[r.slot] = Structured!Buffer("result", r.batch)
  <2> SUFFICES ASSUME NEW r \in rest, r.slot # 0
               PROVE  /\ r.slot <= Len(made) /\ r.slot # left
                      /\ made[r.slot] = Structured!Buffer("result", r.batch)
    OBVIOUS
  <2>1. /\ r.slot \in Nat /\ r.slot <= Len(bufs) /\ r.slot # slot
        /\ bufs[r.slot] = Structured!Buffer("result", r.batch)
    BY DEF SlotsGood, MadeResult
  <2>2. bufs[r.slot].owner = "result"
    BY <2>1 DEF Structured!Buffer
  <2> QED BY <1>7, <2>1, <2>2
<1>11. \A r \in running : r.slot # 0 => r.slot <= Len(made) /\ made[r.slot].owner = "task"
  <2> SUFFICES ASSUME NEW r \in running, r.slot # 0
               PROVE  r.slot <= Len(made) /\ made[r.slot].owner = "task"
    OBVIOUS
  <2>1. r.slot \in Nat /\ r.slot <= Len(bufs) /\ bufs[r.slot].owner = "task"
    BY DEF SlotsGood, MadeRun
  <2>2. r.slot # n
    BY <2>1
  <2> QED BY <1>7, <2>1, <2>2
<1>12. \A r, q \in rest : r.slot = q.slot /\ r.slot # 0 => r = q
  BY DEF SlotsGood
<1>13. \A r, q \in running : r.slot = q.slot /\ r.slot # 0 => r = q
  BY DEF SlotsGood
<1>14. SlotTypes(made, n, at, left, rest, running)
  BY <1>6 DEF SlotTypes
<1>15. SlotsGood(made, n, at, left, rest, running)
  BY <1>8, <1>9, <1>10, <1>11, <1>12, <1>13 DEF SlotsGood
<1> QED BY <1>14, <1>15

LEMMA AllCardinality == \A S : Structured!Cardinality(S) = Cardinality(S)
  BY Zenon DEF Structured!Cardinality, Cardinality

(* The frontier moves on: further batches are queued, in order.            *)
LEMMA FilledFor ==
  ASSUME NEW p \in PipeState, NEW reads \in [Structured!Made -> 0..1],
         ReadsGood(p.tasks.queue, reads, p.next)
  PROVE  \E queue \in Seq(MadeTask), futures \in SUBSET Structured!Made, next \in Nat :
            /\ Structured!Filled(p) = [p EXCEPT !.futures = futures, !.next = next,
                                                !.tasks.queue = queue]
            /\ ReadsGood(queue, reads, next)
<1>1. /\ p.next \in Nat /\ p.futures \in SUBSET Structured!Made
      /\ p.tasks \in PipeTasks /\ p.tasks.queue \in Seq(MadeTask)
  BY DEF PipeState, PipeTasks
<1>2. PipeBatches \in Nat /\ Prefetch \in Nat /\ Structured!Made = 0..(PipeBatches - 1)
  BY PipeConstants DEF Structured!Made
<1>3. Cardinality(p.futures) \in Nat
  <2>1. IsFiniteSet(Structured!Made)
    BY <1>2, FS_Interval
  <2> QED BY <1>1, <2>1, FS_Subset, FS_CardinalityType
<1>4. PICK room \in Int : room = Prefetch - Cardinality(p.futures)
  BY <1>2, <1>3
<1>5. PICK new : new = {b \in p.next..(PipeBatches - 1) : b - p.next < room}
  OBVIOUS
<1>6. PICK last \in Int : new = p.next..last /\ last <= PipeBatches - 1
  <2>1. CASE p.next + room - 1 <= PipeBatches - 1
    <3>1. p.next + room - 1 \in Int
      BY <1>1, <1>4
    <3>2. new = p.next..(p.next + room - 1)
      BY <1>1, <1>2, <1>4, <1>5, <2>1
    <3> QED BY <2>1, <3>1, <3>2
  <2>2. CASE ~(p.next + room - 1 <= PipeBatches - 1)
    <3>1. new = p.next..(PipeBatches - 1)
      BY <1>1, <1>2, <1>4, <1>5, <2>2
    <3>2. PipeBatches - 1 \in Int /\ PipeBatches - 1 <= PipeBatches - 1
      BY <1>2
    <3> QED BY <3>1, <3>2
  <2> QED BY <2>1, <2>2
<1>7. PICK count \in Nat :
          /\ count = Cardinality(new)
          /\ count = IF p.next > last THEN 0 ELSE (last - p.next) + 1
  <2>1. Cardinality(p.next..last) = IF p.next > last THEN 0 ELSE last - p.next + 1
    BY <1>1, <1>6, FS_Interval
  <2>2. Cardinality(new) \in Nat
        /\ Cardinality(new) = IF p.next > last THEN 0 ELSE (last - p.next) + 1
    BY <1>1, <1>6, <2>1
  <2> QED BY <2>2, Zenon
<1>8. PICK more : more = [i \in 1..count |-> Structured!Task(p.next + i - 1, FALSE)]
  OBVIOUS
<1>9. ASSUME NEW i \in 1..count
      PROVE  /\ p.next + i - 1 \in Structured!Made
             /\ more[i] = [batch |-> p.next + i - 1, old |-> FALSE]
             /\ more[i] \in MadeTask
  <2>1. p.next + i - 1 \in Structured!Made
    BY <1>1, <1>2, <1>6, <1>7
  <2>2. more[i] = [batch |-> p.next + i - 1, old |-> FALSE]
    BY <1>8 DEF Structured!Task
  <2> QED BY <2>1, <2>2 DEF MadeTask
<1>10. more \in Seq(MadeTask) /\ Len(more) = count
  <2>1. \A i \in 1..count : more[i] \in MadeTask
    BY <1>9
  <2>2. more = [i \in 1..count |-> more[i]]
    BY <1>8
  <2> HIDE <1>8
  <2> QED BY <2>1, <2>2
<1>11. PICK queue : queue = p.tasks.queue \o more
  OBVIOUS
<1>12. /\ queue \in Seq(MadeTask) /\ Len(queue) = Len(p.tasks.queue) + count
       /\ Len(p.tasks.queue) \in Nat
       /\ \A i \in 1..Len(p.tasks.queue) : queue[i] = p.tasks.queue[i]
       /\ \A i \in 1..Len(queue) : i > Len(p.tasks.queue) =>
             queue[i] = more[i - Len(p.tasks.queue)]
  <2>1. PICK base \in Seq(MadeTask) : base = p.tasks.queue
    BY <1>1
  <2>2. PICK rest \in Seq(MadeTask) : rest = more /\ Len(rest) = count
    BY <1>10
  <2>3. /\ base \o rest \in Seq(MadeTask) /\ Len(base \o rest) = Len(base) + Len(rest)
        /\ Len(base) \in Nat
    OBVIOUS
  <2>4. \A i \in 1..Len(base) : (base \o rest)[i] = base[i]
    OBVIOUS
  <2>5. \A i \in 1..Len(base \o rest) : i > Len(base) =>
           (base \o rest)[i] = rest[i - Len(base)]
    OBVIOUS
  <2> QED BY <1>11, <2>1, <2>2, <2>3, <2>4, <2>5
<1>13. Structured!Filled(p)
         = [p EXCEPT !.futures = p.futures \cup new, !.next = p.next + count,
                     !.tasks.queue = queue]
  <2>1. room = Prefetch - Structured!Cardinality(p.futures)
    BY <1>4, AllCardinality
  <2>2. new = {b \in Structured!Ahead(p) : b - p.next < room}
    BY <1>5 DEF Structured!Ahead
  <2>3. Structured!Cardinality(new) = count
    BY <1>7, AllCardinality
  <2>4. Structured!Filled(p)
          = [p EXCEPT !.futures = @ \cup new, !.next = @ + Structured!Cardinality(new),
                  !.tasks.queue = @ \o [i \in 1 .. Structured!Cardinality(new) |->
                                            Structured!Task(p.next + i - 1, FALSE)]]
    BY <2>1, <2>2 DEF Structured!Filled
  <2> QED BY <1>8, <1>11, <2>3, <2>4
<1>14. p.futures \cup new \in SUBSET Structured!Made /\ p.next + count \in Nat
  BY <1>1, <1>2, <1>6, <1>7
<1>15. ReadsGood(queue, reads, p.next + count)
  <2>1. \A b \in Structured!Made : b >= p.next + count => reads[b] = 0
    BY <1>1, <1>2, <1>7 DEF ReadsGood
  <2>2. ASSUME NEW i \in 1..Len(queue), i > Len(p.tasks.queue)
        PROVE  /\ queue[i].batch = p.next + (i - Len(p.tasks.queue)) - 1
               /\ queue[i].batch \in Structured!Made
               /\ queue[i].batch >= p.next /\ queue[i].batch < p.next + count
    <3>1. PICK j \in 1..count : j = i - Len(p.tasks.queue)
      <4>1. i - Len(p.tasks.queue) \in 1..count
        BY <1>12, <2>2
      <4> QED BY <4>1
    <3>2. queue[i] = [batch |-> p.next + j - 1, old |-> FALSE]
          /\ p.next + j - 1 \in Structured!Made
      BY <1>9, <1>12, <2>2, <3>1
    <3>3. queue[i].batch = p.next + j - 1
      BY <3>2
    <3> QED BY <1>1, <3>1, <3>2, <3>3
  <2>3. ASSUME NEW i \in 1..Len(queue), ~queue[i].old
        PROVE  queue[i].batch < p.next + count /\ reads[queue[i].batch] = 0
    <3>1. CASE i <= Len(p.tasks.queue)
      <4>1. i \in 1..Len(p.tasks.queue) /\ queue[i] = p.tasks.queue[i]
        BY <1>12, <3>1
      <4>2. queue[i].batch < p.next /\ reads[queue[i].batch] = 0
        BY <2>3, <4>1 DEF ReadsGood
      <4>3. queue[i] \in MadeTask
        BY <1>12
      <4>4. queue[i].batch \in Int
        BY <1>2, <4>3 DEF MadeTask
      <4> QED BY <1>1, <1>7, <4>2, <4>4
    <3>2. CASE i > Len(p.tasks.queue)
      BY <2>2, <3>2 DEF ReadsGood
    <3> QED BY <1>12, <3>1, <3>2
  <2>4. ASSUME NEW i \in 1..Len(queue), NEW j \in 1..Len(queue),
               ~queue[i].old, ~queue[j].old, queue[i].batch = queue[j].batch
        PROVE  i = j
    <3>1. CASE i <= Len(p.tasks.queue) /\ j <= Len(p.tasks.queue)
      <4>1. /\ i \in 1..Len(p.tasks.queue) /\ queue[i] = p.tasks.queue[i]
            /\ j \in 1..Len(p.tasks.queue) /\ queue[j] = p.tasks.queue[j]
        BY <1>12, <3>1
      <4> QED BY <2>4, <4>1 DEF ReadsGood
    <3>2. CASE i > Len(p.tasks.queue) /\ j > Len(p.tasks.queue)
      <4>1. /\ queue[i].batch = p.next + (i - Len(p.tasks.queue)) - 1
            /\ queue[j].batch = p.next + (j - Len(p.tasks.queue)) - 1
        BY <2>2, <3>2
      <4>2. i \in Int /\ j \in Int /\ Len(p.tasks.queue) \in Int /\ p.next \in Int
        BY <1>1, <1>12
      <4>3. p.next + (i - Len(p.tasks.queue)) - 1 = p.next + (j - Len(p.tasks.queue)) - 1
        BY <2>4, <4>1
      <4> QED BY <4>2, <4>3
    <3>3. CASE i <= Len(p.tasks.queue) /\ j > Len(p.tasks.queue)
      <4>1. i \in 1..Len(p.tasks.queue) /\ queue[i] = p.tasks.queue[i]
        BY <1>12, <3>3
      <4>2. queue[i].batch < p.next
        BY <2>4, <4>1 DEF ReadsGood
      <4>3. queue[j].batch >= p.next /\ queue[j].batch \in Structured!Made
        BY <2>2, <3>3
      <4> QED BY <1>1, <1>2, <2>4, <4>2, <4>3
    <3>4. CASE i > Len(p.tasks.queue) /\ j <= Len(p.tasks.queue)
      <4>1. j \in 1..Len(p.tasks.queue) /\ queue[j] = p.tasks.queue[j]
        BY <1>12, <3>4
      <4>2. queue[j].batch < p.next
        BY <2>4, <4>1 DEF ReadsGood
      <4>3. queue[i].batch >= p.next /\ queue[i].batch \in Structured!Made
        BY <2>2, <3>4
      <4> QED BY <1>1, <1>2, <2>4, <4>2, <4>3
    <3> QED BY <1>12, <3>1, <3>2, <3>3, <3>4
  <2> QED BY <2>1, <2>3, <2>4 DEF ReadsGood
<1> QED BY <1>12, <1>13, <1>14, <1>15, Zenon

LEMMA PipeTypes ==
  ASSUME NEW p \in PipeState
  PROVE  /\ p.config \in PipeConfigs /\ p.probe \in {"none", "value", "error"}
         /\ p.slot \in Nat /\ p.buffers \in Seq(BufferSet) /\ p.pinning \in BOOLEAN
         /\ p.tasks \in PipeTasks /\ p.futures \in SUBSET Structured!Made
         /\ p.next \in Nat /\ p.position \in Nat
         /\ p.live \in BOOLEAN /\ p.complete \in BOOLEAN
         /\ p.call \in {"idle", "iterate", "next"} /\ p.held \in Nat /\ p.has \in Nat
         /\ p.onHost \in BOOLEAN /\ p.reads \in [Structured!Made -> 0..1]
         /\ p.got \in Nat /\ p.resume \in Nat /\ p.saved \in PipeSaved
         /\ p.spent \in Int /\ p.spent + 1 \in Int
         /\ p.tasks.queue \in Seq(MadeTask) /\ p.tasks.running \in SUBSET MadeRun
         /\ p.tasks.results \in SUBSET MadeResult
  BY DEF PipeState, PipeTasks

LEMMA PipeSlots ==
  ASSUME NEW p \in PipeState
  PROVE  SlotTypes(p.buffers, p.held, p.has, p.slot, p.tasks.results, p.tasks.running)
  BY PipeTypes DEF SlotTypes

LEMMA ClosedIs ==
  ASSUME NEW p \in PipeState, ReadsGood(p.tasks.queue, p.reads, p.next)
  PROVE  LET t == Structured!Closed(p)
         IN  /\ t \in PipeState /\ ~t.live /\ ~t.complete
             /\ t.call = p.call /\ t.resume = p.resume /\ t.saved = p.saved
             /\ t.position = p.position /\ t.config = p.config
             /\ SlotsGood(t.buffers, t.held, t.has, t.slot, t.tasks.results,
                          t.tasks.running)
             /\ ReadsGood(t.tasks.queue, t.reads, t.next)
<1>1. PICK t : t = Structured!Closed(p)
  OBVIOUS
<1>2. t = [p EXCEPT !.live = FALSE, !.complete = FALSE, !.probe = "none",
              !.slot = 0, !.buffers = <<>>, !.pinning = FALSE,
              !.tasks = [queue |-> <<>>, running |-> {}, results |-> {}],
              !.futures = {}, !.held = 0]
  BY <1>1 DEF Structured!Closed, Structured!Host, Structured!NoTasks
<1>3. /\ [queue |-> <<>>, running |-> {}, results |-> {}] \in PipeTasks
      /\ <<>> \in Seq(BufferSet) /\ {} \in SUBSET Structured!Made
  BY DEF PipeTasks
<1>4. t \in PipeState
  BY <1>2, <1>3 DEF PipeState
<1>5. /\ ~t.live /\ ~t.complete /\ t.call = p.call /\ t.resume = p.resume
      /\ t.saved = p.saved /\ t.position = p.position /\ t.config = p.config
      /\ t.tasks = [queue |-> <<>>, running |-> {}, results |-> {}]
      /\ t.held = 0 /\ t.slot = 0 /\ t.reads = p.reads /\ t.next = p.next
  BY <1>2 DEF PipeState
<1>6. t.tasks.queue = <<>> /\ t.tasks.running = {} /\ t.tasks.results = {}
  BY <1>5
<1>7. SlotsGood(t.buffers, t.held, t.has, t.slot, t.tasks.results, t.tasks.running)
  BY <1>5, <1>6 DEF SlotsGood
<1>8. ReadsGood(t.tasks.queue, t.reads, t.next)
  <2>1. Len(t.tasks.queue) = 0
    BY <1>6
  <2> QED BY <1>5, <2>1 DEF ReadsGood
<1> QED BY <1>1, <1>4, <1>5, <1>7, <1>8

(* A new epoch: what was under way is no one's any more.                   *)
LEMMA EpochBegun ==
  ASSUME NEW p \in PipeState, p.probe # "none" => p.position = 0,
         SlotsGood(p.buffers, p.held, p.has, p.slot, p.tasks.results, p.tasks.running),
         NEW reads,
         reads = [b \in Structured!Made |-> IF b = 0 /\ p.probe # "none" THEN 1 ELSE 0]
  PROVE  LET t == Structured!BeginEpoch(p)
         IN  /\ t \in PipeState
             /\ t.position = p.position /\ t.resume = p.resume /\ t.saved = p.saved
             /\ t.config = p.config /\ t.probe = p.probe
             /\ SlotsGood(t.buffers, t.held, t.has, t.slot, t.tasks.results,
                          t.tasks.running)
             /\ reads \in [Structured!Made -> 0..1]
             /\ ReadsGood(t.tasks.queue, reads, t.next)
<1>1. PICK tasks : tasks = [queue |-> [i \in DOMAIN p.tasks.queue |->
                                         [p.tasks.queue[i] EXCEPT !.old = TRUE]],
                            running |-> {[r EXCEPT !.task.old = TRUE] : r \in p.tasks.running},
                            results |-> {}]
  OBVIOUS
<1>2. PICK bufs : bufs = Structured!Released(p.buffers, Structured!Results(p))
  OBVIOUS
<1>3. PICK start : start = Structured!RetainedStop(p)
  OBVIOUS
<1>4. start \in Nat /\ start = IF p.position = 0 /\ p.probe # "none" THEN 1 ELSE p.position
  BY <1>3, PipeTypes DEF Structured!RetainedStop
<1>5. PICK q : q = [p EXCEPT !.tasks = tasks, !.buffers = bufs, !.futures = {},
                             !.next = start]
  OBVIOUS
<1>6. Structured!BeginEpoch(p) = Structured!Filled(q)
  BY <1>1, <1>2, <1>3, <1>5 DEF Structured!BeginEpoch
<1>7. /\ tasks.queue \in Seq(MadeTask)
      /\ \A i \in 1..Len(tasks.queue) : tasks.queue[i].old
  <2>1. /\ p.tasks.queue \in Seq(MadeTask)
        /\ tasks.queue = [i \in 1..Len(p.tasks.queue) |->
                            [p.tasks.queue[i] EXCEPT !.old = TRUE]]
    BY <1>1, PipeTypes
  <2>2. ASSUME NEW i \in 1..Len(p.tasks.queue)
        PROVE  tasks.queue[i] \in MadeTask /\ tasks.queue[i].old
    <3>1. p.tasks.queue[i] \in MadeTask
      BY <2>1
    <3>2. tasks.queue[i] = [p.tasks.queue[i] EXCEPT !.old = TRUE]
      BY <2>1
    <3> QED BY <3>1, <3>2 DEF MadeTask
  <2>3. Len(p.tasks.queue) \in Nat
    BY <2>1
  <2>4. tasks.queue \in Seq(MadeTask) /\ Len(tasks.queue) = Len(p.tasks.queue)
    <3>1. \A i \in 1..Len(p.tasks.queue) : tasks.queue[i] \in MadeTask
      BY <2>2
    <3>2. tasks.queue = [i \in 1..Len(p.tasks.queue) |-> tasks.queue[i]]
      BY <2>1
    <3> QED BY ONLY <2>3, <3>1, <3>2
  <2> QED BY <2>2, <2>4
<1>8. /\ tasks.running \in SUBSET MadeRun
      /\ \A r \in tasks.running : \E o \in p.tasks.running :
            o \in MadeRun /\ r = [o EXCEPT !.task.old = TRUE] /\ r.slot = o.slot
  <2>1. p.tasks.running \in SUBSET MadeRun
    BY PipeTypes
  <2>2. ASSUME NEW o \in p.tasks.running
        PROVE  [o EXCEPT !.task.old = TRUE] \in MadeRun
               /\ [o EXCEPT !.task.old = TRUE].slot = o.slot
    <3>1. o \in MadeRun /\ o.task \in MadeTask
      BY <2>1 DEF MadeRun
    <3>2. [o.task EXCEPT !.old = TRUE] \in MadeTask
      BY <3>1 DEF MadeTask
    <3>3. [o EXCEPT !.task.old = TRUE] = [o EXCEPT !.task = [o.task EXCEPT !.old = TRUE]]
      OBVIOUS
    <3> QED BY <3>1, <3>2, <3>3 DEF MadeRun
  <2>3. tasks.running = {[o EXCEPT !.task.old = TRUE] : o \in p.tasks.running}
    BY <1>1
  <2> QED BY <2>1, <2>2, <2>3
<1>9. tasks.results = {} /\ tasks \in PipeTasks
  BY <1>1, <1>7, <1>8 DEF PipeTasks
<1>10. /\ bufs \in Seq(BufferSet) /\ Len(bufs) = Len(p.buffers)
       /\ \A i \in 1..Len(p.buffers) : i \notin Structured!Results(p) => bufs[i] = p.buffers[i]
  <2>1. p.buffers \in Seq(BufferSet)
    BY PipeTypes
  <2> QED BY <1>2, <2>1, ReleasedIs
<1>11. q \in PipeState
  BY <1>4, <1>5, <1>9, <1>10 DEF PipeState
<1>12. /\ q.tasks = tasks /\ q.buffers = bufs /\ q.next = start
       /\ q.position = p.position /\ q.resume = p.resume /\ q.saved = p.saved
       /\ q.config = p.config /\ q.probe = p.probe
       /\ q.held = p.held /\ q.has = p.has /\ q.slot = p.slot
  BY <1>5 DEF PipeState
<1>13. ASSUME NEW i \in Nat, i # 0, i <= Len(p.buffers),
              \A r \in p.tasks.results : r.slot = i => FALSE
       PROVE  i <= Len(bufs) /\ bufs[i] = p.buffers[i]
  <2>1. i \in 1..Len(p.buffers) /\ i \notin Structured!Results(p)
    BY <1>13, PipeTypes DEF Structured!Results
  <2> QED BY <1>10, <2>1
<1>14. SlotsGood(q.buffers, q.held, q.has, q.slot, q.tasks.results, q.tasks.running)
  <2>1. p.held \in Nat /\ p.slot \in Nat /\ p.tasks.results \in SUBSET MadeResult
        /\ p.tasks.running \in SUBSET MadeRun
    BY PipeTypes
  <2>2. \A r \in p.tasks.results :
           r.slot # 0 => p.buffers[r.slot].owner = "result" /\ r.slot # p.slot
    <3>1. \A b : Structured!Buffer("result", b).owner = "result"
      BY DEF Structured!Buffer
    <3> QED BY <3>1 DEF SlotsGood
  <2>3. p.held # 0 =>
           p.held <= Len(bufs) /\ bufs[p.held] = Structured!Buffer("consumer", p.has)
    <3>1. p.held # 0 => /\ p.held <= Len(p.buffers)
                        /\ p.buffers[p.held] = Structured!Buffer("consumer", p.has)
                        /\ p.buffers[p.held].owner = "consumer"
      BY DEF SlotsGood, Structured!Buffer
    <3> QED BY <1>13, <2>1, <2>2, <3>1
  <2>4. p.slot # 0 => p.slot <= Len(bufs) /\ bufs[p.slot].owner = "result"
    <3>1. p.slot # 0 => p.slot <= Len(p.buffers) /\ p.buffers[p.slot].owner = "result"
      BY DEF SlotsGood
    <3> QED BY <1>13, <2>1, <2>2, <3>1
  <2>5. \A r \in tasks.running :
           r.slot # 0 => r.slot <= Len(bufs) /\ bufs[r.slot].owner = "task"
    <3> SUFFICES ASSUME NEW r \in tasks.running, r.slot # 0
                 PROVE  r.slot <= Len(bufs) /\ bufs[r.slot].owner = "task"
      OBVIOUS
    <3>1. PICK o \in p.tasks.running : o \in MadeRun /\ r.slot = o.slot
      BY <1>8
    <3>2. o.slot \in Nat /\ o.slot <= Len(p.buffers) /\ p.buffers[o.slot].owner = "task"
      BY <3>1 DEF SlotsGood, MadeRun
    <3> QED BY <1>13, <2>2, <3>1, <3>2
  <2>6. \A r, s \in tasks.running : r.slot = s.slot /\ r.slot # 0 => r = s
    <3> SUFFICES ASSUME NEW r \in tasks.running, NEW s \in tasks.running,
                        r.slot = s.slot, r.slot # 0
                 PROVE  r = s
      OBVIOUS
    <3>1. PICK o \in p.tasks.running : r = [o EXCEPT !.task.old = TRUE] /\ r.slot = o.slot
      BY <1>8
    <3>2. PICK n \in p.tasks.running : s = [n EXCEPT !.task.old = TRUE] /\ s.slot = n.slot
      BY <1>8
    <3>3. o = n
      BY <3>1, <3>2 DEF SlotsGood
    <3> QED BY <3>1, <3>2, <3>3
  <2> QED BY <1>9, <1>12, <2>3, <2>4, <2>5, <2>6 DEF SlotsGood
<1>15. reads \in [Structured!Made -> 0..1]
  OBVIOUS
<1>16. ReadsGood(q.tasks.queue, reads, q.next)
  <2>1. \A b \in Structured!Made : b >= start => reads[b] = 0
    <3>1. \A b \in Structured!Made : b \in Int
      BY PipeConstants DEF Structured!Made
    <3> QED BY <1>4, <3>1
  <2> QED BY <1>7, <1>12, <2>1 DEF ReadsGood
<1>19. PICK queue \in Seq(MadeTask), futures \in SUBSET Structured!Made, next \in Nat :
          /\ Structured!Filled(q) = [q EXCEPT !.futures = futures, !.next = next,
                                             !.tasks.queue = queue]
          /\ ReadsGood(queue, reads, next)
  BY <1>11, <1>15, <1>16, FilledFor
<1>20. PICK t : t = Structured!BeginEpoch(p)
  OBVIOUS
<1>21. t = [q EXCEPT !.futures = futures, !.next = next,
                     !.tasks = [q.tasks EXCEPT !.queue = queue]]
  BY <1>6, <1>19, <1>20
<1>22. q.tasks \in PipeTasks
       /\ [q.tasks EXCEPT !.queue = queue] \in PipeTasks
       /\ [q.tasks EXCEPT !.queue = queue].queue = queue
       /\ [q.tasks EXCEPT !.queue = queue].running = q.tasks.running
       /\ [q.tasks EXCEPT !.queue = queue].results = q.tasks.results
  BY <1>9, <1>12 DEF PipeTasks
<1>23. t \in PipeState
  BY <1>11, <1>21, <1>22 DEF PipeState
<1>24. /\ t.tasks = [q.tasks EXCEPT !.queue = queue] /\ t.next = next
       /\ t.buffers = q.buffers /\ t.held = q.held /\ t.has = q.has /\ t.slot = q.slot
       /\ t.position = q.position /\ t.resume = q.resume /\ t.saved = q.saved
       /\ t.config = q.config /\ t.probe = q.probe
  BY <1>11, <1>21 DEF PipeState
<1> QED BY <1>12, <1>14, <1>15, <1>19, <1>20, <1>22, <1>23, <1>24

(* A probe that is not delivered gives its buffer up.                      *)
LEMMA SlotsDropped ==
  ASSUME NEW bufs, NEW held, NEW has, NEW slot, NEW results, NEW running,
         SlotTypes(bufs, held, has, slot, results, running),
         SlotsGood(bufs, held, has, slot, results, running),
         NEW made, made \in Seq(BufferSet), Len(made) = Len(bufs),
         \A i \in 1..Len(bufs) : i \notin {slot} => made[i] = bufs[i]
  PROVE  /\ SlotTypes(made, held, has, 0, results, running)
         /\ SlotsGood(made, held, has, 0, results, running)
<1>0. /\ bufs \in Seq(BufferSet) /\ held \in Nat /\ has \in Nat /\ slot \in Nat
      /\ results \in SUBSET MadeResult /\ running \in SUBSET MadeRun
  BY DEF SlotTypes
<1> USE <1>0
<1>1. slot # 0 => slot <= Len(bufs) /\ bufs[slot].owner = "result"
  BY DEF SlotsGood
<1>2. ASSUME NEW i \in Nat, i # 0, i <= Len(bufs), i # slot
      PROVE  made[i] = bufs[i]
  BY <1>2
<1>3. held # 0 => held <= Len(made) /\ made[held] = Structured!Buffer("consumer", has)
  <2>1. held # 0 => held <= Len(bufs) /\ bufs[held] = Structured!Buffer("consumer", has)
    BY DEF SlotsGood
  <2>2. held # 0 => held # slot
    BY <1>1, <2>1 DEF Structured!Buffer
  <2> QED BY <1>2, <2>1, <2>2
<1>4. \A r \in results :
          r.slot # 0 => /\ r.slot <= Len(made)
                        /\ made[r.slot] = Structured!Buffer("result", r.batch)
  <2> SUFFICES ASSUME NEW r \in results, r.slot # 0
               PROVE  /\ r.slot <= Len(made)
                      /\ made[r.slot] = Structured!Buffer("result", r.batch)
    OBVIOUS
  <2>1. /\ r.slot \in Nat /\ r.slot <= Len(bufs) /\ r.slot # slot
        /\ bufs[r.slot] = Structured!Buffer("result", r.batch)
    BY DEF SlotsGood, MadeResult
  <2> QED BY <1>2, <2>1
<1>5. \A r \in running : r.slot # 0 => r.slot <= Len(made) /\ made[r.slot].owner = "task"
  <2> SUFFICES ASSUME NEW r \in running, r.slot # 0
               PROVE  r.slot <= Len(made) /\ made[r.slot].owner = "task"
    OBVIOUS
  <2>1. r.slot \in Nat /\ r.slot <= Len(bufs) /\ bufs[r.slot].owner = "task"
    BY DEF SlotsGood, MadeRun
  <2>2. r.slot # slot
    BY <1>1, <2>1
  <2> QED BY <1>2, <2>1, <2>2
<1>6. SlotTypes(made, held, has, 0, results, running)
  BY DEF SlotTypes
<1> QED BY <1>3, <1>4, <1>5, <1>6 DEF SlotsGood

LEMMA PipeIterate ==
  ASSUME PipeGood(pipe), Structured!Iterate
  PROVE  PipeGood(pipe')
<1>1. /\ pipe \in PipeState /\ PassGood(pipe)
      /\ SlotsGood(pipe.buffers, pipe.held, pipe.has, pipe.slot, pipe.tasks.results,
                   pipe.tasks.running)
      /\ ReadsGood(pipe.tasks.queue, pipe.reads, pipe.next)
  BY DEF PipeGood
<1>2. PICK p : p = IF pipe.live /\ ~pipe.complete THEN Structured!Closed(pipe) ELSE pipe
  OBVIOUS
<1>3. /\ p \in PipeState
      /\ SlotsGood(p.buffers, p.held, p.has, p.slot, p.tasks.results, p.tasks.running)
  BY <1>1, <1>2, ClosedIs
<1>4. PICK n \in Nat : n = p.resume
  BY <1>3, PipeTypes
<1>5. PICK a : a = [p EXCEPT !.position = n]
  OBVIOUS
<1>6. /\ a \in PipeState /\ a.position = n /\ a.buffers = p.buffers /\ a.held = p.held
      /\ a.has = p.has /\ a.slot = p.slot /\ a.tasks = p.tasks /\ a.resume = p.resume
  BY <1>3, <1>5 DEF PipeState
<1>7. PICK q : q = Structured!DropProbe(a)
  OBVIOUS
<1>8. /\ q \in PipeState /\ q.position = n
      /\ (q.probe # "none" => q.position = 0)
      /\ SlotsGood(q.buffers, q.held, q.has, q.slot, q.tasks.results, q.tasks.running)
  <2>1. CASE n = 0
    <3>1. q = a
      BY <1>6, <1>7, <2>1 DEF Structured!DropProbe
    <3> QED BY <1>3, <1>6, <2>1, <3>1
  <2>2. CASE n # 0
    <3>1. PICK bufs : bufs = Structured!Released(a.buffers, {a.slot})
      OBVIOUS
    <3>2. q = [a EXCEPT !.probe = "none", !.buffers = bufs, !.slot = 0]
      BY <1>6, <1>7, <2>2, <3>1 DEF Structured!DropProbe, Structured!Host
    <3>3. /\ bufs \in Seq(BufferSet) /\ Len(bufs) = Len(a.buffers)
          /\ \A i \in 1..Len(a.buffers) : i \notin {a.slot} => bufs[i] = a.buffers[i]
      <4>1. PICK b \in Seq(BufferSet) : b = a.buffers
        BY <1>6, PipeTypes
      <4>2. bufs = Structured!Released(b, {a.slot})
        BY <3>1, <4>1
      <4> QED BY <4>1, <4>2, ReleasedIs
    <3>4. q \in PipeState
      BY <1>6, <3>2, <3>3 DEF PipeState
    <3>5. /\ q.position = n /\ q.probe = "none" /\ q.buffers = bufs /\ q.slot = 0
          /\ q.held = a.held /\ q.has = a.has /\ q.tasks = a.tasks
      BY <1>6, <3>2 DEF PipeState
    <3>6. SlotsGood(bufs, a.held, a.has, 0, a.tasks.results, a.tasks.running)
      BY <1>3, <1>6, <3>3, PipeSlots, SlotsDropped
    <3> QED BY <3>4, <3>5, <3>6
  <2> QED BY <2>1, <2>2
<1>9. PICK reads : reads = [b \in Structured!Made |-> IF b = 0 /\ q.probe # "none" THEN 1 ELSE 0]
  OBVIOUS
<1>10. PICK t : t = Structured!BeginEpoch(q)
  OBVIOUS
<1>11. /\ t \in PipeState /\ t.position = q.position
       /\ t.saved = q.saved /\ t.config = q.config
       /\ SlotsGood(t.buffers, t.held, t.has, t.slot, t.tasks.results, t.tasks.running)
       /\ reads \in [Structured!Made -> 0..1]
       /\ ReadsGood(t.tasks.queue, reads, t.next)
  BY <1>8, <1>9, <1>10, EpochBegun
<1>12. pipe' = [t EXCEPT !.live = TRUE, !.complete = FALSE, !.resume = 0,
                         !.got = n, !.spent = @ + 1, !.call = "iterate",
                         !.reads = reads]
  BY <1>2, <1>4, <1>5, <1>7, <1>9, <1>10 DEF Structured!Iterate
<1>13. t.spent + 1 \in Int
  BY <1>11, PipeTypes
<1>14. pipe' \in PipeState
  BY <1>11, <1>12, <1>13 DEF PipeState
<1>15. /\ pipe'.live /\ ~pipe'.complete /\ pipe'.got = n /\ pipe'.position = t.position
       /\ pipe'.reads = reads /\ pipe'.buffers = t.buffers /\ pipe'.held = t.held
       /\ pipe'.has = t.has /\ pipe'.slot = t.slot /\ pipe'.tasks = t.tasks
       /\ pipe'.next = t.next
  BY <1>11, <1>12 DEF PipeState
<1>16. PassGood(pipe')
  BY <1>8, <1>11, <1>15 DEF PassGood
<1> QED BY <1>11, <1>14, <1>15, <1>16 DEF PipeGood

LEMMA ReadsStart ==
  ASSUME NEW queue \in Seq(MadeTask), queue # <<>>, NEW next \in Nat,
         NEW before \in [Structured!Made -> 0..1], ReadsGood(queue, before, next),
         NEW task \in MadeTask, task = Head(queue), NEW rest, rest = Tail(queue),
         NEW after,
         after = IF task.old THEN before ELSE [before EXCEPT ![task.batch] = @ + 1]
  PROVE  /\ after \in [Structured!Made -> 0..1]
         /\ ReadsGood(rest, after, next)
<1>1. /\ rest \in Seq(MadeTask) /\ Len(queue) \in Nat /\ Len(queue) > 0
      /\ Len(rest) = Len(queue) - 1 /\ task = queue[1]
      /\ \A i \in 1..Len(rest) : rest[i] = queue[i + 1]
  OBVIOUS
<1>2. task.batch \in Structured!Made /\ 1 \in 1..Len(queue)
  BY <1>1 DEF MadeTask
<1>3. ASSUME NEW i \in 1..Len(rest), ~rest[i].old
      PROVE  /\ i + 1 \in 1..Len(queue) /\ i + 1 # 1 /\ rest[i] = queue[i + 1]
             /\ rest[i].batch \in Structured!Made /\ rest[i].batch < next
             /\ before[rest[i].batch] = 0
             /\ (~task.old => rest[i].batch # task.batch)
  <2>1. i + 1 \in 1..Len(queue) /\ i + 1 # 1 /\ rest[i] = queue[i + 1]
    BY <1>1
  <2>2. queue[i + 1] \in MadeTask
    BY <2>1
  <2>3. queue[i + 1].batch < next /\ before[queue[i + 1].batch] = 0
    BY <1>3, <2>1 DEF ReadsGood
  <2>4. ~task.old => queue[i + 1].batch # queue[1].batch
    BY <1>1, <1>2, <1>3, <2>1 DEF ReadsGood
  <2> QED BY <1>1, <2>1, <2>2, <2>3, <2>4 DEF MadeTask
<1>4. ASSUME NEW i \in 1..Len(rest), NEW j \in 1..Len(rest), ~rest[i].old, ~rest[j].old,
             rest[i].batch = rest[j].batch
      PROVE  i = j
  <2>1. i + 1 \in 1..Len(queue) /\ rest[i] = queue[i + 1]
    BY <1>3, <1>4
  <2>2. j + 1 \in 1..Len(queue) /\ rest[j] = queue[j + 1]
    BY <1>3, <1>4
  <2>3. i + 1 = j + 1
    BY <1>4, <2>1, <2>2 DEF ReadsGood
  <2> QED BY <2>3
<1>5. CASE task.old
  BY <1>3, <1>4, <1>5 DEF ReadsGood
<1>6. CASE ~task.old
  <2>1. after = [before EXCEPT ![task.batch] = @ + 1]
    BY <1>6
  <2>2. before[task.batch] = 0 /\ task.batch < next
    BY <1>1, <1>2, <1>6 DEF ReadsGood
  <2>3. /\ after \in [Structured!Made -> 0..1]
        /\ \A b \in Structured!Made : b # task.batch => after[b] = before[b]
    BY <1>2, <2>1, <2>2
  <2>4. \A i \in 1..Len(rest) :
           ~rest[i].old => rest[i].batch < next /\ after[rest[i].batch] = 0
    BY <1>3, <1>6, <2>3
  <2>5. \A b \in Structured!Made : b >= next => after[b] = 0
    <3> SUFFICES ASSUME NEW b \in Structured!Made, b >= next PROVE after[b] = 0
      OBVIOUS
    <3>1. b \in Int /\ task.batch \in Int
      BY <1>2, PipeConstants DEF Structured!Made
    <3>2. b # task.batch
      BY <2>2, <3>1
    <3> QED BY <2>3, <3>2 DEF ReadsGood
  <2> QED BY <1>4, <2>3, <2>4, <2>5 DEF ReadsGood
<1> QED BY <1>5, <1>6

LEMMA PipeStart ==
  ASSUME PipeGood(pipe), Structured!Start
  PROVE  PipeGood(pipe')
<1>1. /\ pipe \in PipeState /\ PassGood(pipe)
      /\ SlotsGood(pipe.buffers, pipe.held, pipe.has, pipe.slot, pipe.tasks.results,
                   pipe.tasks.running)
      /\ ReadsGood(pipe.tasks.queue, pipe.reads, pipe.next)
  BY DEF PipeGood
<1>2. PICK queue \in Seq(MadeTask) : queue = pipe.tasks.queue
  BY <1>1, PipeTypes
<1>3. queue # <<>>
  BY <1>2 DEF Structured!Start
<1>4. PICK task \in MadeTask : task = Head(queue)
  <2>1. Head(queue) \in MadeTask
    BY <1>3
  <2> QED BY <2>1
<1>5. /\ Tail(queue) \in Seq(MadeTask) /\ Len(queue) \in Nat /\ Len(queue) > 0
      /\ Len(Tail(queue)) = Len(queue) - 1 /\ task = queue[1]
      /\ \A i \in 1..Len(Tail(queue)) : Tail(queue)[i] = queue[i + 1]
  BY <1>3, <1>4
<1>6. PICK slot : slot = IF pipe.pinning THEN Structured!Acquired(pipe.buffers) ELSE 0
  OBVIOUS
<1>7. slot \in Nat
  BY <1>1, <1>6, PipeTypes, AcquiredIs
<1>8. PICK run : run = [task |-> task, slot |-> slot]
  OBVIOUS
<1>9. run \in MadeRun /\ run.slot = slot /\ run.task = task
  BY <1>7, <1>8 DEF MadeRun
<1>10. PICK bufs : bufs = Structured!Placed(pipe.buffers, slot, Structured!Buffer("task", -1))
  OBVIOUS
<1>11. PICK reads : reads = Structured!Read(pipe.reads, task)
  OBVIOUS
<1>12. PICK tasks : tasks = [pipe.tasks EXCEPT !.queue = Tail(queue),
                                              !.running = @ \cup {run}]
  OBVIOUS
<1>13. pipe' = [pipe EXCEPT !.tasks = tasks, !.buffers = bufs, !.reads = reads]
  <2>1. pipe' = [pipe EXCEPT
            !.tasks.queue = Tail(queue), !.tasks.running = @ \cup {run},
            !.buffers = bufs, !.reads = reads]
    BY <1>2, <1>4, <1>6, <1>8, <1>10, <1>11
       DEF Structured!Start, Structured!Host, Structured!Running, Structured!Torn
  <2>2. pipe.tasks \in PipeTasks
    BY <1>1, PipeTypes
  <2> QED BY <1>1, <1>12, <2>1, <2>2 DEF PipeState, PipeTasks
<1>14. /\ tasks \in PipeTasks /\ tasks.queue = Tail(queue)
       /\ tasks.running = pipe.tasks.running \cup {run}
       /\ tasks.results = pipe.tasks.results
  <2>1. pipe.tasks \in PipeTasks /\ pipe.tasks.running \cup {run} \in SUBSET MadeRun
    BY <1>1, <1>9, PipeTypes
  <2> QED BY <1>5, <1>12, <2>1 DEF PipeTasks
<1>15. /\ SlotTypes(bufs, pipe.held, pipe.has, pipe.slot, pipe.tasks.results,
                    pipe.tasks.running \cup {run})
       /\ SlotsGood(bufs, pipe.held, pipe.has, pipe.slot, pipe.tasks.results,
                    pipe.tasks.running \cup {run})
  <2>1. SlotTypes(pipe.buffers, pipe.held, pipe.has, pipe.slot, pipe.tasks.results,
                  pipe.tasks.running)
    BY <1>1, PipeSlots
  <2>2. run.slot # 0 => run.slot = Structured!Acquired(pipe.buffers)
    BY <1>6, <1>9
  <2>3. bufs = Structured!Placed(pipe.buffers, run.slot, Structured!Buffer("task", -1))
    BY <1>9, <1>10
  <2>4. run \in MadeRun
    BY <1>9
  <2>5. SlotsGood(pipe.buffers, pipe.held, pipe.has, pipe.slot, pipe.tasks.results,
                  pipe.tasks.running)
    BY <1>1
  <2> QED BY ONLY <2>1, <2>2, <2>3, <2>4, <2>5, SlotsStart
<1>16. /\ reads \in [Structured!Made -> 0..1]
       /\ ReadsGood(Tail(queue), reads, pipe.next)
  <2>1. PICK before \in [Structured!Made -> 0..1] : before = pipe.reads
    BY <1>1, PipeTypes
  <2>2. PICK next \in Nat : next = pipe.next
    BY <1>1, PipeTypes
  <2>3. ReadsGood(queue, before, next)
    BY <1>1, <1>2, <2>1, <2>2
  <2>4. reads = IF task.old THEN before ELSE [before EXCEPT ![task.batch] = @ + 1]
    BY <1>11, <2>1 DEF Structured!Read
  <2> QED BY ONLY <1>3, <1>4, <2>2, <2>3, <2>4, ReadsStart
<1>17. pipe' \in PipeState
  <2>1. bufs \in Seq(BufferSet)
    BY <1>15 DEF SlotTypes
  <2> QED BY <1>1, <1>13, <1>14, <1>16, <2>1 DEF PipeState
<1>18. /\ pipe'.tasks = tasks /\ pipe'.buffers = bufs /\ pipe'.reads = reads
       /\ pipe'.held = pipe.held /\ pipe'.has = pipe.has /\ pipe'.slot = pipe.slot
       /\ pipe'.next = pipe.next /\ pipe'.live = pipe.live /\ pipe'.got = pipe.got
       /\ pipe'.position = pipe.position /\ pipe'.complete = pipe.complete
       /\ pipe'.call = pipe.call
  BY <1>1, <1>13 DEF PipeState
<1>19. PassGood(pipe')
  BY <1>1, <1>18 DEF PassGood
<1> QED BY <1>14, <1>15, <1>16, <1>17, <1>18, <1>19 DEF PipeGood

LEMMA SlotsMade ==
  ASSUME NEW bufs, NEW held, NEW has, NEW slot, NEW results, NEW running,
         SlotTypes(bufs, held, has, slot, results, running),
         SlotsGood(bufs, held, has, slot, results, running),
         NEW run, run \in running, NEW v, v \in BufferSet,
         NEW made, made = Structured!Placed(bufs, run.slot, v),
         NEW more, more \in SUBSET MadeResult,
         \A r, q \in more : r = q,
         \A r \in more :
            r.slot = run.slot /\ (r.slot # 0 => v = Structured!Buffer("result", r.batch))
  PROVE  /\ SlotTypes(made, held, has, slot, results \cup more, running \ {run})
         /\ SlotsGood(made, held, has, slot, results \cup more, running \ {run})
<1>1. bufs \in Seq(BufferSet) /\ run.slot \in Nat /\ run.slot <= Len(bufs) + 1
      /\ (run.slot # 0 => run.slot <= Len(bufs))
  BY DEF SlotTypes, SlotsGood, MadeRun
<1>2. /\ made \in Seq(BufferSet) /\ Len(bufs) <= Len(made)
      /\ (run.slot # 0 => run.slot <= Len(made) /\ made[run.slot] = v)
      /\ \A i \in 1..Len(bufs) : i # run.slot => made[i] = bufs[i]
  <2>1. Placeable(bufs, run.slot, v)
    BY <1>1 DEF Placeable
  <2>2. Placement(bufs, run.slot, v, made)
    BY <2>1, PlacedAs
  <2> QED BY <2>2 DEF Placement
<1>3. \A r \in more : r.slot # 0 =>
         /\ r.slot = run.slot /\ made[r.slot] = Structured!Buffer("result", r.batch)
  BY <1>2
<1>4. made \in Seq(BufferSet)
  BY <1>2
<1>5. Len(bufs) <= Len(made)
  BY <1>2
<1>6. \A i \in 1..Len(bufs) : i # run.slot => made[i] = bufs[i]
  BY <1>2
<1> QED BY <1>3, <1>4, <1>5, <1>6, SlotsEnd

LEMMA SlotsRaised ==
  ASSUME NEW bufs, NEW held, NEW has, NEW slot, NEW results, NEW running,
         SlotTypes(bufs, held, has, slot, results, running),
         SlotsGood(bufs, held, has, slot, results, running),
         NEW run, run \in running,
         NEW made, made = Structured!Released(bufs, {run.slot}),
         NEW more, more \in SUBSET MadeResult,
         \A r, q \in more : r = q, \A r \in more : r.slot = 0
  PROVE  /\ SlotTypes(made, held, has, slot, results \cup more, running \ {run})
         /\ SlotsGood(made, held, has, slot, results \cup more, running \ {run})
<1>1. bufs \in Seq(BufferSet)
  BY DEF SlotTypes
<1>2. /\ made \in Seq(BufferSet) /\ Len(made) = Len(bufs)
      /\ \A i \in 1..Len(bufs) : i \notin {run.slot} => made[i] = bufs[i]
  BY <1>1, ReleasedIs
<1>3. \A r \in more : r.slot # 0 =>
         /\ r.slot = run.slot /\ made[r.slot] = Structured!Buffer("result", r.batch)
  OBVIOUS
<1>4. made \in Seq(BufferSet)
  BY <1>2
<1>5. Len(bufs) <= Len(made)
  BY <1>1, <1>2
<1>6. \A i \in 1..Len(bufs) : i # run.slot => made[i] = bufs[i]
  BY <1>2
<1> QED BY <1>3, <1>4, <1>5, <1>6, SlotsEnd

LEMMA PipeParts ==
  ASSUME PipeGood(pipe)
  PROVE  /\ pipe \in PipeState /\ PassGood(pipe)
         /\ SlotTypes(pipe.buffers, pipe.held, pipe.has, pipe.slot, pipe.tasks.results,
                      pipe.tasks.running)
         /\ SlotsGood(pipe.buffers, pipe.held, pipe.has, pipe.slot, pipe.tasks.results,
                      pipe.tasks.running)
         /\ ReadsGood(pipe.tasks.queue, pipe.reads, pipe.next)
  BY PipeSlots DEF PipeGood

(* A task ends, in one of two ways.                                        *)
LEMMA PipeTaskEnds ==
  ASSUME PipeGood(pipe), NEW run \in pipe.tasks.running, NEW made, NEW more, NEW spent \in Int,
         SlotTypes(made, pipe.held, pipe.has, pipe.slot, pipe.tasks.results \cup more,
                   pipe.tasks.running \ {run}),
         SlotsGood(made, pipe.held, pipe.has, pipe.slot, pipe.tasks.results \cup more,
                   pipe.tasks.running \ {run}),
         pipe' = [pipe EXCEPT !.tasks.running = @ \ {run}, !.tasks.results = @ \cup more,
                              !.buffers = made, !.spent = spent]
  PROVE  PipeGood(pipe')
<1>1. /\ pipe \in PipeState /\ PassGood(pipe)
      /\ ReadsGood(pipe.tasks.queue, pipe.reads, pipe.next)
  BY PipeParts
<1>2. PICK tasks : tasks = [pipe.tasks EXCEPT !.running = @ \ {run}, !.results = @ \cup more]
  OBVIOUS
<1>3. /\ made \in Seq(BufferSet) /\ pipe.tasks.results \cup more \in SUBSET MadeResult
      /\ pipe.tasks.running \ {run} \in SUBSET MadeRun
  BY DEF SlotTypes
<1>4. pipe.tasks \in PipeTasks
  BY <1>1, PipeTypes
<1>5. /\ tasks \in PipeTasks /\ tasks.queue = pipe.tasks.queue
      /\ tasks.running = pipe.tasks.running \ {run}
      /\ tasks.results = pipe.tasks.results \cup more
  BY <1>2, <1>3, <1>4 DEF PipeTasks
<1>6. pipe' = [pipe EXCEPT !.tasks = tasks, !.buffers = made, !.spent = spent]
  BY <1>1, <1>2, <1>4 DEF PipeState, PipeTasks
<1>7. pipe' \in PipeState
  <2>1. spent \in Int
    OBVIOUS
  <2> QED BY ONLY <1>1, <1>3, <1>5, <1>6, <2>1 DEF PipeState
<1>8. /\ pipe'.tasks = tasks /\ pipe'.buffers = made /\ pipe'.reads = pipe.reads
      /\ pipe'.held = pipe.held /\ pipe'.has = pipe.has /\ pipe'.slot = pipe.slot
      /\ pipe'.next = pipe.next /\ pipe'.live = pipe.live /\ pipe'.got = pipe.got
      /\ pipe'.position = pipe.position /\ pipe'.complete = pipe.complete
      /\ pipe'.call = pipe.call
  BY <1>1, <1>6 DEF PipeState
<1>9. PassGood(pipe')
  BY <1>1, <1>8 DEF PassGood
<1> QED BY <1>1, <1>5, <1>7, <1>8, <1>9 DEF PipeGood

LEMMA PipeEnd ==
  ASSUME PipeGood(pipe), NEW run \in pipe.tasks.running, Structured!End(run)
  PROVE  PipeGood(pipe')
<1>1. /\ pipe \in PipeState
      /\ SlotTypes(pipe.buffers, pipe.held, pipe.has, pipe.slot, pipe.tasks.results,
                   pipe.tasks.running)
      /\ SlotsGood(pipe.buffers, pipe.held, pipe.has, pipe.slot, pipe.tasks.results,
                   pipe.tasks.running)
  BY PipeParts
<1>2. PICK v : v = Structured!Left(run.task)
  OBVIOUS
<1>3. PICK more : more = Structured!Yield(run)
  OBVIOUS
<1>4. PICK made : made = Structured!Placed(pipe.buffers, run.slot, v)
  OBVIOUS
<1>5. /\ run \in MadeRun /\ run.task.batch \in Structured!Made
      /\ run.task.old \in BOOLEAN /\ run.slot \in Nat
  BY <1>1, PipeTypes DEF MadeRun, MadeTask
<1>6. run.task.batch \in Int
  BY <1>5, PipeConstants DEF Structured!Made
<1>7. v \in BufferSet
  BY <1>2, <1>5, <1>6 DEF Structured!Left, Structured!Buffer, BufferSet
<1>8. /\ more \in SUBSET MadeResult /\ \A r, q \in more : r = q
      /\ \A r \in more :
           r.slot = run.slot /\ (r.slot # 0 => v = Structured!Buffer("result", r.batch))
  <2>1. CASE run.task.old
    BY <1>3, <2>1 DEF Structured!Yield
  <2>2. CASE ~run.task.old
    <3>1. PICK yield : yield = [batch |-> run.task.batch, slot |-> run.slot, ok |-> TRUE]
      OBVIOUS
    <3>2. more = {yield}
      BY <1>3, <2>2, <3>1 DEF Structured!Yield, Structured!Result
    <3>3. yield \in MadeResult /\ yield.slot = run.slot /\ yield.batch = run.task.batch
      BY <1>5, <3>1 DEF MadeResult
    <3>4. v = Structured!Buffer("result", run.task.batch)
      BY <1>2, <2>2 DEF Structured!Left
    <3> QED BY <3>2, <3>3, <3>4
  <2> QED BY <2>1, <2>2
<1>9. /\ SlotTypes(made, pipe.held, pipe.has, pipe.slot, pipe.tasks.results \cup more,
                   pipe.tasks.running \ {run})
      /\ SlotsGood(made, pipe.held, pipe.has, pipe.slot, pipe.tasks.results \cup more,
                   pipe.tasks.running \ {run})
  BY <1>1, <1>4, <1>7, <1>8, SlotsMade
<1>10. PICK spent \in Int : spent = pipe.spent
  BY <1>1, PipeTypes
<1>11. pipe' = [pipe EXCEPT !.tasks.running = @ \ {run}, !.tasks.results = @ \cup more,
                            !.buffers = made, !.spent = spent]
  <2>1. pipe' = [pipe EXCEPT !.tasks.running = @ \ {run}, !.tasks.results = @ \cup more,
                             !.buffers = made]
    BY <1>2, <1>3, <1>4 DEF Structured!End
  <2> QED BY <1>1, <1>10, <2>1 DEF PipeState
<1> QED BY <1>9, <1>10, <1>11, PipeTaskEnds

LEMMA PipeRaises ==
  ASSUME PipeGood(pipe), NEW run \in pipe.tasks.running, Structured!Raises(run)
  PROVE  PipeGood(pipe')
<1>1. /\ pipe \in PipeState
      /\ SlotTypes(pipe.buffers, pipe.held, pipe.has, pipe.slot, pipe.tasks.results,
                   pipe.tasks.running)
      /\ SlotsGood(pipe.buffers, pipe.held, pipe.has, pipe.slot, pipe.tasks.results,
                   pipe.tasks.running)
  BY PipeParts
<1>2. PICK more : more = {Structured!Result(run.task.batch, 0, FALSE)}
  OBVIOUS
<1>3. PICK made : made = Structured!Released(pipe.buffers, {run.slot})
  OBVIOUS
<1>4. run \in MadeRun /\ run.task.batch \in Structured!Made
  BY <1>1, PipeTypes DEF MadeRun, MadeTask
<1>5. /\ more \in SUBSET MadeResult /\ \A r, q \in more : r = q
      /\ \A r \in more : r.slot = 0
  BY <1>2, <1>4 DEF Structured!Result, MadeResult
<1>6. /\ SlotTypes(made, pipe.held, pipe.has, pipe.slot, pipe.tasks.results \cup more,
                   pipe.tasks.running \ {run})
      /\ SlotsGood(made, pipe.held, pipe.has, pipe.slot, pipe.tasks.results \cup more,
                   pipe.tasks.running \ {run})
  BY <1>1, <1>3, <1>5, SlotsRaised
<1>7. PICK spent \in Int : spent = pipe.spent + 1
  BY <1>1, PipeTypes
<1>8. pipe' = [pipe EXCEPT !.tasks.running = @ \ {run}, !.tasks.results = @ \cup more,
                           !.buffers = made, !.spent = spent]
  BY <1>2, <1>3, <1>7 DEF Structured!Raises, Structured!Host
<1> QED BY <1>6, <1>7, <1>8, PipeTaskEnds

Delivered(p, left, rest, t) ==
    /\ t \in PipeState /\ t.call = "idle" /\ t.live = p.live /\ t.complete = p.complete
    /\ t.tasks = p.tasks /\ t.futures = p.futures /\ t.next = p.next
    /\ t.reads = p.reads /\ t.slot = p.slot
    /\ (p.got = p.position => t.got = t.position)
    /\ SlotTypes(t.buffers, t.held, t.has, left, rest, p.tasks.running)
    /\ SlotsGood(t.buffers, t.held, t.has, left, rest, p.tasks.running)

LEMMA DeliverIs ==
  ASSUME NEW p, p \in PipeState,
         SlotsGood(p.buffers, p.held, p.has, p.slot, p.tasks.results, p.tasks.running),
         NEW n, NEW owner, NEW left, NEW rest,
         Deliverable(p.buffers, p.slot, p.tasks.results, n, owner, p.position, left, rest),
         NEW t, t = Structured!Deliver(p, n, owner)
  PROVE  Delivered(p, left, rest, t)
<1>1. SlotTypes(p.buffers, p.held, p.has, p.slot, p.tasks.results, p.tasks.running)
  BY PipeSlots
<1>2. PICK at \in Nat : at = p.position
  BY PipeTypes
<1>20. PICK next \in Nat : next = at + 1
  OBVIOUS
<1>21. n \in Nat
  BY DEF Deliverable
<1>3. PICK handed : handed = IF p.held = 0 THEN p.buffers
                             ELSE [p.buffers EXCEPT ![p.held].owner = owner]
  OBVIOUS
<1>4. PICK made : made = Structured!Placed(handed, n, Structured!Buffer("consumer", at))
  OBVIOUS
<1>5. SlotTypes(made, n, at, left, rest, p.tasks.running)
      /\ SlotsGood(made, n, at, left, rest, p.tasks.running)
  <2>1. Deliverable(p.buffers, p.slot, p.tasks.results, n, owner, at, left, rest)
    BY <1>2
  <2>2. SlotsGood(p.buffers, p.held, p.has, p.slot, p.tasks.results, p.tasks.running)
    OBVIOUS
  <2> QED BY ONLY <1>1, <1>3, <1>4, <2>1, <2>2, SlotsDeliver
<1>6. PICK host \in BOOLEAN : host = (n = 0)
  BY Zenon
<1>7. handed = Structured!Handed(p, owner)
  BY <1>3 DEF Structured!Handed, Structured!Host
<1>8. PICK more \in Nat : more = p.got + 1
  BY PipeTypes
<1>9. t = [p EXCEPT !.buffers = made, !.held = n, !.has = at, !.onHost = host,
                    !.got = more, !.position = next, !.call = "idle"]
  BY <1>2, <1>20, <1>4, <1>6, <1>7, <1>8 DEF Structured!Deliver, Structured!Host
<1>10. made \in Seq(BufferSet)
  BY <1>5 DEF SlotTypes
<1>11. t \in PipeState
  <2>1. p \in PipeState
    OBVIOUS
  <2>2. at \in Nat /\ next \in Nat /\ host \in BOOLEAN /\ more \in Nat
    OBVIOUS
  <2> QED BY ONLY <1>21, <1>9, <1>10, <2>1, <2>2 DEF PipeState
<1>12. /\ t.call = "idle" /\ t.live = p.live /\ t.complete = p.complete
       /\ t.tasks = p.tasks /\ t.futures = p.futures /\ t.next = p.next
       /\ t.reads = p.reads /\ t.slot = p.slot /\ t.got = more /\ t.position = next
       /\ t.buffers = made /\ t.held = n /\ t.has = at
  BY <1>9 DEF PipeState
<1> QED BY <1>2, <1>20, <1>5, <1>8, <1>11, <1>12 DEF Delivered

LEMMA PipeTakeProbe ==
  ASSUME PipeGood(pipe), NEW owner \in Structured!Owners, Structured!TakeProbe(owner)
  PROVE  PipeGood(pipe')
<1>1. /\ pipe \in PipeState /\ PassGood(pipe)
      /\ SlotsGood(pipe.buffers, pipe.held, pipe.has, pipe.slot, pipe.tasks.results,
                   pipe.tasks.running)
      /\ ReadsGood(pipe.tasks.queue, pipe.reads, pipe.next)
  BY PipeParts
<1>2. PICK t : t = Structured!Deliver(pipe, pipe.slot, owner)
  OBVIOUS
<1>3. Deliverable(pipe.buffers, pipe.slot, pipe.tasks.results, pipe.slot, owner,
                  pipe.position, 0, pipe.tasks.results)
  <2>1. pipe.slot \in Nat /\ pipe.position \in Nat
    BY <1>1, PipeTypes
  <2>2. owner \in {"none", "view"}
    BY DEF Structured!Owners
  <2>3. pipe.slot # 0 => /\ pipe.slot <= Len(pipe.buffers)
                         /\ pipe.buffers[pipe.slot].owner = "result"
    BY <1>1 DEF SlotsGood
  <2>4. \A r \in pipe.tasks.results : r.slot # 0 => r.slot # pipe.slot
    BY <1>1 DEF SlotsGood
  <2> QED BY <2>1, <2>2, <2>3, <2>4 DEF Deliverable
<1>5. /\ t \in PipeState /\ t.call = "idle" /\ t.live = pipe.live /\ t.complete = pipe.complete
      /\ t.tasks = pipe.tasks /\ t.next = pipe.next /\ t.reads = pipe.reads
      /\ (pipe.got = pipe.position => t.got = t.position)
      /\ SlotTypes(t.buffers, t.held, t.has, 0, pipe.tasks.results, pipe.tasks.running)
      /\ SlotsGood(t.buffers, t.held, t.has, 0, pipe.tasks.results, pipe.tasks.running)
  <2>1. pipe \in PipeState
    BY <1>1
  <2>2. SlotsGood(pipe.buffers, pipe.held, pipe.has, pipe.slot, pipe.tasks.results,
                  pipe.tasks.running)
    BY <1>1
  <2>3. Delivered(pipe, 0, pipe.tasks.results, t)
    BY ONLY <2>1, <2>2, <1>2, <1>3, DeliverIs
  <2> QED BY <2>3 DEF Delivered
<1>6. pipe' = [t EXCEPT !.probe = "none", !.slot = 0] /\ pipe.call = "next"
  BY <1>2 DEF Structured!TakeProbe, Structured!Host
<1>7. pipe' \in PipeState
  BY <1>5, <1>6 DEF PipeState
<1>8. /\ pipe'.call = "idle" /\ pipe'.live = t.live /\ pipe'.complete = t.complete
      /\ pipe'.tasks = t.tasks /\ pipe'.next = t.next /\ pipe'.reads = t.reads
      /\ pipe'.got = t.got /\ pipe'.position = t.position /\ pipe'.buffers = t.buffers
      /\ pipe'.held = t.held /\ pipe'.has = t.has /\ pipe'.slot = 0
  BY <1>5, <1>6 DEF PipeState
<1>9. PassGood(pipe')
  BY <1>1, <1>5, <1>6, <1>8 DEF PassGood
<1> QED BY <1>1, <1>5, <1>7, <1>8, <1>9 DEF PipeGood

LEMMA PipeTakeBatch ==
  ASSUME PipeGood(pipe), NEW owner \in Structured!Owners, NEW r \in pipe.tasks.results,
         Structured!TakeBatch(r, owner)
  PROVE  PipeGood(pipe')
<1>1. /\ pipe \in PipeState /\ PassGood(pipe)
      /\ SlotsGood(pipe.buffers, pipe.held, pipe.has, pipe.slot, pipe.tasks.results,
                   pipe.tasks.running)
      /\ ReadsGood(pipe.tasks.queue, pipe.reads, pipe.next)
  BY PipeParts
<1>2. PICK t : t = Structured!Deliver(pipe, r.slot, owner)
  OBVIOUS
<1>3. PICK rest : rest = pipe.tasks.results \ {r}
  OBVIOUS
<1>4. r \in MadeResult /\ r.slot \in Nat /\ rest \in SUBSET pipe.tasks.results
  BY <1>1, <1>3, PipeTypes DEF MadeResult
<1>5. Deliverable(pipe.buffers, pipe.slot, pipe.tasks.results, r.slot, owner,
                  pipe.position, pipe.slot, rest)
  <2>1. pipe.position \in Nat /\ owner \in {"none", "view"} /\ pipe.slot \in {0, pipe.slot}
    BY <1>1, PipeTypes DEF Structured!Owners
  <2>2. r.slot # 0 => /\ r.slot <= Len(pipe.buffers) /\ r.slot # pipe.slot
                      /\ pipe.buffers[r.slot] = Structured!Buffer("result", r.batch)
    BY <1>1 DEF SlotsGood
  <2>3. Structured!Buffer("result", r.batch).owner = "result"
    BY DEF Structured!Buffer
  <2>4. r.slot # 0 => r.slot <= Len(pipe.buffers) /\ pipe.buffers[r.slot].owner = "result"
    BY <2>2, <2>3
  <2>5. \A q \in rest : q.slot # 0 => q.slot # r.slot
    BY <1>1, <1>3 DEF SlotsGood
  <2>6. pipe.slot # 0 => pipe.slot # r.slot
    BY <2>2
  <2> QED BY <1>4, <2>1, <2>4, <2>5, <2>6 DEF Deliverable
<1>6. /\ t \in PipeState /\ t.call = "idle" /\ t.live = pipe.live /\ t.complete = pipe.complete
      /\ t.tasks = pipe.tasks /\ t.futures = pipe.futures /\ t.next = pipe.next
      /\ t.reads = pipe.reads /\ t.slot = pipe.slot
      /\ (pipe.got = pipe.position => t.got = t.position)
      /\ SlotTypes(t.buffers, t.held, t.has, pipe.slot, rest, pipe.tasks.running)
      /\ SlotsGood(t.buffers, t.held, t.has, pipe.slot, rest, pipe.tasks.running)
  <2>1. pipe \in PipeState
    BY <1>1
  <2>2. SlotsGood(pipe.buffers, pipe.held, pipe.has, pipe.slot, pipe.tasks.results,
                  pipe.tasks.running)
    BY <1>1
  <2>3. Delivered(pipe, pipe.slot, rest, t)
    BY ONLY <2>1, <2>2, <1>2, <1>5, DeliverIs
  <2> QED BY <2>3 DEF Delivered
<1>7. PICK tasks : tasks = [pipe.tasks EXCEPT !.results = rest]
  OBVIOUS
<1>8. /\ tasks \in PipeTasks /\ tasks.queue = pipe.tasks.queue
      /\ tasks.running = pipe.tasks.running /\ tasks.results = rest
  <2>1. pipe.tasks \in PipeTasks /\ rest \in SUBSET MadeResult
    BY <1>1, <1>4, PipeTypes
  <2> QED BY <1>7, <2>1 DEF PipeTasks
<1>9. PICK futures : futures = pipe.futures \ {r.batch}
  OBVIOUS
<1>10. futures \in SUBSET Structured!Made
  BY <1>1, <1>9, PipeTypes
<1>11. PICK u : u = [t EXCEPT !.futures = futures, !.tasks = tasks]
  OBVIOUS
<1>12. u \in PipeState
  BY <1>6, <1>8, <1>10, <1>11 DEF PipeState
<1>13. /\ u.call = "idle" /\ u.live = t.live /\ u.complete = t.complete
       /\ u.tasks = tasks /\ u.next = t.next /\ u.reads = t.reads
       /\ u.got = t.got /\ u.position = t.position /\ u.buffers = t.buffers
       /\ u.held = t.held /\ u.has = t.has /\ u.slot = t.slot
  BY <1>6, <1>11 DEF PipeState
<1>14. pipe' = Structured!Filled(u) /\ pipe.call = "next"
  <2>1. [t EXCEPT !.futures = @ \ {r.batch}, !.tasks.results = @ \ {r}] = u
    BY <1>3, <1>6, <1>7, <1>9, <1>11
  <2> QED BY <1>2, <2>1 DEF Structured!TakeBatch
<1>15. u.reads \in [Structured!Made -> 0..1] /\ ReadsGood(u.tasks.queue, u.reads, u.next)
  BY <1>1, <1>6, <1>8, <1>12, <1>13, PipeTypes
<1>16. PICK queue \in Seq(MadeTask), future \in SUBSET Structured!Made, next \in Nat :
          /\ Structured!Filled(u) = [u EXCEPT !.futures = future, !.next = next,
                                             !.tasks.queue = queue]
          /\ ReadsGood(queue, u.reads, next)
  BY <1>12, <1>15, FilledFor
<1>17. PICK full : full = [tasks EXCEPT !.queue = queue]
  OBVIOUS
<1>18. /\ full \in PipeTasks /\ full.queue = queue
       /\ full.running = pipe.tasks.running /\ full.results = rest
  BY <1>8, <1>17 DEF PipeTasks
<1>19. pipe' = [u EXCEPT !.futures = future, !.next = next, !.tasks = full]
  BY <1>13, <1>14, <1>16, <1>17
<1>20. pipe' \in PipeState
  BY <1>12, <1>18, <1>19 DEF PipeState
<1>21. /\ pipe'.call = "idle" /\ pipe'.live = t.live /\ pipe'.complete = t.complete
       /\ pipe'.tasks = full /\ pipe'.next = next /\ pipe'.reads = u.reads
       /\ pipe'.got = t.got /\ pipe'.position = t.position /\ pipe'.buffers = t.buffers
       /\ pipe'.held = t.held /\ pipe'.has = t.has /\ pipe'.slot = pipe.slot
  BY <1>6, <1>12, <1>13, <1>19 DEF PipeState
<1>22. PassGood(pipe')
  BY <1>1, <1>6, <1>14, <1>21 DEF PassGood
<1>23. SlotsGood(pipe'.buffers, pipe'.held, pipe'.has, pipe'.slot, pipe'.tasks.results,
                 pipe'.tasks.running)
  BY <1>6, <1>18, <1>21
<1>24. ReadsGood(pipe'.tasks.queue, pipe'.reads, pipe'.next)
  BY <1>16, <1>18, <1>21
<1> QED BY <1>20, <1>22, <1>23, <1>24 DEF PipeGood

(* Steps that leave the buffers and the tasks alone.                       *)
LEMMA PipeUntouched ==
  ASSUME PipeGood(pipe), pipe' \in PipeState, PassGood(pipe'),
         pipe'.tasks = pipe.tasks, pipe'.buffers = pipe.buffers, pipe'.reads = pipe.reads,
         pipe'.held = pipe.held, pipe'.has = pipe.has, pipe'.slot = pipe.slot,
         pipe'.next = pipe.next
  PROVE  PipeGood(pipe')
  BY PipeParts DEF PipeGood

LEMMA PipeMarks ==
  ASSUME PipeGood(pipe),
         \/ Structured!Attach \/ Structured!CallNext \/ Structured!Finish
         \/ Structured!Capture \/ Structured!Abandon
  PROVE  PipeGood(pipe')
<1>1. pipe \in PipeState /\ PassGood(pipe)
  BY PipeParts
<1>2. CASE Structured!Attach
  <2>1. PICK pinning \in BOOLEAN : pinning = pipe.config.pinned
    BY <1>1, PipeTypes, PipeConstants
  <2>2. pipe' = [pipe EXCEPT !.pinning = pinning, !.call = "idle"] /\ pipe.call = "iterate"
    BY <1>2, <2>1 DEF Structured!Attach
  <2>3. pipe' \in PipeState
    BY <1>1, <2>2 DEF PipeState
  <2>4. /\ pipe'.tasks = pipe.tasks /\ pipe'.buffers = pipe.buffers
        /\ pipe'.reads = pipe.reads /\ pipe'.held = pipe.held /\ pipe'.has = pipe.has
        /\ pipe'.slot = pipe.slot /\ pipe'.next = pipe.next
        /\ pipe'.live = pipe.live /\ pipe'.complete = pipe.complete
        /\ pipe'.call = "idle" /\ pipe'.got = pipe.got /\ pipe'.position = pipe.position
    BY <1>1, <2>2 DEF PipeState
  <2> QED BY <1>1, <2>2, <2>3, <2>4, PipeUntouched DEF PassGood
<1>3. CASE Structured!CallNext
  <2>1. pipe' = [pipe EXCEPT !.call = "next"] /\ pipe.live /\ ~pipe.complete
    BY <1>3 DEF Structured!CallNext
  <2>2. pipe' \in PipeState
    BY <1>1, <2>1 DEF PipeState
  <2>3. /\ pipe'.tasks = pipe.tasks /\ pipe'.buffers = pipe.buffers
        /\ pipe'.reads = pipe.reads /\ pipe'.held = pipe.held /\ pipe'.has = pipe.has
        /\ pipe'.slot = pipe.slot /\ pipe'.next = pipe.next
        /\ pipe'.live = pipe.live /\ pipe'.complete = pipe.complete
        /\ pipe'.got = pipe.got /\ pipe'.position = pipe.position
    BY <1>1, <2>1 DEF PipeState
  <2> QED BY <1>1, <2>1, <2>2, <2>3, PipeUntouched DEF PassGood
<1>4. CASE Structured!Finish
  <2>1. /\ pipe' = [pipe EXCEPT !.complete = TRUE, !.call = "idle"]
        /\ pipe.position = PipeBatches
    BY <1>4 DEF Structured!Finish
  <2>2. pipe' \in PipeState
    BY <1>1, <2>1 DEF PipeState
  <2>3. /\ pipe'.tasks = pipe.tasks /\ pipe'.buffers = pipe.buffers
        /\ pipe'.reads = pipe.reads /\ pipe'.held = pipe.held /\ pipe'.has = pipe.has
        /\ pipe'.slot = pipe.slot /\ pipe'.next = pipe.next
        /\ pipe'.live = pipe.live /\ pipe'.call = "idle"
        /\ pipe'.got = pipe.got /\ pipe'.position = pipe.position
    BY <1>1, <2>1 DEF PipeState
  <2> QED BY <1>1, <2>1, <2>2, <2>3, PipeUntouched DEF PassGood
<1>5. CASE Structured!Capture
  <2>1. PICK saved \in PipeSaved : saved = [cursor |-> pipe.position]
    BY <1>1, PipeTypes DEF PipeSaved
  <2>2. pipe' = [pipe EXCEPT !.saved = saved]
    BY <1>5, <2>1 DEF Structured!Capture
  <2>3. pipe' \in PipeState
    BY <1>1, <2>2 DEF PipeState
  <2>4. /\ pipe'.tasks = pipe.tasks /\ pipe'.buffers = pipe.buffers
        /\ pipe'.reads = pipe.reads /\ pipe'.held = pipe.held /\ pipe'.has = pipe.has
        /\ pipe'.slot = pipe.slot /\ pipe'.next = pipe.next
        /\ pipe'.live = pipe.live /\ pipe'.complete = pipe.complete
        /\ pipe'.call = pipe.call /\ pipe'.got = pipe.got /\ pipe'.position = pipe.position
    BY <1>1, <2>2 DEF PipeState
  <2> QED BY <1>1, <2>3, <2>4, PipeUntouched DEF PassGood
<1>6. CASE Structured!Abandon
  <2>1. pipe' = [pipe EXCEPT !.live = FALSE, !.got = 0] /\ pipe.call = "idle"
    BY <1>6 DEF Structured!Abandon
  <2>2. pipe' \in PipeState
    BY <1>1, <2>1 DEF PipeState
  <2>3. /\ pipe'.tasks = pipe.tasks /\ pipe'.buffers = pipe.buffers
        /\ pipe'.reads = pipe.reads /\ pipe'.held = pipe.held /\ pipe'.has = pipe.has
        /\ pipe'.slot = pipe.slot /\ pipe'.next = pipe.next
        /\ ~pipe'.live /\ pipe'.complete = pipe.complete
        /\ pipe'.call = pipe.call /\ pipe'.position = pipe.position
    BY <1>1, <2>1 DEF PipeState
  <2> QED BY <1>1, <2>1, <2>2, <2>3, PipeUntouched DEF PassGood
<1> QED BY <1>2, <1>3, <1>4, <1>5, <1>6

LEMMA PipeCloses ==
  ASSUME PipeGood(pipe), Structured!Fails \/ Structured!Load
  PROVE  PipeGood(pipe')
<1>1. pipe \in PipeState /\ ReadsGood(pipe.tasks.queue, pipe.reads, pipe.next)
  BY PipeParts
<1>2. PICK t : t = Structured!Closed(pipe)
  OBVIOUS
<1>3. /\ t \in PipeState /\ ~t.live /\ ~t.complete /\ t.call = pipe.call
      /\ SlotsGood(t.buffers, t.held, t.has, t.slot, t.tasks.results, t.tasks.running)
      /\ ReadsGood(t.tasks.queue, t.reads, t.next)
  BY <1>1, <1>2, ClosedIs
<1>4. CASE Structured!Fails
  <2>1. pipe' = [t EXCEPT !.call = "idle"]
    BY <1>2, <1>4 DEF Structured!Fails
  <2>2. pipe' \in PipeState
    BY <1>3, <2>1 DEF PipeState
  <2>3. /\ pipe'.tasks = t.tasks /\ pipe'.buffers = t.buffers /\ pipe'.reads = t.reads
        /\ pipe'.held = t.held /\ pipe'.has = t.has /\ pipe'.slot = t.slot
        /\ pipe'.next = t.next /\ pipe'.live = t.live /\ pipe'.complete = t.complete
        /\ pipe'.call = "idle"
    BY <1>3, <2>1 DEF PipeState
  <2>4. PassGood(pipe')
    BY <1>3, <2>3 DEF PassGood
  <2> QED BY <1>3, <2>2, <2>3, <2>4 DEF PipeGood
<1>5. CASE Structured!Load
  <2>1. PICK resume \in Nat : resume = pipe.saved.cursor
    <3>1. pipe.saved \in [cursor : Nat]
      BY <1>1, <1>5, PipeTypes, Zenon DEF Structured!Load, PipeSaved, Absent, Structured!None
    <3> QED BY <3>1
  <2>2. pipe' = [t EXCEPT !.resume = resume, !.got = 0] /\ pipe.call = "idle"
    BY <1>2, <1>5, <2>1 DEF Structured!Load
  <2>3. pipe' \in PipeState
    BY <1>3, <2>2 DEF PipeState
  <2>4. /\ pipe'.tasks = t.tasks /\ pipe'.buffers = t.buffers /\ pipe'.reads = t.reads
        /\ pipe'.held = t.held /\ pipe'.has = t.has /\ pipe'.slot = t.slot
        /\ pipe'.next = t.next /\ pipe'.live = t.live /\ pipe'.complete = t.complete
        /\ pipe'.call = t.call
    BY <1>3, <2>2 DEF PipeState
  <2>5. PassGood(pipe')
    BY <1>3, <2>2, <2>4 DEF PassGood
  <2> QED BY <1>3, <2>3, <2>4, <2>5 DEF PipeGood
<1> QED BY <1>4, <1>5

LEMMA PipeStep ==
  ASSUME PipeGood(pipe), Structured!PipeNext
  PROVE  PipeGood(pipe')
<1>1. CASE Structured!PipeOwnerStep
  BY <1>1, PipeMarks, PipeCloses, PipeTakeProbe, PipeTakeBatch DEF Structured!PipeOwnerStep
<1>2. CASE Structured!PipeTaskStep
  BY <1>2, PipeStart, PipeEnd DEF Structured!PipeTaskStep
<1>3. CASE \E run \in pipe.tasks.running : Structured!Raises(run)
  BY <1>3, PipeRaises
<1> QED BY <1>1, <1>2, <1>3, PipeIterate, PipeMarks, PipeCloses DEF Structured!PipeNext

LEMMA PipeBegins ==
  ASSUME NEW config \in PipeConfigs, Structured!PipeInit(config)
  PROVE  PipeGood(pipe)
<1>1. config.pinned \in BOOLEAN /\ config.probeFails \in BOOLEAN
  BY PipeConstants
<1>2. PICK bufs : bufs = IF config.pinned /\ ~config.probeFails
                         THEN <<Structured!Buffer("result", 0)>> ELSE <<>>
  OBVIOUS
<1>3. PICK slot : slot = IF config.pinned /\ ~config.probeFails THEN 1 ELSE 0
  OBVIOUS
<1>4. PICK probe : probe = IF config.probeFails THEN "error" ELSE "value"
  OBVIOUS
<1>5. PICK reads : reads = [b \in Structured!Made |-> 0]
  OBVIOUS
<1>6. PICK tasks : tasks = [queue |-> <<>>, running |-> {}, results |-> {}]
  OBVIOUS
<1>7. pipe = [config |-> config, probe |-> probe, slot |-> slot, buffers |-> bufs,
              pinning |-> config.pinned, tasks |-> tasks,
              futures |-> {}, next |-> 0, position |-> 0,
              live |-> FALSE, complete |-> FALSE, call |-> "idle",
              held |-> 0, has |-> 0, onHost |-> FALSE, reads |-> reads,
              got |-> 0, resume |-> 0, saved |-> [none |-> TRUE], spent |-> 0]
  BY <1>2, <1>3, <1>4, <1>5, <1>6
     DEF Structured!PipeInit, Structured!Host, Structured!NoTasks, Structured!None
<1>8. Structured!Buffer("result", 0) \in BufferSet
      /\ Structured!Buffer("result", 0).owner = "result"
  BY DEF Structured!Buffer, BufferSet
<1>9. /\ bufs \in Seq(BufferSet) /\ slot \in Nat
      /\ (slot # 0 => slot <= Len(bufs) /\ bufs[slot].owner = "result")
  BY <1>2, <1>3, <1>8
<1>10. probe \in {"none", "value", "error"} /\ reads \in [Structured!Made -> 0..1]
       /\ \A b \in Structured!Made : reads[b] = 0
  BY <1>4, <1>5
<1>11. tasks \in PipeTasks /\ tasks.queue = <<>> /\ tasks.running = {} /\ tasks.results = {}
  BY <1>6 DEF PipeTasks
<1>12. [none |-> TRUE] \in PipeSaved
  BY DEF PipeSaved, Absent
<1>13. pipe \in PipeState
  BY <1>1, <1>7, <1>9, <1>10, <1>11, <1>12 DEF PipeState
<1>14. SlotsGood(bufs, 0, 0, slot, {}, {})
  BY <1>9 DEF SlotsGood
<1>15. ReadsGood(<<>>, reads, 0)
  BY <1>10 DEF ReadsGood
<1>16. /\ pipe.buffers = bufs /\ pipe.held = 0 /\ pipe.has = 0 /\ pipe.slot = slot
       /\ pipe.tasks = tasks /\ pipe.reads = reads /\ pipe.next = 0 /\ ~pipe.live
       /\ ~pipe.complete /\ pipe.call = "idle"
  BY <1>7
<1>17. PassGood(pipe)
  BY <1>16 DEF PassGood
<1> QED BY <1>11, <1>13, <1>14, <1>15, <1>16, <1>17 DEF PipeGood

LEMMA PipeGoodKeeps ==
  ASSUME PipeGood(pipe)
  PROVE  Structured!ReadOnce /\ Structured!SlotsKept
<1>1. /\ pipe \in PipeState /\ PassGood(pipe)
      /\ SlotsGood(pipe.buffers, pipe.held, pipe.has, pipe.slot, pipe.tasks.results,
                   pipe.tasks.running)
  BY PipeParts
<1>2. pipe.reads \in [Structured!Made -> 0..1]
  BY <1>1, PipeTypes
<1>3. \A b \in Structured!Made : pipe.reads[b] <= 1
  BY <1>2
<1>4. Structured!ReadOnce
  BY <1>1, <1>3 DEF PassGood, Structured!ReadOnce
<1>5. Structured!SlotsKept
  BY <1>1 DEF SlotsGood, Structured!SlotsKept, Structured!Host
<1> QED BY <1>4, <1>5

(* structured/probe.py:47, "so shape probing is not a reread", and         *)
(* memory/pinned/pool.py:35: a pass of the structured pipeline reads each  *)
(* batch once and in its place, and no pinned buffer is written over while *)
(* its batch is still to be used, for every number of batches, makers and  *)
(* batches ahead.                                                          *)
THEOREM BatchesAlwaysKept == RuntimesSpec => []BatchesKept
<1>1. RuntimesInit => PipeInv
  BY PipeBegins
     DEF RuntimesInit, PipeInv, DispatchIterable, DispatchThread, DispatchStructured,
         DispatchOneByOne, Structured!PipeUnused, Structured!None
<1>2. PipeInv /\ [RuntimesNext]_runtimeVars => PipeInv'
  <2> SUFFICES ASSUME PipeInv, [RuntimesNext]_runtimeVars PROVE PipeInv'
    OBVIOUS
  <2>1. CASE pipe' = pipe
    BY <2>1 DEF PipeInv
  <2>2. CASE pipe' # pipe
    <3>1. pipe # [none |-> TRUE] /\ Structured!PipeNext
      BY <2>2 DEF RuntimesNext, runtimeVars, None
    <3> QED BY <3>1, PipeStep DEF PipeInv
  <2> QED BY <2>1, <2>2
<1>3. PipeInv => BatchesKept
  BY PipeGoodKeeps DEF BatchesKept, PipeInv, None
<1> QED BY <1>1, <1>2, <1>3, PTL DEF RuntimesSpec

-----------------------------------------------------------------------------
(* Threads that share the dataset.                                         *)

Ordinals == 0 .. ThreadSafe!Batches - 1

Positions == 0 .. Samples - 1

ThreadPool ==
    [open : BOOLEAN, queue : Seq(Positions), running : SUBSET Positions,
     done : SUBSET Positions, failed : SUBSET Positions,
     notifying : SUBSET Positions, old : Int]

ThreadIt ==
    [position : Nat, next : Nat, restored : SUBSET Ordinals, depth : Int,
     futures : SUBSET Positions, completed : Seq(Positions), ready : Seq(Ordinals),
     base : Nat, ahead : SUBSET Ordinals, complete : BOOLEAN]

ThreadGot == [times : [Ordinals -> Int], inOrder : BOOLEAN]

ThreadResume ==
    Absent \cup [cursor : Nat, ahead : SUBSET Ordinals, got : ThreadGot]

ThreadSaved == Absent \cup [cursor : Nat, bitmap : SUBSET Int, got : ThreadGot]

ThreadState ==
    [config : ThreadConfigs, pool : ThreadPool, it : ThreadIt, live : BOOLEAN,
     stale : BOOLEAN, call : {"idle", "next"}, resume : ThreadResume,
     saved : ThreadSaved, got : ThreadGot, spent : Int]

(* The batches below base and those ahead of it, each once.                *)
Marks(base, ahead) == [b \in Ordinals |-> IF b < base \/ b \in ahead THEN 1 ELSE 0]

(* A coordinate: whole batches below base, and some beyond the gap.        *)
Marking(base, ahead) ==
    /\ base \in 0..ThreadSafe!Batches /\ ahead \in SUBSET Ordinals
    /\ \A b \in ahead : b > base

(* What a pass delivered is what its coordinate says.                      *)
GotGood(config, base, ahead, got) ==
    /\ Marking(base, ahead) /\ got.times = Marks(base, ahead)
    /\ ~config.onCompletion => ahead = {} /\ got.inOrder

(* The samples of those batches.                                           *)
Within(base, ahead) ==
    {p \in Positions : ThreadSafe!Batch(p) < base \/ ThreadSafe!Batch(p) \in ahead}

(* In order, the position is in the batch that comes next.                 *)
PlacedIn(k, position, call) ==
    LET start == ThreadSafe!Lesser(Samples, k * Width)
    IN  \/ position = start
        \/ call = "next" /\ start <= position /\ position < ThreadSafe!Stop(k)

DeliveredTo(config, it, got, call) ==
    IF config.onCompletion
    THEN /\ GotGood(config, it.base, it.ahead, got)
         /\ it.position = Cardinality(Within(it.base, it.ahead))
    ELSE \E k \in 0..ThreadSafe!Batches :
            GotGood(config, k, {}, got) /\ PlacedIn(k, it.position, call)

(* States name the pass that they were made in.                            *)
Remembered(config, saved, resume) ==
    /\ saved # [none |-> TRUE] =>
          GotGood(config, saved.cursor,
                  ThreadSafe!Decoded(saved.cursor, saved.bitmap), saved.got)
    /\ resume # [none |-> TRUE] =>
          GotGood(config, resume.cursor, resume.ahead, resume.got)

Passing(config, it, got, live, call) ==
    /\ \A b \in Ordinals : got.times[b] <= 1
    /\ ~config.onCompletion => got.inOrder
    /\ call = "next" => live /\ ~it.complete
    /\ live => DeliveredTo(config, it, got, call)
    /\ live /\ it.complete => it.position >= Samples

ThreadGood(t) ==
    /\ t \in ThreadState
    /\ Remembered(t.config, t.saved, t.resume)
    /\ Passing(t.config, t.it, t.got, t.live, t.call)

ThreadInv == thread # [none |-> TRUE] => ThreadGood(thread)

LEMMA ThreadConstants ==
  /\ Samples \in Nat /\ Width \in Nat /\ Width > 0 /\ Frontier \in Nat
  /\ \A config \in ThreadConfigs : config.onCompletion \in BOOLEAN
  BY RuntimesAssumption DEF ThreadSafe!ThreadAssumption

LEMMA Multiples ==
  ASSUME NEW size \in Nat, NEW k \in Nat, NEW b \in Nat, b < k
  PROVE  b * size \in Nat /\ k * size \in Nat /\ (b * size) + size <= k * size
<1>1. PICK d \in Nat : k = (b + 1) + d
  <2>1. k - (b + 1) \in Nat /\ k = (b + 1) + (k - (b + 1))
    OBVIOUS
  <2> QED BY <2>1
<1>2. k * size = (b * size) + size + (d * size) /\ d * size \in Nat /\ b * size \in Nat
  BY <1>1
<1> QED BY <1>2

(* In which multiple of the size a number is.                              *)
LEMMA Quotient ==
  ASSUME NEW size \in Nat, size > 0, NEW n \in Nat, NEW q, q = n \div size
  PROVE  q \in Nat /\ q * size <= n /\ n < (q * size) + size
<1>1. (n \div size) \in Nat /\ (n % size) \in 0..(size - 1)
      /\ n = size * (n \div size) + (n % size)
  OBVIOUS
<1>2. PICK rest \in 0..(size - 1) : rest = (n % size)
  BY <1>1
<1>3. n = size * q + rest /\ q \in Nat
  BY <1>1, <1>2
<1>4. size * q = q * size /\ q * size \in Nat
  BY <1>3
<1> QED BY <1>3, <1>4

LEMMA SameQuotient ==
  ASSUME NEW size \in Nat, NEW n \in Nat, NEW q \in Nat, NEW k \in Nat,
         q * size <= n, n < (q * size) + size, k * size <= n, n < (k * size) + size
  PROVE  q = k
<1>1. q * size \in Nat /\ k * size \in Nat
  OBVIOUS
<1>2. CASE q < k
  <2>1. (q * size) + size <= k * size
    BY <1>2, Multiples
  <2> QED BY <1>1, <2>1
<1>3. CASE k < q
  <2>1. (k * size) + size <= q * size
    BY <1>3, Multiples
  <2> QED BY <1>1, <2>1
<1> QED BY <1>2, <1>3

(* How the samples fall into batches.                                      *)
LEMMA BatchFacts ==
  /\ ThreadSafe!Batches \in Nat
  /\ \A b \in Ordinals : b \in Nat /\ b * Width \in Nat /\ b * Width < Samples
  /\ \A p \in Positions :
        /\ p \in Nat /\ ThreadSafe!Batch(p) \in Ordinals
        /\ ThreadSafe!Batch(p) * Width <= p
        /\ p < (ThreadSafe!Batch(p) * Width) + Width
  /\ \A k \in Nat : k >= ThreadSafe!Batches => k * Width >= Samples
<1>1. PICK length \in Nat : length = Samples
  BY ThreadConstants
<1>2. PICK size \in Nat : size = Width /\ size > 0
  BY ThreadConstants
<1>3. PICK count : count = ThreadSafe!Batches
  OBVIOUS
<1>4. count \in Nat /\ count * size <= length + size - 1 /\ length <= count * size
      /\ count * size \in Nat
  <2>1. PICK n \in Nat : n = length + size - 1
    BY <1>2
  <2>2. count = n \div size
    BY <1>1, <1>2, <1>3, <2>1 DEF ThreadSafe!Batches
  <2>3. count \in Nat /\ count * size <= n /\ n < (count * size) + size
    BY <1>2, <2>2, Quotient
  <2>4. count * size \in Nat
    BY <2>3
  <2> QED BY <1>2, <2>1, <2>3, <2>4
<1>5. ASSUME NEW b \in Nat, b < count
      PROVE  b * size \in Nat /\ b * size < length
  <2>1. b * size \in Nat /\ (b * size) + size <= count * size
    BY <1>4, <1>5, Multiples
  <2> QED BY <1>2, <1>4, <2>1
<1>6. ASSUME NEW p \in Nat, p < length, NEW q, q = p \div size
      PROVE  q \in Nat /\ q < count /\ q * size <= p /\ p < (q * size) + size
  <2>1. q \in Nat /\ q * size <= p /\ p < (q * size) + size
    BY <1>2, <1>6, Quotient
  <2>2. q < count
    <3>1. CASE count < q
      <4>1. (count * size) + size <= q * size /\ q * size \in Nat
        BY <1>4, <2>1, <3>1, Multiples
      <4> QED BY <1>2, <1>4, <1>6, <2>1, <4>1
    <3>2. CASE count = q
      BY <1>4, <1>6, <2>1, <3>2
    <3> QED BY <1>4, <2>1, <3>1, <3>2
  <2> QED BY <2>1, <2>2
<1>7. ASSUME NEW k \in Nat, k >= count
      PROVE  k * size >= length
  <2>1. CASE k = count
    BY <1>4, <2>1
  <2>2. CASE count < k
    <3>1. (count * size) + size <= k * size /\ k * size \in Nat
      BY <1>4, <2>2, Multiples
    <3> QED BY <1>2, <1>4, <3>1
  <2> QED BY <1>4, <1>7, <2>1, <2>2
<1>8. \A b \in Ordinals : b \in Nat /\ b * Width \in Nat /\ b * Width < Samples
  BY <1>1, <1>2, <1>3, <1>4, <1>5 DEF Ordinals
<1>9. \A p \in Positions :
        /\ p \in Nat /\ ThreadSafe!Batch(p) \in Ordinals
        /\ ThreadSafe!Batch(p) * Width <= p
        /\ p < (ThreadSafe!Batch(p) * Width) + Width
  <2> SUFFICES ASSUME NEW p \in Positions
               PROVE  /\ p \in Nat /\ ThreadSafe!Batch(p) \in Ordinals
                      /\ ThreadSafe!Batch(p) * Width <= p
                      /\ p < (ThreadSafe!Batch(p) * Width) + Width
    OBVIOUS
  <2>1. p \in Nat /\ p < length
    BY <1>1 DEF Positions
  <2>2. PICK q : q = ThreadSafe!Batch(p)
    OBVIOUS
  <2>3. q = p \div size
    BY <1>2, <2>2 DEF ThreadSafe!Batch
  <2>4. q \in Nat /\ q < count /\ q * size <= p /\ p < (q * size) + size
    BY <1>6, <2>1, <2>3
  <2> QED BY <1>2, <1>3, <1>4, <2>1, <2>2, <2>4 DEF Ordinals
<1>10. \A k \in Nat : k >= ThreadSafe!Batches => k * Width >= Samples
  BY <1>1, <1>2, <1>3, <1>7
<1> QED BY <1>3, <1>4, <1>8, <1>9, <1>10

(* The samples of a batch.                                                 *)
LEMMA MembersAre ==
  ASSUME NEW batch \in Ordinals
  PROVE  /\ ThreadSafe!Members(batch)
              = {p \in Positions : ThreadSafe!Batch(p) = batch}
         /\ ThreadSafe!Stop(batch) \in Nat /\ ThreadSafe!Stop(batch) <= Samples
         /\ batch * Width < ThreadSafe!Stop(batch)
         /\ ThreadSafe!Stop(batch) = ThreadSafe!Lesser(Samples, (batch + 1) * Width)
<1>1. PICK length \in Nat : length = Samples
  BY ThreadConstants
<1>2. PICK size \in Nat : size = Width /\ size > 0
  BY ThreadConstants
<1>3. batch \in Nat /\ batch * size \in Nat /\ batch * size < length
  BY <1>1, <1>2, BatchFacts
<1>4. PICK start \in Nat : start = batch * size
  BY <1>3
<1>5. PICK stop \in Nat : stop = (IF start + size < length THEN start + size ELSE length)
  BY <1>1, <1>2, <1>4
<1>6. ThreadSafe!Stop(batch) = stop
  BY <1>1, <1>2, <1>4, <1>5 DEF ThreadSafe!Stop, ThreadSafe!Lesser
<1>7. ThreadSafe!Stop(batch) = ThreadSafe!Lesser(Samples, (batch + 1) * Width)
  <2>1. PICK more \in Nat : more = (batch + 1) * size
    BY <1>3
  <2>2. more = start + size
    BY <1>3, <1>4, <2>1
  <2> QED BY <1>1, <1>2, <1>5, <1>6, <2>1, <2>2 DEF ThreadSafe!Lesser
<1>8. ThreadSafe!Members(batch) = start..(stop - 1)
  BY <1>2, <1>4, <1>6 DEF ThreadSafe!Members
<1>9. ASSUME NEW p \in Positions, ThreadSafe!Batch(p) = batch
      PROVE  p \in start..(stop - 1)
  <2>1. p \in Nat /\ p < length
    BY <1>1 DEF Positions
  <2>2. start <= p /\ p < start + size
    BY <1>2, <1>4, <1>9, BatchFacts
  <2> QED BY <1>5, <2>1, <2>2
<1>10. ASSUME NEW p \in start..(stop - 1)
       PROVE  p \in Positions /\ ThreadSafe!Batch(p) = batch
  <2>1. p \in Nat /\ start <= p /\ p < start + size /\ p < length
    BY <1>5
  <2>2. p \in Positions
    BY <1>1, <2>1 DEF Positions
  <2>3. PICK q : q = ThreadSafe!Batch(p)
    OBVIOUS
  <2>4. q \in Nat /\ q * size <= p /\ p < (q * size) + size
    BY <1>2, <2>2, <2>3, BatchFacts
  <2>5. batch * size <= p /\ p < (batch * size) + size
    BY <1>4, <2>1
  <2>6. q = batch
    BY <1>3, <2>1, <2>4, <2>5, SameQuotient
  <2> QED BY <2>2, <2>3, <2>6
<1> QED BY <1>1, <1>2, <1>3, <1>4, <1>5, <1>6, <1>7, <1>8, <1>9, <1>10

LEMMA ThreadCardinality == \A S : ThreadSafe!Cardinality(S) = Cardinality(S)
  BY Zenon DEF ThreadSafe!Cardinality, Cardinality

(* A bounded set of naturals has a greatest element.                       *)
LEMMA Greatest ==
  ASSUME NEW S \in SUBSET Nat, S # {}, NEW bound \in Nat, \A s \in S : s <= bound
  PROVE  ThreadSafe!MaxOf(S) \in S
<1>1. PICK T : T = {n \in Nat : \A s \in S : s <= n}
  OBVIOUS
<1>2. T \in SUBSET Nat /\ T # {}
  BY <1>1
<1>3. PICK n \in T : \A k \in T : n <= k
  BY <1>2, Least
<1>4. n \in Nat /\ \A s \in S : s <= n
  BY <1>1, <1>3
<1>5. n \in S
  <2>1. SUFFICES ASSUME n \notin S PROVE FALSE
    OBVIOUS
  <2>2. \A s \in S : s <= n - 1 /\ s \in Nat
    BY <1>4, <2>1
  <2>3. n - 1 \in Nat
    <3>1. PICK s \in S : s <= n - 1 /\ s \in Nat
      BY <2>2
    <3> QED BY <1>4, <3>1
  <2>4. n - 1 \in T
    BY <1>1, <2>2, <2>3
  <2> QED BY <1>3, <1>4, <2>4
<1>6. \E m \in S : \A s \in S : s <= m
  BY <1>4, <1>5
<1> QED BY <1>6, Zenon DEF ThreadSafe!MaxOf

(* In a finite set of naturals every rank below its size is taken.         *)
LEMMA Ranked ==
  ASSUME NEW S \in SUBSET Nat, IsFiniteSet(S),
         NEW rank \in Nat, rank < Cardinality(S)
  PROVE  \E p \in S : Cardinality({q \in S : q < p}) = rank
<1> DEFINE Below(p) == {q \in S : q < p}
           Free == {r \in Nat : /\ r < Cardinality(S)
                                /\ \A p \in S : Cardinality(Below(p)) # r}
<1>1. Cardinality(S) \in Nat
  BY FS_CardinalityType
<1>2. SUFFICES ASSUME Free # {} PROVE FALSE
  OBVIOUS
<1>3. PICK r \in Free : \A k \in Free : r <= k
  <2>1. Free \in SUBSET Nat
    OBVIOUS
  <2> QED BY <1>2, <2>1, Least
<1>4. r \in Nat /\ r < Cardinality(S) /\ \A p \in S : Cardinality(Below(p)) # r
  BY <1>3
<1>5. CASE r = 0
  <2>1. S # {}
    BY <1>1, <1>4, FS_EmptySet
  <2>2. PICK p \in S : \A q \in S : p <= q
    BY <2>1, Least
  <2>3. Below(p) = {}
    <3>1. \A q \in S : q \in Nat /\ p \in Nat /\ p <= q
      BY <2>2
    <3>2. \A q \in S : ~(q < p)
      BY <3>1
    <3> QED BY <3>2
  <2> QED BY <1>4, <1>5, <2>3, FS_EmptySet
<1>6. CASE r # 0
  <2>1. r - 1 \in Nat /\ r - 1 < Cardinality(S) /\ r - 1 \notin Free
    BY <1>1, <1>3, <1>4, <1>6
  <2>2. PICK p \in S : Cardinality(Below(p)) = r - 1
    BY <2>1
  <2>3. IsFiniteSet(Below(p)) /\ p \notin Below(p)
    <3>1. Below(p) \in SUBSET S
      OBVIOUS
    <3> QED BY <3>1, FS_Subset
  <2>4. PICK upTo : upTo = Below(p) \cup {p}
    OBVIOUS
  <2>5. Cardinality(upTo) = r
    <3>1. Cardinality(Below(p) \cup {p}) = Cardinality(Below(p)) + 1
      BY <2>3, FS_AddElement
    <3> QED BY <1>4, <2>2, <2>4, <3>1
  <2>6. upTo # S
    BY <1>4, <2>5, <1>1
  <2>7. S \ upTo \in SUBSET Nat /\ S \ upTo # {}
    BY <2>4, <2>6
  <2>8. PICK n \in S \ upTo : \A k \in S \ upTo : n <= k
    BY <2>7, Least
  <2>9. Below(n) = upTo
    <3>1. ASSUME NEW q \in S, q < n PROVE q \in upTo
      BY <2>8, <3>1
    <3>2. ASSUME NEW q \in upTo PROVE q \in S /\ q < n
      <4>1. n > p
        BY <2>4, <2>8
      <4> QED BY <2>4, <3>2, <4>1
    <3>3. upTo \subseteq S
      BY <3>2
    <3> QED BY <3>1, <3>2, <3>3
  <2> QED BY <1>4, <2>5, <2>8, <2>9
<1> QED BY <1>5, <1>6

(* What is submitted goes to the pool in the order of the positions.       *)
LEMMA InOrderIs ==
  ASSUME NEW S \in SUBSET Positions
  PROVE  ThreadSafe!InOrder(S) \in Seq(Positions)
<1>1. IsFiniteSet(Positions) /\ Positions \subseteq Nat
  BY ThreadConstants, FS_Interval DEF Positions
<1>2. IsFiniteSet(S) /\ S \in SUBSET Nat
  BY <1>1, FS_Subset
<1>3. PICK size \in Nat : size = Cardinality(S)
  BY <1>2, FS_CardinalityType
<1>4. ThreadSafe!InOrder(S)
        = [i \in 1..size |-> CHOOSE p \in S : Cardinality({q \in S : q < p}) = i - 1]
  BY <1>3, Zenon DEF ThreadSafe!InOrder, ThreadSafe!Cardinality, Cardinality
<1>5. ASSUME NEW i \in 1..size
      PROVE  (CHOOSE p \in S : Cardinality({q \in S : q < p}) = i - 1) \in Positions
  <2>1. i - 1 \in Nat /\ i - 1 < Cardinality(S)
    BY <1>3
  <2>2. \E p \in S : Cardinality({q \in S : q < p}) = i - 1
    BY <1>2, <2>1, Ranked
  <2>3. (CHOOSE p \in S : Cardinality({q \in S : q < p}) = i - 1) \in S
    BY <2>2
  <2> QED BY <2>3
<1>6. PICK made : made = [i \in 1..size |->
                            CHOOSE p \in S : Cardinality({q \in S : q < p}) = i - 1]
  OBVIOUS
<1>7. made \in [1..size -> Positions]
  BY <1>5, <1>6
<1>8. made \in Seq(Positions)
  BY <1>7
<1> QED BY <1>4, <1>6, <1>8

LEMMA SubmittedIs ==
  ASSUME NEW it \in ThreadIt
  PROVE  /\ ThreadSafe!Submitted(it) \in SUBSET Positions
         /\ ThreadSafe!NextSubmit(it, ThreadSafe!Submitted(it)) \in Nat
<1>1. it.next \in Nat
  BY DEF ThreadIt
<1>2. PICK submitted : submitted = ThreadSafe!Submitted(it)
  OBVIOUS
<1>3. submitted \in SUBSET (it.next..(Samples - 1))
  BY <1>2 DEF ThreadSafe!Submitted
<1>4. submitted \in SUBSET Positions
  BY <1>1, <1>3, ThreadConstants DEF Positions
<1>5. ThreadSafe!NextSubmit(it, submitted) \in Nat
  <2>1. CASE submitted = {}
    BY <1>1, <2>1, ThreadConstants DEF ThreadSafe!NextSubmit
  <2>2. CASE submitted # {}
    <3>1. submitted \in SUBSET Nat /\ \A s \in submitted : s <= Samples
      BY <1>4, ThreadConstants DEF Positions
    <3>2. ThreadSafe!MaxOf(submitted) \in submitted
      BY <2>2, <3>1, ThreadConstants, Greatest
    <3>3. ThreadSafe!MaxOf(submitted) + 1 \in Nat
      <4>1. PICK last \in submitted : last = ThreadSafe!MaxOf(submitted)
        BY <3>2
      <4>2. last \in Nat
        BY <3>1
      <4> QED BY <4>1, <4>2
    <3> QED BY <1>1, <3>3, ThreadConstants DEF ThreadSafe!NextSubmit
  <2> QED BY <2>1, <2>2
<1> QED BY <1>2, <1>4, <1>5

(* A state that differs in its pool and in what its iterator waits for.    *)
SamePass(t, f) ==
    /\ f.config = t.config /\ f.live = t.live /\ f.call = t.call
    /\ f.resume = t.resume /\ f.saved = t.saved /\ f.got = t.got
    /\ f.it.position = t.it.position /\ f.it.base = t.it.base
    /\ f.it.ahead = t.it.ahead /\ f.it.complete = t.it.complete

(* The loop that fills the frontier submits positions and nothing else.    *)
LEMMA FilledIs ==
  ASSUME NEW t, t \in ThreadState
  PROVE  ThreadSafe!Filled(t) \in ThreadState /\ SamePass(t, ThreadSafe!Filled(t))
<1>1. t.it \in ThreadIt /\ t.pool \in ThreadPool
  BY DEF ThreadState
<1>2. PICK submitted : submitted = ThreadSafe!Submitted(t.it)
  OBVIOUS
<1>3. PICK next \in Nat : next = ThreadSafe!NextSubmit(t.it, submitted)
  BY <1>1, <1>2, SubmittedIs
<1>4. submitted \in SUBSET Positions
  BY <1>1, <1>2, SubmittedIs
<1>5. PICK more \in Seq(Positions) : more = ThreadSafe!InOrder(submitted)
  BY <1>4, InOrderIs
<1>6. ThreadSafe!Filled(t)
        = [t EXCEPT !.it.futures = @ \cup submitted, !.it.next = next,
                    !.pool.queue = @ \o more]
  BY <1>2, <1>3, <1>5 DEF ThreadSafe!Filled
<1>7. PICK it : it = [t.it EXCEPT !.futures = @ \cup submitted, !.next = next]
  OBVIOUS
<1>8. PICK pool : pool = [t.pool EXCEPT !.queue = @ \o more]
  OBVIOUS
<1>9. it \in ThreadIt /\ it.position = t.it.position /\ it.base = t.it.base
      /\ it.ahead = t.it.ahead /\ it.complete = t.it.complete
  BY <1>1, <1>4, <1>7 DEF ThreadIt
<1>10. pool \in ThreadPool
  <2>1. t.pool.queue \in Seq(Positions)
    BY <1>1 DEF ThreadPool
  <2>2. PICK queue \in Seq(Positions) : queue = t.pool.queue \o more
    <3>1. PICK old \in Seq(Positions) : old = t.pool.queue
      BY <2>1
    <3>2. old \o more \in Seq(Positions)
      BY <1>5
    <3> QED BY <3>1, <3>2
  <2>3. pool = [t.pool EXCEPT !.queue = queue]
    BY <1>8, <2>2
  <2> QED BY <1>1, <2>2, <2>3 DEF ThreadPool
<1>11. ThreadSafe!Filled(t) = [t EXCEPT !.it = it, !.pool = pool]
  BY <1>1, <1>6, <1>7, <1>8 DEF ThreadState, ThreadIt, ThreadPool
<1>12. ThreadSafe!Filled(t) \in ThreadState
  BY <1>9, <1>10, <1>11 DEF ThreadState
<1>13. SamePass(t, ThreadSafe!Filled(t))
  BY <1>9, <1>11 DEF SamePass, ThreadState
<1> QED BY <1>12, <1>13

(* The prefix takes in what it reaches.                                    *)
LEMMA ReachedIs ==
  ASSUME NEW base \in Nat, NEW all \in SUBSET Ordinals, base <= ThreadSafe!Batches
  PROVE  /\ ThreadSafe!Reached(base, all) \in base..ThreadSafe!Batches
         /\ ThreadSafe!Reached(base, all) \notin all
         /\ \A b \in base..(ThreadSafe!Reached(base, all) - 1) : b \in all
<1>1. PICK count \in Nat : count = ThreadSafe!Batches
  BY BatchFacts
<1>2. all \subseteq 0..(count - 1)
  BY <1>1 DEF Ordinals
<1>3. PICK T : T = {n \in Nat : n >= base /\ n \notin all}
  OBVIOUS
<1>4. count \in T
  BY <1>1, <1>2, <1>3
<1>5. T \in SUBSET Nat /\ T # {}
  BY <1>3, <1>4
<1>6. PICK n \in T : \A k \in T : n <= k
  BY <1>5, Least
<1>7. n \in base..count /\ n \notin all
  BY <1>3, <1>4, <1>6
<1>8. \A b \in base..(n - 1) : b \in all
  BY <1>3, <1>6
<1>9. \E m \in base..count : (\A b \in base..(m - 1) : b \in all) /\ m \notin all
  BY <1>7, <1>8
<1>10. PICK r : r = CHOOSE m \in base..count :
                       (\A b \in base..(m - 1) : b \in all) /\ m \notin all
  OBVIOUS
<1>11. r \in base..count /\ (\A b \in base..(r - 1) : b \in all) /\ r \notin all
  BY <1>9, <1>10, Zenon
<1>12. r = ThreadSafe!Reached(base, all)
  BY <1>1, <1>10 DEF ThreadSafe!Reached
<1> QED BY <1>1, <1>11, <1>12

(* One coordinate stands for what another does and for one more batch.     *)
Gains(base, ahead, batch, to, left) ==
    /\ batch \in Ordinals /\ ~(batch < base \/ batch \in ahead)
    /\ \A b \in Ordinals :
          (b < to \/ b \in left) <=> (b < base \/ b \in ahead \/ b = batch)

(* mark adds the batch to those the coordinate stands for, and no other.   *)
Moved(base, ahead, batch, to, left) ==
    LET all == ahead \cup {batch}
    IN  to = ThreadSafe!Reached(base, all) /\ left = {b \in all : b > to}

LEMMA MarkedIs ==
  ASSUME NEW base, NEW ahead, Marking(base, ahead), NEW batch, batch \in Ordinals,
         ~(batch < base \/ batch \in ahead),
         NEW to, NEW left, Moved(base, ahead, batch, to, left)
  PROVE  Marking(to, left) /\ Gains(base, ahead, batch, to, left)
<1>0. PICK all : all = ahead \cup {batch}
  OBVIOUS
<1>00. to = ThreadSafe!Reached(base, all) /\ left = {b \in all : b > to}
  BY <1>0 DEF Moved
<1>1. PICK count \in Nat : count = ThreadSafe!Batches
  BY BatchFacts
<1>2. base \in Nat /\ base <= count /\ ahead \subseteq Ordinals
  BY <1>1 DEF Marking
<1>3. all \in SUBSET Ordinals /\ Ordinals = 0..(count - 1)
  BY <1>0, <1>1, <1>2 DEF Ordinals
<1>4. to \in base..count /\ to \notin all /\ \A b \in base..(to - 1) : b \in all
  BY <1>00, <1>1, <1>2, <1>3, ReachedIs
<1>5. Marking(to, left)
  <2>1. to \in 0..ThreadSafe!Batches
    BY <1>1, <1>2, <1>4
  <2>2. left \in SUBSET Ordinals /\ \A b \in left : b > to
    BY <1>00, <1>3
  <2> QED BY <2>1, <2>2 DEF Marking
<1>6. ASSUME NEW b \in Ordinals, b < to \/ b \in left
      PROVE  b < base \/ b \in ahead \/ b = batch
  <2>1. CASE b \in left
    BY <1>0, <1>00, <2>1
  <2>2. CASE b < to
    <3>1. b < base \/ b \in base..(to - 1)
      BY <1>2, <1>3, <1>4, <2>2
    <3> QED BY <1>0, <1>4, <3>1
  <2> QED BY <1>6, <2>1, <2>2
<1>7. ASSUME NEW b \in Ordinals, b < base \/ b \in ahead \/ b = batch
      PROVE  b < to \/ b \in left
  <2>1. CASE b < base
    BY <1>2, <1>3, <1>4, <2>1
  <2>2. CASE b \in all
    BY <1>00, <1>2, <1>3, <1>4, <2>2
  <2> QED BY <1>0, <1>7, <2>1, <2>2
<1>8. Gains(base, ahead, batch, to, left)
  BY <1>6, <1>7 DEF Gains
<1> QED BY <1>5, <1>8

LEMMA WithinFinite ==
  ASSUME NEW base, NEW ahead
  PROVE  /\ IsFiniteSet(Within(base, ahead))
         /\ Cardinality(Within(base, ahead)) \in Nat
         /\ Cardinality(Within(base, ahead)) <= Samples
         /\ Cardinality(Within(base, ahead)) = Samples => Within(base, ahead) = Positions
<1>1. IsFiniteSet(Positions) /\ Cardinality(Positions) = Samples
  BY ThreadConstants, FS_Interval DEF Positions
<1>2. Within(base, ahead) \in SUBSET Positions
  BY DEF Within
<1> QED BY <1>1, <1>2, FS_Subset, FS_CardinalityType

(* A delivered batch adds its samples.                                     *)
LEMMA WithinMore ==
  ASSUME NEW base, NEW ahead, NEW batch, NEW to, NEW left,
         Gains(base, ahead, batch, to, left)
  PROVE  Cardinality(Within(to, left))
           = Cardinality(Within(base, ahead))
               + ThreadSafe!Cardinality(ThreadSafe!Members(batch))
<1>1. PICK members : members = ThreadSafe!Members(batch)
  OBVIOUS
<1>0. /\ batch \in Ordinals /\ ~(batch < base \/ batch \in ahead)
      /\ \A b \in Ordinals :
           (b < to \/ b \in left) <=> (b < base \/ b \in ahead \/ b = batch)
  BY DEF Gains
<1>2. members = {p \in Positions : ThreadSafe!Batch(p) = batch}
  BY <1>0, <1>1, MembersAre
<1>3. \A p \in Positions : ThreadSafe!Batch(p) \in Ordinals
  BY BatchFacts
<1>4. Within(to, left) = Within(base, ahead) \cup members
  BY <1>0, <1>2, <1>3 DEF Within
<1>5. Within(base, ahead) \cap members = {}
  BY <1>0, <1>2 DEF Within
<1>6. IsFiniteSet(members) /\ IsFiniteSet(Within(base, ahead))
  <2>1. IsFiniteSet(Positions) /\ members \in SUBSET Positions
    BY <1>2, ThreadConstants, FS_Interval DEF Positions
  <2> QED BY <2>1, FS_Subset, WithinFinite
<1>7. Cardinality(Within(base, ahead) \cup members)
        = Cardinality(Within(base, ahead)) + Cardinality(members) - Cardinality({})
  BY <1>5, <1>6, FS_Union
<1>8. /\ Cardinality(members) \in Nat /\ Cardinality(Within(base, ahead)) \in Nat
      /\ Cardinality({}) = 0
  BY <1>6, FS_CardinalityType, FS_EmptySet
<1>9. Cardinality(members) = ThreadSafe!Cardinality(ThreadSafe!Members(batch))
  BY <1>1, ThreadCardinality
<1>10. Cardinality(Within(base, ahead) \cup members)
         = Cardinality(Within(base, ahead)) + Cardinality(members)
  BY <1>7, <1>8
<1> QED BY <1>4, <1>9, <1>10

(* Whoever has all samples has every batch.                                *)
LEMMA AllWithin ==
  ASSUME NEW base, NEW ahead, Cardinality(Within(base, ahead)) >= Samples
  PROVE  \A b \in Ordinals : b < base \/ b \in ahead
<1>1. Within(base, ahead) = Positions
  BY WithinFinite, ThreadConstants
<1>2. SUFFICES ASSUME NEW b \in Ordinals PROVE b < base \/ b \in ahead
  OBVIOUS
<1>3. PICK p : p = b * Width
  OBVIOUS
<1>4. p \in Nat /\ p < Samples /\ b \in Nat
  BY <1>3, BatchFacts
<1>5. p \in Positions
  BY <1>4, ThreadConstants DEF Positions
<1>6. PICK q : q = ThreadSafe!Batch(p)
  OBVIOUS
<1>7. q \in Nat /\ q * Width <= p /\ p < (q * Width) + Width
  BY <1>5, <1>6, BatchFacts
<1>8. b * Width <= p /\ p < (b * Width) + Width
  BY <1>3, <1>4, ThreadConstants
<1>9. q = b
  BY <1>4, <1>7, <1>8, ThreadConstants, SameQuotient
<1> QED BY <1>1, <1>5, <1>6, <1>9 DEF Within

(* One more batch in the hands of the consumer, not one it has.            *)
LEMMA DeliveredMarks ==
  ASSUME NEW got, got \in ThreadGot, NEW base, NEW ahead,
         got.times = Marks(base, ahead),
         NEW batch, NEW to, NEW left, Gains(base, ahead, batch, to, left)
  PROVE  /\ ThreadSafe!Delivered(got, batch) \in ThreadGot
         /\ ThreadSafe!Delivered(got, batch).times = Marks(to, left)
<1>0. /\ batch \in Ordinals /\ ~(batch < base \/ batch \in ahead)
      /\ \A b \in Ordinals :
           (b < to \/ b \in left) <=> (b < base \/ b \in ahead \/ b = batch)
  BY DEF Gains
<1>1. PICK times : times = got.times
  OBVIOUS
<1>2. times \in [Ordinals -> Int] /\ times = Marks(base, ahead) /\ times[batch] = 0
  BY <1>0, <1>1 DEF ThreadGot, Marks
<1>3. PICK more : more = [times EXCEPT ![batch] = @ + 1]
  OBVIOUS
<1>4. more \in [Ordinals -> Int]
  BY <1>0, <1>2, <1>3
<1>5. \A b \in Ordinals : more[b] = IF b = batch THEN 1 ELSE times[b]
  BY <1>0, <1>2, <1>3
<1>6. \A b \in Ordinals : more[b] = Marks(to, left)[b]
  BY <1>0, <1>2, <1>5 DEF Marks
<1>7. more = Marks(to, left)
  BY <1>4, <1>6 DEF Marks
<1>8. ThreadSafe!Delivered(got, batch).times = more
  BY <1>1, <1>3 DEF ThreadSafe!Delivered
<1>9. ThreadSafe!Delivered(got, batch).inOrder \in BOOLEAN
  BY DEF ThreadSafe!Delivered
<1>10. PICK order \in BOOLEAN : order = ThreadSafe!Delivered(got, batch).inOrder
  BY <1>9
<1>11. ThreadSafe!Delivered(got, batch) = [times |-> more, inOrder |-> order]
  BY <1>1, <1>3, <1>10 DEF ThreadSafe!Delivered
<1>12. ThreadSafe!Delivered(got, batch) \in ThreadGot
  BY <1>4, <1>11 DEF ThreadGot
<1> QED BY <1>7, <1>8, <1>12

(* In order the next batch takes its turn.                                 *)
LEMMA DeliveredNext ==
  ASSUME NEW config, NEW got \in ThreadGot, NEW k, k \in Ordinals, GotGood(config, k, {}, got)
  PROVE  /\ ThreadSafe!Delivered(got, k) \in ThreadGot
         /\ GotGood(config, k + 1, {}, ThreadSafe!Delivered(got, k))
<1>1. PICK count \in Nat : count = ThreadSafe!Batches
  BY BatchFacts
<1>2. Ordinals = 0..(count - 1)
  BY <1>1 DEF Ordinals
<1>3. got.times = Marks(k, {}) /\ k \in Nat /\ k < count
  BY <1>1, <1>2 DEF GotGood
<1>4. Gains(k, {}, k, k + 1, {})
  <2>1. \A b \in Ordinals : (b < k + 1 \/ b \in {}) <=> (b < k \/ b \in {} \/ b = k)
    BY <1>2, <1>3
  <2>2. ~(k < k \/ k \in {})
    BY <1>3
  <2> QED BY <2>1, <2>2 DEF Gains
<1>5. got \in ThreadGot /\ got.times = Marks(k, {})
  BY <1>3
<1>6. PICK next : next = ThreadSafe!Delivered(got, k)
  OBVIOUS
<1>7. next \in ThreadGot /\ next.times = Marks(k + 1, {})
  BY ONLY <1>4, <1>5, <1>6, DeliveredMarks
<1>8. \A b \in Ordinals : got.times[b] = IF b < k THEN 1 ELSE 0
  BY <1>3 DEF Marks
<1>9. got.inOrder => next.inOrder
  BY <1>6, <1>8 DEF ThreadSafe!Delivered, Ordinals
<1>10. k + 1 \in 0..ThreadSafe!Batches
  BY <1>1, <1>3
<1>11. ~config.onCompletion => got.inOrder
  BY DEF GotGood
<1>12. GotGood(config, k + 1, {}, next)
  <2>1. Marking(k + 1, {})
    BY <1>10 DEF Marking
  <2> QED BY <2>1, <1>7, <1>9, <1>10, <1>11 DEF GotGood
<1> QED BY <1>6, <1>7, <1>12

(* Where a call in order is, and where it goes.                            *)
LEMMA PlaceIs ==
  ASSUME NEW k \in Nat, NEW p \in Nat, p < Samples, PlacedIn(k, p, "next")
  PROVE  /\ k \in Ordinals /\ ThreadSafe!Batch(p) = k
         /\ p + 1 < ThreadSafe!Stop(k) => PlacedIn(k, p + 1, "next")
         /\ ~(p + 1 < ThreadSafe!Stop(k)) => PlacedIn(k + 1, p + 1, "idle")
<1>1. PICK length \in Nat : length = Samples
  BY ThreadConstants
<1>2. PICK full \in Nat : full = k * Width
  <2>1. k * Width \in Nat
    BY ThreadConstants
  <2> QED BY <2>1
<1>3. PICK start : start = ThreadSafe!Lesser(Samples, k * Width)
  OBVIOUS
<1>4. start = IF length < full THEN length ELSE full
  BY <1>1, <1>2, <1>3 DEF ThreadSafe!Lesser
<1>5. p = start \/ (start <= p /\ p < ThreadSafe!Stop(k))
  BY <1>3 DEF PlacedIn
<1>6. full < length /\ start = full /\ full <= p
  BY <1>1, <1>4, <1>5
<1>7. k \in Ordinals
  BY <1>1, <1>2, <1>6, BatchFacts DEF Ordinals
<1>8. PICK stop \in Nat : stop = ThreadSafe!Stop(k)
  BY <1>7, MembersAre
<1>9. full < stop /\ p < stop
  BY <1>2, <1>5, <1>6, <1>7, <1>8, MembersAre
<1>10. p \in ThreadSafe!Members(k)
  BY <1>2, <1>6, <1>8, <1>9 DEF ThreadSafe!Members
<1>11. ThreadSafe!Batch(p) = k
  BY <1>7, <1>10, MembersAre
<1>12. ASSUME p + 1 < stop PROVE PlacedIn(k, p + 1, "next")
  <2>1. start <= p + 1 /\ p + 1 < ThreadSafe!Stop(k)
    BY <1>6, <1>8, <1>12
  <2> QED BY <1>3, <2>1 DEF PlacedIn
<1>13. ASSUME ~(p + 1 < stop) PROVE PlacedIn(k + 1, p + 1, "idle")
  <2>1. p + 1 = stop
    BY <1>9, <1>13
  <2>2. stop = ThreadSafe!Lesser(Samples, (k + 1) * Width)
    BY <1>7, <1>8, MembersAre
  <2> QED BY <2>1, <2>2 DEF PlacedIn
<1> QED BY <1>7, <1>8, <1>11, <1>12, <1>13

(* At the end every batch was delivered.                                   *)
LEMMA PlacedLast ==
  ASSUME NEW k \in 0..ThreadSafe!Batches, NEW p \in Nat, p >= Samples,
         NEW call, PlacedIn(k, p, call)
  PROVE  /\ PlacedIn(k, p, "idle")
         /\ \A b \in Ordinals : b < k
<1>1. PICK length \in Nat : length = Samples
  BY ThreadConstants
<1>2. k \in Nat
  BY BatchFacts
<1>3. PICK full \in Nat : full = k * Width
  <2>1. k * Width \in Nat
    BY <1>2, ThreadConstants
  <2> QED BY <2>1
<1>4. PICK start : start = ThreadSafe!Lesser(Samples, k * Width)
  OBVIOUS
<1>5. start = IF length < full THEN length ELSE full
  BY <1>1, <1>3, <1>4 DEF ThreadSafe!Lesser
<1>6. p = start \/ p < ThreadSafe!Stop(k)
  BY <1>4 DEF PlacedIn
<1>7. ThreadSafe!Stop(k) \in Int /\ ThreadSafe!Stop(k) <= length
  <2>1. PICK end \in Nat : end = (k * Width) + Width
    BY <1>3, ThreadConstants
  <2>2. ThreadSafe!Stop(k) = IF end < length THEN end ELSE length
    BY <1>1, <2>1 DEF ThreadSafe!Stop, ThreadSafe!Lesser
  <2> QED BY <2>2
<1>9. p = start /\ length <= full
  BY <1>1, <1>5, <1>6, <1>7
<1>10. k \notin Ordinals
  BY <1>1, <1>3, <1>9, BatchFacts
<1>11. \A b \in Ordinals : b < k
  BY <1>2, <1>10, BatchFacts DEF Ordinals
<1> QED BY <1>4, <1>9, <1>11 DEF PlacedIn

(* The cursor that is saved in order counts the batches delivered.         *)
LEMMA CursorBack ==
  ASSUME NEW k, k \in 0..ThreadSafe!Batches, NEW p, p = ThreadSafe!Lesser(Samples, k * Width)
  PROVE  (p + Width - 1) \div Width = k
<1>1. PICK length \in Nat : length = Samples
  BY ThreadConstants
<1>2. PICK size \in Nat : size = Width /\ size > 0
  BY ThreadConstants
<1>3. k \in Nat
  BY BatchFacts
<1>4. PICK full \in Nat : full = k * size
  <2>1. k * size \in Nat
    BY <1>3
  <2> QED BY <2>1
<1>5. p = IF length < full THEN length ELSE full
  BY <1>1, <1>2, <1>4 DEF ThreadSafe!Lesser
<1>6. CASE k \in Ordinals
  <2>1. p = full
    BY <1>1, <1>2, <1>4, <1>5, <1>6, BatchFacts
  <2>2. PICK n \in Nat : n = p + size - 1
    BY <1>2, <1>4, <2>1
  <2>3. PICK q : q = n \div size
    OBVIOUS
  <2>4. q \in Nat /\ q * size <= n /\ n < (q * size) + size
    BY <1>2, <2>2, <2>3, Quotient
  <2>5. k * size <= n /\ n < (k * size) + size
    BY <1>2, <1>4, <2>1, <2>2
  <2>6. q = k
    BY <1>3, <2>4, <2>5, SameQuotient
  <2> QED BY <1>2, <2>2, <2>3, <2>6
<1>7. CASE k \notin Ordinals
  <2>1. k = ThreadSafe!Batches
    BY <1>3, <1>7, BatchFacts DEF Ordinals
  <2>2. p = length
    BY <1>1, <1>2, <1>3, <1>4, <1>5, <2>1, BatchFacts
  <2> QED BY <1>1, <2>1, <2>2 DEF ThreadSafe!Batches
<1> QED BY <1>6, <1>7

(* A restored iterator starts behind the samples that were delivered.      *)
LEMMA RestoredIs ==
  ASSUME NEW cursor, NEW ahead, Marking(cursor, ahead)
  PROVE  /\ ThreadSafe!Lesser(Samples, cursor * Width) \in Nat
         /\ ThreadSafe!RestoredSamples(ahead) \in Nat
         /\ Cardinality(Within(cursor, ahead))
              = ThreadSafe!Lesser(Samples, cursor * Width)
                  + ThreadSafe!RestoredSamples(ahead)
         /\ ahead = {} => ThreadSafe!RestoredSamples(ahead) = 0
<1>1. PICK length \in Nat : length = Samples
  BY ThreadConstants
<1>2. PICK size \in Nat : size = Width /\ size > 0
  BY ThreadConstants
<1>3. cursor \in Nat /\ \A b \in ahead : b \in Nat /\ b > cursor
  BY BatchFacts DEF Marking
<1>4. PICK full \in Nat : full = cursor * size
  <2>1. cursor * size \in Nat
    BY <1>3
  <2> QED BY <2>1
<1>5. PICK start \in Nat : start = ThreadSafe!Lesser(Samples, cursor * Width)
  <2>1. ThreadSafe!Lesser(Samples, cursor * Width) \in Nat
    BY <1>1, <1>2, <1>4 DEF ThreadSafe!Lesser
  <2> QED BY <2>1
<1>6. start = IF length < full THEN length ELSE full
  BY <1>1, <1>2, <1>4, <1>5 DEF ThreadSafe!Lesser
<1>7. ASSUME NEW p \in Positions
      PROVE  ThreadSafe!Batch(p) < cursor <=> p < start
  <2>1. PICK q : q = ThreadSafe!Batch(p)
    OBVIOUS
  <2>2. q \in Nat /\ q * size <= p /\ p < (q * size) + size /\ p \in Nat /\ p < length
    BY <1>1, <1>2, <2>1, BatchFacts DEF Positions
  <2>3. q * size \in Nat
    BY <2>2
  <2>4. CASE q < cursor
    <3>1. (q * size) + size <= cursor * size
      BY <1>3, <2>2, <2>4, Multiples
    <3>2. p < full
      BY <1>2, <1>4, <2>2, <2>3, <3>1
    <3> QED BY <1>6, <2>1, <2>2, <2>4, <3>2
  <2>5. CASE cursor < q
    <3>1. (cursor * size) + size <= q * size
      BY <1>3, <2>2, <2>5, Multiples
    <3>2. full <= p
      BY <1>2, <1>4, <2>2, <2>3, <3>1
    <3> QED BY <1>3, <1>6, <2>1, <2>2, <2>5, <3>2
  <2>6. CASE q = cursor
    BY <1>3, <1>4, <1>6, <2>1, <2>2, <2>6
  <2> QED BY <1>3, <2>2, <2>4, <2>5, <2>6
<1>8. PICK first : first = 0..(start - 1)
  OBVIOUS
<1>9. PICK restored : restored = {p \in Positions : ThreadSafe!Batch(p) \in ahead}
  OBVIOUS
<1>10. \A p \in Positions : p \in first <=> p < start
  BY <1>5, <1>8, BatchFacts
<1>11. first \subseteq Positions
  BY <1>1, <1>4, <1>5, <1>6, <1>8 DEF Positions
<1>12. Within(cursor, ahead) = first \cup restored
  BY <1>7, <1>9, <1>10, <1>11 DEF Within
<1>13. first \cap restored = {}
  <2>1. ASSUME NEW p \in Positions, ThreadSafe!Batch(p) \in ahead PROVE ~(p < start)
    <3>1. ThreadSafe!Batch(p) > cursor /\ ThreadSafe!Batch(p) \in Nat
      BY <1>3, <2>1
    <3>2. ~(ThreadSafe!Batch(p) < cursor)
      BY <1>3, <3>1
    <3> QED BY <1>7, <3>2
  <2> QED BY <1>9, <1>10, <2>1
<1>14. /\ IsFiniteSet(first) /\ Cardinality(first) = start
       /\ IsFiniteSet(restored) /\ Cardinality(restored) \in Nat
  <2>1. IsFiniteSet(Positions) /\ restored \in SUBSET Positions
    BY <1>9, ThreadConstants, FS_Interval DEF Positions
  <2>2. IsFiniteSet(first) /\ Cardinality(first) = start
    <3>1. PICK last \in Int : last = start - 1
      BY <1>5
    <3>2. IsFiniteSet(0..last)
          /\ Cardinality(0..last) = IF 0 > last THEN 0 ELSE last - 0 + 1
      BY FS_Interval
    <3> QED BY <1>5, <1>8, <3>1, <3>2
  <2>3. IsFiniteSet(restored)
    BY <2>1, FS_Subset
  <2>4. Cardinality(restored) \in Nat
    BY <2>3, FS_CardinalityType
  <2> QED BY <2>2, <2>3, <2>4
<1>15. Cardinality(first \cup restored)
         = Cardinality(first) + Cardinality(restored) - Cardinality({})
  BY <1>13, <1>14, FS_Union
<1>16. Cardinality({}) = 0
  BY FS_EmptySet
<1>17. ThreadSafe!RestoredSamples(ahead) = Cardinality(restored)
  <2>1. ThreadSafe!RestoredSamples(ahead) = ThreadSafe!Cardinality(restored)
    BY <1>9 DEF ThreadSafe!RestoredSamples, ThreadSafe!Position, Positions
  <2> QED BY <2>1, ThreadCardinality
<1>18. Cardinality(Within(cursor, ahead)) = start + Cardinality(restored)
  BY <1>12, <1>14, <1>15, <1>16
<1>19. ahead = {} => Cardinality(restored) = 0
  BY <1>9, <1>16
<1> QED BY <1>5, <1>14, <1>17, <1>18, <1>19

(* The bitmap names the batches it was made of.                            *)
LEMMA DecodedBack ==
  ASSUME NEW base, NEW ahead, Marking(base, ahead)
  PROVE  ThreadSafe!Decoded(base, ThreadSafe!Bitmap(ahead, base)) = ahead
<1>1. base \in Int /\ \A b \in ahead : b \in Int
  BY BatchFacts DEF Marking
<1>2. PICK bits : bits = {b - base : b \in ahead}
  OBVIOUS
<1>3. {base + bit : bit \in bits} = ahead
  <2>1. \A b \in ahead : base + (b - base) = b
    BY <1>1
  <2> QED BY <1>2, <2>1
<1> QED BY <1>2, <1>3 DEF ThreadSafe!Decoded, ThreadSafe!Bitmap

LEMMA ThreadKept ==
  ASSUME NEW t, ThreadGood(t), NEW f, f \in ThreadState, SamePass(t, f)
  PROVE  ThreadGood(f)
<1>1. Remembered(f.config, f.saved, f.resume)
  BY DEF ThreadGood, SamePass
<1>2. Passing(t.config, t.it, t.got, t.live, t.call)
  BY DEF ThreadGood
<1>3. /\ f.config = t.config /\ f.live = t.live /\ f.call = t.call
      /\ f.got = t.got /\ f.it.position = t.it.position /\ f.it.base = t.it.base
      /\ f.it.ahead = t.it.ahead /\ f.it.complete = t.it.complete
  BY DEF SamePass
<1>4. Passing(f.config, f.it, f.got, f.live, f.call)
  BY <1>2, <1>3 DEF Passing, DeliveredTo
<1> QED BY <1>1, <1>4 DEF ThreadGood

(* The pass begins with nothing.                                           *)
LEMMA NothingIs ==
  /\ ThreadSafe!Nothing \in ThreadGot
  /\ \A config : GotGood(config, 0, {}, ThreadSafe!Nothing)
<1>1. PICK times : times = [b \in Ordinals |-> 0]
  OBVIOUS
<1>2. ThreadSafe!Nothing = [times |-> times, inOrder |-> TRUE]
  BY <1>1 DEF ThreadSafe!Nothing, Ordinals
<1>3. times \in [Ordinals -> Int]
  BY <1>1
<1>4. times = Marks(0, {})
  BY <1>1, BatchFacts DEF Marks
<1>5. Marking(0, {})
  BY BatchFacts DEF Marking
<1>6. ThreadSafe!Nothing \in ThreadGot
  BY <1>2, <1>3 DEF ThreadGot
<1> QED BY <1>2, <1>4, <1>5, <1>6 DEF GotGood

(* No batch is counted twice in a good pass.                               *)
LEMMA GotOnce ==
  ASSUME NEW config, NEW base, NEW ahead, NEW got, GotGood(config, base, ahead, got)
  PROVE  /\ \A b \in Ordinals : got.times[b] <= 1
         /\ ~config.onCompletion => got.inOrder
         /\ (\A b \in Ordinals : b < base \/ b \in ahead)
               => \A b \in Ordinals : got.times[b] = 1
  BY DEF GotGood, Marks

(* An iterator that is gone leaves what it delivered, or nothing.          *)
LEMMA ThreadGone ==
  ASSUME NEW t, ThreadGood(t), NEW f, f \in ThreadState,
         Remembered(f.config, f.saved, f.resume), f.config = t.config,
         f.live = FALSE, f.call = "idle", f.got = t.got \/ f.got = ThreadSafe!Nothing
  PROVE  ThreadGood(f)
<1>1. \A b \in Ordinals : f.got.times[b] <= 1
  <2>1. CASE f.got = t.got
    BY <2>1 DEF ThreadGood, Passing
  <2>2. CASE f.got = ThreadSafe!Nothing
    BY <2>2, NothingIs, GotOnce
  <2> QED BY <2>1, <2>2
<1>2. ~f.config.onCompletion => f.got.inOrder
  <2>1. CASE f.got = t.got
    BY <2>1 DEF ThreadGood, Passing
  <2>2. CASE f.got = ThreadSafe!Nothing
    BY <2>2 DEF ThreadSafe!Nothing
  <2> QED BY <2>1, <2>2
<1>3. Passing(f.config, f.it, f.got, f.live, f.call)
  BY <1>1, <1>2 DEF Passing
<1> QED BY <1>3 DEF ThreadGood

LEMMA PoolsAre ==
  /\ ThreadSafe!NewPool \in ThreadPool
  /\ ThreadSafe!NoPool \in ThreadPool
<1>1. << >> \in Seq(Positions)
  OBVIOUS
<1>2. ThreadSafe!NewPool \in ThreadPool
  BY <1>1 DEF ThreadSafe!NewPool, ThreadPool
<1>3. ThreadSafe!NoPool \in ThreadPool
  BY <1>2 DEF ThreadSafe!NoPool, ThreadPool
<1> QED BY <1>2, <1>3

(* A new iterator stands behind what was restored.                         *)
StandsAt(it, cursor, start, ahead) ==
    /\ it \in ThreadIt /\ it.base = cursor /\ it.ahead = ahead
    /\ it.position = start + ThreadSafe!RestoredSamples(ahead)
    /\ it.complete = FALSE

LEMMA NewIteratorIs ==
  ASSUME NEW cursor, NEW ahead, Marking(cursor, ahead), NEW depth, depth \in Int,
         NEW start, start \in Nat, NEW it,
         it = ThreadSafe!NewIterator(cursor, start, ahead, depth)
  PROVE  StandsAt(it, cursor, start, ahead)
<1>1. PICK restored : restored = ThreadSafe!RestoredSamples(ahead)
  OBVIOUS
<1>2. restored \in Nat
  BY <1>1, RestoredIs
<1>3. PICK position \in Nat : position = start + restored
  BY <1>2
<1>4. it = [position |-> position, next |-> start, restored |-> ahead, depth |-> depth,
            futures |-> {}, completed |-> <<>>, ready |-> <<>>, base |-> cursor,
            ahead |-> ahead, complete |-> FALSE]
  BY <1>1, <1>3 DEF ThreadSafe!NewIterator
<1>5. cursor \in Nat /\ ahead \in SUBSET Ordinals
  BY BatchFacts DEF Marking
<1>6. << >> \in Seq(Positions) /\ << >> \in Seq(Ordinals)
  OBVIOUS
<1>7. it \in ThreadIt
  BY <1>3, <1>4, <1>5, <1>6 DEF ThreadIt
<1> QED BY <1>1, <1>3, <1>4, <1>7 DEF StandsAt

LEMMA NoIteratorIs == ThreadSafe!NoIterator \in ThreadIt
<1>1. Marking(0, {})
  BY BatchFacts DEF Marking
<1>2. 0 \in Nat /\ 0 \in Int
  OBVIOUS
<1>3. PICK it : it = ThreadSafe!NewIterator(0, 0, {}, 0)
  OBVIOUS
<1>4. it \in ThreadIt
  <2>1. StandsAt(it, 0, 0, {})
    BY ONLY <1>1, <1>2, <1>3, NewIteratorIs
  <2> QED BY <2>1 DEF StandsAt
<1>5. ThreadSafe!NoIterator = [it EXCEPT !.complete = TRUE]
  BY <1>3 DEF ThreadSafe!NoIterator
<1> QED BY <1>4, <1>5 DEF ThreadIt

LEMMA ThreadClosedIs ==
  ASSUME NEW t, t \in ThreadState, NEW c, c = ThreadSafe!Closed(t)
  PROVE  /\ c \in ThreadState
         /\ c.config = t.config /\ c.saved = t.saved /\ c.resume = t.resume
         /\ c.got = t.got /\ c.call = t.call /\ c.spent = t.spent
         /\ c.live = FALSE
<1>1. PICK stale \in BOOLEAN : stale = (t.stale \/ t.live)
  BY DEF ThreadState
<1>2. c = [t EXCEPT !.live = FALSE, !.stale = stale, !.pool = ThreadSafe!NoPool,
                    !.it = ThreadSafe!NoIterator]
  BY <1>1 DEF ThreadSafe!Closed, ThreadState
<1>3. c \in ThreadState
  BY <1>2, PoolsAre, NoIteratorIs DEF ThreadState
<1> QED BY <1>2, <1>3 DEF ThreadState

(* What the pool and the iterator's queues do is no business of the pass.  *)
LEMMA ThreadWith ==
  ASSUME NEW t, ThreadGood(t), NEW pool, pool \in ThreadPool, NEW it, it \in ThreadIt,
         NEW spent, spent \in Int,
         NEW f, f = [t EXCEPT !.pool = pool, !.it = it, !.spent = spent],
         it.position = t.it.position, it.base = t.it.base,
         it.ahead = t.it.ahead, it.complete = t.it.complete
  PROVE  ThreadGood(f)
<1>1. t \in ThreadState
  BY DEF ThreadGood
<1>2. f \in ThreadState
  BY <1>1 DEF ThreadState
<1>3. SamePass(t, f)
  BY <1>1 DEF SamePass, ThreadState
<1> QED BY ONLY <1>2, <1>3, ThreadKept, ThreadGood(t)

LEMMA ThreadParts ==
  ASSUME NEW t, ThreadGood(t)
  PROVE  /\ t \in ThreadState /\ t.pool \in ThreadPool /\ t.it \in ThreadIt
         /\ t.spent \in Int
  BY DEF ThreadGood, ThreadState

LEMMA ThreadEndOld ==
  ASSUME ThreadGood(thread), ThreadSafe!EndOld
  PROVE  ThreadGood(thread')
<1>1. /\ thread \in ThreadState /\ thread.pool \in ThreadPool
      /\ thread.it \in ThreadIt /\ thread.spent \in Int
  BY ThreadParts
<1>2. PICK pool : pool = [thread.pool EXCEPT !.old = @ - 1]
  OBVIOUS
<1>3. pool \in ThreadPool
  BY <1>1, <1>2 DEF ThreadPool
<1>4. thread' = [thread EXCEPT !.pool.old = @ - 1]
  BY DEF ThreadSafe!EndOld
<1>5. thread' = [thread EXCEPT !.pool = pool, !.it = thread.it, !.spent = thread.spent]
  BY <1>1, <1>2, <1>4 DEF ThreadState, ThreadPool
<1> QED BY <1>1, <1>3, <1>5, ThreadWith

LEMMA ThreadBegin ==
  ASSUME ThreadGood(thread), ThreadSafe!Begin
  PROVE  ThreadGood(thread')
<1>1. /\ thread \in ThreadState /\ thread.pool \in ThreadPool
      /\ thread.it \in ThreadIt /\ thread.spent \in Int
  BY ThreadParts
<1>2. PICK queue \in Seq(Positions) : queue = thread.pool.queue
  BY <1>1 DEF ThreadPool
<1>3. queue # << >>
  BY <1>2 DEF ThreadSafe!Begin
<1>4. Tail(queue) \in Seq(Positions) /\ Head(queue) \in Positions
  BY <1>3
<1>5. PICK rest \in Seq(Positions) : rest = Tail(queue)
  BY <1>4
<1>6. PICK p \in Positions : p = Head(queue)
  BY <1>4
<1>7. PICK pool : pool = [thread.pool EXCEPT !.queue = rest, !.running = @ \cup {p}]
  OBVIOUS
<1>8. pool \in ThreadPool
  BY <1>1, <1>7 DEF ThreadPool
<1>9. thread' = [thread EXCEPT !.pool.queue = rest, !.pool.running = @ \cup {p}]
  BY <1>2, <1>5, <1>6 DEF ThreadSafe!Begin
<1>10. thread' = [thread EXCEPT !.pool = pool, !.it = thread.it, !.spent = thread.spent]
  BY <1>1, <1>7, <1>9 DEF ThreadState, ThreadPool
<1> QED BY <1>1, <1>8, <1>10, ThreadWith

LEMMA ThreadSettle ==
  ASSUME ThreadGood(thread), NEW p \in thread.pool.running, NEW failed \in BOOLEAN,
         ThreadSafe!Settle(p, failed)
  PROVE  ThreadGood(thread')
<1>1. /\ thread \in ThreadState /\ thread.pool \in ThreadPool
      /\ thread.it \in ThreadIt /\ thread.spent \in Int
  BY ThreadParts
<1>2. p \in Positions
  BY <1>1 DEF ThreadPool
<1>3. PICK raised \in SUBSET Positions :
         raised = IF failed THEN thread.pool.failed \cup {p} ELSE thread.pool.failed
  BY <1>1, <1>2 DEF ThreadPool
<1>4. PICK notifying \in SUBSET Positions :
         notifying = IF thread.config.onCompletion THEN thread.pool.notifying \cup {p}
                     ELSE thread.pool.notifying
  BY <1>1, <1>2 DEF ThreadPool
<1>5. PICK spent \in Int : spent = IF failed THEN thread.spent + 1 ELSE thread.spent
  BY <1>1
<1>6. PICK pool : pool = [thread.pool EXCEPT !.running = @ \ {p}, !.done = @ \cup {p},
                                            !.failed = raised, !.notifying = notifying]
  OBVIOUS
<1>7. pool \in ThreadPool
  BY <1>1, <1>2, <1>6 DEF ThreadPool
<1>8. thread' = [thread EXCEPT !.pool.running = @ \ {p}, !.pool.done = @ \cup {p},
                   !.pool.failed = raised, !.pool.notifying = notifying, !.spent = spent]
  BY <1>1, <1>3, <1>4, <1>5 DEF ThreadSafe!Settle, ThreadState, ThreadPool
<1>9. thread' = [thread EXCEPT !.pool = pool, !.it = thread.it, !.spent = spent]
  BY <1>1, <1>6, <1>8 DEF ThreadState, ThreadPool
<1> QED BY <1>1, <1>7, <1>9, ThreadWith

LEMMA ThreadNotify ==
  ASSUME ThreadGood(thread), NEW p \in thread.pool.notifying, ThreadSafe!Notify(p)
  PROVE  ThreadGood(thread')
<1>1. /\ thread \in ThreadState /\ thread.pool \in ThreadPool
      /\ thread.it \in ThreadIt /\ thread.spent \in Int
  BY ThreadParts
<1>2. p \in Positions
  BY <1>1 DEF ThreadPool
<1>3. PICK completed \in Seq(Positions) : completed = thread.it.completed
  BY <1>1 DEF ThreadIt
<1>4. PICK more \in Seq(Positions) : more = Append(completed, p)
  <2>1. Append(completed, p) \in Seq(Positions)
    BY <1>2
  <2> QED BY <2>1
<1>5. PICK pool : pool = [thread.pool EXCEPT !.notifying = @ \ {p}]
  OBVIOUS
<1>6. PICK it : it = [thread.it EXCEPT !.completed = more]
  OBVIOUS
<1>7. pool \in ThreadPool /\ it \in ThreadIt
  BY <1>1, <1>5, <1>6 DEF ThreadPool, ThreadIt
<1>8. thread' = [thread EXCEPT !.pool.notifying = @ \ {p}, !.it.completed = more]
  BY <1>3, <1>4 DEF ThreadSafe!Notify
<1>9. thread' = [thread EXCEPT !.pool = pool, !.it = it, !.spent = thread.spent]
  BY <1>1, <1>5, <1>6, <1>8 DEF ThreadState, ThreadPool, ThreadIt
<1>10. it.position = thread.it.position /\ it.base = thread.it.base
       /\ it.ahead = thread.it.ahead /\ it.complete = thread.it.complete
  BY <1>1, <1>6 DEF ThreadIt
<1> QED BY <1>1, <1>7, <1>9, <1>10, ThreadWith

LEMMA ThreadTakeCompletion ==
  ASSUME ThreadGood(thread), ThreadSafe!TakeCompletion
  PROVE  ThreadGood(thread')
<1>1. /\ thread \in ThreadState /\ thread.pool \in ThreadPool
      /\ thread.it \in ThreadIt /\ thread.spent \in Int
  BY ThreadParts
<1>2. PICK completed \in Seq(Positions) : completed = thread.it.completed
  BY <1>1 DEF ThreadIt
<1>3. completed # << >>
  BY <1>2 DEF ThreadSafe!TakeCompletion
<1>4. Tail(completed) \in Seq(Positions) /\ Head(completed) \in Positions
  BY <1>3
<1>5. PICK rest \in Seq(Positions) : rest = Tail(completed)
  BY <1>4
<1>6. PICK batch \in Ordinals : batch = ThreadSafe!Batch(Head(completed))
  BY <1>4, BatchFacts
<1>7. PICK old \in Seq(Ordinals) : old = thread.it.ready
  BY <1>1 DEF ThreadIt
<1>8. Append(old, batch) \in Seq(Ordinals)
  OBVIOUS
<1>9. PICK ready \in Seq(Ordinals) :
         ready = IF batch \notin ThreadSafe!Queued(thread.it)
                    /\ ThreadSafe!Whole(thread.it, thread.pool, batch)
                 THEN Append(old, batch) ELSE old
  BY <1>8
<1>10. thread' = [thread EXCEPT !.it.completed = rest, !.it.ready = ready]
  BY <1>1, <1>2, <1>5, <1>6, <1>7, <1>9 DEF ThreadSafe!TakeCompletion, ThreadState, ThreadIt
<1>11. PICK it : it = [thread.it EXCEPT !.completed = rest, !.ready = ready]
  OBVIOUS
<1>12. it \in ThreadIt
  BY <1>1, <1>11 DEF ThreadIt
<1>13. thread' = [thread EXCEPT !.pool = thread.pool, !.it = it, !.spent = thread.spent]
  BY <1>1, <1>10, <1>11 DEF ThreadState, ThreadIt
<1>14. it.position = thread.it.position /\ it.base = thread.it.base
       /\ it.ahead = thread.it.ahead /\ it.complete = thread.it.complete
  BY <1>1, <1>11 DEF ThreadIt
<1> QED BY <1>1, <1>12, <1>13, <1>14, ThreadWith

LEMMA ThreadCallNext ==
  ASSUME ThreadGood(thread), ThreadSafe!CallNext
  PROVE  ThreadGood(thread')
<1>1. /\ thread \in ThreadState /\ thread.live /\ ~thread.it.complete
      /\ thread.call = "idle" /\ thread' = [thread EXCEPT !.call = "next"]
  BY ThreadParts DEF ThreadSafe!CallNext
<1>2. thread' \in ThreadState
  BY <1>1 DEF ThreadState
<1>3. /\ thread'.config = thread.config /\ thread'.saved = thread.saved
      /\ thread'.resume = thread.resume /\ thread'.it = thread.it
      /\ thread'.got = thread.got /\ thread'.live = thread.live
      /\ thread'.call = "next"
  BY <1>1 DEF ThreadState
<1>4. /\ Remembered(thread.config, thread.saved, thread.resume)
      /\ Passing(thread.config, thread.it, thread.got, thread.live, thread.call)
  BY DEF ThreadGood
<1>5. DeliveredTo(thread.config, thread.it, thread.got, "next")
  BY <1>1, <1>4 DEF Passing, DeliveredTo, PlacedIn
<1>6. Passing(thread.config, thread.it, thread.got, thread.live, "next")
  BY <1>1, <1>4, <1>5 DEF Passing
<1> QED BY <1>2, <1>3, <1>4, <1>6 DEF ThreadGood

LEMMA ThreadFinish ==
  ASSUME ThreadGood(thread), ThreadSafe!Finish
  PROVE  ThreadGood(thread')
<1>1. /\ thread \in ThreadState /\ thread.it \in ThreadIt
      /\ thread.call = "next" /\ thread.it.position >= Samples
      /\ thread' = [thread EXCEPT !.call = "idle", !.it.complete = TRUE]
  BY ThreadParts DEF ThreadSafe!Finish
<1>2. PICK it : it = [thread.it EXCEPT !.complete = TRUE]
  OBVIOUS
<1>3. /\ it \in ThreadIt /\ it.position = thread.it.position /\ it.complete = TRUE
      /\ it.base = thread.it.base /\ it.ahead = thread.it.ahead /\ it.position \in Nat
  BY <1>1, <1>2 DEF ThreadIt
<1>4. thread' = [thread EXCEPT !.call = "idle", !.it = it]
  BY <1>1, <1>2 DEF ThreadState, ThreadIt
<1>5. thread' \in ThreadState
  BY <1>1, <1>3, <1>4 DEF ThreadState
<1>6. /\ thread'.config = thread.config /\ thread'.saved = thread.saved
      /\ thread'.resume = thread.resume /\ thread'.it = it
      /\ thread'.got = thread.got /\ thread'.live = thread.live
      /\ thread'.call = "idle"
  BY <1>1, <1>4 DEF ThreadState
<1>7. /\ Remembered(thread.config, thread.saved, thread.resume)
      /\ Passing(thread.config, thread.it, thread.got, thread.live, thread.call)
  BY DEF ThreadGood
<1>8. DeliveredTo(thread.config, thread.it, thread.got, "next")
  BY <1>1, <1>7 DEF Passing
<1>9. DeliveredTo(thread.config, it, thread.got, "idle")
  <2>1. CASE thread.config.onCompletion
    BY <1>3, <1>8, <2>1 DEF DeliveredTo
  <2>2. CASE ~thread.config.onCompletion
    <3>1. PICK k \in 0..ThreadSafe!Batches :
            /\ GotGood(thread.config, k, {}, thread.got)
            /\ PlacedIn(k, thread.it.position, "next")
      BY <1>8, <2>2 DEF DeliveredTo
    <3>2. PlacedIn(k, thread.it.position, "idle")
      BY <1>1, <1>3, <3>1, PlacedLast
    <3> QED BY <1>3, <2>2, <3>1, <3>2 DEF DeliveredTo
  <2> QED BY <2>1, <2>2
<1>10. Passing(thread.config, it, thread.got, thread.live, "idle")
  BY <1>1, <1>3, <1>7, <1>9 DEF Passing
<1> QED BY <1>5, <1>6, <1>7, <1>10 DEF ThreadGood

(* An error closes the loader.                                             *)
LEMMA ThreadFails ==
  ASSUME NEW t, ThreadGood(t), NEW spent, spent \in Int,
         NEW f, f = [ThreadSafe!Closed(t) EXCEPT !.call = "idle", !.spent = spent]
  PROVE  ThreadGood(f)
<1>1. PICK c : c = ThreadSafe!Closed(t)
  OBVIOUS
<1>2. t \in ThreadState
  BY DEF ThreadGood
<1>3. /\ c \in ThreadState
      /\ c.config = t.config /\ c.saved = t.saved /\ c.resume = t.resume
      /\ c.got = t.got /\ c.call = t.call /\ c.spent = t.spent /\ c.live = FALSE
  BY ONLY <1>1, <1>2, ThreadClosedIs
<1>4. f = [c EXCEPT !.call = "idle", !.spent = spent]
  BY <1>1
<1>5. f \in ThreadState
  BY <1>3, <1>4 DEF ThreadState
<1>6. /\ f.config = t.config /\ f.saved = t.saved /\ f.resume = t.resume
      /\ f.got = t.got /\ f.call = "idle" /\ f.live = FALSE
  BY <1>3, <1>4 DEF ThreadState
<1>7. Remembered(f.config, f.saved, f.resume)
  BY <1>6 DEF ThreadGood
<1> QED BY ONLY ThreadGood(t), <1>5, <1>6, <1>7, ThreadGone

LEMMA ThreadErrors ==
  ASSUME ThreadGood(thread),
         ThreadSafe!Fails \/ ThreadSafe!TimesOut \/ ThreadSafe!StaleNext
  PROVE  ThreadGood(thread')
<1>1. PICK c : c = ThreadSafe!Closed(thread)
  OBVIOUS
<1>2. thread \in ThreadState /\ thread.spent \in Int
  BY ThreadParts
<1>3. /\ c \in ThreadState /\ c.call = thread.call /\ c.spent = thread.spent
  BY ONLY <1>1, <1>2, ThreadClosedIs
<1>4. \E spent \in Int : thread' = [c EXCEPT !.call = "idle", !.spent = spent]
  <2>1. CASE ThreadSafe!Fails
    <3>1. thread' = [c EXCEPT !.call = "idle"]
      BY <1>1, <2>1 DEF ThreadSafe!Fails
    <3>2. thread' = [c EXCEPT !.call = "idle", !.spent = thread.spent]
      BY <1>3, <3>1 DEF ThreadState
    <3> QED BY <1>2, <3>2
  <2>2. CASE ThreadSafe!TimesOut
    <3>1. thread' = [c EXCEPT !.call = "idle", !.spent = @ + 1]
      BY <1>1, <2>2 DEF ThreadSafe!TimesOut
    <3>2. PICK spent \in Int : spent = thread.spent + 1
      BY <1>2
    <3>3. thread' = [c EXCEPT !.call = "idle", !.spent = spent]
      BY <1>3, <3>1, <3>2 DEF ThreadState
    <3> QED BY <3>3
  <2>3. CASE ThreadSafe!StaleNext
    <3>1. thread' = c /\ thread.call = "idle"
      BY <1>1, <2>3 DEF ThreadSafe!StaleNext
    <3>2. thread' = [c EXCEPT !.call = "idle", !.spent = thread.spent]
      BY <1>3, <3>1 DEF ThreadState
    <3> QED BY <1>2, <3>2
  <2> QED BY <2>1, <2>2, <2>3
<1>5. PICK spent \in Int : thread' = [c EXCEPT !.call = "idle", !.spent = spent]
  BY <1>4
<1>6. spent \in Int
  OBVIOUS
<1>7. thread' = [ThreadSafe!Closed(thread) EXCEPT !.call = "idle", !.spent = spent]
  BY <1>1, <1>5
<1> QED BY ONLY ThreadGood(thread), <1>6, <1>7, ThreadFails

LEMMA ThreadLoad ==
  ASSUME ThreadGood(thread), ThreadSafe!Load
  PROVE  ThreadGood(thread')
<1>1. PICK c : c = ThreadSafe!Closed(thread)
  OBVIOUS
<1>2. thread \in ThreadState /\ thread.call = "idle" /\ thread.saved # [none |-> TRUE]
  BY ThreadParts DEF ThreadSafe!Load, ThreadSafe!None
<1>3. /\ c \in ThreadState /\ c.call = thread.call
      /\ c.config = thread.config /\ c.saved = thread.saved /\ c.live = FALSE
  BY ONLY <1>1, <1>2, ThreadClosedIs
<1>4. PICK saved : saved = thread.saved
  OBVIOUS
<1>5. saved \in [cursor : Nat, bitmap : SUBSET Int, got : ThreadGot]
  BY <1>2, <1>4 DEF ThreadState, ThreadSaved, Absent
<1>6. PICK ahead : ahead = ThreadSafe!Decoded(saved.cursor, saved.bitmap)
  OBVIOUS
<1>7. GotGood(thread.config, saved.cursor, ahead, saved.got)
  BY <1>2, <1>4, <1>6 DEF ThreadGood, Remembered
<1>8. ahead \in SUBSET Ordinals
  BY <1>7 DEF GotGood, Marking
<1>9. PICK resume : resume = [cursor |-> saved.cursor, ahead |-> ahead, got |-> saved.got]
  OBVIOUS
<1>10. resume \in [cursor : Nat, ahead : SUBSET Ordinals, got : ThreadGot]
  BY <1>5, <1>8, <1>9
<1>11. resume \in ThreadResume /\ resume # [none |-> TRUE]
  BY <1>9, <1>10 DEF ThreadResume
<1>12. thread' = [c EXCEPT !.resume = resume, !.got = ThreadSafe!Nothing]
  BY <1>1, <1>4, <1>6, <1>9 DEF ThreadSafe!Load
<1>13. thread' \in ThreadState
  BY <1>3, <1>11, <1>12, NothingIs DEF ThreadState
<1>14. /\ thread'.config = thread.config /\ thread'.saved = thread.saved
       /\ thread'.resume = resume /\ thread'.got = ThreadSafe!Nothing
       /\ thread'.call = "idle" /\ thread'.live = FALSE
  BY <1>2, <1>3, <1>12 DEF ThreadState
<1>15. GotGood(thread.config, resume.cursor, resume.ahead, resume.got)
  BY <1>7, <1>9
<1>16. Remembered(thread'.config, thread'.saved, thread'.resume)
  <2>1. Remembered(thread.config, thread.saved, thread.resume)
    BY DEF ThreadGood
  <2> QED BY <1>14, <1>15, <2>1 DEF Remembered
<1> QED BY ONLY ThreadGood(thread), <1>13, <1>14, <1>16, ThreadGone

LEMMA ThreadAbandon ==
  ASSUME ThreadGood(thread), ThreadSafe!Abandon
  PROVE  ThreadGood(thread')
<1>1. /\ thread \in ThreadState /\ thread.pool \in ThreadPool /\ thread.call = "idle"
  BY ThreadParts DEF ThreadSafe!Abandon
<1>2. PICK pool : pool = [ThreadSafe!NewPool EXCEPT
                      !.open = thread.pool.open,
                      !.old = thread.pool.old + Len(thread.pool.queue)
                                 + ThreadSafe!Cardinality(thread.pool.running)]
  OBVIOUS
<1>3. pool \in ThreadPool
  <2>1. IsFiniteSet(thread.pool.running)
    <3>1. IsFiniteSet(Positions)
      BY ThreadConstants, FS_Interval DEF Positions
    <3>2. thread.pool.running \in SUBSET Positions
      BY <1>1 DEF ThreadPool
    <3> QED BY <3>1, <3>2, FS_Subset
  <2>2. PICK running \in Nat : running = ThreadSafe!Cardinality(thread.pool.running)
    BY <2>1, FS_CardinalityType, ThreadCardinality
  <2>3. PICK waiting \in Nat : waiting = Len(thread.pool.queue)
    <3>1. thread.pool.queue \in Seq(Positions)
      BY <1>1 DEF ThreadPool
    <3> QED BY <3>1
  <2>4. PICK before \in Int : before = thread.pool.old
    BY <1>1 DEF ThreadPool
  <2>5. PICK old \in Int : old = before + waiting + running
    BY <2>2, <2>3, <2>4
  <2>6. PICK open \in BOOLEAN : open = thread.pool.open
    BY <1>1 DEF ThreadPool
  <2>7. pool = [ThreadSafe!NewPool EXCEPT !.open = open, !.old = old]
    BY <1>2, <2>2, <2>3, <2>4, <2>5, <2>6
  <2> QED BY <2>5, <2>6, <2>7, PoolsAre DEF ThreadPool
<1>4. thread' = [thread EXCEPT !.live = FALSE, !.it = ThreadSafe!NoIterator,
                               !.got = ThreadSafe!Nothing, !.pool = pool]
  BY <1>2 DEF ThreadSafe!Abandon
<1>5. thread' \in ThreadState
  BY <1>1, <1>3, <1>4, NothingIs, NoIteratorIs DEF ThreadState
<1>6. /\ thread'.config = thread.config /\ thread'.saved = thread.saved
      /\ thread'.resume = thread.resume /\ thread'.got = ThreadSafe!Nothing
      /\ thread'.call = "idle" /\ thread'.live = FALSE
  BY <1>1, <1>4 DEF ThreadState
<1>7. Remembered(thread'.config, thread'.saved, thread'.resume)
  BY <1>6 DEF ThreadGood
<1> QED BY ONLY ThreadGood(thread), <1>5, <1>6, <1>7, ThreadGone

LEMMA ThreadCapture ==
  ASSUME ThreadGood(thread), ThreadSafe!Capture
  PROVE  ThreadGood(thread')
<1>1. /\ thread \in ThreadState /\ thread.it \in ThreadIt
      /\ thread.call = "idle" /\ thread.live /\ ~thread.it.complete
  BY ThreadParts DEF ThreadSafe!Capture, ThreadSafe!Unfinished
<1>2. /\ Remembered(thread.config, thread.saved, thread.resume)
      /\ Passing(thread.config, thread.it, thread.got, thread.live, thread.call)
  BY DEF ThreadGood
<1>3. DeliveredTo(thread.config, thread.it, thread.got, "idle")
  BY <1>1, <1>2 DEF Passing
<1>4. PICK cursor : cursor = ThreadSafe!Cursor(thread.it)
  OBVIOUS
<1>5. PICK bitmap : bitmap = IF thread.config.onCompletion
                             THEN ThreadSafe!Bitmap(thread.it.ahead, thread.it.base)
                             ELSE {}
  OBVIOUS
<1>6. cursor \in Nat /\ bitmap \in SUBSET Int
      /\ GotGood(thread.config, cursor, ThreadSafe!Decoded(cursor, bitmap), thread.got)
  <2>1. CASE thread.config.onCompletion
    <3>1. GotGood(thread.config, thread.it.base, thread.it.ahead, thread.got)
      BY <1>3, <2>1 DEF DeliveredTo
    <3>2. Marking(thread.it.base, thread.it.ahead)
      BY <3>1 DEF GotGood
    <3>3. cursor = thread.it.base
      BY <1>4, <2>1 DEF ThreadSafe!Cursor
    <3>4. ThreadSafe!Decoded(cursor, bitmap) = thread.it.ahead
      BY <1>5, <2>1, <3>2, <3>3, DecodedBack
    <3>5. bitmap \in SUBSET Int
      <4>1. \A b \in thread.it.ahead : b \in Int
        BY <3>2, BatchFacts DEF Marking
      <4>2. thread.it.base \in Int
        BY <3>2, BatchFacts DEF Marking
      <4>3. \A b \in thread.it.ahead : b - thread.it.base \in Int
        BY <4>1, <4>2
      <4> QED BY <1>5, <2>1, <4>3 DEF ThreadSafe!Bitmap
    <3>6. cursor \in Nat
      BY <3>2, <3>3, BatchFacts DEF Marking
    <3> QED BY <3>1, <3>3, <3>4, <3>5, <3>6
  <2>2. CASE ~thread.config.onCompletion
    <3>1. PICK k \in 0..ThreadSafe!Batches :
            /\ GotGood(thread.config, k, {}, thread.got)
            /\ PlacedIn(k, thread.it.position, "idle")
      BY <1>3, <2>2 DEF DeliveredTo
    <3>2. k \in 0..ThreadSafe!Batches
      OBVIOUS
    <3>3. thread.it.position = ThreadSafe!Lesser(Samples, k * Width)
      BY <3>1 DEF PlacedIn
    <3>4. (thread.it.position + Width - 1) \div Width = k
      BY ONLY <3>2, <3>3, CursorBack
    <3>5. cursor = k
      BY <1>4, <2>2, <3>4 DEF ThreadSafe!Cursor
    <3>6. bitmap = {} /\ ThreadSafe!Decoded(cursor, bitmap) = {}
      BY <1>5, <2>2 DEF ThreadSafe!Decoded
    <3>7. k \in Nat
      BY BatchFacts
    <3> QED BY <3>1, <3>5, <3>6, <3>7
  <2> QED BY <2>1, <2>2
<1>7. PICK saved : saved = [cursor |-> cursor, bitmap |-> bitmap, got |-> thread.got]
  OBVIOUS
<1>8. saved \in [cursor : Nat, bitmap : SUBSET Int, got : ThreadGot]
  BY <1>1, <1>6, <1>7 DEF ThreadState
<1>9. thread' = [thread EXCEPT !.saved = saved]
  BY <1>4, <1>5, <1>7 DEF ThreadSafe!Capture
<1>10. thread' \in ThreadState
  BY <1>1, <1>8, <1>9 DEF ThreadState, ThreadSaved
<1>11. /\ thread'.config = thread.config /\ thread'.saved = saved
       /\ thread'.resume = thread.resume /\ thread'.it = thread.it
       /\ thread'.got = thread.got /\ thread'.live = thread.live
       /\ thread'.call = thread.call
  BY <1>1, <1>9 DEF ThreadState
<1>12. GotGood(thread.config, saved.cursor,
               ThreadSafe!Decoded(saved.cursor, saved.bitmap), saved.got)
  BY <1>6, <1>7
<1>13. Remembered(thread.config, saved, thread.resume)
  BY <1>2, <1>12 DEF Remembered
<1> QED BY <1>2, <1>10, <1>11, <1>13 DEF ThreadGood

LEMMA ThreadTakeSample ==
  ASSUME ThreadGood(thread), ThreadSafe!TakeSample
  PROVE  ThreadGood(thread')
<1>1. /\ thread \in ThreadState /\ thread.it \in ThreadIt
      /\ thread.call = "next" /\ thread.it.position < Samples
      /\ ~thread.config.onCompletion
  BY ThreadParts DEF ThreadSafe!TakeSample, ThreadSafe!Waiting
<1>2. /\ Remembered(thread.config, thread.saved, thread.resume)
      /\ Passing(thread.config, thread.it, thread.got, thread.live, thread.call)
  BY DEF ThreadGood
<1>3. PICK p \in Nat : p = thread.it.position
  BY <1>1 DEF ThreadIt
<1>4. thread.live /\ ~thread.it.complete
  BY <1>1, <1>2 DEF Passing
<1>5. PICK k \in 0..ThreadSafe!Batches :
         GotGood(thread.config, k, {}, thread.got) /\ PlacedIn(k, p, "next")
  BY <1>1, <1>2, <1>3, <1>4 DEF Passing, DeliveredTo
<1>6. k \in Nat
  BY BatchFacts
<1>7. /\ k \in Ordinals /\ ThreadSafe!Batch(p) = k
      /\ p + 1 < ThreadSafe!Stop(k) => PlacedIn(k, p + 1, "next")
      /\ ~(p + 1 < ThreadSafe!Stop(k)) => PlacedIn(k + 1, p + 1, "idle")
  BY <1>1, <1>3, <1>5, <1>6, PlaceIs
<1>8. PICK next \in Nat : next = p + 1
  OBVIOUS
<1>9. PICK it : it = [thread.it EXCEPT !.futures = @ \ {p}, !.position = next]
  OBVIOUS
<1>10. /\ it \in ThreadIt /\ it.position = next /\ it.complete = thread.it.complete
  BY <1>1, <1>9 DEF ThreadIt
<1>11. PICK taken : taken = [thread EXCEPT !.it = it]
  OBVIOUS
<1>12. taken = [thread EXCEPT !.it.futures = @ \ {p}, !.it.position = p + 1]
  BY <1>1, <1>8, <1>9, <1>11 DEF ThreadState, ThreadIt
<1>13. taken \in ThreadState
  BY <1>1, <1>10, <1>11 DEF ThreadState
<1>14. /\ taken.config = thread.config /\ taken.saved = thread.saved
       /\ taken.resume = thread.resume /\ taken.it = it /\ taken.got = thread.got
       /\ taken.live = thread.live /\ taken.call = "next"
  BY <1>1, <1>11 DEF ThreadState
<1>15. PICK f : f = ThreadSafe!Filled(taken)
  OBVIOUS
<1>16. f \in ThreadState /\ SamePass(taken, f)
  BY <1>13, <1>15, FilledIs
<1>17. /\ f.config = thread.config /\ f.saved = thread.saved
       /\ f.resume = thread.resume /\ f.it.position = next /\ f.got = thread.got
       /\ f.live = thread.live /\ f.call = "next" /\ ~f.it.complete
  BY <1>4, <1>10, <1>14, <1>16 DEF SamePass
<1>18. thread' = IF p + 1 < ThreadSafe!Stop(k) THEN f
                 ELSE [f EXCEPT !.got = ThreadSafe!Delivered(@, k), !.call = "idle"]
  BY <1>3, <1>7, <1>12, <1>15 DEF ThreadSafe!TakeSample
<1>19. CASE p + 1 < ThreadSafe!Stop(k)
  <2>1. thread' = f
    BY <1>18, <1>19
  <2>2. DeliveredTo(f.config, f.it, f.got, f.call)
    BY <1>1, <1>5, <1>7, <1>8, <1>17, <1>19 DEF DeliveredTo
  <2>3. Passing(f.config, f.it, f.got, f.live, f.call)
    BY <1>2, <1>4, <1>17, <2>2 DEF Passing
  <2> QED BY <1>2, <1>16, <1>17, <2>1, <2>3 DEF ThreadGood
<1>20. CASE ~(p + 1 < ThreadSafe!Stop(k))
  <2>1. PICK got : got = ThreadSafe!Delivered(thread.got, k)
    OBVIOUS
  <2>2. thread.got \in ThreadGot
    BY <1>1 DEF ThreadState
  <2>3. got \in ThreadGot /\ GotGood(thread.config, k + 1, {}, got)
    BY <1>5, <1>7, <2>1, <2>2, DeliveredNext
  <2>4. thread' = [f EXCEPT !.got = got, !.call = "idle"]
    BY <1>16, <1>17, <1>18, <1>20, <2>1 DEF ThreadState
  <2>5. thread' \in ThreadState
    BY <1>16, <2>3, <2>4 DEF ThreadState
  <2>6. /\ thread'.config = thread.config /\ thread'.saved = thread.saved
        /\ thread'.resume = thread.resume /\ thread'.it = f.it
        /\ thread'.got = got /\ thread'.live = thread.live
        /\ thread'.call = "idle"
    BY <1>16, <1>17, <2>4 DEF ThreadState
  <2>7. k + 1 \in 0..ThreadSafe!Batches
    BY <2>3 DEF GotGood, Marking
  <2>8. DeliveredTo(thread.config, f.it, got, "idle")
    BY <1>1, <1>7, <1>8, <1>17, <1>20, <2>3, <2>7 DEF DeliveredTo
  <2>9. (\A b \in Ordinals : got.times[b] <= 1) /\ got.inOrder
    BY <1>1, <2>3, GotOnce
  <2>10. Passing(thread.config, f.it, got, thread.live, "idle")
    BY <1>4, <1>17, <2>8, <2>9 DEF Passing
  <2> QED BY <1>2, <2>5, <2>6, <2>10 DEF ThreadGood
<1> QED BY <1>19, <1>20

LEMMA ThreadTakeBatch ==
  ASSUME ThreadGood(thread), ThreadSafe!TakeBatch
  PROVE  ThreadGood(thread')
<1>1. /\ thread \in ThreadState /\ thread.it \in ThreadIt
      /\ thread.call = "next" /\ thread.config.onCompletion
      /\ thread.it.ready # <<>>
  BY ThreadParts DEF ThreadSafe!TakeBatch, ThreadSafe!Waiting
<1>2. /\ Remembered(thread.config, thread.saved, thread.resume)
      /\ Passing(thread.config, thread.it, thread.got, thread.live, thread.call)
  BY DEF ThreadGood
<1>3. PICK ready \in Seq(Ordinals) : ready = thread.it.ready
  BY <1>1 DEF ThreadIt
<1>4. Head(ready) \in Ordinals /\ Tail(ready) \in Seq(Ordinals)
  BY <1>1, <1>3
<1>5. PICK batch \in Ordinals : batch = Head(ready)
  BY <1>4
<1>6. PICK rest \in Seq(Ordinals) : rest = Tail(ready)
  BY <1>4
<1>7. PICK members : members = ThreadSafe!Members(batch)
  OBVIOUS
<1>8. PICK it : it = [thread.it EXCEPT !.ready = rest, !.futures = @ \ members]
  OBVIOUS
<1>9. /\ it \in ThreadIt /\ it.position = thread.it.position
      /\ it.complete = thread.it.complete
      /\ it.base = thread.it.base /\ it.ahead = thread.it.ahead
  BY <1>1, <1>8 DEF ThreadIt
<1>10. PICK taken : taken = [thread EXCEPT !.it = it]
  OBVIOUS
<1>11. taken = [thread EXCEPT !.it.ready = rest, !.it.futures = @ \ members]
  BY <1>1, <1>8, <1>10 DEF ThreadState, ThreadIt
<1>12. taken \in ThreadState
  BY <1>1, <1>9, <1>10 DEF ThreadState
<1>13. /\ taken.config = thread.config /\ taken.saved = thread.saved
       /\ taken.resume = thread.resume /\ taken.it = it /\ taken.got = thread.got
       /\ taken.live = thread.live
  BY <1>1, <1>10 DEF ThreadState
<1>14. PICK f : f = ThreadSafe!Filled(taken)
  OBVIOUS
<1>15. f \in ThreadState /\ SamePass(taken, f)
  BY <1>12, <1>14, FilledIs
<1>16. /\ f.config = thread.config /\ f.saved = thread.saved /\ f.resume = thread.resume
       /\ f.got = thread.got /\ f.live = thread.live
       /\ f.it.position = thread.it.position /\ f.it.base = thread.it.base
       /\ f.it.ahead = thread.it.ahead /\ f.it.complete = thread.it.complete
  BY <1>9, <1>13, <1>15 DEF SamePass
<1>17. \/ ThreadSafe!Fails
       \/ /\ ~ThreadSafe!Repeated(thread.it, batch)
          /\ thread' = [f EXCEPT
                !.it = ThreadSafe!Marked([f.it EXCEPT
                           !.position = @ + ThreadSafe!Cardinality(members)], batch),
                !.got = ThreadSafe!Delivered(@, batch), !.call = "idle"]
  BY <1>3, <1>5, <1>6, <1>7, <1>11, <1>14 DEF ThreadSafe!TakeBatch
<1>18. CASE ThreadSafe!Fails
  BY <1>18, ThreadErrors
<1>19. CASE /\ ~ThreadSafe!Repeated(thread.it, batch)
            /\ thread' = [f EXCEPT
                !.it = ThreadSafe!Marked([f.it EXCEPT
                           !.position = @ + ThreadSafe!Cardinality(members)], batch),
                !.got = ThreadSafe!Delivered(@, batch), !.call = "idle"]
  <2>1. thread.live /\ ~thread.it.complete
    BY <1>1, <1>2 DEF Passing
  <2>2. /\ GotGood(thread.config, thread.it.base, thread.it.ahead, thread.got)
        /\ thread.it.position = Cardinality(Within(thread.it.base, thread.it.ahead))
    BY <1>1, <1>2, <2>1 DEF Passing, DeliveredTo
  <2>3. PICK base : base = thread.it.base
    OBVIOUS
  <2>4. PICK ahead : ahead = thread.it.ahead
    OBVIOUS
  <2>5. PICK all : all = ahead \cup {batch}
    OBVIOUS
  <2>6. PICK to : to = ThreadSafe!Reached(base, all)
    OBVIOUS
  <2>7. PICK left : left = {b \in all : b > to}
    OBVIOUS
  <2>8. batch \in Ordinals
    OBVIOUS
  <2>9. Marking(base, ahead)
    BY <2>2, <2>3, <2>4 DEF GotGood
  <2>10. ~(batch < base \/ batch \in ahead)
    BY <1>19, <2>3, <2>4 DEF ThreadSafe!Repeated
  <2>11. Moved(base, ahead, batch, to, left)
    BY <2>5, <2>6, <2>7 DEF Moved
  <2>12. Marking(to, left) /\ Gains(base, ahead, batch, to, left)
    BY ONLY <2>8, <2>9, <2>10, <2>11, MarkedIs
  <2>13. PICK more \in Nat : more = ThreadSafe!Cardinality(members)
    <3>1. members \in SUBSET Positions
      BY <1>7, MembersAre
    <3>0. IsFiniteSet(Positions)
      BY ThreadConstants, FS_Interval DEF Positions
    <3>2. IsFiniteSet(members)
      BY <3>0, <3>1, FS_Subset
    <3> QED BY <3>2, FS_CardinalityType, ThreadCardinality
  <2>14. Cardinality(Within(to, left)) = Cardinality(Within(base, ahead)) + more
    BY <1>7, <2>12, <2>13, WithinMore
  <2>15. PICK position \in Nat : position = f.it.position + more
    BY <1>1, <1>16 DEF ThreadIt
  <2>16. position = Cardinality(Within(to, left))
    BY <1>16, <2>2, <2>3, <2>4, <2>14, <2>15
  <2>17. PICK reached : reached = [f.it EXCEPT !.position = position]
    OBVIOUS
  <2>18. f.it \in ThreadIt
    BY <1>15 DEF ThreadState
  <2>19. /\ reached \in ThreadIt /\ reached.base = base /\ reached.ahead = ahead
         /\ reached.position = position /\ reached.complete = FALSE
    BY <1>16, <2>1, <2>3, <2>4, <2>17, <2>18 DEF ThreadIt
  <2>20. PICK marked : marked = ThreadSafe!Marked(reached, batch)
    OBVIOUS
  <2>21. marked = [reached EXCEPT !.base = to, !.ahead = left]
    BY <2>5, <2>6, <2>7, <2>19, <2>20 DEF ThreadSafe!Marked
  <2>22. to \in Nat /\ left \in SUBSET Ordinals
    BY <2>12, BatchFacts DEF Marking
  <2>23. /\ marked \in ThreadIt /\ marked.base = to /\ marked.ahead = left
         /\ marked.position = position /\ marked.complete = FALSE
    BY <2>19, <2>21, <2>22 DEF ThreadIt
  <2>24. PICK got : got = ThreadSafe!Delivered(thread.got, batch)
    OBVIOUS
  <2>25. thread.got \in ThreadGot /\ thread.got.times = Marks(base, ahead)
    BY <1>1, <2>2, <2>3, <2>4 DEF ThreadState, GotGood
  <2>26. got \in ThreadGot /\ got.times = Marks(to, left)
    BY ONLY <2>12, <2>24, <2>25, DeliveredMarks
  <2>27. thread' = [f EXCEPT !.it = marked, !.got = got, !.call = "idle"]
    BY <1>15, <1>16, <1>19, <2>13, <2>15, <2>17, <2>20, <2>24 DEF ThreadState
  <2>28. thread' \in ThreadState
    BY <1>15, <2>23, <2>26, <2>27 DEF ThreadState
  <2>29. /\ thread'.config = thread.config /\ thread'.saved = thread.saved
         /\ thread'.resume = thread.resume /\ thread'.it = marked
         /\ thread'.got = got /\ thread'.live = thread.live
         /\ thread'.call = "idle"
    BY <1>15, <1>16, <2>27 DEF ThreadState
  <2>30. GotGood(thread.config, to, left, got)
    BY <1>1, <2>12, <2>26 DEF GotGood
  <2>31. DeliveredTo(thread.config, marked, got, "idle")
    BY <1>1, <2>16, <2>23, <2>30 DEF DeliveredTo
  <2>32. \A b \in Ordinals : got.times[b] <= 1
    BY <2>30, GotOnce
  <2>33. Passing(thread.config, marked, got, thread.live, "idle")
    BY <1>1, <2>23, <2>31, <2>32 DEF Passing
  <2> QED BY <1>2, <2>28, <2>29, <2>33 DEF ThreadGood
<1> QED BY <1>17, <1>18, <1>19

(* Where the next pass begins, and what was delivered of it.               *)
StartsFrom(config, resume, cursor, ahead, got) ==
    /\ GotGood(config, cursor, ahead, got) /\ got \in ThreadGot
    /\ cursor = IF resume = [none |-> TRUE] THEN 0 ELSE resume.cursor
    /\ ahead = IF resume = [none |-> TRUE] THEN {} ELSE resume.ahead
    /\ got = IF resume = [none |-> TRUE] THEN ThreadSafe!Nothing ELSE resume.got

LEMMA StartsWhere ==
  ASSUME NEW config, NEW saved, NEW resume, resume \in ThreadResume,
         Remembered(config, saved, resume)
  PROVE  /\ \E cursor, ahead, got : StartsFrom(config, resume, cursor, ahead, got)
         /\ Remembered(config, saved, [none |-> TRUE])
<1>1. Remembered(config, saved, [none |-> TRUE])
  BY DEF Remembered
<1>2. CASE resume = [none |-> TRUE]
  <2>1. StartsFrom(config, resume, 0, {}, ThreadSafe!Nothing)
    BY <1>2, NothingIs DEF StartsFrom
  <2> QED BY <1>1, <2>1
<1>3. CASE resume # [none |-> TRUE]
  <2>1. GotGood(config, resume.cursor, resume.ahead, resume.got)
    BY <1>3 DEF Remembered
  <2>2. resume \in [cursor : Nat, ahead : SUBSET Ordinals, got : ThreadGot]
    BY <1>3 DEF ThreadResume, Absent
  <2>3. resume.got \in ThreadGot
    BY <2>2
  <2>4. StartsFrom(config, resume, resume.cursor, resume.ahead, resume.got)
    BY <1>3, <2>1, <2>3 DEF StartsFrom
  <2> QED BY <1>1, <2>4
<1> QED BY <1>2, <1>3

LEMMA ThreadDepth ==
  ASSUME NEW cursor, NEW ahead, Marking(cursor, ahead),
         NEW start, start = ThreadSafe!Lesser(Samples, cursor * Width)
  PROVE  ThreadSafe!Lesser(Samples - start,
             ThreadSafe!Greater(Frontier, ThreadSafe!RestoredSpan(ahead, start))) \in Int
<1>1. start \in Nat
  BY RestoredIs
<1>2. PICK span : span = ThreadSafe!RestoredSpan(ahead, start)
  OBVIOUS
<1>3. span \in Int
  <2>1. CASE ahead = {}
    BY <1>2, <2>1 DEF ThreadSafe!RestoredSpan
  <2>2. CASE ahead # {}
    <3>1. ahead \in SUBSET Nat /\ \A b \in ahead : b <= ThreadSafe!Batches
      BY BatchFacts DEF Marking, Ordinals
    <3>2. ThreadSafe!MaxOf(ahead) \in ahead
      BY <2>2, <3>1, BatchFacts, Greatest
    <3>3. PICK last \in Nat : last = ThreadSafe!MaxOf(ahead)
      BY <3>1, <3>2
    <3>4. PICK size \in Nat : size = Width
      BY ThreadConstants
    <3>5. last * size + size - start \in Int
      BY <1>1
    <3> QED BY <1>2, <2>2, <3>3, <3>4, <3>5 DEF ThreadSafe!RestoredSpan
  <2> QED BY <2>1, <2>2
<1> QED BY <1>1, <1>2, <1>3, ThreadConstants DEF ThreadSafe!Lesser, ThreadSafe!Greater

(* A pass begins at its coordinate.                                        *)
LEMMA ThreadStarts ==
  ASSUME NEW t, ThreadGood(t), t.call = "idle", NEW f, f = ThreadSafe!Started(t)
  PROVE  ThreadGood(f)
<1>1. /\ t \in ThreadState /\ t.pool \in ThreadPool
      /\ Remembered(t.config, t.saved, t.resume) /\ t.resume \in ThreadResume
  BY DEF ThreadGood, ThreadState
<1>2. PICK config : config = t.config
  OBVIOUS
<1>3. PICK cursor, ahead, got : StartsFrom(config, t.resume, cursor, ahead, got)
  BY <1>1, <1>2, StartsWhere
<1>4. Remembered(config, t.saved, [none |-> TRUE])
  BY <1>1, <1>2, StartsWhere
<1>5. GotGood(config, cursor, ahead, got) /\ got \in ThreadGot
  BY <1>3 DEF StartsFrom
<1>6. Marking(cursor, ahead)
  BY <1>5 DEF GotGood
<1>7. PICK start : start = ThreadSafe!Lesser(Samples, cursor * Width)
  OBVIOUS
<1>8. start \in Nat
  BY <1>6, <1>7, RestoredIs
<1>9. PICK depth : depth = ThreadSafe!Lesser(Samples - start,
             ThreadSafe!Greater(Frontier, ThreadSafe!RestoredSpan(ahead, start)))
  OBVIOUS
<1>10. depth \in Int
  BY <1>6, <1>7, <1>9, ThreadDepth
<1>11. PICK it : it = ThreadSafe!NewIterator(cursor, start, ahead, depth)
  OBVIOUS
<1>12. /\ it \in ThreadIt /\ it.base = cursor /\ it.ahead = ahead
       /\ it.position = start + ThreadSafe!RestoredSamples(ahead)
       /\ it.complete = FALSE
  <2>1. StandsAt(it, cursor, start, ahead)
    BY ONLY <1>6, <1>8, <1>10, <1>11, NewIteratorIs
  <2> QED BY <2>1 DEF StandsAt
<1>13. PICK opened : opened = IF t.pool.open THEN t.pool ELSE ThreadSafe!NewPool
  OBVIOUS
<1>14. PICK pool : pool = [opened EXCEPT !.done = {}]
  OBVIOUS
<1>15. opened \in ThreadPool
  BY <1>1, <1>13, PoolsAre
<1>16. pool \in ThreadPool
  BY <1>14, <1>15 DEF ThreadPool
<1>17. PICK begun : begun = [t EXCEPT !.it = it, !.pool = pool, !.live = TRUE,
                                     !.resume = [none |-> TRUE], !.got = got]
  OBVIOUS
<1>18. f = ThreadSafe!Filled(begun)
  BY <1>3, <1>7, <1>9, <1>11, <1>13, <1>14, <1>17
  DEF ThreadSafe!Started, StartsFrom, ThreadSafe!None
<1>19. begun \in ThreadState
  BY <1>1, <1>5, <1>12, <1>16, <1>17 DEF ThreadState, ThreadResume, Absent
<1>20. /\ begun.config = config /\ begun.saved = t.saved
       /\ begun.resume = [none |-> TRUE] /\ begun.it = it /\ begun.got = got
       /\ begun.live = TRUE /\ begun.call = "idle"
  BY <1>1, <1>2, <1>17 DEF ThreadState
<1>21. DeliveredTo(config, it, got, "idle")
  <2>1. CASE config.onCompletion
    BY <1>5, <1>6, <1>7, <1>12, <2>1, RestoredIs DEF DeliveredTo
  <2>2. CASE ~config.onCompletion
    <3>1. ahead = {}
      BY <1>5, <2>2 DEF GotGood
    <3>2. it.position = start
      BY <1>6, <1>8, <1>12, <3>1, RestoredIs
    <3>3. PlacedIn(cursor, it.position, "idle")
      BY <1>7, <3>2 DEF PlacedIn
    <3>4. cursor \in 0..ThreadSafe!Batches
      BY <1>6 DEF Marking
    <3> QED BY <1>5, <2>2, <3>1, <3>3, <3>4 DEF DeliveredTo
  <2> QED BY <2>1, <2>2
<1>22. (\A b \in Ordinals : got.times[b] <= 1) /\ (~config.onCompletion => got.inOrder)
  BY <1>5, GotOnce
<1>23. Passing(config, it, got, TRUE, "idle")
  BY <1>12, <1>21, <1>22 DEF Passing
<1>24. ThreadGood(begun)
  BY <1>4, <1>19, <1>20, <1>23 DEF ThreadGood
<1>25. f \in ThreadState /\ SamePass(begun, f)
  BY <1>18, <1>19, FilledIs
<1> QED BY ONLY <1>24, <1>25, ThreadKept

LEMMA ThreadIterate ==
  ASSUME ThreadGood(thread), ThreadSafe!Iterate
  PROVE  ThreadGood(thread')
<1>1. thread \in ThreadState /\ thread.spent \in Int /\ thread.call = "idle"
  BY ThreadParts DEF ThreadSafe!Iterate
<1>2. PICK t : t = IF ThreadSafe!Unfinished(thread) THEN ThreadSafe!Closed(thread)
                   ELSE thread
  OBVIOUS
<1>3. ThreadGood(t) /\ t.call = "idle"
  <2>1. CASE t = thread
    BY <1>1, <2>1
  <2>2. CASE t = ThreadSafe!Closed(thread)
    <3>1. /\ t \in ThreadState /\ t.call = thread.call /\ t.spent = thread.spent
      BY ONLY <1>1, <2>2, ThreadClosedIs
    <3>2. t = [t EXCEPT !.call = "idle", !.spent = thread.spent]
      BY <1>1, <3>1 DEF ThreadState
    <3>3. t = [ThreadSafe!Closed(thread) EXCEPT !.call = "idle", !.spent = thread.spent]
      BY <2>2, <3>2
    <3>4. ThreadGood(t)
      BY ONLY ThreadGood(thread), <1>1, <3>3, ThreadFails
    <3> QED BY <1>1, <3>1, <3>4
  <2> QED BY <1>2, <2>1, <2>2
<1>4. PICK f : f = ThreadSafe!Started(t)
  OBVIOUS
<1>5. ThreadGood(f)
  BY ONLY <1>3, <1>4, ThreadStarts
<1>6. /\ f \in ThreadState /\ f.pool \in ThreadPool /\ f.it \in ThreadIt /\ f.spent \in Int
  BY <1>5, ThreadParts
<1>7. PICK spent \in Int : spent = f.spent + 1
  BY <1>6
<1>8. thread' = [f EXCEPT !.spent = @ + 1]
  BY <1>2, <1>4 DEF ThreadSafe!Iterate
<1>9. thread' = [f EXCEPT !.pool = f.pool, !.it = f.it, !.spent = spent]
  BY <1>6, <1>7, <1>8 DEF ThreadState
<1>10. spent \in Int
  OBVIOUS
<1> QED BY <1>5, <1>6, <1>9, <1>10, ThreadWith

LEMMA ThreadStepGood ==
  ASSUME ThreadGood(thread), ThreadSafe!ThreadNext
  PROVE  ThreadGood(thread')
<1>1. CASE ThreadSafe!OwnerStep
  BY <1>1, ThreadFinish, ThreadTakeSample, ThreadErrors, ThreadTakeCompletion,
     ThreadTakeBatch
  DEF ThreadSafe!OwnerStep, ThreadSafe!SampleFails
<1>2. CASE ThreadSafe!ThreadStep
  <2>1. ASSUME NEW p \in thread.pool.running, ThreadSafe!End(p) PROVE ThreadGood(thread')
    BY <2>1, ThreadSettle DEF ThreadSafe!End
  <2> QED BY <1>2, <2>1, ThreadEndOld, ThreadBegin, ThreadNotify DEF ThreadSafe!ThreadStep
<1>3. ASSUME NEW p \in thread.pool.running, ThreadSafe!Raises(p) PROVE ThreadGood(thread')
  BY <1>3, ThreadSettle DEF ThreadSafe!Raises
<1> QED
  BY <1>1, <1>2, <1>3, ThreadIterate, ThreadCallNext, ThreadErrors, ThreadCapture,
     ThreadLoad, ThreadAbandon
  DEF ThreadSafe!ThreadNext

LEMMA ThreadBegins ==
  ASSUME NEW config, config \in ThreadConfigs, ThreadSafe!ThreadInit(config)
  PROVE  ThreadGood(thread)
<1>1. thread = [config |-> config, pool |-> ThreadSafe!NoPool,
                it |-> ThreadSafe!NoIterator, live |-> FALSE, stale |-> FALSE,
                call |-> "idle", resume |-> [none |-> TRUE], saved |-> [none |-> TRUE],
                got |-> ThreadSafe!Nothing, spent |-> 0]
  BY DEF ThreadSafe!ThreadInit, ThreadSafe!None
<1>2. thread \in ThreadState
  BY <1>1, PoolsAre, NoIteratorIs, NothingIs
  DEF ThreadState, ThreadResume, ThreadSaved, Absent
<1>3. Remembered(thread.config, thread.saved, thread.resume)
  BY <1>1 DEF Remembered
<1>4. /\ \A b \in Ordinals : ThreadSafe!Nothing.times[b] <= 1
      /\ ThreadSafe!Nothing.inOrder
  BY NothingIs, GotOnce DEF ThreadSafe!Nothing
<1>5. Passing(thread.config, thread.it, thread.got, thread.live, thread.call)
  BY <1>1, <1>4 DEF Passing
<1> QED BY <1>2, <1>3, <1>5 DEF ThreadGood

(* The end of a good pass has every batch once.                            *)
LEMMA ThreadGoodExact ==
  ASSUME ThreadGood(thread)
  PROVE  ThreadSafe!Exact
<1>1. /\ thread.it \in ThreadIt
      /\ Passing(thread.config, thread.it, thread.got, thread.live, thread.call)
  BY DEF ThreadGood, ThreadState
<1>2. ASSUME thread.live, thread.it.complete
      PROVE  \A b \in Ordinals : thread.got.times[b] = 1
  <2>1. /\ DeliveredTo(thread.config, thread.it, thread.got, thread.call)
        /\ thread.it.position >= Samples /\ thread.it.position \in Nat
    BY <1>1, <1>2 DEF Passing, ThreadIt
  <2>2. CASE thread.config.onCompletion
    <3>1. /\ GotGood(thread.config, thread.it.base, thread.it.ahead, thread.got)
          /\ Cardinality(Within(thread.it.base, thread.it.ahead)) >= Samples
      BY <2>1, <2>2 DEF DeliveredTo
    <3>2. \A b \in Ordinals : b < thread.it.base \/ b \in thread.it.ahead
      BY <3>1, AllWithin
    <3> QED BY <3>1, <3>2, GotOnce
  <2>3. CASE ~thread.config.onCompletion
    <3>1. PICK k \in 0..ThreadSafe!Batches :
            /\ GotGood(thread.config, k, {}, thread.got)
            /\ PlacedIn(k, thread.it.position, thread.call)
      BY <2>1, <2>3 DEF DeliveredTo
    <3>2. \A b \in Ordinals : b < k
      BY <2>1, <3>1, PlacedLast
    <3> QED BY <3>1, <3>2, GotOnce
  <2> QED BY <2>2, <2>3
<1> QED BY <1>1, <1>2 DEF Passing, ThreadSafe!Exact, Ordinals

(* thread/iterator.py:1 "Strict-order delivery", and in completion order   *)
(* "completion-order delivery repeated a batch" never raised: over         *)
(* abandoned, failed, captured and restored iterators, a pass of the       *)
(* thread runtime delivers no batch twice, in order delivers them in order *)
(* and ends with all of them, for every number of samples and threads,     *)
(* every width and every frontier that holds a batch.                      *)
THEOREM ThreadsAlwaysExact == RuntimesSpec => []ThreadsExact
<1>1. RuntimesInit => ThreadInv
  BY ThreadBegins
     DEF RuntimesInit, ThreadInv, DispatchIterable, DispatchThread, DispatchStructured,
         DispatchOneByOne, ThreadSafe!ThreadUnused, ThreadSafe!None
<1>2. ThreadInv /\ [RuntimesNext]_runtimeVars => ThreadInv'
  <2> SUFFICES ASSUME ThreadInv, [RuntimesNext]_runtimeVars PROVE ThreadInv'
    OBVIOUS
  <2>1. CASE thread' = thread
    BY <2>1 DEF ThreadInv, ThreadGood
  <2>2. CASE thread # [none |-> TRUE] /\ ThreadSafe!ThreadNext
    BY <2>2, ThreadStepGood DEF ThreadInv
  <2> QED BY <2>1, <2>2 DEF RuntimesNext, runtimeVars, None
<1>3. ThreadInv => ThreadsExact
  BY ThreadGoodExact DEF ThreadInv, ThreadsExact, None
<1> QED
  BY <1>1, <1>2, <1>3, PTL DEF RuntimesSpec
===============================================================================
