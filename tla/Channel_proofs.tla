---------------------------- MODULE Channel_proofs ----------------------------
(***************************************************************************)
(* What a loadcell's sanitizer and change detector promise, for any        *)
(* configuration of them and any loads.                                    *)
(***************************************************************************)
EXTENDS Channel, TLAPS

Weight == -Top..Top

Types ==
    /\ median \in BOOLEAN /\ known \in BOOLEAN /\ calm \in BOOLEAN /\ mild \in BOOLEAN
    /\ prev \in Weight /\ bin \in Int /\ shown \in Weight /\ load \in Weight /\ turned \in Int
    /\ streak \in 0..(Relatch - 1)
    /\ window \in Seq(Weight) /\ Len(window) \in 0..3
    /\ steady \in 0..Relatch /\ glitches \in 0..Relatch

\* A value that is not the load yet has been taken for glitches ever since the
\* correct frames began.
Recovering == ~median /\ known /\ steady >= 1 => prev = load \/ streak >= steady

\* From a calm start each glitch has been turned back, and none counted twice.
Hiding ==
    /\ calm => known
    /\ ~median /\ calm /\ glitches < Relatch => prev = load /\ streak <= glitches

\* Of three readings in the window one is wrong at the most, of fewer none, and
\* the last ones are right if the last frames were.
Sound(w, n) ==
    /\ \A i, j \in 1..Len(w) : i # j => w[i] > 0 \/ w[j] > 0
    /\ Len(w) < 3 => \A i \in 1..Len(w) : w[i] > 0
    /\ n >= 1 => Len(w) >= 1 /\ w[Len(w)] > 0
    /\ n >= 2 => Len(w) >= 2 /\ w[Len(w) - 1] > 0

Outvoted == median /\ mild => Sound(window, steady)

\* The bin is the rounded value it was last changed for.
Rounded == known /\ Step # 0 => 2 * Abs(turned - bin) <= Step

SanitizerInv == /\ Types /\ Recovering /\ Hiding /\ Outvoted /\ Rounded
                /\ NeverNegative /\ CloseToValue

\* The detector compares with a value that was close to the load.
Compared == base # None => /\ base \in Weight /\ previous \in Weight
                           /\ 2 * Abs(previous - base) <= Blur

ChannelInv == SanitizerInv /\ Compared

-----------------------------------------------------------------------------
LEMMA Distance == \A x, y \in Int : Abs(x - y) \in Int /\ Abs(x - y) = Abs(y - x)
  BY DEF Abs

\* What \div gives, and that rounding moves a value by half a step at the most.
LEMMA Division ==
    ASSUME NEW a \in Int, NEW d \in Int, d > 0
    PROVE  a \div d \in Int /\ d * (a \div d) <= a /\ a < d * (a \div d) + d
  OBVIOUS

LEMMA Rounding ==
    ASSUME NEW v \in Int, Step # 0
    PROVE  HalfUp(v) \in Int /\ 2 * Abs(HalfUp(v) - v) <= Step
<1> DEFINE q == (2 * v + Step) \div (2 * Step)
<1>1. Step \in Int /\ Step > 0
  BY SanitizerAssumption
<1>2. 2 * v + Step \in Int /\ 2 * Step \in Int /\ 2 * Step > 0
  BY <1>1
<1>3. q \in Int /\ (2 * Step) * q <= 2 * v + Step /\ 2 * v + Step < (2 * Step) * q + 2 * Step
  BY <1>2, Division
<1> HIDE DEF q
<1>4. q * Step \in Int /\ (2 * Step) * q = 2 * (q * Step)
  BY <1>1, <1>3
<1>5. \A r \in Int : 2 * r <= 2 * v + Step /\ 2 * v + Step < 2 * r + 2 * Step
                     => 2 * Abs(r - v) <= Step
  BY <1>1 DEF Abs
<1>6. HalfUp(v) = q * Step
  BY DEF HalfUp, q
<1> QED
  BY <1>3, <1>4, <1>5, <1>6

\* Five digits bring a value nearer to any weight.
LEMMA Clipping ==
    ASSUME NEW v \in Weight, NEW q \in Int
    PROVE  Shown(q) \in Weight /\ Abs(Shown(q) - v) <= Abs(q - v)
  BY SanitizerAssumption DEF Shown, Weight, Abs

LEMMA Quantizing ==
    ASSUME NEW v \in Weight, bin \in Int, Step # 0
    PROVE  /\ Quantized(v) \in Int
           /\ 2 * Abs(Quantized(v) - v) <= Step + 2 * Hysteresis
<1>0. v \in Int /\ Step \in Nat /\ Hysteresis \in Nat
  BY SanitizerAssumption DEF Weight
<1>1. CASE Holds(v)
  <2>1. Quantized(v) = bin /\ 2 * Abs(v - bin) <= Step + 2 * Hysteresis
    BY <1>1 DEF Quantized, Holds
  <2>2. Abs(bin - v) = Abs(v - bin)
    BY <1>0 DEF Abs
  <2> QED
    BY <2>1, <2>2
<1>2. CASE ~Holds(v)
  <2>1. Quantized(v) = HalfUp(v) /\ HalfUp(v) \in Int /\ 2 * Abs(HalfUp(v) - v) <= Step
    BY <1>0, <1>2, Rounding DEF Quantized
  <2>2. HalfUp(v) - v \in Int /\ Abs(HalfUp(v) - v) \in Int
    BY <1>0, <2>1 DEF Abs
  <2> QED
    BY <1>0, <2>1, <2>2
<1> QED
  BY <1>1, <1>2

\* Of three readings one lies between the others; one wrong reading is not it.
LEMMA Middle ==
    ASSUME NEW w \in Seq(Weight), Len(w) = 3
    PROVE  /\ MiddleOf(w) \in Weight
           /\ (\A i, j \in 1..3 : i # j => w[i] > 0 \/ w[j] > 0) => MiddleOf(w) > 0
<1> DEFINE Between(m) == \E i, j, k \in 1..3 : {i, j, k} = 1..3 /\ w[i] <= m /\ w[j] = m /\ m <= w[k]
<1>1. w[1] \in Weight /\ w[2] \in Weight /\ w[3] \in Weight
  OBVIOUS
<1>2. \A n \in 1..3 : w[n] \in Int
  BY <1>1, SanitizerAssumption DEF Weight
<1>3. \E m \in {w[i] : i \in 1..3} : Between(m)
  <2>1. \E i, j, k \in 1..3 : {i, j, k} = 1..3 /\ w[i] <= w[j] /\ w[j] <= w[k]
    <3>1. /\ {1, 2, 3} = 1..3 /\ {1, 3, 2} = 1..3 /\ {2, 1, 3} = 1..3
          /\ {2, 3, 1} = 1..3 /\ {3, 1, 2} = 1..3 /\ {3, 2, 1} = 1..3
      OBVIOUS
    <3>2. \/ w[1] <= w[2] /\ w[2] <= w[3]
          \/ w[1] <= w[3] /\ w[3] <= w[2]
          \/ w[2] <= w[1] /\ w[1] <= w[3]
          \/ w[2] <= w[3] /\ w[3] <= w[1]
          \/ w[3] <= w[1] /\ w[1] <= w[2]
          \/ w[3] <= w[2] /\ w[2] <= w[1]
      BY <1>2
    <3>3. 1 \in 1..3 /\ 2 \in 1..3 /\ 3 \in 1..3
      OBVIOUS
    <3> QED
      BY <3>1, <3>2, <3>3, Zenon
  <2> QED
    BY <1>2, <2>1
<1>4. MiddleOf(w) \in {w[i] : i \in 1..3} /\ Between(MiddleOf(w))
  BY <1>3 DEF MiddleOf
<1>5. PICK i, j, k \in 1..3 : {i, j, k} = 1..3 /\ w[i] <= MiddleOf(w) /\ w[j] = MiddleOf(w)
  BY <1>4
<1>6. i # j
  <2>1. 1 \in 1..3 /\ 2 \in 1..3 /\ 3 \in 1..3
    OBVIOUS
  <2>2. 1 \in {i, j, k} /\ 2 \in {i, j, k} /\ 3 \in {i, j, k}
    BY <1>5, <2>1, Zenon
  <2> QED
    BY <2>2
<1>7. MiddleOf(w) \in Weight
  BY <1>1, <1>4
<1> QED
  BY <1>2, <1>5, <1>6, <1>7

-----------------------------------------------------------------------------
LEMMA FewOrThree == \A n \in 0..3 : (n < 3 \/ n = 3) /\ (n < 3 => n + 1 \in 0..3)
  OBVIOUS

LEMMA TailOfFour ==
    ASSUME NEW X, NEW s \in Seq(X), Len(s) = 4
    PROVE  /\ Tail(s) \in Seq(X) /\ Len(Tail(s)) = 3
           /\ Tail(s)[1] = s[2] /\ Tail(s)[2] = s[3] /\ Tail(s)[3] = s[4]
<1>1. s # <<>> /\ Len(Tail(s)) = 3
  OBVIOUS
<1>2. \A i \in 1..Len(Tail(s)) : Tail(s)[i] = s[i + 1]
  BY <1>1
<1>3. \A i \in 1..3 : Tail(s)[i] = s[i + 1]
  BY <1>1, <1>2
<1> QED
  BY <1>1, <1>3

\* A reading goes to the end of the window, and the oldest of four out.
LEMMA Sliding ==
    ASSUME NEW X, NEW s \in Seq(X), Len(s) \in 0..3, NEW x \in X
    PROVE  /\ Len(s) < 3 =>
                 /\ Last3(Append(s, x)) \in Seq(X) /\ Len(Last3(Append(s, x))) = Len(s) + 1
                 /\ Len(s) + 1 \in 0..3
                 /\ Last3(Append(s, x))[Len(s) + 1] = x
                 /\ \A i \in 1..Len(s) : Last3(Append(s, x))[i] = s[i]
           /\ Len(s) = 3 =>
                 /\ Last3(Append(s, x)) \in Seq(X) /\ Len(Last3(Append(s, x))) = 3
                 /\ Len(Last3(Append(s, x))) \in 0..3
                 /\ Last3(Append(s, x))[1] = s[2] /\ Last3(Append(s, x))[2] = s[3]
                 /\ Last3(Append(s, x))[3] = x
<1>1. /\ Append(s, x) \in Seq(X) /\ Len(Append(s, x)) = Len(s) + 1
      /\ Append(s, x)[Len(s) + 1] = x
      /\ \A i \in 1..Len(s) : Append(s, x)[i] = s[i]
  OBVIOUS
<1>2. CASE Len(s) < 3
  <2>1. Len(Append(s, x)) \in 0..3 /\ Len(s) + 1 \in 0..3
    BY <1>1, <1>2, FewOrThree
  <2>2. Last3(Append(s, x)) = Append(s, x)
    BY <2>1 DEF Last3
  <2> QED
    BY <1>1, <1>2, <2>1, <2>2
<1>3. CASE Len(s) = 3
  <2>1. Last3(Append(s, x)) = Tail(Append(s, x)) /\ Len(Append(s, x)) = 4
    BY <1>1, <1>3 DEF Last3
  <2>2. /\ Append(s, x)[2] = s[2] /\ Append(s, x)[3] = s[3] /\ Append(s, x)[4] = x
    BY <1>1, <1>3
  <2>3. /\ Tail(Append(s, x)) \in Seq(X) /\ Len(Tail(Append(s, x))) = 3
        /\ Tail(Append(s, x))[1] = Append(s, x)[2] /\ Tail(Append(s, x))[2] = Append(s, x)[3]
        /\ Tail(Append(s, x))[3] = Append(s, x)[4]
    BY ONLY <1>1, <2>1, TailOfFour
  <2>4. 3 \in 0..3
    OBVIOUS
  <2> QED
    BY ONLY <1>3, <2>1, <2>2, <2>3, <2>4
<1>4. Len(s) < 3 \/ Len(s) = 3
  BY FewOrThree
<1> QED
  BY <1>2, <1>3, <1>4

LEMMA Filtering ==
    ASSUME NEW reading \in Weight, NEW w \in Seq(Weight), Len(w) \in 0..3
    PROVE  /\ Filtered(reading, w) \in Weight
           /\ Len(w) # 3 => Filtered(reading, w) = reading
           /\ Len(w) = 3 => Filtered(reading, w) = MiddleOf(w)
  BY Middle DEF Filtered

\* The window that a reading goes into.
Before(fresh) == IF fresh THEN window ELSE <<>>

LEMMA Windows ==
    ASSUME Types, NEW reading \in Weight, NEW fresh \in BOOLEAN
    PROVE  /\ Before(fresh) \in Seq(Weight) /\ Len(Before(fresh)) \in 0..3
           /\ Filled(reading, fresh) \in Seq(Weight) /\ Len(Filled(reading, fresh)) \in 0..3
           /\ median => Filled(reading, fresh) = Last3(Append(Before(fresh), reading))
           /\ ~median => Filled(reading, fresh) = <<>> /\ Len(Filled(reading, fresh)) = 0
<1>1. Before(fresh) \in Seq(Weight) /\ Len(Before(fresh)) \in 0..3
  <2>1. window \in Seq(Weight) /\ Len(window) \in 0..3
    BY DEF Types
  <2>2. <<>> \in Seq(Weight) /\ Len(<<>>) \in 0..3
    OBVIOUS
  <2> QED
    BY <2>1, <2>2, Zenon DEF Before
<1>2. CASE median
  <2>1. Filled(reading, fresh) = Last3(Append(Before(fresh), reading))
    BY <1>2 DEF Filled, Before
  <2>2. Len(Before(fresh)) < 3 \/ Len(Before(fresh)) = 3
    BY <1>1, FewOrThree
  <2>3. /\ Last3(Append(Before(fresh), reading)) \in Seq(Weight)
        /\ Len(Last3(Append(Before(fresh), reading))) \in 0..3
    BY <1>1, <2>2, Sliding
  <2> QED
    BY <1>1, <1>2, <2>1, <2>3
<1>3. CASE ~median
  BY <1>1, <1>3 DEF Filled
<1> QED
  BY <1>2, <1>3

\* What sanitize() makes of a reading, whatever the filter gives.
LEMMA FrameMakes ==
    ASSUME Types, NEW reading \in Weight, NEW fresh \in BOOLEAN, Sanitize(reading, fresh)
    PROVE  /\ known' = TRUE /\ median' = median
           /\ window' \in Seq(Weight) /\ Len(window') \in 0..3
           /\ prev' \in Weight
           /\ bin' = (IF Step = 0 THEN bin ELSE Quantized(prev'))
           /\ shown' = Shown(IF Step = 0 THEN prev' ELSE bin')
           /\ turned' = IF known /\ bin' = bin THEN turned ELSE prev'
           /\ streak' \in 0..(Relatch - 1)
           /\ ~median => prev' = Corrected(reading, fresh) /\ streak' = NextStreak(reading, fresh)
           /\ median => /\ window' = Last3(Append(Before(fresh), reading))
                        /\ prev' = Corrected(Filtered(reading, window'), fresh)
<1> DEFINE w == Filled(reading, fresh)
           v == Filtered(reading, w)
<1>1. window' = w /\ streak' = NextStreak(v, fresh) /\ prev' = Corrected(v, fresh)
      /\ known' = TRUE /\ median' = median
      /\ bin' = (IF Step = 0 THEN bin ELSE Quantized(prev'))
      /\ shown' = Shown(IF Step = 0 THEN prev' ELSE bin')
      /\ turned' = IF known /\ bin' = bin THEN turned ELSE prev'
  BY DEF Sanitize
<1>2. w \in Seq(Weight) /\ Len(w) \in 0..3
      /\ (median => w = Last3(Append(Before(fresh), reading)))
      /\ (~median => Len(w) = 0)
  BY Windows
<1> HIDE DEF w
<1>3. v \in Weight /\ (Len(w) # 3 => v = reading)
  BY <1>2, Filtering
<1> HIDE DEF v
<1>4. Corrected(v, fresh) \in Weight
  BY <1>3, SanitizerAssumption DEF Corrected, Weight
<1>5. NextStreak(v, fresh) \in 0..(Relatch - 1)
  BY SanitizerAssumption DEF NextStreak, Restores, Types
<1>6. ~median => v = reading
  BY <1>2, <1>3
<1> QED
  BY <1>1, <1>2, <1>4, <1>5, <1>6 DEF v

LEMMA UpToBounded ==
    ASSUME NEW bound \in Nat, NEW n \in 0..bound
    PROVE  UpTo(n + 1, bound) \in 0..bound /\ UpTo(n + 1, bound) = IF n = bound THEN n ELSE n + 1
  BY DEF UpTo

LEMMA CountsBounded ==
    ASSUME Types
    PROVE  /\ UpTo(steady + 1, Relatch) \in 0..Relatch
           /\ UpTo(glitches + 1, Relatch) \in 0..Relatch
           /\ 0 \in 0..Relatch /\ 1 \in 0..Relatch
<1>1. Relatch \in Nat /\ 0 \in 0..Relatch /\ 1 \in 0..Relatch
  BY SanitizerAssumption
<1>2. steady \in 0..Relatch /\ glitches \in 0..Relatch
  BY DEF Types
<1> QED
  BY ONLY <1>1, <1>2, UpToBounded

\* Of a load the reading is the load itself, or its negative.
LEMMA Readings ==
    ASSUME NEW l \in Loads
    PROVE  l \in Weight /\ -l \in Weight
  BY SanitizerAssumption DEF Weight

LEMMA Nothing ==
    /\ <<>> \in Seq(Weight) /\ Len(<<>>) = 0 /\ 0 \in 0..3
    /\ 0 \in Weight /\ 0 \in 0..(Relatch - 1) /\ 0 \in 0..Relatch
  BY SanitizerAssumption DEF Weight

LEMMA TypesInit == Init => Types
<1> SUFFICES ASSUME Init
             PROVE  Types
  OBVIOUS
<1>1. window \in Seq(Weight) /\ Len(window) \in 0..3
  BY Nothing DEF Init
<1>2. median \in BOOLEAN /\ known \in BOOLEAN /\ calm \in BOOLEAN /\ mild \in BOOLEAN
  BY Zenon DEF Init
<1>3. prev = 0 /\ bin = 0 /\ shown = 0 /\ load = 0 /\ turned = 0 /\ streak = 0 /\ steady = 0
      /\ glitches = 0
  BY DEF Init
<1> QED
  BY ONLY <1>1, <1>2, <1>3, Nothing DEF Types

LEMMA TypesKept == Types /\ [Next]_vars => Types'
<1> SUFFICES ASSUME Types, [Next]_vars
             PROVE  Types'
  OBVIOUS
<1>1. ASSUME NEW l \in Loads, NEW reading \in Weight, NEW fresh \in BOOLEAN,
             Sanitize(reading, fresh), load' = l,
             steady' \in 0..Relatch, glitches' \in 0..Relatch, calm' \in BOOLEAN, mild' \in BOOLEAN
      PROVE  Types'
  <2>1. bin' \in Int /\ shown' \in Weight
    <3>1. /\ prev' \in Weight /\ bin \in Int
          /\ bin' = (IF Step = 0 THEN bin ELSE Quantized(prev'))
          /\ shown' = Shown(IF Step = 0 THEN prev' ELSE bin')
      BY <1>1, FrameMakes DEF Types
    <3>2. bin' \in Int
      BY <3>1, Quantizing
    <3>3. prev' \in Int
      BY <3>1, SanitizerAssumption DEF Weight
    <3> QED
      BY <3>1, <3>2, <3>3, Clipping
  <2>2. turned' \in Int
    <3>1. turned' \in {turned, prev'} /\ prev' \in Weight
      BY <1>1, FrameMakes
    <3>2. \A x \in Weight : x \in Int
      BY SanitizerAssumption DEF Weight
    <3> QED
      BY <3>1, <3>2 DEF Types
  <2> QED
    BY <1>1, <2>1, <2>2, FrameMakes, Readings DEF Types
<1>2. ASSUME NEW l \in Loads, NEW fresh \in BOOLEAN, CleanFrame(l, fresh)
      PROVE  Types'
  <2>1. steady' \in 0..Relatch /\ glitches' \in 0..Relatch
    BY <1>2, CountsBounded DEF CleanFrame
  <2>2. calm' \in BOOLEAN /\ mild' \in BOOLEAN
    BY <1>2, Zenon DEF CleanFrame
  <2> QED
    BY <1>1, <1>2, <2>1, <2>2, Readings DEF CleanFrame
<1>3. ASSUME NEW l \in Loads, NEW fresh \in BOOLEAN, GlitchedFrame(l, fresh)
      PROVE  Types'
  <2>1. steady' \in 0..Relatch /\ glitches' \in 0..Relatch
    BY <1>3, CountsBounded DEF GlitchedFrame
  <2>2. calm' \in BOOLEAN /\ mild' \in BOOLEAN
    BY <1>3, Zenon DEF GlitchedFrame
  <2> QED
    BY <1>1, <1>3, <2>1, <2>2, Readings DEF GlitchedFrame
<1>4. CASE Reset
  <2>1. window' \in Seq(Weight) /\ Len(window') \in 0..3
    BY <1>4, Nothing DEF Reset
  <2>2. median' \in BOOLEAN /\ known' \in BOOLEAN /\ calm' \in BOOLEAN /\ mild' \in BOOLEAN
    BY <1>4, Zenon DEF Reset, Types
  <2>3. prev' = 0 /\ bin' = 0 /\ streak' = 0 /\ steady' = 0 /\ glitches' = 0
        /\ UNCHANGED <<shown, load, turned>>
    BY <1>4 DEF Reset
  <2> QED
    BY ONLY Types, <2>1, <2>2, <2>3, Nothing DEF Types
<1>5. CASE UNCHANGED vars
  BY <1>5 DEF vars, memory, ghosts, Types
<1> QED
  BY <1>2, <1>3, <1>4, <1>5 DEF Next

-----------------------------------------------------------------------------
\* Without the filter, a correct frame is taken as it is, or the streak grows.
LEMMA CleanStreak ==
    ASSUME Types, ~median, NEW l \in Loads, NEW fresh \in BOOLEAN, Sanitize(l, fresh)
    PROVE  /\ prev' = l \/ (streak' = streak + 1 /\ prev' = -l /\ Opposite(l, prev) /\ fresh)
           /\ prev' = l => streak' = 0
<1>1. prev' = Corrected(l, fresh) /\ streak' = NextStreak(l, fresh)
  BY FrameMakes, Readings
<1>2. l \in Int /\ prev \in Int
  BY Readings, SanitizerAssumption DEF Types, Weight
<1>3. CASE Restores(l, fresh)
  <2>1. prev' = -l /\ streak' = streak + 1 /\ Opposite(l, prev) /\ fresh
    BY <1>1, <1>3 DEF Corrected, NextStreak, Restores, LooksFlipped
  <2>2. -l # l
    BY <1>2, <2>1 DEF Opposite
  <2> QED
    BY <2>1, <2>2
<1>4. CASE ~Restores(l, fresh)
  BY <1>1, <1>4 DEF Corrected, NextStreak
<1> QED
  BY <1>3, <1>4

LEMMA RecoveringKept == Types /\ Recovering /\ [Next]_vars => Recovering'
<1> SUFFICES ASSUME Types, Recovering, [Next]_vars, ~median', known', steady' >= 1
             PROVE  prev' = load' \/ streak' >= steady'
  BY DEF Recovering
<1>0. /\ Relatch \in Nat /\ steady \in 0..Relatch /\ streak \in 0..(Relatch - 1)
      /\ prev \in Int /\ load \in Int
  BY SanitizerAssumption DEF Types, Weight
<1>1. ASSUME NEW l \in Loads, NEW fresh \in BOOLEAN, CleanFrame(l, fresh), prev' # l
      PROVE  streak' >= steady'
  <2>1. Sanitize(l, fresh) /\ ~median
    BY <1>1, FrameMakes, Readings DEF CleanFrame
  <2>2. streak' = streak + 1 /\ Opposite(l, prev)
    BY <1>1, <2>1, CleanStreak
  <2>3. l \in Int
    BY Readings, SanitizerAssumption DEF Weight
  <2>4. CASE steady' = 1
    BY <1>0, <2>2, <2>4
  <2>5. CASE steady' # 1
    <3>1. /\ steady' = UpTo(steady + 1, Relatch)
          /\ (l > 0 /\ load > 0) \/ (l < 0 /\ load < 0)
      BY <1>1, <2>5 DEF CleanFrame
    <3>2. steady' <= steady + 1
      BY <1>0, <3>1 DEF UpTo
    <3>3. prev # load
      BY <1>0, <2>2, <2>3, <3>1 DEF Opposite
    <3>4. known
      BY <1>1, <2>1, <2>2, FrameMakes, Readings DEF Sanitize, Corrected, Restores, LooksFlipped
    <3>5. steady >= 1 => streak >= steady
      BY <2>1, <3>3, <3>4 DEF Recovering
    <3>6. UpTo(steady + 1, Relatch) \in Int
      BY <1>0, CountsBounded
    <3> QED
      BY <1>0, <2>2, <3>1, <3>2, <3>5, <3>6
  <2> QED
    BY <2>4, <2>5
<1>2. ASSUME NEW l \in Loads, NEW fresh \in BOOLEAN, CleanFrame(l, fresh)
      PROVE  prev' = load' \/ streak' >= steady'
  BY <1>1, <1>2 DEF CleanFrame
<1>3. ASSUME NEW l \in Loads, NEW fresh \in BOOLEAN, GlitchedFrame(l, fresh)
      PROVE  FALSE
  BY <1>3 DEF GlitchedFrame
<1>4. CASE Reset
  BY <1>4 DEF Reset
<1>5. CASE UNCHANGED vars
  BY <1>5 DEF vars, memory, ghosts, Recovering
<1> QED
  BY <1>2, <1>3, <1>4, <1>5 DEF Next

LEMMA HidingKept == Types /\ Hiding /\ [Next]_vars => Hiding'
<1> SUFFICES ASSUME Types, Hiding, [Next]_vars, calm'
             PROVE  known' /\ (~median' /\ glitches' < Relatch => prev' = load' /\ streak' <= glitches')
  BY DEF Hiding
<1>0. /\ Relatch \in Nat /\ glitches \in 0..Relatch /\ streak \in 0..(Relatch - 1)
      /\ prev \in Int /\ load \in Int
  BY SanitizerAssumption DEF Types, Weight
<1>1. ASSUME NEW l \in Loads, NEW fresh \in BOOLEAN, CleanFrame(l, fresh)
      PROVE  known' /\ (~median' => prev' = load' /\ streak' <= glitches')
  <2>1. Sanitize(l, fresh) /\ prev' = l /\ load' = l /\ glitches' = 0
    BY <1>1 DEF CleanFrame
  <2>2. known' = TRUE /\ median' = median
    BY <2>1, FrameMakes, Readings
  <2>3. ~median => streak' = 0
    BY <2>1, CleanStreak
  <2> QED
    BY <2>1, <2>2, <2>3
<1>2. ASSUME NEW l \in Loads, NEW fresh \in BOOLEAN, GlitchedFrame(l, fresh)
      PROVE  known' /\ (~median' /\ glitches' < Relatch => prev' = load' /\ streak' <= glitches')
  <2>1. Sanitize(-l, fresh) /\ load' = l /\ glitches' = UpTo(glitches + 1, Relatch)
        /\ calm /\ fresh /\ Abs(l) >= MinMagnitude /\ Alike(l, prev) /\ ~Opposite(l, load) /\ load # 0
    BY <1>2 DEF GlitchedFrame
  <2>2. known' = TRUE /\ median' = median
    BY <2>1, FrameMakes, Readings
  <2>3. l \in Int /\ -l \in Int
    BY Readings, SanitizerAssumption DEF Weight
  <2>4. ASSUME ~median, glitches' < Relatch
        PROVE  prev' = load' /\ streak' <= glitches'
    <3>1. glitches < Relatch /\ glitches' = glitches + 1 /\ glitches + 1 < Relatch
      BY <1>0, <2>1, <2>4 DEF UpTo
    <3>2. known /\ prev = load /\ streak <= glitches
      BY <2>1, <2>4, <3>1 DEF Hiding
    <3>3. Abs(-l) = Abs(l)
      BY <2>3 DEF Abs
    <3>4. prev' = Corrected(-l, fresh) /\ streak' = NextStreak(-l, fresh)
      BY <2>1, <2>4, FrameMakes, Readings
    <3>5. CASE l = 0
      <4>1. -l = 0
        <5>1. \A x \in Int : -x \in Int /\ x + -x = 0
          OBVIOUS
        <5>2. \A y \in Int : 0 + y = 0 => y = 0
          OBVIOUS
        <5> QED BY <2>3, <3>5, <5>1, <5>2
      <4>0. ~LooksFlipped(-l, fresh)
        BY <4>1 DEF LooksFlipped, Opposite
      <4>2. prev' = -l /\ streak' = 0
        BY <3>4, <4>0 DEF Corrected, NextStreak, Restores
      <4> QED
        BY <1>0, <2>1, <3>1, <3>5, <4>1, <4>2
    <3>6. CASE l # 0
      <4>1. Opposite(-l, prev)
        BY <1>0, <2>1, <2>3, <3>2, <3>6 DEF Opposite
      <4>2. streak + 1 < Relatch
        BY <1>0, <3>1, <3>2
      <4>3. Restores(-l, fresh)
        BY <2>1, <3>2, <3>3, <4>1, <4>2 DEF Restores, LooksFlipped, Alike
      <4>4. prev' = -(-l) /\ streak' = streak + 1
        BY <3>4, <4>3 DEF Corrected, NextStreak
      <4> QED
        BY <1>0, <2>1, <2>3, <3>1, <3>2, <4>4
    <3> QED
      BY <3>5, <3>6
  <2> QED
    BY <2>2, <2>4
<1>3. CASE Reset
  BY <1>3 DEF Reset
<1>4. CASE UNCHANGED vars
  BY <1>4 DEF vars, memory, ghosts, Hiding
<1> QED
  BY <1>1, <1>2, <1>3, <1>4 DEF Next

-----------------------------------------------------------------------------
\* A correct reading keeps the window sound; a wrong one does after two that were
\* correct, and fills it.
LEMMA SoundSlides ==
    ASSUME NEW s \in Seq(Weight), Len(s) \in 0..3, NEW n \in Nat, Sound(s, n), NEW x \in Weight,
           NEW m \in Nat
    PROVE  /\ x > 0 /\ (m >= 2 => n >= 1) => Sound(Last3(Append(s, x)), m)
           /\ n >= 2 /\ m = 0 => /\ Sound(Last3(Append(s, x)), m)
                                 /\ Len(Last3(Append(s, x))) = 3
<1>0. \A i \in 1..Len(s) : s[i] \in Int
  BY SanitizerAssumption DEF Weight
<1>slid. Len(s) < 3 => /\ Len(Last3(Append(s, x))) = Len(s) + 1 /\ Last3(Append(s, x))[Len(s) + 1] = x
                    /\ \A i \in 1..Len(s) : Last3(Append(s, x))[i] = s[i]
  BY Sliding
<1>1. CASE Len(s) = 0
  <2>1. Len(Last3(Append(s, x))) = 1 /\ Last3(Append(s, x))[1] = x
    BY <1>1, <1>slid
  <2>2. n < 1
    BY <1>1 DEF Sound
  <2> QED
    BY <2>1, <2>2 DEF Sound
<1>2. CASE Len(s) = 1
  <2>1. Len(Last3(Append(s, x))) = 2 /\ Last3(Append(s, x))[2] = x /\ Last3(Append(s, x))[1] = s[1]
    BY <1>2, <1>slid
  <2>2. s[1] > 0 /\ n < 2
    BY <1>2 DEF Sound
  <2> QED
    BY <2>1, <2>2 DEF Sound
<1>3. CASE Len(s) = 2
  <2>1. /\ Len(Last3(Append(s, x))) = 3 /\ Last3(Append(s, x))[3] = x
        /\ Last3(Append(s, x))[1] = s[1] /\ Last3(Append(s, x))[2] = s[2]
    BY <1>3, <1>slid
  <2>2. s[1] > 0 /\ s[2] > 0
    BY <1>3 DEF Sound
  <2> QED
    BY <2>1, <2>2 DEF Sound
<1>4. CASE Len(s) = 3
  <2>1. /\ Len(Last3(Append(s, x))) = 3 /\ Last3(Append(s, x))[3] = x
        /\ Last3(Append(s, x))[1] = s[2] /\ Last3(Append(s, x))[2] = s[3]
    BY <1>4, Sliding
  <2>2. /\ s[2] > 0 \/ s[3] > 0
        /\ n >= 1 => s[3] > 0
        /\ n >= 2 => s[2] > 0
    BY <1>4 DEF Sound
  <2> QED
    BY <2>1, <2>2 DEF Sound
<1>5. \A k \in 0..3 : k = 0 \/ k = 1 \/ k = 2 \/ k = 3
  OBVIOUS
<1> QED
  BY <1>1, <1>2, <1>3, <1>4, <1>5

\* What the filter makes of a sound window is positive, if the reading is or is
\* outvoted.
LEMMA SoundFilters ==
    ASSUME NEW w \in Seq(Weight), Len(w) \in 0..3, NEW m \in Nat, Sound(w, m),
           NEW x \in Weight, x > 0 \/ Len(w) = 3
    PROVE  Filtered(x, w) > 0
<1>1. CASE Len(w) = 3
  <2>1. \A i, j \in 1..3 : i # j => w[i] > 0 \/ w[j] > 0
    BY <1>1 DEF Sound
  <2> QED
    BY <1>1, <2>1, Middle DEF Filtered
<1>2. CASE Len(w) # 3
  BY <1>2 DEF Filtered
<1> QED
  BY <1>1, <1>2

\* A positive value beside positive ones is not turned.
LEMMA PositiveStays ==
    ASSUME Types, NEW v \in Weight, v > 0, NEW fresh \in BOOLEAN, known => prev > 0
    PROVE  Corrected(v, fresh) = v
  BY SanitizerAssumption DEF Types, Weight, Corrected, Restores, LooksFlipped, Opposite

LEMMA OutvotedKept ==
    Types /\ Outvoted /\ NeverNegative /\ [Next]_vars => Outvoted' /\ NeverNegative'
<1> SUFFICES ASSUME Types, Outvoted, NeverNegative, [Next]_vars, median', mild'
             PROVE  Sound(window, steady)' /\ (known' => prev' > 0)
  BY DEF Outvoted, NeverNegative
<1>0. Relatch \in Nat /\ Relatch >= 2 /\ steady \in Nat /\ steady \in 0..Relatch
  BY SanitizerAssumption DEF Types
<1>1. ASSUME NEW x \in Weight, NEW fresh \in BOOLEAN, Sanitize(x, fresh), mild,
             \/ x > 0 /\ (steady' >= 2 => fresh /\ steady >= 1)
             \/ fresh /\ steady >= 2 /\ steady' = 0
      PROVE  Sound(window, steady)' /\ (known' => prev' > 0)
  <2>1. median /\ window' = Last3(Append(Before(fresh), x))
        /\ prev' = Corrected(Filtered(x, window'), fresh)
        /\ window' \in Seq(Weight) /\ Len(window') \in 0..3
    BY <1>1, FrameMakes
  <2>2. Types'
    BY TypesKept
  <2>3. steady' \in Nat
    BY <1>0, <2>2 DEF Types
  <2>4. Before(fresh) \in Seq(Weight) /\ Len(Before(fresh)) \in 0..3
    BY Windows
  <2>5. PICK n \in Nat : /\ Sound(Before(fresh), n)
                         /\ fresh => n = steady
    <3>1. CASE fresh
      BY <1>0, <1>1, <2>1, <3>1 DEF Before, Outvoted
    <3>2. CASE ~fresh
      <4>1. Before(fresh) = <<>> /\ Len(<<>>) = 0 /\ 0 \in Nat
        BY <3>2 DEF Before
      <4>2. Sound(<<>>, 0)
        BY DEF Sound
      <4> QED
        BY <3>2, <4>1, <4>2
    <3> QED
      BY <3>1, <3>2
  <2>6. Sound(window', steady') /\ (x > 0 \/ Len(window') = 3)
    <3>1. CASE x > 0 /\ (steady' >= 2 => fresh /\ steady >= 1)
      BY <2>1, <2>3, <2>4, <2>5, <3>1, SoundSlides
    <3>2. CASE fresh /\ steady >= 2 /\ steady' = 0
      BY <2>1, <2>3, <2>4, <2>5, <3>2, SoundSlides
    <3> QED
      BY <1>1, <3>1, <3>2
  <2>7. Filtered(x, window') > 0 /\ Filtered(x, window') \in Weight
    BY <2>1, <2>3, <2>6, SoundFilters, Filtering
  <2>8. known => prev > 0
    BY <1>1, <2>1 DEF NeverNegative
  <2> QED
    BY <2>1, <2>6, <2>7, <2>8, PositiveStays
<1>2. ASSUME NEW l \in Loads, NEW fresh \in BOOLEAN, CleanFrame(l, fresh)
      PROVE  Sound(window, steady)' /\ (known' => prev' > 0)
  <2>1. Sanitize(l, fresh) /\ mild /\ l > 0
    BY <1>2 DEF CleanFrame
  <2>2. steady' >= 2 => fresh /\ steady >= 1
    <3>1. steady' = 1 \/ (fresh /\ steady' = UpTo(steady + 1, Relatch))
      BY <1>2 DEF CleanFrame
    <3>2. UpTo(steady + 1, Relatch) \in Int /\ UpTo(steady + 1, Relatch) <= steady + 1
      BY <1>0 DEF UpTo
    <3> QED
      BY <1>0, <3>1, <3>2
  <2> QED
    BY <1>1, <2>1, <2>2, Readings
<1>3. ASSUME NEW l \in Loads, NEW fresh \in BOOLEAN, GlitchedFrame(l, fresh)
      PROVE  Sound(window, steady)' /\ (known' => prev' > 0)
  BY <1>1, <1>3, Readings DEF GlitchedFrame
<1>4. CASE Reset
  <2>1. window' = <<>> /\ Len(<<>>) = 0 /\ steady' = 0 /\ ~known'
    BY <1>4 DEF Reset
  <2> QED
    BY <2>1 DEF Sound
<1>5. CASE UNCHANGED vars
  BY <1>5 DEF vars, memory, ghosts, Outvoted, NeverNegative, Sound
<1> QED
  BY <1>2, <1>3, <1>4, <1>5 DEF Next

-----------------------------------------------------------------------------
\* A bin changes to the rounded value only; it stays while the value is close.
LEMMA Requantizing ==
    ASSUME NEW v \in Weight, bin \in Int, Step # 0, ~(known /\ Quantized(v) = bin)
    PROVE  2 * Abs(v - Quantized(v)) <= Step /\ (known => 2 * Abs(v - bin) > Step + 2 * Hysteresis)
<1>1. v \in Int /\ Step \in Nat /\ Hysteresis \in Nat
  BY SanitizerAssumption DEF Weight
<1>2. ~Holds(v)
  BY DEF Quantized, Holds
<1>3. Quantized(v) = HalfUp(v) /\ HalfUp(v) \in Int /\ 2 * Abs(HalfUp(v) - v) <= Step
  BY <1>1, <1>2, Rounding DEF Quantized
<1>4. Abs(v - HalfUp(v)) = Abs(HalfUp(v) - v)
  BY <1>1, <1>3 DEF Abs
<1>5. 2 * Abs(v - Quantized(v)) <= Step
  BY ONLY <1>3, <1>4
<1>6. known => 2 * Abs(v - bin) > Step + 2 * Hysteresis
  <2>1. Abs(v - bin) \in Int
    BY <1>1 DEF Abs
  <2> QED
    BY <1>1, <1>2, <2>1 DEF Holds
<1> QED
  BY <1>5, <1>6

LEMMA RoundingKept ==
    Types /\ Rounded /\ CloseToValue /\ [Next]_vars => Rounded' /\ CloseToValue'
<1> SUFFICES ASSUME Types, Rounded, CloseToValue, [Next]_vars
             PROVE  Rounded' /\ CloseToValue'
  OBVIOUS
<1>1. ASSUME NEW x \in Weight, NEW fresh \in BOOLEAN, Sanitize(x, fresh)
      PROVE  Rounded' /\ CloseToValue'
  <2>1. /\ prev' \in Weight
        /\ bin' = (IF Step = 0 THEN bin ELSE Quantized(prev'))
        /\ shown' = Shown(IF Step = 0 THEN prev' ELSE bin')
        /\ turned' = IF known /\ bin' = bin THEN turned ELSE prev'
    BY <1>1, FrameMakes
  <2>2. prev' \in Int /\ bin \in Int /\ Step \in Nat /\ Hysteresis \in Nat
    BY <2>1, SanitizerAssumption DEF Types, Weight
  <2> DEFINE q == IF Step = 0 THEN prev' ELSE bin'
  <2>3. q \in Int /\ 2 * Abs(q - prev') <= Step + 2 * Hysteresis
    <3>1. CASE Step = 0
      <4>1. q = prev'
        BY <3>1
      <4>2. \A v \in Int : Abs(v - v) = 0
        BY DEF Abs
      <4>3. Abs(q - prev') = 0
        BY <2>2, <4>1, <4>2
      <4> QED
        BY <2>2, <4>1, <4>3
    <3>2. CASE Step # 0
      BY <2>1, <2>2, <3>2, Quantizing
    <3> QED
      BY <3>1, <3>2
  <2>0. shown' = Shown(q)
    BY <2>1
  <2> HIDE DEF q
  <2>4. shown' \in Weight /\ Abs(shown' - prev') <= Abs(q - prev')
    BY <2>0, <2>1, <2>3, Clipping
  <2>5. shown' \in Int
    BY <2>4, SanitizerAssumption DEF Weight
  <2>6. 2 * Abs(shown' - prev') <= Step + 2 * Hysteresis
    <3>1. Abs(shown' - prev') \in Int /\ Abs(q - prev') \in Int
      BY <2>2, <2>3, <2>5, Distance
    <3> QED
      BY ONLY <2>2, <2>3, <2>4, <3>1
  <2>7. CASE known /\ bin' = bin
    BY <2>1, <2>6, <2>7 DEF Rounded, CloseToValue
  <2>8. CASE ~(known /\ bin' = bin)
    <3>1. Step # 0 => 2 * Abs(prev' - bin') <= Step
      BY <2>1, <2>2, <2>8, Requantizing
    <3> QED
      BY <2>1, <2>6, <2>8, <3>1 DEF Rounded, CloseToValue
  <2> QED
    BY <2>7, <2>8
<1>2. ASSUME NEW l \in Loads, NEW fresh \in BOOLEAN, CleanFrame(l, fresh) \/ GlitchedFrame(l, fresh)
      PROVE  Rounded' /\ CloseToValue'
  BY <1>1, <1>2, Readings DEF CleanFrame, GlitchedFrame
<1>3. CASE Reset
  BY <1>3 DEF Reset, Rounded, CloseToValue
<1>4. CASE UNCHANGED vars
  BY <1>4 DEF vars, memory, ghosts, Rounded, CloseToValue
<1> QED
  BY <1>2, <1>3, <1>4 DEF Next

\* The distance from the value of the last change is more than what it may have
\* been rounded by.
LEMMA Margin ==
    ASSUME NEW v \in Int, NEW t \in Int, NEW b \in Int, NEW s \in Nat, NEW h \in Nat,
           2 * Abs(t - b) <= s, 2 * Abs(v - b) > s + 2 * h
    PROVE  Abs(v - t) > h
  BY DEF Abs

LEMMA Flapping ==
    ASSUME Types, Rounded, [Next]_vars, known, known', bin' # bin
    PROVE  Abs(prev' - turned) > Hysteresis
<1>1. ASSUME NEW x \in Weight, NEW fresh \in BOOLEAN, Sanitize(x, fresh)
      PROVE  Abs(prev' - turned) > Hysteresis
  <2>1. prev' \in Weight /\ Step # 0 /\ bin' = Quantized(prev')
    BY <1>1, FrameMakes
  <2>2. 2 * Abs(prev' - bin) > Step + 2 * Hysteresis
    BY <2>1, Requantizing DEF Types
  <2>3. prev' \in Int /\ turned \in Int /\ bin \in Int /\ Step \in Nat /\ Hysteresis \in Nat
    BY <2>1, SanitizerAssumption DEF Types, Weight
  <2>4. 2 * Abs(turned - bin) <= Step
    BY <2>1 DEF Rounded
  <2> QED
    BY ONLY <2>2, <2>3, <2>4, Margin
<1>2. ASSUME NEW l \in Loads, NEW fresh \in BOOLEAN, CleanFrame(l, fresh) \/ GlitchedFrame(l, fresh)
      PROVE  Abs(prev' - turned) > Hysteresis
  BY <1>1, <1>2, Readings DEF CleanFrame, GlitchedFrame
<1>3. CASE Reset
  BY <1>3 DEF Reset
<1>4. CASE UNCHANGED vars
  BY <1>4 DEF vars, memory
<1> QED
  BY <1>2, <1>3, <1>4 DEF Next

-----------------------------------------------------------------------------
LEMMA SanitizerInit == Init => SanitizerInv
  BY TypesInit DEF Init, SanitizerInv, Recovering, Hiding, Outvoted, Sound, Rounded, NeverNegative,
                   CloseToValue

LEMMA SanitizerKept == SanitizerInv /\ [Next]_vars => SanitizerInv'
  BY TypesKept, RecoveringKept, HidingKept, OutvotedKept, RoundingKept DEF SanitizerInv

\* What the invariant says of the value remembered.
LEMMA SanitizerPromises == SanitizerInv => Recovers /\ GlitchesHidden
<1> SUFFICES ASSUME SanitizerInv
             PROVE  Recovers /\ GlitchesHidden
  OBVIOUS
<1>1. Recovers
  BY SanitizerAssumption DEF SanitizerInv, Types, Recovering, Recovers
<1>2. GlitchesHidden
  BY DEF SanitizerInv, Hiding, GlitchesHidden
<1> QED
  BY <1>1, <1>2

LEMMA SanitizerInvariant == Spec => []SanitizerInv
  BY SanitizerInit, SanitizerKept, PTL DEF Spec

\* Whatever sign the sanitizer has locked on to, relatch_frames correct frames of
\* a load that keeps its sign bring back the load.
THEOREM RecoversHolds == Spec => []Recovers
  BY SanitizerInvariant, SanitizerPromises, PTL

\* Fewer glitches in a row than relatch_frames do not show, if the value was right
\* before them.
THEOREM GlitchesHiddenHolds == Spec => []GlitchesHidden
  BY SanitizerInvariant, SanitizerPromises, PTL

\* With the median filter positive loads never look like negative ones, as long as
\* each glitch comes after two correct frames.
THEOREM NeverNegativeHolds == Spec => []NeverNegative
<1>1. SanitizerInv => NeverNegative
  BY DEF SanitizerInv
<1> QED
  BY <1>1, SanitizerInvariant, PTL

\* Rounding, hysteresis and the five digits of a weight keep what is shown within
\* half a step and the hysteresis of the corrected value.
THEOREM CloseToValueHolds == Spec => []CloseToValue
<1>1. SanitizerInv => CloseToValue
  BY DEF SanitizerInv
<1> QED
  BY <1>1, SanitizerInvariant, PTL

\* The bin changes only for a value that is more than the hysteresis away from the
\* value it changed for last.
THEOREM NoFlappingHolds == Spec => NoFlapping
<1>1. SanitizerInv /\ [Next]_vars => [known /\ known' /\ bin' # bin => Abs(prev' - turned) > Hysteresis]_vars
  BY Flapping DEF SanitizerInv
<1> QED
  BY <1>1, SanitizerInvariant, PTL DEF Spec, NoFlapping

-----------------------------------------------------------------------------
LEMMA SanitizerSteps == [CNext]_cvars => [Next]_vars
  BY DEF CNext, Frame, ErrorFrame, PollFails, Connect, Calibrate, Next, cvars

\* Between the sensor and the events the sanitizer works as it does alone: what is
\* proved of it above holds in the channel.
THEOREM ChannelImplementsSanitizer == CSpec => Spec
<1>1. CInit => Init
  BY DEF CInit
<1> QED
  BY <1>1, SanitizerSteps, PTL DEF CSpec, Spec

LEMMA ChannelInit == CInit => ChannelInv
  BY SanitizerInit DEF CInit, ChannelInv, Compared

\* While the value is trusted, what is shown is close to the load.
ShownRight == load \in Weight /\ shown \in Weight /\ 2 * Abs(shown - load) <= Blur

LEMMA ShownClose == SanitizerInv /\ Trusted => ShownRight
<1> SUFFICES ASSUME SanitizerInv, Trusted
             PROVE  ShownRight
  OBVIOUS
<1>1. prev = load
  BY SanitizerPromises DEF Trusted, Recovers, GlitchesHidden
<1>2. known
  BY DEF Trusted
<1> QED
  BY <1>1, <1>2 DEF SanitizerInv, Types, CloseToValue, Blur, ShownRight

\* A frame of the polling that leaves the detector with a base was right.
LEMMA ProcessRight ==
    ASSUME SanitizerInv', Process(shown'), base' # None
    PROVE  base' = load' /\ previous' = shown' /\ ShownRight'
<1>1. (SanitizerInv /\ Trusted => ShownRight)'
  BY ShownClose, PTL
<1>2. Trusted' /\ base' = load' /\ previous' = shown'
  BY DEF Process
<1> QED
  BY <1>1, <1>2

LEMMA ComparedKept == SanitizerInv' /\ Compared /\ [CNext]_cvars => Compared'
<1> SUFFICES ASSUME SanitizerInv', Compared, [CNext]_cvars, base' # None
             PROVE  base' \in Weight /\ previous' \in Weight /\ 2 * Abs(previous' - base') <= Blur'
  BY DEF Compared
<1>0. Blur' = Blur
  BY DEF Blur
<1>1. CASE Process(shown')
  BY <1>0, <1>1, ProcessRight DEF ShownRight
<1>2. CASE UNCHANGED <<previous, base>>
  BY <1>0, <1>2 DEF Compared
<1> QED
  BY <1>1, <1>2 DEF CNext, Frame, ErrorFrame, PollFails, Connect, Calibrate, Unseen, cvars

LEMMA ChannelKept == ChannelInv /\ [CNext]_cvars => ChannelInv'
  BY SanitizerSteps, SanitizerKept, ComparedKept DEF ChannelInv

LEMMA ChannelInvariant == CSpec => []ChannelInv
  BY ChannelInit, ChannelKept, PTL DEF CSpec

\* Two values that are close to two loads are as far apart as these, or nearly.
LEMMA Blurred ==
    ASSUME NEW v \in Int, NEW w \in Int, NEW k \in Int, NEW l \in Int, NEW b \in Int, NEW t \in Int,
           2 * Abs(v - k) <= b, 2 * Abs(w - l) <= b
    PROVE  /\ Abs(l - k) > t + b => Abs(w - v) > t
           /\ Abs(w - v) > t => Abs(l - k) > t - b
  BY DEF Abs

\* What the detector makes of two trusted frames, one after the other.
LEMMA Detection ==
    ASSUME ChannelInv, ChannelInv', CNext, base # None, base' # None, "update" \in events'
    PROVE  /\ Abs(load' - base) > Threshold + Blur => "change" \in events'
           /\ "change" \in events' => Abs(load' - base) > Threshold - Blur
<1>1. CASE Process(shown')
  <2>1. ShownRight' /\ Blur' = Blur
    BY <1>1, ProcessRight DEF ChannelInv, Blur
  <2>2. base \in Weight /\ previous \in Weight /\ 2 * Abs(previous - base) <= Blur
    BY DEF ChannelInv, Compared
  <2>3. /\ base \in Int /\ previous \in Int /\ load' \in Int /\ shown' \in Int
        /\ Blur \in Int /\ Threshold \in Int /\ previous # None
    BY <2>1, <2>2, SanitizerAssumption, ChannelAssumption DEF Weight, Blur, None, ShownRight
  <2>4. 2 * Abs(shown' - load') <= Blur
    BY <2>1 DEF ShownRight
  <2>5. "change" \in events' <=> Abs(shown' - previous) > Threshold
    BY <1>1, <2>3 DEF Process, Changed
  <2> QED
    BY ONLY <2>2, <2>3, <2>4, <2>5, Blurred
<1>2. CASE ~Process(shown')
  BY <1>2 DEF CNext, Frame, ErrorFrame, PollFails, Connect, Calibrate, Unseen
<1> QED
  BY <1>1, <1>2

\* A load that has moved by more than threshold and blur between two frames of the
\* polling is reported, whatever other frames, glitches and errors came between.
THEOREM RemovalReportedHolds == CSpec => RemovalReported
<1>1. ChannelInv /\ ChannelInv' /\ [CNext]_cvars =>
        [/\ base # None /\ base' # None /\ "update" \in events'
         /\ Abs(load' - base) > Threshold + Blur
         => "change" \in events']_cvars
  BY Detection
<1> QED
  BY <1>1, ChannelInvariant, PTL DEF CSpec, RemovalReported

\* No change is reported of a load that has moved by less than threshold minus blur.
THEOREM NoFalseAlarmHolds == CSpec => NoFalseAlarm
<1>1. ChannelInv /\ ChannelInv' /\ [CNext]_cvars =>
        [/\ base # None /\ base' # None /\ "change" \in events'
         => Abs(load' - base) > Threshold - Blur]_cvars
  <2>1. [CNext]_cvars /\ "change" \in events' => UNCHANGED cvars \/ "update" \in events'
    BY DEF CNext, Frame, ErrorFrame, PollFails, Connect, Calibrate, Unseen, Process
  <2> QED
    BY <2>1, Detection
<1> QED
  BY <1>1, ChannelInvariant, PTL DEF CSpec, NoFalseAlarm
=============================================================================
