---------------------------- MODULE ClockProofs ----------------------------
(***************************************************************************)
(* Proofs about the clock law, the jacks in front of it and the transport   *)
(* behind it, for every range of periods, window, band, timeout, set of     *)
(* knob readings, bar and set of paces.                                     *)
(***************************************************************************)
EXTENDS SongClock, TLAPS, WellFoundedInduction

-----------------------------------------------------------------------------
(* Numbers.                                                                 *)

\* A nonempty set of naturals has a least element.
LEMMA LeastExists ==
    ASSUME NEW T \in SUBSET Nat, T # {}
    PROVE  \E x \in T : \A y \in T : x <= y
<1> DEFINE R == {p \in Nat \X Nat : p[1] < p[2]}
<1>1. IsWellFoundedOn(R, Nat)
    BY NatLessThanWellFounded, Zenon DEF OpToRel
<1> HIDE DEF R
<1>2. PICK x \in T : \A y \in T : ~(<<y, x>> \in R)
    BY <1>1, WFMin
<1>3. \A y \in T : ~(y < x)
    BY <1>2 DEF R
<1> QED
    BY <1>3

-----------------------------------------------------------------------------
(* The sum of a window.                                                     *)

\* The partial sums of a ring exist.
LEMMA SumsExist ==
    ASSUME NEW ring \in Seq(Nat), NEW n \in Nat
    PROVE  \E s : s = [i \in 0 .. n |-> IF i = 0 THEN 0 ELSE s[i - 1] + ring[i]]
<1> DEFINE Sums(m, s) == s = [i \in 0 .. m |-> IF i = 0 THEN 0 ELSE s[i - 1] + ring[i]]
           Gaps == {m \in Nat : ~ \E s : Sums(m, s)}
<1>1. SUFFICES ASSUME Gaps # {} PROVE FALSE
    OBVIOUS
<1>2. PICK m \in Gaps : \A k \in Gaps : m <= k
    BY <1>1, LeastExists
<1>3. CASE m = 0
  <2>1. Sums(0, [i \in 0 .. 0 |-> 0])
      OBVIOUS
  <2> QED
      BY <1>3, <2>1
<1>4. CASE m # 0
  <2>1. m - 1 \in Nat /\ ~(m <= m - 1)
      BY <1>4
  <2>2. PICK s : Sums(m - 1, s)
    <3> HIDE DEF Sums
    <3> QED
        BY <1>2, <2>1
  <2> DEFINE t == [i \in 0 .. m |-> IF i = m THEN s[m - 1] + ring[m] ELSE s[i]]
  <2>3. ASSUME NEW i \in 0 .. m
        PROVE  t[i] = IF i = 0 THEN 0 ELSE t[i - 1] + ring[i]
    <3>1. CASE i = m
        BY <1>4, <3>1
    <3>2. CASE i # m
        BY <1>4, <3>2, <2>2
    <3> QED
        BY <3>1, <3>2
  <2>4. Sums(m, t)
      BY <2>3
  <2> QED
      BY <2>4
<1> QED
    BY <1>3, <1>4

\* The sum of a window of one period.
LEMMA SumOfOne ==
    ASSUME NEW ring \in Seq(Nat), NEW p \in Nat, \A i \in 1 .. Len(ring) : ring[i] = p
    PROVE  Sum(ring) = p * Len(ring)
<1> DEFINE n == Len(ring)
           Sums(s) == s = [i \in 0 .. n |-> IF i = 0 THEN 0 ELSE s[i - 1] + ring[i]]
           sum == CHOOSE s : Sums(s)
           Off == {i \in 0 .. n : sum[i] # p * i}
<1>1. Sum(ring) = sum[n]
    BY DEF Sum
<1>2. n \in Nat /\ Sums(sum)
  <2>1. n \in Nat
      OBVIOUS
  <2>2. \E s : Sums(s)
      BY <2>1, SumsExist
  <2> QED
      BY <2>1, <2>2
<1> HIDE DEF sum
<1>3. SUFFICES ASSUME sum[n] # p * n PROVE FALSE
    BY <1>1
<1>4. PICK i \in Off : \A k \in Off : i <= k
  <2>1. Off \in SUBSET Nat /\ n \in Off
      BY <1>2, <1>3
  <2> HIDE DEF Off
  <2> QED
      BY <2>1, LeastExists
<1>5. i \in 0 .. n /\ sum[i] = IF i = 0 THEN 0 ELSE sum[i - 1] + ring[i]
    BY <1>2
<1>6. i # 0
    BY <1>5
<1>7. sum[i - 1] = p * (i - 1)
    BY <1>2, <1>4, <1>5, <1>6
<1>8. sum[i] = p * (i - 1) + p
    BY <1>2, <1>5, <1>6, <1>7
<1> QED
    BY <1>5, <1>8, <1>4

-----------------------------------------------------------------------------
(* The band.                                                                *)

\* Comparing after a multiplication.
LEMMA Scaled ==
    ASSUME NEW n \in Nat \ {0}, NEW x \in Nat, NEW y \in Nat
    PROVE  x * n > y * n <=> x > y
<1>1. ASSUME x > y PROVE x * n > y * n
  <2>1. PICK d \in Nat \ {0} : x = y + d
    <3>1. x - y \in Nat \ {0} /\ x = y + (x - y)
        BY <1>1
    <3> QED
        BY <3>1
  <2>2. x * n = y * n + d * n
      BY <2>1
  <2>3. d * n > 0
      BY <2>1
  <2>4. y * n \in Nat /\ d * n \in Nat
      BY <2>1
  <2> QED
      BY <2>2, <2>3, <2>4
<1>2. ASSUME ~(x > y) PROVE ~(x * n > y * n)
  <2>1. PICK d \in Nat : y = x + d
    <3>1. y - x \in Nat /\ y = x + (y - x)
        BY <1>2
    <3> QED
        BY <3>1
  <2>2. y * n = x * n + d * n
      BY <2>1
  <2>3. x * n \in Nat /\ d * n \in Nat
      BY <2>1
  <2> QED
      BY <2>2, <2>3
<1> QED
    BY <1>1, <1>2

\* A window full of one period has a band like that period's own.
LEMMA BandOfOne ==
    ASSUME NEW ring \in Seq(Nat), Len(ring) # 0, NEW b \in Nat,
           \A j \in 1 .. Len(ring) : ring[j] = b, NEW i \in Nat
    PROVE  Side(i, Mean(ring)) = Side(i, [sum |-> b, n |-> 1])
<1> DEFINE n == Len(ring)
           m == Mean(ring)
           o == [sum |-> b, n |-> 1]
<1>1. n \in Nat \ {0} /\ m.sum = b * n /\ m.n = n
    BY SumOfOne DEF Mean
<1>2. i * BandDen \in Nat /\ i * BandNum \in Nat /\ b * BandDen \in Nat /\ b * BandNum \in Nat
    BY BandAssumption
<1>3. Above(i, m) <=> Above(i, o)
  <2>1. (i * n) * BandDen = (i * BandDen) * n /\ (b * n) * BandNum = (b * BandNum) * n
      BY <1>1, BandAssumption
  <2>2. i * BandDen > b * BandNum <=> (i * BandDen) * n > (b * BandNum) * n
      BY <1>1, <1>2, Scaled
  <2>3. (i * 1) * BandDen = i * BandDen
      BY BandAssumption
  <2>4. Above(i, m) <=> (i * BandDen) * n > (b * BandNum) * n
      BY <1>1, <2>1 DEF Above
  <2>5. Above(i, o) <=> i * BandDen > b * BandNum
      BY <2>3 DEF Above
  <2> QED
      BY <2>2, <2>4, <2>5
<1>4. Below(i, m) <=> Below(i, o)
  <2>1. (i * n) * BandNum = (i * BandNum) * n /\ (b * n) * BandDen = (b * BandDen) * n
      BY <1>1, BandAssumption
  <2>2. b * BandDen > i * BandNum <=> (b * BandDen) * n > (i * BandNum) * n
      BY <1>1, <1>2, Scaled
  <2>3. (i * 1) * BandNum = i * BandNum
      BY BandAssumption
  <2>4. (b * BandDen) * n \in Nat /\ (i * BandNum) * n \in Nat
      BY <1>1, <1>2
  <2>5. Below(i, m) <=> (i * BandNum) * n < (b * BandDen) * n
      BY <1>1, <2>1 DEF Below
  <2>6. Below(i, o) <=> i * BandNum < b * BandDen
      BY <2>3 DEF Below
  <2> QED
      BY <1>2, <2>2, <2>4, <2>5, <2>6
<1> QED
    BY <1>3, <1>4 DEF Side

\* A period is in its own band.
LEMMA InOwnBand == ASSUME NEW i \in Nat PROVE Side(i, [sum |-> i, n |-> 1]) = "in"
<1> DEFINE o == [sum |-> i, n |-> 1]
<1>1. PICK d \in Nat : BandNum = BandDen + d
  <2>1. BandNum - BandDen \in Nat /\ BandNum = BandDen + (BandNum - BandDen)
      BY BandAssumption
  <2> QED
      BY <2>1
<1>2. i * BandNum = i * BandDen + i * d
    BY <1>1, BandAssumption
<1>3. i * BandDen \in Nat /\ i * d \in Nat
    BY <1>1, BandAssumption
<1>4. (i * 1) * BandDen = i * BandDen /\ (i * 1) * BandNum = i * BandNum
    BY BandAssumption
<1>5. ~Above(i, o) /\ ~Below(i, o)
    BY <1>2, <1>3, <1>4 DEF Above, Below
<1> QED
    BY <1>5 DEF Side

LEMMA SideIs == ASSUME NEW i, NEW m PROVE Side(i, m) \in {"long", "short", "in"}
BY DEF Side

LEMMA PushIs ==
    ASSUME NEW ring \in Seq(Periods), Len(ring) <= Window, NEW i \in Periods
    PROVE  /\ push(ring, i) \in Seq(Periods)
           /\ Len(push(ring, i)) = IF Len(ring) = Window THEN Window ELSE Len(ring) + 1
           /\ push(ring, i)[Len(push(ring, i))] = i
           /\ \A j \in 1 .. Len(push(ring, i)) - 1 :
                 push(ring, i)[j] = ring[j + (Len(ring) + 1 - Len(push(ring, i)))]
<1> DEFINE r == IF Len(ring) = Window THEN Tail(ring) ELSE ring
<1>1. r \in Seq(Periods) /\ Len(r) = IF Len(ring) = Window THEN Window - 1 ELSE Len(ring)
    BY WindowAssumption
<1>4. Len(ring) \in Nat /\ Len(r) \in Nat
    BY <1>1
<1>2. ASSUME NEW j \in 1 .. Len(r) PROVE r[j] = ring[j + (Len(ring) - Len(r))]
  <2>1. CASE Len(ring) = Window
    <3>1. Len(ring) - Len(r) = 1
        BY <1>1, <1>4, <2>1, WindowAssumption
    <3>2. r[j] = ring[j + 1]
        BY <1>1, <2>1, WindowAssumption
    <3> QED
        BY <3>1, <3>2
  <2>2. CASE Len(ring) # Window
    <3>1. r = ring /\ Len(ring) - Len(r) = 0 /\ j + 0 = j
        BY <1>1, <1>4, <2>2
    <3> QED
        BY <3>1
  <2> QED
      BY <2>1, <2>2
<1>3. push(ring, i) = Append(r, i)
    BY DEF push
<1> HIDE DEF r
<1>5. Len(Append(r, i)) = Len(r) + 1 /\ Append(r, i)[Len(r) + 1] = i
      /\ \A j \in 1 .. Len(r) : Append(r, i)[j] = r[j]
    BY <1>1
<1> DEFINE p == push(ring, i)
<1>6. p \in Seq(Periods) /\ Len(p) = Len(r) + 1 /\ p[Len(p)] = i
    BY <1>1, <1>3, <1>5
<1>7. ASSUME NEW j \in 1 .. Len(p) - 1 PROVE p[j] = ring[j + (Len(ring) + 1 - Len(p))]
  <2>1. j \in 1 .. Len(r) /\ Len(ring) + 1 - Len(p) = Len(ring) - Len(r)
      BY <1>4, <1>6
  <2> QED
      BY <1>2, <1>3, <1>5, <2>1
<1> QED
    BY <1>1, <1>4, <1>6, <1>7, WindowAssumption

-----------------------------------------------------------------------------
(* The window and the run of equal periods.                                 *)

\* A window, its tempo and the held period of a running clock whose history is
\* c: the last same - 1 periods of the window are the last one's, unless it is
\* held aside; then the window does not take it, and the run is short.
Follows(ring, tempo, pending, c) ==
    /\ ring \in Seq(Periods) /\ Len(ring) \in 1 .. Window /\ tempo = Mean(ring)
    /\ c.last \in Periods /\ c.same \in 1 .. Steady /\ c.same <= Len(ring) + Window
    /\ pending = None =>
          \A j \in 1 .. Len(ring) : Len(ring) - j < c.same - 1 => ring[j] = c.last
    /\ pending # None =>
          /\ Len(ring) = Window /\ c.same <= Window + 1
          /\ pending = [side |-> Side(c.last, Mean(ring)), period |-> c.last]
          /\ Side(c.last, Mean(ring)) # "in"
    /\ c.base # None =>
          /\ Len(ring) = Window /\ c.base \in Periods
          /\ \A j \in 1 .. Len(ring) : ring[j] = c.base
          /\ c.odd <=> pending # None

\* What the history is after a period.
LEMMA HeardIs ==
    ASSUME NEW c, NEW i
    PROVE  LET d == Heard(c, i) IN
           /\ d.last = i
           /\ d.same = IF i # c.last THEN 1 ELSE IF c.same = Steady THEN Steady ELSE c.same + 1
           /\ d.same = Steady => d.base = i
           /\ d.same # Steady =>
                 d.base = IF i = c.base \/ (Strays(i, c.base) /\ ~c.odd) THEN c.base ELSE None
           /\ d.odd <=> i # d.base
BY DEF Heard

\* The first period of a clock.
LEMMA FirstFollows ==
    ASSUME NEW i \in Periods
    PROVE  Follows(push(<<>>, i), Mean(push(<<>>, i)), None, Heard(NoClock, i))
<1> DEFINE r == push(<<>>, i)
           d == Heard(NoClock, i)
<1>1. r = <<i>>
    BY WindowAssumption DEF push
<1>2. <<i>> \in Seq(Periods) /\ Len(<<i>>) = 1
    OBVIOUS
<1>3. i # None /\ i \in Nat
    BY NoneAssumption, PeriodAssumption DEF Periods
<1>4. d.last = i /\ d.same = 1 /\ d.base = None
  <2>1. NoClock.last = None /\ NoClock.base = None
      BY DEF NoClock
  <2>2. ~Strays(i, NoClock.base)
      BY <2>1 DEF Strays
  <2>3. Steady # 1
      BY WindowAssumption DEF Steady
  <2>4. /\ d.last = i
        /\ d.same = IF i # NoClock.last THEN 1 ELSE IF NoClock.same = Steady THEN Steady ELSE NoClock.same + 1
        /\ d.same # Steady =>
              d.base = IF i = NoClock.base \/ (Strays(i, NoClock.base) /\ ~NoClock.odd)
                       THEN NoClock.base ELSE None
      BY HeardIs
  <2> QED
      BY <1>3, <2>1, <2>2, <2>3, <2>4
<1> HIDE DEF d
<1>5. Follows(<<i>>, Mean(<<i>>), None, d)
    BY <1>2, <1>4, WindowAssumption DEF Follows, Steady
<1> QED
    BY <1>1, <1>5 DEF d

\* A period in the band of the steady one is the steady one, or the clock is not
\* steady any more.
LEMMA InBandIsBase ==
    ASSUME NEW ring, NEW tempo, NEW pending, NEW c, Follows(ring, tempo, pending, c),
           NEW i \in Periods, c.base # None,
           Side(i, Mean(ring)) = "in"
    PROVE  ~Strays(i, c.base)
<1>1. ring \in Seq(Nat) /\ Len(ring) # 0 /\ c.base \in Nat /\ i \in Nat
    BY PeriodAssumption, WindowAssumption DEF Follows, Periods
<1>2. \A j \in 1 .. Len(ring) : ring[j] = c.base
    BY DEF Follows
<1>3. Side(i, [sum |-> c.base, n |-> 1]) = "in"
    BY <1>1, <1>2, BandOfOne
<1> QED
    BY <1>3 DEF Strays

LEMMA OutOfBandIsNotBase ==
    ASSUME NEW ring, NEW tempo, NEW pending, NEW c, Follows(ring, tempo, pending, c),
           NEW i \in Periods,
           Side(i, Mean(ring)) # "in"
    PROVE  ~ \A j \in 1 .. Len(ring) : ring[j] = i
<1>1. ring \in Seq(Nat) /\ Len(ring) # 0 /\ i \in Nat
    BY PeriodAssumption, WindowAssumption DEF Follows, Periods
<1> QED
    BY <1>1, BandOfOne, InOwnBand

\* The window takes a period.
LEMMA PushFollows ==
    ASSUME NEW ring, NEW tempo, NEW c, Follows(ring, tempo, None, c), NEW i \in Periods,
           Len(ring) = Window => Side(i, Mean(ring)) = "in"
    PROVE  Follows(push(ring, i), Mean(push(ring, i)), None, Heard(c, i))
<1> DEFINE r == push(ring, i)
           d == Heard(c, i)
           n == Len(ring)
<1>1. /\ ring \in Seq(Periods) /\ n \in 1 .. Window
      /\ c.last \in Periods /\ c.same \in 1 .. Steady /\ c.same <= n + Window
      /\ \A j \in 1 .. n : n - j < c.same - 1 => ring[j] = c.last
      /\ c.base # None => n = Window /\ (\A j \in 1 .. n : ring[j] = c.base) /\ c.base \in Periods
    BY DEF Follows
<1>2. /\ r \in Seq(Periods) /\ Len(r) = IF n = Window THEN Window ELSE n + 1
      /\ r[Len(r)] = i
      /\ \A j \in 1 .. Len(r) - 1 : r[j] = ring[j + (n + 1 - Len(r))]
    BY <1>1, PushIs
<1>3. /\ d.last = i
      /\ d.same = IF i # c.last THEN 1 ELSE IF c.same = Steady THEN Steady ELSE c.same + 1
      /\ d.same = Steady => d.base = i
      /\ d.same # Steady =>
            d.base = IF i = c.base \/ (Strays(i, c.base) /\ ~c.odd) THEN c.base ELSE None
      /\ d.odd <=> i # d.base
    BY HeardIs
<1> HIDE DEF r, d
<1>5. /\ Len(r) \in 1 .. Window /\ n \in 1 .. Window
      /\ (n = Window /\ Len(r) = n) \/ Len(r) = n + 1
    BY <1>1, <1>2, WindowAssumption
<1>4. d.same \in 1 .. Steady /\ d.same <= Len(r) + Window
  <2>1. c.same \in 1 .. Steady /\ c.same <= n + Window
      BY <1>1
  <2>2. d.same = 1 \/ d.same = c.same \/ d.same = c.same + 1
      BY <1>3
  <2>3. d.same <= Steady
      BY <1>3, <2>1, WindowAssumption DEF Steady
  <2> QED
      BY <1>5, <2>1, <2>2, <2>3, WindowAssumption DEF Steady
<1>6. ASSUME NEW j \in 1 .. Len(r), Len(r) - j < d.same - 1 PROVE r[j] = i
  <2>1. CASE j = Len(r)
      BY <1>2, <2>1
  <2>2. CASE j # Len(r)
    <3> DEFINE k == j + (n + 1 - Len(r))
    <3>1. i = c.last /\ d.same <= c.same + 1
        BY <1>1, <1>3, <1>5, <1>6, <2>2, WindowAssumption DEF Steady
    <3>2. k \in 1 .. n /\ n - k < c.same - 1
      <4>1. d.same \in Int /\ c.same \in Int /\ Len(r) - j < d.same - 1
          BY <1>1, <1>4, <1>6
      <4>2. j \in 1 .. Len(r) - 1
          BY <1>5, <2>2
      <4>3. /\ n \in Int /\ Len(r) \in Int /\ j \in Int /\ j >= 1 /\ j <= Len(r) - 1
            /\ Len(r) = n \/ Len(r) = n + 1
          BY <1>5, <4>2, WindowAssumption
      <4>4. k \in Int /\ k >= 1 /\ k <= n /\ n - k = Len(r) - j - 1
          BY <4>3
      <4>5. d.same <= c.same + 1
          BY <3>1
      <4> HIDE DEF k, n
      <4>6. n - k < c.same - 1
          BY <4>1, <4>3, <4>4, <4>5
      <4> QED
          BY <4>3, <4>4, <4>6
    <3>3. r[j] = ring[k]
        BY <1>2, <1>5, <2>2
    <3> QED
        BY <1>1, <3>1, <3>2, <3>3
  <2> QED
      BY <2>1, <2>2
<1>7. ASSUME d.base # None
      PROVE  Len(r) = Window /\ d.base = i /\ \A j \in 1 .. Len(r) : r[j] = d.base
  <2>1. CASE d.same = Steady
    <3>1. Len(r) = Window
        BY <1>4, <1>5, <2>1, WindowAssumption DEF Steady
    <3>2. \A j \in 1 .. Len(r) : Len(r) - j < d.same - 1
        BY <2>1, <3>1, WindowAssumption DEF Steady
    <3> QED
        BY <1>3, <1>6, <2>1, <3>1, <3>2
  <2>2. CASE d.same # Steady
    <3>1. d.base = c.base /\ (i = c.base \/ Strays(i, c.base)) /\ c.base # None
        BY <1>3, <1>7, <2>2
    <3>2. n = Window /\ i = c.base
        BY <1>1, <3>1, InBandIsBase
    <3>3. ASSUME NEW j \in 1 .. Len(r) PROVE r[j] = i
      <4>1. CASE j = Len(r)
          BY <1>2, <4>1
      <4>2. CASE j # Len(r)
        <5>1. j \in 1 .. Len(r) - 1 /\ j + (n + 1 - Len(r)) \in 1 .. n
            BY <1>2, <1>5, <3>2, <4>2
        <5> QED
            BY <1>1, <1>2, <3>1, <3>2, <5>1
      <4> QED
          BY <4>1, <4>2
    <3> QED
        BY <1>2, <3>1, <3>2, <3>3
  <2> QED
      BY <2>1, <2>2
<1>8. Follows(r, Mean(r), None, d)
  <2>1. \A j \in 1 .. Len(r) : Len(r) - j < d.same - 1 => r[j] = d.last
      BY <1>3, <1>6
  <2>2. d.base # None =>
            /\ Len(r) = Window /\ d.base \in Periods
            /\ \A j \in 1 .. Len(r) : r[j] = d.base
            /\ ~d.odd
      BY <1>3, <1>7
  <2> QED
      BY <1>2, <1>3, <1>4, <1>5, <2>1, <2>2 DEF Follows
<1> QED
    BY <1>8 DEF r, d

\* The period after a held one, in the band: neither is taken.
LEMMA DropFollows ==
    ASSUME NEW ring, NEW tempo, NEW pending, NEW c, Follows(ring, tempo, pending, c), pending # None,
           NEW i \in Periods, Side(i, Mean(ring)) = "in"
    PROVE  Follows(ring, tempo, None, Heard(c, i))
<1> DEFINE d == Heard(c, i)
<1>1. i # c.last
    BY DEF Follows
<1>2. /\ d.last = i /\ d.same = 1 /\ (d.odd <=> i # d.base)
      /\ d.base = IF i = c.base \/ (Strays(i, c.base) /\ ~c.odd) THEN c.base ELSE None
    BY <1>1, HeardIs, WindowAssumption DEF Steady
<1> HIDE DEF d
<1>3. d.base # None => d.base = c.base /\ d.base = i
    BY <1>2, InBandIsBase
<1>4. Follows(ring, tempo, None, d)
  <2>1. /\ ring \in Seq(Periods) /\ Len(ring) = Window /\ tempo = Mean(ring)
        /\ c.base # None => (c.base \in Periods /\ \A j \in 1 .. Len(ring) : ring[j] = c.base)
      BY DEF Follows
  <2> QED
      BY <1>2, <1>3, <2>1, WindowAssumption DEF Follows, Steady
<1> QED
    BY <1>4 DEF d

\* Two that agree: the window starts again with them.
LEMMA AgreeFollows ==
    ASSUME NEW ring, NEW tempo, NEW pending, NEW c, Follows(ring, tempo, pending, c), pending # None,
           NEW i \in Periods, Side(i, Mean(ring)) # "in"
    PROVE  Follows(<<pending.period, i>>, Mean(<<pending.period, i>>), None, Heard(c, i))
<1> DEFINE d == Heard(c, i)
           r == <<pending.period, i>>
<1>1. /\ pending.period = c.last /\ c.last \in Periods
      /\ c.same \in 1 .. Steady /\ c.same <= Window + 1
    BY DEF Follows
<1>2. /\ d.last = i
      /\ d.same = IF i # c.last THEN 1 ELSE IF c.same = Steady THEN Steady ELSE c.same + 1
      /\ d.same = Steady => d.base = i
      /\ d.same # Steady =>
            d.base = IF i = c.base \/ (Strays(i, c.base) /\ ~c.odd) THEN c.base ELSE None
      /\ d.odd <=> i # d.base
    BY HeardIs
<1>3. r \in Seq(Periods) /\ Len(r) = 2 /\ r[1] = c.last /\ r[2] = i
    BY <1>1
<1> HIDE DEF d, r
<1>4. d.same \in 1 .. Steady /\ d.same <= 2 + Window /\ (d.same # 1 => i = c.last)
    BY <1>1, <1>2, WindowAssumption DEF Steady
<1>5. ASSUME d.base # None PROVE Window = 2 /\ d.base = i /\ i = c.last
  <2>1. CASE d.same = Steady
      BY <1>2, <1>4, <2>1, WindowAssumption DEF Steady
  <2>2. CASE d.same # Steady
    <3>1. c.base # None /\ (i = c.base \/ (Strays(i, c.base) /\ ~c.odd))
        BY <1>2, <1>5, <2>2
    <3>2. c.odd /\ \A j \in 1 .. Len(ring) : ring[j] = c.base
        BY <3>1 DEF Follows
    <3> QED
        BY <3>1, <3>2, OutOfBandIsNotBase
  <2> QED
      BY <2>1, <2>2
<1>6. \A j \in 1 .. 2 : (2 - j < d.same - 1 => r[j] = i) /\ (i = c.last => r[j] = i)
    BY <1>3, <1>4
<1>7. Follows(r, Mean(r), None, d)
    BY <1>2, <1>3, <1>4, <1>5, <1>6, WindowAssumption DEF Follows
<1> QED
    BY <1>7 DEF r, d

\* A period out of the band is held aside.
LEMMA HoldFollows ==
    ASSUME NEW ring, NEW tempo, NEW pending, NEW c, Follows(ring, tempo, pending, c),
           NEW i \in Periods, Len(ring) = Window, Side(i, Mean(ring)) # "in",
           ~Agrees(pending, Side(i, Mean(ring)), i)
    PROVE  Follows(ring, tempo, [side |-> Side(i, Mean(ring)), period |-> i], Heard(c, i))
<1> DEFINE d == Heard(c, i)
           side == Side(i, Mean(ring))
           h == [side |-> side, period |-> i]
<1>1. /\ d.last = i
      /\ d.same = IF i # c.last THEN 1 ELSE IF c.same = Steady THEN Steady ELSE c.same + 1
      /\ d.same = Steady => d.base = i
      /\ d.same # Steady =>
            d.base = IF i = c.base \/ (Strays(i, c.base) /\ ~c.odd) THEN c.base ELSE None
      /\ d.odd <=> i # d.base
    BY HeardIs
<1>2. i \in Nat
    BY PeriodAssumption DEF Periods
<1>3. h # None
    BY <1>2, NoneAssumption, SideIs
<1>4. ASSUME i = c.last PROVE pending = None
  <2>1. SUFFICES ASSUME pending # None PROVE FALSE
      OBVIOUS
  <2>2. pending.side = side /\ pending.period = i
      BY <1>4, <2>1 DEF Follows
  <2> QED
      BY <1>2, <2>1, <2>2, InOwnBand DEF Agrees
<1>5. ASSUME i = c.last PROVE c.same <= Window
  <2>1. SUFFICES ASSUME c.same > Window PROVE FALSE
      BY <1>5, WindowAssumption DEF Follows, Steady
  <2>2. \A j \in 1 .. Len(ring) : Len(ring) - j < c.same - 1
      BY <2>1, WindowAssumption DEF Follows, Steady
  <2> QED
      BY <1>4, <1>5, <2>2, OutOfBandIsNotBase DEF Follows
<1> HIDE DEF d, side, h
<1>6. d.same \in 1 .. Steady /\ d.same <= Window + 1 /\ d.same # Steady
    BY <1>1, <1>5, WindowAssumption DEF Follows, Steady
<1>7. ASSUME d.base # None PROVE d.base = c.base /\ d.odd
  <2>1. d.base = c.base /\ c.base # None
      BY <1>1, <1>6, <1>7
  <2>2. i # c.base
      BY <2>1, OutOfBandIsNotBase DEF Follows
  <2> QED
      BY <1>1, <2>1, <2>2
<1>8. side # "in" /\ h = [side |-> Side(i, Mean(ring)), period |-> i]
    BY DEF side, h
<1>9. Follows(ring, tempo, h, d)
  <2>1. /\ ring \in Seq(Periods) /\ tempo = Mean(ring)
        /\ c.base # None => (c.base \in Periods /\ \A j \in 1 .. Len(ring) : ring[j] = c.base)
      BY DEF Follows
  <2>2. d.base # None => c.base # None
      BY <1>7
  <2> QED
      BY <1>1, <1>3, <1>6, <1>7, <1>8, <2>1, <2>2, WindowAssumption DEF Follows
<1> QED
    BY <1>8, <1>9 DEF d

-----------------------------------------------------------------------------
(* The law's record keeps its fields.                                       *)

Fields == {"running", "tempo", "ring", "pending", "edge", "valid", "one", "armed", "ref"}

IsLaw(l) ==
    /\ l = [f \in Fields |-> l[f]]
    /\ l.running \in BOOLEAN /\ l.armed \in BOOLEAN

LEMMA AgedIs == ASSUME NEW l, IsLaw(l) PROVE IsLaw(Aged(l))
BY DEF IsLaw, Aged, Fields

LEMMA ForgetIs ==
    ASSUME NEW l, IsLaw(l)
    PROVE  IsLaw(forget_edges(l)) /\ forget_edges(l).running = l.running
BY DEF IsLaw, forget_edges, Fields

LEMMA LossIs == ASSUME NEW l, IsLaw(l), NEW k PROVE IsLaw(Loss(l, k))
<1> DEFINE f == forget_edges(l)
<1>1. IsLaw(f)
    BY ForgetIs
<1>2. Loss(l, k) = IF IsLost(l)
                   THEN [f EXCEPT !.running = FALSE, !.valid = 0, !.ref = k] ELSE l
    BY DEF Loss
<1> HIDE DEF f
<1> QED
    BY <1>1, <1>2 DEF IsLaw, Fields

LEMMA MeasuredIs ==
    ASSUME NEW l, IsLaw(l), NEW ring
    PROVE  /\ IsLaw(Measured(l, ring))
           /\ Measured(l, ring).running = l.running /\ Measured(l, ring).valid = l.valid
BY DEF IsLaw, Measured, Fields

\* A period moves neither the running clock nor its last valid pulse.
LEMMA PeriodIs ==
    ASSUME NEW l, IsLaw(l), NEW i
    PROVE  /\ IsLaw(Period(l, i))
           /\ Period(l, i).running = l.running /\ Period(l, i).valid = l.valid
<1> DEFINE side == Side(i, Mean(l.ring))
           m == Measured(l, push(l.ring, i))
           a == Measured(l, <<l.pending.period, i>>)
           d == [l EXCEPT !.pending = None]
           h == [l EXCEPT !.pending = [side |-> side, period |-> i]]
           n == [a EXCEPT !.pending = None]
<1>1. IsLaw(m) /\ m.running = l.running /\ m.valid = l.valid
    BY MeasuredIs
<1>2. IsLaw(a) /\ a.running = l.running /\ a.valid = l.valid
    BY MeasuredIs
<1>3. IsLaw(d) /\ d.running = l.running /\ d.valid = l.valid
    BY DEF IsLaw, Fields
<1>4. IsLaw(h) /\ h.running = l.running /\ h.valid = l.valid
    BY DEF IsLaw, Fields
<1> HIDE DEF a
<1>5. IsLaw(n) /\ n.running = l.running /\ n.valid = l.valid
    BY <1>2 DEF IsLaw, Fields
<1>6. Period(l, i) \in {m, d, h, n}
    BY DEF Period, InBand, a
<1> HIDE DEF m, d, h, n
<1> QED
    BY <1>1, <1>3, <1>4, <1>5, <1>6

\* An edge keeps a running clock running; a pulse makes it run and is its last
\* valid one.
LEMMA EdgeIs ==
    ASSUME NEW l, IsLaw(l)
    PROVE  /\ IsLaw(on_edge(l))
           /\ IsPulse(l) => on_edge(l).valid = 0 /\ on_edge(l).running
           /\ ~IsPulse(l) => on_edge(l).valid = l.valid /\ on_edge(l).running = l.running
<1> DEFINE i == l.edge
           e == [l EXCEPT !.edge = 0]
           v == [e EXCEPT !.valid = 0]
           s == [e EXCEPT !.running = TRUE, !.valid = 0, !.one = None]
<1>1. IsLaw(e) /\ e.running = l.running /\ e.valid = l.valid
    BY DEF IsLaw, Fields
<1>2. on_edge(l) = CASE ~IsPulse(l) -> e
                     [] IsPulse(l) /\ l.running -> Period(v, i)
                     [] IsPulse(l) /\ ~l.running -> Measured(s, push(l.ring, i))
    BY DEF on_edge
<1> HIDE DEF e
<1>3. IsLaw(v) /\ v.running = l.running /\ v.valid = 0
    BY <1>1 DEF IsLaw, Fields
<1>4. IsLaw(s) /\ s.running /\ s.valid = 0
    BY <1>1 DEF IsLaw, Fields
<1> HIDE DEF v, s
<1>5. l.running \in BOOLEAN
    BY DEF IsLaw
<1>6. CASE ~IsPulse(l)
    BY <1>1, <1>2, <1>6
<1>7. CASE IsPulse(l) /\ l.running
    BY <1>2, <1>3, <1>7, PeriodIs
<1>8. CASE IsPulse(l) /\ ~l.running
    BY <1>2, <1>4, <1>8, MeasuredIs
<1> QED
    BY <1>5, <1>6, <1>7, <1>8

LEMMA TakeoverIs ==
    ASSUME NEW l, IsLaw(l), NEW k
    PROVE  /\ IsLaw(KnobTakeover(l, k))
           /\ KnobTakeover(l, k).running = l.running /\ KnobTakeover(l, k).valid = l.valid
BY DEF KnobTakeover, IsLaw, Fields

LEMMA RestartIs ==
    ASSUME NEW l, IsLaw(l), NEW age
    PROVE  /\ IsLaw(restart(l, age))
           /\ restart(l, age).running = l.running /\ restart(l, age).valid = l.valid
BY DEF restart, IsLaw, Fields

-----------------------------------------------------------------------------
(* The parts of a call and the window.                                      *)

\* m has the window, the tempo and the knob's reference of l.
SameWindow(m, l) ==
    /\ m.running = l.running /\ m.ring = l.ring /\ m.tempo = l.tempo
    /\ m.pending = l.pending /\ m.ref = l.ref

LEMMA AgedSame ==
    ASSUME NEW l, IsLaw(l)
    PROVE  /\ SameWindow(Aged(l), l)
           /\ Aged(l).valid = IF l.running THEN Older(l.valid, ValidCap) ELSE 0
BY DEF IsLaw, Aged, Fields, SameWindow

LEMMA RestartSame == ASSUME NEW l, IsLaw(l), NEW age PROVE SameWindow(restart(l, age), l)
BY DEF IsLaw, restart, Fields, SameWindow

LEMMA ForgetEmpties ==
    ASSUME NEW l, IsLaw(l)
    PROVE  LET f == forget_edges(l) IN
           /\ f.ring = <<>> /\ f.pending = None /\ f.edge = None
           /\ f.tempo = l.tempo
BY DEF IsLaw, forget_edges, Fields

LEMMA LossEmpties ==
    ASSUME NEW l, IsLaw(l), NEW k
    PROVE  LET g == Loss(l, k) IN
           /\ ~IsLost(l) => g = l
           /\ IsLost(l) =>
                 /\ ~g.running /\ g.ring = <<>> /\ g.pending = None /\ g.edge = None
                 /\ g.tempo = l.tempo /\ g.ref = k /\ g.valid = 0
<1> DEFINE f == forget_edges(l)
<1>1. IsLaw(f) /\ f.ring = <<>> /\ f.pending = None /\ f.edge = None /\ f.tempo = l.tempo
    BY ForgetIs, ForgetEmpties
<1>2. Loss(l, k) = IF IsLost(l)
                   THEN [f EXCEPT !.running = FALSE, !.valid = 0, !.ref = k] ELSE l
    BY DEF Loss
<1> HIDE DEF f
<1> QED
    BY <1>1, <1>2 DEF IsLaw, Fields

LEMMA MeasuredTakes ==
    ASSUME NEW l, IsLaw(l), NEW ring
    PROVE  LET m == Measured(l, ring) IN
           m.ring = ring /\ m.tempo = Mean(ring) /\ m.pending = l.pending /\ m.ref = l.ref
BY DEF IsLaw, Measured, Fields

\* A period of a running clock that follows its history.
LEMMA PeriodFollows ==
    ASSUME NEW l, IsLaw(l), NEW c, NEW i \in Periods,
           Follows(l.ring, l.tempo, l.pending, c)
    PROVE  LET p == Period(l, i) IN Follows(p.ring, p.tempo, p.pending, Heard(c, i))
<1> DEFINE side == Side(i, Mean(l.ring))
           m == Measured(l, push(l.ring, i))
           a == Measured(l, <<l.pending.period, i>>)
           d == [l EXCEPT !.pending = None]
           h == [l EXCEPT !.pending = [side |-> side, period |-> i]]
           n == [a EXCEPT !.pending = None]
           Holds(p) == Follows(p.ring, p.tempo, p.pending, Heard(c, i))
<1>1. Period(l, i) = IF Len(l.ring) < Window THEN m
                     ELSE IF side = "in" THEN (IF l.pending # None THEN d ELSE m)
                     ELSE IF Agrees(l.pending, side, i) THEN n
                     ELSE h
    BY DEF Period, InBand
<1>2. m.ring = push(l.ring, i) /\ m.tempo = Mean(push(l.ring, i)) /\ m.pending = l.pending
    BY MeasuredTakes
<1>3. IsLaw(a) /\ a.ring = <<l.pending.period, i>> /\ a.tempo = Mean(<<l.pending.period, i>>)
    BY MeasuredIs, MeasuredTakes
<1>4. d.ring = l.ring /\ d.tempo = l.tempo /\ d.pending = None
    BY DEF IsLaw, Fields
<1>5. h.ring = l.ring /\ h.tempo = l.tempo /\ h.pending = [side |-> side, period |-> i]
    BY DEF IsLaw, Fields
<1> HIDE DEF a
<1>6. n.ring = a.ring /\ n.tempo = a.tempo /\ n.pending = None
    BY <1>3 DEF IsLaw, Fields
<1>7. /\ Len(l.ring) \in 1 .. Window
      /\ l.pending # None => Len(l.ring) = Window
    BY DEF Follows
<1> HIDE DEF m, d, h, n, side
<1>8. CASE l.pending = None /\ (Len(l.ring) = Window => side = "in")
  <2>1. Period(l, i) = m
      BY <1>1, <1>7, <1>8, WindowAssumption
  <2>2. Follows(push(l.ring, i), Mean(push(l.ring, i)), None, Heard(c, i))
      BY <1>8, PushFollows DEF side
  <2> QED
      BY <1>2, <1>8, <2>1, <2>2
<1>9. CASE l.pending # None /\ side = "in"
  <2>1. Period(l, i) = d
      BY <1>1, <1>7, <1>9, WindowAssumption
  <2>2. Follows(l.ring, l.tempo, None, Heard(c, i))
      BY <1>9, DropFollows DEF side
  <2> QED
      BY <1>4, <2>1, <2>2
<1>10. CASE Len(l.ring) = Window /\ side # "in" /\ Agrees(l.pending, side, i)
  <2>1. Period(l, i) = n /\ l.pending # None
      BY <1>1, <1>10, WindowAssumption DEF Agrees
  <2>2. Follows(<<l.pending.period, i>>, Mean(<<l.pending.period, i>>), None, Heard(c, i))
      BY <1>10, <2>1, AgreeFollows DEF side
  <2> QED
      BY <1>3, <1>6, <2>1, <2>2
<1>11. CASE Len(l.ring) = Window /\ side # "in" /\ ~Agrees(l.pending, side, i)
  <2>1. Period(l, i) = h
      BY <1>1, <1>11, WindowAssumption
  <2>2. Follows(l.ring, l.tempo, [side |-> side, period |-> i], Heard(c, i))
      BY <1>11, HoldFollows DEF side
  <2> QED
      BY <1>5, <2>1, <2>2
<1> QED
    BY <1>7, <1>8, <1>9, <1>10, <1>11

LEMMA PeriodKeepsRef ==
    ASSUME NEW l, IsLaw(l), NEW i PROVE Period(l, i).ref = l.ref
<1> DEFINE side == Side(i, Mean(l.ring))
           m == Measured(l, push(l.ring, i))
           a == Measured(l, <<l.pending.period, i>>)
           d == [l EXCEPT !.pending = None]
           h == [l EXCEPT !.pending = [side |-> side, period |-> i]]
           n == [a EXCEPT !.pending = None]
<1>1. m.ref = l.ref /\ IsLaw(a) /\ a.ref = l.ref
    BY MeasuredIs, MeasuredTakes
<1>2. d.ref = l.ref /\ h.ref = l.ref
    BY DEF IsLaw, Fields
<1> HIDE DEF a
<1>3. n.ref = l.ref
    BY <1>1 DEF IsLaw, Fields
<1>4. Period(l, i) \in {m, d, h, n}
    BY DEF Period, InBand, a
<1> HIDE DEF m, d, h, n
<1> QED
    BY <1>1, <1>2, <1>3, <1>4

\* The edge of a call.
LEMMA EdgeFollows ==
    ASSUME NEW l, IsLaw(l), NEW c
    PROVE  LET e == on_edge(l) IN
           /\ ~IsPulse(l) => SameWindow(e, l)
           /\ IsPulse(l) /\ l.running /\ Follows(l.ring, l.tempo, l.pending, c) =>
                 Follows(e.ring, e.tempo, e.pending, Heard(c, l.edge))
           /\ IsPulse(l) /\ ~l.running =>
                 /\ e.ring = push(l.ring, l.edge) /\ e.tempo = Mean(push(l.ring, l.edge))
                 /\ e.pending = l.pending
<1> DEFINE i == l.edge
           e == [l EXCEPT !.edge = 0]
           v == [e EXCEPT !.valid = 0]
           s == [e EXCEPT !.running = TRUE, !.valid = 0, !.one = None]
<1>1. IsLaw(e) /\ SameWindow(e, l)
    BY DEF IsLaw, Fields, SameWindow
<1>2. on_edge(l) = CASE ~IsPulse(l) -> e
                     [] IsPulse(l) /\ l.running -> Period(v, i)
                     [] IsPulse(l) /\ ~l.running -> Measured(s, push(l.ring, i))
    BY DEF on_edge
<1> HIDE DEF e
<1>3. IsLaw(v) /\ SameWindow(v, l)
    BY <1>1 DEF IsLaw, Fields, SameWindow
<1>4. IsLaw(s) /\ s.pending = l.pending
    BY <1>1 DEF IsLaw, Fields, SameWindow
<1> HIDE DEF v, s
<1>5. l.running \in BOOLEAN
    BY DEF IsLaw
<1>6. CASE ~IsPulse(l)
    BY <1>1, <1>2, <1>6
<1>7. CASE IsPulse(l) /\ l.running
  <2>1. on_edge(l) = Period(v, i) /\ i \in Periods
      BY <1>2, <1>7 DEF IsPulse
  <2> QED
      BY <1>3, <1>7, <2>1, PeriodFollows DEF SameWindow
<1>8. CASE IsPulse(l) /\ ~l.running
    BY <1>2, <1>4, <1>8, MeasuredTakes
<1> QED
    BY <1>5, <1>6, <1>7, <1>8

\* The knob's takeover moves the tempo and the reference of a clock that is gone.
LEMMA TakeoverTakes ==
    ASSUME NEW l, IsLaw(l), NEW k
    PROVE  LET t == KnobTakeover(l, k) IN
           /\ t.ring = l.ring /\ t.pending = l.pending
           /\ l.running \/ l.tempo = KnobTempo => t = l
           /\ ~l.running /\ l.tempo # KnobTempo =>
                 /\ l.ref = None => t.tempo = l.tempo /\ t.ref = k
                 /\ l.ref # None /\ l.ref = k => t = l
                 /\ l.ref # None /\ l.ref # k => t.tempo = KnobTempo
BY DEF KnobTakeover, IsLaw, Fields

-----------------------------------------------------------------------------
(* One call.                                                                *)

LEMMA LawKeeps ==
    ASSUME IsLaw(law), NEW clock \in BOOLEAN, NEW rst \in BOOLEAN, NEW k, NEW wrap \in BOOLEAN,
           Law(clock, rst, k, wrap)
    PROVE  IsLaw(law') /\ RestartIsOnAPulse'
<1> DEFINE aged  == Aged(law)
           gone  == Loss(aged, k)
           pulse == clock /\ IsPulse(gone)
           heard == IF clock THEN on_edge(gone) ELSE gone
           held  == KnobTakeover(heard, k)
           fires == IF rst THEN ResetFires(held, pulse)
                    ELSE held.armed /\ ArmedFires(held, pulse, clock, wrap)
           age   == IF rst /\ fires THEN ResetAge(held, pulse) ELSE 0
           kept  == [held EXCEPT !.armed = @ \/ rst]
<1>1. /\ law' = IF fires THEN restart(held, age) ELSE kept
      /\ out' = [pulse |-> pulse, counted |-> clock /\ Counted(gone), restart |-> fires,
                 age |-> age, lost |-> IsLost(aged)]
    BY DEF Law
<1>2. IsLaw(aged)
    BY AgedIs
<1>3. IsLaw(gone)
    BY <1>2, LossIs
<1>4. IsLaw(heard) /\ (pulse => heard.valid = 0)
    BY <1>3, EdgeIs
<1>5. IsLaw(held) /\ (pulse => held.valid = 0)
    BY <1>4, TakeoverIs
<1>6. IsLaw(kept)
    BY <1>5 DEF IsLaw, Fields
<1>7. IsLaw(restart(held, age)) /\ restart(held, age).running = held.running
      /\ restart(held, age).valid = held.valid
    BY <1>5, RestartIs
<1>8. fires /\ held.running => age = held.valid
    BY <1>5 DEF ResetFires, ResetAge, ArmedFires
<1>9. out'.restart = fires /\ out'.age = age
    BY <1>1
<1> HIDE DEF fires, age, kept, held
<1> QED
    BY <1>1, <1>6, <1>7, <1>8, <1>9 DEF RestartIsOnAPulse

\* While a clock runs every restart's 1 lies on a pulse: the one of the call or
\* the one it just missed, never an edge that is no pulse (ClockLaw::step(), its
\* reset and armed branches).
THEOREM RestartsAreOnPulses == Spec => []RestartIsOnAPulse
<1> DEFINE Inv == IsLaw(law) /\ RestartIsOnAPulse
<1>1. Init => Inv
    BY DEF Init, NoOut, IsLaw, Fields, RestartIsOnAPulse
<1>2. Inv /\ [Next]_vars => Inv'
  <2> SUFFICES ASSUME Inv, [Next]_vars PROVE Inv'
      OBVIOUS
  <2>1. CASE Step
      BY <2>1, LawKeeps DEF Step, Call
  <2>2. CASE Discontinuity
    <3> DEFINE f == forget_edges(law)
    <3>1. IsLaw(f)
        BY ForgetIs
    <3>2. law' = [f EXCEPT !.running = FALSE, !.valid = 0, !.armed = FALSE, !.ref = None]
        BY <2>2 DEF Discontinuity
    <3> HIDE DEF f
    <3>3. IsLaw(law')
        BY <3>1, <3>2 DEF IsLaw, Fields
    <3>4. ~out'.restart
        BY <2>2 DEF Discontinuity, NoOut
    <3> QED
        BY <3>3, <3>4 DEF RestartIsOnAPulse
  <2>3. CASE UNCHANGED vars
      BY <2>3 DEF vars, RestartIsOnAPulse, IsLaw
  <2> QED
      BY <2>1, <2>2, <2>3 DEF Next
<1> QED
    BY <1>1, <1>2, PTL DEF Spec

-----------------------------------------------------------------------------
(* The window, the tempo and the knob through a call.                       *)

\* The tempo of a clock that is gone, and whether the knob has moved.
Waits(tempo, ref, knob, turned) ==
    /\ tempo = KnobTempo <=> turned
    /\ tempo # KnobTempo => ref = knob

TempoInv ==
    /\ IsLaw(law)
    /\ law.running => Follows(law.ring, law.tempo, law.pending, hist.clock) /\ ~hist.turned
    /\ ~law.running =>
          /\ law.ring = <<>> /\ law.pending = None /\ hist.clock = NoClock
          /\ Waits(law.tempo, law.ref, hist.knob, hist.turned)

\* A measured tempo is not the knob's.
LEMMA MeasuredIsNoKnob ==
    ASSUME NEW ring, NEW tempo, NEW pending, NEW c, Follows(ring, tempo, pending, c)
    PROVE  tempo # KnobTempo
BY WindowAssumption DEF Follows, Mean, KnobTempo

LEMMA TempoCall ==
    ASSUME TempoInv, NEW clock \in BOOLEAN, NEW rst \in BOOLEAN, NEW k, NEW wrap \in BOOLEAN,
           Call(clock, rst, k, wrap)
    PROVE  TempoInv'
<1> DEFINE aged  == Aged(law)
           gone  == Loss(aged, k)
           pulse == clock /\ IsPulse(gone)
           heard == IF clock THEN on_edge(gone) ELSE gone
           held  == KnobTakeover(heard, k)
           fires == IF rst THEN ResetFires(held, pulse)
                    ELSE held.armed /\ ArmedFires(held, pulse, clock, wrap)
           age   == IF rst /\ fires THEN ResetAge(held, pulse) ELSE 0
           kept  == [held EXCEPT !.armed = @ \/ rst]
<1>1. /\ law' = IF fires THEN restart(held, age) ELSE kept
      /\ out'.pulse = pulse /\ out'.lost = IsLost(aged)
    BY DEF Law, Call
<1>2. /\ hist'.clock = IF ~law'.running THEN NoClock
                       ELSE IF out'.pulse THEN Heard(hist.clock, aged.edge) ELSE hist.clock
      /\ hist'.knob = k
      /\ hist'.turned = IF law'.running \/ out'.lost THEN FALSE
                        ELSE hist.turned \/ (hist.knob # None /\ hist.knob # k)
    BY DEF Call
<1>3. IsLaw(aged) /\ SameWindow(aged, law) /\ IsLaw(law)
    BY AgedIs, AgedSame DEF TempoInv
<1>4. /\ IsLaw(gone)
      /\ ~IsLost(aged) => gone = aged
      /\ IsLost(aged) =>
            /\ ~gone.running /\ gone.ring = <<>> /\ gone.pending = None /\ gone.edge = None
            /\ gone.tempo = law.tempo /\ gone.ref = k
            /\ law.running
    BY <1>3, LossIs, LossEmpties DEF SameWindow, IsLost
<1> HIDE DEF aged, gone
<1>5. /\ IsLaw(heard)
      /\ pulse => heard.running
      /\ ~pulse => SameWindow(heard, gone)
    BY <1>4, EdgeIs, EdgeFollows DEF SameWindow
<1>6. pulse => gone.edge \in Periods /\ gone = aged
    BY <1>4, NoneAssumption, PeriodAssumption DEF IsPulse, Periods
<1>7. heard.running /\ pulse => Follows(heard.ring, heard.tempo, heard.pending, Heard(hist.clock, aged.edge))
  <2>1. CASE law.running
      BY <1>3, <1>4, <1>6, <2>1, EdgeFollows DEF SameWindow, TempoInv
  <2>2. CASE ~law.running
    <3> HAVE pulse
    <3>1. /\ heard.ring = push(<<>>, aged.edge) /\ heard.tempo = Mean(push(<<>>, aged.edge))
          /\ heard.pending = None /\ hist.clock = NoClock
        BY <1>3, <1>4, <1>6, <2>2, EdgeFollows DEF SameWindow, TempoInv
    <3> QED
        BY <1>6, <3>1, FirstFollows
  <2> QED
      BY <2>1, <2>2
<1> HIDE DEF heard, pulse
<1>8. IsLaw(held) /\ held.running = heard.running
    BY <1>5, TakeoverIs
<1>9. IsLaw(law') /\ SameWindow(law', held)
  <2>1. IsLaw(kept) /\ SameWindow(kept, held)
      BY <1>8 DEF IsLaw, Fields, SameWindow
  <2>2. IsLaw(restart(held, age)) /\ SameWindow(restart(held, age), held)
      BY <1>8, RestartIs, RestartSame
  <2> HIDE DEF kept, held, fires, age
  <2> QED
      BY <1>1, <2>1, <2>2
<1>10. /\ held.ring = heard.ring /\ held.pending = heard.pending
       /\ heard.running \/ heard.tempo = KnobTempo => held = heard
       /\ ~heard.running /\ heard.tempo # KnobTempo =>
             /\ heard.ref = None => held.tempo = heard.tempo /\ held.ref = k
             /\ heard.ref # None /\ heard.ref = k => held = heard
             /\ heard.ref # None /\ heard.ref # k => held.tempo = KnobTempo
    BY <1>5, TakeoverTakes
<1> HIDE DEF held, fires, age, kept
<1>11. CASE heard.running
  <2>1. Follows(heard.ring, heard.tempo, heard.pending, hist'.clock)
    <3>1. CASE pulse
        BY <1>1, <1>2, <1>7, <1>8, <1>9, <1>11, <3>1 DEF SameWindow
    <3>2. CASE ~pulse
      <4>1. law.running /\ gone = aged
          BY <1>3, <1>4, <1>5, <1>11, <3>2 DEF SameWindow
      <4> QED
          BY <1>1, <1>2, <1>3, <1>5, <1>8, <1>9, <1>11, <3>2, <4>1 DEF SameWindow, TempoInv
    <3> QED
        BY <3>1, <3>2
  <2> QED
      BY <1>2, <1>8, <1>9, <1>10, <1>11, <2>1 DEF SameWindow, TempoInv
<1>12. CASE ~heard.running
  <2>1. /\ ~pulse /\ SameWindow(heard, gone) /\ heard.ring = <<>> /\ heard.pending = None
        /\ heard.tempo = law.tempo
      BY <1>3, <1>4, <1>5, <1>12 DEF SameWindow, TempoInv
  <2>2. ~law'.running /\ law'.ring = <<>> /\ law'.pending = None /\ hist'.clock = NoClock
      BY <1>2, <1>8, <1>9, <1>10, <1>12, <2>1 DEF SameWindow
  <2>3. Waits(held.tempo, held.ref, k, hist'.turned)
    <3>1. CASE IsLost(aged)
      <4>1. law.tempo # KnobTempo
          BY <1>4, <3>1, MeasuredIsNoKnob DEF TempoInv
      <4>2. ~hist'.turned
          BY <1>1, <1>2, <3>1
      <4> QED
          BY <1>4, <1>10, <1>12, <2>1, <3>1, <4>1, <4>2 DEF Waits, SameWindow
    <3>2. CASE ~IsLost(aged)
      <4>1. /\ ~law.running /\ heard.ref = law.ref
            /\ law.tempo = KnobTempo <=> hist.turned
            /\ law.tempo # KnobTempo => law.ref = hist.knob
          BY <1>3, <1>4, <1>12, <2>1, <3>2 DEF TempoInv, Waits, SameWindow
      <4>2. hist'.turned <=> hist.turned \/ (hist.knob # None /\ hist.knob # k)
          BY <1>1, <1>2, <2>2, <3>2
      <4> QED
          BY <1>10, <1>12, <2>1, <4>1, <4>2 DEF Waits
    <3> QED
        BY <3>1, <3>2
  <2> QED
      BY <1>2, <1>9, <2>2, <2>3 DEF SameWindow, TempoInv
<1> QED
    BY <1>11, <1>12

LEMMA TempoInvariant == Spec => []TempoInv
<1>1. Init => TempoInv
    BY DEF Init, TempoInv, IsLaw, Fields, Waits
<1>2. TempoInv /\ [Next]_vars => TempoInv'
  <2> SUFFICES ASSUME TempoInv, [Next]_vars PROVE TempoInv'
      OBVIOUS
  <2>1. CASE Step
      BY <2>1, TempoCall DEF Step
  <2>2. CASE Discontinuity
    <3> DEFINE f == forget_edges(law)
               n == [f EXCEPT !.running = FALSE, !.valid = 0, !.armed = FALSE, !.ref = None]
    <3>1. IsLaw(f) /\ f.ring = <<>> /\ f.pending = None /\ f.tempo = law.tempo
        BY ForgetIs, ForgetEmpties DEF TempoInv
    <3>2. /\ law' = n
          /\ hist' = [clock |-> NoClock, knob |-> None, turned |-> law.tempo = KnobTempo]
        BY <2>2 DEF Discontinuity
    <3> HIDE DEF f
    <3>3. /\ IsLaw(n) /\ ~n.running /\ n.ring = <<>> /\ n.pending = None
          /\ n.tempo = law.tempo /\ n.ref = None
        BY <3>1 DEF IsLaw, Fields
    <3>4. /\ hist'.clock = NoClock /\ hist'.knob = None
          /\ hist'.turned <=> law.tempo = KnobTempo
        BY <3>2
    <3> HIDE DEF n
    <3> QED
        BY <3>2, <3>3, <3>4 DEF TempoInv, Waits
  <2>3. CASE UNCHANGED vars
      BY <2>3 DEF vars, TempoInv, IsLaw
  <2> QED
      BY <2>1, <2>2, <2>3 DEF Next
<1> QED
    BY <1>1, <1>2, PTL DEF Spec

\* With the clock gone its tempo is held exactly until the knob moves: the loss
\* takes the knob's reading, a discontinuity leaves it to the next call
\* (ClockLaw::step(), its loss and knob takeover, and discontinuity()).
THEOREM KnobTakesTheTempoOver == Spec => []KnobTakesOver
<1>1. TempoInv => KnobTakesOver
  <2> SUFFICES ASSUME TempoInv, ~law.running PROVE law.tempo = KnobTempo <=> hist.turned
      BY DEF KnobTakesOver
  <2> QED
      BY DEF TempoInv, Waits
<1> QED
    BY <1>1, TempoInvariant, PTL

\* A clock that keeps one period sets exactly its tempo Window + 2 pulses later
\* at the latest: one is lost to a held period, as many as the window has enter it
\* or one is held and the next agrees with it (ClockLaw::on_edge()).
THEOREM SteadyClocksAreFollowed == Spec => []SteadyClockIsFollowed
<1>1. TempoInv => SteadyClockIsFollowed
  <2> SUFFICES ASSUME TempoInv, hist.clock.same >= Settle
               PROVE  law.tempo # KnobTempo /\ law.tempo.sum = hist.clock.last * law.tempo.n
      BY DEF SteadyClockIsFollowed
  <2>1. law.running
      BY WindowAssumption DEF TempoInv, NoClock, Settle
  <2>2. Follows(law.ring, law.tempo, law.pending, hist.clock)
      BY <2>1 DEF TempoInv
  <2>3. \A j \in 1 .. Len(law.ring) : law.ring[j] = hist.clock.last
      BY <2>2, WindowAssumption DEF Follows, Settle, Steady
  <2>4. law.ring \in Seq(Nat) /\ hist.clock.last \in Nat
      BY <2>2, PeriodAssumption DEF Follows, Periods
  <2>5. Sum(law.ring) = hist.clock.last * Len(law.ring)
      BY <2>3, <2>4, SumOfOne
  <2>6. law.tempo = [sum |-> Sum(law.ring), n |-> Len(law.ring)]
      BY <2>2 DEF Follows, Mean
  <2>7. law.tempo.sum = hist.clock.last * law.tempo.n
      BY <2>5, <2>6
  <2> QED
      BY <2>2, <2>7, MeasuredIsNoKnob
<1> QED
    BY <1>1, TempoInvariant, PTL

\* A clock that has filled the window with one period keeps exactly its tempo
\* through single gaps and short beats of any length (ClockLaw::on_edge(), the
\* held period and the one after it).
THEOREM GapsMoveNoTempo == Spec => []NoExcursion
<1>1. TempoInv => NoExcursion
  <2> SUFFICES ASSUME TempoInv, hist.clock.base # None
               PROVE  law.tempo # KnobTempo /\ law.tempo.sum = hist.clock.base * law.tempo.n
      BY DEF NoExcursion
  <2>1. law.running
      BY DEF TempoInv, NoClock
  <2>2. Follows(law.ring, law.tempo, law.pending, hist.clock)
      BY <2>1 DEF TempoInv
  <2>3. /\ \A j \in 1 .. Len(law.ring) : law.ring[j] = hist.clock.base
        /\ law.ring \in Seq(Nat) /\ hist.clock.base \in Nat
      BY <2>2, PeriodAssumption DEF Follows, Periods
  <2>4. Sum(law.ring) = hist.clock.base * Len(law.ring)
      BY <2>3, SumOfOne
  <2>5. law.tempo = [sum |-> Sum(law.ring), n |-> Len(law.ring)]
      BY <2>2 DEF Follows, Mean
  <2>6. law.tempo.sum = hist.clock.base * law.tempo.n
      BY <2>4, <2>5
  <2> QED
      BY <2>2, <2>6, MeasuredIsNoKnob
<1> QED
    BY <1>1, TempoInvariant, PTL

-----------------------------------------------------------------------------
(* The jacks.                                                               *)

\* No edge is lost between the callback's read of the pending bits and its
\* clear of them, wherever edges fall (gate_latch_take()).
THEOREM EveryEdgeIsSeen == JackSpec => []EdgesAreSeen
<1> DEFINE Inv == EdgesAreSeen /\ (at = "read" => seen = {})
<1>1. JackInit => Inv
    BY DEF JackInit, EdgesAreSeen
<1>2. Inv /\ [JackNext]_jackVars => Inv'
  <2> SUFFICES ASSUME Inv, [JackNext]_jackVars PROVE Inv'
      OBVIOUS
  <2>1. ASSUME NEW line \in Lines, Edge(line) PROVE Inv'
      BY <2>1 DEF Edge, EdgesAreSeen
  <2>2. CASE Read
      BY <2>2 DEF Read, EdgesAreSeen
  <2>3. ASSUME NEW k \in Knobs, NEW wrap \in BOOLEAN, Block(k, wrap) PROVE Inv'
      BY <2>3 DEF Block, Cleared, EdgesAreSeen
  <2>4. CASE UNCHANGED jackVars
      BY <2>4 DEF jackVars, EdgesAreSeen
  <2> QED
      BY <2>1, <2>2, <2>3, <2>4 DEF JackNext
<1> QED
    BY <1>1, <1>2, PTL DEF JackSpec

-----------------------------------------------------------------------------
(* Positions on the grid.                                                   *)

\* Comparing before a multiplication.
LEMMA Unscaled ==
    ASSUME NEW m \in Int, NEW n \in Int, NEW u \in Nat \ {0}, m * u < n * u
    PROVE  m < n
<1> SUFFICES ASSUME m >= n PROVE FALSE
    OBVIOUS
<1> DEFINE d == m - n
<1>1. d \in Nat /\ m = n + d
    OBVIOUS
<1> HIDE DEF d
<1>2. m * u = n * u + d * u /\ d * u \in Nat /\ n * u \in Int
    BY <1>1
<1> QED
    BY <1>2

LEMMA ResidueIs ==
    ASSUME NEW u \in Nat \ {0}, NEW q \in Int, NEW r \in 0 .. u - 1, NEW x, x = q * u + r
    PROVE  x % u = r
<1> DEFINE p == x \div u
           s == x % u
<1>1. x \in Int
    OBVIOUS
<1>2. p \in Int /\ s \in 0 .. u - 1 /\ x = p * u + s
    BY <1>1
<1> HIDE DEF p, s
<1>3. p * u \in Int /\ q * u \in Int /\ (p + 1) * u = p * u + u /\ (q + 1) * u = q * u + u
    BY <1>2
<1>4. q * u < (p + 1) * u /\ p * u < (q + 1) * u
    BY <1>2, <1>3
<1>5. q < p + 1 /\ p < q + 1
    BY <1>2, <1>4, Unscaled
<1>6. p = q
    BY <1>2, <1>5
<1>7. s = r
    BY <1>2, <1>3, <1>6
<1> QED
    BY <1>7 DEF s

\* x and y are whole rounds of m apart.
Cong(x, y, m) == \E q \in Int : x = y + q * m

LEMMA CongSame == ASSUME NEW x \in Int, NEW m \in Int PROVE Cong(x, x, m)
<1>1. x = x + 0 * m
    OBVIOUS
<1> QED
    BY <1>1 DEF Cong

LEMMA CongSwap ==
    ASSUME NEW x \in Int, NEW y \in Int, NEW m \in Int, Cong(x, y, m) PROVE Cong(y, x, m)
<1>1. PICK q \in Int : x = y + q * m
    BY DEF Cong
<1>2. y = x + (-q) * m
    BY <1>1
<1> QED
    BY <1>2 DEF Cong

\* Sums of congruent numbers are congruent, and so are numbers congruent to one.
LEMMA CongAdds ==
    ASSUME NEW x \in Int, NEW y \in Int, NEW u \in Int, NEW v \in Int, NEW m \in Int,
           Cong(x, y, m), Cong(u, v, m)
    PROVE  Cong(x + u, y + v, m)
<1>1. PICK p \in Int : x = y + p * m
    BY DEF Cong
<1>2. PICK q \in Int : u = v + q * m
    BY DEF Cong
<1>3. PICK e \in Int : e = p + q
    OBVIOUS
<1>4. e * m = p * m + q * m /\ p * m \in Int /\ q * m \in Int
    BY <1>3
<1>5. x + u = (y + v) + e * m
    BY <1>1, <1>2, <1>4
<1> QED
    BY <1>5 DEF Cong

LEMMA CongChains ==
    ASSUME NEW x \in Int, NEW y \in Int, NEW z \in Int, NEW m \in Int,
           Cong(x, y, m), Cong(y, z, m)
    PROVE  Cong(x, z, m)
<1>1. PICK p \in Int : x = y + p * m
    BY DEF Cong
<1>2. PICK q \in Int : y = z + q * m
    BY DEF Cong
<1>3. PICK e \in Int : e = p + q
    OBVIOUS
<1>4. e * m = p * m + q * m /\ p * m \in Int /\ q * m \in Int
    BY <1>3
<1>5. x = z + e * m
    BY <1>1, <1>2, <1>4
<1> QED
    BY <1>5 DEF Cong

\* The residue by a multiple of the modulus is congruent.
LEMMA CongResidue ==
    ASSUME NEW x \in Int, NEW m \in Nat \ {0}, NEW b \in Nat \ {0}, b % m = 0
    PROVE  x % b \in Int /\ Cong(x % b, x, m)
<1> DEFINE q == x \div b
           r == x % b
           k == b \div m
<1>1. q \in Int /\ r \in 0 .. b - 1 /\ x = q * b + r
    OBVIOUS
<1>2. k \in Int /\ b = k * m
  <2>1. k \in Int /\ b = k * m + (b % m)
      OBVIOUS
  <2>2. k * m \in Int
      BY <2>1
  <2> HIDE DEF k
  <2> QED
      BY <2>1, <2>2
<1> HIDE DEF q, r, k
<1>3. PICK e \in Int : e = -(q * k)
    BY <1>1, <1>2
<1>4. r = x + e * m
  <2>1. q * b = (q * k) * m /\ e * m = -((q * k) * m) /\ (q * k) * m \in Int
      BY <1>1, <1>2, <1>3
  <2> QED
      BY <1>1, <2>1
<1>5. r \in Int /\ Cong(r, x, m)
    BY <1>1, <1>4 DEF Cong
<1> QED
    BY <1>5 DEF r

\* Congruent numbers have one residue.
LEMMA CongIs ==
    ASSUME NEW m \in Nat \ {0}, NEW x \in Int, NEW r \in 0 .. m - 1, Cong(x, r, m)
    PROVE  x % m = r
<1>1. PICK q \in Int : x = r + q * m
    BY DEF Cong
<1>2. q * m \in Int
    OBVIOUS
<1>3. x = q * m + r
    BY <1>1, <1>2
<1> QED
    BY <1>3, ResidueIs

\* Every other round is a whole one.
LEMMA CongHalves ==
    ASSUME NEW x \in Int, NEW y \in Int, NEW m \in Int, Cong(x, y, 2 * m)
    PROVE  Cong(x, y, m)
<1>1. PICK q \in Int : x = y + q * (2 * m)
    BY DEF Cong
<1>2. x = y + (2 * q) * m /\ 2 * q \in Int
    BY <1>1
<1> QED
    BY <1>2 DEF Cong

-----------------------------------------------------------------------------
(* A running clock's age.                                                   *)

\* The sum of a window is between the shortest and the longest one of its length.
LEMMA SumBounds ==
    ASSUME NEW ring \in Seq(Periods)
    PROVE  /\ Sum(ring) \in Nat
           /\ MinPeriod * Len(ring) <= Sum(ring) /\ Sum(ring) <= MaxPeriod * Len(ring)
<1> DEFINE n == Len(ring)
           Sums(s) == s = [i \in 0 .. n |-> IF i = 0 THEN 0 ELSE s[i - 1] + ring[i]]
           sum == CHOOSE s : Sums(s)
           Fits(i) == sum[i] \in Nat /\ MinPeriod * i <= sum[i] /\ sum[i] <= MaxPeriod * i
           Off == {i \in 0 .. n : ~Fits(i)}
<1>1. Sum(ring) = sum[n]
    BY DEF Sum
<1>2. n \in Nat /\ Sums(sum) /\ ring \in Seq(Nat)
  <2>1. n \in Nat /\ ring \in Seq(Nat)
      BY PeriodAssumption DEF Periods
  <2>2. \E s : Sums(s)
      BY <2>1, SumsExist
  <2> QED
      BY <2>1, <2>2
<1> HIDE DEF sum
<1>3. SUFFICES ASSUME ~Fits(n) PROVE FALSE
    BY <1>1
<1>4. PICK i \in Off : \A k \in Off : i <= k
  <2>1. Off \in SUBSET Nat /\ n \in Off
      BY <1>2, <1>3
  <2> HIDE DEF Off
  <2> QED
      BY <2>1, LeastExists
<1>5. i \in 0 .. n /\ sum[i] = IF i = 0 THEN 0 ELSE sum[i - 1] + ring[i]
    BY <1>2
<1>6. i # 0
    BY <1>4, <1>5, PeriodAssumption
<1>7. Fits(i - 1)
  <2>1. i - 1 \in 0 .. n /\ ~(i <= i - 1)
      BY <1>2, <1>5, <1>6
  <2> HIDE DEF Fits, n
  <2> QED
      BY <1>4, <2>1
<1>8. ring[i] \in Periods /\ sum[i] = sum[i - 1] + ring[i]
    BY <1>2, <1>5, <1>6
<1>9. Fits(i)
  <2>1. PICK j \in Nat : j = i - 1 /\ i = j + 1
      BY <1>2, <1>5, <1>6
  <2>2. MinPeriod * i = MinPeriod * j + MinPeriod /\ MaxPeriod * i = MaxPeriod * j + MaxPeriod
      BY <2>1, PeriodAssumption
  <2>3. MinPeriod * j \in Nat /\ MaxPeriod * j \in Nat
      BY <2>1, PeriodAssumption
  <2>4. /\ sum[i - 1] \in Nat /\ MinPeriod * j <= sum[i - 1] /\ sum[i - 1] <= MaxPeriod * j
      BY <1>7, <2>1
  <2>5. /\ ring[i] \in Nat /\ MinPeriod <= ring[i] /\ ring[i] <= MaxPeriod
        /\ MinPeriod \in Nat /\ MaxPeriod \in Nat
      BY <1>8, PeriodAssumption DEF Periods
  <2> HIDE DEF Sums, Off
  <2>6. sum[i] \in Nat
      BY <1>8, <2>4, <2>5
  <2>7. MinPeriod * i <= sum[i]
      BY <1>8, <2>2, <2>3, <2>4, <2>5
  <2>8. sum[i] <= MaxPeriod * i
      BY <1>8, <2>2, <2>3, <2>4, <2>5
  <2> QED
      BY <2>6, <2>7, <2>8
<1> QED
    BY <1>4, <1>9

\* A tempo is the knob's or a mean of periods.
TempoIs(tempo) ==
    tempo # KnobTempo =>
        tempo.n \in Nat \ {0} /\ tempo.sum \in Nat \ {0} /\ tempo.sum <= MaxPeriod * tempo.n

LEMMA MeanIs ==
    ASSUME NEW ring \in Seq(Periods), Len(ring) # 0
    PROVE  TempoIs(Mean(ring)) /\ Mean(ring) # KnobTempo
<1>1. Len(ring) \in Nat \ {0}
    OBVIOUS
<1>2. MinPeriod * Len(ring) > 0
    BY <1>1, PeriodAssumption
<1>3. Sum(ring) \in Nat \ {0} /\ Sum(ring) <= MaxPeriod * Len(ring)
    BY <1>1, <1>2, SumBounds, PeriodAssumption
<1> QED
    BY <1>1, <1>3 DEF Mean, KnobTempo, TempoIs

\* What a block adds at a tempo.
LEMMA StepIs ==
    ASSUME NEW tempo, TempoIs(tempo), NEW pace \in Paces PROVE StepOf(tempo, pace) \in Int
<1>1. pace \in Nat /\ KnobPeriod \in Nat \ {0}
    BY PaceAssumption, KnobPeriodAssumption
<1>2. CASE tempo = KnobTempo
    BY <1>1, <1>2 DEF StepOf, KnobTempo
<1>3. CASE tempo # KnobTempo
  <2>1. tempo.n \in Nat \ {0} /\ tempo.sum \in Nat \ {0} /\ pace * tempo.n \in Nat
      BY <1>1, <1>3 DEF TempoIs
  <2> QED
      BY <2>1 DEF StepOf
<1> QED
    BY <1>2, <1>3

\* A clock that is not lost has an age that is still counted.
LEMMA AgeCounts ==
    ASSUME NEW tempo, TempoIs(tempo), tempo # KnobTempo, NEW v \in Nat,
           v * tempo.n <= TimeoutPeriods * tempo.sum
    PROVE  v < ValidCap
<1> DEFINE n == tempo.n
           s == tempo.sum
<1>1. n \in Nat \ {0} /\ s \in Nat \ {0} /\ s <= MaxPeriod * n
    BY DEF TempoIs
<1>2. v * n <= TimeoutPeriods * s
    OBVIOUS
<1> HIDE DEF n, s
<1>3. PICK d \in Nat : MaxPeriod * n = s + d
  <2>1. MaxPeriod * n - s \in Nat /\ MaxPeriod * n = s + (MaxPeriod * n - s)
      BY <1>1, PeriodAssumption
  <2> QED
      BY <2>1
<1>4. TimeoutPeriods * (MaxPeriod * n) = TimeoutPeriods * s + TimeoutPeriods * d
    BY <1>1, <1>3, TimeAssumption
<1>5. TimeoutPeriods * d \in Nat /\ TimeoutPeriods * s \in Nat
    BY <1>1, <1>3, TimeAssumption
<1>6. PICK t \in Nat : t = TimeoutPeriods * MaxPeriod
    BY PeriodAssumption, TimeAssumption
<1>7. t * n = TimeoutPeriods * (MaxPeriod * n)
    BY <1>1, <1>6, PeriodAssumption, TimeAssumption
<1>8. (t + 1) * n = t * n + n /\ t * n \in Nat /\ v * n \in Nat
    BY <1>1, <1>6
<1>9. v * n < (t + 1) * n
    BY <1>1, <1>2, <1>4, <1>5, <1>7, <1>8
<1>10. v < t + 1
    BY <1>1, <1>9, <1>6, Unscaled
<1> QED
    BY <1>6, <1>10 DEF ValidCap

\* A law the jacks can have brought about.
ClockIs(l) ==
    /\ IsLaw(l) /\ l.valid \in Nat /\ TempoIs(l.tempo)
    /\ l.running =>
          /\ \E c : Follows(l.ring, l.tempo, l.pending, c)
          /\ l.valid * l.tempo.n <= TimeoutPeriods * l.tempo.sum
    /\ ~l.running => l.ring = <<>> /\ l.pending = None

LEMMA FollowsIs ==
    ASSUME NEW ring, NEW tempo, NEW pending, NEW c, Follows(ring, tempo, pending, c)
    PROVE  TempoIs(tempo) /\ tempo # KnobTempo
<1>1. ring \in Seq(Periods) /\ Len(ring) # 0 /\ tempo = Mean(ring)
    BY WindowAssumption DEF Follows
<1> QED
    BY <1>1, MeanIs

\* What a call does to the clock, its age and its tempo.
LEMMA LawRuns ==
    ASSUME ClockIs(law), NEW clock \in BOOLEAN, NEW rst \in BOOLEAN, NEW k, NEW wrap \in BOOLEAN,
           Law(clock, rst, k, wrap)
    PROVE  /\ ClockIs(law') /\ out'.age \in Nat
           /\ out'.pulse => law'.running /\ law'.valid = 0
           /\ out'.counted => out'.pulse /\ ~law.running
           /\ law'.running /\ ~out'.pulse =>
                 law.running /\ law'.tempo = law.tempo /\ law'.valid = law.valid + 1
           /\ out'.restart /\ law'.running => out'.age = law'.valid
<1> DEFINE aged  == Aged(law)
           gone  == Loss(aged, k)
           pulse == clock /\ IsPulse(gone)
           heard == IF clock THEN on_edge(gone) ELSE gone
           held  == KnobTakeover(heard, k)
           fires == IF rst THEN ResetFires(held, pulse)
                    ELSE held.armed /\ ArmedFires(held, pulse, clock, wrap)
           age   == IF rst /\ fires THEN ResetAge(held, pulse) ELSE 0
           kept  == [held EXCEPT !.armed = @ \/ rst]
<1>1. /\ law' = IF fires THEN restart(held, age) ELSE kept
      /\ out'.pulse = pulse /\ out'.counted = (clock /\ Counted(gone))
      /\ out'.restart = fires /\ out'.age = age
    BY DEF Law
<1>2. /\ IsLaw(law) /\ IsLaw(aged) /\ SameWindow(aged, law)
      /\ aged.valid = IF law.running THEN law.valid + 1 ELSE 0
  <2>1. law.running => law.tempo # KnobTempo /\ law.valid < ValidCap
      BY FollowsIs, AgeCounts DEF ClockIs
  <2>2. law.running => Older(law.valid, ValidCap) = law.valid + 1
    <3>1. law.valid \in Nat /\ law.valid # None
        BY NoneAssumption DEF ClockIs
    <3>2. law.running => law.valid # ValidCap
        BY <2>1, <3>1
    <3> QED
        BY <3>1, <3>2 DEF Older
  <2> QED
      BY <2>2, AgedIs, AgedSame DEF ClockIs
<1>3. /\ IsLaw(gone)
      /\ ~IsLost(aged) => gone = aged
      /\ IsLost(aged) =>
            /\ ~gone.running /\ gone.ring = <<>> /\ gone.pending = None /\ gone.edge = None
            /\ gone.tempo = law.tempo /\ gone.valid = 0
    BY <1>2, LossIs, LossEmpties DEF SameWindow
<1>4. /\ gone.running =>
            /\ gone.valid * gone.tempo.n <= TimeoutPeriods * gone.tempo.sum
            /\ law.running /\ gone.tempo = law.tempo /\ gone.valid = law.valid + 1
            /\ gone.ring = law.ring /\ gone.pending = law.pending
      /\ ~gone.running => gone.ring = <<>> /\ gone.pending = None /\ gone.valid = 0
      /\ gone.tempo = law.tempo /\ gone.valid \in Nat
  <2>1. CASE IsLost(aged)
      BY <1>3, <2>1
  <2>2. CASE ~IsLost(aged)
    <3>1. gone = aged
        BY <1>3, <2>2
    <3>2. aged.running => aged.valid * aged.tempo.n <= TimeoutPeriods * aged.tempo.sum
      <4> HAVE aged.running
      <4>1. ~(aged.valid * aged.tempo.n > TimeoutPeriods * aged.tempo.sum)
          BY <2>2 DEF IsLost
      <4>2. aged.tempo.n \in Nat /\ aged.tempo.sum \in Nat /\ aged.valid \in Nat
          BY <1>2, FollowsIs DEF ClockIs, SameWindow, TempoIs
      <4>3. aged.valid * aged.tempo.n \in Nat /\ TimeoutPeriods * aged.tempo.sum \in Nat
          BY <4>2, TimeAssumption
      <4> QED
          BY <4>1, <4>3
    <3> HIDE DEF aged, gone
    <3>3. aged.running = law.running /\ aged.tempo = law.tempo /\ aged.ring = law.ring
          /\ aged.pending = law.pending /\ law.valid \in Nat
        BY <1>2 DEF SameWindow, ClockIs
    <3> QED
        BY <1>2, <3>1, <3>2, <3>3 DEF ClockIs
  <2> QED
      BY <2>1, <2>2
<1>5. /\ pulse => gone = aged /\ gone.edge \in Periods
      /\ clock /\ Counted(gone) => pulse /\ ~law.running
  <2>1. IsPulse(gone) => gone = aged /\ gone.edge \in Periods
      BY <1>3, NoneAssumption, PeriodAssumption DEF IsPulse, Periods
  <2>2. Counted(gone) => IsPulse(gone) /\ ~gone.running
      BY DEF Counted
  <2> HIDE DEF aged, gone
  <2> QED
      BY <1>2, <2>1, <2>2 DEF SameWindow
<1> HIDE DEF aged, gone
<1>6. /\ IsLaw(heard)
      /\ pulse => heard.running /\ heard.valid = 0
      /\ ~pulse => SameWindow(heard, gone) /\ heard.valid = gone.valid
    BY <1>3, EdgeIs, EdgeFollows DEF SameWindow
<1>7. pulse => \E c : Follows(heard.ring, heard.tempo, heard.pending, c)
  <2> HAVE pulse
  <2>1. clock /\ IsPulse(gone) /\ heard = on_edge(gone) /\ gone.edge \in Periods
      BY <1>5
  <2>2. CASE gone.running
    <3>1. PICK c : Follows(law.ring, law.tempo, law.pending, c)
        BY <1>4, <2>2 DEF ClockIs
    <3>2. Follows(gone.ring, gone.tempo, gone.pending, c)
        BY <1>4, <2>2, <3>1
    <3>3. Follows(heard.ring, heard.tempo, heard.pending, Heard(c, gone.edge))
        BY <1>3, <2>1, <2>2, <3>2, EdgeFollows
    <3> QED
        BY <3>3
  <2>3. CASE ~gone.running
    <3>1. heard.ring = push(gone.ring, gone.edge) /\ heard.tempo = Mean(push(gone.ring, gone.edge))
          /\ heard.pending = gone.pending
        BY <1>3, <2>1, <2>3, EdgeFollows
    <3>2. heard.ring = push(<<>>, gone.edge) /\ heard.tempo = Mean(push(<<>>, gone.edge))
          /\ heard.pending = None
        BY <1>4, <2>3, <3>1
    <3>3. Follows(heard.ring, heard.tempo, heard.pending, Heard(NoClock, gone.edge))
        BY <2>1, <3>2, FirstFollows
    <3> QED
        BY <3>3
  <2> QED
      BY <2>2, <2>3
<1> HIDE DEF heard, pulse
<1>8. /\ heard.valid \in Nat
      /\ heard.running /\ ~pulse =>
            law.running /\ heard.tempo = law.tempo /\ heard.valid = law.valid + 1
      /\ heard.running =>
            /\ \E c : Follows(heard.ring, heard.tempo, heard.pending, c)
            /\ heard.valid * heard.tempo.n <= TimeoutPeriods * heard.tempo.sum
      /\ TempoIs(heard.tempo)
      /\ ~heard.running => heard.ring = <<>> /\ heard.pending = None
  <2>1. CASE pulse
    <3>1. PICK c : Follows(heard.ring, heard.tempo, heard.pending, c)
        BY <1>7, <2>1
    <3>2. TempoIs(heard.tempo) /\ heard.tempo # KnobTempo
        BY <3>1, FollowsIs
    <3>3. 0 * heard.tempo.n <= TimeoutPeriods * heard.tempo.sum
        BY <3>2, TimeAssumption DEF TempoIs
    <3> QED
        BY <1>6, <2>1, <3>1, <3>2, <3>3
  <2>2. CASE ~pulse
    <3>1. SameWindow(heard, gone) /\ heard.valid = gone.valid
        BY <1>6, <2>2
    <3>2. law.running => \E c : Follows(law.ring, law.tempo, law.pending, c)
        BY DEF ClockIs
    <3> QED
        BY <1>4, <2>2, <3>1, <3>2 DEF SameWindow, ClockIs
  <2> QED
      BY <2>1, <2>2
<1>9. /\ IsLaw(held) /\ held.running = heard.running /\ held.valid = heard.valid
      /\ held.ring = heard.ring /\ held.pending = heard.pending
      /\ heard.running => held = heard
      /\ held.tempo = heard.tempo \/ held.tempo = KnobTempo
    BY <1>6, TakeoverIs, TakeoverTakes
<1>10. TempoIs(held.tempo)
    BY <1>8, <1>9 DEF TempoIs
<1> HIDE DEF held
<1>11. ClockIs(held)
    BY <1>8, <1>9, <1>10 DEF ClockIs
<1>12. ASSUME NEW l, IsLaw(l), SameWindow(l, held), l.valid = held.valid PROVE ClockIs(l)
    BY <1>11, <1>12 DEF ClockIs, SameWindow
<1>13. IsLaw(law') /\ SameWindow(law', held) /\ law'.valid = held.valid
  <2>1. IsLaw(kept) /\ SameWindow(kept, held) /\ kept.valid = held.valid
      BY <1>9 DEF IsLaw, Fields, SameWindow
  <2>2. /\ IsLaw(restart(held, age)) /\ SameWindow(restart(held, age), held)
        /\ restart(held, age).valid = held.valid
      BY <1>9, RestartIs, RestartSame
  <2> HIDE DEF kept, fires, age
  <2> QED
      BY <1>1, <2>1, <2>2
<1>14. /\ age \in Nat
       /\ fires /\ held.running => age = held.valid
  <2>1. held.valid \in Nat /\ (pulse => held.valid = 0)
      BY <1>6, <1>8, <1>9
  <2> QED
      BY <2>1 DEF ResetFires, ResetAge, ArmedFires
<1> HIDE DEF fires, age, kept
<1>15. ClockIs(law')
    BY <1>12, <1>13
<1> QED
    BY <1>1, <1>5, <1>6, <1>8, <1>9, <1>13, <1>14, <1>15 DEF SameWindow

-----------------------------------------------------------------------------
(* The transport on its grid.                                               *)

Songs == [beats : Int, anchor : Int, fresh : BOOLEAN, pace : Paces]

\* Modulo two pace steps the grid is c steps past the 1, the counter way past that.
On(t, c, way) ==
    /\ Cong(t.anchor, c * t.pace, 2 * t.pace)
    /\ Cong(t.beats, c * t.pace + way, 2 * t.pace)

LEMMA BarIs ==
    ASSUME NEW p \in Paces, NEW x \in Int
    PROVE  /\ p \in Nat \ {0} /\ 2 * p \in Nat \ {0}
           /\ x % Bar \in Int /\ Cong(x % Bar, x, 2 * p)
<1>1. p \in Nat \ {0} /\ 2 * p \in Nat \ {0} /\ Bar % (2 * p) = 0 /\ Bar \in Nat \ {0}
    BY PaceAssumption, BeatAssumption
<1> QED
    BY <1>1, CongResidue

\* So many blocks at a tempo.
LEMMA AdvanceIs ==
    ASSUME NEW t \in Songs, NEW blocks \in Int, NEW tempo, TempoIs(tempo)
    PROVE  LET a == advance(t, blocks, tempo) IN
           /\ a \in Songs /\ a.pace = t.pace /\ a.fresh = t.fresh /\ a.anchor = t.anchor
           /\ \A c, way \in Int :
                 On(t, c, way) => On(a, c, way + blocks * StepOf(tempo, t.pace))
<1> DEFINE a == advance(t, blocks, tempo)
           u == blocks * StepOf(tempo, t.pace)
           m == 2 * t.pace
<1>1. t.pace \in Paces /\ t.beats \in Int /\ t.anchor \in Int
    BY DEF Songs
<1>2. u \in Int
    BY <1>1, StepIs
<1>3. m \in Int /\ t.pace \in Int /\ (t.beats + u) % Bar \in Int /\ Cong((t.beats + u) % Bar, t.beats + u, m)
    BY <1>1, <1>2, BarIs
<1>4. a = [t EXCEPT !.beats = (t.beats + u) % Bar]
    BY DEF advance
<1> HIDE DEF u, a
<1>5. /\ a \in Songs /\ a.pace = t.pace /\ a.fresh = t.fresh /\ a.anchor = t.anchor
      /\ a.beats = (t.beats + u) % Bar
    BY <1>3, <1>4 DEF Songs
<1> HIDE DEF m
<1>6. ASSUME NEW c \in Int, NEW way \in Int, On(t, c, way) PROVE On(a, c, way + u)
  <2>1. Cong(t.beats, c * t.pace + way, m) /\ Cong(t.anchor, c * t.pace, m) /\ c * t.pace \in Int
      BY <1>3, <1>6 DEF On, m
  <2>2. PICK x \in Int : x = c * t.pace
      BY <2>1
  <2>3. Cong(t.beats + u, (x + way) + u, m)
    <3>1. PICK s \in Int : s = x + way
        BY <2>2
    <3>2. Cong(t.beats, s, m) /\ Cong(u, u, m)
        BY <1>2, <1>3, <2>1, <2>2, <3>1, CongSame
    <3>3. Cong(t.beats + u, s + u, m)
        BY <1>1, <1>2, <1>3, <3>2, CongAdds
    <3> QED
        BY <3>1, <3>3
  <2>4. Cong(a.beats, (x + way) + u, m)
      BY <1>1, <1>2, <1>3, <1>5, <2>2, <2>3, CongChains
  <2>5. (x + way) + u = x + (way + u)
      BY <1>2, <2>2
  <2>6. Cong(a.beats, x + (way + u), m)
      BY <2>4, <2>5
  <2> QED
      BY <1>5, <2>1, <2>2, <2>6 DEF On, m
<1> QED
    BY <1>5, <1>6 DEF a, u

\* A pulse puts the counter and the grid on one point.
LEMMA OnPulseIs ==
    ASSUME NEW t \in Songs, NEW b \in Int
    PROVE  LET o == OnPulse(t, b) IN
           /\ o \in Songs /\ o.pace = t.pace
           /\ \A c \in Int : Cong(b, c * t.pace, 2 * t.pace) => On(o, c, 0)
<1> DEFINE o == OnPulse(t, b)
           m == 2 * t.pace
<1>1. t.pace \in Paces
    BY DEF Songs
<1>2. t.pace \in Int /\ m \in Int /\ b % Bar \in Int /\ Cong(b % Bar, b, m)
    BY <1>1, BarIs
<1>3. /\ o \in Songs /\ o.pace = t.pace /\ o.beats = b % Bar /\ o.anchor = b % Bar
    BY <1>2 DEF Songs, OnPulse
<1> HIDE DEF o, m
<1>4. ASSUME NEW c \in Int, Cong(b, c * t.pace, m) PROVE On(o, c, 0)
  <2>1. PICK x \in Int : x = c * t.pace
      BY <1>2
  <2>2. Cong(b % Bar, x, m)
      BY <1>2, <1>4, <2>1, CongChains
  <2>3. x + 0 = x
      BY <2>1
  <2> QED
      BY <1>3, <2>1, <2>2, <2>3 DEF On, m
<1> QED
    BY <1>3, <1>4 DEF o, m

LEMMA PulseIs ==
    ASSUME NEW t \in Songs
    PROVE  /\ clock_pulse(t) \in Songs /\ clock_pulse(t).pace = t.pace
           /\ clock_pulse_counted(t) \in Songs /\ clock_pulse_counted(t).pace = t.pace
<1>1. t.pace \in Paces /\ t.beats \in Int /\ t.anchor \in Int
    BY DEF Songs
<1>2. t.pace \in Nat \ {0} /\ Bar \in Nat \ {0}
    BY <1>1, PaceAssumption, BeatAssumption
<1>3. PastGrid(t) \in Int
    BY <1>1, <1>2 DEF PastGrid
<1>4. ToGrid(t) \in Int
    BY <1>2, <1>3 DEF ToGrid
<1>5. t.beats + ToGrid(t) \in Int /\ t.anchor + t.pace \in Int
    BY <1>1, <1>2, <1>4
<1> QED
    BY <1>5, OnPulseIs DEF clock_pulse, clock_pulse_counted

\* The pulse that is nearer to the next point of the grid than to any other takes the
\* counter there, from before it or from behind.
LEMMA PulseOnBeat ==
    ASSUME NEW t \in Songs, NEW c \in {0, 1}, NEW way \in Int, On(t, c, way),
           t.pace <= 2 * way, 2 * way < 3 * t.pace
    PROVE  On(clock_pulse(t), 1 - c, 0)
<1> DEFINE p == t.pace
           m == 2 * t.pace
           gap == t.beats - t.anchor
           r == IF way < p THEN way ELSE way - p
<1>1. p \in Paces /\ t.beats \in Int /\ t.anchor \in Int
    BY DEF Songs
<1>2. p \in Nat \ {0} /\ m \in Nat \ {0} /\ m = 2 * p /\ gap \in Int
      /\ gap % Bar \in Int /\ Cong(gap % Bar, gap, m)
    BY <1>1, BarIs
<1>3. PICK x \in Int : x = c * p
    BY <1>2
<1>4. Cong(t.anchor, x, m) /\ Cong(t.beats, x + way, m)
    BY <1>3 DEF On
<1>5. t.pace = p /\ gap = t.beats - t.anchor /\ p <= 2 * way /\ 2 * way < 3 * p
    OBVIOUS
<1> HIDE DEF p, m, gap
<1>6. Cong(gap, way, m)
  <2>1. PICK i \in Int : t.anchor = x + i * m
      BY <1>4 DEF Cong
  <2>2. PICK j \in Int : t.beats = x + way + j * m
      BY <1>4 DEF Cong
  <2>3. PICK e \in Int : e = j - i
      OBVIOUS
  <2>4. e * m = j * m - i * m /\ i * m \in Int /\ j * m \in Int
      BY <1>2, <2>3
  <2>5. gap = way + e * m
      BY <1>5, <2>1, <2>2, <2>4
  <2> QED
      BY <2>5 DEF Cong
<1>7. r \in 0 .. p - 1 /\ Cong(way, r, p)
  <2>1. CASE way < p
      BY <1>2, <1>5, <2>1, CongSame
  <2>2. CASE ~(way < p)
    <3>1. way = r + 1 * p /\ r \in 0 .. p - 1
        BY <1>2, <1>5, <2>2
    <3> QED
        BY <3>1 DEF Cong
  <2> QED
      BY <2>1, <2>2
<1>8. (gap % Bar) % p = r
  <2>1. Cong(gap % Bar, way, m)
      BY <1>2, <1>6, CongChains
  <2>2. Cong(gap % Bar, way, p)
      BY <1>2, <2>1, CongHalves
  <2>3. Cong(gap % Bar, r, p)
      BY <1>2, <1>7, <2>2, CongChains
  <2> QED
      BY <1>2, <1>7, <2>3, CongIs
<1>9. ToGrid(t) = p - way
  <2>1. PastGrid(t) = r
      BY <1>5, <1>8 DEF PastGrid
  <2>2. ToGrid(t) = IF 2 * r < p THEN -r ELSE p - r
      BY <1>5, <2>1 DEF ToGrid
  <2> QED
      BY <1>2, <1>5, <2>2
<1>10. Cong(t.beats + (p - way), (1 - c) * p, m)
  <2>1. PICK j \in Int : t.beats = x + way + j * m
      BY <1>4 DEF Cong
  <2>2. j * m \in Int /\ (j + 1) * m = j * m + m /\ (j + 1) \in Int
      BY <1>2
  <2>3. CASE c = 0
    <3>1. x = 0 /\ (1 - c) * p = p
        BY <1>2, <1>3, <2>3
    <3>2. t.beats + (p - way) = (1 - c) * p + j * m
        BY <1>2, <2>1, <2>2, <3>1
    <3> QED
        BY <3>2 DEF Cong
  <2>4. CASE c = 1
    <3>1. x = p /\ (1 - c) * p = 0
        BY <1>2, <1>3, <2>4
    <3>2. PICK e \in Int : e = j + 1
        OBVIOUS
    <3>3. t.beats + (p - way) = (1 - c) * p + e * m
        BY <1>2, <2>1, <2>2, <3>1, <3>2
    <3> QED
        BY <3>3 DEF Cong
  <2> QED
      BY <2>3, <2>4
<1> DEFINE b == t.beats + ToGrid(t)
<1>11. b \in Int /\ 1 - c \in Int /\ Cong(b, (1 - c) * t.pace, 2 * t.pace)
    BY <1>1, <1>2, <1>5, <1>9, <1>10
<1> HIDE DEF b
<1>12. On(OnPulse(t, b), 1 - c, 0)
    BY <1>11, OnPulseIs
<1> QED
    BY <1>12 DEF clock_pulse, b

\* The pulse after a restart is one step past the 1, wherever the counter is.
LEMMA CountedOnBeat ==
    ASSUME NEW t \in Songs, t.fresh, t.anchor = 0
    PROVE  On(clock_pulse_counted(t), 1, 0)
<1>1. t.pace \in Paces
    BY DEF Songs
<1>2. t.pace \in Int /\ 2 * t.pace \in Int
    BY <1>1, BarIs
<1>3. t.anchor + t.pace = t.pace /\ 1 * t.pace = t.pace
    BY <1>2
<1>4. Cong(t.pace, 1 * t.pace, 2 * t.pace)
    BY <1>2, <1>3, CongSame
<1>5. On(OnPulse(t, t.pace), 1, 0)
    BY <1>2, <1>4, OnPulseIs
<1> QED
    BY <1>3, <1>5 DEF clock_pulse_counted

LEMMA ResetIs ==
    ASSUME NEW t \in Songs
    PROVE  /\ reset(t) \in Songs /\ reset(t).pace = t.pace
           /\ reset(t).fresh = TRUE /\ reset(t).anchor = 0 /\ On(reset(t), 0, 0)
<1> DEFINE z == reset(t)
<1>1. z \in Songs /\ z.pace = t.pace /\ z.fresh = TRUE /\ z.anchor = 0 /\ z.beats = 0
  <2>1. ASSUME NEW x \in Int, NEW y \in BOOLEAN
        PROVE  LET n == [t EXCEPT !.beats = x, !.anchor = x, !.fresh = y] IN
               n \in Songs /\ n.pace = t.pace /\ n.fresh = y /\ n.anchor = x /\ n.beats = x
      BY DEF Songs
  <2>2. 0 \in Int /\ TRUE \in BOOLEAN
      OBVIOUS
  <2> QED
      BY <2>1, <2>2 DEF reset
<1>2. t.pace \in Int /\ 2 * t.pace \in Int
    BY BarIs DEF Songs
<1> HIDE DEF z
<1>3. Cong(0, 0 * t.pace, 2 * t.pace) /\ Cong(0, 0 * t.pace + 0, 2 * t.pace)
    BY <1>2, CongSame
<1>4. On(z, 0, 0)
    BY <1>1, <1>3 DEF On
<1> QED
    BY <1>1, <1>4 DEF z

LEMMA PaceIs ==
    ASSUME NEW t \in Songs, NEW p \in Paces
    PROVE  set_pace(t, p) \in Songs /\ (p = t.pace => set_pace(t, p) = t)
BY DEF set_pace, Songs

-----------------------------------------------------------------------------
(* The count and the beat.                                                  *)

\* After a restart without a clock the next one's second edge is one step past the 1;
\* while pulses are counted the beat is where they say.
BeatInv ==
    /\ ClockIs(law) /\ song \in Songs /\ prevPhase \in Int
    /\ count \in {None, -1, 0, 1}
    /\ count = -1 => song.fresh = TRUE /\ song.anchor = 0
    /\ count \in {0, 1} =>
          /\ law.running
          /\ On(song, count, (law.valid + 1) * StepOf(law.tempo, song.pace))

LEMMA OffIsNoCount == None \notin {-1, 0, 1}
BY NoneAssumption, CountAssumption

LEMMA WrapIs ==
    ASSUME song \in Songs, prevPhase \in Int
    PROVE  beat_phase(song) \in Int /\ (beat_phase(song) < prevPhase) \in BOOLEAN
<1>1. song.beats \in Int
    BY DEF Songs
<1>2. beat_phase(song) \in Int
    BY <1>1, BeatAssumption DEF beat_phase
<1>3. PICK x \in Int : x = beat_phase(song)
    BY <1>2
<1>4. (x < prevPhase) \in BOOLEAN
    OBVIOUS
<1> QED
    BY <1>3, <1>4

\* One block's count follows its beat, before the block's own move.
LEMMA BlockCounts ==
    ASSUME BeatInv, NEW step \in BOOLEAN, NEW played \in Songs,
           played = Played(song, out', step, law.tempo), played.pace = song.pace,
           ClockIs(law'), out'.age \in Nat,
           out'.pulse => law'.running /\ law'.valid = 0,
           out'.counted => out'.pulse /\ ~law.running,
           law'.running /\ ~out'.pulse =>
              law.running /\ law'.tempo = law.tempo /\ law'.valid = law.valid + 1,
           out'.restart /\ law'.running => out'.age = law'.valid,
           NEW c, c = Counting(out', step, song.pace)
    PROVE  /\ c \in {None, -1, 0, 1}
           /\ c = -1 => played.fresh = TRUE /\ played.anchor = 0
           /\ c \in {0, 1} =>
                 law'.running /\ On(played, c, law'.valid * StepOf(law'.tempo, song.pace))
<1> DEFINE pulsed == IF ~out'.pulse THEN song
                     ELSE IF out'.counted THEN clock_pulse_counted(song) ELSE clock_pulse(song)
           S == StepOf(law.tempo, song.pace)
           T == StepOf(law'.tempo, song.pace)
<1>1. played = IF out'.restart /\ step THEN advance(reset(pulsed), out'.age, law.tempo) ELSE pulsed
    BY DEF Played, Restarted
<1>2. song.pace \in Paces /\ song.pace \in Nat
    BY BarIs, PaceAssumption DEF BeatInv, Songs
<1>3. S \in Int /\ T \in Int /\ law.valid \in Nat /\ law'.valid \in Nat
    BY <1>2, StepIs DEF BeatInv, ClockIs
<1>4. pulsed \in Songs /\ pulsed.pace = song.pace
    BY PulseIs DEF BeatInv
<1>5. 0 * T = 0 /\ 0 * S = 0
    BY <1>3
<1>6. CASE out'.restart /\ step
  <2> DEFINE z == reset(pulsed)
  <2>1. c = IF law'.running THEN 0 ELSE -1
      BY <1>6 DEF Counting
  <2>2. z \in Songs /\ z.pace = song.pace /\ z.fresh = TRUE /\ z.anchor = 0 /\ On(z, 0, 0)
      BY <1>4, ResetIs
  <2> HIDE DEF z, pulsed
  <2>3. played = advance(z, out'.age, law.tempo)
      BY <1>1, <1>6 DEF z
  <2>4. /\ played.fresh = TRUE /\ played.anchor = 0
        /\ On(played, 0, 0 + out'.age * S)
      BY <2>2, <2>3, AdvanceIs DEF BeatInv, ClockIs
  <2>5. ASSUME law'.running PROVE 0 + out'.age * S = law'.valid * T
    <3>1. out'.age = law'.valid
        BY <1>6, <2>5
    <3>2. CASE out'.pulse
        BY <1>5, <3>1, <3>2
    <3>3. CASE ~out'.pulse
        BY <1>3, <2>5, <3>1, <3>3
    <3> QED
        BY <3>2, <3>3
  <2> HIDE DEF S, T
  <2>6. CASE law'.running
      BY <2>1, <2>4, <2>5, <2>6 DEF T
  <2>7. CASE ~law'.running
      BY <2>1, <2>4, <2>7
  <2> QED
      BY <2>6, <2>7
<1>7. CASE ~(out'.restart /\ step) /\ out'.pulse
  <2>1. c = IF out'.counted /\ count = -1 THEN 1
            ELSE IF count \in {0, 1} /\ OnBeat(law.valid + 1, law.tempo, song.pace) THEN 1 - count
            ELSE None
      BY <1>7 DEF Counting
  <2>2. law'.running /\ law'.valid * T = 0
      BY <1>5, <1>7
  <2>3. CASE out'.counted /\ count = -1
    <3>1. played = clock_pulse_counted(song) /\ c = 1
        BY <1>1, <1>7, <2>1, <2>3
    <3>2. On(played, 1, 0)
        BY <2>3, <3>1, CountedOnBeat DEF BeatInv
    <3> HIDE DEF T
    <3> QED
        BY <2>2, <3>1, <3>2 DEF T
  <2>4. CASE ~(out'.counted /\ count = -1) /\ count \in {0, 1} /\ OnBeat(law.valid + 1, law.tempo, song.pace)
    <3>1. law.running /\ On(song, count, (law.valid + 1) * S)
        BY <2>4 DEF BeatInv
    <3>2. played = clock_pulse(song) /\ c = 1 - count
        BY <1>1, <1>7, <2>1, <2>4, <3>1
    <3>3. PICK way \in Int : way = (law.valid + 1) * S
        BY <1>3
    <3>4. (2 * (law.valid + 1)) * S = 2 * way
        BY <1>3, <3>3
    <3>5. song.pace <= 2 * way /\ 2 * way < 3 * song.pace
        BY <2>4, <3>4 DEF OnBeat
    <3>6. On(clock_pulse(song), 1 - count, 0)
        BY <2>4, <3>1, <3>3, <3>5, PulseOnBeat DEF BeatInv
    <3>7. 1 - count \in {0, 1} /\ 1 - count # -1
        BY <2>4
    <3> HIDE DEF T
    <3> QED
        BY <2>2, <3>2, <3>6, <3>7 DEF T
  <2>5. CASE ~(out'.counted /\ count = -1) /\ ~(count \in {0, 1} /\ OnBeat(law.valid + 1, law.tempo, song.pace))
      BY <2>1, <2>5, OffIsNoCount
  <2> QED
      BY <2>3, <2>4, <2>5
<1>8. CASE ~(out'.restart /\ step) /\ ~out'.pulse
  <2>1. played = song /\ c = IF law'.running \/ count = -1 THEN count ELSE None
      BY <1>1, <1>8 DEF Counting
  <2>2. CASE c \in {0, 1}
    <3>1. c = count /\ law'.running
        BY <2>1, <2>2, OffIsNoCount
    <3>2. law'.tempo = law.tempo /\ law'.valid = law.valid + 1
        BY <1>8, <3>1
    <3>3. On(song, count, (law.valid + 1) * S)
        BY <2>2, <3>1 DEF BeatInv
    <3>4. On(song, count, law'.valid * T)
        BY <3>2, <3>3
    <3> HIDE DEF S, T
    <3> QED
        BY <2>1, <2>2, <3>1, <3>4 DEF T
  <2>3. CASE c = -1
      BY <2>1, <2>3, OffIsNoCount DEF BeatInv
  <2>4. c \in {None, -1, 0, 1}
      BY <2>1 DEF BeatInv
  <2> QED
      BY <2>2, <2>3, <2>4
<1> QED
    BY <1>6, <1>7, <1>8

LEMMA PlayedIs ==
    ASSUME NEW t \in Songs, NEW o, NEW step, NEW tempo, TempoIs(tempo), o.age \in Nat
    PROVE  Played(t, o, step, tempo) \in Songs /\ Played(t, o, step, tempo).pace = t.pace
<1> DEFINE pulsed == IF ~o.pulse THEN t
                     ELSE IF o.counted THEN clock_pulse_counted(t) ELSE clock_pulse(t)
<1>1. pulsed \in Songs /\ pulsed.pace = t.pace
    BY PulseIs
<1>2. Played(t, o, step, tempo) =
          IF o.restart /\ step THEN advance(reset(pulsed), o.age, tempo) ELSE pulsed
    BY DEF Played, Restarted
<1> HIDE DEF pulsed
<1>3. reset(pulsed) \in Songs /\ reset(pulsed).pace = t.pace
    BY <1>1, ResetIs
<1>4. advance(reset(pulsed), o.age, tempo) \in Songs /\ advance(reset(pulsed), o.age, tempo).pace = t.pace
    BY <1>3, AdvanceIs
<1> QED
    BY <1>1, <1>2, <1>4

LEMMA BeatBlock ==
    ASSUME BeatInv, NEW k \in Knobs, NEW p \in Paces, NEW step \in BOOLEAN, SongBlock(k, p, step)
    PROVE  BeatInv'
<1> DEFINE played == Played(song, out', step, law.tempo)
           paced  == set_pace(played, p)
<1>1. /\ ClockIs(law') /\ out'.age \in Nat
      /\ out'.pulse => law'.running /\ law'.valid = 0
      /\ out'.counted => out'.pulse /\ ~law.running
      /\ law'.running /\ ~out'.pulse =>
            law.running /\ law'.tempo = law.tempo /\ law'.valid = law.valid + 1
      /\ out'.restart /\ law'.running => out'.age = law'.valid
  <2>1. Law("clock" \in seen, "reset" \in seen, k, beat_phase(song) < prevPhase)
      BY DEF SongBlock, Block
  <2>2. /\ (beat_phase(song) < prevPhase) \in BOOLEAN
        /\ ("clock" \in seen) \in BOOLEAN /\ ("reset" \in seen) \in BOOLEAN
      BY WrapIs DEF BeatInv
  <2> QED
      BY <2>1, <2>2, LawRuns DEF BeatInv
<1>2. played \in Songs /\ played.pace = song.pace
    BY <1>1, PlayedIs DEF BeatInv, ClockIs
<1>3. paced \in Songs /\ (p = song.pace => paced = played)
    BY <1>2, PaceIs
<1>4. song' = advance(paced, 1, law'.tempo) /\ prevPhase' = beat_phase(song)
      /\ count' = Counting(out', step, p)
    BY DEF SongBlock, tick
<1>5. prevPhase' \in Int
    BY <1>4, WrapIs DEF BeatInv
<1>6. p = song.pace =>
          /\ count' \in {None, -1, 0, 1}
          /\ count' = -1 => played.fresh = TRUE /\ played.anchor = 0
          /\ count' \in {0, 1} =>
                law'.running /\ On(played, count', law'.valid * StepOf(law'.tempo, song.pace))
    BY <1>1, <1>2, <1>4, BlockCounts
<1> HIDE DEF played, paced
<1>7. /\ song' \in Songs /\ song'.pace = paced.pace /\ song'.fresh = paced.fresh
      /\ song'.anchor = paced.anchor
      /\ \A c, way \in Int :
            On(paced, c, way) => On(song', c, way + 1 * StepOf(law'.tempo, paced.pace))
    BY <1>1, <1>3, <1>4, AdvanceIs DEF ClockIs
<1>8. CASE p # song.pace
  <2>1. count' = None
      BY <1>4, <1>8 DEF Counting
  <2> QED
      BY <1>1, <1>5, <1>7, <2>1, OffIsNoCount DEF BeatInv
<1>9. CASE p = song.pace
  <2>1. paced = played /\ paced.pace = song.pace /\ song'.pace = song.pace /\ song.pace \in Paces
      BY <1>2, <1>3, <1>7, <1>9
  <2>2. ASSUME count' \in {0, 1}
        PROVE  On(song', count', (law'.valid + 1) * StepOf(law'.tempo, song'.pace))
    <3>1. PICK T \in Int : T = StepOf(law'.tempo, song.pace)
        BY <1>1, <2>1, StepIs DEF ClockIs
    <3>2. law'.valid \in Nat /\ count' \in Int
        BY <1>1, <2>2 DEF ClockIs
    <3>3. PICK way \in Int : way = law'.valid * T
        BY <3>1, <3>2
    <3>4. On(paced, count', way)
        BY <1>6, <1>9, <2>1, <2>2, <3>1, <3>3
    <3>5. On(song', count', way + 1 * T)
        BY <1>7, <2>1, <3>1, <3>2, <3>4
    <3>6. way + 1 * T = (law'.valid + 1) * T
        BY <3>1, <3>2, <3>3
    <3> QED
        BY <2>1, <3>1, <3>5, <3>6
  <2> QED
      BY <1>1, <1>5, <1>6, <1>7, <1>9, <2>1, <2>2 DEF BeatInv
<1> QED
    BY <1>8, <1>9

LEMMA BeatInvariant == SongSpec => []BeatInv
<1>1. SongInit => BeatInv
  <2> SUFFICES ASSUME SongInit PROVE BeatInv
      OBVIOUS
  <2>1. ClockIs(law)
      BY DEF SongInit, JackInit, Init, ClockIs, IsLaw, Fields, TempoIs
  <2>2. song \in Songs
    <3>1. PICK p \in Paces : song = AtStart(p)
        BY DEF SongInit
    <3>2. 0 \in Int /\ FALSE \in BOOLEAN
        OBVIOUS
    <3>3. \A x \in Int, y \in BOOLEAN : [beats |-> x, anchor |-> x, fresh |-> y, pace |-> p] \in Songs
        BY DEF Songs
    <3> QED
        BY <3>1, <3>2, <3>3 DEF AtStart
  <2> QED
      BY <2>1, <2>2, OffIsNoCount DEF SongInit, BeatInv
<1>2. BeatInv /\ [SongNext]_songVars => BeatInv'
  <2> SUFFICES ASSUME BeatInv, [SongNext]_songVars PROVE BeatInv'
      OBVIOUS
  <2>1. ASSUME UNCHANGED <<law, song, prevPhase, count>> PROVE BeatInv'
      BY <2>1 DEF BeatInv, ClockIs, IsLaw, TempoIs, On, Cong
  <2>2. ASSUME NEW line \in Lines, Edge(line), Still PROVE BeatInv'
      BY <2>1, <2>2 DEF Edge, Still
  <2>3. CASE Read /\ Still
      BY <2>1, <2>3 DEF Read, Still
  <2>4. CASE AnySongBlock
      BY <2>4, BeatBlock DEF AnySongBlock
  <2>5. CASE Resync
    <3>1. song' \in Songs /\ count' = None /\ UNCHANGED <<law, prevPhase>>
        BY <2>5, ResetIs DEF Resync, BeatInv
    <3> QED
        BY <3>1, OffIsNoCount DEF BeatInv
  <2>6. CASE UNCHANGED songVars
      BY <2>1, <2>6 DEF songVars
  <2> QED
      BY <2>2, <2>3, <2>4, <2>5, <2>6 DEF SongNext, SongCallback
<1> QED
    BY <1>1, <1>2, PTL DEF SongSpec

\* However pulses, resets and restarts of the clock fall, the beat is where the clock
\* says: at the pulse's point of the grid and past it by the time since (the clock
\* step of panel_scan_tick(), Transport::clock_pulse(), clock_pulse_counted() and
\* reset(), Instrument::restart()).
THEOREM BeatsCountThePulses == SongSpec => []BeatCountsPulses
<1>1. BeatInv => BeatCountsPulses
  <2> SUFFICES ASSUME BeatInv, count \in {0, 1}
               PROVE  law.running /\
                      (song.beats - count * song.pace
                          - (law.valid + 1) * StepOf(law.tempo, song.pace)) % (2 * song.pace) = 0
      BY DEF BeatCountsPulses
  <2> DEFINE m == 2 * song.pace
             way == (law.valid + 1) * StepOf(law.tempo, song.pace)
  <2>1. law.running /\ Cong(song.beats, count * song.pace + way, m)
      BY DEF BeatInv, On
  <2>2. song.pace \in Int /\ m \in Nat \ {0} /\ way \in Int /\ song.beats \in Int
    <3>1. song.pace \in Paces /\ song.beats \in Int /\ law.valid \in Nat /\ TempoIs(law.tempo)
        BY DEF BeatInv, Songs, ClockIs
    <3>2. StepOf(law.tempo, song.pace) \in Int
        BY <3>1, StepIs
    <3> QED
        BY <3>1, <3>2, BarIs
  <2> HIDE DEF m, way
  <2>3. PICK q \in Int : song.beats = count * song.pace + way + q * m
      BY <2>1 DEF Cong
  <2>4. q * m \in Int /\ count * song.pace \in Int
      BY <2>2
  <2>5. PICK x : x = song.beats - count * song.pace - way
      OBVIOUS
  <2>6. x = q * m + 0 /\ 0 \in 0 .. m - 1
      BY <2>2, <2>3, <2>4, <2>5
  <2>7. x % m = 0
      BY <2>2, <2>6, ResidueIs
  <2> QED
      BY <2>1, <2>5, <2>7 DEF m, way
<1> QED
    BY <1>1, BeatInvariant, PTL

\* What divides without a rest.
LEMMA ExactIs ==
    ASSUME NEW u \in Nat \ {0}, NEW x \in Nat, x % u = 0
    PROVE  x \div u \in Nat /\ (x \div u) * u = x
<1> DEFINE p == x \div u
           r == x % u
<1>1. p \in Int /\ x = p * u + r /\ r = 0
    OBVIOUS
<1> HIDE DEF p, r
<1>2. p * u \in Int
    BY <1>1
<1>3. x = p * u
    BY <1>1, <1>2
<1>4. (-1) * u < p * u
    BY <1>2, <1>3
<1>5. -1 < p
    BY <1>1, <1>4, Unscaled
<1> QED
    BY <1>1, <1>3, <1>5 DEF p

\* A pulse in the band of the tempo is on the beat, at the band of the code (1.2 is less
\* than one and a half): the count goes off for none of them.
THEOREM InBandIsOnBeat ==
    ASSUME 2 * BandNum < 3 * BandDen,
           NEW tempo, TempoIs(tempo), tempo # KnobTempo, NEW pace \in Paces,
           (pace * tempo.n) % tempo.sum = 0,
           NEW i \in Nat, Side(i, tempo) = "in"
    PROVE  OnBeat(i, tempo, pace)
<1> DEFINE n == tempo.n
           s == tempo.sum
           S == StepOf(tempo, pace)
<1>1. n \in Nat \ {0} /\ s \in Nat \ {0} /\ pace \in Nat \ {0}
    BY PaceAssumption DEF TempoIs
<1>2. PICK I \in Nat : I = i * n
    BY <1>1
<1>3. BandNum \in Nat /\ BandDen \in Nat \ {0} /\ BandNum > BandDen
    BY BandAssumption
<1>4. I * BandDen <= s * BandNum /\ s * BandDen <= I * BandNum
  <2>1. ~Above(i, tempo) /\ ~Below(i, tempo)
      BY DEF Side
  <2>2. ~(I * BandDen > s * BandNum) /\ ~(I * BandNum < s * BandDen)
      BY <1>2, <2>1 DEF Above, Below
  <2>3. I * BandDen \in Nat /\ s * BandNum \in Nat /\ I * BandNum \in Nat /\ s * BandDen \in Nat
      BY <1>1, <1>3
  <2> QED
      BY <2>2, <2>3
<1>5. S \in Nat /\ S * s = pace * n
  <2>1. S = (pace * n) \div s
      BY <1>1 DEF StepOf
  <2>2. PICK x \in Nat : x = pace * n /\ x % s = 0
      BY <1>1
  <2> HIDE DEF n, s, S
  <2> QED
      BY <1>1, <2>1, <2>2, ExactIs
<1> HIDE DEF n, s, S
<1>6. s <= 2 * I
  <2>1. SUFFICES ASSUME 2 * I < s PROVE FALSE
      BY <1>1, <1>2
  <2>2. (2 * I) * BandNum < s * BandNum
      BY <1>1, <1>2, <1>3, <2>1, Scaled
  <2>3. PICK d \in Nat : 2 * BandDen = BandNum + d
    <3>1. 2 * BandDen - BandNum \in Nat /\ 2 * BandDen = BandNum + (2 * BandDen - BandNum)
        BY <1>3
    <3> QED
        BY <3>1
  <2>4. s * (2 * BandDen) = s * BandNum + s * d /\ s * (2 * BandDen) = 2 * (s * BandDen)
      BY <1>1, <1>3, <2>3
  <2>5. (2 * I) * BandNum = 2 * (I * BandNum)
      BY <1>2, <1>3
  <2>6. s * BandNum \in Nat /\ s * d \in Nat /\ s * BandDen \in Nat /\ I * BandNum \in Nat
      BY <1>1, <1>2, <1>3, <2>3
  <2> QED
      BY <1>4, <2>2, <2>4, <2>5, <2>6
<1>7. 2 * I < 3 * s
  <2>1. SUFFICES ASSUME 3 * s <= 2 * I PROVE FALSE
      BY <1>1, <1>2
  <2>2. PICK e \in Nat : 2 * I = 3 * s + e
    <3>1. 2 * I - 3 * s \in Nat /\ 2 * I = 3 * s + (2 * I - 3 * s)
        BY <1>1, <1>2, <2>1
    <3> QED
        BY <3>1
  <2>3. PICK d \in Nat \ {0} : 3 * BandDen = 2 * BandNum + d
    <3>1. 3 * BandDen - 2 * BandNum \in Nat \ {0}
          /\ 3 * BandDen = 2 * BandNum + (3 * BandDen - 2 * BandNum)
        BY <1>3
    <3> QED
        BY <3>1
  <2>4. 2 * (I * BandDen) = 3 * (s * BandDen) + e * BandDen
    <3>1. (2 * I) * BandDen = (3 * s + e) * BandDen
        BY <2>2
    <3>2. (2 * I) * BandDen = 2 * (I * BandDen)
        BY <1>2, <1>3
    <3>3. (3 * s + e) * BandDen = 3 * (s * BandDen) + e * BandDen
        BY <1>1, <1>3, <2>2
    <3> QED
        BY <3>1, <3>2, <3>3
  <2>5. 3 * (s * BandDen) = 2 * (s * BandNum) + s * d
    <3>1. s * (3 * BandDen) = s * (2 * BandNum + d)
        BY <2>3
    <3>2. s * (3 * BandDen) = 3 * (s * BandDen)
        BY <1>1, <1>3
    <3>3. s * (2 * BandNum + d) = 2 * (s * BandNum) + s * d
        BY <1>1, <1>3, <2>3
    <3> QED
        BY <3>1, <3>2, <3>3
  <2>6. /\ s * BandNum \in Nat /\ s * BandDen \in Nat /\ I * BandDen \in Nat
        /\ e * BandDen \in Nat /\ s * d \in Nat \ {0}
      BY <1>1, <1>2, <1>3, <2>2, <2>3
  <2> QED
      BY <1>4, <2>4, <2>5, <2>6
<1>8. PICK way \in Nat : way = 2 * i * S
    BY <1>5
<1>9. way * s = (2 * I) * pace
  <2>1. way * s = (2 * i) * (S * s)
      BY <1>1, <1>5, <1>8
  <2>2. (2 * i) * (pace * n) = (2 * (i * n)) * pace
      BY <1>1
  <2> QED
      BY <1>2, <1>5, <2>1, <2>2
<1>10. pace <= way
  <2>1. SUFFICES ASSUME pace > way PROVE FALSE
      BY <1>1, <1>8
  <2>2. pace * s > way * s
      BY <1>1, <1>8, <2>1, Scaled
  <2>3. ~(s * pace > (2 * I) * pace)
      BY <1>1, <1>2, <1>6, Scaled
  <2>4. pace * s = s * pace
      BY <1>1
  <2> QED
      BY <1>9, <2>2, <2>3, <2>4
<1>11. way < 3 * pace
  <2>1. (3 * s) * pace > (2 * I) * pace
      BY <1>1, <1>2, <1>7, Scaled
  <2>2. (3 * s) * pace = (3 * pace) * s
      BY <1>1
  <2>3. way * s < (3 * pace) * s
      BY <1>9, <2>1, <2>2
  <2> QED
      BY <1>1, <1>8, <2>3, Unscaled
<1> QED
    BY <1>8, <1>10, <1>11 DEF OnBeat, S

-----------------------------------------------------------------------------
(* The jacks under the transport.                                           *)

\* With the transport behind them the jacks do what they do on their own: its beat
\* only sets the wrap, which they leave open, and RST is a stutter of theirs.
THEOREM BeatsKeepTheJacks == SongSpec => JackSpec
<1>1. SongInit => JackInit
    BY DEF SongInit
<1>2. BeatInv /\ [SongNext]_songVars => [JackNext]_jackVars
  <2> SUFFICES ASSUME BeatInv, [SongNext]_songVars PROVE [JackNext]_jackVars
      OBVIOUS
  <2>1. ASSUME NEW line \in Lines, Edge(line) PROVE JackNext
      BY <2>1 DEF JackNext
  <2>2. CASE Read
      BY <2>2 DEF JackNext
  <2>3. CASE AnySongBlock
    <3>1. PICK k \in Knobs, p \in Paces, step \in BOOLEAN : SongBlock(k, p, step)
        BY <2>3 DEF AnySongBlock
    <3>2. Block(k, beat_phase(song) < prevPhase)
        BY <3>1 DEF SongBlock
    <3>3. (beat_phase(song) < prevPhase) \in BOOLEAN
        BY WrapIs DEF BeatInv
    <3> QED
        BY <3>2, <3>3 DEF JackNext
  <2>4. CASE Resync
      BY <2>4 DEF Resync, jackVars
  <2>5. CASE UNCHANGED songVars
      BY <2>5 DEF songVars, jackVars
  <2> QED
      BY <2>1, <2>2, <2>3, <2>4, <2>5 DEF SongNext, SongCallback
<1> QED
    BY <1>1, <1>2, BeatInvariant, PTL DEF SongSpec, JackSpec

\* So no edge is lost with the transport behind the jacks either.
THEOREM NoEdgeIsLost == SongSpec => []EdgesAreSeen
BY BeatsKeepTheJacks, EveryEdgeIsSeen

\* With the jacks and the transport around it, too, the law puts every restart of a
\* running clock on a pulse (panel_scan_tick(), ClockLaw::step()).
THEOREM SongRestartsAreOnPulses == SongSpec => []RestartIsOnAPulse
<1> DEFINE Inv == IsLaw(law) /\ RestartIsOnAPulse
<1>1. JackInit => Inv
    BY DEF JackInit, Init, NoOut, IsLaw, Fields, RestartIsOnAPulse
<1>2. Inv /\ [JackNext]_jackVars => Inv'
  <2> SUFFICES ASSUME Inv, [JackNext]_jackVars PROVE Inv'
      OBVIOUS
  <2>1. ASSUME UNCHANGED <<law, out>> PROVE Inv'
      BY <2>1 DEF RestartIsOnAPulse, IsLaw
  <2>2. ASSUME NEW line \in Lines, Edge(line) PROVE Inv'
      BY <2>1, <2>2 DEF Edge
  <2>3. CASE Read
      BY <2>1, <2>3 DEF Read
  <2>4. ASSUME NEW k \in Knobs, NEW wrap \in BOOLEAN, Block(k, wrap) PROVE Inv'
    <3>1. Law("clock" \in seen, "reset" \in seen, k, wrap)
        BY <2>4 DEF Block
    <3>2. ("clock" \in seen) \in BOOLEAN /\ ("reset" \in seen) \in BOOLEAN
        OBVIOUS
    <3> QED
        BY <3>1, <3>2, LawKeeps
  <2>5. CASE UNCHANGED jackVars
      BY <2>1, <2>5 DEF jackVars
  <2> QED
      BY <2>2, <2>3, <2>4, <2>5 DEF JackNext
<1> QED
    BY <1>1, <1>2, BeatsKeepTheJacks, PTL DEF JackSpec

-----------------------------------------------------------------------------
(* The armed reset through the parts of a call.                             *)

LEMMA LossArmed == ASSUME NEW l, IsLaw(l), NEW k PROVE Loss(l, k).armed = l.armed
<1> DEFINE f == forget_edges(l)
<1>1. IsLaw(f) /\ f.armed = l.armed
    BY ForgetIs DEF forget_edges, IsLaw, Fields
<1>2. Loss(l, k) = IF IsLost(l)
                   THEN [f EXCEPT !.running = FALSE, !.valid = 0, !.ref = k] ELSE l
    BY DEF Loss
<1> HIDE DEF f
<1> QED
    BY <1>1, <1>2 DEF IsLaw, Fields

LEMMA MeasuredArmed ==
    ASSUME NEW l, IsLaw(l), NEW ring PROVE Measured(l, ring).armed = l.armed
BY DEF IsLaw, Measured, Fields

LEMMA PeriodArmed == ASSUME NEW l, IsLaw(l), NEW i PROVE Period(l, i).armed = l.armed
<1> DEFINE side == Side(i, Mean(l.ring))
           m == Measured(l, push(l.ring, i))
           a == Measured(l, <<l.pending.period, i>>)
           d == [l EXCEPT !.pending = None]
           h == [l EXCEPT !.pending = [side |-> side, period |-> i]]
           n == [a EXCEPT !.pending = None]
<1>1. m.armed = l.armed /\ IsLaw(a) /\ a.armed = l.armed
    BY MeasuredIs, MeasuredArmed
<1>2. d.armed = l.armed /\ h.armed = l.armed
    BY DEF IsLaw, Fields
<1> HIDE DEF a
<1>3. n.armed = l.armed
    BY <1>1 DEF IsLaw, Fields
<1>4. Period(l, i) \in {m, d, h, n}
    BY DEF Period, InBand, a
<1> HIDE DEF m, d, h, n
<1> QED
    BY <1>1, <1>2, <1>3, <1>4

LEMMA EdgeArmed == ASSUME NEW l, IsLaw(l) PROVE on_edge(l).armed = l.armed
<1> DEFINE i == l.edge
           e == [l EXCEPT !.edge = 0]
           v == [e EXCEPT !.valid = 0]
           s == [e EXCEPT !.running = TRUE, !.valid = 0, !.one = None]
<1>1. IsLaw(e) /\ e.armed = l.armed
    BY DEF IsLaw, Fields
<1>2. on_edge(l) = CASE ~IsPulse(l) -> e
                     [] IsPulse(l) /\ l.running -> Period(v, i)
                     [] IsPulse(l) /\ ~l.running -> Measured(s, push(l.ring, i))
    BY DEF on_edge
<1> HIDE DEF e
<1>3. IsLaw(v) /\ v.armed = l.armed /\ IsLaw(s) /\ s.armed = l.armed
    BY <1>1 DEF IsLaw, Fields
<1> HIDE DEF v, s
<1>4. Period(v, i).armed = l.armed /\ Measured(s, push(l.ring, i)).armed = l.armed
    BY <1>3, PeriodArmed, MeasuredArmed
<1>5. l.running \in BOOLEAN
    BY DEF IsLaw
<1> QED
    BY <1>1, <1>2, <1>4, <1>5

\* A reset the law is given is a restart at once or waits, and waits until it is one.
ResetKept ==
    law.armed \/ ("reset" \in seen /\ seen' = {}) => law'.armed \/ out'.restart

LEMMA LawKeepsResets ==
    ASSUME IsLaw(law), NEW clock \in BOOLEAN, NEW rst \in BOOLEAN, NEW k, NEW wrap \in BOOLEAN,
           Law(clock, rst, k, wrap), law.armed \/ rst
    PROVE  law'.armed \/ out'.restart
<1> DEFINE aged  == Aged(law)
           gone  == Loss(aged, k)
           pulse == clock /\ IsPulse(gone)
           heard == IF clock THEN on_edge(gone) ELSE gone
           held  == KnobTakeover(heard, k)
           fires == IF rst THEN ResetFires(held, pulse)
                    ELSE held.armed /\ ArmedFires(held, pulse, clock, wrap)
           age   == IF rst /\ fires THEN ResetAge(held, pulse) ELSE 0
           kept  == [held EXCEPT !.armed = @ \/ rst]
<1>1. law' = (IF fires THEN restart(held, age) ELSE kept) /\ out'.restart = fires
    BY DEF Law
<1>2. IsLaw(aged) /\ aged.armed = law.armed
    BY AgedIs DEF Aged, IsLaw, Fields
<1>3. IsLaw(gone) /\ gone.armed = law.armed
    BY <1>2, LossIs, LossArmed
<1> HIDE DEF aged, gone
<1>4. IsLaw(heard) /\ heard.armed = law.armed
    BY <1>3, EdgeIs, EdgeArmed
<1> HIDE DEF heard
<1>5. IsLaw(held) /\ held.armed = law.armed
    BY <1>4, TakeoverIs DEF KnobTakeover, IsLaw, Fields
<1> HIDE DEF held
<1>6. kept.armed = (held.armed \/ rst)
    BY <1>5 DEF IsLaw, Fields
<1> HIDE DEF fires, age, kept
<1> QED
    BY <1>1, <1>5, <1>6

\* What a block has read it handles before the next read.
NothingRead == at = "read" => seen = {}

LEMMA ReadsAreHandled == JackSpec => []NothingRead
<1>1. JackInit => NothingRead
    BY DEF JackInit, NothingRead
<1>2. NothingRead /\ [JackNext]_jackVars => NothingRead'
  <2> SUFFICES ASSUME NothingRead, [JackNext]_jackVars PROVE NothingRead'
      OBVIOUS
  <2>1. ASSUME NEW line \in Lines, Edge(line) PROVE NothingRead'
      BY <2>1 DEF Edge, NothingRead
  <2>2. CASE Read
      BY <2>2 DEF Read, NothingRead
  <2>3. ASSUME NEW k \in Knobs, NEW wrap \in BOOLEAN, Block(k, wrap) PROVE NothingRead'
      BY <2>3 DEF Block, NothingRead
  <2>4. CASE UNCHANGED jackVars
      BY <2>4 DEF jackVars, NothingRead
  <2> QED
      BY <2>1, <2>2, <2>3, <2>4 DEF JackNext
<1> QED
    BY <1>1, <1>2, PTL DEF JackSpec

\* No RESET is forgotten, whatever the clock does while it waits: it is a restart in
\* the block that reads it or stays armed until one is (ClockLaw::step(), its reset
\* and armed branches; a lost clock keeps it).
THEOREM ResetsAreKept == SongSpec => [][ResetKept]_songVars
<1>1. BeatInv /\ NothingRead /\ [SongNext]_songVars => [ResetKept]_songVars
  <2> SUFFICES ASSUME BeatInv, NothingRead, SongNext PROVE ResetKept
      OBVIOUS
  <2>1. ASSUME UNCHANGED law, "reset" \in seen => seen' # {} PROVE ResetKept
      BY <2>1 DEF ResetKept
  <2>2. ASSUME NEW line \in Lines, Edge(line) PROVE ResetKept
      BY <2>1, <2>2 DEF Edge
  <2>3. CASE Read
      BY <2>1, <2>3 DEF Read, NothingRead
  <2>4. CASE AnySongBlock
    <3>1. PICK k \in Knobs, p \in Paces, step \in BOOLEAN : SongBlock(k, p, step)
        BY <2>4 DEF AnySongBlock
    <3>2. Law("clock" \in seen, "reset" \in seen, k, beat_phase(song) < prevPhase)
        BY <3>1 DEF SongBlock, Block
    <3>3. /\ (beat_phase(song) < prevPhase) \in BOOLEAN
          /\ ("clock" \in seen) \in BOOLEAN /\ ("reset" \in seen) \in BOOLEAN
        BY WrapIs DEF BeatInv
    <3> QED
        BY <3>2, <3>3, LawKeepsResets DEF BeatInv, ClockIs, ResetKept
  <2>5. CASE Resync
      BY <2>1, <2>5 DEF Resync
  <2> QED
      BY <2>2, <2>3, <2>4, <2>5 DEF SongNext, SongCallback
<1> QED
    BY <1>1, BeatInvariant, ReadsAreHandled, BeatsKeepTheJacks, PTL DEF SongSpec
=============================================================================
