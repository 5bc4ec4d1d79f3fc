------------------------- MODULE RemoteChannelProofs -------------------------
(***************************************************************************)
(* Proofs about the remote command channel, for every alphabet and set of   *)
(* commands, every packet and ring size and wherever the indices wrap.      *)
(***************************************************************************)
EXTENDS RemoteChannel, TLAPS, SequenceTheorems, WellFoundedInduction

-----------------------------------------------------------------------------
(* Numbers.                                                                 *)

\* A nonempty set of naturals has a least element.
LEMMA LeastExists ==
    ASSUME NEW T \in SUBSET Nat, T # {}
    PROVE  \E x \in T : \A y \in T : x <= y
<1> DEFINE R == {p \in Nat \X Nat : p[1] < p[2]}
<1>1. IsWellFoundedOn(R, Nat)
    BY NatLessThanWellFounded, Zenon DEF OpToRel
<1> HIDE DEF R
<1>2. PICK x \in T : \A y \in T : ~(<<y, x>> \in R)
    BY <1>1, WFMin
<1>3. \A y \in T : ~(y < x)
    BY <1>2 DEF R
<1> QED
    BY <1>3

LEMMA Below ==
    ASSUME NEW m \in Int, NEW n \in Int, NEW u \in Nat \ {0}, m * u < n * u
    PROVE  m < n
<1> SUFFICES ASSUME m >= n PROVE FALSE
    OBVIOUS
<1> DEFINE d == m - n
<1>1. d \in Nat /\ m = n + d
    OBVIOUS
<1> HIDE DEF d
<1>2. m * u = n * u + d * u /\ d * u \in Nat /\ n * u \in Int
    BY <1>1
<1> QED
    BY <1>2

LEMMA ResidueIs ==
    ASSUME NEW u \in Nat \ {0}, NEW q \in Int, NEW r \in 0 .. u - 1, NEW x, x = q * u + r
    PROVE  x % u = r
<1> DEFINE p == x \div u
           s == x % u
<1>1. x \in Int
    OBVIOUS
<1>2. p \in Int /\ s \in 0 .. u - 1 /\ x = p * u + s
    BY <1>1
<1> HIDE DEF p, s
<1>3. p * u \in Int /\ q * u \in Int /\ (p + 1) * u = p * u + u /\ (q + 1) * u = q * u + u
    BY <1>2
<1>4. q * u < (p + 1) * u /\ p * u < (q + 1) * u
    BY <1>2, <1>3
<1>5. q < p + 1 /\ p < q + 1
    BY <1>2, <1>4, Below
<1>6. p = q
    BY <1>2, <1>5
<1>7. s = r
    BY <1>2, <1>3, <1>6
<1> QED
    BY <1>7 DEF s

\* An index that leaves its range by less than the range comes in at the other end.
LEMMA WrapsRound ==
    ASSUME NEW d \in Int, NEW e \in 0 .. Wrap - 1, d = e \/ d = e - Wrap \/ d = e + Wrap
    PROVE  d % Wrap = e
<1>1. Wrap \in Nat \ {0}
    BY SizeAssumption, WrapAssumption
<1>2. d = 0 * Wrap + e \/ d = (-1) * Wrap + e \/ d = 1 * Wrap + e
    BY <1>1
<1>3. PICK j \in Int : d = j * Wrap + e
    BY <1>2
<1> QED
    BY <1>1, <1>3, ResidueIs

\* The indices wrap at whole rounds of the slots.
LEMMA SameSlot == ASSUME NEW x \in Int PROVE (x + Wrap) % Capacity = x % Capacity
<1> DEFINE j == Wrap \div Capacity
           q == x \div Capacity
           r == x % Capacity
<1>1. j \in Int /\ Wrap = j * Capacity
  <2>1. j \in Int /\ Wrap = j * Capacity + (Wrap % Capacity)
      BY WrapAssumption, SizeAssumption
  <2>2. j * Capacity \in Int
      BY <2>1, SizeAssumption
  <2> HIDE DEF j
  <2> QED
      BY <2>1, <2>2, WrapAssumption
<1>2. q \in Int /\ r \in 0 .. Capacity - 1 /\ x = q * Capacity + r
    BY SizeAssumption
<1> HIDE DEF j, q, r
<1>3. x + Wrap = (q + j) * Capacity + r
  <2>1. (q + j) * Capacity = q * Capacity + j * Capacity
      BY <1>1, <1>2, SizeAssumption
  <2>2. q * Capacity \in Int /\ j * Capacity \in Int
      BY <1>1, <1>2, SizeAssumption
  <2> QED
      BY <1>1, <1>2, <2>1, <2>2
<1>4. (x + Wrap) % Capacity = r
    BY <1>1, <1>2, <1>3, ResidueIs, SizeAssumption
<1> QED
    BY <1>4 DEF r

\* Fewer places than there are slots are in different ones.
LEMMA OtherSlot ==
    ASSUME NEW x \in Int, NEW d \in 1 .. Capacity - 1
    PROVE  (x + d) % Capacity # x % Capacity
<1> DEFINE q == x \div Capacity
           r == x % Capacity
<1>1. q \in Int /\ r \in 0 .. Capacity - 1 /\ x = q * Capacity + r
    BY SizeAssumption
<1> HIDE DEF q, r
<1>2. q * Capacity \in Int /\ (q + 1) * Capacity = q * Capacity + Capacity /\ Capacity \in Nat \ {0}
    BY <1>1, SizeAssumption
<1>3. CASE r + d < Capacity
  <2>1. x + d = q * Capacity + (r + d) /\ r + d \in 0 .. Capacity - 1
      BY <1>1, <1>2, <1>3
  <2>2. (x + d) % Capacity = r + d
    <3>1. PICK e \in 0 .. Capacity - 1, y \in Int : e = r + d /\ y = x + d
        BY <1>1, <2>1
    <3>2. y = q * Capacity + e
        BY <2>1, <3>1
    <3>3. y % Capacity = e
        BY <1>1, <1>2, <3>2, ResidueIs
    <3> QED
        BY <3>1, <3>3
  <2> QED
      BY <1>1, <2>2 DEF r
<1>4. CASE r + d >= Capacity
  <2>1. PICK p \in Int, e \in 0 .. Capacity - 1 : x + d = p * Capacity + e /\ e = r + d - Capacity
    <3>1. x + d = (q + 1) * Capacity + (r + d - Capacity) /\ r + d - Capacity \in 0 .. Capacity - 1
          /\ q + 1 \in Int
        BY <1>1, <1>2, <1>4
    <3> QED
        BY <3>1
  <2>2. (x + d) % Capacity = e
      BY <1>2, <2>1, ResidueIs
  <2> QED
      BY <1>1, <1>2, <2>1, <2>2 DEF r
<1> QED
    BY <1>1, <1>3, <1>4, SizeAssumption

-----------------------------------------------------------------------------
(* The ring.                                                                *)

Slots == [0 .. Capacity - 1 -> Commands \cup {None}]
Indices == 0 .. Wrap - 1

\* The commands between the two indices.
QueueOf(s, h, t) == [k \in 1 .. (h - t) % Wrap |-> s[(t + k - 1) % Capacity]]

LEMMA SizesAre ==
    /\ Capacity \in Nat \ {0} /\ Wrap \in Nat \ {0} /\ Capacity < Wrap
    /\ \A x \in Int : x % Capacity \in 0 .. Capacity - 1 /\ x % Wrap \in Indices
BY SizeAssumption, WrapAssumption DEF Indices

\* The distance between two indices, and what it is when one of them moves on.
LEMMA DistanceIs ==
    ASSUME NEW h \in Indices, NEW t \in Indices, NEW n, n = (h - t) % Wrap
    PROVE  n \in Nat /\ n < Wrap /\ (h = t + n \/ h + Wrap = t + n) /\ (h = t <=> n = 0)
<1>1. /\ h \in Nat /\ t \in Nat /\ h < Wrap /\ t < Wrap /\ Wrap \in Nat \ {0}
    BY SizesAre DEF Indices
<1>2. PICK d \in Int, e \in 0 .. Wrap - 1 : d = h - t /\ e = IF h >= t THEN d ELSE d + Wrap
  <2>1. h - t \in Int /\ (h >= t => h - t \in 0 .. Wrap - 1) /\ (h < t => h - t + Wrap \in 0 .. Wrap - 1)
      BY <1>1
  <2> QED
      BY <1>1, <2>1
<1>3. d % Wrap = e
    BY <1>1, <1>2, WrapsRound
<1>4. n = e
    BY <1>2, <1>3
<1> QED
    BY <1>1, <1>2, <1>4

LEMMA DistanceIsOnly ==
    ASSUME NEW h \in Indices, NEW t \in Indices, NEW n \in Nat, n < Wrap,
           h = t + n \/ h + Wrap = t + n
    PROVE  (h - t) % Wrap = n
<1>1. /\ h \in Nat /\ t \in Nat /\ h < Wrap /\ t < Wrap /\ Wrap \in Nat \ {0}
    BY SizesAre DEF Indices
<1>2. PICK d \in Int : d = h - t /\ (d = n \/ d = n - Wrap) /\ n \in 0 .. Wrap - 1
    BY <1>1
<1>3. d % Wrap = n
    BY <1>1, <1>2, WrapsRound
<1> QED
    BY <1>2, <1>3

LEMMA MovedOn ==
    ASSUME NEW h \in Indices
    PROVE  (h + 1) % Wrap = (IF h + 1 = Wrap THEN 0 ELSE h + 1) /\ (h + 1) % Wrap \in Indices
<1>1. /\ h \in Nat /\ h < Wrap /\ Wrap \in Nat \ {0}
    BY SizesAre DEF Indices
<1>2. PICK g \in Int, e \in 0 .. Wrap - 1 : g = h + 1 /\ e = IF g = Wrap THEN 0 ELSE g
  <2>1. h + 1 \in Int /\ (h + 1 # Wrap => h + 1 \in 0 .. Wrap - 1) /\ 0 \in 0 .. Wrap - 1
      BY <1>1
  <2> QED
      BY <2>1
<1>3. g % Wrap = e
    BY <1>1, <1>2, WrapsRound
<1> QED
    BY <1>1, <1>2, <1>3 DEF Indices

LEMMA IsSequence ==
    ASSUME NEW S, NEW n \in Nat, NEW f \in [1 .. n -> S]
    PROVE  f \in Seq(S) /\ Len(f) = n /\ DOMAIN f = 1 .. n
OBVIOUS

\* A command is put at the end of the queue, where there is room.
Pushes(s, h, t, c, z, g) ==
    /\ QueueOf(s, h, t) \in Seq(Commands) /\ (h - t) % Wrap < Capacity
    /\ z = [s EXCEPT ![h % Capacity] = c] /\ g = (h + 1) % Wrap

LEMMA PushedIs ==
    ASSUME NEW s \in Slots, NEW h \in Indices, NEW t \in Indices, NEW c \in Commands,
           NEW z, NEW g, Pushes(s, h, t, c, z, g)
    PROVE  /\ z \in Slots /\ g \in Indices
           /\ (g - t) % Wrap = ((h - t) % Wrap) + 1
           /\ QueueOf(z, g, t) = Append(QueueOf(s, h, t), c)
<1>1. /\ h \in Nat /\ t \in Nat /\ h < Wrap /\ t < Wrap
      /\ Wrap \in Nat \ {0} /\ Capacity \in Nat \ {0} /\ Capacity < Wrap
    BY SizesAre DEF Indices
<1>2. PICK n : n = (h - t) % Wrap
    OBVIOUS
<1> USE DEF Pushes
<1>3. n \in Nat /\ n < Capacity /\ (h = t + n \/ h + Wrap = t + n)
    BY <1>2, DistanceIs
<1>4. z \in Slots /\ g \in Indices /\ g = IF h + 1 = Wrap THEN 0 ELSE h + 1
    BY <1>1, SizesAre, MovedOn DEF Slots
<1>5. (g - t) % Wrap = n + 1
  <2>1. g = t + (n + 1) \/ g + Wrap = t + (n + 1)
      BY <1>1, <1>3, <1>4
  <2>2. n + 1 \in Nat /\ n + 1 < Wrap
      BY <1>1, <1>3
  <2> QED
      BY <1>4, <2>1, <2>2, DistanceIsOnly
<1>6. h % Capacity = (t + n) % Capacity
  <2>1. CASE h = t + n
      BY <2>1
  <2>2. CASE h + Wrap = t + n
      BY <1>1, <2>2, SameSlot
  <2> QED
      BY <1>3, <2>1, <2>2
<1>7. ASSUME NEW k \in 1 .. n PROVE z[(t + k - 1) % Capacity] = s[(t + k - 1) % Capacity]
  <2>1. PICK x \in Int, d \in 1 .. Capacity - 1 : x = t + k - 1 /\ x + d = t + n
    <3>1. t + k - 1 \in Int /\ n - k + 1 \in Nat \ {0}
          /\ (t + k - 1) + (n - k + 1) = t + n /\ n - k + 1 <= n
        BY <1>1, <1>3
    <3> QED
        BY <1>1, <1>3, <3>1
  <2>2. x % Capacity # h % Capacity /\ x % Capacity \in 0 .. Capacity - 1
      BY <1>6, <2>1, OtherSlot, SizesAre
  <2> QED
      BY <2>1, <2>2 DEF Slots
<1>8. z[(t + n) % Capacity] = c
  <2>1. h % Capacity \in 0 .. Capacity - 1
      BY <1>1, SizesAre
  <2>2. z[h % Capacity] = c
      BY <2>1 DEF Slots
  <2> QED
      BY <1>6, <2>2
<1> DEFINE q == QueueOf(s, h, t)
           p == QueueOf(z, g, t)
<1>9. /\ q = [k \in 1 .. n |-> s[(t + k - 1) % Capacity]]
      /\ p = [k \in 1 .. n + 1 |-> z[(t + k - 1) % Capacity]]
    BY <1>2, <1>5 DEF QueueOf
<1>10. q \in Seq(Commands) /\ Len(q) = n
    BY <1>3, <1>9
<1> HIDE DEF q, p
<1>11. \A k \in 1 .. n + 1 : p[k] = IF k = n + 1 THEN c ELSE q[k]
  <2>1. t + (n + 1) - 1 = t + n
      BY <1>1, <1>3
  <2>2. p[n + 1] = c
      BY <1>3, <1>8, <1>9, <2>1
  <2>3. \A k \in 1 .. n : p[k] = q[k]
      BY <1>3, <1>7, <1>9
  <2> QED
      BY <1>3, <2>2, <2>3
<1>12. p \in Seq(Commands) /\ Len(p) = n + 1
  <2>1. \A k \in 1 .. n : q[k] \in Commands
      BY <1>3, <1>10
  <2>2. \A k \in 1 .. n + 1 : p[k] \in Commands
      BY <1>3, <1>11, <2>1
  <2>3. p \in [1 .. n + 1 -> Commands] /\ n + 1 \in Nat
      BY <1>3, <1>9, <2>2
  <2> QED
      BY <2>3, IsSequence
<1>13. p = Append(q, c)
  <2> DEFINE r == Append(q, c)
  <2>1. r \in Seq(Commands) /\ Len(r) = n + 1 /\ (\A k \in 1 .. n : r[k] = q[k]) /\ r[n + 1] = c
      BY <1>3, <1>10, AppendProperties
  <2> HIDE DEF r
  <2>2. \A k \in 1 .. Len(p) : p[k] = r[k]
    <3>1. Len(p) = n + 1 /\ \A k \in 1 .. n + 1 : k \in 1 .. n \/ k = n + 1
        BY <1>3, <1>12
    <3>2. \A k \in 1 .. n + 1 : p[k] = r[k]
        BY <1>11, <2>1, <3>1
    <3> QED
        BY <3>1, <3>2
  <2>3. p = r
      BY <1>12, <2>1, <2>2, SeqEqual
  <2> QED
      BY <2>3 DEF r
<1> QED
    BY <1>2, <1>4, <1>5, <1>13 DEF p, q

\* The oldest command is taken from its front.
LEMMA PoppedIs ==
    ASSUME NEW s \in Slots, NEW h \in Indices, NEW t \in Indices,
           QueueOf(s, h, t) \in Seq(Commands), (h - t) % Wrap # 0, NEW u, u = (t + 1) % Wrap
    PROVE  /\ u \in Indices /\ (h - u) % Wrap = ((h - t) % Wrap) - 1
           /\ QueueOf(s, h, t) # <<>> /\ QueueOf(s, h, u) = Tail(QueueOf(s, h, t))
<1>1. /\ h \in Nat /\ t \in Nat /\ h < Wrap /\ t < Wrap
      /\ Wrap \in Nat \ {0} /\ Capacity \in Nat \ {0} /\ Capacity < Wrap
    BY SizesAre DEF Indices
<1>2. PICK n : n = (h - t) % Wrap
    OBVIOUS
<1>3. n \in Nat /\ n # 0 /\ n < Wrap /\ (h = t + n \/ h + Wrap = t + n)
    BY <1>2, DistanceIs
<1>4. u \in Indices /\ u = IF t + 1 = Wrap THEN 0 ELSE t + 1
    BY MovedOn
<1>5. (h - u) % Wrap = n - 1
  <2>1. h = u + (n - 1) \/ h + Wrap = u + (n - 1)
      BY <1>1, <1>3, <1>4
  <2>2. n - 1 \in Nat /\ n - 1 < Wrap
      BY <1>1, <1>3
  <2> QED
      BY <1>4, <2>1, <2>2, DistanceIsOnly
<1>6. ASSUME NEW k \in 1 .. n - 1
      PROVE  (u + k - 1) % Capacity = (t + (k + 1) - 1) % Capacity
  <2>1. CASE u = t + 1
    <3>1. u + k - 1 = t + (k + 1) - 1
        BY <1>1, <1>3, <2>1
    <3> QED
        BY <3>1
  <2>2. CASE u = 0 /\ t + 1 = Wrap
    <3>1. t + (k + 1) - 1 = (u + k - 1) + Wrap /\ u + k - 1 \in Int
        BY <1>1, <1>3, <2>2
    <3> QED
        BY <3>1, SameSlot
  <2> QED
      BY <1>4, <2>1, <2>2
<1> DEFINE q == QueueOf(s, h, t)
           p == QueueOf(s, h, u)
<1>7. /\ q = [k \in 1 .. n |-> s[(t + k - 1) % Capacity]]
      /\ p = [k \in 1 .. n - 1 |-> s[(u + k - 1) % Capacity]]
    BY <1>2, <1>5 DEF QueueOf
<1>8. q \in Seq(Commands) /\ Len(q) = n /\ q # <<>>
    BY <1>3, <1>7
<1> HIDE DEF q, p
<1>9. Tail(q) \in Seq(Commands) /\ Len(Tail(q)) = n - 1 /\ \A k \in 1 .. n - 1 : Tail(q)[k] = q[k + 1]
    BY <1>3, <1>8, HeadTailProperties
<1>10. ASSUME NEW k \in 1 .. n - 1 PROVE q[k + 1] = p[k]
  <2>1. k + 1 \in 1 .. n
      BY <1>3
  <2>2. q[k + 1] = s[(t + (k + 1) - 1) % Capacity]
      BY <1>7, <2>1
  <2> QED
      BY <1>6, <1>7, <2>2
<1>11. p \in Seq(Commands) /\ Len(p) = n - 1
  <2>1. \A k \in 1 .. n - 1 : q[k + 1] \in Commands
      BY <1>3, <1>8
  <2>2. \A k \in 1 .. n - 1 : p[k] \in Commands
      BY <1>10, <2>1
  <2>3. n - 1 \in Nat
      BY <1>3
  <2>4. p \in [1 .. n - 1 -> Commands]
      BY <1>7, <2>2
  <2> QED
      BY <2>3, <2>4, IsSequence
<1>12. p = Tail(q)
    BY <1>9, <1>10, <1>11, SeqEqual
<1> QED
    BY <1>2, <1>4, <1>5, <1>8, <1>12 DEF q, p

-----------------------------------------------------------------------------
(* Places in their order.                                                   *)

Lists(at, S) ==
    /\ at \in Seq(S)
    /\ \A i, j \in DOMAIN at : i < j => at[i] < at[j]
    /\ \A e \in S : \E i \in DOMAIN at : at[i] = e

LEMMA ListsNone == Lists(<<>>, {})
BY DEF Lists

\* A place after all others comes last.
LEMMA ListsMore ==
    ASSUME NEW S \in SUBSET Nat, NEW at, Lists(at, S), NEW e \in Nat, \A x \in S : x < e
    PROVE  Lists(Append(at, e), S \cup {e})
<1> DEFINE T == S \cup {e}
           b == Append(at, e)
           n == Len(at)
<1>1. at \in Seq(T) /\ at \in Seq(S) /\ n \in Nat /\ DOMAIN at = 1 .. n /\ e \in T
    BY SeqMonotonic DEF Lists
<1>2. b \in Seq(T) /\ Len(b) = n + 1 /\ (\A i \in 1 .. n : b[i] = at[i]) /\ b[n + 1] = e
    BY <1>1, AppendProperties
<1> HIDE DEF b
<1>3. DOMAIN b = 1 .. n + 1
    BY <1>2
<1>4. \A i \in 1 .. n : at[i] \in S
    BY <1>1
<1>5. ASSUME NEW i \in 1 .. n + 1, NEW j \in 1 .. n + 1, i < j PROVE b[i] < b[j]
  <2>1. i \in 1 .. n /\ (j \in 1 .. n \/ j = n + 1)
      BY <1>1, <1>5
  <2>2. CASE j \in 1 .. n
      BY <1>1, <1>2, <1>5, <2>1, <2>2 DEF Lists
  <2>3. CASE j = n + 1
      BY <1>2, <1>4, <2>1, <2>3
  <2> QED
      BY <2>1, <2>2, <2>3
<1>6. ASSUME NEW x \in T PROVE \E i \in 1 .. n + 1 : b[i] = x
  <2>1. CASE x \in S
    <3>1. PICK i \in 1 .. n : at[i] = x
        BY <1>1, <2>1 DEF Lists
    <3>2. i \in 1 .. n + 1 /\ b[i] = x
        BY <1>1, <1>2, <3>1
    <3> QED
        BY <3>2
  <2>2. CASE x = e
      BY <1>1, <1>2, <2>2
  <2> QED
      BY <2>1, <2>2
<1> QED
    BY <1>2, <1>3, <1>5, <1>6 DEF Lists, b

\* Of the places of a list, some in their order.
LEMMA ListsSome ==
    ASSUME NEW S \in SUBSET Nat, NEW at, Lists(at, S),
           NEW K \in SUBSET (1 .. Len(at)), NEW ks, Lists(ks, K)
    PROVE  Lists([i \in 1 .. Len(ks) |-> at[ks[i]]], {at[k] : k \in K})
<1> DEFINE T == {at[k] : k \in K}
           n == Len(ks)
           b == [i \in 1 .. n |-> at[ks[i]]]
<1>1. /\ at \in Seq(S) /\ DOMAIN at = 1 .. Len(at) /\ Len(at) \in Nat
      /\ ks \in Seq(K) /\ DOMAIN ks = 1 .. n /\ n \in Nat
    BY DEF Lists
<1>2. \A i \in 1 .. n : ks[i] \in K /\ ks[i] \in 1 .. Len(at)
    BY <1>1, ElementOfSeq
<1>3. b \in [1 .. n -> T]
    BY <1>2
<1>4. b \in Seq(T) /\ DOMAIN b = 1 .. n
    BY <1>1, <1>3, IsSequence
<1>5. ASSUME NEW i \in 1 .. n, NEW j \in 1 .. n, i < j PROVE b[i] < b[j]
  <2>1. ks[i] < ks[j]
      BY <1>1, <1>5 DEF Lists
  <2>2. at[ks[i]] < at[ks[j]]
      BY <1>1, <1>2, <2>1 DEF Lists
  <2> QED
      BY <2>2
<1>6. ASSUME NEW x \in T PROVE \E i \in 1 .. n : b[i] = x
  <2>1. PICK k \in K : x = at[k]
      OBVIOUS
  <2>2. PICK i \in 1 .. n : ks[i] = k
      BY <1>1 DEF Lists
  <2> QED
      BY <2>1, <2>2
<1> QED
    BY <1>4, <1>5, <1>6 DEF Lists

\* A list is no longer than the last place can be.
LEMMA ListsLength ==
    ASSUME NEW m \in Nat, NEW S \in SUBSET (1 .. m), NEW at, Lists(at, S)
    PROVE  Len(at) <= m
<1> DEFINE n == Len(at)
           T == {k \in 1 .. n : at[k] < k}
<1>1. at \in Seq(S) /\ DOMAIN at = 1 .. n /\ n \in Nat
    BY DEF Lists
<1>2. \A k \in 1 .. n : at[k] \in 1 .. m
    BY <1>1, ElementOfSeq
<1>3. SUFFICES ASSUME T # {} PROVE FALSE
  <2>1. ASSUME n > m PROVE at[n] < n /\ n \in 1 .. n
    <3>1. n \in 1 .. n
        BY <1>1, <2>1
    <3> QED
        BY <1>1, <1>2, <2>1, <3>1
  <2> QED
      BY <1>1, <2>1
<1>4. PICK k \in T : \A j \in T : k <= j
  <2>1. T \in SUBSET Nat
      BY <1>1
  <2> HIDE DEF T
  <2> QED
      BY <1>3, <2>1, LeastExists
<1>5. k \in 1 .. n /\ at[k] < k /\ k - 1 \in 1 .. n
    BY <1>1, <1>2
<1>6. at[k - 1] < at[k]
    BY <1>1, <1>5 DEF Lists
<1>7. k - 1 \notin T
    BY <1>4, <1>5
<1>8. at[k - 1] >= k - 1
    BY <1>2, <1>5, <1>7
<1> QED
    BY <1>2, <1>5, <1>6, <1>8

-----------------------------------------------------------------------------
(* The text since the last newline.                                         *)

Bytes == Letters \cup {Newline}

\* The text typed before a packet.
Typed == IF discarding THEN Overlong ELSE line

LEMMA NoNewlines ==
    ASSUME NEW text \in Seq(Bytes), NEW i \in 1 .. Len(text) + 1, Channel!Newlines(text, i) = {},
           discarding \in BOOLEAN, line \in Seq(Letters)
    PROVE  /\ SubSeq(text, 1, i - 1) \in Seq(Letters)
           /\ Channel!Since(text, i) =
                 IF discarding THEN Overlong ELSE line \o SubSeq(text, 1, i - 1)
           /\ Channel!Since(text, i) \in Seq(Letters) \cup {Overlong}
<1>1. Len(text) \in Nat /\ i \in Int /\ \A n \in 1 .. i - 1 : text[n] \in Bytes
    OBVIOUS
<1>2. \A n \in 1 .. i - 1 : text[n] \in Letters
    BY <1>1 DEF Channel!Newlines, Bytes
<1>3. SubSeq(text, 1, i - 1) \in Seq(Letters)
    BY <1>1, <1>2, SubSeqProperties
<1>4. line # Overlong
    BY NoneAssumption
<1>5. line \o SubSeq(text, 1, i - 1) \in Seq(Letters)
    BY <1>3, ConcatProperties
<1> QED
    BY <1>3, <1>4, <1>5 DEF Channel!Since

LEMMA LastNewline ==
    ASSUME NEW text \in Seq(Bytes), NEW i \in 1 .. Len(text) + 1, NEW n \in Channel!Newlines(text, i),
           \A k \in Channel!Newlines(text, i) : k <= n
    PROVE  /\ Channel!Since(text, i) = SubSeq(text, n + 1, i - 1)
           /\ Channel!Since(text, i) \in Seq(Letters)
<1> DEFINE N == Channel!Newlines(text, i)
<1>1. /\ N \subseteq 1 .. i - 1 /\ i \in Nat /\ i - 1 <= Len(text) /\ Len(text) \in Nat
      /\ \A k \in 1 .. i - 1 : text[k] \in Bytes
    BY DEF Channel!Newlines
<1>2. \A k \in n + 1 .. i - 1 : text[k] \in Letters
  <2>1. \A k \in n + 1 .. i - 1 : k \in 1 .. i - 1 /\ ~(k <= n)
      BY <1>1
  <2> QED
      BY <1>1, <2>1 DEF Channel!Newlines, Bytes
<1>3. SubSeq(text, n + 1, i - 1) \in Seq(Letters)
    BY <1>1, <1>2, SubSeqProperties
<1>4. \A k \in N : (\A j \in N : j <= k) => k = n
    BY <1>1
<1> DEFINE last == CHOOSE k \in N : \A j \in N : j <= k
<1>5. last = n
    BY <1>4
<1>6. Channel!Since(text, i) = SubSeq(text, last + 1, i - 1)
    BY DEF Channel!Since
<1> QED
    BY <1>3, <1>5, <1>6

\* A set of newlines has a last one.
LEMMA LastExists ==
    ASSUME NEW text \in Seq(Bytes), NEW i \in 1 .. Len(text) + 1, Channel!Newlines(text, i) # {}
    PROVE  \E n \in Channel!Newlines(text, i) : \A k \in Channel!Newlines(text, i) : k <= n
<1> DEFINE N == Channel!Newlines(text, i)
           T == {i - n : n \in N}
<1>1. N \subseteq 1 .. i - 1 /\ i \in Nat
    BY DEF Channel!Newlines
<1> HIDE DEF N
<1>2. T \in SUBSET Nat /\ T # {}
    BY <1>1 DEF N
<1>3. PICK t \in T : \A u \in T : t <= u
  <2> HIDE DEF T
  <2> QED
      BY <1>2, LeastExists
<1>4. PICK n \in N : t = i - n
    OBVIOUS
<1>5. ASSUME NEW k \in N PROVE k <= n
  <2>1. i - k \in T
      OBVIOUS
  <2>2. t <= i - k
      BY <1>3, <2>1
  <2> QED
      BY <1>1, <1>4, <2>2
<1> QED
    BY <1>5 DEF N

\* What a byte adds to it.
LEMMA SinceIs ==
    ASSUME NEW text \in Seq(Bytes), discarding \in BOOLEAN, line \in Seq(Letters)
    PROVE  /\ Channel!Since(text, 1) = Typed
           /\ \A i \in 1 .. Len(text) :
                 /\ Channel!Since(text, i) \in Seq(Letters) \cup {Overlong}
                 /\ text[i] = Newline => Channel!Since(text, i + 1) = <<>>
                 /\ text[i] # Newline =>
                       /\ text[i] \in Letters
                       /\ Channel!Since(text, i + 1) =
                             IF Channel!Since(text, i) = Overlong THEN Overlong
                             ELSE Append(Channel!Since(text, i), text[i])
<1>1. Len(text) \in Nat /\ \A i \in 1 .. Len(text) : text[i] \in Bytes
    OBVIOUS
<1>2. Channel!Since(text, 1) = Typed
  <2>1. Channel!Newlines(text, 1) = {} /\ 1 \in 1 .. Len(text) + 1
      BY <1>1 DEF Channel!Newlines
  <2>2. SubSeq(text, 1, 1 - 1) = <<>>
      BY SubSeqEmpty
  <2>3. line \o <<>> = line
      BY ConcatEmptySeq
  <2> QED
      BY <2>1, <2>2, <2>3, NoNewlines DEF Typed
<1>3. ASSUME NEW i \in 1 .. Len(text)
      PROVE  Channel!Since(text, i) \in Seq(Letters) \cup {Overlong}
  <2>1. i \in 1 .. Len(text) + 1
      BY <1>1
  <2> QED
      BY <2>1, NoNewlines, LastNewline, LastExists
<1>4. ASSUME NEW i \in 1 .. Len(text), text[i] = Newline
      PROVE  Channel!Since(text, i + 1) = <<>>
  <2>1. i \in Channel!Newlines(text, i + 1) /\ i + 1 \in 1 .. Len(text) + 1
        /\ \A k \in Channel!Newlines(text, i + 1) : k <= i
      BY <1>1, <1>4 DEF Channel!Newlines
  <2>2. Channel!Since(text, i + 1) = SubSeq(text, i + 1, (i + 1) - 1)
      BY <2>1, LastNewline
  <2>3. SubSeq(text, i + 1, (i + 1) - 1) = <<>>
      BY SubSeqEmpty
  <2> QED
      BY <2>2, <2>3
<1>5. ASSUME NEW i \in 1 .. Len(text), text[i] # Newline
      PROVE  /\ text[i] \in Letters
             /\ Channel!Since(text, i + 1) =
                   IF Channel!Since(text, i) = Overlong THEN Overlong
                   ELSE Append(Channel!Since(text, i), text[i])
  <2>1. text[i] \in Letters
      BY <1>1, <1>5 DEF Bytes
  <2>2. Channel!Newlines(text, i + 1) = Channel!Newlines(text, i)
      BY <1>1, <1>5 DEF Channel!Newlines
  <2>3. i \in 1 .. Len(text) + 1 /\ i + 1 \in 1 .. Len(text) + 1 /\ (i + 1) - 1 = i /\ i \in Nat \ {0}
      BY <1>1
  <2>4. ASSUME NEW m \in 1 .. i PROVE SubSeq(text, m, i) = Append(SubSeq(text, m, i - 1), text[i])
    <3>1. SubSeq(text, m, i) = SubSeq(text, m, i - 1) \o <<text[i]>>
        BY <1>1, SubSeqRecursiveSecond
    <3>2. SubSeq(text, m, i - 1) \in Seq(Bytes) /\ text[i] \in Bytes
      <4>1. \A k \in m .. i - 1 : text[k] \in Bytes
          BY <1>1
      <4> QED
          BY <1>1, <4>1, SubSeqProperties
    <3> QED
        BY <3>1, <3>2, AppendIsConcat
  <2>5. CASE Channel!Newlines(text, i) = {}
    <3> DEFINE x == SubSeq(text, 1, i - 1)
    <3>1. /\ x \in Seq(Letters) /\ line \o x \in Seq(Letters)
          /\ Channel!Since(text, i) = IF discarding THEN Overlong ELSE line \o x
          /\ Channel!Since(text, i + 1) = IF discarding THEN Overlong ELSE line \o SubSeq(text, 1, i)
        BY <2>2, <2>3, <2>5, NoNewlines, ConcatProperties
    <3>2. SubSeq(text, 1, i) = Append(x, text[i])
        BY <2>3, <2>4
    <3> HIDE DEF x
    <3>3. line \o Append(x, text[i]) = Append(line \o x, text[i])
      <4>1. /\ Append(x, text[i]) = x \o <<text[i]>> /\ <<text[i]>> \in Seq(Letters)
            /\ Append(line \o x, text[i]) = (line \o x) \o <<text[i]>>
          BY <2>1, <3>1, AppendIsConcat
      <4> QED
          BY <3>1, <4>1, ConcatAssociative
    <3>4. line \o x # Overlong
        BY <3>1, NoneAssumption
    <3> QED
        BY <2>1, <3>1, <3>2, <3>3, <3>4
  <2>6. CASE Channel!Newlines(text, i) # {}
    <3>1. PICK n \in Channel!Newlines(text, i) : \A k \in Channel!Newlines(text, i) : k <= n
        BY <2>3, <2>6, LastExists
    <3>2. n + 1 \in 1 .. i
        BY <2>3, <3>1 DEF Channel!Newlines
    <3>3. /\ Channel!Since(text, i) = SubSeq(text, n + 1, i - 1)
          /\ Channel!Since(text, i) \in Seq(Letters)
          /\ Channel!Since(text, i + 1) = SubSeq(text, n + 1, i)
        BY <2>2, <2>3, <3>1, LastNewline
    <3>4. Channel!Since(text, i) # Overlong
        BY <3>3, NoneAssumption
    <3> QED
        BY <2>1, <2>4, <3>2, <3>3, <3>4
  <2> QED
      BY <2>5, <2>6
<1> QED
    BY <1>2, <1>3, <1>4, <1>5

-----------------------------------------------------------------------------
(* The bytes of a packet.                                                   *)

Known == Commands \cup {Boot, Ping}
Assemblers == [line : Seq(Letters), discarding : BOOLEAN, out : Seq(Known)]

LEMMA KnownIs ==
    /\ \A c \in Known : c \in Seq(Letters) /\ Len(c) \in 1 .. MaxLine
    /\ Channel!Known = Known /\ Boot \notin Commands /\ Ping \notin Commands /\ Boot # Ping
BY CommandsAssumption DEF Known, Channel!Known

\* A packet has room for one more command, if every command takes at least s letters
\* and a newline and only the first may have begun before the packet.
Room(a, i, s) == Len(a.out) = 0 \/ i >= (Len(a.out) - 1) * (s + 1) + 1 + Len(a.line)

\* What is assembled after i bytes: the line is the text since the last newline, and
\* what is put out are the commands that ended.
Assembled(a, text, i) ==
    /\ a \in Assemblers /\ Len(a.line) <= MaxLine /\ (a.discarding => a.line = <<>>)
    /\ Channel!Held(Channel!Since(text, i + 1)) = IF a.discarding THEN Overlong ELSE a.line
    /\ \E at :
          /\ Lists(at, {e \in Channel!Ends(text) : e <= i})
          /\ a.out = [k \in 1 .. Len(at) |-> Channel!Since(text, at[k])]

Shortest(s) == \A c \in Known : Len(c) >= s

\* A line is the text since the last newline, unless that was too long.
LEMMA HeldIs ==
    ASSUME NEW x \in Seq(Letters) \cup {Overlong}, NEW l \in Seq(Letters), NEW d \in BOOLEAN,
           Channel!Held(x) = IF d THEN Overlong ELSE l
    PROVE  /\ ~d => x = l /\ x \in Seq(Letters) /\ Len(x) <= MaxLine
           /\ d => x = Overlong \/ (x \in Seq(Letters) /\ Len(x) > MaxLine)
           /\ x \in Known <=> ~d /\ l \in Known
<1>1. l # Overlong /\ MaxLine \in Nat
    BY NoneAssumption, SizeAssumption
<1>2. /\ ~d => x = l /\ x \in Seq(Letters) /\ ~(Len(x) > MaxLine)
      /\ d => x = Overlong \/ (x \in Seq(Letters) /\ Len(x) > MaxLine)
    BY <1>1 DEF Channel!Held
<1>3. ~d => Len(x) \in Nat
    BY <1>2
<1>4. d => x \notin Known
  <2>1. ASSUME d, x \in Known PROVE FALSE
    <3>1. x \in Seq(Letters) /\ Len(x) \in 1 .. MaxLine
        BY <2>1, KnownIs
    <3>2. x # Overlong
        BY <3>1, NoneAssumption
    <3> QED
        BY <1>1, <1>2, <2>1, <3>1, <3>2
  <2> QED
      BY <2>1
<1> QED
    BY <1>1, <1>2, <1>3, <1>4

\* A line that ends is put out exactly if it is a command: there is always room.
LEMMA PutOutIs ==
    ASSUME NEW a \in Assemblers, NEW i \in 1 .. PacketBytes, NEW s \in 1 .. MaxLine, Shortest(s),
           PacketBytes <= MaxCmds * (s + 1), Room(a, i - 1, s)
    PROVE  /\ PutOut(a) = IF ~a.discarding /\ a.line \in Known THEN Append(a.out, a.line) ELSE a.out
           /\ Room(EndOfLine(a), i, s)
<1> DEFINE n == Len(a.out)
           l == Len(a.line)
<1>1. n \in Nat /\ l \in Nat /\ s \in Nat \ {0} /\ PacketBytes \in Nat /\ MaxCmds \in Nat
      /\ i \in Nat /\ i <= PacketBytes /\ a.out \in Seq(Known) /\ a.line \in Seq(Letters)
    BY SizeAssumption, PacketAssumption DEF Assemblers
<1>2. a.line \in Known => l >= s
    BY DEF Shortest
<1>3. n = 0 \/ i - 1 >= (n - 1) * (s + 1) + 1 + l
    BY DEF Room
<1> HIDE DEF n, l
<1>4. /\ n * (s + 1) \in Nat /\ (n - 1) * (s + 1) = n * (s + 1) - (s + 1)
      /\ 0 * (s + 1) = 0 /\ (0 - 1) * (s + 1) = 0 - (s + 1)
    BY <1>1
<1>5. ASSUME a.line \in Known PROVE n < MaxCmds /\ (n = 0 \/ i >= n * (s + 1) + 1)
  <2>1. n = 0 \/ i >= n * (s + 1) + 1
      BY <1>1, <1>2, <1>3, <1>4, <1>5
  <2>2. n * (s + 1) < MaxCmds * (s + 1)
    <3>1. CASE n = 0
      <4>1. MaxCmds * (s + 1) \in Nat /\ MaxCmds * (s + 1) >= 1
          BY <1>1
      <4> QED
          BY <1>4, <3>1, <4>1
    <3>2. CASE i >= n * (s + 1) + 1
      <4>1. MaxCmds * (s + 1) \in Nat
          BY <1>1
      <4> QED
          BY <1>1, <1>4, <3>2, <4>1
    <3> QED
        BY <2>1, <3>1, <3>2
  <2>3. n < MaxCmds
      BY <1>1, <2>2, Below
  <2> QED
      BY <2>1, <2>3
<1>6. PutOut(a) = IF ~a.discarding /\ a.line \in Known THEN Append(a.out, a.line) ELSE a.out
    BY <1>5 DEF PutOut, Known, n
<1>7. EndOfLine(a).out = PutOut(a) /\ EndOfLine(a).line = <<>>
    BY DEF EndOfLine, Assemblers
<1>8. Room(EndOfLine(a), i, s)
  <2>1. Len(<<>>) = 0
      OBVIOUS
  <2>2. CASE ~a.discarding /\ a.line \in Known
    <3>1. Len(EndOfLine(a).out) = n + 1
        BY <1>1, <1>6, <1>7, <2>2, AppendProperties DEF n
    <3>2. (n + 1) - 1 = n /\ i >= n * (s + 1) + 1
        BY <1>1, <1>4, <1>5, <2>2
    <3> QED
        BY <1>1, <1>4, <1>7, <2>1, <3>1, <3>2 DEF Room
  <2>3. CASE ~(~a.discarding /\ a.line \in Known)
    <3>1. EndOfLine(a).out = a.out
        BY <1>6, <1>7, <2>3
    <3>2. n = 0 \/ i >= (n - 1) * (s + 1) + 1 + 0
        BY <1>1, <1>3, <1>4
    <3> QED
        BY <1>7, <2>1, <3>1, <3>2 DEF Room, n
  <2> QED
      BY <2>2, <2>3
<1> QED
    BY <1>6, <1>8

\* There is room after a byte that ends no line.
LEMMA RoomGrows ==
    ASSUME NEW n \in Nat, NEW l \in Nat, NEW m \in Nat, m <= l + 1, NEW i \in Int, NEW s \in Nat,
           n = 0 \/ i - 1 >= (n - 1) * (s + 1) + 1 + l
    PROVE  n = 0 \/ i >= (n - 1) * (s + 1) + 1 + m
<1>1. PICK k \in Int, u \in Int : k = n - 1 /\ u = s + 1
    OBVIOUS
<1>2. PICK r \in Int : r = k * u
    BY <1>1
<1>3. n = 0 \/ i - 1 >= r + 1 + l
    BY <1>1, <1>2
<1>4. n = 0 \/ i >= r + 1 + m
    BY <1>3
<1> QED
    BY <1>1, <1>2, <1>4

LEMMA RoomMore ==
    ASSUME NEW a, NEW b, NEW i \in Int, NEW s \in Nat, Room(a, i - 1, s),
           b.out = a.out, Len(a.out) \in Nat, Len(a.line) \in Nat,
           Len(b.line) \in Nat, Len(b.line) <= Len(a.line) + 1
    PROVE  Room(b, i, s)
BY RoomGrows DEF Room

\* A byte keeps what is assembled.
LEMMA ByteKeeps ==
    ASSUME NEW text \in Seq(Bytes), Len(text) <= PacketBytes, NEW i \in 1 .. Len(text),
           discarding \in BOOLEAN, line \in Seq(Letters),
           NEW s \in 1 .. MaxLine, Shortest(s), PacketBytes <= MaxCmds * (s + 1),
           NEW a, Assembled(a, text, i - 1), Room(a, i - 1, s)
    PROVE  Assembled(Byte(a, text[i]), text, i) /\ Room(Byte(a, text[i]), i, s)
<1> DEFINE x == Channel!Since(text, i)
           y == Channel!Since(text, i + 1)
           before == {e \in Channel!Ends(text) : e <= i - 1}
           now == {e \in Channel!Ends(text) : e <= i}
           b == Byte(a, text[i])
<1>1. /\ a \in Assemblers /\ a.line \in Seq(Letters) /\ a.discarding \in BOOLEAN
      /\ Len(a.line) <= MaxLine /\ (a.discarding => a.line = <<>>) /\ a.out \in Seq(Known)
    BY DEF Assembled, Assemblers
<1>2. Channel!Held(x) = IF a.discarding THEN Overlong ELSE a.line
  <2>1. (i - 1) + 1 = i
      OBVIOUS
  <2> QED
      BY <2>1 DEF Assembled
<1>3. PICK at : Lists(at, before) /\ a.out = [k \in 1 .. Len(at) |-> Channel!Since(text, at[k])]
    BY DEF Assembled
<1>4. Len(text) \in Nat /\ PacketBytes \in Nat /\ MaxLine \in Nat /\ i \in 1 .. PacketBytes
      /\ <<>> \in Seq(Letters) /\ Len(<<>>) = 0 /\ <<>> # Overlong
  <2>1. Len(text) \in Nat /\ PacketBytes \in Nat /\ MaxLine \in Nat
      BY SizeAssumption
  <2>2. i \in 1 .. PacketBytes
      BY <2>1
  <2>3. <<>> \in Seq(Letters) /\ Len(<<>>) = 0
      BY EmptySeq
  <2>4. <<>> # Overlong
      BY <2>3, NoneAssumption
  <2> QED
      BY <2>1, <2>2, <2>3, <2>4
<1>5. /\ x \in Seq(Letters) \cup {Overlong}
      /\ text[i] = Newline => y = <<>>
      /\ text[i] # Newline =>
            text[i] \in Letters /\ y = IF x = Overlong THEN Overlong ELSE Append(x, text[i])
    BY SinceIs
<1>6. /\ ~a.discarding => x = a.line /\ x \in Seq(Letters) /\ Len(x) <= MaxLine
      /\ a.discarding => x = Overlong \/ (x \in Seq(Letters) /\ Len(x) > MaxLine)
      /\ x \in Known <=> ~a.discarding /\ a.line \in Known
    BY <1>1, <1>2, <1>5, HeldIs
<1>7. now = IF text[i] = Newline /\ x \in Known THEN before \cup {i} ELSE before
  <2>1. i \in Channel!Ends(text) <=> text[i] = Newline /\ x \in Known
      BY KnownIs DEF Channel!Ends
  <2>2. \A e \in Channel!Ends(text) : e \in Nat /\ (e <= i <=> e <= i - 1 \/ e = i)
      BY <1>4 DEF Channel!Ends
  <2> QED
      BY <1>4, <2>1, <2>2
<1>8. before \in SUBSET Nat /\ \A e \in before : e < i
    BY <1>4 DEF Channel!Ends
<1> HIDE DEF x, y, before, now
<1>9. CASE text[i] = Newline
  <2>1. b = [a EXCEPT !.line = <<>>, !.discarding = FALSE, !.out = PutOut(a)]
      BY <1>9 DEF Byte, EndOfLine
  <2>2. /\ PutOut(a) = IF ~a.discarding /\ a.line \in Known THEN Append(a.out, a.line) ELSE a.out
        /\ Room(EndOfLine(a), i, s)
      BY <1>1, <1>4, PutOutIs
  <2>3. PutOut(a) \in Seq(Known)
      BY <1>1, <2>2, AppendProperties
  <2>4. b \in Assemblers /\ b.line = <<>> /\ ~b.discarding /\ b.out = PutOut(a)
      BY <1>1, <1>4, <2>1, <2>3 DEF Assemblers
  <2>5. Channel!Held(y) = <<>>
      BY <1>4, <1>5, <1>9 DEF Channel!Held
  <2>6. \E ks : Lists(ks, now) /\ b.out = [k \in 1 .. Len(ks) |-> Channel!Since(text, ks[k])]
    <3>1. CASE x \in Known
      <4> DEFINE ks == Append(at, i)
                 n == Len(at)
      <4>1. now = before \cup {i} /\ i \in Nat /\ Lists(ks, now)
        <5>1. now = before \cup {i} /\ i \in Nat
            BY <1>4, <1>7, <1>9, <3>1
        <5> QED
            BY <1>3, <1>8, <5>1, ListsMore, Zenon
      <4>2. at \in Seq(Nat) /\ n \in Nat /\ i \in Nat
        <5>1. at \in Seq(before)
            BY <1>3 DEF Lists
        <5>2. at \in Seq(Nat)
            BY <1>8, <5>1, SeqMonotonic, Zenon
        <5> QED
            BY <1>4, <5>2, LenProperties
      <4>3. /\ Len(ks) = n + 1 /\ ks[n + 1] = i /\ \A k \in 1 .. n : ks[k] = at[k]
          BY <4>2, AppendProperties
      <4> HIDE DEF ks
      <4>4. b.out = Append(a.out, a.line) /\ x = a.line /\ x \in Known
          BY <1>6, <2>2, <2>4, <3>1
      <4>5. Len(a.out) = n /\ \A k \in 1 .. n : a.out[k] = Channel!Since(text, at[k])
        <5>1. DOMAIN a.out = 1 .. Len(a.out) /\ Len(a.out) \in Nat /\ DOMAIN a.out = 1 .. n
            BY <1>1, <1>3
        <5> QED
            BY <1>3, <4>2, <5>1
      <4>6. /\ b.out \in Seq(Known) /\ Len(b.out) = n + 1 /\ b.out[n + 1] = x
            /\ \A k \in 1 .. n : b.out[k] = a.out[k]
          BY <1>1, <4>4, <4>5, AppendProperties
      <4>7. \A k \in 1 .. n + 1 : b.out[k] = Channel!Since(text, ks[k])
        <5>1. b.out[n + 1] = Channel!Since(text, ks[n + 1])
            BY <4>3, <4>6 DEF x
        <5>2. \A k \in 1 .. n : b.out[k] = Channel!Since(text, ks[k])
            BY <4>3, <4>5, <4>6
        <5>3. \A k \in 1 .. n + 1 : k \in 1 .. n \/ k = n + 1
            BY <4>2
        <5> QED
            BY <5>1, <5>2, <5>3
      <4>8. b.out = [k \in 1 .. n + 1 |-> Channel!Since(text, ks[k])]
        <5> DEFINE f == [k \in 1 .. n + 1 |-> Channel!Since(text, ks[k])]
        <5>1. b.out \in [1 .. n + 1 -> Known]
            BY <4>6, LenProperties
        <5> QED
            BY <4>7, <5>1
      <4> QED
          BY <4>1, <4>3, <4>8
    <3>2. CASE x \notin Known
      <4>1. now = before /\ b.out = a.out
          BY <1>6, <1>7, <2>2, <2>4, <3>2
      <4> QED
          BY <1>3, <4>1
    <3> QED
        BY <3>1, <3>2
  <2>7. b = EndOfLine(a)
      BY <2>1 DEF EndOfLine
  <2>8. Len(b.line) <= MaxLine
    <3>1. Len(b.line) = 0
        BY <1>4, <2>4, Zenon
    <3> QED
        BY <1>4, <3>1
  <2>9. Assembled(b, text, i)
      BY <2>4, <2>5, <2>6, <2>8 DEF Assembled, y, now
  <2> QED
      BY <2>2, <2>7, <2>9
<1>10. CASE text[i] # Newline
  <2>1. now = before /\ text[i] \in Letters /\ y = IF x = Overlong THEN Overlong ELSE Append(x, text[i])
      BY <1>5, <1>7, <1>10
  <2>2. ASSUME x \in Seq(Letters)
        PROVE  /\ Append(x, text[i]) \in Seq(Letters) /\ Len(Append(x, text[i])) = Len(x) + 1
               /\ Len(x) \in Nat /\ x # Overlong /\ Append(x, text[i]) # Overlong
    <3>1. Append(x, text[i]) \in Seq(Letters) /\ Len(Append(x, text[i])) = Len(x) + 1
        BY <2>1, <2>2, AppendProperties
    <3>2. Len(x) \in Nat
        BY <2>2, LenProperties
    <3>3. x # Overlong /\ Append(x, text[i]) # Overlong
        BY <2>2, <3>1, NoneAssumption, Zenon
    <3> QED
        BY <3>1, <3>2, <3>3
  <2>3. \E ks : Lists(ks, now) /\ a.out = [k \in 1 .. Len(ks) |-> Channel!Since(text, ks[k])]
      BY <1>3, <2>1
  <2>4. Len(a.out) \in Nat /\ Len(a.line) \in Nat /\ s \in Nat /\ i \in Int
      BY <1>1, <1>4
  <2>5. ASSUME NEW c, c.out = a.out, Len(c.line) \in Nat, Len(c.line) <= Len(a.line) + 1
         PROVE  Room(c, i, s)
      BY <2>4, <2>5, RoomMore, Zenon
  <2>6. CASE a.discarding
    <3>1. b = a
        BY <1>10, <2>6 DEF Byte
    <3>2. Channel!Held(y) = Overlong
        BY <1>4, <1>6, <2>1, <2>2, <2>6 DEF Channel!Held
    <3>3. Room(a, i, s)
      <4>1. Len(a.line) <= Len(a.line) + 1
          BY <2>4
      <4> QED
          BY <2>4, <2>5, <4>1, Zenon
    <3> QED
        BY <1>1, <2>3, <2>6, <3>1, <3>2, <3>3 DEF Assembled, y, now
  <2>7. CASE ~a.discarding /\ LineFull(a.line)
    <3>1. b = [a EXCEPT !.discarding = TRUE, !.line = <<>>]
        BY <1>10, <2>7 DEF Byte
    <3>2. b \in Assemblers /\ b.line = <<>> /\ b.discarding /\ b.out = a.out
        BY <1>1, <1>4, <3>1 DEF Assemblers
    <3>3. Channel!Held(y) = Overlong
      <4>1. x \in Seq(Letters) /\ Len(x) = MaxLine
          BY <1>6, <2>7 DEF LineFull
      <4>2. y = Append(x, text[i]) /\ Len(y) = MaxLine + 1
          BY <2>1, <2>2, <4>1
      <4>3. Len(y) > MaxLine
          BY <1>4, <4>2
      <4> QED
          BY <4>3 DEF Channel!Held
    <3>4. Len(b.line) = 0
        BY <1>4, <3>2, Zenon
    <3>5. Len(b.line) <= MaxLine
        BY <1>4, <3>4
    <3>6. Room(b, i, s)
      <4>1. Len(b.line) \in Nat /\ Len(b.line) <= Len(a.line) + 1
          BY <2>4, <3>4
      <4> QED
          BY <2>5, <3>2, <4>1, Zenon
    <3> QED
        BY <2>3, <3>2, <3>3, <3>5, <3>6 DEF Assembled, y, now
  <2>8. CASE ~a.discarding /\ ~LineFull(a.line)
    <3>1. b = [a EXCEPT !.line = Append(@, text[i])]
        BY <1>10, <2>8 DEF Byte
    <3>2. Append(a.line, text[i]) \in Seq(Letters) /\ Len(Append(a.line, text[i])) = Len(a.line) + 1
        BY <1>1, <2>1, AppendProperties
    <3>3. b \in Assemblers /\ b.line = Append(a.line, text[i]) /\ ~b.discarding /\ b.out = a.out
        BY <1>1, <2>8, <3>1, <3>2 DEF Assemblers
    <3>4. Len(b.line) <= MaxLine
        BY <1>1, <1>4, <2>4, <2>8, <3>2, <3>3 DEF LineFull
    <3>5. Channel!Held(y) = b.line
      <4>1. y = b.line /\ y # Overlong
          BY <1>6, <2>1, <2>2, <2>8, <3>3
      <4>2. ~(Len(y) > MaxLine)
          BY <1>4, <2>4, <3>2, <3>3, <3>4, <4>1
      <4> QED
          BY <4>1, <4>2 DEF Channel!Held
    <3>6. Room(b, i, s)
      <4>1. Len(b.line) \in Nat /\ Len(b.line) <= Len(a.line) + 1
          BY <2>4, <3>2, <3>3
      <4> QED
          BY <2>5, <3>3, <4>1, Zenon
    <3> QED
        BY <2>3, <3>3, <3>4, <3>5, <3>6 DEF Assembled, y, now
  <2> QED
      BY <1>1, <2>6, <2>7, <2>8
<1> QED
    BY <1>9, <1>10

\* The assembler as it stands before a packet.
Resting == [line |-> line, discarding |-> discarding, out |-> <<>>]

LEMMA FedExists ==
    ASSUME NEW text, NEW n \in Nat
    PROVE  \E f : f = [i \in 0 .. n |-> IF i = 0 THEN Resting ELSE Byte(f[i - 1], text[i])]
<1> DEFINE Fed(m, f) == f = [i \in 0 .. m |-> IF i = 0 THEN Resting ELSE Byte(f[i - 1], text[i])]
           Gaps == {m \in Nat : ~ \E f : Fed(m, f)}
<1>1. SUFFICES ASSUME Gaps # {} PROVE FALSE
    OBVIOUS
<1>2. PICK m \in Gaps : \A k \in Gaps : m <= k
    BY <1>1, LeastExists
<1>3. CASE m = 0
  <2>1. Fed(0, [i \in 0 .. 0 |-> Resting])
      OBVIOUS
  <2> QED
      BY <1>3, <2>1
<1>4. CASE m # 0
  <2>1. m - 1 \in Nat /\ ~(m <= m - 1)
      BY <1>4
  <2>2. PICK f : Fed(m - 1, f)
    <3> HIDE DEF Fed
    <3> QED
        BY <1>2, <2>1
  <2> DEFINE g == [i \in 0 .. m |-> IF i = m THEN Byte(f[m - 1], text[m]) ELSE f[i]]
  <2>3. ASSUME NEW i \in 0 .. m
        PROVE  g[i] = IF i = 0 THEN Resting ELSE Byte(g[i - 1], text[i])
    <3>1. CASE i = m
        BY <1>4, <3>1
    <3>2. CASE i # m
        BY <1>4, <3>2, <2>2
    <3> QED
        BY <3>1, <3>2
  <2>4. Fed(m, g)
      BY <2>3
  <2> QED
      BY <2>4
<1> QED
    BY <1>3, <1>4

\* What the assembler makes of a packet.
LEMMA FeedIs ==
    ASSUME NEW text \in Seq(Bytes), Len(text) <= PacketBytes,
           discarding \in BOOLEAN, line \in Seq(Letters), Len(line) <= MaxLine,
           discarding => line = <<>>
    PROVE  Assembled(feed(text), text, Len(text))
<1> DEFINE n == Len(text)
           Fed(f) == f = [i \in 0 .. n |-> IF i = 0 THEN Resting ELSE Byte(f[i - 1], text[i])]
           fed == CHOOSE f : Fed(f)
<1>1. feed(text) = fed[n]
    BY DEF feed, Resting
<1>2. n \in Nat /\ Fed(fed)
  <2>1. n \in Nat
      OBVIOUS
  <2>2. \E f : Fed(f)
      BY <2>1, FedExists
  <2> QED
      BY <2>1, <2>2
<1> HIDE DEF fed
<1>3. PICK s \in 1 .. MaxLine : Shortest(s) /\ PacketBytes <= MaxCmds * (s + 1)
    BY PacketAssumption DEF Shortest, Known
<1>4. /\ fed[0] = Resting
      /\ \A i \in 1 .. n : fed[i] = Byte(fed[i - 1], text[i])
  <2>1. fed[0] = Resting
      BY <1>2
  <2>2. ASSUME NEW i \in 1 .. n PROVE fed[i] = Byte(fed[i - 1], text[i])
    <3>1. i \in 0 .. n /\ i # 0
        BY <1>2
    <3> QED
        BY <1>2, <3>1
  <2> QED
      BY <2>1, <2>2
<1> DEFINE OK(i) == Assembled(fed[i], text, i) /\ Room(fed[i], i, s)
<1>5. OK(0)
  <2>1. /\ Resting \in Assemblers /\ Resting.line = line /\ Resting.discarding = discarding
        /\ Resting.out = <<>>
      BY EmptySeq DEF Resting, Assemblers
  <2>2. Channel!Held(Channel!Since(text, 0 + 1)) = IF discarding THEN Overlong ELSE line
    <3>1. Channel!Since(text, 0 + 1) = Typed
        BY SinceIs
    <3>2. ~(Len(line) > MaxLine) /\ line # Overlong
        BY NoneAssumption, SizeAssumption
    <3> QED
        BY <3>1, <3>2 DEF Typed, Channel!Held
  <2>3. {e \in Channel!Ends(text) : e <= 0} = {}
      BY DEF Channel!Ends
  <2>4. <<>> = [k \in 1 .. Len(<<>>) |-> Channel!Since(text, <<>>[k])]
      OBVIOUS
  <2>5. \E at : /\ Lists(at, {e \in Channel!Ends(text) : e <= 0})
                /\ Resting.out = [k \in 1 .. Len(at) |-> Channel!Since(text, at[k])]
      BY <2>1, <2>3, <2>4, ListsNone
  <2>6. Assembled(Resting, text, 0)
      BY <2>1, <2>2, <2>5 DEF Assembled
  <2>7. Room(Resting, 0, s)
      BY <2>1, EmptySeq DEF Room
  <2> QED
      BY <1>4, <2>6, <2>7
<1>6. ASSUME NEW i \in 1 .. n, OK(i - 1) PROVE OK(i)
    BY <1>3, <1>4, <1>6, ByteKeeps
<1>7. \A i \in 0 .. n : OK(i)
  <2> HIDE DEF OK
  <2> DEFINE Gaps == {i \in 0 .. n : ~OK(i)}
  <2>1. SUFFICES ASSUME Gaps # {} PROVE FALSE
      OBVIOUS
  <2>2. PICK i \in Gaps : \A k \in Gaps : i <= k
    <3>1. Gaps \in SUBSET Nat
        BY <1>2
    <3> HIDE DEF Gaps
    <3> QED
        BY <2>1, <3>1, LeastExists
  <2>3. i \in 1 .. n /\ i - 1 \in 0 .. n
      BY <1>2, <1>5
  <2>4. OK(i - 1)
      BY <2>2, <2>3
  <2> QED
      BY <1>6, <2>3, <2>4
<1> QED
    BY <1>1, <1>2, <1>7

-----------------------------------------------------------------------------
(* The commands of a packet.                                                *)

Rings == [slots : Slots, head : Indices, ping : BOOLEAN, booted : BOOLEAN]
InQueue == QueueOf(slots, head, tail)

\* A BOOT is among the first j commands; those before it that are to be queued.
Left(cmds, j) == \E k \in 1 .. j : cmds[k] = Boot
Queued(cmds, j) == {k \in 1 .. j : cmds[k] \in Commands /\ ~Left(cmds, k - 1)}

\* After j commands the ring holds what fits of those before a BOOT, in their order.
Heeded(r, cmds, j) ==
    /\ r \in Rings
    /\ r.booted <=> Left(cmds, j)
    /\ r.ping <=> g_ping \/ \E k \in 1 .. j : cmds[k] = Ping /\ ~Left(cmds, k - 1)
    /\ \E ks :
          /\ Lists(ks, Queued(cmds, j))
          /\ QueueOf(r.slots, r.head, tail) =
                Channel!Fitting(InQueue \o [k \in 1 .. Len(ks) |-> cmds[ks[k]]])

LEMMA FittingIs ==
    ASSUME NEW q \in Seq(Commands)
    PROVE  /\ Channel!Fitting(q) \in Seq(Commands)
           /\ Len(Channel!Fitting(q)) = (IF Len(q) > Capacity THEN Capacity ELSE Len(q))
           /\ \A k \in 1 .. Len(Channel!Fitting(q)) : Channel!Fitting(q)[k] = q[k]
           /\ Len(q) <= Capacity => Channel!Fitting(q) = q
<1> DEFINE n == IF Len(q) > Capacity THEN Capacity ELSE Len(q)
<1>1. n \in Nat /\ n <= Len(q) /\ Len(q) \in Nat /\ (Len(q) <= Capacity => n = Len(q))
  <2>1. Len(q) \in Nat /\ Capacity \in Nat
      BY SizesAre, LenProperties
  <2> QED
      BY <2>1
<1>2. Channel!Fitting(q) = SubSeq(q, 1, n)
    BY DEF Channel!Fitting
<1> HIDE DEF n
<1>3. \A i \in 1 .. n : q[i] \in Commands
  <2>1. \A i \in 1 .. n : i \in 1 .. Len(q)
      BY <1>1
  <2> QED
      BY <2>1, ElementOfSeq
<1>4. /\ SubSeq(q, 1, n) \in Seq(Commands) /\ Len(SubSeq(q, 1, n)) = IF 1 <= n THEN n - 1 + 1 ELSE 0
      /\ \A i \in 1 .. n - 1 + 1 : SubSeq(q, 1, n)[i] = q[1 + i - 1]
    BY <1>1, <1>3, SubSeqProperties
<1>5. Len(SubSeq(q, 1, n)) = n /\ \A i \in 1 .. n : SubSeq(q, 1, n)[i] = q[i]
  <2>1. Len(SubSeq(q, 1, n)) = n
      BY <1>1, <1>4
  <2>2. \A i \in 1 .. n : i \in 1 .. n - 1 + 1 /\ 1 + i - 1 = i
      BY <1>1
  <2> QED
      BY <1>4, <2>1, <2>2
<1>6. Len(q) <= Capacity => SubSeq(q, 1, n) = q
    BY <1>1, SubSeqFull
<1> QED
    BY <1>2, <1>4, <1>5, <1>6 DEF n

\* What fits, with one more command behind it.
LEMMA FittingMore ==
    ASSUME NEW q \in Seq(Commands), NEW c \in Commands
    PROVE  Channel!Fitting(Append(q, c)) =
              IF Len(Channel!Fitting(q)) >= Capacity THEN Channel!Fitting(q)
              ELSE Append(Channel!Fitting(q), c)
<1> DEFINE p == Append(q, c)
           f == Channel!Fitting(q)
           g == Channel!Fitting(p)
<1>1. /\ p \in Seq(Commands) /\ Len(p) = Len(q) + 1 /\ Len(q) \in Nat /\ Capacity \in Nat
      /\ \A k \in 1 .. Len(q) : p[k] = q[k]
    BY AppendProperties, LenProperties, SizesAre
<1>2. /\ f \in Seq(Commands) /\ Len(f) = (IF Len(q) > Capacity THEN Capacity ELSE Len(q))
      /\ \A k \in 1 .. Len(f) : f[k] = q[k]
      /\ Len(q) <= Capacity => f = q
    BY FittingIs
<1>3. /\ g \in Seq(Commands) /\ Len(g) = (IF Len(p) > Capacity THEN Capacity ELSE Len(p))
      /\ \A k \in 1 .. Len(g) : g[k] = p[k]
      /\ Len(p) <= Capacity => g = p
    BY <1>1, FittingIs
<1> HIDE DEF f, g
<1>4. CASE Len(f) >= Capacity
  <2>1. Len(q) >= Capacity /\ Len(f) = Capacity /\ Len(g) = Capacity
      BY <1>1, <1>2, <1>3, <1>4
  <2>2. \A k \in 1 .. Len(g) : k \in 1 .. Len(f) /\ k \in 1 .. Len(q)
      BY <1>1, <2>1
  <2>3. \A k \in 1 .. Len(g) : g[k] = f[k]
      BY <1>1, <1>2, <1>3, <2>2
  <2>4. g = f
      BY <1>2, <1>3, <2>1, <2>3, SeqEqual
  <2> QED
      BY <1>4, <2>4 DEF f, g
<1>5. CASE ~(Len(f) >= Capacity)
  <2>1. Len(q) <= Capacity /\ Len(p) <= Capacity
      BY <1>1, <1>2, <1>5
  <2>2. f = q /\ g = p
      BY <1>2, <1>3, <2>1
  <2> QED
      BY <1>5, <2>2 DEF f, g
<1> QED
    BY <1>4, <1>5

\* The queue as a sequence: as long as the indices are apart.
LEMMA QueueLength ==
    ASSUME NEW s, NEW h \in Indices, NEW t \in Indices
    PROVE  /\ Len(QueueOf(s, h, t)) = (h - t) % Wrap /\ (h - t) % Wrap \in Nat
           /\ \A k \in 1 .. (h - t) % Wrap : QueueOf(s, h, t)[k] = s[(t + k - 1) % Capacity]
<1>1. PICK n : n = (h - t) % Wrap
    OBVIOUS
<1>2. n \in Nat
    BY <1>1, DistanceIs
<1>3. QueueOf(s, h, t) = [k \in 1 .. n |-> s[(t + k - 1) % Capacity]]
    BY <1>1 DEF QueueOf
<1> QED
    BY <1>1, <1>2, <1>3

\* A command keeps what is heeded.
LEMMA CommandKeeps ==
    ASSUME head \in Indices, tail \in Indices, g_ping \in BOOLEAN, InQueue \in Seq(Commands),
           NEW cmds \in Seq(Known), NEW j \in 1 .. Len(cmds),
           NEW r, Heeded(r, cmds, j - 1)
    PROVE  Heeded(Command(r, cmds[j]), cmds, j)
<1> DEFINE c == cmds[j]
           d == Command(r, c)
<1>1. r \in Rings /\ c \in Known /\ j \in Nat \ {0} /\ Len(cmds) \in Nat
    BY ElementOfSeq, LenProperties DEF Heeded
<1>2. c = Boot \/ c = Ping \/ c \in Commands
    BY <1>1 DEF Known
<1>3. \A k \in 1 .. j : k \in 1 .. j - 1 \/ k = j
    BY <1>1
<1>4. 1 .. j - 1 \subseteq 1 .. j /\ j \in 1 .. j /\ j \notin 1 .. j - 1
    BY <1>1
<1>5. Left(cmds, j) <=> Left(cmds, j - 1) \/ c = Boot
    BY <1>3, <1>4 DEF Left
<1>6. Queued(cmds, j) =
         IF c \in Commands /\ ~Left(cmds, j - 1) THEN Queued(cmds, j - 1) \cup {j} ELSE Queued(cmds, j - 1)
    BY <1>3, <1>4 DEF Queued
<1>7. (\E k \in 1 .. j : cmds[k] = Ping /\ ~Left(cmds, k - 1))
         <=> (\E k \in 1 .. j - 1 : cmds[k] = Ping /\ ~Left(cmds, k - 1)) \/ (c = Ping /\ ~Left(cmds, j - 1))
    BY <1>3, <1>4
<1>8. PICK ks : /\ Lists(ks, Queued(cmds, j - 1))
                /\ QueueOf(r.slots, r.head, tail) =
                      Channel!Fitting(InQueue \o [k \in 1 .. Len(ks) |-> cmds[ks[k]]])
    BY DEF Heeded
<1>9. CASE r.booted
  <2>1. d = r /\ Left(cmds, j - 1)
      BY <1>9 DEF Command, Heeded
  <2>2. Queued(cmds, j) = Queued(cmds, j - 1)
      BY <1>6, <2>1
  <2> QED
      BY <1>5, <1>7, <2>1, <2>2 DEF Heeded
<1>10. CASE ~r.booted /\ c = Boot
  <2>1. d = [r EXCEPT !.booted = TRUE]
      BY <1>10, KnownIs DEF Command
  <2>2. d \in Rings /\ d.booted /\ d.ping = r.ping /\ d.slots = r.slots /\ d.head = r.head
      BY <1>1, <2>1 DEF Rings
  <2>3. Queued(cmds, j) = Queued(cmds, j - 1) /\ c # Ping
      BY <1>6, <1>10, KnownIs
  <2> QED
      BY <1>5, <1>7, <1>8, <1>10, <2>2, <2>3 DEF Heeded
<1>11. CASE ~r.booted /\ c = Ping
  <2>1. d = [r EXCEPT !.ping = TRUE]
      BY <1>11, KnownIs DEF Command
  <2>2. d \in Rings /\ d.booted = r.booted /\ d.ping /\ d.slots = r.slots /\ d.head = r.head
      BY <1>1, <2>1 DEF Rings
  <2>3. Queued(cmds, j) = Queued(cmds, j - 1) /\ c # Boot /\ ~Left(cmds, j - 1)
      BY <1>6, <1>11, KnownIs DEF Heeded
  <2> QED
      BY <1>5, <1>7, <1>8, <1>11, <2>2, <2>3 DEF Heeded
<1>12. CASE ~r.booted /\ c \in Commands
  <2>1. d = push(r, c)
      BY <1>12, KnownIs DEF Command
  <2>2. c # Boot /\ c # Ping /\ ~Left(cmds, j - 1) /\ Queued(cmds, j) = Queued(cmds, j - 1) \cup {j}
      BY <1>6, <1>12, KnownIs DEF Heeded
  <2> DEFINE n == Len(ks)
             x == [k \in 1 .. n |-> cmds[ks[k]]]
             y == InQueue \o x
             q == QueueOf(r.slots, r.head, tail)
             ls == Append(ks, j)
             z == [k \in 1 .. Len(ls) |-> cmds[ls[k]]]
  <2>3. Queued(cmds, j - 1) \in SUBSET Nat /\ \A k \in Queued(cmds, j - 1) : k < j /\ cmds[k] \in Commands
      BY <1>1 DEF Queued
  <2>4. ks \in Seq(Queued(cmds, j - 1)) /\ ks \in Seq(Nat) /\ n \in Nat
      BY <1>8, <2>3, SeqMonotonic, LenProperties DEF Lists
  <2>5. \A k \in 1 .. n : ks[k] \in Queued(cmds, j - 1)
      BY <2>4, ElementOfSeq
  <2>6. x \in Seq(Commands) /\ Len(x) = n
    <3>1. x \in [1 .. n -> Commands]
        BY <2>3, <2>5
    <3> HIDE DEF x
    <3> QED
        BY <2>4, <3>1, IsSequence
  <2>7. y \in Seq(Commands) /\ q = Channel!Fitting(y) /\ q \in Seq(Commands)
    <3>1. y \in Seq(Commands)
        BY <2>6, ConcatProperties
    <3> QED
        BY <1>8, <3>1, FittingIs
  <2>8. Lists(ls, Queued(cmds, j))
      BY <1>1, <1>8, <2>2, <2>3, ListsMore
  <2>9. InQueue \o z = Append(y, c)
    <3>1. Len(ls) = n + 1 /\ (\A k \in 1 .. n : ls[k] = ks[k]) /\ ls[n + 1] = j
        BY <1>1, <2>4, AppendProperties
    <3> HIDE DEF ls
    <3>2. \A k \in 1 .. n + 1 : k \in 1 .. n \/ k = n + 1
        BY <2>4
    <3>3. z = [k \in 1 .. n + 1 |-> cmds[ls[k]]]
        BY <3>1
    <3>4. \A k \in 1 .. n + 1 : z[k] = IF k = n + 1 THEN c ELSE x[k]
      <4>1. ASSUME NEW k \in 1 .. n PROVE z[k] = x[k] /\ k # n + 1
        <5>1. k \in 1 .. n + 1 /\ k # n + 1
            BY <2>4
        <5> QED
            BY <3>1, <3>3, <5>1
      <4>2. z[n + 1] = c
          BY <2>4, <3>1, <3>3
      <4> QED
          BY <3>2, <4>1, <4>2
    <3>5. Append(x, c) \in Seq(Commands) /\ Len(Append(x, c)) = n + 1
          /\ (\A k \in 1 .. n : Append(x, c)[k] = x[k]) /\ Append(x, c)[n + 1] = c
        BY <1>12, <2>6, AppendProperties
    <3>6. \A k \in 1 .. n : x[k] \in Commands
        BY <2>6, ElementOfSeq
    <3> HIDE DEF x
    <3>7. z \in Seq(Commands) /\ Len(z) = n + 1
      <4>1. z \in [1 .. n + 1 -> Commands]
        <5>1. \A k \in 1 .. n + 1 : z[k] \in Commands
            BY <1>12, <3>2, <3>4, <3>6
        <5> QED
            BY <3>3, <5>1
      <4>2. n + 1 \in Nat
          BY <2>4
      <4> QED
          BY <4>1, <4>2, IsSequence
    <3> HIDE DEF z
    <3>8. \A k \in 1 .. Len(z) : z[k] = Append(x, c)[k]
        BY <3>2, <3>4, <3>5, <3>7
    <3>9. z = Append(x, c)
        BY <3>5, <3>7, <3>8, SeqEqual
    <3>10. /\ Append(x, c) = x \o <<c>> /\ Append(y, c) = y \o <<c>> /\ <<c>> \in Seq(Commands)
      <4>1. Append(x, c) = x \o <<c>>
          BY <1>12, <2>6, AppendIsConcat, Zenon
      <4>2. Append(y, c) = y \o <<c>>
        <5> HIDE DEF y
        <5> QED
            BY <1>12, <2>7, AppendIsConcat, Zenon
      <4>3. <<c>> \in Seq(Commands)
          BY <1>12
      <4> QED
          BY <4>1, <4>2, <4>3
    <3>11. InQueue \o (x \o <<c>>) = (InQueue \o x) \o <<c>>
        BY <2>6, <3>10, ConcatAssociative
    <3> QED
        BY <3>9, <3>10, <3>11
  <2>10. r.slots \in Slots /\ r.head \in Indices
      BY <1>1 DEF Rings
  <2>11. Len(q) = (r.head - tail) % Wrap /\ (r.head - tail) % Wrap \in Nat /\ Capacity \in Nat
    <3>1. PICK s \in Slots, h \in Indices, t \in Indices : s = r.slots /\ h = r.head /\ t = tail
        BY <2>10
    <3>2. Len(QueueOf(s, h, t)) = (h - t) % Wrap /\ (h - t) % Wrap \in Nat
        BY QueueLength
    <3>3. q = QueueOf(s, h, t)
        BY <3>1
    <3> HIDE DEF q
    <3> QED
        BY <3>1, <3>2, <3>3, SizesAre
  <2> HIDE DEF q, x, y, z
  <2>12. /\ d \in Rings /\ d.booted = r.booted /\ d.ping = r.ping
         /\ QueueOf(d.slots, d.head, tail) = IF Len(q) >= Capacity THEN q ELSE Append(q, c)
    <3>1. CASE Full(r)
      <4>1. d = r /\ Len(q) >= Capacity
          BY <2>1, <2>11, <3>1 DEF push, Full
      <4> QED
          BY <1>1, <4>1 DEF q
    <3>2. CASE ~Full(r)
      <4>1. PICK s1, h1 : /\ s1 = [r.slots EXCEPT ![r.head % Capacity] = c]
                          /\ h1 = (r.head + 1) % Wrap
                          /\ d = [r EXCEPT !.slots = s1, !.head = h1]
          BY <2>1, <3>2 DEF push
      <4>2. s1 \in Slots /\ h1 \in Indices /\ QueueOf(s1, h1, tail) = Append(q, c)
        <5>1. (r.head - tail) % Wrap < Capacity
            BY <2>11, <3>2 DEF Full
        <5>2. PICK s \in Slots, h \in Indices, t \in Indices, e \in Commands :
                  s = r.slots /\ h = r.head /\ t = tail /\ e = c
            BY <1>12, <2>10
        <5>3. /\ q = QueueOf(s, h, t) /\ QueueOf(s, h, t) \in Seq(Commands) /\ (h - t) % Wrap < Capacity
              /\ s1 = [s EXCEPT ![h % Capacity] = e] /\ h1 = (h + 1) % Wrap
            BY <2>7, <4>1, <5>1, <5>2 DEF q
        <5>4. Pushes(s, h, t, e, s1, h1)
            BY <5>3 DEF Pushes
        <5>5. s1 \in Slots /\ h1 \in Indices /\ QueueOf(s1, h1, t) = Append(QueueOf(s, h, t), e)
            BY <5>4, PushedIs
        <5> QED
            BY <5>2, <5>3, <5>5
      <4>3. d \in Rings /\ d.booted = r.booted /\ d.ping = r.ping /\ d.slots = s1 /\ d.head = h1
          BY <1>1, <4>1, <4>2 DEF Rings
      <4>4. ~(Len(q) >= Capacity)
          BY <2>11, <3>2 DEF Full
      <4> QED
          BY <4>2, <4>3, <4>4
    <3> QED
        BY <3>1, <3>2
  <2>13. QueueOf(d.slots, d.head, tail) = Channel!Fitting(InQueue \o z)
      BY <1>12, <2>7, <2>9, <2>12, FittingMore
  <2> QED
      BY <1>5, <1>7, <2>2, <2>8, <2>12, <2>13 DEF Heeded, z
<1> QED
    BY <1>2, <1>9, <1>10, <1>11, <1>12

\* The ring as it stands before a packet.
Before == [slots |-> slots, head |-> head, ping |-> g_ping, booted |-> booted]

LEMMA AfterExists ==
    ASSUME NEW cmds, NEW n \in Nat
    PROVE  \E f : f = [i \in 0 .. n |-> IF i = 0 THEN Before ELSE Command(f[i - 1], cmds[i])]
<1> DEFINE After(m, f) == f = [i \in 0 .. m |-> IF i = 0 THEN Before ELSE Command(f[i - 1], cmds[i])]
           Gaps == {m \in Nat : ~ \E f : After(m, f)}
<1>1. SUFFICES ASSUME Gaps # {} PROVE FALSE
    OBVIOUS
<1>2. PICK m \in Gaps : \A k \in Gaps : m <= k
    BY <1>1, LeastExists
<1>3. CASE m = 0
  <2>1. After(0, [i \in 0 .. 0 |-> Before])
      OBVIOUS
  <2> QED
      BY <1>3, <2>1
<1>4. CASE m # 0
  <2>1. m - 1 \in Nat /\ ~(m <= m - 1)
      BY <1>4
  <2>2. PICK f : After(m - 1, f)
    <3> HIDE DEF After
    <3> QED
        BY <1>2, <2>1
  <2> DEFINE g == [i \in 0 .. m |-> IF i = m THEN Command(f[m - 1], cmds[m]) ELSE f[i]]
  <2>3. ASSUME NEW i \in 0 .. m
        PROVE  g[i] = IF i = 0 THEN Before ELSE Command(g[i - 1], cmds[i])
    <3>1. CASE i = m
        BY <1>4, <3>1
    <3>2. CASE i # m
        BY <1>4, <3>2, <2>2
    <3> QED
        BY <3>1, <3>2
  <2>4. After(m, g)
      BY <2>3
  <2> QED
      BY <2>4
<1> QED
    BY <1>3, <1>4

\* What the commands of a packet do.
LEMMA DeliveredIs ==
    ASSUME slots \in Slots, head \in Indices, tail \in Indices, g_ping \in BOOLEAN, booted \in BOOLEAN,
           ~booted, InQueue \in Seq(Commands), (head - tail) % Wrap <= Capacity, NEW cmds \in Seq(Known)
    PROVE  Heeded(Delivered(cmds), cmds, Len(cmds))
<1> DEFINE n == Len(cmds)
           After(f) == f = [i \in 0 .. n |-> IF i = 0 THEN Before ELSE Command(f[i - 1], cmds[i])]
           after == CHOOSE f : After(f)
<1>1. Delivered(cmds) = after[n]
    BY DEF Delivered, Before
<1>2. n \in Nat /\ After(after)
  <2>1. n \in Nat
      OBVIOUS
  <2>2. \E f : After(f)
      BY <2>1, AfterExists
  <2> QED
      BY <2>1, <2>2
<1> HIDE DEF after
<1>3. /\ after[0] = Before
      /\ \A i \in 1 .. n : after[i] = Command(after[i - 1], cmds[i])
  <2>1. after[0] = Before
      BY <1>2
  <2>2. ASSUME NEW i \in 1 .. n PROVE after[i] = Command(after[i - 1], cmds[i])
    <3>1. i \in 0 .. n /\ i # 0
        BY <1>2
    <3> QED
        BY <1>2, <3>1
  <2> QED
      BY <2>1, <2>2
<1> DEFINE OK(i) == Heeded(after[i], cmds, i)
<1>4. OK(0)
  <2>1. /\ Before \in Rings /\ Before.slots = slots /\ Before.head = head
        /\ (Before.ping <=> g_ping) /\ ~Before.booted
      BY DEF Before, Rings
  <2>2. ~Left(cmds, 0) /\ Queued(cmds, 0) = {} /\ 1 .. 0 = {}
      BY DEF Left, Queued
  <2>3. InQueue = Channel!Fitting(InQueue \o [k \in 1 .. Len(<<>>) |-> cmds[<<>>[k]]])
    <3>1. [k \in 1 .. Len(<<>>) |-> cmds[<<>>[k]]] = <<>>
        OBVIOUS
    <3>2. InQueue \o <<>> = InQueue
        BY ConcatEmptySeq
    <3>3. Len(InQueue) <= Capacity
        BY QueueLength DEF InQueue
    <3> QED
        BY <3>1, <3>2, <3>3, FittingIs
  <2>4. \E ks : /\ Lists(ks, Queued(cmds, 0))
                /\ QueueOf(slots, head, tail) =
                      Channel!Fitting(InQueue \o [k \in 1 .. Len(ks) |-> cmds[ks[k]]])
      BY <2>2, <2>3, ListsNone DEF InQueue
  <2>5. Heeded(Before, cmds, 0)
      BY <2>1, <2>2, <2>4 DEF Heeded
  <2> QED
      BY <1>3, <2>5
<1>5. ASSUME NEW i \in 1 .. n, OK(i - 1) PROVE OK(i)
    BY <1>3, <1>5, CommandKeeps
<1>6. \A i \in 0 .. n : OK(i)
  <2> HIDE DEF OK
  <2> DEFINE Gaps == {i \in 0 .. n : ~OK(i)}
  <2>1. SUFFICES ASSUME Gaps # {} PROVE FALSE
      OBVIOUS
  <2>2. PICK i \in Gaps : \A k \in Gaps : i <= k
    <3>1. Gaps \in SUBSET Nat
        BY <1>2
    <3> HIDE DEF Gaps
    <3> QED
        BY <2>1, <3>1, LeastExists
  <2>3. i \in 1 .. n /\ i - 1 \in 0 .. n
      BY <1>2, <1>4
  <2>4. OK(i - 1)
      BY <2>2, <2>3
  <2> QED
      BY <1>5, <2>3, <2>4
<1> QED
    BY <1>1, <1>2, <1>6

-----------------------------------------------------------------------------
(* What a packet means.                                                     *)

RInv ==
    /\ TypeOK
    /\ discarding => line = <<>>
    /\ InQueue \in Seq(Commands)
    /\ block.at # "idle" => InRing # 0
    /\ block.at = "release" => block.cmd = slots[tail % Capacity]
    /\ fg = "clear" => g_ping

LEMMA RingIs ==
    ASSUME RInv
    PROVE  /\ slots \in Slots /\ head \in Indices /\ tail \in Indices
           /\ g_ping \in BOOLEAN /\ booted \in BOOLEAN /\ InQueue \in Seq(Commands)
           /\ discarding \in BOOLEAN /\ line \in Seq(Letters) /\ Len(line) <= MaxLine
           /\ (discarding => line = <<>>)
           /\ InRing = (head - tail) % Wrap /\ InRing \in Nat /\ InRing <= Capacity
           /\ Len(InQueue) = InRing
           /\ InRing # 0 => InQueue[1] = slots[tail % Capacity] /\ slots[tail % Capacity] \in Commands
<1>1. /\ slots \in Slots /\ head \in Indices /\ tail \in Indices
      /\ g_ping \in BOOLEAN /\ booted \in BOOLEAN /\ InQueue \in Seq(Commands)
      /\ discarding \in BOOLEAN /\ line \in Seq(Letters) /\ Len(line) <= MaxLine
      /\ (discarding => line = <<>>)
      /\ InRing = (head - tail) % Wrap /\ InRing <= Capacity
    BY DEF RInv, TypeOK, Slots, Indices, InRing
<1>2. /\ Len(InQueue) = InRing /\ InRing \in Nat
      /\ \A k \in 1 .. InRing : InQueue[k] = slots[(tail + k - 1) % Capacity]
    BY <1>1, QueueLength DEF InQueue
<1>3. ASSUME InRing # 0
      PROVE  InQueue[1] = slots[tail % Capacity] /\ slots[tail % Capacity] \in Commands
  <2>1. 1 \in 1 .. InRing /\ tail + 1 - 1 = tail
      BY <1>1, <1>2, <1>3 DEF Indices
  <2>2. InQueue[1] = slots[tail % Capacity]
      BY <1>2, <2>1
  <2>3. InQueue[1] \in Commands
      BY <1>1, <1>2, <2>1, ElementOfSeq
  <2> QED
      BY <2>2, <2>3
<1> QED
    BY <1>1, <1>2, <1>3

LEMMA PacketIs ==
    ASSUME NEW text \in Packets
    PROVE  text \in Seq(Bytes) /\ Len(text) \in 1 .. PacketBytes
<1>1. PICK n \in 1 .. PacketBytes : text \in [1 .. n -> Letters \cup {Newline}]
    BY DEF Packets
<1>2. n \in Nat
    BY SizeAssumption
<1> QED
    BY <1>1, <1>2, IsSequence DEF Bytes

\* The queue, the ping and the boot of a packet, by the places where its commands end.
LEMMA Meaning ==
    ASSUME RInv, ~booted, NEW text \in Packets,
           NEW out, out = feed(text).out, NEW r, r = Delivered(out)
    PROVE  /\ Assembled(feed(text), text, Len(text)) /\ r \in Rings
           /\ \E at \in Channel!InOrder({e \in Channel!Heard(text) : Channel!Since(text, e) \in Commands}) :
                 QueueOf(r.slots, r.head, tail) =
                    Channel!Fitting(InQueue \o [k \in DOMAIN at |-> Channel!Since(text, at[k])])
           /\ r.ping <=> g_ping \/ \E e \in Channel!Heard(text) : Channel!Since(text, e) = Ping
           /\ r.booted <=> \E e \in Channel!Ends(text) : Channel!Since(text, e) = Boot
<1> DEFINE E == Channel!Ends(text)
           H == Channel!Heard(text)
           Say(e) == Channel!Since(text, e)
           m == Len(text)
           n == Len(out)
<1>1. text \in Seq(Bytes) /\ m \in Nat /\ m <= PacketBytes /\ PacketBytes \in Nat
    BY PacketIs, SizeAssumption
<1>2. Assembled(feed(text), text, m)
    BY <1>1, RingIs, FeedIs
<1>3. PICK at : /\ Lists(at, {e \in E : e <= m})
                /\ out = [k \in 1 .. Len(at) |-> Say(at[k])]
    BY <1>2 DEF Assembled
<1>4. E \in SUBSET (1 .. m) /\ {e \in E : e <= m} = E
    BY <1>1 DEF Channel!Ends
<1>5. /\ Lists(at, E) /\ at \in Seq(E) /\ Len(at) \in Nat /\ DOMAIN at = 1 .. Len(at)
      /\ \A k \in 1 .. Len(at) : at[k] \in E /\ at[k] \in 1 .. m
  <2>1. Lists(at, E)
      BY <1>3, <1>4
  <2>2. at \in Seq(E)
      BY <2>1 DEF Lists
  <2>3. Len(at) \in Nat /\ DOMAIN at = 1 .. Len(at)
      BY <2>2, LenProperties
  <2>4. \A k \in 1 .. Len(at) : at[k] \in E
      BY <2>2, ElementOfSeq
  <2> QED
      BY <1>4, <2>1, <2>2, <2>3, <2>4
<1>6. out \in Seq(Known) /\ n = Len(at) /\ \A k \in 1 .. n : out[k] = Say(at[k])
  <2>1. out \in Seq(Known)
      BY <1>2 DEF Assembled, Assemblers
  <2>2. n \in Nat /\ DOMAIN out = 1 .. n /\ DOMAIN out = 1 .. Len(at)
      BY <1>3, <2>1, LenProperties
  <2>3. n = Len(at)
      BY <1>5, <2>2
  <2> QED
      BY <1>3, <2>1, <2>3
<1>7. Heeded(r, out, n)
    BY <1>6, RingIs, DeliveredIs
<1> HIDE DEF E, H, Say, m, n
<1>8. \A i, k \in 1 .. n : at[i] < at[k] <=> i < k
  <2>1. ASSUME NEW i \in 1 .. n, NEW k \in 1 .. n PROVE at[i] < at[k] <=> i < k
    <3>1. /\ i < k => at[i] < at[k]
          /\ k < i => at[k] < at[i]
        BY <1>5, <1>6 DEF Lists
    <3>2. at[i] \in Nat /\ at[k] \in Nat /\ i \in Nat /\ k \in Nat
        BY <1>1, <1>5, <1>6
    <3> QED
        BY <3>1, <3>2
  <2> QED
      BY <2>1
<1>9. \A e \in E : \E k \in 1 .. n : at[k] = e
    BY <1>5, <1>6 DEF Lists
<1>10. ASSUME NEW k \in 1 .. n PROVE at[k] \in H <=> ~Left(out, k - 1)
  <2>1. n \in Nat /\ at[k] \in E
      BY <1>5, <1>6
  <2>2. at[k] \in H <=> \A b \in E : b < at[k] => Say(b) # Boot
      BY <2>1 DEF Channel!Heard, E, H, Say
  <2>3. ASSUME Left(out, k - 1) PROVE \E b \in E : b < at[k] /\ Say(b) = Boot
    <3>1. PICK i \in 1 .. k - 1 : out[i] = Boot
        BY <2>3 DEF Left
    <3>2. i \in 1 .. n /\ i < k
        BY <2>1
    <3> QED
        BY <1>5, <1>6, <1>8, <3>1, <3>2
  <2>4. ASSUME NEW b \in E, b < at[k], Say(b) = Boot PROVE Left(out, k - 1)
    <3>1. PICK i \in 1 .. n : at[i] = b
        BY <1>9
    <3>2. i < k
        BY <1>8, <2>4, <3>1
    <3>3. i \in 1 .. k - 1
        BY <2>1, <3>2
    <3> QED
        BY <1>6, <2>4, <3>1, <3>3 DEF Left
  <2> QED
      BY <2>2, <2>3, <2>4
<1>11. H \subseteq E
    BY DEF H, E, Channel!Heard
<1>12. r.booted <=> \E e \in E : Say(e) = Boot
  <2>1. r.booted <=> \E k \in 1 .. n : out[k] = Boot
      BY <1>7 DEF Heeded, Left
  <2> QED
      BY <1>5, <1>6, <1>9, <2>1
<1>13. r.ping <=> g_ping \/ \E e \in H : Say(e) = Ping
  <2>1. r.ping <=> g_ping \/ \E k \in 1 .. n : out[k] = Ping /\ ~Left(out, k - 1)
      BY <1>7 DEF Heeded
  <2>2. (\E k \in 1 .. n : out[k] = Ping /\ ~Left(out, k - 1)) <=> \E e \in H : Say(e) = Ping
      BY <1>6, <1>9, <1>10, <1>11
  <2> QED
      BY <2>1, <2>2
<1> DEFINE C == {e \in H : Say(e) \in Commands}
           K == Queued(out, n)
<1>14. {at[k] : k \in K} = C /\ K \in SUBSET (1 .. n)
  <2>1. K \in SUBSET (1 .. n) /\ \A k \in 1 .. n : k \in K <=> out[k] \in Commands /\ ~Left(out, k - 1)
      BY DEF Queued
  <2>2. \A k \in 1 .. n : at[k] \in C <=> k \in K
      BY <1>6, <1>10, <2>1
  <2>3. ASSUME NEW e \in C PROVE \E k \in K : at[k] = e
      BY <1>9, <1>11, <2>2
  <2> HIDE DEF C, K
  <2> QED
      BY <2>1, <2>2, <2>3
<1>15. PICK ks : /\ Lists(ks, K)
                 /\ QueueOf(r.slots, r.head, tail) =
                       Channel!Fitting(InQueue \o [k \in 1 .. Len(ks) |-> out[ks[k]]])
    BY <1>7 DEF Heeded
<1> DEFINE ps == [i \in 1 .. Len(ks) |-> at[ks[i]]]
<1> HIDE DEF C, K
<1>16. Lists(ps, C)
  <2>1. E \in SUBSET Nat
      BY <1>1, <1>4 DEF m, E
  <2>2. Lists(ps, {at[k] : k \in K})
      BY <1>5, <1>6, <1>14, <1>15, <2>1, ListsSome
  <2> QED
      BY <1>14, <2>2
<1>17. ks \in Seq(K) /\ Len(ks) \in Nat /\ \A i \in 1 .. Len(ks) : ks[i] \in 1 .. n
  <2>1. ks \in Seq(K)
      BY <1>15 DEF Lists
  <2> QED
      BY <1>14, <2>1, LenProperties, ElementOfSeq
<1>18. [k \in 1 .. Len(ks) |-> out[ks[k]]] = [k \in DOMAIN ps |-> Say(ps[k])]
  <2>1. DOMAIN ps = 1 .. Len(ks) /\ \A k \in 1 .. Len(ks) : out[ks[k]] = Say(ps[k])
      BY <1>6, <1>17
  <2> QED
      BY <2>1
<1>19. ps \in Channel!InOrder(C)
  <2>1. ps \in Seq(C) /\ Len(ps) \in Nat /\ ps \in [1 .. Len(ps) -> C]
      BY <1>16, LenProperties DEF Lists
  <2>2. C \in SUBSET (1 .. m)
      BY <1>4, <1>11 DEF C, E, m
  <2>3. Len(ps) <= m
      BY <1>1, <1>16, <2>2, ListsLength DEF m
  <2>4. Len(ps) \in 0 .. PacketBytes
      BY <1>1, <2>1, <2>3 DEF m
  <2> HIDE DEF ps
  <2> QED
      BY <1>16, <2>1, <2>4 DEF Lists, Channel!InOrder
<1> HIDE DEF ps
<1>20. \E p \in Channel!InOrder(C) :
          QueueOf(r.slots, r.head, tail) = Channel!Fitting(InQueue \o [k \in DOMAIN p |-> Say(p[k])])
    BY <1>15, <1>18, <1>19
<1>21. r \in Rings
    BY <1>7 DEF Heeded
<1> QED
    BY <1>2, <1>12, <1>13, <1>20, <1>21 DEF C, E, H, Say, m

-----------------------------------------------------------------------------
(* Every step keeps the invariant and is a step of the channel.             *)

\* The refinement's queue is the one the lemmas speak of.
LEMMA QueueIs ==
    /\ [k \in 1 .. InRing |-> slots[(tail + k - 1) % Capacity]] = InQueue
    /\ [k \in 1 .. InRing' |-> slots'[(tail' + k - 1) % Capacity]] = InQueue'
BY DEF InRing, InQueue, QueueOf

\* A packet does to the oldest command nothing.
LEMMA FrontStays ==
    ASSUME NEW q \in Seq(Commands), NEW x \in Seq(Commands)
    PROVE  /\ Channel!Fitting(q \o x) \in Seq(Commands)
           /\ Len(Channel!Fitting(q \o x)) <= Capacity
           /\ Len(q) # 0 => /\ Len(Channel!Fitting(q \o x)) # 0
                            /\ Channel!Fitting(q \o x)[1] = q[1]
<1> DEFINE y == q \o x
<1>1. /\ y \in Seq(Commands) /\ Len(y) = Len(q) + Len(x) /\ Len(q) \in Nat /\ Len(x) \in Nat
      /\ Capacity \in Nat \ {0}
      /\ \A i \in 1 .. Len(q) + Len(x) : y[i] = IF i <= Len(q) THEN q[i] ELSE x[i - Len(q)]
    BY ConcatProperties, LenProperties, SizesAre
<1> HIDE DEF y
<1>2. /\ Channel!Fitting(y) \in Seq(Commands)
      /\ Len(Channel!Fitting(y)) = (IF Len(y) > Capacity THEN Capacity ELSE Len(y))
      /\ \A k \in 1 .. Len(Channel!Fitting(y)) : Channel!Fitting(y)[k] = y[k]
    BY <1>1, FittingIs
<1>3. ASSUME Len(q) # 0 PROVE Len(Channel!Fitting(y)) # 0 /\ Channel!Fitting(y)[1] = q[1]
  <2>1. 1 \in 1 .. Len(Channel!Fitting(y)) /\ 1 \in 1 .. Len(q) + Len(x) /\ 1 <= Len(q)
      BY <1>1, <1>2, <1>3
  <2> QED
      BY <1>1, <1>2, <2>1
<1>4. Len(Channel!Fitting(y)) <= Capacity
    BY <1>1, <1>2
<1> QED
    BY <1>2, <1>3, <1>4 DEF y

LEMMA ReceiveKeeps ==
    ASSUME RInv, NEW text \in Packets, Receive(text)
    PROVE  RInv' /\ Channel!Receive
<1> DEFINE fed == feed(text)
           r == Delivered(fed.out)
           C == {e \in Channel!Heard(text) : Channel!Since(text, e) \in Commands}
<1>1. /\ ~booted /\ packet' = text /\ line' = fed.line /\ discarding' = fed.discarding
      /\ slots' = r.slots /\ head' = r.head /\ g_ping' = r.ping /\ booted' = r.booted
      /\ owed' \in BOOLEAN /\ tail' = tail /\ block' = block /\ fg' = fg
    BY DEF Receive, RInv, TypeOK
<1>2. /\ Assembled(fed, text, Len(text)) /\ r \in Rings
      /\ \E at \in Channel!InOrder(C) :
            QueueOf(r.slots, r.head, tail) =
               Channel!Fitting(InQueue \o [k \in DOMAIN at |-> Channel!Since(text, at[k])])
      /\ r.ping <=> g_ping \/ \E e \in Channel!Heard(text) : Channel!Since(text, e) = Ping
      /\ r.booted <=> \E e \in Channel!Ends(text) : Channel!Since(text, e) = Boot
    BY <1>1, Meaning
<1> HIDE DEF fed, r
<1>3. /\ fed.line \in Seq(Letters) /\ fed.discarding \in BOOLEAN /\ Len(fed.line) <= MaxLine
      /\ (fed.discarding => fed.line = <<>>)
      /\ Channel!Held(Channel!Since(text, Len(text) + 1)) = IF fed.discarding THEN Overlong ELSE fed.line
    BY <1>2 DEF Assembled, Assemblers
<1>4. r.slots \in Slots /\ r.head \in Indices /\ r.ping \in BOOLEAN /\ r.booted \in BOOLEAN
    BY <1>2 DEF Rings
<1>5. InQueue' = QueueOf(r.slots, r.head, tail)
    BY <1>1 DEF InQueue
<1>6. PICK at \in Channel!InOrder(C) :
          InQueue' = Channel!Fitting(InQueue \o [k \in DOMAIN at |-> Channel!Since(text, at[k])])
    BY <1>2, <1>5
<1> DEFINE x == [k \in DOMAIN at |-> Channel!Since(text, at[k])]
<1>7. x \in Seq(Commands)
  <2>1. PICK n \in 0 .. PacketBytes : at \in [1 .. n -> C]
      BY DEF Channel!InOrder
  <2>2. x \in [1 .. n -> Commands] /\ n \in Nat
      BY <2>1, SizeAssumption
  <2> HIDE DEF x
  <2> QED
      BY <2>2, IsSequence
<1>8. /\ InQueue' \in Seq(Commands) /\ Len(InQueue') <= Capacity
      /\ InRing # 0 => Len(InQueue') # 0 /\ InQueue'[1] = slots[tail % Capacity]
  <2>1. /\ InQueue \in Seq(Commands) /\ Len(InQueue) = InRing
        /\ (InRing # 0 => InQueue[1] = slots[tail % Capacity])
      BY RingIs
  <2>2. /\ Channel!Fitting(InQueue \o x) \in Seq(Commands)
        /\ Len(Channel!Fitting(InQueue \o x)) <= Capacity
        /\ Len(InQueue) # 0 => /\ Len(Channel!Fitting(InQueue \o x)) # 0
                               /\ Channel!Fitting(InQueue \o x)[1] = InQueue[1]
      BY <1>7, <2>1, FrontStays
  <2> QED
      BY <1>6, <2>1, <2>2
<1>9. /\ tail \in Indices /\ InRing' = (r.head - tail) % Wrap /\ Len(InQueue') = InRing'
      /\ InRing' \in Nat /\ (InRing' # 0 => InQueue'[1] = slots'[tail % Capacity])
  <2>1. tail \in Indices /\ InRing' = (r.head - tail) % Wrap
      BY <1>1, RingIs DEF InRing
  <2>2. /\ Len(QueueOf(r.slots, r.head, tail)) = InRing' /\ InRing' \in Nat
        /\ \A k \in 1 .. InRing' : QueueOf(r.slots, r.head, tail)[k] = r.slots[(tail + k - 1) % Capacity]
    <3>1. PICK s \in Slots, h \in Indices, t \in Indices : s = r.slots /\ h = r.head /\ t = tail
        BY <1>4, <2>1
    <3>2. InRing' = (h - t) % Wrap
        BY <2>1, <3>1
    <3>3. /\ Len(QueueOf(s, h, t)) = InRing' /\ InRing' \in Nat
          /\ \A k \in 1 .. InRing' : QueueOf(s, h, t)[k] = s[(t + k - 1) % Capacity]
        BY <3>2, QueueLength
    <3> QED
        BY <3>1, <3>3, Zenon
  <2>3. ASSUME InRing' # 0 PROVE QueueOf(r.slots, r.head, tail)[1] = r.slots[tail % Capacity]
    <3>1. 1 \in 1 .. InRing' /\ tail + 1 - 1 = tail
        BY <2>1, <2>2, <2>3 DEF Indices
    <3> QED
        BY <2>2, <3>1
  <2> QED
      BY <1>1, <1>5, <2>1, <2>2, <2>3
<1>10. TypeOK'
    BY <1>1, <1>3, <1>4, <1>8, <1>9 DEF TypeOK, RInv, Slots, Indices
<1>11. RInv'
  <2>1. block.at # "idle" => InRing' # 0 /\ slots'[tail % Capacity] = slots[tail % Capacity]
      BY <1>8, <1>9 DEF RInv
  <2>2. fg = "clear" => g_ping'
      BY <1>1, <1>2 DEF RInv
  <2> QED
      BY <1>1, <1>3, <1>8, <1>10, <2>1, <2>2 DEF RInv
<1>12. Channel!Receive
  <2>1. text \in Seq(Letters \cup {Newline}) /\ Len(text) \in 1 .. PacketBytes
      BY PacketIs DEF Bytes
  <2>2. (IF discarding THEN Overlong ELSE line)' = Channel!Held(Channel!Since(text, Len(text) + 1))
      BY <1>1, <1>3
  <2>3. g_ping' = (g_ping \/ \E e \in Channel!Heard(text) : Channel!Since(text, e) = Ping)
      BY <1>1, <1>2, <1>4
  <2>4. booted' = \E e \in Channel!Ends(text) : Channel!Since(text, e) = Boot
      BY <1>1, <1>2, <1>4
  <2> QED
      BY <1>1, <1>6, <2>1, <2>2, <2>3, <2>4, QueueIs DEF Channel!Receive
<1> QED
    BY <1>11, <1>12

LEMMA StepKeeps == RInv /\ [Next]_vars => RInv' /\ [Channel!Next]_Channel!vars
<1> SUFFICES ASSUME RInv, [Next]_vars PROVE RInv' /\ [Channel!Next]_Channel!vars
    OBVIOUS
<1>1. ASSUME NEW text \in Packets, Receive(text) PROVE RInv' /\ Channel!Next
    BY <1>1, ReceiveKeeps DEF Channel!Next
<1>2. CASE PopBegin
  <2>1. InRing # 0
    <3>1. head # tail
        BY <1>2 DEF PopBegin
    <3> QED
        BY <3>1, RingIs, DistanceIs
  <2>2. RInv'
      BY <1>2, <2>1 DEF PopBegin, RInv, TypeOK, InRing, InQueue
  <2>3. Channel!Idle
      BY <1>2, QueueIs DEF PopBegin, Channel!Idle, InRing, InQueue
  <2> QED
      BY <2>2, <2>3 DEF Channel!Next
<1>3. CASE PopCopy
  <2>1. slots[tail % Capacity] \in Commands
      BY <1>3, RingIs DEF PopCopy, RInv
  <2>2. RInv'
      BY <1>3, <2>1 DEF PopCopy, RInv, TypeOK, InRing, InQueue
  <2>3. Channel!Idle
      BY <1>3, QueueIs DEF PopCopy, Channel!Idle, InRing, InQueue
  <2> QED
      BY <2>2, <2>3 DEF Channel!Next
<1>4. CASE PopRelease
  <2>1. /\ packet' = <<>> /\ ~booted /\ block.at = "release" /\ tail' = (tail + 1) % Wrap
        /\ block' = [at |-> "idle", cmd |-> None]
        /\ UNCHANGED <<line, discarding, slots, head, g_ping, booted, fg, owed>>
      BY <1>4 DEF PopRelease
  <2>2. /\ slots \in Slots /\ head \in Indices /\ tail \in Indices /\ InQueue \in Seq(Commands)
        /\ InRing = (head - tail) % Wrap /\ InRing \in Nat /\ InRing <= Capacity /\ InRing # 0
      BY <2>1, RingIs DEF RInv
  <2>3. /\ tail' \in Indices /\ (head - tail') % Wrap = InRing - 1 /\ InQueue # <<>>
        /\ QueueOf(slots, head, tail') = Tail(InQueue)
      BY <2>1, <2>2, PoppedIs DEF InQueue
  <2>4. InRing' = InRing - 1 /\ InQueue' = Tail(InQueue)
      BY <2>1, <2>3 DEF InRing, InQueue
  <2>5. InQueue' \in Seq(Commands) /\ InRing' <= Capacity
    <3>1. Tail(InQueue) \in Seq(Commands)
        BY <2>2, <2>3, HeadTailProperties
    <3>2. \A n \in Nat : n <= Capacity => n - 1 <= Capacity
        BY SizesAre
    <3> QED
        BY <2>2, <2>4, <3>1, <3>2
  <2>6. RInv'
      BY <2>1, <2>3, <2>5 DEF RInv, TypeOK, Indices
  <2>7. Channel!Take
      BY <2>1, <2>3, <2>4, QueueIs DEF Channel!Take
  <2> QED
      BY <2>6, <2>7 DEF Channel!Next
<1>5. CASE SeePing
  <2>1. RInv'
      BY <1>5 DEF SeePing, AfterFg, RInv, TypeOK, InRing, InQueue
  <2>2. Channel!Idle
      BY <1>5, QueueIs DEF SeePing, Channel!Idle, InRing, InQueue
  <2> QED
      BY <2>1, <2>2 DEF Channel!Next
<1>6. CASE ClearPing
  <2>1. RInv'
      BY <1>6 DEF ClearPing, AfterFg, RInv, TypeOK, InRing, InQueue
  <2>2. Channel!Note
      BY <1>6, QueueIs DEF ClearPing, Channel!Note, InRing, InQueue, RInv
  <2> QED
      BY <2>1, <2>2 DEF Channel!Next
<1>7. CASE PrintPong
  <2>1. RInv'
      BY <1>7 DEF PrintPong, AfterFg, RInv, TypeOK, InRing, InQueue
  <2>2. Channel!Idle
      BY <1>7, QueueIs DEF PrintPong, Channel!Idle, InRing, InQueue
  <2> QED
      BY <2>1, <2>2 DEF Channel!Next
<1>8. CASE UNCHANGED vars
  <2>1. RInv'
      BY <1>8 DEF vars, RInv, TypeOK, InRing, InQueue
  <2>2. UNCHANGED Channel!vars
      BY <1>8, QueueIs DEF vars, Channel!vars, InRing, InQueue
  <2> QED
      BY <2>1, <2>2
<1> QED
    BY <1>1, <1>2, <1>3, <1>4, <1>5, <1>6, <1>7, <1>8 DEF Next, Callback, Foreground

LEMMA InitKeeps == Init => RInv /\ Channel!Init
<1> SUFFICES ASSUME Init PROVE RInv /\ Channel!Init
    OBVIOUS
<1>1. 0 \in Indices /\ 0 \in Nat /\ MaxLine \in Nat /\ Capacity \in Nat
    BY SizesAre, SizeAssumption DEF Indices
<1>2. InRing = 0
  <2>1. head \in Indices /\ tail \in Indices /\ head = tail /\ InRing = (head - tail) % Wrap
      BY <1>1 DEF Init, InRing
  <2> QED
      BY <2>1, DistanceIs
<1>3. InQueue = <<>> /\ InQueue \in Seq(Commands)
  <2>1. InQueue = [k \in 1 .. 0 |-> slots[(tail + k - 1) % Capacity]]
      BY <1>2 DEF InQueue, QueueOf, InRing
  <2>2. InQueue = <<>>
      BY <2>1
  <2> QED
      BY <2>2, EmptySeq
<1>4. TypeOK
  <2>1. line \in Seq(Letters) /\ Len(line) = 0
      BY EmptySeq DEF Init
  <2>2. Len(line) <= MaxLine
      BY <1>1, <2>1
  <2>3. slots \in [0 .. Capacity - 1 -> Commands \cup {None}]
      BY DEF Init
  <2>4. head \in 0 .. Wrap - 1 /\ tail \in 0 .. Wrap - 1 /\ InRing <= Capacity
      BY <1>1, <1>2, SizesAre DEF Init, Indices
  <2> QED
      BY <2>1, <2>2, <2>3, <2>4 DEF Init, TypeOK
<1>5. Channel!Init
    BY <1>3, QueueIs DEF Init, Channel!Init
<1> QED
    BY <1>3, <1>4, <1>5 DEF RInv, Init

-----------------------------------------------------------------------------
(* The theorems.                                                            *)

\* The ring's commands are what its indices enclose; a pop under way has something to
\* pop and has copied the oldest.
THEOREM ChannelInvariance == Spec => []RInv
<1>1. Init => RInv
    BY InitKeeps
<1>2. RInv /\ [Next]_vars => RInv'
    BY StepKeeps
<1> QED
    BY <1>1, <1>2, PTL DEF Spec

\* A line never outgrows its buffer, and the ring never holds more than its slots.
THEOREM TypeCorrect == Spec => []TypeOK
<1>1. RInv => TypeOK
    BY DEF RInv
<1> QED
    BY <1>1, ChannelInvariance, PTL

\* The callback acts on the oldest command, although the interrupt may push while it
\* is copied and released.
THEOREM CopiesAreOldest == Spec => []CopyIsOldest
<1>1. RInv => CopyIsOldest
  <2> SUFFICES ASSUME RInv, block.at = "release"
               PROVE  block.cmd # None /\ block.cmd = slots[tail % Capacity]
      BY DEF CopyIsOldest
  <2>1. InRing # 0 /\ block.cmd = slots[tail % Capacity]
      BY DEF RInv
  <2> QED
      BY <2>1, RingIs, NoneAssumption
<1> QED
    BY <1>1, ChannelInvariance, PTL

\* However the text is cut into packets, the assembler, the interrupt and the ring do
\* with it what the channel promises.
THEOREM RingIsTheChannel == Spec => ImplementsChannel
<1>1. Init => Channel!Init
    BY InitKeeps
<1>2. RInv /\ [Next]_vars => [Channel!Next]_Channel!vars
    BY StepKeeps
<1> QED
    BY <1>1, <1>2, ChannelInvariance, PTL DEF Spec, ImplementsChannel, Channel!Spec
=============================================================================
