-------------------------- MODULE SlaDueDateProofs --------------------------
(***************************************************************************)
(* Theorems of SlaDueDate, for any tickets, rules and calendars, any       *)
(* length of a minute, a day and a week, and any number of turns.          *)
(***************************************************************************)
EXTENDS SlaDueDate, FiniteSetTheorems, NaturalsInduction, TLAPS

(***************************************************************************)
(* Numbers.                                                                *)
(***************************************************************************)

(* A non-empty set of numbers has a least one.                             *)
LEMMA LeastNumber ==
  ASSUME NEW S \in SUBSET Nat, S # {}
  PROVE  \E k \in S : \A j \in S : k <= j
  <1>1. \E k \in S : \A j \in S : <<j, k>> \notin OpToRel(<, Nat)
    BY NatLessThanWellFounded, WFMin
  <1>2. PICK k \in S : \A j \in S : <<j, k>> \notin OpToRel(<, Nat)
    BY <1>1
  <1>3. ASSUME NEW j \in S PROVE k <= j
    <2>1. ~(j < k)
      BY <1>2 DEF OpToRel
    <2> QED
      BY <2>1
  <1> QED
    BY <1>3

LEMMA Quotient ==
  ASSUME NEW a \in Int, NEW b \in Nat \ {0}
  PROVE  /\ a \div b \in Int /\ a % b \in 0..(b - 1)
         /\ a = b * (a \div b) + (a % b)
  BY SMT

(* There is one way to write a number as so many b and a rest.             *)
LEMMA OneQuotient ==
  ASSUME NEW b \in Nat \ {0}, NEW q \in Int, NEW r \in 0..(b - 1), NEW a \in Int, a = q * b + r
  PROVE  a \div b = q /\ a % b = r
  BY SMT

LEMMA WholeDifference ==
  ASSUME NEW a \in Int, NEW b \in Int, NEW c \in Nat \ {0}, a % c = 0, b % c = 0
  PROVE  (a - b) % c = 0
  <1> DEFINE p == a \div c
             q == b \div c
  <1>1. p \in Int /\ a = c * p + (a % c)
    BY Quotient
  <1>2. q \in Int /\ b = c * q + (b % c)
    BY Quotient
  <1> HIDE DEF p, q
  <1>3. a = c * p /\ b = c * q
    BY <1>1, <1>2
  <1> DEFINE d == a - b
             k == p - q
  <1>4. d = k * c + 0 /\ k \in Int /\ d \in Int /\ 0 \in 0..(c - 1)
    BY <1>1, <1>2, <1>3
  <1> HIDE DEF d, k
  <1>5. d % c = 0
    BY <1>4, OneQuotient
  <1> QED
    BY <1>5 DEF d

LEMMA Monotone ==
  ASSUME NEW a \in Int, NEW b \in Int, NEW c \in Nat, a <= b
  PROVE  a * c \in Int /\ b * c \in Int /\ a * c <= b * c
  BY SMT

LEMMA Distributes ==
  ASSUME NEW a \in Int, NEW b \in Int, NEW c \in Int
  PROVE  /\ (a + b) * c = a * c + b * c
         /\ (a - b) * c = a * c - b * c
         /\ {a * c, b * c} \subseteq Int
         /\ c * a = a * c
  BY SMT

(* A minute is no longer than a day.                                       *)
LEMMA Units ==
  /\ {Minute, Day, Week, MaxIterations} \subseteq Nat \ {0}
  /\ Minute <= Day
  /\ Minute \div 2 \in Nat
  /\ Minute <= 2 * (Minute \div 2) + 1 /\ 2 * (Minute \div 2) <= Minute
  <1>1. {Minute, Day, Week, MaxIterations} \subseteq Nat \ {0} /\ Day % Minute = 0
    BY SlaDueDateAssumption
  <1>2. Minute <= Day
    <2>1. SUFFICES ASSUME Day < Minute PROVE FALSE
      BY <1>1
    <2>2. Day % Minute = Day
      <3>1. Day = 0 * Minute + Day /\ Day \in 0..(Minute - 1) /\ 0 \in Int /\ Day \in Int
        BY <1>1, <2>1
      <3> QED
        BY <1>1, <3>1, OneQuotient
    <2> QED
      BY <1>1, <2>2
  <1> QED
    BY <1>1, <1>2

(* Rounding to minutes errs by half a minute at most, and not at all where *)
(* there are whole minutes.                                                *)
LEMMA RoundedIsNear ==
  ASSUME NEW u \in Nat
  PROVE  /\ Rounded(u) \in Nat
         /\ Rounded(u) * Minute \in Nat
         /\ 2 * (Rounded(u) * Minute) <= 2 * u + Minute
         /\ 2 * u <= 2 * (Rounded(u) * Minute) + Minute
         /\ u % Minute = 0 => Rounded(u) * Minute = u
  <1> DEFINE M == Minute
             a == 2 * u + M
             q == a \div (2 * M)
             r == a % (2 * M)
  <1>1. M \in Nat \ {0} /\ 2 * M \in Nat \ {0} /\ a \in Nat
    BY Units
  <1>2. q \in Int /\ r \in 0..(2 * M - 1) /\ a = (2 * M) * q + r
    <2> DEFINE b == 2 * M
    <2>1. b \in Nat \ {0} /\ a \in Int
      BY <1>1
    <2> HIDE DEF a, b
    <2>2. /\ a \div b \in Int /\ a % b \in 0..(b - 1)
          /\ a = b * (a \div b) + (a % b)
      BY <2>1, Quotient
    <2> QED
      BY <2>2 DEF b
  <1>3. (2 * M) * q = 2 * (q * M) /\ q * M \in Int
    BY <1>1, <1>2
  <1>4. q \in Nat
    BY <1>1, <1>2
  <1>5. q * M \in Nat
    BY <1>1, <1>4
  <1>6. 2 * (q * M) <= 2 * u + M /\ 2 * u <= 2 * (q * M) + M
    <2>1. a = 2 * (q * M) + r
      BY <1>2, <1>3
    <2>2. ASSUME NEW w \in Int, NEW s \in 0..(2 * M - 1), 2 * u + M = 2 * w + s
          PROVE  2 * w <= 2 * u + M /\ 2 * u <= 2 * w + M
      BY <1>1, <2>2
    <2> HIDE DEF q, r
    <2> QED
      BY <1>2, <1>3, <2>1, <2>2
  <1>7. ASSUME u % M = 0 PROVE q * M = u
    <2>1. u \div M \in Int /\ u = M * (u \div M) + 0
      BY <1>1, <1>7, Quotient
    <2>2. a = (u \div M) * (2 * M) + M /\ M \in 0..(2 * M - 1)
      BY <1>1, <2>1
    <2>3. q = u \div M
      <3> HIDE DEF M, a
      <3> QED
        BY <1>1, <2>1, <2>2, OneQuotient
    <2> QED
      BY <1>1, <2>1, <2>3
  <1>8. Rounded(u) = q
    BY DEF Rounded
  <1> QED
    BY <1>4, <1>5, <1>6, <1>7, <1>8

(***************************************************************************)
(* Open time.                                                              *)
(***************************************************************************)

OpenIn(hs, ex, a, b) == {t \in a..(b - 1) : OpenAt(hs, ex, t)}

LEMMA OpenTimeIsFinite ==
  ASSUME NEW hs, NEW ex, NEW a \in Int, NEW b \in Int
  PROVE  /\ IsFiniteSet(OpenIn(hs, ex, a, b))
         /\ OpenTime(hs, ex, a, b) = Cardinality(OpenIn(hs, ex, a, b))
         /\ OpenTime(hs, ex, a, b) \in Nat
         /\ a <= b => OpenTime(hs, ex, a, b) <= b - a
  <1>1. OpenTime(hs, ex, a, b) = Cardinality(OpenIn(hs, ex, a, b))
    BY DEF OpenTime, OpenIn
  <1>2. /\ IsFiniteSet(a..(b - 1))
        /\ a <= b => Cardinality(a..(b - 1)) = b - a
    <2>1. b - 1 \in Int
      OBVIOUS
    <2>2. /\ IsFiniteSet(a..(b - 1))
          /\ Cardinality(a..(b - 1)) = IF a > b - 1 THEN 0 ELSE (b - 1) - a + 1
      BY <2>1, FS_Interval
    <2> QED
      BY <2>2
  <1>3. OpenIn(hs, ex, a, b) \in SUBSET (a..(b - 1))
    BY DEF OpenIn
  <1>4. /\ IsFiniteSet(OpenIn(hs, ex, a, b))
        /\ Cardinality(OpenIn(hs, ex, a, b)) <= Cardinality(a..(b - 1))
    BY <1>2, <1>3, FS_Subset
  <1>5. Cardinality(OpenIn(hs, ex, a, b)) \in Nat
    BY <1>4, FS_CardinalityType
  <1> QED
    BY <1>1, <1>2, <1>4, <1>5

(* Where it is never open there is no open time; where it is always open,  *)
(* all of it.                                                              *)
LEMMA NeverOpen ==
  ASSUME NEW hs, NEW ex, NEW a \in Int, NEW b \in Int, \A t \in a..(b - 1) : ~OpenAt(hs, ex, t)
  PROVE  OpenTime(hs, ex, a, b) = 0
  <1>1. OpenIn(hs, ex, a, b) = {}
    BY DEF OpenIn
  <1> QED
    BY <1>1, OpenTimeIsFinite, FS_EmptySet

LEMMA AlwaysOpen ==
  ASSUME NEW hs, NEW ex, NEW a \in Int, NEW b \in Int, a <= b, \A t \in a..(b - 1) : OpenAt(hs, ex, t)
  PROVE  OpenTime(hs, ex, a, b) = b - a
  <1>1. OpenIn(hs, ex, a, b) = a..(b - 1)
    BY DEF OpenIn
  <1>2. b - 1 \in Int
    OBVIOUS
  <1>3. Cardinality(a..(b - 1)) = IF a > b - 1 THEN 0 ELSE (b - 1) - a + 1
    BY <1>2, FS_Interval
  <1>4. OpenTime(hs, ex, a, b) = Cardinality(a..(b - 1))
    BY <1>1, OpenTimeIsFinite
  <1> QED
    BY <1>3, <1>4

(* Open time adds up.                                                      *)
LEMMA OpenTimeAdds ==
  ASSUME NEW hs, NEW ex, NEW a \in Int, NEW b \in Int, NEW c \in Int, a <= b, b <= c
  PROVE  OpenTime(hs, ex, a, c) = OpenTime(hs, ex, a, b) + OpenTime(hs, ex, b, c)
  <1> DEFINE S == OpenIn(hs, ex, a, b)
             T == OpenIn(hs, ex, b, c)
  <1>1. IsFiniteSet(S) /\ IsFiniteSet(T)
    BY OpenTimeIsFinite
  <1>2. S \cap T = {} /\ OpenIn(hs, ex, a, c) = S \cup T
    BY DEF OpenIn
  <1>3. Cardinality(S) \in Nat /\ Cardinality(T) \in Nat
    BY <1>1, FS_CardinalityType
  <1>4. Cardinality(S \cup T) = Cardinality(S) + Cardinality(T) - Cardinality(S \cap T)
    BY <1>1, FS_Union
  <1>5. Cardinality(S \cap T) = 0
    BY <1>2, FS_EmptySet
  <1>6. Cardinality(OpenIn(hs, ex, a, c)) = Cardinality(S) + Cardinality(T)
    BY <1>2, <1>3, <1>4, <1>5
  <1> QED
    BY <1>6, OpenTimeIsFinite

(* Two calendars that agree on a time have the same open time in it.       *)
LEMMA SameOpenTime ==
  ASSUME NEW hs, NEW ex, NEW hs2, NEW ex2, NEW a \in Int, NEW b \in Int,
         \A t \in a..(b - 1) : OpenAt(hs, ex, t) = OpenAt(hs2, ex2, t)
  PROVE  OpenTime(hs, ex, a, b) = OpenTime(hs2, ex2, a, b)
  <1>1. OpenIn(hs, ex, a, b) = OpenIn(hs2, ex2, a, b)
    BY Zenon DEF OpenIn
  <1> QED
    BY <1>1, OpenTimeIsFinite

(* The hours of a day, and the instants of the day they are.               *)
DayHours(hs, ex, d) ==
  IF d \in DOMAIN ex THEN ex[d] ELSE IF d % Week \in DOMAIN hs THEN hs[d % Week] ELSE Closed

(* A day's hours lie in the day.                                           *)
LEMMA HoursOfDay ==
  ASSUME NEW hs, NEW ex, IsCalendar(hs, 0..(Week - 1)), IsCalendar(ex, Int), NEW d \in Int
  PROVE  /\ DayHours(hs, ex, d) \in Hours
         /\ DayHours(hs, ex, d).from \in 0..Day /\ DayHours(hs, ex, d).to \in 0..Day
  <1>1. Closed \in Hours
    BY Units DEF Closed, Hours
  <1>2. d \in DOMAIN ex => ex[d] \in Hours
    BY DEF IsCalendar
  <1>3. d % Week \in DOMAIN hs => hs[d % Week] \in Hours
    BY DEF IsCalendar
  <1>4. DayHours(hs, ex, d) \in Hours
    BY <1>1, <1>2, <1>3 DEF DayHours
  <1> QED
    BY <1>4 DEF Hours

(* The agency is open at x of a day if x is in the day's hours.            *)
LEMMA OpenOnDay ==
  ASSUME NEW hs, NEW ex, NEW d \in Int, NEW x \in 0..(Day - 1)
  PROVE  /\ d * Day + x \in Int
         /\ OpenAt(hs, ex, d * Day + x) =
              (DayHours(hs, ex, d).from <= x /\ x < DayHours(hs, ex, d).to)
  <1>1. Day \in Nat \ {0} /\ d * Day \in Int
    BY Units
  <1>2. d * Day + x \in Int
    BY <1>1
  <1>3. (d * Day + x) \div Day = d /\ (d * Day + x) % Day = x
    BY <1>1, <1>2, OneQuotient
  <1> QED
    BY <1>2, <1>3 DEF OpenAt, DayHours

(* Within a day: the open time of a part that is shut, or open.            *)
LEMMA PartOfDay ==
  ASSUME NEW hs, NEW ex, NEW d \in Int, NEW a \in 0..Day, NEW b \in 0..Day, a <= b
  PROVE  LET h == DayHours(hs, ex, d) IN
         /\ (\A x \in a..(b - 1) : ~(h.from <= x /\ x < h.to)) =>
              OpenTime(hs, ex, d * Day + a, d * Day + b) = 0
         /\ (\A x \in a..(b - 1) : h.from <= x /\ x < h.to) =>
              OpenTime(hs, ex, d * Day + a, d * Day + b) = b - a
  <1> DEFINE h == DayHours(hs, ex, d)
             y == d * Day
             p == y + a
             q == y + b
  <1>1. y \in Int /\ Day \in Nat \ {0} /\ a \in Int /\ b \in Int
    BY Units
  <1>2. \A x \in 0..(Day - 1) : OpenAt(hs, ex, y + x) = (h.from <= x /\ x < h.to)
    BY OpenOnDay
  <1> HIDE DEF h, y
  <1>3. p \in Int /\ q \in Int /\ p <= q /\ q - p = b - a
    BY <1>1
  <1>4. \A t \in p..(q - 1) : t - y \in a..(b - 1) /\ t - y \in 0..(Day - 1) /\ y + (t - y) = t
    BY <1>1
  <1> HIDE DEF p, q
  <1>5. ASSUME \A x \in a..(b - 1) : ~(h.from <= x /\ x < h.to)
        PROVE  OpenTime(hs, ex, p, q) = 0
    <2>1. \A t \in p..(q - 1) : ~OpenAt(hs, ex, t)
      BY <1>2, <1>4, <1>5
    <2> QED
      BY <1>3, <2>1, NeverOpen
  <1>6. ASSUME \A x \in a..(b - 1) : h.from <= x /\ x < h.to
        PROVE  OpenTime(hs, ex, p, q) = b - a
    <2>1. \A t \in p..(q - 1) : OpenAt(hs, ex, t)
      BY <1>2, <1>4, <1>6
    <2>2. OpenTime(hs, ex, p, q) = q - p
      BY <1>3, <2>1, AlwaysOpen
    <2> QED
      BY <1>3, <2>2
  <1> QED
    BY <1>5, <1>6 DEF h, y, p, q

(* What is left of a day from a: nothing where its hours are over, else    *)
(* from there, or from when they begin, to when they end. And from a to e, *)
(* an instant after that beginning.                                        *)
LEMMA RestOfDay ==
  ASSUME NEW hs, NEW ex, IsCalendar(hs, 0..(Week - 1)), IsCalendar(ex, Int), NEW d \in Int,
         NEW a \in 0..(Day - 1), NEW s \in Nat, s = Later(a, DayHours(hs, ex, d).from)
  PROVE  LET h == DayHours(hs, ex, d) IN
         /\ h.to <= s => OpenTime(hs, ex, d * Day + a, d * Day + Day) = 0
         /\ s < h.to => OpenTime(hs, ex, d * Day + a, d * Day + Day) = h.to - s
         /\ \A e \in Nat : s < h.to /\ s <= e =>
              /\ OpenTime(hs, ex, d * Day + a, d * Day + e) <= e - s
              /\ e <= h.to => OpenTime(hs, ex, d * Day + a, d * Day + e) = e - s
              /\ h.to <= e => h.to - s <= OpenTime(hs, ex, d * Day + a, d * Day + e)
  <1> DEFINE h == DayHours(hs, ex, d)
             y == d * Day
             O(p, q) == OpenTime(hs, ex, y + p, y + q)
  <1>1. /\ y \in Int /\ Day \in Nat \ {0} /\ h.from \in 0..Day /\ h.to \in 0..Day
        /\ a <= s /\ h.from <= s /\ (s = a \/ s = h.from)
    <2>1. y \in Int /\ Day \in Nat \ {0}
      BY Units
    <2>2. h.from \in 0..Day /\ h.to \in 0..Day
      BY HoursOfDay
    <2> HIDE DEF h
    <2>3. a <= s /\ h.from <= s /\ (s = a \/ s = h.from)
      <3>1. s = IF a < h.from THEN h.from ELSE a
        BY DEF Later, h
      <3> QED
        BY <2>1, <2>2, <3>1
    <2> QED
      BY <2>1, <2>2, <2>3
  <1>2. \A p \in 0..Day, q \in 0..Day : p <= q =>
          /\ (\A x \in p..(q - 1) : ~(h.from <= x /\ x < h.to)) => O(p, q) = 0
          /\ (\A x \in p..(q - 1) : h.from <= x /\ x < h.to) => O(p, q) = q - p
    BY PartOfDay
  <1>3. \A p, q, r \in Nat : p <= q /\ q <= r => O(p, r) = O(p, q) + O(q, r)
    <2> TAKE p, q, r \in Nat
    <2> HAVE p <= q /\ q <= r
    <2>1. y + p \in Int /\ y + q \in Int /\ y + r \in Int /\ y + p <= y + q /\ y + q <= y + r
      BY <1>1
    <2> QED
      BY <2>1, OpenTimeAdds
  <1>4. \A p, q \in Nat : p <= q => O(p, q) \in Nat /\ O(p, q) <= q - p
    <2> TAKE p, q \in Nat
    <2> HAVE p <= q
    <2>1. y + p \in Int /\ y + q \in Int /\ y + p <= y + q /\ (y + q) - (y + p) = q - p
      BY <1>1
    <2>2. O(p, q) \in Nat /\ O(p, q) <= (y + q) - (y + p)
      BY <2>1, OpenTimeIsFinite
    <2> QED
      BY <2>1, <2>2
  <1> HIDE DEF h, O
  <1>5. ASSUME h.to <= s PROVE O(a, Day) = 0
    <2>1. \A x \in a..(Day - 1) : ~(h.from <= x /\ x < h.to)
      BY <1>1, <1>5
    <2>2. a \in 0..Day /\ Day \in 0..Day /\ a <= Day
      BY <1>1
    <2> QED
      BY <1>2, <2>1, <2>2
  <1>6. ASSUME s < h.to
        PROVE  /\ O(a, s) = 0 /\ O(s, h.to) = h.to - s /\ O(h.to, Day) = 0
               /\ {a, s, h.to, Day} \subseteq 0..Day /\ a <= s /\ s <= h.to /\ h.to <= Day
    <2>1. {a, s, h.to, Day} \subseteq 0..Day /\ a <= s /\ s <= h.to /\ h.to <= Day
      BY <1>1, <1>6
    <2>2. \A x \in a..(s - 1) : ~(h.from <= x /\ x < h.to)
      BY <1>1
    <2>3. \A x \in s..(h.to - 1) : h.from <= x /\ x < h.to
      BY <1>1
    <2>4. \A x \in h.to..(Day - 1) : ~(h.from <= x /\ x < h.to)
      BY <1>1
    <2>5. O(a, s) = 0
      BY <1>2, <2>1, <2>2
    <2>6. O(s, h.to) = h.to - s
      BY <1>2, <2>1, <2>3
    <2>7. O(h.to, Day) = 0
      BY <1>2, <2>1, <2>4
    <2> QED
      BY <2>1, <2>5, <2>6, <2>7
  <1>7. ASSUME s < h.to PROVE O(a, Day) = h.to - s
    <2>1. {a, s, h.to, Day} \subseteq Nat /\ a <= s /\ s <= h.to /\ h.to <= Day
      BY <1>6, <1>7
    <2>2. O(a, Day) = O(a, s) + O(s, Day) /\ O(s, Day) = O(s, h.to) + O(h.to, Day)
      BY <1>3, <2>1
    <2> QED
      BY <1>6, <1>7, <2>1, <2>2
  <1>8. ASSUME NEW e \in Nat, s < h.to, s <= e
        PROVE  /\ O(a, e) <= e - s
               /\ e <= h.to => O(a, e) = e - s
               /\ h.to <= e => h.to - s <= O(a, e)
    <2>1. {a, s, h.to, Day} \subseteq Nat /\ a <= s /\ s <= h.to /\ h.to <= Day
      BY <1>6, <1>8
    <2>2. O(a, e) = O(s, e) /\ O(s, e) \in Nat
      <3>1. O(a, e) = O(a, s) + O(s, e)
        BY <1>3, <1>8, <2>1
      <3>2. O(a, s) = 0 /\ O(s, e) \in Nat
        BY <1>4, <1>6, <1>8, <2>1
      <3> QED
        BY <3>1, <3>2
    <2>3. O(s, e) <= e - s
      BY <1>4, <1>8, <2>1
    <2>4. ASSUME e <= h.to PROVE O(s, e) = e - s
      <3>1. \A x \in s..(e - 1) : h.from <= x /\ x < h.to
        BY <1>1, <1>8, <2>1, <2>4
      <3>2. s \in 0..Day /\ e \in 0..Day
        BY <1>1, <1>8, <2>1, <2>4
      <3> QED
        BY <1>2, <1>8, <3>1, <3>2
    <2>5. ASSUME h.to <= e PROVE h.to - s <= O(s, e)
      <3>1. s \in Nat /\ h.to \in Nat /\ s <= h.to
        BY <2>1
      <3>2. O(s, e) = O(s, h.to) + O(h.to, e)
        BY <1>3, <2>5, <3>1
      <3>3. O(h.to, e) \in Nat
        BY <1>4, <2>5, <3>1
      <3>4. O(s, h.to) = h.to - s
        BY <1>6, <1>8
      <3> QED
        BY <3>1, <3>2, <3>3, <3>4
    <2> QED
      BY <2>2, <2>3, <2>4, <2>5
  <1> QED
    BY <1>5, <1>7, <1>8 DEF h, O, y

(***************************************************************************)
(* One turn of the walk.                                                   *)
(***************************************************************************)

(* A turn starts at a moment of the day proper.                            *)
InDay == [day : Int, time : 0..(Day - 1)]

IsReading(rd) ==
  /\ rd = [hours |-> rd.hours, exceptions |-> rd.exceptions]
  /\ IsCalendar(rd.hours, 0..(Week - 1)) /\ IsCalendar(rd.exceptions, Int)

IsWhole(rd) == InWholeMinutes(rd.hours) /\ InWholeMinutes(rd.exceptions)

(* The hours a walk that has read rd finds at m, when it starts to count,  *)
(* how many minutes it can count, and where r of them take it.             *)
HoursIn(rd, m) ==
  IF UtcDate(m) \in DOMAIN rd.exceptions THEN rd.exceptions[UtcDate(m)]
  ELSE IF m.day % Week \in DOMAIN rd.hours THEN rd.hours[m.day % Week] ELSE Closed

StartIn(rd, m) == Later(m.time, HoursIn(rd, m).from)

Gain(rd, m) ==
  IF StartIn(rd, m) < HoursIn(rd, m).to THEN Rounded(HoursIn(rd, m).to - StartIn(rd, m)) ELSE 0

Inside(rd, m, r) == [m EXCEPT !.time = StartIn(rd, m) + r * Minute]

(* A turn starts to count no earlier than it is at, nor than the hours.    *)
LEMMA TurnType ==
  ASSUME NEW rd, IsReading(rd), NEW m \in InDay
  PROVE  /\ m.day \in Int /\ m.time \in 0..(Day - 1) /\ m = [day |-> m.day, time |-> m.time]
         /\ HoursIn(rd, m).from \in 0..Day /\ HoursIn(rd, m).to \in 0..Day
         /\ StartIn(rd, m) \in Nat
         /\ m.time <= StartIn(rd, m) /\ HoursIn(rd, m).from <= StartIn(rd, m)
         /\ StartIn(rd, m) \in {m.time, HoursIn(rd, m).from}
         /\ Gain(rd, m) \in Nat
  <1> DEFINE h == HoursIn(rd, m)
  <1>1. m.day \in Int /\ m.time \in 0..(Day - 1) /\ m = [day |-> m.day, time |-> m.time]
    BY DEF InDay
  <1>2. h \in Hours
    <2>1. Closed \in Hours
      BY Units DEF Closed, Hours
    <2>2. UtcDate(m) \in DOMAIN rd.exceptions => rd.exceptions[UtcDate(m)] \in Hours
      BY DEF IsReading, IsCalendar
    <2>3. m.day % Week \in DOMAIN rd.hours => rd.hours[m.day % Week] \in Hours
      BY DEF IsReading, IsCalendar
    <2> QED
      BY <2>1, <2>2, <2>3 DEF HoursIn
  <1>3. h.from \in 0..Day /\ h.to \in 0..Day
    BY <1>2 DEF Hours
  <1>4. StartIn(rd, m) = IF m.time < h.from THEN h.from ELSE m.time
    BY DEF StartIn, Later
  <1> HIDE DEF h
  <1>5. /\ StartIn(rd, m) \in Nat /\ m.time <= StartIn(rd, m) /\ h.from <= StartIn(rd, m)
        /\ StartIn(rd, m) \in {m.time, h.from}
    BY <1>1, <1>3, <1>4, Units
  <1>6. Gain(rd, m) \in Nat
    <2>1. CASE StartIn(rd, m) < h.to
      <3>1. h.to - StartIn(rd, m) \in Nat
        BY <1>3, <1>5, <2>1
      <3>2. Rounded(h.to - StartIn(rd, m)) \in Nat
        BY <3>1, RoundedIsNear
      <3> QED
        BY <2>1, <3>2 DEF Gain, h
    <2>2. CASE ~(StartIn(rd, m) < h.to)
      BY <2>2 DEF Gain, h
    <2> QED
      BY <2>1, <2>2
  <1> QED
    BY <1>1, <1>3, <1>5, <1>6 DEF h

(* The minutes gained are what is left of the hours, but for rounding.     *)
LEMMA GainIsNear ==
  ASSUME NEW rd, IsReading(rd), NEW m \in InDay, StartIn(rd, m) < HoursIn(rd, m).to
  PROVE  LET u == HoursIn(rd, m).to - StartIn(rd, m)
             g == Gain(rd, m) * Minute
         IN  /\ u \in Nat /\ g \in Nat
             /\ 2 * g <= 2 * u + Minute /\ 2 * u <= 2 * g + Minute
             /\ u % Minute = 0 => g = u
  <1> DEFINE u == HoursIn(rd, m).to - StartIn(rd, m)
  <1>1. u \in Nat
    BY TurnType
  <1>2. Gain(rd, m) = Rounded(u)
    BY DEF Gain
  <1> HIDE DEF u
  <1>3. /\ Rounded(u) * Minute \in Nat
        /\ 2 * (Rounded(u) * Minute) <= 2 * u + Minute
        /\ 2 * u <= 2 * (Rounded(u) * Minute) + Minute
        /\ u % Minute = 0 => Rounded(u) * Minute = u
    BY <1>1, RoundedIsNear
  <1> QED
    BY <1>1, <1>2, <1>3 DEF u

(* Where the last minutes end: in the hours, or rounded past their end.    *)
LEMMA InsideIsNear ==
  ASSUME NEW rd, IsReading(rd), NEW m \in InDay, NEW r \in 1..Gain(rd, m)
  PROVE  LET e == StartIn(rd, m) + r * Minute IN
         /\ StartIn(rd, m) < HoursIn(rd, m).to
         /\ r * Minute \in Nat /\ Minute <= r * Minute /\ r * Minute <= Gain(rd, m) * Minute
         /\ Inside(rd, m, r) = [day |-> m.day, time |-> e] /\ Inside(rd, m, r) \in Moment
         /\ e \in Nat /\ 2 * e <= 2 * HoursIn(rd, m).to + Minute
  <1> DEFINE h == HoursIn(rd, m)
             s == StartIn(rd, m)
             g == Gain(rd, m)
  <1>1. g \in Nat /\ s \in Nat /\ h.to \in Nat /\ m = [day |-> m.day, time |-> m.time] /\ m.day \in Int
    BY TurnType, Units
  <1>2. s < h.to
    BY <1>1 DEF Gain
  <1>3. /\ g * Minute \in Nat /\ 2 * (g * Minute) <= 2 * (h.to - s) + Minute
    BY <1>2, GainIsNear
  <1>4. r \in Int /\ 1 <= r /\ r <= g /\ Minute \in Nat /\ 1 \in Int
    BY <1>1, Units
  <1>5. Inside(rd, m, r) = [day |-> m.day, time |-> s + r * Minute]
    BY <1>1 DEF Inside
  <1> HIDE DEF h, s, g
  <1>6. r * Minute \in Int /\ 1 * Minute <= r * Minute /\ r * Minute <= g * Minute
    <2>1. g \in Int
      BY <1>1
    <2>2. r * Minute \in Int /\ r * Minute <= g * Minute
      BY <1>4, <2>1, Monotone
    <2>3. 1 * Minute <= r * Minute
      BY <1>4, Monotone
    <2> QED
      BY <2>2, <2>3
  <1>7. r * Minute \in Nat /\ Minute <= r * Minute
    BY <1>4, <1>6
  <1>8. s + r * Minute \in Nat /\ 2 * (s + r * Minute) <= 2 * h.to + Minute
    BY <1>1, <1>3, <1>6, <1>7, Units
  <1>9. Inside(rd, m, r) \in Moment
    BY <1>1, <1>5, <1>8 DEF Moment
  <1> QED
    BY <1>2, <1>5, <1>6, <1>7, <1>8, <1>9 DEF h, s, g

(* In UTC a walk goes by the hours of the day it is at.                    *)
LEMMA HoursInUtc ==
  ASSUME Offset = 0, NEW rd, IsReading(rd), NEW m \in InDay
  PROVE  HoursIn(rd, m) = DayHours(rd.hours, rd.exceptions, m.day)
  <1>1. UtcDate(m) = m.day
    BY DEF UtcDate, InDay
  <1> QED
    BY <1>1 DEF HoursIn, DayHours

(* All this about a turn in UTC.                                           *)
LEMMA TurnInUtc ==
  ASSUME Offset = 0, NEW rd, IsReading(rd), NEW m \in InDay
  PROVE  LET h == HoursIn(rd, m)
             s == StartIn(rd, m)
         IN  /\ h = DayHours(rd.hours, rd.exceptions, m.day) /\ h.to \in Nat /\ s \in Nat
             /\ m.day \in Int /\ m.time \in 0..(Day - 1) /\ m.time <= s /\ s = Later(m.time, h.from)
             /\ IsCalendar(rd.hours, 0..(Week - 1)) /\ IsCalendar(rd.exceptions, Int)
  <1>1. HoursIn(rd, m) = DayHours(rd.hours, rd.exceptions, m.day)
    BY HoursInUtc
  <1>2. HoursIn(rd, m).to \in Nat /\ StartIn(rd, m) \in Nat /\ m.time <= StartIn(rd, m)
    BY TurnType, Units
  <1>3. m.day \in Int /\ m.time \in 0..(Day - 1)
    BY TurnType
  <1>4. StartIn(rd, m) = Later(m.time, HoursIn(rd, m).from)
    BY DEF StartIn
  <1>5. IsCalendar(rd.hours, 0..(Week - 1)) /\ IsCalendar(rd.exceptions, Int)
    BY DEF IsReading
  <1> QED
    BY <1>1, <1>2, <1>3, <1>4, <1>5

(* From midnight, whole hours are counted without rounding.                *)
LEMMA WholeGain ==
  ASSUME NEW rd, IsReading(rd), IsWhole(rd), NEW m \in InDay, m.time = 0,
         StartIn(rd, m) < HoursIn(rd, m).to
  PROVE  Gain(rd, m) * Minute = HoursIn(rd, m).to - StartIn(rd, m)
  <1> DEFINE h == HoursIn(rd, m)
  <1>1. h.from \in Nat /\ h.to \in Nat /\ StartIn(rd, m) = h.from /\ Minute \in Nat \ {0}
    <2>1. h.from \in 0..Day /\ h.to \in 0..Day /\ Minute \in Nat \ {0}
      BY TurnType, Units
    <2>2. StartIn(rd, m) = IF 0 < h.from THEN h.from ELSE 0
      BY DEF StartIn, Later
    <2> QED
      BY <2>1, <2>2
  <1>2. h.from % Minute = 0 /\ h.to % Minute = 0
    <2>1. Closed.from % Minute = 0 /\ Closed.to % Minute = 0
      <3>1. 0 = 0 * Minute + 0 /\ 0 \in 0..(Minute - 1) /\ 0 \in Int
        BY <1>1
      <3>2. 0 % Minute = 0
        BY <1>1, <3>1, OneQuotient
      <3> QED
        BY <3>2 DEF Closed
    <2>2. ASSUME UtcDate(m) \in DOMAIN rd.exceptions
          PROVE  rd.exceptions[UtcDate(m)].from % Minute = 0 /\ rd.exceptions[UtcDate(m)].to % Minute = 0
      BY <2>2 DEF IsWhole, InWholeMinutes
    <2>3. ASSUME m.day % Week \in DOMAIN rd.hours
          PROVE  rd.hours[m.day % Week].from % Minute = 0 /\ rd.hours[m.day % Week].to % Minute = 0
      BY <2>3 DEF IsWhole, InWholeMinutes
    <2> QED
      BY <2>1, <2>2, <2>3 DEF HoursIn
  <1> HIDE DEF h
  <1>3. (h.to - h.from) % Minute = 0
    <2>1. h.to \in Int /\ h.from \in Int
      BY <1>1
    <2> QED
      BY <1>1, <1>2, <2>1, WholeDifference
  <1> QED
    BY <1>1, <1>3, GainIsNear DEF h

(* x and y differ by half of e at most.                                    *)
Near(x, y, e) == 2 * x <= 2 * y + e /\ 2 * y <= 2 * x + e

OpenBetween(rd, m, n) == OpenTime(rd.hours, rd.exceptions, Instant(m), Instant(n))

(* The day after starts a day later.                                       *)
LEMMA NextDay ==
  ASSUME NEW m \in InDay
  PROVE  /\ StartOfNextDay(m) \in InDay
         /\ Instant(m) = m.day * Day + m.time
         /\ Instant(StartOfNextDay(m)) = m.day * Day + Day
         /\ m.day * Day \in Int
         /\ Instant(m) \in Int /\ Instant(StartOfNextDay(m)) \in Int
         /\ Instant(m) <= Instant(StartOfNextDay(m))
  <1>1. m.day \in Int /\ m.time \in 0..(Day - 1) /\ Day \in Nat \ {0}
    BY Units DEF InDay
  <1>2. StartOfNextDay(m) = [day |-> m.day + 1, time |-> 0]
    BY DEF StartOfNextDay
  <1>3. (m.day + 1) * Day = m.day * Day + Day /\ m.day * Day \in Int
    BY <1>1
  <1>4. StartOfNextDay(m) \in InDay
    BY <1>1, <1>2 DEF InDay
  <1>5. Instant(m) = m.day * Day + m.time /\ Instant(StartOfNextDay(m)) = (m.day + 1) * Day + 0
    BY <1>2 DEF Instant
  <1> QED
    BY <1>1, <1>3, <1>4, <1>5

(* A turn that goes on to the next day counts the open time it passes, to  *)
(* within half a minute; exactly, if it starts at midnight and all hours   *)
(* are whole minutes.                                                      *)
LEMMA OpenTimeOfTurn ==
  ASSUME Offset = 0, NEW rd, IsReading(rd), NEW m \in InDay
  PROVE  LET o == OpenBetween(rd, m, StartOfNextDay(m))
             g == Gain(rd, m) * Minute
         IN  /\ o \in Nat /\ g \in Nat /\ Near(o, g, Minute)
             /\ IsWhole(rd) /\ m.time = 0 => o = g
  <1> DEFINE h == HoursIn(rd, m)
             s == StartIn(rd, m)
             o == OpenBetween(rd, m, StartOfNextDay(m))
             g == Gain(rd, m) * Minute
  <1>1. /\ h = DayHours(rd.hours, rd.exceptions, m.day) /\ h.to \in Nat /\ s \in Nat
        /\ m.day \in Int /\ m.time \in 0..(Day - 1) /\ m.time <= s /\ s = Later(m.time, h.from)
        /\ IsCalendar(rd.hours, 0..(Week - 1)) /\ IsCalendar(rd.exceptions, Int)
    BY TurnInUtc
  <1>2. o = OpenTime(rd.hours, rd.exceptions, m.day * Day + m.time, m.day * Day + Day)
    BY NextDay DEF OpenBetween
  <1>3. (h.to <= s => o = 0) /\ (s < h.to => o = h.to - s)
    BY <1>1, <1>2, RestOfDay
  <1>4. CASE h.to <= s
    <2>1. Gain(rd, m) = 0
      BY <1>1, <1>4 DEF Gain
    <2>2. o = 0 /\ g = 0
      BY <1>3, <1>4, <2>1, Units
    <2> QED
      BY <2>2, Units DEF Near
  <1>5. CASE s < h.to
    <2>1. /\ h.to - s \in Nat /\ g \in Nat /\ o = h.to - s
          /\ 2 * g <= 2 * (h.to - s) + Minute /\ 2 * (h.to - s) <= 2 * g + Minute
      BY <1>3, <1>5, GainIsNear
    <2>2. IsWhole(rd) /\ m.time = 0 => g = h.to - s
      BY <1>5, WholeGain
    <2> HIDE DEF o, g, h, s
    <2>3. Near(o, g, Minute)
      BY <2>1 DEF Near
    <2> QED
      BY <2>1, <2>2, <2>3 DEF o, g
  <1> QED
    BY <1>1, <1>4, <1>5

(* So does a turn that ends after r minutes of its hours.                  *)
LEMMA OpenTimeOfPart ==
  ASSUME Offset = 0, NEW rd, IsReading(rd), NEW m \in InDay, NEW r \in 1..Gain(rd, m)
  PROVE  LET o == OpenBetween(rd, m, Inside(rd, m, r)) IN
         /\ o \in Nat /\ r * Minute \in Nat /\ Near(o, r * Minute, Minute)
         /\ Instant(Inside(rd, m, r)) \in Int /\ Instant(m) <= Instant(Inside(rd, m, r))
         /\ IsWhole(rd) /\ m.time = 0 => o = r * Minute
  <1> DEFINE h == HoursIn(rd, m)
             s == StartIn(rd, m)
             w == r * Minute
             e == s + w
             o == OpenBetween(rd, m, Inside(rd, m, r))
  <1>1. /\ h = DayHours(rd.hours, rd.exceptions, m.day) /\ h.to \in Nat /\ s \in Nat
        /\ m.day \in Int /\ m.time \in 0..(Day - 1) /\ m.time <= s /\ s = Later(m.time, h.from)
        /\ IsCalendar(rd.hours, 0..(Week - 1)) /\ IsCalendar(rd.exceptions, Int)
    BY TurnInUtc
  <1>2. /\ s < h.to /\ w \in Nat /\ w <= Gain(rd, m) * Minute
        /\ Inside(rd, m, r) = [day |-> m.day, time |-> e]
        /\ e \in Nat /\ 2 * e <= 2 * h.to + Minute
    BY InsideIsNear
  <1>3. Instant(Inside(rd, m, r)) = m.day * Day + e /\ Instant(m) = m.day * Day + m.time
    BY <1>2 DEF Instant
  <1>4. o = OpenTime(rd.hours, rd.exceptions, m.day * Day + m.time, m.day * Day + e)
    BY <1>3 DEF OpenBetween
  <1>5. s <= e /\ e - s = w
    BY <1>1, <1>2
  <1>6. /\ o <= e - s
        /\ e <= h.to => o = e - s
        /\ h.to <= e => h.to - s <= o
    <2> DEFINE P(x) == OpenTime(rd.hours, rd.exceptions, m.day * Day + m.time, m.day * Day + x)
    <2> HIDE DEF s, h
    <2>1. \A x \in Nat : s < h.to /\ s <= x =>
            /\ P(x) <= x - s
            /\ x <= h.to => P(x) = x - s
            /\ h.to <= x => h.to - s <= P(x)
      BY <1>1, RestOfDay
    <2>2. o = P(e)
      BY <1>4
    <2> HIDE DEF P, o, e
    <2> QED
      BY <1>2, <1>5, <2>1, <2>2
  <1>7. m.day * Day + e \in Int /\ m.day * Day + m.time \in Int /\ m.day * Day + m.time <= m.day * Day + e
    <2> DEFINE y == m.day * Day
    <2> HIDE DEF e, s, w, h, o
    <2>1. m.day \in Int /\ Day \in Int
      BY <1>1, Units
    <2>2. y \in Int
      BY <2>1
    <2>3. m.time \in Nat /\ e \in Nat /\ m.time <= e
      <3>1. m.time \in Nat /\ s \in Nat /\ m.time <= s
        BY <1>1, Units
      <3>2. e \in Nat /\ s <= e
        BY <1>2, <1>5
      <3> QED
        BY <3>1, <3>2
    <2> HIDE DEF y
    <2>4. y + e \in Int /\ y + m.time \in Int /\ y + m.time <= y + e
      BY <2>2, <2>3
    <2> QED
      BY <2>4 DEF y
  <1>8. o \in Nat
    BY <1>4, <1>7, OpenTimeIsFinite
  <1>9. Near(o, w, Minute)
    <2>1. Minute \in Nat
      BY Units
    <2> HIDE DEF h, s, w, e, o
    <2>2. s \in Nat /\ h.to \in Nat /\ w \in Nat /\ e \in Nat /\ o \in Nat
      BY <1>1, <1>2, <1>8
    <2>3. o <= w
      BY <1>5, <1>6
    <2>4. CASE e <= h.to
      <3>1. o = w
        BY <1>5, <1>6, <2>4
      <3> QED
        BY <2>1, <2>2, <3>1 DEF Near
    <2>5. CASE h.to <= e
      <3>1. h.to - s <= o
        BY <1>6, <2>5
      <3>2. 2 * w <= 2 * (h.to - s) + Minute
        BY <1>2, <1>5, <2>1, <2>2
      <3> QED
        BY <2>1, <2>2, <2>3, <3>1, <3>2 DEF Near
    <2> QED
      BY <2>2, <2>4, <2>5
  <1>10. ASSUME IsWhole(rd), m.time = 0 PROVE o = w
    <2>1. Gain(rd, m) * Minute = h.to - s
      BY <1>2, <1>10, WholeGain
    <2> HIDE DEF h, s, w, e, o
    <2>2. e <= h.to
      BY <1>1, <1>2, <1>5, <2>1
    <2> QED
      BY <1>5, <1>6, <2>2
  <1>11. Instant(Inside(rd, m, r)) \in Int /\ Instant(m) <= Instant(Inside(rd, m, r))
    BY <1>3, <1>7
  <1> QED
    BY <1>2, <1>8, <1>9, <1>10, <1>11

(***************************************************************************)
(* The turns of a walk, all of which are determined by what it has read    *)
(* and where it starts: the minutes it can count in the first n.           *)
(***************************************************************************)

TurnStart(base, k) == IF k = 0 THEN base ELSE [day |-> base.day + k, time |-> 0]

Totals(T, n, rd, base) ==
  /\ T \in [0..n -> Nat] /\ T[0] = 0
  /\ \A k \in 0..(n - 1) : T[k + 1] = T[k] + Gain(rd, TurnStart(base, k))

Total(rd, base) == CHOOSE T : Totals(T, MaxIterations, rd, base)

(* The turn after a turn starts the day after, at midnight.                *)
LEMMA Turns ==
  ASSUME NEW rd, IsReading(rd), NEW base \in InDay, NEW k \in Nat
  PROVE  /\ TurnStart(base, k) \in InDay
         /\ TurnStart(base, k).day = base.day + k
         /\ k > 0 => TurnStart(base, k).time = 0
         /\ StartOfNextDay(TurnStart(base, k)) = TurnStart(base, k + 1)
         /\ Gain(rd, TurnStart(base, k)) \in Nat
  <1>1. base.day \in Int /\ base.time \in 0..(Day - 1) /\ Day \in Nat \ {0}
    BY Units DEF InDay
  <1>2. TurnStart(base, k) \in InDay /\ TurnStart(base, k).day = base.day + k
    BY <1>1 DEF InDay, TurnStart
  <1>3. k > 0 => TurnStart(base, k).time = 0
    BY DEF TurnStart
  <1>4. StartOfNextDay(TurnStart(base, k)) = [day |-> base.day + k + 1, time |-> 0]
    BY <1>2 DEF StartOfNextDay
  <1>5. TurnStart(base, k + 1) = [day |-> base.day + (k + 1), time |-> 0]
    <2>1. k + 1 # 0
      OBVIOUS
    <2> QED
      BY <2>1 DEF TurnStart
  <1>6. base.day + k + 1 = base.day + (k + 1)
    BY <1>1
  <1>7. Gain(rd, TurnStart(base, k)) \in Nat
    BY <1>2, TurnType
  <1> QED
    BY <1>2, <1>3, <1>4, <1>5, <1>6, <1>7

(* There are totals for any number of turns: n + 1 have those of n and one *)
(* more.                                                                   *)
LEMMA SomeTotals ==
  ASSUME NEW rd, IsReading(rd), NEW base \in InDay, NEW n \in Nat
  PROVE  \E T : Totals(T, n, rd, base)
  <1> DEFINE Without == {j \in Nat : ~ \E T : Totals(T, j, rd, base)}
  <1> SUFFICES ASSUME n \in Without PROVE FALSE
    OBVIOUS
  <1>1. PICK j \in Without : \A i \in Without : j <= i
    <2>1. Without \in SUBSET Nat /\ Without # {}
      OBVIOUS
    <2> HIDE DEF Without
    <2> QED
      BY <2>1, LeastNumber
  <1>2. CASE j = 0
    <2> DEFINE T == [i \in 0..0 |-> 0]
    <2>1. T \in [0..0 -> Nat] /\ T[0] = 0
      OBVIOUS
    <2>2. Totals(T, 0, rd, base)
      BY <2>1 DEF Totals
    <2> QED
      BY <1>2, <2>2
  <1>3. CASE j # 0
    <2>1. j - 1 \in Nat /\ j - 1 \notin Without
      BY <1>1, <1>3
    <2>2. PICK S : Totals(S, j - 1, rd, base)
      BY <2>1
    <2> DEFINE g == Gain(rd, TurnStart(base, j - 1))
               T == [i \in 0..j |-> IF i = j THEN S[j - 1] + g ELSE S[i]]
    <2>3. g \in Nat
      BY <2>1, Turns
    <2>4. S \in [0..(j - 1) -> Nat] /\ S[0] = 0
      BY <2>2 DEF Totals
    <2>5. T \in [0..j -> Nat] /\ T[0] = 0
      <3>1. ASSUME NEW i \in 0..j PROVE T[i] \in Nat
        <4>1. i # j => i \in 0..(j - 1)
          OBVIOUS
        <4>2. j - 1 \in 0..(j - 1)
          BY <2>1
        <4> QED
          BY <2>3, <2>4, <4>1, <4>2
      <3>2. T[0] = 0
        BY <1>3, <2>4
      <3> HIDE DEF g
      <3> QED
        BY <3>1, <3>2
    <2>6. ASSUME NEW k \in 0..(j - 1)
          PROVE  T[k + 1] = T[k] + Gain(rd, TurnStart(base, k))
      <3>1. CASE k = j - 1
        <4>1. T[k + 1] = S[j - 1] + g /\ T[k] = S[j - 1]
          BY <2>1, <3>1
        <4> QED
          BY <3>1, <4>1
      <3>2. CASE k # j - 1
        <4>1. k \in 0..((j - 1) - 1) /\ k + 1 \in 0..(j - 1) /\ k + 1 # j /\ k # j /\ k \in 0..j /\ k + 1 \in 0..j
          BY <2>1, <3>2
        <4>2. T[k + 1] = S[k + 1] /\ T[k] = S[k]
          BY <4>1
        <4>3. S[k + 1] = S[k] + Gain(rd, TurnStart(base, k))
          BY <2>2, <4>1 DEF Totals
        <4> QED
          BY <4>2, <4>3
      <3> QED
        BY <3>1, <3>2
    <2> HIDE DEF T
    <2>7. Totals(T, j, rd, base)
      BY <2>5, <2>6 DEF Totals
    <2> QED
      BY <2>7
  <1> QED
    BY <1>2, <1>3

(* The totals are what they should be.                                     *)
LEMMA TotalSums ==
  ASSUME NEW rd, IsReading(rd), NEW base \in InDay
  PROVE  LET T == Total(rd, base) IN
         /\ \A k \in 0..MaxIterations : T[k] \in Nat
         /\ T[0] = 0
         /\ \A k \in 0..(MaxIterations - 1) : T[k + 1] = T[k] + Gain(rd, TurnStart(base, k))
  <1>1. \E T : Totals(T, MaxIterations, rd, base)
    BY SomeTotals, Units
  <1>2. Totals(Total(rd, base), MaxIterations, rd, base)
    BY <1>1, Zenon DEF Total
  <1> QED
    BY <1>2 DEF Totals

(* A walk never loses what it has counted.                                 *)
LEMMA TotalGrows ==
  ASSUME NEW rd, IsReading(rd), NEW base \in InDay,
         NEW i \in 0..MaxIterations, NEW n \in 0..MaxIterations, i <= n
  PROVE  Total(rd, base)[i] <= Total(rd, base)[n]
  <1> DEFINE T == Total(rd, base)
             Less == {j \in 0..MaxIterations : i <= j /\ ~(T[i] <= T[j])}
  <1> SUFFICES ASSUME n \in Less PROVE FALSE
    OBVIOUS
  <1>1. PICK j \in Less : \A l \in Less : j <= l
    <2>1. Less \in SUBSET Nat /\ Less # {}
      BY Units
    <2> HIDE DEF Less
    <2> QED
      BY <2>1, LeastNumber
  <1>2. \A k \in 0..MaxIterations : T[k] \in Nat
    BY TotalSums
  <1>3. j # i
    BY <1>1, <1>2
  <1>4. j - 1 \in 0..(MaxIterations - 1) /\ i <= j - 1 /\ j - 1 \in 0..MaxIterations /\ (j - 1) + 1 = j
    BY <1>1, <1>3, Units
  <1>5. T[i] <= T[j - 1]
    <2>1. j - 1 \notin Less
      BY <1>1, <1>4
    <2> QED
      BY <1>4, <2>1
  <1>6. T[j] = T[j - 1] + Gain(rd, TurnStart(base, j - 1)) /\ Gain(rd, TurnStart(base, j - 1)) \in Nat
    <2>1. T[(j - 1) + 1] = T[j - 1] + Gain(rd, TurnStart(base, j - 1))
      BY <1>4, TotalSums
    <2>2. j - 1 \in Nat
      BY <1>4
    <2> QED
      BY <1>4, <2>1, <2>2, Turns
  <1> QED
    BY <1>1, <1>2, <1>4, <1>5, <1>6

(* The walk for w minutes ends at m, in turn k + 1.                        *)
Ends(rd, base, w, k, m) ==
  /\ w - Total(rd, base)[k] \in 1..Gain(rd, TurnStart(base, k))
  /\ m = Inside(rd, TurnStart(base, k), w - Total(rd, base)[k])

(* It ends at m, in one of its turns or because it runs out of them.       *)
Reaches(rd, base, w, m) ==
  \/ \E k \in 0..(MaxIterations - 1) : Ends(rd, base, w, k, m)
  \/ Total(rd, base)[MaxIterations] < w /\ m = TurnStart(base, MaxIterations)

(* The turn a walk ends in counts what it still wants, to half a minute    *)
(* after midnight at most.                                                 *)
LEMMA EndType ==
  ASSUME NEW rd, IsReading(rd), NEW base \in InDay, NEW w \in Nat,
         NEW k \in 0..(MaxIterations - 1), NEW m, Ends(rd, base, w, k, m)
  PROVE  /\ TurnStart(base, k) \in InDay /\ k \in Nat /\ k + 1 \in 0..MaxIterations
         /\ Total(rd, base)[k] \in Nat /\ Total(rd, base)[k + 1] \in Nat
         /\ Total(rd, base)[k] < w /\ w <= Total(rd, base)[k + 1]
         /\ m \in Moment /\ m.day = base.day + k /\ m.time \in Nat
         /\ m.time = StartIn(rd, TurnStart(base, k)) + (w - Total(rd, base)[k]) * Minute
         /\ StartIn(rd, TurnStart(base, k)) \in Nat
         /\ Minute <= m.time /\ 2 * m.time <= 2 * Day + Minute
  <1> DEFINE T == Total(rd, base)
             b == TurnStart(base, k)
             r == w - T[k]
  <1>1. k \in Nat /\ k \in 0..MaxIterations /\ k + 1 \in 0..MaxIterations
    BY Units
  <1>2. b \in InDay /\ b.day = base.day + k /\ Gain(rd, b) \in Nat
    BY <1>1, Turns
  <1>3. T[k] \in Nat /\ T[k + 1] \in Nat /\ T[k + 1] = T[k] + Gain(rd, b)
    BY <1>1, TotalSums
  <1>4. r \in 1..Gain(rd, b) /\ m = Inside(rd, b, r)
    BY DEF Ends
  <1>5. T[k] < w /\ w <= T[k + 1]
    <2> HIDE DEF T, b
    <2> QED
      BY <1>2, <1>3, <1>4
  <1>6. StartIn(rd, b) \in Nat /\ HoursIn(rd, b).to \in 0..Day
    BY <1>2, TurnType
  <1>7. /\ r * Minute \in Nat /\ Minute <= r * Minute
        /\ m = [day |-> b.day, time |-> StartIn(rd, b) + r * Minute] /\ m \in Moment
        /\ StartIn(rd, b) + r * Minute \in Nat
        /\ 2 * (StartIn(rd, b) + r * Minute) <= 2 * HoursIn(rd, b).to + Minute
    <2> HIDE DEF b, r
    <2> QED
      BY <1>2, <1>4, InsideIsNear
  <1>8. m.day = base.day + k /\ m.time = StartIn(rd, b) + r * Minute
    BY <1>2, <1>7
  <1>9. Minute <= m.time /\ 2 * m.time <= 2 * Day + Minute
    <2> HIDE DEF b, r
    <2> QED
      BY <1>6, <1>7, <1>8, Units
  <1> QED
    BY <1>1, <1>2, <1>3, <1>5, <1>6, <1>7, <1>8, <1>9

LEMMA NearAdds ==
  ASSUME NEW x \in Int, NEW y \in Int, NEW e \in Int, NEW x2 \in Int, NEW y2 \in Int, NEW e2 \in Int,
         Near(x, y, e), Near(x2, y2, e2)
  PROVE  Near(x + x2, y + y2, e + e2)
  BY DEF Near

(* k turns count the open time they pass, to within half a minute each; to *)
(* within half a minute altogether where all hours are whole minutes.      *)
LEMMA OpenTimeOfTurns ==
  ASSUME Offset = 0, NEW rd, IsReading(rd), NEW base \in InDay, NEW n \in 0..MaxIterations
  PROVE  LET o == OpenBetween(rd, base, TurnStart(base, n))
             c == Total(rd, base)[n] * Minute
         IN  /\ o \in Nat /\ c \in Nat /\ n * Minute \in Nat
             /\ Near(o, c, n * Minute)
             /\ IsWhole(rd) => Near(o, c, Minute) /\ (n = 0 => o = c)
             /\ Instant(base) <= Instant(TurnStart(base, n))
  <1> DEFINE o(k) == OpenBetween(rd, base, TurnStart(base, k))
             c(k) == Total(rd, base)[k] * Minute
             Counts(k) == /\ o(k) \in Nat /\ c(k) \in Nat /\ k * Minute \in Nat
                          /\ Near(o(k), c(k), k * Minute)
                          /\ IsWhole(rd) => Near(o(k), c(k), Minute) /\ (k = 0 => o(k) = c(k))
                          /\ Instant(base) <= Instant(TurnStart(base, k))
             Not == {k \in 0..MaxIterations : ~Counts(k)}
  <1>1. Counts(0)
    <2>1. TurnStart(base, 0) = base /\ Instant(base) \in Int
      BY NextDay DEF TurnStart
    <2>2. o(0) = 0
      <3>1. \A t \in Instant(base)..(Instant(base) - 1) : ~OpenAt(rd.hours, rd.exceptions, t)
        BY <2>1
      <3> QED
        BY <2>1, <3>1, NeverOpen DEF OpenBetween
    <2>3. c(0) = 0 /\ 0 * Minute = 0
      BY TotalSums, Units
    <2>4. Near(0, 0, 0) /\ Near(0, 0, Minute)
      BY Units DEF Near
    <2> QED
      BY <2>1, <2>2, <2>3, <2>4
  <1>2. ASSUME NEW k \in 0..(MaxIterations - 1), Counts(k) PROVE Counts(k + 1)
    <2> DEFINE b == TurnStart(base, k)
               b2 == TurnStart(base, k + 1)
               p == OpenBetween(rd, b, b2)
               g == Gain(rd, b) * Minute
    <2>1. k \in Nat /\ k \in 0..MaxIterations /\ k + 1 \in 0..MaxIterations /\ Minute \in Nat
      BY Units
    <2>2. b \in InDay /\ b2 = StartOfNextDay(b) /\ (k > 0 => b.time = 0) /\ Gain(rd, b) \in Nat
      BY <2>1, Turns
    <2>3. p \in Nat /\ g \in Nat /\ Near(p, g, Minute) /\ (IsWhole(rd) /\ b.time = 0 => p = g)
      BY <2>2, OpenTimeOfTurn
    <2>4. /\ Instant(base) \in Int /\ Instant(b) \in Int /\ Instant(b2) \in Int
          /\ Instant(base) <= Instant(b) /\ Instant(b) <= Instant(b2)
      BY <1>2, <2>2, NextDay
    <2>5. o(k + 1) = o(k) + p
      <3> HIDE DEF b, b2
      <3>1. OpenBetween(rd, base, b2) = OpenBetween(rd, base, b) + OpenBetween(rd, b, b2)
        BY <2>4, OpenTimeAdds DEF OpenBetween
      <3> QED
        BY <3>1 DEF b, b2
    <2>6. c(k + 1) = c(k) + g
      <3>1. Total(rd, base)[k + 1] = Total(rd, base)[k] + Gain(rd, b) /\ Total(rd, base)[k] \in Nat
        BY <2>1, TotalSums
      <3> HIDE DEF b
      <3>2. (Total(rd, base)[k] + Gain(rd, b)) * Minute = Total(rd, base)[k] * Minute + Gain(rd, b) * Minute
        BY <2>1, <2>2, <3>1, Distributes
      <3> QED
        BY <3>1, <3>2
    <2>7. (k + 1) * Minute = k * Minute + Minute /\ k * Minute \in Nat
      BY <2>1
    <2>8. o(k) \in Nat /\ c(k) \in Nat /\ Near(o(k), c(k), k * Minute)
      BY <1>2
    <2>9. ASSUME IsWhole(rd) PROVE Near(o(k), c(k), Minute) /\ (k = 0 => o(k) = c(k))
      BY <1>2, <2>9
    <2> HIDE DEF o, c, p, g
    <2>10. Near(o(k + 1), c(k + 1), (k + 1) * Minute)
      <3> DEFINE e == k * Minute
      <3>1. e \in Int
        BY <2>7
      <3> HIDE DEF e
      <3>2. Near(o(k) + p, c(k) + g, e + Minute)
        BY <2>1, <2>3, <2>8, <3>1, NearAdds DEF e
      <3> QED
        BY <2>5, <2>6, <2>7, <3>2 DEF e
    <2>11. ASSUME IsWhole(rd) PROVE Near(o(k + 1), c(k + 1), Minute)
      <3>1. CASE k = 0
        <4>1. o(k) = c(k)
          BY <2>9, <2>11, <3>1
        <4> QED
          BY <2>1, <2>3, <2>5, <2>6, <2>8, <4>1 DEF Near
      <3>2. CASE k > 0
        <4>1. p = g /\ Near(o(k), c(k), Minute)
          BY <2>2, <2>3, <2>9, <2>11, <3>2
        <4> QED
          BY <2>1, <2>3, <2>5, <2>6, <2>8, <4>1 DEF Near
      <3> QED
        BY <2>1, <3>1, <3>2
    <2>12. /\ o(k + 1) \in Nat /\ c(k + 1) \in Nat /\ (k + 1) * Minute \in Nat /\ k + 1 # 0
      BY <2>1, <2>3, <2>5, <2>6, <2>7, <2>8
    <2>13. Instant(base) <= Instant(b2)
      <3> HIDE DEF b, b2
      <3> QED
        BY <2>4
    <2> QED
      BY <2>10, <2>11, <2>12, <2>13
  <1> HIDE DEF Counts
  <1> SUFFICES ASSUME n \in Not PROVE FALSE
    BY DEF Counts
  <1>3. PICK j \in Not : \A l \in Not : j <= l
    <2>1. Not \in SUBSET Nat /\ Not # {}
      BY Units
    <2> HIDE DEF Not
    <2> QED
      BY <2>1, LeastNumber
  <1>4. j # 0
    BY <1>1
  <1>5. j - 1 \in 0..(MaxIterations - 1) /\ j - 1 \in 0..MaxIterations /\ (j - 1) + 1 = j
    BY <1>4, Units
  <1>6. Counts(j - 1)
    <2>1. ~(j <= j - 1)
      BY <1>5
    <2> QED
      BY <1>3, <1>5, <2>1
  <1>7. Counts((j - 1) + 1)
    BY <1>2, <1>5, <1>6
  <1> QED
    BY <1>5, <1>7

(* A walk that ends has counted the minutes it wanted.                     *)
LEMMA OpenTimeAtEnd ==
  ASSUME Offset = 0, NEW rd, IsReading(rd), NEW base \in InDay, NEW w \in Nat,
         NEW k \in 0..(MaxIterations - 1), NEW m, Ends(rd, base, w, k, m)
  PROVE  LET o == OpenBetween(rd, base, m) IN
         /\ o \in Nat /\ w * Minute \in Nat /\ (k + 1) * Minute \in Nat
         /\ Near(o, w * Minute, (k + 1) * Minute)
         /\ IsWhole(rd) => Near(o, w * Minute, Minute)
  <1> DEFINE T == Total(rd, base)
             b == TurnStart(base, k)
             r == w - T[k]
             o == OpenBetween(rd, base, b)
             p == OpenBetween(rd, b, m)
             c == T[k] * Minute
             d == r * Minute
  <1>1. /\ b \in InDay /\ k \in Nat /\ k \in 0..MaxIterations /\ T[k] \in Nat /\ Minute \in Nat
        /\ k > 0 => b.time = 0
    <2>1. k \in Nat /\ k \in 0..MaxIterations /\ Minute \in Nat
      BY Units
    <2>2. b \in InDay /\ (k > 0 => b.time = 0)
      BY <2>1, Turns
    <2>3. T[k] \in Nat
      BY <2>1, TotalSums
    <2> QED
      BY <2>1, <2>2, <2>3
  <1>2. /\ o \in Nat /\ c \in Nat /\ k * Minute \in Nat /\ Near(o, c, k * Minute)
        /\ IsWhole(rd) => Near(o, c, Minute) /\ (k = 0 => o = c)
        /\ Instant(base) <= Instant(b)
    BY <1>1, OpenTimeOfTurns
  <1>3. r \in 1..Gain(rd, b) /\ m = Inside(rd, b, r)
    BY DEF Ends
  <1>4. /\ p \in Nat /\ d \in Nat /\ Near(p, d, Minute)
        /\ Instant(m) \in Int /\ Instant(b) <= Instant(m)
        /\ IsWhole(rd) /\ b.time = 0 => p = d
    <2> HIDE DEF b, r
    <2> QED
      BY <1>1, <1>3, OpenTimeOfPart
  <1>5. Instant(base) \in Int /\ Instant(b) \in Int
    BY <1>1, NextDay
  <1>6. OpenBetween(rd, base, m) = o + p
    <2> HIDE DEF b
    <2> QED
      BY <1>2, <1>4, <1>5, OpenTimeAdds DEF OpenBetween
  <1>7. w * Minute = c + d /\ (k + 1) * Minute = k * Minute + Minute
    <2>1. (T[k] + r) * Minute = c + d
      <3>1. T[k] \in Int /\ r \in Int
        BY <1>1
      <3> HIDE DEF T, r
      <3> QED
        BY <1>1, <3>1, Distributes
    <2>2. T[k] + r = w
      BY <1>1
    <2> QED
      BY <1>1, <2>1, <2>2
  <1> HIDE DEF o, p, c, d
  <1>8. Near(o + p, c + d, k * Minute + Minute)
    <2> DEFINE e == k * Minute
    <2>1. e \in Int
      BY <1>2
    <2> HIDE DEF e
    <2> QED
      BY <1>1, <1>2, <1>4, <2>1, NearAdds DEF e
  <1>9. ASSUME IsWhole(rd) PROVE Near(o + p, c + d, Minute)
    <2>1. CASE k = 0
      BY <1>1, <1>2, <1>4, <1>9, <2>1 DEF Near
    <2>2. CASE k > 0
      <3>1. p = d /\ Near(o, c, Minute)
        BY <1>1, <1>2, <1>4, <1>9, <2>2
      <3> QED
        BY <1>1, <1>2, <1>4, <3>1 DEF Near
    <2> QED
      BY <1>1, <2>1, <2>2
  <1>10. o + p \in Nat /\ c + d \in Nat /\ k * Minute + Minute \in Nat
    BY <1>1, <1>2, <1>4
  <1> QED
    BY <1>6, <1>7, <1>8, <1>9, <1>10

(* It ends in the hours of its last day, or half a minute after them.      *)
LEMMA OpenAtEnd ==
  ASSUME Offset = 0, NEW rd, IsReading(rd), NEW base \in InDay, NEW w \in Nat,
         NEW k \in 0..(MaxIterations - 1), NEW m, Ends(rd, base, w, k, m)
  PROVE  \E x \in 0..(Day - 1) :
           /\ m.day * Day + x \in (Instant(m) - 1 - Minute \div 2)..(Instant(m) - 1)
           /\ OpenAt(rd.hours, rd.exceptions, m.day * Day + x)
  <1> DEFINE b == TurnStart(base, k)
             h == HoursIn(rd, b)
             s == StartIn(rd, b)
             y == m.day * Day
             x == IF m.time <= h.to THEN m.time - 1 ELSE h.to - 1
  <1>1. /\ b \in InDay /\ b.day = m.day /\ m.day \in Int
        /\ m.time \in Nat /\ Day \in Nat \ {0} /\ Minute \in Nat \ {0}
    <2>1. k \in Nat /\ m \in Moment /\ m.day = base.day + k
      BY EndType
    <2>2. b \in InDay /\ b.day = base.day + k
      BY <2>1, Turns
    <2> QED
      BY <2>1, <2>2, Units DEF Moment
  <1>2. /\ s < h.to /\ s < m.time
        /\ 2 * m.time <= 2 * h.to + Minute
    <2> DEFINE r == w - Total(rd, base)[k]
    <2>1. r \in 1..Gain(rd, b) /\ m = Inside(rd, b, r)
      BY DEF Ends
    <2>2. s \in Nat
      BY <1>1, TurnType
    <2> HIDE DEF b, r, h, s
    <2>3. /\ s < h.to /\ r * Minute \in Nat /\ Minute <= r * Minute
          /\ m = [day |-> b.day, time |-> s + r * Minute]
          /\ 2 * (s + r * Minute) <= 2 * h.to + Minute
      BY <1>1, <2>1, InsideIsNear DEF h, s
    <2>4. m.time = s + r * Minute
      BY <2>3
    <2> QED
      BY <1>1, <2>2, <2>3, <2>4
  <1>3. /\ h.from \in 0..Day /\ h.to \in 0..Day /\ s \in Nat /\ h.from <= s
    BY <1>1, TurnType
  <1>4. h = DayHours(rd.hours, rd.exceptions, m.day)
    BY <1>1, HoursInUtc
  <1> HIDE DEF b, h, s
  <1>5. x \in 0..(Day - 1) /\ h.from <= x /\ x < h.to
    BY <1>1, <1>2, <1>3
  <1>6. m.time - 1 - Minute \div 2 <= x /\ x <= m.time - 1
    BY <1>1, <1>2, <1>3, Units
  <1> HIDE DEF x
  <1>7. OpenAt(rd.hours, rd.exceptions, y + x)
    BY <1>1, <1>4, <1>5, OpenOnDay
  <1>8. Instant(m) = y + m.time /\ y \in Int
    BY <1>1 DEF Instant
  <1> HIDE DEF y
  <1>9. y + x \in (Instant(m) - 1 - Minute \div 2)..(Instant(m) - 1)
    BY <1>1, <1>5, <1>6, <1>8, Units
  <1> QED
    BY <1>5, <1>7, <1>9 DEF y

(* Of two walks over the same days the one that wants less ends first, but *)
(* for half a minute where the other runs out of turns.                    *)
LEMMA EndsInOrder ==
  ASSUME NEW rd, IsReading(rd), NEW base \in InDay, NEW w \in Nat, NEW w2 \in Nat, w <= w2,
         NEW m, NEW m2, Reaches(rd, base, w, m), Reaches(rd, base, w2, m2)
  PROVE  Instant(m) <= Instant(m2) + (IF m2.day < base.day + MaxIterations THEN 0 ELSE Minute \div 2)
  <1> DEFINE T == Total(rd, base)
             N == MaxIterations
             slack == IF m2.day < base.day + N THEN 0 ELSE Minute \div 2
  <1>1. /\ base.day \in Int /\ N \in Nat \ {0} /\ T[N] \in Nat
        /\ Day \in Nat \ {0} /\ Minute \in Nat \ {0}
        /\ Minute \div 2 \in Nat /\ Minute <= 2 * (Minute \div 2) + 1
    BY Units, TotalSums DEF InDay
  <1>2. \A i, j \in 0..N : i <= j => T[i] <= T[j]
    BY TotalGrows
  <1>3. ASSUME NEW i \in Nat, NEW j \in Nat, i < j
        PROVE  /\ (base.day + i) * Day \in Int /\ (base.day + j) * Day \in Int
               /\ (base.day + i) * Day + Day <= (base.day + j) * Day
    <2> DEFINE p == base.day + i + 1
               q == base.day + j
    <2>1. p \in Int /\ q \in Int /\ p <= q
      BY <1>1, <1>3
    <2>2. (base.day + i) * Day + Day = p * Day /\ (base.day + i) * Day \in Int
      BY <1>1
    <2> HIDE DEF p, q
    <2>3. p * Day <= q * Day /\ q * Day \in Int
      BY <1>1, <2>1, Monotone
    <2> QED
      BY <2>2, <2>3 DEF q
  <1>4. ASSUME NEW k \in 0..(N - 1), Ends(rd, base, w, k, m),
               NEW l \in 0..(N - 1), Ends(rd, base, w2, l, m2)
        PROVE  Instant(m) <= Instant(m2)
    <2>1. /\ k \in Nat /\ k + 1 \in 0..N /\ k \in 0..N /\ T[k] \in Nat /\ T[k] < w /\ w <= T[k + 1]
          /\ m.day = base.day + k /\ m.time \in Nat /\ 2 * m.time <= 2 * Day + Minute
          /\ m.time = StartIn(rd, TurnStart(base, k)) + (w - T[k]) * Minute
          /\ StartIn(rd, TurnStart(base, k)) \in Nat
      BY <1>4, EndType, Units
    <2>2. /\ l \in Nat /\ l + 1 \in 0..N /\ l \in 0..N /\ T[l + 1] \in Nat /\ w2 <= T[l + 1]
          /\ m2.day = base.day + l /\ m2.time \in Nat /\ Minute <= m2.time
          /\ m2.time = StartIn(rd, TurnStart(base, l)) + (w2 - T[l]) * Minute
      BY <1>4, EndType, Units
    <2>3. /\ Instant(m) = (base.day + k) * Day + m.time
          /\ Instant(m2) = (base.day + l) * Day + m2.time
      BY <2>1, <2>2 DEF Instant
    <2> HIDE DEF T, N
    <2>4. ~(l < k)
      <3> SUFFICES ASSUME l < k PROVE FALSE
        OBVIOUS
      <3>1. T[l + 1] <= T[k]
        BY <1>2, <2>1, <2>2
      <3> QED
        BY <2>1, <2>2, <3>1
    <2>5. CASE k = l
      <3> DEFINE s == StartIn(rd, TurnStart(base, k))
                 a == w - T[k]
                 a2 == w2 - T[k]
                 y == (base.day + k) * Day
      <3>1. a \in Int /\ a2 \in Int /\ a <= a2 /\ s \in Nat /\ y \in Int
        BY <1>1, <2>1
      <3>2. m.time = s + a * Minute /\ m2.time = s + a2 * Minute
        BY <2>1, <2>2, <2>5
      <3>3. Instant(m) = y + m.time /\ Instant(m2) = y + m2.time
        BY <2>3, <2>5
      <3> HIDE DEF s, a, a2, y
      <3>4. a * Minute \in Int /\ a2 * Minute \in Int /\ a * Minute <= a2 * Minute
        BY <1>1, <3>1, Monotone
      <3> QED
        BY <2>1, <2>2, <3>1, <3>2, <3>3, <3>4
    <2>6. CASE k < l
      <3> DEFINE y == (base.day + k) * Day
                 z == (base.day + l) * Day
      <3>1. y \in Int /\ z \in Int /\ y + Day <= z
        BY <1>3, <2>1, <2>2, <2>6
      <3> HIDE DEF y, z
      <3>2. Instant(m) = y + m.time /\ Instant(m2) = z + m2.time
        BY <2>3 DEF y, z
      <3> QED
        BY <1>1, <2>1, <2>2, <3>1, <3>2
    <2> QED
      BY <2>1, <2>2, <2>4, <2>5, <2>6
  <1>5. ASSUME NEW k \in 0..(N - 1), Ends(rd, base, w, k, m), m2 = TurnStart(base, N)
        PROVE  Instant(m) <= Instant(m2) + slack
    <2>1. m2.day = base.day + N /\ m2.time = 0
      <3>1. N \in Nat /\ N > 0
        BY <1>1
      <3>2. TurnStart(base, N).day = base.day + N /\ TurnStart(base, N).time = 0
        BY <3>1, Turns
      <3> QED
        BY <1>5, <3>2
    <2>2. /\ k \in Nat /\ m.day = base.day + k /\ m.time \in Nat /\ 2 * m.time <= 2 * Day + Minute
      BY <1>5, EndType
    <2> DEFINE y == (base.day + k) * Day
               z == (base.day + N) * Day
    <2>3. Instant(m) = y + m.time /\ Instant(m2) = z
      <3>1. z \in Int
        BY <1>1
      <3> QED
        BY <2>1, <2>2, <3>1 DEF Instant
    <2>4. y \in Int /\ z \in Int /\ y + Day <= z
      BY <1>1, <1>3, <2>2
    <2>5. slack = Minute \div 2
      <3>1. ~(m2.day < base.day + N)
        BY <1>1, <2>1
      <3> QED
        BY <3>1
    <2> HIDE DEF y, z, slack
    <2> QED
      BY <1>1, <2>2, <2>3, <2>4, <2>5
  <1>6. ASSUME T[N] < w PROVE m2 = TurnStart(base, N)
    <2>1. ASSUME NEW l \in 0..(N - 1), Ends(rd, base, w2, l, m2) PROVE FALSE
      <3>1. l + 1 \in 0..N /\ T[l + 1] \in Nat /\ w2 <= T[l + 1] /\ N \in 0..N
        BY <2>1, EndType, Units
      <3>2. T[l + 1] <= T[N]
        BY <1>1, <1>2, <3>1
      <3> HIDE DEF T, N
      <3> QED
        BY <1>1, <1>6, <3>1, <3>2
    <2> QED
      BY <2>1 DEF Reaches
  <1>7. slack \in Nat
    BY <1>1
  <1>8. CASE \E k \in 0..(N - 1) : Ends(rd, base, w, k, m)
    <2>1. PICK k \in 0..(N - 1) : Ends(rd, base, w, k, m)
      BY <1>8
    <2>2. CASE m2 = TurnStart(base, N)
      BY <1>5, <2>1, <2>2
    <2>3. CASE \E l \in 0..(N - 1) : Ends(rd, base, w2, l, m2)
      <3>1. PICK l \in 0..(N - 1) : Ends(rd, base, w2, l, m2)
        BY <2>3
      <3>2. Instant(m) <= Instant(m2)
        BY <1>4, <2>1, <3>1
      <3>3. Instant(m) \in Int /\ Instant(m2) \in Int
        <4>1. m.day \in Int /\ m.time \in Nat /\ m2.day \in Int /\ m2.time \in Nat
          BY <2>1, <3>1, EndType DEF Moment
        <4> QED
          BY <1>1, <4>1 DEF Instant
      <3> HIDE DEF slack
      <3>4. Instant(m) <= Instant(m2) + slack
        BY <1>7, <3>2, <3>3
      <3> QED
        BY <3>4 DEF slack
    <2> QED
      BY <2>2, <2>3 DEF Reaches
  <1>9. CASE T[N] < w /\ m = TurnStart(base, N)
    <2>1. m2 = m
      BY <1>6, <1>9
    <2>2. Instant(m2) \in Int
      <3>1. TurnStart(base, N) \in InDay
        BY <1>1, Turns
      <3> QED
        BY <1>9, <2>1, <3>1, NextDay
    <2> HIDE DEF slack
    <2>3. Instant(m) <= Instant(m2) + slack
      BY <1>7, <2>1, <2>2
    <2> QED
      BY <2>3 DEF slack
  <1> QED
    BY <1>8, <1>9 DEF Reaches

(***************************************************************************)
(* The invariant.                                                          *)
(***************************************************************************)

(* What a walk reads: the hours, and the exceptions of the days ahead.     *)
Ahead == [d \in {d \in DOMAIN case.exceptions :
                   UtcDate(case.base) <= d /\ d <= UtcDate(case.base) + Lookahead}
            |-> case.exceptions[d]]

Reading(hs) == [hours |-> hs, exceptions |-> Ahead]

WeekHours == UNION {[D -> Hours] : D \in SUBSET (0..(Week - 1))}

CaseIsSound ==
  /\ case.rules \in Seq({case.rules[i] : i \in DOMAIN case.rules})
  /\ \A i \in DOMAIN case.rules : {case.rules[i].response, case.rules[i].resolution} \subseteq Nat \ {0}
  /\ case.base \in InDay
  /\ IsCalendar(case.exceptions, Int)

Numbers ==
  /\ minutes \in Seq(Nat \ {0}) /\ due \in Seq(Moment) /\ cursor \in Moment
  /\ remaining \in Nat /\ iterations \in 0..MaxIterations /\ edits \in 0..MaxEdits

Progress ==
  /\ stage \in Stages
  /\ stage \in {"rule", "none"} => minutes = <<>> /\ due = <<>> /\ used = <<>>
  /\ stage \in {"hours", "exceptions", "walk"} => Len(minutes) = 2 /\ Len(due) \in {0, 1}
  /\ stage = "hours" => Len(used) = Len(due)
  /\ stage \in {"exceptions", "walk"} => Len(used) = Len(due) + 1
  /\ stage = "attached" => Len(minutes) = 2 /\ Len(due) = 2 /\ Len(used) = 2

(* The hours that the computation under way began with.                    *)
InUse == used[Len(due) + 1]

UsedIsSound == used \in Seq(WeekHours)

ReadIsSound ==
  /\ IsCalendar(hours, 0..(Week - 1)) /\ IsReading(read)
  /\ stage = "exceptions" => read.hours = InUse
  /\ stage = "walk" => read = Reading(InUse)
  /\ stage \in {"exceptions", "walk"} => case.applies /\ DOMAIN InUse # {}

(* The walk is where the totals say.                                       *)
WalkIsSound ==
  stage = "walk" =>
    \/ /\ remaining > 0
       /\ cursor = TurnStart(case.base, iterations)
       /\ remaining = Wanted - Total(read, case.base)[iterations]
    \/ /\ remaining = 0 /\ iterations > 0
       /\ Ends(read, case.base, Wanted, iterations - 1, cursor)

ByTheClock(m, w) == [m EXCEPT !.time = @ + w * Minute]

(* What an answer is due by when its computation began with the hours hs.  *)
IsDue(hs, w, m) ==
  IF case.applies /\ DOMAIN hs # {} THEN Reaches(Reading(hs), case.base, w, m)
                                   ELSE m = ByTheClock(case.base, w)

DueIsSound == \A i \in DOMAIN due : IsDue(used[i], minutes[i], due[i])

DueInv ==
  /\ CaseIsSound /\ Numbers /\ Progress /\ UsedIsSound /\ ReadIsSound
  /\ WalkIsSound /\ DueIsSound /\ RuleFitsBest

(***************************************************************************)
(* The rule that fits best.                                                *)
(***************************************************************************)

(* The first rule with p and c, unless there is none.                      *)
LEMMA FirstOfRules ==
  ASSUME NEW S, NEW rules \in Seq(S), NEW p, NEW c
  PROVE  \/ /\ First(rules, p, c) = {}
            /\ \A i \in DOMAIN rules : ~(rules[i].priority = p /\ rules[i].category = c)
         \/ \E i \in DOMAIN rules :
              First(rules, p, c) = {rules[i]} /\ rules[i].priority = p /\ rules[i].category = c
  <1> DEFINE fits == {i \in DOMAIN rules : rules[i].priority = p /\ rules[i].category = c}
             i0 == CHOOSE i \in fits : \A j \in fits : i <= j
  <1>1. CASE fits = {}
    BY <1>1 DEF First
  <1>2. CASE fits # {}
    <2>1. fits \in SUBSET Nat
      OBVIOUS
    <2>2. \E i \in fits : \A j \in fits : i <= j
      <3> HIDE DEF fits
      <3> QED
        BY <1>2, <2>1, LeastNumber
    <2>3. i0 \in fits
      <3> HIDE DEF fits
      <3> QED
        BY <2>2
    <2>4. First(rules, p, c) = {rules[i0]}
      BY <1>2 DEF First
    <2> HIDE DEF i0
    <2> QED
      BY <2>3, <2>4
  <1> QED
    BY <1>1, <1>2

(* Each of the five tries finds a rule of the highest rank there is, since *)
(* the tries before it found none.                                         *)
LEMMA BestRule ==
  ASSUME CaseIsSound, case.rules # <<>>
  PROVE  \E i \in DOMAIN case.rules :
           /\ BestMatchingRule(case.rules, case.priority, case.category) = case.rules[i]
           /\ \A j \in DOMAIN case.rules : Rank(case.rules[j]) <= Rank(case.rules[i])
  <1> DEFINE rules == case.rules
             p == case.priority
             c == case.category
             tries == <<First(rules, p, c), First(rules, p, Null), First(rules, Null, c), First(rules, Null, Null),
                        {rules[1]}>>
             best == BestMatchingRule(rules, p, c)
             HasRule(a, b) == \E i \in DOMAIN rules : rules[i].priority = a /\ rules[i].category = b
             IsFirst(k) == tries[k] # {} /\ \A j \in 1..(k - 1) : tries[j] = {}
             k0 == CHOOSE k \in 1..5 : IsFirst(k)
  <1>1. rules \in Seq({rules[i] : i \in DOMAIN rules}) /\ 1 \in DOMAIN rules
    <2>1. rules \in Seq({rules[i] : i \in DOMAIN rules}) /\ rules # <<>>
      BY DEF CaseIsSound
    <2> HIDE DEF rules
    <2>2. Len(rules) \in Nat /\ Len(rules) # 0 /\ DOMAIN rules = 1..Len(rules)
      BY <2>1
    <2> QED
      BY <2>1, <2>2
  <1>2. \A a, b : \/ First(rules, a, b) = {} /\ ~HasRule(a, b)
                  \/ \E i \in DOMAIN rules :
                       First(rules, a, b) = {rules[i]} /\ rules[i].priority = a /\ rules[i].category = b
    BY <1>1, FirstOfRules
  <1>3. k0 \in 1..5 /\ IsFirst(k0)
    <2>1. tries[5] # {}
      OBVIOUS
    <2> HIDE DEF tries
    <2>2. \E k \in 1..5 : IsFirst(k)
      <3> DEFINE K == {k \in 1..5 : tries[k] # {}}
      <3>1. K \in SUBSET Nat /\ K # {}
        BY <2>1
      <3>2. PICK k \in K : \A j \in K : k <= j
        <4> HIDE DEF K
        <4> QED
          BY <3>1, LeastNumber
      <3>3. \A j \in 1..(k - 1) : j \in 1..5 /\ ~(k <= j)
        OBVIOUS
      <3> QED
        BY <3>2, <3>3
    <2> HIDE DEF IsFirst
    <2> QED
      BY <2>2
  <1>4. best = CHOOSE r \in tries[k0] : TRUE
    BY DEF BestMatchingRule
  <1>5. /\ tries[1] = First(rules, p, c) /\ tries[2] = First(rules, p, Null)
        /\ tries[3] = First(rules, Null, c) /\ tries[4] = First(rules, Null, Null)
        /\ tries[5] = {rules[1]}
    OBVIOUS
  <1> HIDE DEF rules, tries, best, k0
  <1>6. \/ k0 = 1 /\ tries[1] # {}
        \/ k0 = 2 /\ tries[2] # {} /\ tries[1] = {}
        \/ k0 = 3 /\ tries[3] # {} /\ tries[1] = {} /\ tries[2] = {}
        \/ k0 = 4 /\ tries[4] # {} /\ tries[1] = {} /\ tries[2] = {} /\ tries[3] = {}
        \/ k0 = 5 /\ tries[1] = {} /\ tries[2] = {} /\ tries[3] = {} /\ tries[4] = {}
    BY <1>3
  <1>7. ASSUME NEW i \in DOMAIN rules, tries[k0] = {rules[i]} PROVE best = rules[i]
    BY <1>4, <1>7
  <1> DEFINE R(a, b) == IF ~(a \in {Null, p} /\ b \in {Null, c}) THEN 0
                        ELSE 1 + (IF a # Null THEN 2 ELSE 0) + (IF b # Null THEN 1 ELSE 0)
  <1>8. \A i \in DOMAIN rules : Rank(rules[i]) = R(rules[i].priority, rules[i].category)
    BY DEF Rank, Fits, rules
  <1>9. SUFFICES \E i \in DOMAIN rules : best = rules[i] /\ \A j \in DOMAIN rules : Rank(rules[j]) <= Rank(rules[i])
    BY DEF rules, best
  <1>10. ASSUME NEW a, NEW b, HasRule(a, b), tries[k0] = First(rules, a, b),
                \A j \in DOMAIN rules : R(rules[j].priority, rules[j].category) <= R(a, b)
         PROVE  \E i \in DOMAIN rules : best = rules[i] /\ \A j \in DOMAIN rules : Rank(rules[j]) <= Rank(rules[i])
    <2>1. PICK i \in DOMAIN rules : First(rules, a, b) = {rules[i]} /\ rules[i].priority = a /\ rules[i].category = b
      BY <1>2, <1>10
    <2>2. best = rules[i]
      BY <1>7, <1>10, <2>1
    <2>3. Rank(rules[i]) = R(a, b)
      BY <1>8, <2>1
    <2> HIDE DEF R
    <2> QED
      BY <1>8, <1>10, <2>2, <2>3
  <1>11. \A a, b : IF First(rules, a, b) = {} THEN ~HasRule(a, b) ELSE HasRule(a, b)
    BY <1>2
  <1>12. \A a, b : ~HasRule(a, b) => \A i \in DOMAIN rules : ~(rules[i].priority = a /\ rules[i].category = b)
    OBVIOUS
  <1> HIDE DEF HasRule
  <1>13. CASE k0 = 1
    <2>1. HasRule(p, c) /\ tries[k0] = First(rules, p, c)
      BY <1>11, <1>5, <1>6, <1>13
    <2>2. \A j \in DOMAIN rules : R(rules[j].priority, rules[j].category) <= R(p, c)
      OBVIOUS
    <2> QED
      BY <1>10, <2>1, <2>2
  <1>14. CASE k0 = 2
    <2>1. HasRule(p, Null) /\ tries[k0] = First(rules, p, Null) /\ ~HasRule(p, c)
      BY <1>11, <1>5, <1>6, <1>14
    <2>2. \A j \in DOMAIN rules : R(rules[j].priority, rules[j].category) <= R(p, Null)
      <3>1. \A x, y : ~(x = p /\ y = c) => R(x, y) <= R(p, Null)
        OBVIOUS
      <3> HIDE DEF R
      <3> QED
        BY <1>12, <2>1, <3>1
    <2> QED
      BY <1>10, <2>1, <2>2
  <1>15. CASE k0 = 3
    <2>1. HasRule(Null, c) /\ tries[k0] = First(rules, Null, c) /\ ~HasRule(p, c) /\ ~HasRule(p, Null)
      BY <1>11, <1>5, <1>6, <1>15
    <2>2. \A j \in DOMAIN rules : R(rules[j].priority, rules[j].category) <= R(Null, c)
      <3>1. \A x, y : ~(x = p /\ y = c) /\ ~(x = p /\ y = Null) => R(x, y) <= R(Null, c)
        OBVIOUS
      <3> HIDE DEF R
      <3> QED
        BY <1>12, <2>1, <3>1
    <2> QED
      BY <1>10, <2>1, <2>2
  <1>16. CASE k0 = 4
    <2>1. /\ HasRule(Null, Null) /\ tries[k0] = First(rules, Null, Null)
          /\ ~HasRule(p, c) /\ ~HasRule(p, Null) /\ ~HasRule(Null, c)
      BY <1>11, <1>5, <1>6, <1>16
    <2>2. \A j \in DOMAIN rules : R(rules[j].priority, rules[j].category) <= R(Null, Null)
      <3>1. \A x, y : ~(x = p /\ y = c) /\ ~(x = p /\ y = Null) /\ ~(x = Null /\ y = c) => R(x, y) <= R(Null, Null)
        OBVIOUS
      <3> HIDE DEF R
      <3> QED
        BY <1>12, <2>1, <3>1
    <2> QED
      BY <1>10, <2>1, <2>2
  <1>17. CASE k0 = 5
    <2>1. ~HasRule(p, c) /\ ~HasRule(p, Null) /\ ~HasRule(Null, c) /\ ~HasRule(Null, Null)
      BY <1>11, <1>5, <1>6, <1>17
    <2>2. \A j \in DOMAIN rules : Rank(rules[j]) = 0
      BY <1>8, <1>12, <2>1
    <2>3. best = rules[1]
      BY <1>1, <1>5, <1>7, <1>17
    <2> QED
      BY <1>1, <2>2, <2>3
  <1> QED
    BY <1>6, <1>13, <1>14, <1>15, <1>16, <1>17

(***************************************************************************)
(* Every step keeps the invariant.                                         *)
(***************************************************************************)

LEMMA InitIsSound ==
  ASSUME Init
  PROVE  DueInv
  <1>1. PICK c \in Cases :
          /\ case = [f \in DOMAIN c \ {"hours"} |-> c[f]]
          /\ hours = c.hours
          /\ stage = "rule" /\ minutes = <<>> /\ due = <<>> /\ used = <<>> /\ read = NothingRead
          /\ cursor = c.base /\ remaining = 0 /\ iterations = 0 /\ edits = 0
    BY DEF Init
  <1>2. /\ DOMAIN c = {"rules", "priority", "category", "applies", "base", "exceptions", "hours"}
        /\ c.rules \in Seq({c.rules[i] : i \in DOMAIN c.rules})
        /\ \A i \in DOMAIN c.rules : {c.rules[i].response, c.rules[i].resolution} \subseteq Nat \ {0}
        /\ c.base \in [day : Int, time : 0..(Day - 1)]
        /\ IsCalendar(c.exceptions, Int) /\ IsCalendar(c.hours, 0..(Week - 1))
    BY CasesAssumption
  <1>3. case.rules = c.rules /\ case.base = c.base /\ case.exceptions = c.exceptions
    BY <1>1, <1>2
  <1>4. CaseIsSound
    BY <1>2, <1>3 DEF CaseIsSound, InDay
  <1>5. /\ stage = "rule" /\ minutes = <<>> /\ due = <<>> /\ used = <<>> /\ read = NothingRead
        /\ remaining = 0 /\ iterations = 0 /\ edits = 0 /\ cursor = case.base
    BY <1>1, <1>3
  <1>6. case.base \in Moment
    BY <1>4, Units DEF CaseIsSound, InDay, Moment
  <1>7. Numbers
    BY <1>5, <1>6, SlaDueDateAssumption, Units DEF Numbers
  <1>8. Progress
    BY <1>5 DEF Progress, Stages
  <1>9. IsReading(read)
    BY <1>5 DEF IsReading, NothingRead, IsCalendar
  <1>10. ReadIsSound
    BY <1>1, <1>2, <1>5, <1>9 DEF ReadIsSound
  <1>11. WalkIsSound /\ RuleFitsBest
    BY <1>5 DEF WalkIsSound, RuleFitsBest
  <1>12. DueIsSound /\ UsedIsSound
    <2>1. DOMAIN due = {} /\ used = <<>>
      BY <1>5
    <2> QED
      BY <2>1 DEF DueIsSound, UsedIsSound
  <1> QED
    BY <1>4, <1>7, <1>8, <1>10, <1>11, <1>12 DEF DueInv

LEMMA AttachSlaStep ==
  ASSUME DueInv, AttachSlaToTicket
  PROVE  DueInv'
  <1>1. /\ CaseIsSound /\ Numbers /\ Progress /\ ReadIsSound
        /\ stage = "rule" /\ UNCHANGED <<case, hours, due, read, cursor, remaining, iterations, edits>>
        /\ minutes = <<>> /\ due = <<>> /\ used = <<>> /\ used' = used
    BY DEF DueInv, AttachSlaToTicket, Progress, walk
  <1>2. CaseIsSound'
    BY <1>1 DEF CaseIsSound
  <1>3. DOMAIN due' = {}
    BY <1>1
  <1>4. DueIsSound' /\ UsedIsSound'
    BY <1>1, <1>3 DEF DueIsSound, UsedIsSound
  <1>5. CASE case.rules = <<>>
    <2>1. stage' = "none" /\ minutes' = <<>>
      BY <1>1, <1>5 DEF AttachSlaToTicket
    <2>2. Numbers'
      BY <1>1, <2>1 DEF Numbers
    <2>3. Progress' /\ WalkIsSound' /\ RuleFitsBest'
      BY <1>1, <2>1 DEF Progress, Stages, WalkIsSound, RuleFitsBest
    <2>4. ReadIsSound'
      BY <1>1, <2>1 DEF ReadIsSound
    <2> QED
      BY <1>2, <1>4, <2>2, <2>3, <2>4 DEF DueInv
  <1>6. CASE case.rules # <<>>
    <2>1. PICK i \in DOMAIN case.rules :
            /\ BestMatchingRule(case.rules, case.priority, case.category) = case.rules[i]
            /\ \A j \in DOMAIN case.rules : Rank(case.rules[j]) <= Rank(case.rules[i])
      BY <1>1, <1>6, BestRule
    <2>2. stage' = "hours" /\ minutes' = <<case.rules[i].response, case.rules[i].resolution>>
      BY <1>6, <2>1 DEF AttachSlaToTicket
    <2>3. case.rules[i].response \in Nat \ {0} /\ case.rules[i].resolution \in Nat \ {0}
      BY <1>1 DEF CaseIsSound
    <2>4. minutes' \in Seq(Nat \ {0}) /\ Len(minutes') = 2
      BY <2>2, <2>3
    <2>5. Numbers'
      BY <1>1, <2>4 DEF Numbers
    <2>6. Progress' /\ WalkIsSound'
      BY <1>1, <2>2, <2>4 DEF Progress, Stages, WalkIsSound
    <2>7. RuleFitsBest'
      BY <1>1, <2>1, <2>2 DEF RuleFitsBest, Rank, Fits
    <2>8. ReadIsSound'
      BY <1>1, <2>2 DEF ReadIsSound
    <2> QED
      BY <1>2, <1>4, <2>5, <2>6, <2>7, <2>8 DEF DueInv
  <1> QED
    BY <1>5, <1>6

(* What is due after a walk, or without one, is due by the minutes wanted. *)
LEMMA ReturnIsSound ==
  ASSUME DueInv, stage \in {"hours", "walk"}, NEW m \in Moment, Return(m),
         UNCHANGED <<case, hours, minutes, walk, edits>>,
         UsedIsSound', Len(used') = Len(due) + 1, \A i \in DOMAIN due : used'[i] = used[i],
         IsDue(used'[Len(due) + 1], Wanted, m)
  PROVE  DueInv'
  <1>1. /\ CaseIsSound /\ Numbers /\ Progress /\ ReadIsSound /\ DueIsSound /\ RuleFitsBest
        /\ UNCHANGED <<case, hours, minutes, read, cursor, remaining, iterations, edits>>
        /\ due' = Append(due, m) /\ stage' = IF Len(due) = 1 THEN "attached" ELSE "hours"
    BY DEF DueInv, walk, Return
  <1>2. Len(minutes) = 2 /\ Len(due) \in {0, 1} /\ due \in Seq(Moment)
    BY <1>1 DEF Progress, Numbers
  <1>3. /\ due' \in Seq(Moment) /\ Len(due') = Len(due) + 1
        /\ DOMAIN due = 1..Len(due) /\ DOMAIN due' = 1..(Len(due) + 1)
        /\ \A i \in 1..Len(due) : due'[i] = due[i]
        /\ due'[Len(due) + 1] = m
    <2>1. due \in Seq(Moment) /\ due' = Append(due, m) /\ Len(due) \in Nat
      BY <1>1, <1>2
    <2> QED
      BY <2>1
  <1>4. CaseIsSound' /\ RuleFitsBest'
    BY <1>1 DEF CaseIsSound, RuleFitsBest, Rank, Fits
  <1>5. Numbers'
    BY <1>1, <1>3 DEF Numbers
  <1>6. Progress' /\ WalkIsSound'
    BY <1>1, <1>2, <1>3 DEF Progress, Stages, WalkIsSound
  <1>7. ReadIsSound'
    BY <1>1 DEF ReadIsSound
  <1>8. DueIsSound'
    <2> SUFFICES ASSUME NEW i \in DOMAIN due'
                 PROVE  IsDue(used'[i], minutes[i], due'[i])
      BY <1>1 DEF DueIsSound, IsDue, Reading, Ahead
    <2>1. CASE i \in 1..Len(due)
      BY <1>1, <1>3, <2>1 DEF DueIsSound
    <2>2. CASE i = Len(due) + 1
      BY <1>1, <1>3, <2>2 DEF Wanted
    <2> QED
      BY <1>2, <1>3, <2>1, <2>2
  <1> QED
    BY <1>4, <1>5, <1>6, <1>7, <1>8 DEF DueInv

LEMMA TwoNumbers ==
  ASSUME NEW S, NEW q \in Seq(S), Len(q) = 2
  PROVE  q[1] \in S /\ q[2] \in S
  <1>1. 1 \in 1..Len(q) /\ 2 \in 1..Len(q)
    OBVIOUS
  <1>2. \A i \in 1..Len(q) : q[i] \in S
    OBVIOUS
  <1> QED
    BY <1>1, <1>2

(* A walk wants a minute at least.                                         *)
LEMMA WantedIsSome ==
  ASSUME Numbers, Progress, stage \in {"hours", "exceptions", "walk"}
  PROVE  Wanted \in Nat \ {0}
  <1>1. minutes \in Seq(Nat \ {0}) /\ Len(minutes) = 2 /\ Len(due) \in {0, 1}
    BY DEF Numbers, Progress
  <1>2. minutes[1] \in Nat \ {0} /\ minutes[2] \in Nat \ {0}
    BY <1>1, TwoNumbers
  <1>3. CASE Len(due) = 0
    <2>1. Len(due) + 1 = 1
      BY <1>3
    <2> QED
      BY <1>2, <2>1 DEF Wanted
  <1>4. CASE Len(due) = 1
    <2>1. Len(due) + 1 = 2
      BY <1>4
    <2> QED
      BY <1>2, <2>1 DEF Wanted
  <1> QED
    BY <1>1, <1>3, <1>4

LEMMA ReadHoursStep ==
  ASSUME DueInv, ReadHours
  PROVE  DueInv'
  <1>1. /\ CaseIsSound /\ Numbers /\ Progress /\ ReadIsSound /\ DueIsSound /\ RuleFitsBest
        /\ stage = "hours" /\ UNCHANGED <<case, hours, minutes, cursor, remaining, iterations, edits>>
        /\ Len(used) = Len(due) /\ used' = Append(used, hours)
    BY DEF DueInv, ReadHours, Progress
  <1>2. Wanted \in Nat \ {0}
    BY <1>1, WantedIsSome
  <1>0. /\ UsedIsSound' /\ Len(used') = Len(due) + 1 /\ used'[Len(due) + 1] = hours
        /\ \A i \in DOMAIN due : used'[i] = used[i]
    <2>1. used \in Seq(WeekHours) /\ hours \in WeekHours /\ due \in Seq(Moment)
      BY <1>1 DEF DueInv, UsedIsSound, ReadIsSound, IsCalendar, WeekHours, Numbers
    <2>2. used' \in Seq(WeekHours)
      BY <1>1, <2>1
    <2> QED
      BY <1>1, <2>1, <2>2 DEF UsedIsSound
  <1>3. CASE ~case.applies \/ DOMAIN hours = {}
    <2> DEFINE m == ByTheClock(case.base, Wanted)
    <2>1. Return(m) /\ UNCHANGED walk
      BY <1>1, <1>3 DEF ReadHours, ByTheClock, walk
    <2>2. m \in Moment
      <3>1. case.base \in InDay /\ Wanted * Minute \in Nat
        BY <1>1, <1>2, Units DEF CaseIsSound
      <3>2. case.base.day \in Int /\ case.base.time \in Nat /\ case.base = [day |-> case.base.day, time |-> case.base.time]
        BY <3>1, Units DEF InDay
      <3>3. m = [day |-> case.base.day, time |-> case.base.time + Wanted * Minute]
        BY <3>2 DEF ByTheClock
      <3>4. case.base.time + Wanted * Minute \in Nat
        BY <3>1, <3>2
      <3> QED
        BY <3>2, <3>3, <3>4 DEF Moment
    <2>3. ~(case.applies /\ DOMAIN hours # {})
      BY <1>3
    <2> HIDE DEF m
    <2>4. IsDue(hours, Wanted, m)
      BY <2>3 DEF m, IsDue
    <2> QED
      BY <1>1, <1>0, <2>1, <2>2, <2>4, ReturnIsSound
  <1>4. CASE ~(~case.applies \/ DOMAIN hours = {})
    <2>1. stage' = "exceptions" /\ due' = due /\ read' = [NothingRead EXCEPT !.hours = hours]
      BY <1>4 DEF ReadHours
    <2>2. read' = [hours |-> hours, exceptions |-> <<>>]
      BY <2>1 DEF NothingRead
    <2>3. IsReading(read')
      <3>1. IsCalendar(hours, 0..(Week - 1)) /\ IsCalendar(<<>>, Int)
        BY <1>1 DEF ReadIsSound, IsCalendar
      <3> QED
        BY <2>2, <3>1 DEF IsReading
    <2>4. ReadIsSound'
      <3>1. InUse' = hours /\ (case.applies /\ DOMAIN InUse # {})'
        BY <1>0, <1>1, <1>4, <2>1 DEF InUse
      <3>2. IsCalendar(hours, 0..(Week - 1))' /\ read'.hours = InUse'
        BY <1>1, <2>2, <3>1 DEF ReadIsSound
      <3> QED
        BY <2>1, <2>3, <3>1, <3>2 DEF ReadIsSound
    <2>5. CaseIsSound' /\ RuleFitsBest'
      BY <1>1 DEF CaseIsSound, RuleFitsBest, Rank, Fits
    <2>6. Numbers' /\ Progress' /\ WalkIsSound'
      BY <1>0, <1>1, <2>1 DEF Numbers, Progress, Stages, WalkIsSound
    <2>7. DueIsSound'
      BY <1>0, <1>1, <2>1 DEF DueIsSound, IsDue, Reading, Ahead
    <2> QED
      BY <1>0, <2>4, <2>5, <2>6, <2>7 DEF DueInv
  <1> QED
    BY <1>3, <1>4

LEMMA ReadExceptionsStep ==
  ASSUME DueInv, ReadExceptions
  PROVE  DueInv'
  <1>1. /\ CaseIsSound /\ Numbers /\ Progress /\ ReadIsSound /\ DueIsSound /\ RuleFitsBest
        /\ stage = "exceptions" /\ stage' = "walk"
        /\ UNCHANGED <<case, hours, minutes, due, used, edits>> /\ UsedIsSound
        /\ read' = [read EXCEPT !.exceptions = Ahead]
        /\ cursor' = case.base /\ remaining' = Wanted /\ iterations' = 0
    BY DEF DueInv, ReadExceptions, Ahead
  <1>2. Wanted \in Nat \ {0}
    BY <1>1, WantedIsSome
  <1>3. IsReading(read) /\ read' = [hours |-> read.hours, exceptions |-> Ahead]
    BY <1>1 DEF ReadIsSound, IsReading
  <1>4. IsCalendar(Ahead, Int)
    BY <1>1 DEF CaseIsSound, IsCalendar, Ahead
  <1>5. IsReading(read')
    BY <1>3, <1>4 DEF IsReading
  <1>6. InUse' = InUse /\ \A hs : Reading(hs)' = Reading(hs)
    BY <1>1 DEF InUse, Reading, Ahead
  <1>7. ReadIsSound'
    <2>1. read' = Reading(InUse)
      BY <1>1, <1>3 DEF ReadIsSound, Reading
    <2>2. IsCalendar(hours', 0..(Week - 1))
      BY <1>1 DEF ReadIsSound
    <2>3. case.applies /\ DOMAIN InUse # {}
      BY <1>1 DEF ReadIsSound
    <2> QED
      BY <1>1, <1>5, <1>6, <2>1, <2>2, <2>3 DEF ReadIsSound
  <1>8. CaseIsSound' /\ RuleFitsBest'
    BY <1>1 DEF CaseIsSound, RuleFitsBest, Rank, Fits
  <1>9. case.base \in InDay /\ case.base \in Moment
    BY <1>1, Units DEF CaseIsSound, InDay, Moment
  <1>10. Numbers' /\ Progress'
    BY <1>1, <1>2, <1>9, Units DEF Numbers, Progress, Stages
  <1>11. DueIsSound' /\ UsedIsSound'
    BY <1>1 DEF DueIsSound, UsedIsSound, IsDue, Reading, Ahead
  <1>12. WalkIsSound'
    <2>1. Total(read', case.base)[0] = 0
      BY <1>5, <1>9, TotalSums
    <2>2. Wanted' = Wanted
      BY <1>1 DEF Wanted
    <2>3. /\ remaining' > 0
          /\ cursor' = TurnStart(case.base, iterations')
          /\ remaining' = Wanted - Total(read', case.base)[iterations']
      BY <1>1, <1>2, <2>1 DEF TurnStart
    <2> QED
      BY <1>1, <2>2, <2>3 DEF WalkIsSound
  <1> QED
    BY <1>7, <1>8, <1>10, <1>11, <1>12 DEF DueInv

(* A turn in terms of what can be counted in it.                           *)
LEMMA TurnIsGain ==
  ASSUME WalkOneDay, IsReading(read), cursor \in InDay, remaining \in Nat
  PROVE  IF remaining <= Gain(read, cursor)
           THEN cursor' = Inside(read, cursor, remaining) /\ remaining' = 0
           ELSE cursor' = StartOfNextDay(cursor) /\ remaining' = remaining - Gain(read, cursor)
  <1> DEFINE h == HoursIn(read, cursor)
             s == StartIn(read, cursor)
             g == Gain(read, cursor)
  <1>1. HoursAt(cursor) = h /\ Later(cursor.time, h.from) = s
    BY DEF HoursAt, HoursIn, StartIn
  <1>2. /\ remaining > 0
        /\ \/ s >= h.to /\ cursor' = StartOfNextDay(cursor) /\ remaining' = remaining
           \/ /\ s < h.to
              /\ IF remaining <= Rounded(h.to - s)
                   THEN cursor' = [cursor EXCEPT !.time = s + remaining * Minute] /\ remaining' = 0
                   ELSE cursor' = StartOfNextDay(cursor) /\ remaining' = remaining - Rounded(h.to - s)
    BY <1>1 DEF WalkOneDay, Enough
  <1>3. s \in Nat /\ h.to \in Nat /\ g \in Nat
    BY TurnType, Units
  <1>4. g = IF s < h.to THEN Rounded(h.to - s) ELSE 0
    BY DEF Gain
  <1>5. Inside(read, cursor, remaining) = [cursor EXCEPT !.time = s + remaining * Minute]
    BY DEF Inside
  <1> HIDE DEF h, s, g
  <1>6. CASE s < h.to
    <2>1. g = Rounded(h.to - s) /\ ~(s >= h.to)
      BY <1>3, <1>4, <1>6
    <2> QED
      BY <1>2, <1>5, <2>1 DEF g
  <1>7. CASE ~(s < h.to)
    <2>1. g = 0 /\ ~(remaining <= g) /\ remaining - g = remaining
      BY <1>2, <1>4, <1>7
    <2>2. cursor' = StartOfNextDay(cursor) /\ remaining' = remaining
      BY <1>2, <1>7
    <2> QED
      BY <2>1, <2>2 DEF g
  <1> QED
    BY <1>6, <1>7

LEMMA WalkOneDayStep ==
  ASSUME DueInv, WalkOneDay
  PROVE  DueInv'
  <1> DEFINE base == case.base
             T == Total(read, base)
             k == iterations
             b == TurnStart(base, k)
             g == Gain(read, b)
  <1>1. /\ CaseIsSound /\ Numbers /\ Progress /\ ReadIsSound /\ DueIsSound /\ RuleFitsBest /\ WalkIsSound
        /\ stage = "walk" /\ remaining > 0 /\ k < MaxIterations /\ iterations' = k + 1
        /\ UNCHANGED <<case, hours, stage, minutes, due, read, used, edits>> /\ UsedIsSound
    BY DEF DueInv, WalkOneDay
  <1>2. /\ IsReading(read) /\ base \in InDay /\ Wanted \in Nat \ {0} /\ MaxIterations \in Nat
        /\ remaining \in Nat /\ k \in Nat /\ k \in 0..(MaxIterations - 1)
    <2>1. Wanted \in Nat \ {0}
      BY <1>1, WantedIsSome
    <2> QED
      BY <1>1, <2>1, Units DEF ReadIsSound, CaseIsSound, Numbers
  <1>3. cursor = b /\ remaining = Wanted - T[k]
    BY <1>1 DEF WalkIsSound
  <1>4. b \in InDay /\ StartOfNextDay(b) = TurnStart(base, k + 1) /\ g \in Nat
    BY <1>2, Turns
  <1>5. T[k] \in Nat /\ T[k + 1] \in Nat /\ T[k + 1] = T[k] + g
    BY <1>2, TotalSums
  <1>6. IF remaining <= g
          THEN cursor' = Inside(read, b, remaining) /\ remaining' = 0
          ELSE cursor' = TurnStart(base, k + 1) /\ remaining' = remaining - g
    <2>1. IsReading(read) /\ cursor \in InDay /\ remaining \in Nat
      BY <1>2, <1>3, <1>4
    <2>2. IF remaining <= Gain(read, cursor)
            THEN cursor' = Inside(read, cursor, remaining) /\ remaining' = 0
            ELSE cursor' = StartOfNextDay(cursor) /\ remaining' = remaining - Gain(read, cursor)
      BY <2>1, TurnIsGain
    <2> HIDE DEF b
    <2> QED
      BY <1>3, <1>4, <2>2
  <1>7. CaseIsSound' /\ RuleFitsBest' /\ Progress'
    BY <1>1 DEF CaseIsSound, RuleFitsBest, Rank, Fits, Progress
  <1>8. ReadIsSound' /\ DueIsSound' /\ UsedIsSound'
    BY <1>1 DEF ReadIsSound, DueIsSound, UsedIsSound, IsDue, Reading, Ahead, InUse
  <1>9. Wanted' = Wanted /\ k + 1 > 0 /\ (k + 1) - 1 = k
    BY <1>1, <1>2 DEF Wanted
  <1>10. CASE remaining <= g
    <2>1. remaining \in 1..g
      BY <1>1, <1>2, <1>4, <1>10
    <2>2. cursor' = Inside(read, b, remaining) /\ remaining' = 0
      BY <1>6, <1>10
    <2>3. cursor' \in Moment
      BY <1>2, <1>4, <2>1, <2>2, InsideIsNear
    <2>4. Numbers'
      BY <1>1, <1>2, <2>2, <2>3 DEF Numbers
    <2>5. Ends(read, base, Wanted, k, cursor')
      BY <1>3, <2>1, <2>2 DEF Ends
    <2>6. WalkIsSound'
      BY <1>1, <1>9, <2>2, <2>5 DEF WalkIsSound
    <2> QED
      BY <1>7, <1>8, <2>4, <2>6 DEF DueInv
  <1>11. CASE ~(remaining <= g)
    <2>1. cursor' = TurnStart(base, k + 1) /\ remaining' = remaining - g /\ remaining' > 0 /\ remaining' \in Nat
      BY <1>2, <1>4, <1>6, <1>11
    <2>2. cursor' \in Moment
      <3>1. TurnStart(base, k + 1) \in InDay
        <4>1. k + 1 \in Nat
          BY <1>2
        <4> QED
          BY <1>2, <4>1, Turns
      <3> QED
        BY <2>1, <3>1, Units DEF InDay, Moment
    <2>3. Numbers'
      BY <1>1, <1>2, <2>1, <2>2 DEF Numbers
    <2>4. remaining' = Wanted - T[k + 1]
      <3> HIDE DEF T, g
      <3> QED
        BY <1>2, <1>3, <1>4, <1>5, <2>1
    <2>5. WalkIsSound'
      BY <1>1, <1>9, <2>1, <2>4 DEF WalkIsSound
    <2> QED
      BY <1>7, <1>8, <2>3, <2>5 DEF DueInv
  <1> QED
    BY <1>10, <1>11

LEMMA EndWalkStep ==
  ASSUME DueInv, EndWalk
  PROVE  DueInv'
  <1> DEFINE base == case.base
             N == MaxIterations
             T == Total(read, base)
  <1>1. /\ Numbers /\ Progress /\ ReadIsSound /\ WalkIsSound /\ CaseIsSound /\ UsedIsSound
        /\ stage = "walk" /\ (remaining = 0 \/ iterations = N) /\ Return(cursor)
        /\ UNCHANGED <<case, hours, minutes, walk, used, edits>>
    BY DEF DueInv, EndWalk
  <1>2. Wanted \in Nat \ {0} /\ IsReading(read) /\ base \in InDay /\ cursor \in Moment
    BY <1>1, WantedIsSome DEF ReadIsSound, CaseIsSound, Numbers
  <1>3. Reaches(read, base, Wanted, cursor)
    <2>1. CASE remaining = 0
      <3>1. iterations > 0 /\ Ends(read, base, Wanted, iterations - 1, cursor)
        BY <1>1, <2>1 DEF WalkIsSound
      <3>2. iterations \in 0..N /\ N \in Nat
        BY <1>1, Units DEF Numbers
      <3>3. iterations - 1 \in 0..(N - 1)
        <4> HIDE DEF N
        <4> QED
          BY <3>1, <3>2
      <3> QED
        BY <3>1, <3>3 DEF Reaches
    <2>2. CASE remaining # 0
      <3>1. /\ iterations = N /\ remaining > 0 /\ cursor = TurnStart(base, N)
            /\ remaining = Wanted - T[N]
        BY <1>1, <2>2 DEF WalkIsSound
      <3>2. T[N] \in Nat
        BY <1>2, TotalSums, Units
      <3>3. T[N] < Wanted
        <4> HIDE DEF T, N
        <4> QED
          BY <1>2, <3>1, <3>2
      <3> QED
        BY <3>1, <3>3 DEF Reaches
    <2> QED
      BY <2>1, <2>2
  <1>4. IsDue(InUse, Wanted, cursor)
    <2>1. read = Reading(InUse) /\ case.applies /\ DOMAIN InUse # {}
      BY <1>1 DEF ReadIsSound
    <2> QED
      BY <1>3, <2>1 DEF IsDue
  <1>5. UsedIsSound' /\ Len(used') = Len(due) + 1 /\ used' = used
    BY <1>1 DEF Progress, UsedIsSound
  <1> QED
    BY <1>1, <1>2, <1>4, <1>5, ReturnIsSound DEF InUse

LEMMA SetBusinessHoursStep ==
  ASSUME DueInv, SetBusinessHours
  PROVE  DueInv'
  <1>1. /\ CaseIsSound /\ Numbers /\ Progress /\ ReadIsSound /\ WalkIsSound /\ RuleFitsBest
        /\ edits < MaxEdits /\ edits' = edits + 1 /\ hours' \in NewHours
        /\ UNCHANGED <<case, stage, minutes, due, read, cursor, remaining, iterations, used>>
        /\ UsedIsSound /\ DueIsSound
    BY DEF DueInv, SetBusinessHours, walk
  <1>2. edits \in Nat /\ edits' # 0 /\ edits' \in 0..MaxEdits
    BY <1>1, SlaDueDateAssumption DEF Numbers
  <1>3. IsCalendar(hours', 0..(Week - 1))
    BY <1>1, CasesAssumption
  <1>4. CaseIsSound' /\ RuleFitsBest' /\ Progress'
    BY <1>1 DEF CaseIsSound, RuleFitsBest, Rank, Fits, Progress
  <1>5. Numbers' /\ WalkIsSound'
    BY <1>1, <1>2 DEF Numbers, WalkIsSound, Wanted
  <1>6. ReadIsSound' /\ DueIsSound' /\ UsedIsSound'
    BY <1>1, <1>3 DEF ReadIsSound, DueIsSound, UsedIsSound, IsDue, Reading, Ahead, InUse
  <1> QED
    BY <1>4, <1>5, <1>6 DEF DueInv

LEMMA IdleStep ==
  ASSUME DueInv, UNCHANGED vars
  PROVE  DueInv'
  <1>1. UNCHANGED <<case, hours, stage, minutes, due, read, cursor, remaining, iterations, used, edits>>
    BY DEF vars, walk
  <1>2. CaseIsSound' /\ RuleFitsBest' /\ Progress'
    BY <1>1 DEF DueInv, CaseIsSound, RuleFitsBest, Rank, Fits, Progress
  <1>3. Numbers' /\ WalkIsSound'
    BY <1>1 DEF DueInv, Numbers, WalkIsSound, Wanted
  <1>4. ReadIsSound' /\ DueIsSound' /\ UsedIsSound'
    BY <1>1 DEF DueInv, ReadIsSound, DueIsSound, UsedIsSound, IsDue, Reading, Ahead, InUse
  <1> QED
    BY <1>2, <1>3, <1>4 DEF DueInv

(* The invariant holds.                                                    *)
LEMMA InvariantHolds == Spec => []DueInv
  <1>1. Init => DueInv
    BY InitIsSound
  <1>2. DueInv /\ [Next]_vars => DueInv'
    <2> SUFFICES ASSUME DueInv, [Next]_vars PROVE DueInv'
      OBVIOUS
    <2>1. CASE AttachSlaToTicket
      BY <2>1, AttachSlaStep
    <2>2. CASE ReadHours
      BY <2>2, ReadHoursStep
    <2>3. CASE ReadExceptions
      BY <2>3, ReadExceptionsStep
    <2>4. CASE WalkOneDay
      BY <2>4, WalkOneDayStep
    <2>5. CASE EndWalk
      BY <2>5, EndWalkStep
    <2>6. CASE SetBusinessHours
      BY <2>6, SetBusinessHoursStep
    <2>7. CASE UNCHANGED vars
      BY <2>7, IdleStep
    <2> QED
      BY <2>1, <2>2, <2>3, <2>4, <2>5, <2>6, <2>7 DEF Next, Handle
  <1> QED
    BY <1>1, <1>2, PTL DEF Spec

(***************************************************************************)
(* What follows from the invariant.                                        *)
(***************************************************************************)

LEMMA TypesAreRight ==
  ASSUME DueInv
  PROVE  TypeOK
  <1>1. Numbers /\ Progress
    BY DEF DueInv
  <1>2. minutes \in Seq(Nat)
    BY <1>1 DEF Numbers
  <1>3. Len(minutes) \in {0, 2} /\ Len(due) <= Len(used) /\ Len(used) <= 2
    <2>1. CASE stage \in {"rule", "none"}
      <3>1. minutes = <<>> /\ due = <<>> /\ used = <<>>
        BY <1>1, <2>1 DEF Progress
      <3> QED
        BY <3>1
    <2>2. CASE stage \in {"hours", "exceptions", "walk"}
      <3>1. /\ Len(minutes) = 2 /\ (Len(due) = 0 \/ Len(due) = 1)
            /\ Len(used) = Len(due) \/ Len(used) = Len(due) + 1
        BY <1>1, <2>2 DEF Progress
      <3>2. Len(minutes) \in {0, 2}
        BY <3>1
      <3>3. \A m, n : (m = 0 \/ m = 1) /\ (n = m \/ n = m + 1) => m <= n /\ n <= 2
        OBVIOUS
      <3>4. Len(due) <= Len(used) /\ Len(used) <= 2
        BY <3>1, <3>3
      <3> QED
        BY <3>2, <3>4
    <2>3. CASE stage = "attached"
      <3>1. Len(minutes) = 2 /\ Len(due) = 2 /\ Len(used) = 2
        BY <1>1, <2>3 DEF Progress
      <3> QED
        BY <3>1
    <2> QED
      BY <1>1, <2>1, <2>2, <2>3 DEF Progress, Stages
  <1> QED
    BY <1>1, <1>2, <1>3 DEF TypeOK, Numbers, Progress

LEMMA TurnsAreDays ==
  ASSUME DueInv
  PROVE  OneDayPerTurn
  <1> SUFFICES ASSUME stage = "walk"
               PROVE  cursor.day = case.base.day + iterations - (IF remaining = 0 /\ iterations > 0 THEN 1 ELSE 0)
    BY DEF OneDayPerTurn
  <1>1. /\ IsReading(read) /\ case.base \in InDay /\ Wanted \in Nat /\ iterations \in 0..MaxIterations
        /\ MaxIterations \in Nat /\ case.base.day \in Int
    BY WantedIsSome, Units DEF DueInv, ReadIsSound, CaseIsSound, Numbers, InDay
  <1>2. CASE remaining > 0 /\ cursor = TurnStart(case.base, iterations)
    <2>1. cursor.day = case.base.day + iterations
      BY <1>1, <1>2, Turns
    <2> QED
      BY <1>1, <1>2, <2>1
  <1>3. CASE remaining = 0 /\ iterations > 0 /\ Ends(read, case.base, Wanted, iterations - 1, cursor)
    <2>1. iterations - 1 \in 0..(MaxIterations - 1)
      BY <1>1, <1>3
    <2> DEFINE k == iterations - 1
    <2>2. k \in 0..(MaxIterations - 1) /\ Ends(read, case.base, Wanted, k, cursor)
      BY <1>3, <2>1
    <2> HIDE DEF k
    <2>3. cursor.day = case.base.day + k
      BY <1>1, <2>2, EndType
    <2> QED
      BY <1>1, <1>3, <2>3 DEF k
  <1> QED
    BY <1>2, <1>3 DEF DueInv, WalkIsSound

(* The walk to each answer has read a calendar.                            *)
LEMMA ReadingOfAnswer ==
  ASSUME DueInv, NEW i \in DOMAIN due
  PROVE  /\ IsReading(Reading(used[i]))
         /\ Reading(used[i]).hours = used[i] /\ Reading(used[i]).exceptions = Ahead
  <1>1. i \in DOMAIN used /\ used \in Seq(WeekHours)
    <2>1. due \in Seq(Moment) /\ used \in Seq(WeekHours) /\ Len(due) <= Len(used)
      BY TypesAreRight DEF DueInv, TypeOK, UsedIsSound
    <2>2. Len(due) \in Nat /\ Len(used) \in Nat /\ DOMAIN due = 1..Len(due)
          /\ DOMAIN used = 1..Len(used)
      BY <2>1
    <2> QED
      BY <2>1, <2>2
  <1>2. PICK hs \in WeekHours : hs = used[i]
    BY <1>1
  <1>3. IsCalendar(case.exceptions, Int)
    BY DEF DueInv, CaseIsSound
  <1>4. IsCalendar(hs, 0..(Week - 1))
    BY DEF IsCalendar, WeekHours
  <1>5. IsCalendar(Ahead, Int)
    BY <1>3 DEF IsCalendar, Ahead
  <1> QED
    BY <1>2, <1>4, <1>5 DEF IsReading, Reading

(* With the same hours both walks take the same turns, or both answers go  *)
(* by the clock.                                                           *)
LEMMA ResponseComesFirst ==
  ASSUME DueInv
  PROVE  ResponseDueFirst
  <1> DEFINE rd == Reading(used[1])
  <1> SUFFICES ASSUME stage = "attached", used[1] = used[2], minutes[1] <= minutes[2]
               PROVE  Instant(due[1]) <= Instant(due[2]) +
                        (IF due[2].day < case.base.day + MaxIterations THEN 0 ELSE Minute \div 2)
    BY DEF ResponseDueFirst
  <1>1. /\ case.base \in InDay
        /\ minutes \in Seq(Nat \ {0}) /\ Len(minutes) = 2 /\ Len(due) = 2 /\ due \in Seq(Moment)
    BY DEF DueInv, CaseIsSound, Numbers, Progress
  <1>2. minutes[1] \in Nat /\ minutes[2] \in Nat /\ 1 \in DOMAIN due /\ 2 \in DOMAIN due
    <2>1. minutes[1] \in Nat \ {0} /\ minutes[2] \in Nat \ {0}
      BY <1>1, TwoNumbers
    <2>2. DOMAIN due = 1..2
      <3>1. due \in Seq(Moment) /\ Len(due) = 2
        BY <1>1
      <3> QED
        BY <3>1
    <2>3. 1 \in 1..2 /\ 2 \in 1..2
      OBVIOUS
    <2> QED
      BY <2>1, <2>2, <2>3
  <1>5. IsReading(rd)
    BY <1>2, ReadingOfAnswer
  <1>6. IsDue(used[1], minutes[1], due[1]) /\ IsDue(used[1], minutes[2], due[2])
    BY <1>2 DEF DueInv, DueIsSound
  <1>3. CASE case.applies /\ DOMAIN used[1] # {}
    <2>1. /\ Reaches(rd, case.base, minutes[1], due[1])
          /\ Reaches(rd, case.base, minutes[2], due[2])
      BY <1>3, <1>6 DEF IsDue
    <2> HIDE DEF rd
    <2> QED
      BY <1>1, <1>2, <1>5, <2>1, EndsInOrder
  <1>4. CASE ~(case.applies /\ DOMAIN used[1] # {})
    <2> DEFINE y == case.base.day * Day
               a == minutes[1]
               a2 == minutes[2]
               slack == IF due[2].day < case.base.day + MaxIterations THEN 0 ELSE Minute \div 2
    <2>1. due[1] = ByTheClock(case.base, a) /\ due[2] = ByTheClock(case.base, a2)
      BY <1>4, <1>6 DEF IsDue
    <2>2. case.base.day \in Int /\ case.base.time \in Nat /\ case.base = [day |-> case.base.day, time |-> case.base.time]
      BY <1>1, Units DEF InDay
    <2>3. /\ due[1] = [day |-> case.base.day, time |-> case.base.time + a * Minute]
          /\ due[2] = [day |-> case.base.day, time |-> case.base.time + a2 * Minute]
      BY <2>1, <2>2 DEF ByTheClock
    <2>4. /\ Instant(due[1]) = y + (case.base.time + a * Minute)
          /\ Instant(due[2]) = y + (case.base.time + a2 * Minute)
      BY <2>3 DEF Instant
    <2>5. y \in Int /\ slack \in Nat
      BY <2>2, Units
    <2> HIDE DEF a, a2, y, slack
    <2>6. a * Minute \in Int /\ a2 * Minute \in Int /\ a * Minute <= a2 * Minute
      BY <1>2, Monotone, Units DEF a, a2
    <2>7. Instant(due[1]) <= Instant(due[2]) + slack
      BY <2>2, <2>4, <2>5, <2>6
    <2> QED
      BY <2>7 DEF slack
  <1> QED
    BY <1>3, <1>4

LEMMA NearIsDistance ==
  ASSUME NEW x \in Int, NEW y \in Int, NEW e \in Int, Near(x, y, e)
  PROVE  2 * Distance(x, y) <= e
  BY DEF Near, Distance

(* In UTC what a walk has counted is open time.                            *)
LEMMA CountsOpenTime ==
  ASSUME Offset = 0, DueInv
  PROVE  CountedIsOpenTime
  <1> DEFINE base == case.base
             T == Total(read, base)
             o == OpenBetween(read, base, cursor)
             k == iterations
  <1> SUFFICES ASSUME stage = "walk"
               PROVE  2 * Distance(o + Minute * remaining, Minute * Wanted) <= Minute * iterations
    BY DEF CountedIsOpenTime, OpenBetween
  <1>1. /\ IsReading(read) /\ base \in InDay /\ Wanted \in Nat \ {0} /\ k \in 0..MaxIterations
        /\ remaining \in Nat /\ Minute \in Nat /\ MaxIterations \in Nat
    <2>1. Wanted \in Nat \ {0}
      BY WantedIsSome DEF DueInv
    <2> QED
      BY <2>1, Units DEF DueInv, ReadIsSound, CaseIsSound, Numbers
  <1>2. k * Minute = Minute * k /\ Wanted * Minute = Minute * Wanted /\ Wanted * Minute \in Int /\ k * Minute \in Int
    BY <1>1, Distributes
  <1>3. CASE /\ remaining > 0 /\ cursor = TurnStart(base, k) /\ remaining = Wanted - T[k]
    <2> DEFINE c == T[k] * Minute
               d == Minute * remaining
    <2>1. o \in Nat /\ c \in Nat /\ Near(o, c, k * Minute)
      BY <1>1, <1>3, OpenTimeOfTurns
    <2>2. Minute * Wanted = c + d /\ d \in Int
      <3>1. T[k] \in Nat
        BY <1>1, TotalSums
      <3> HIDE DEF T
      <3>2. (T[k] + remaining) * Minute = T[k] * Minute + remaining * Minute
        BY <1>1, <3>1, Distributes
      <3>3. T[k] + remaining = Wanted
        BY <1>1, <1>3, <3>1
      <3>4. remaining * Minute = Minute * remaining /\ remaining * Minute \in Int
        BY <1>1
      <3> QED
        BY <1>2, <3>2, <3>3, <3>4
    <2>3. Near(o + d, c + d, k * Minute)
      <3> DEFINE e == k * Minute
      <3>1. e \in Int
        BY <1>2
      <3> HIDE DEF o, c, d, e
      <3>2. Near(o + d, c + d, e)
        BY <2>1, <2>2, <3>1 DEF Near, e
      <3> QED
        BY <3>2 DEF e
    <2>4. 2 * Distance(o + d, c + d) <= k * Minute
      <3> DEFINE x == o + d
                 y == c + d
                 e == k * Minute
      <3>1. x \in Int /\ y \in Int /\ e \in Int /\ Near(x, y, e)
        BY <1>2, <2>1, <2>2, <2>3
      <3> HIDE DEF x, y, e
      <3>2. 2 * Distance(x, y) <= e
        BY <3>1, NearIsDistance
      <3> QED
        BY <3>2 DEF x, y, e
    <2> QED
      BY <1>2, <2>2, <2>4
  <1>4. CASE /\ remaining = 0 /\ k > 0 /\ Ends(read, base, Wanted, k - 1, cursor)
    <2> DEFINE l == k - 1
               w == Wanted * Minute
               e == k * Minute
    <2>1. l \in 0..(MaxIterations - 1) /\ l + 1 = k /\ Ends(read, base, Wanted, l, cursor)
      BY <1>1, <1>4
    <2>2. o \in Nat /\ Near(o, Wanted * Minute, (l + 1) * Minute)
      <3> HIDE DEF l
      <3> QED
        BY <1>1, <2>1, OpenTimeAtEnd
    <2>3. o \in Int /\ w \in Int /\ e \in Int /\ Near(o, w, e)
      BY <1>2, <2>1, <2>2
    <2>4. o + Minute * remaining = o
      BY <1>1, <1>4, <2>3
    <2> HIDE DEF o, w, e
    <2>5. 2 * Distance(o, w) <= e
      BY <2>3, NearIsDistance
    <2> QED
      BY <1>2, <2>4, <2>5 DEF w, e
  <1> QED
    BY <1>3, <1>4 DEF DueInv, WalkIsSound

(* The day an instant is of.                                               *)
LEMMA DayOfInstant ==
  ASSUME NEW p \in Int, NEW q \in Int, NEW t \in Int, p * Day <= t, t < q * Day
  PROVE  t \div Day \in Int /\ p <= t \div Day /\ t \div Day < q
  <1> DEFINE d == t \div Day
             r == t % Day
  <1>1. Day \in Nat \ {0}
    BY Units
  <1>2. d \in Int /\ r \in 0..(Day - 1) /\ t = Day * d + r
    BY <1>1, Quotient
  <1> HIDE DEF d, r
  <1>3. Day * d = d * Day /\ (d + 1) * Day = d * Day + Day /\ d * Day \in Int /\ p * Day \in Int /\ q * Day \in Int
    BY <1>1, <1>2
  <1>4. p <= d
    <2> SUFFICES ASSUME d + 1 <= p PROVE FALSE
      BY <1>2
    <2>1. (d + 1) * Day <= p * Day
      <3>1. d + 1 \in Int
        BY <1>2
      <3> QED
        BY <1>1, <3>1, Monotone
    <2> QED
      BY <1>1, <1>2, <1>3, <2>1
  <1>5. d < q
    <2> SUFFICES ASSUME q <= d PROVE FALSE
      BY <1>2
    <2>1. q * Day <= d * Day
      BY <1>1, <1>2, Monotone
    <2> QED
      BY <1>1, <1>2, <1>3, <2>1
  <1> QED
    BY <1>2, <1>4, <1>5 DEF d

(* On the days whose exceptions are read, the walk sees them all.          *)
LEMMA SameOpening ==
  ASSUME Offset = 0, DueInv, NEW hs, NEW t \in Int,
         case.base.day * Day <= t, t < (case.base.day + Lookahead + 1) * Day
  PROVE  OpenAt(hs, Ahead, t) = OpenAt(hs, case.exceptions, t)
  <1> DEFINE d == t \div Day
  <1>1. /\ case.base.day \in Int /\ case.base.time >= 0 /\ Lookahead \in Nat
        /\ case.base.day + Lookahead + 1 \in Int
    <2>1. case.base \in InDay
      BY DEF DueInv, CaseIsSound
    <2>2. case.base.day \in Int /\ case.base.time >= 0
      BY <2>1, Units DEF InDay
    <2>3. Lookahead \in Nat
      BY SlaDueDateAssumption
    <2> QED
      BY <2>2, <2>3
  <1>2. d \in Int /\ case.base.day <= d /\ d < case.base.day + Lookahead + 1
    BY <1>1, DayOfInstant
  <1>3. UtcDate(case.base) = case.base.day
    BY <1>1 DEF UtcDate
  <1> HIDE DEF d
  <1>4. case.base.day <= d /\ d <= case.base.day + Lookahead
    BY <1>1, <1>2
  <1>5. /\ (d \in DOMAIN Ahead) = (d \in DOMAIN case.exceptions)
        /\ d \in DOMAIN Ahead => Ahead[d] = case.exceptions[d]
    BY <1>3, <1>4 DEF Ahead
  <1> QED
    BY <1>5 DEF OpenAt, d

(* An answer that is due after a walk inside those days.                   *)
LEMMA WalkedAnswer ==
  ASSUME DueInv, NEW i \in DOMAIN due, Walked(i)
  PROVE  \E rd :
           /\ IsReading(rd) /\ rd.hours = used[i] /\ rd.exceptions = Ahead
           /\ case.base \in InDay /\ minutes[i] \in Nat
           /\ \E k \in 0..(MaxIterations - 1) : k < Lookahead /\ Ends(rd, case.base, minutes[i], k, due[i])
  <1>0. PICK rd : /\ rd = Reading(used[i])
                  /\ IsReading(rd) /\ rd.hours = used[i] /\ rd.exceptions = Ahead
    BY ReadingOfAnswer
  <1>1. case.base \in InDay /\ case.base.day \in Int
    BY DEF DueInv, CaseIsSound, InDay
  <1>2. minutes[i] \in Nat
    <2>1. Numbers /\ Progress /\ due \in Seq(Moment)
      BY DEF DueInv, Numbers
    <2>2. stage \notin {"rule", "none"}
      BY <2>1 DEF Progress
    <2>3. Len(minutes) = 2 /\ (Len(due) = 0 \/ Len(due) = 1 \/ Len(due) = 2)
      BY <2>1, <2>2 DEF Progress, Stages
    <2>4. i = 1 \/ i = 2
      <3>1. Len(due) \in Nat /\ DOMAIN due = 1..Len(due)
        BY <2>1
      <3> QED
        BY <2>3, <3>1
    <2>5. minutes[1] \in Nat \ {0} /\ minutes[2] \in Nat \ {0}
      <3>1. minutes \in Seq(Nat \ {0})
        BY <2>1 DEF Numbers
      <3> QED
        BY <2>3, <3>1, TwoNumbers
    <2> QED
      BY <2>4, <2>5
  <1>3. /\ case.applies /\ DOMAIN used[i] # {}
        /\ due[i].day < case.base.day + Lookahead /\ due[i].day < case.base.day + MaxIterations
    BY DEF Walked
  <1>4. Reaches(rd, case.base, minutes[i], due[i])
    BY <1>0, <1>3 DEF DueInv, DueIsSound, IsDue
  <1>5. due[i] # TurnStart(case.base, MaxIterations)
    <2>1. TurnStart(case.base, MaxIterations).day = case.base.day + MaxIterations
      BY <1>0, <1>1, Turns, Units
    <2> QED
      BY <1>1, <1>3, <2>1, Units
  <1>6. PICK k \in 0..(MaxIterations - 1) : Ends(rd, case.base, minutes[i], k, due[i])
    BY <1>4, <1>5 DEF Reaches
  <1>7. due[i].day = case.base.day + k /\ k \in Nat
    BY <1>0, <1>1, <1>2, <1>6, EndType
  <1>8. k < Lookahead
    BY <1>1, <1>3, <1>7, SlaDueDateAssumption
  <1> QED
    BY <1>0, <1>1, <1>2, <1>6, <1>8

(* The last turn ends in its day's hours.                                  *)
LEMMA AnswersAreDueWhileOpen ==
  ASSUME Offset = 0, DueInv
  PROVE  DueWhileOpen
  <1> SUFFICES ASSUME NEW i \in DOMAIN due, Walked(i)
               PROVE  \E t \in (Instant(due[i]) - 1 - Minute \div 2)..(Instant(due[i]) - 1) :
                        OpenAt(used[i], case.exceptions, t)
    BY DEF DueWhileOpen
  <1> DEFINE m == due[i]
             base == case.base
             hs == used[i]
  <1>1. PICK rd :
          /\ IsReading(rd) /\ rd.hours = hs /\ rd.exceptions = Ahead
          /\ base \in InDay /\ minutes[i] \in Nat
          /\ \E k \in 0..(MaxIterations - 1) : k < Lookahead /\ Ends(rd, base, minutes[i], k, m)
    BY WalkedAnswer
  <1>2. PICK k \in 0..(MaxIterations - 1) : k < Lookahead /\ Ends(rd, base, minutes[i], k, m)
    BY <1>1
  <1>3. PICK x \in 0..(Day - 1) :
          /\ m.day * Day + x \in (Instant(m) - 1 - Minute \div 2)..(Instant(m) - 1)
          /\ OpenAt(hs, Ahead, m.day * Day + x)
    BY <1>1, <1>2, OpenAtEnd
  <1>4. m.day = base.day + k /\ k \in Nat /\ base.day \in Int /\ Lookahead \in Nat
    BY <1>1, <1>2, EndType, SlaDueDateAssumption DEF InDay
  <1> DEFINE t == m.day * Day + x
  <1>5. t \in Int /\ base.day * Day <= t /\ t < (base.day + Lookahead + 1) * Day
    <2> DEFINE p == base.day
               q == m.day
               r == base.day + Lookahead
               y == q * Day
    <2>1. p \in Int /\ q \in Int /\ r \in Int /\ p <= q /\ q <= r /\ Day \in Nat \ {0}
      BY <1>2, <1>4, Units
    <2> HIDE DEF p, q, r
    <2>2. p * Day \in Int /\ r * Day \in Int /\ y \in Int /\ (r + 1) * Day = r * Day + Day
      BY <2>1
    <2>3. p * Day <= y
      BY <2>1, Monotone
    <2>4. y <= r * Day
      BY <2>1, Monotone
    <2> HIDE DEF y
    <2>5. y + x \in Int /\ p * Day <= y + x /\ y + x < r * Day + Day
      BY <2>1, <2>2, <2>3, <2>4
    <2> QED
      BY <2>2, <2>5 DEF p, q, r, y
  <1> HIDE DEF t
  <1>6. OpenAt(hs, case.exceptions, t)
    BY <1>3, <1>5, SameOpening DEF t
  <1> QED
    BY <1>3, <1>6 DEF t

(* Open time on the days the walk took is that of the agency's calendar.   *)
LEMMA AnswersAreDueInTime ==
  ASSUME Offset = 0, DueInv
  PROVE  DueAfterOpenTime
  <1> SUFFICES ASSUME NEW i \in DOMAIN due, Walked(i),
                      InWholeMinutes(used[i]), InWholeMinutes(case.exceptions)
               PROVE  2 * Distance(OpenTime(used[i], case.exceptions, Instant(case.base), Instant(due[i])),
                                   Minute * minutes[i]) <= Minute
    BY DEF DueAfterOpenTime
  <1> DEFINE m == due[i]
             base == case.base
             w == minutes[i] * Minute
             hs == used[i]
             o == OpenTime(hs, Ahead, Instant(base), Instant(m))
  <1>1. PICK rd :
          /\ IsReading(rd) /\ rd.hours = hs /\ rd.exceptions = Ahead
          /\ base \in InDay /\ minutes[i] \in Nat
          /\ \E k \in 0..(MaxIterations - 1) : k < Lookahead /\ Ends(rd, base, minutes[i], k, m)
    BY WalkedAnswer
  <1>2. PICK k \in 0..(MaxIterations - 1) : k < Lookahead /\ Ends(rd, base, minutes[i], k, m)
    BY <1>1
  <1>3. IsWhole(rd)
    BY <1>1 DEF IsWhole, InWholeMinutes, Ahead
  <1>4. o \in Nat /\ w \in Nat /\ Near(o, w, Minute)
    <2>1. OpenBetween(rd, base, m) = o
      BY <1>1 DEF OpenBetween
    <2> HIDE DEF o
    <2> QED
      BY <1>1, <1>2, <1>3, <2>1, OpenTimeAtEnd
  <1>5. /\ m.day = base.day + k /\ k \in Nat /\ m.time \in Nat /\ 2 * m.time <= 2 * Day + Minute
        /\ base.day \in Int /\ base.time \in 0..(Day - 1) /\ Lookahead \in Nat
    BY <1>1, <1>2, EndType, SlaDueDateAssumption DEF InDay
  <1>6. /\ Instant(base) \in Int /\ Instant(m) \in Int /\ base.day * Day <= Instant(base)
        /\ Instant(m) <= (base.day + Lookahead + 1) * Day
    <2> DEFINE p == base.day * Day
               q == base.day + k
               r == base.day + Lookahead
               y == q * Day
    <2>1. p \in Int /\ q \in Int /\ r \in Int /\ q + 1 <= r /\ Day \in Nat \ {0} /\ Minute \in Nat /\ Minute <= Day
      BY <1>2, <1>5, Units
    <2>2. Instant(base) = p + base.time /\ Instant(m) = y + m.time
      BY <1>5 DEF Instant
    <2> HIDE DEF p, q, r
    <2>3. (q + 1) * Day = y + Day /\ y \in Int /\ r * Day \in Int /\ (r + 1) * Day = r * Day + Day
      BY <2>1
    <2>4. (q + 1) * Day <= r * Day
      <3>1. q + 1 \in Int
        BY <2>1
      <3> QED
        BY <2>1, <3>1, Monotone
    <2> HIDE DEF y
    <2>5. m.time <= Day + Day
      BY <1>5, <2>1
    <2>6. y + m.time <= r * Day + Day
      BY <1>5, <2>1, <2>3, <2>4, <2>5
    <2>7. p + base.time \in Int /\ p <= p + base.time /\ y + m.time \in Int
      BY <1>5, <2>1, <2>3
    <2> QED
      BY <2>2, <2>3, <2>6, <2>7 DEF p, r
  <1>7. OpenTime(hs, case.exceptions, Instant(base), Instant(m)) = o
    <2>1. ASSUME NEW t \in Instant(base)..(Instant(m) - 1)
          PROVE  OpenAt(hs, Ahead, t) = OpenAt(hs, case.exceptions, t)
      <3> DEFINE p == base.day * Day
                 q == (base.day + Lookahead + 1) * Day
      <3>1. p \in Int /\ q \in Int
        BY <1>5, Units
      <3> HIDE DEF p, q
      <3>2. t \in Int /\ p <= t /\ t < q
        BY <1>6, <3>1 DEF p, q
      <3> QED
        BY <3>2, SameOpening DEF p, q
    <2> QED
      BY <1>6, <2>1, SameOpenTime
  <1>8. w = Minute * minutes[i] /\ Minute \in Int
    BY <1>1, Units
  <1> HIDE DEF o, w
  <1>9. 2 * Distance(o, w) <= Minute
    BY <1>4, <1>8, NearIsDistance
  <1> QED
    BY <1>7, <1>8, <1>9

(***************************************************************************)
(* The theorems.                                                           *)
(***************************************************************************)

(* Wherever the server is and whenever the hours are edited, a ticket gets *)
(* the rule that fits it best, a walk covers as many days as it has turns, *)
(* and the response is due after the resolution only if the hours were not *)
(* the same when the two computations began (findBestMatchingRule,         *)
(* calculateDueDate).                                                      *)
THEOREM DatesInOrder == Spec => [](TypeOK /\ RuleFitsBest /\ ResponseDueFirst /\ OneDayPerTurn)
  <1>1. DueInv => TypeOK /\ RuleFitsBest /\ ResponseDueFirst /\ OneDayPerTurn
    BY TypesAreRight, ResponseComesFirst, TurnsAreDays DEF DueInv
  <1> QED
    BY <1>1, InvariantHolds, PTL

(* In UTC, what calculateDueDate has counted and what remains are the      *)
(* minutes wanted, in every turn.                                          *)
THEOREM WalkCountsOpenTime ==
  ASSUME Offset = 0
  PROVE  Spec => []CountedIsOpenTime
  <1>1. DueInv => CountedIsOpenTime
    BY CountsOpenTime
  <1> QED
    BY <1>1, InvariantHolds, PTL

(* In UTC, all that is said of the dates that attachSlaToTicket stores.    *)
THEOREM RightDueDates ==
  ASSUME Offset = 0
  PROVE  Spec => []DueDatesAreRight
  <1>1. DueInv => DueDatesAreRight
    BY TypesAreRight, ResponseComesFirst, TurnsAreDays, AnswersAreDueInTime, AnswersAreDueWhileOpen
    DEF DueInv, DueDatesAreRight
  <1> QED
    BY <1>1, InvariantHolds, PTL

=============================================================================
