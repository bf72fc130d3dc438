--------------------------- MODULE SecretsProofs ----------------------------
(****************************************************************************)
(* AccountSecrets: one key for every secret of a deployment, across any     *)
(* crashes, and truthful answers, for any number of clients and of bodies.  *)
(* Backup: what an archive holds, what is found after an interrupted        *)
(* command, and the order of the names, for any moments in time.            *)
(****************************************************************************)
EXTENDS AccountSecrets, Backup, SequenceTheorems, TLAPS

-----------------------------------------------------------------------------
(****************************************************************************)
(* The calendar: the name of an archive is written from seconds.            *)
(****************************************************************************)

YearOfEra(doe) == (doe - doe \div 1460 + doe \div 36524 - doe \div 146096) \div 365
YearStart(y) == 365 * y + y \div 4 - y \div 100

\* The year of a day within four centuries: a, q and p are the leap days before it.
LEMMA YearInCentury ==
  ASSUME NEW b \in Int, NEW k \in Int, NEW a \in Int, NEW y \in Int, NEW q \in Int, NEW p \in Int,
         0 <= b, b <= 3, 0 <= k, k <= 36523,
         1460 * a <= k + 24 * b, k + 24 * b < 1460 * a + 1460,
         365 * y <= k - a, k - a < 365 * y + 365,
         4 * q <= y, y < 4 * q + 4, 4 * p <= y + 1, y + 1 < 4 * p + 4
  PROVE  /\ 0 <= y /\ y <= 99
         /\ 365 * y + q <= k
         /\ k < 365 * (y + 1) + p
<1>1. 0 <= a /\ a <= 25
  OBVIOUS
<1>2. 0 <= y /\ y <= 99
  BY <1>1
<1>3. 365 * y + q <= k
  <2>1. CASE a >= q
    BY <2>1
  <2>2. CASE a <= q - 1
    BY <2>2
  <2> QED BY <2>1, <2>2
<1>4. k < 365 * (y + 1) + p
  <2>1. CASE p >= a
    BY <2>1
  <2>2. CASE p <= a - 1
    BY <2>2, <1>1
  <2> QED BY <2>1, <2>2
<1> QED BY <1>2, <1>3, <1>4

\* The days of an era, 0 .. 146096, fall into the years of YearStart.
LEMMA YearOfDay ==
  ASSUME NEW doe \in Int, 0 <= doe, doe <= 146096
  PROVE  /\ YearOfEra(doe) \in Int /\ 0 <= YearOfEra(doe) /\ YearOfEra(doe) <= 399
         /\ YearStart(YearOfEra(doe)) <= doe
         /\ doe <= YearStart(YearOfEra(doe)) + 365
         /\ YearOfEra(doe) < 399 => doe < YearStart(YearOfEra(doe) + 1)
<1> DEFINE y == YearOfEra(doe)
           b == doe \div 36524
           a == doe \div 1460
<1>1. CASE doe = 146096
  <2>1. y = 399 
    BY <1>1 DEF YearOfEra
  <2>2. YearStart(399) = 145731
    BY DEF YearStart
  <2> QED BY <1>1, <2>1, <2>2
<1>2. CASE doe < 146096
  <2>1. b \in Int /\ 0 <= b /\ b <= 3 /\ 36524 * b <= doe /\ doe < 36524 * b + 36524
    BY <1>2
  <2>2. doe \div 146096 = 0
    BY <1>2
  <2>3. a \in Int /\ 1460 * a <= doe /\ doe < 1460 * a + 1460
    OBVIOUS
  <2>4. y = (doe - a + b) \div 365
    BY <2>1, <2>2, <2>3 DEF YearOfEra
  <2> HIDE DEF a, b
  <2>5. y \in Int /\ 365 * y <= doe - a + b /\ doe - a + b < 365 * y + 365
    BY <2>1, <2>3, <2>4
  <2> DEFINE q == (y - 100 * b) \div 4
             p == (y - 100 * b + 1) \div 4
  <2> HIDE DEF y
  <2>6. q \in Int /\ 4 * q <= y - 100 * b /\ y - 100 * b < 4 * q + 4
    BY <2>1, <2>5
  <2>7. p \in Int /\ 4 * p <= y - 100 * b + 1 /\ y - 100 * b + 1 < 4 * p + 4
    BY <2>1, <2>5
  <2> HIDE DEF p, q
  <2>8. /\ 0 <= y - 100 * b /\ y - 100 * b <= 99
        /\ 365 * (y - 100 * b) + q <= doe - 36524 * b
        /\ doe - 36524 * b < 365 * (y - 100 * b + 1) + p
    <3> DEFINE k == doe - 36524 * b
               aa == a - 25 * b
               yy == y - 100 * b
    <3>1. k \in Int /\ 0 <= k /\ k <= 36523 /\ aa \in Int /\ yy \in Int
      BY <2>1, <2>3, <2>5
    <3>2. 1460 * aa <= k + 24 * b /\ k + 24 * b < 1460 * aa + 1460
      BY <2>1, <2>3
    <3>3. 365 * yy <= k - aa /\ k - aa < 365 * yy + 365
      BY <2>1, <2>3, <2>5
    <3>4. 4 * q <= yy /\ yy < 4 * q + 4 /\ 4 * p <= yy + 1 /\ yy + 1 < 4 * p + 4
      BY <2>6, <2>7
    <3> HIDE DEF k, aa, yy
    <3>5. 0 <= yy /\ yy <= 99 /\ 365 * yy + q <= k /\ k < 365 * (yy + 1) + p
      BY <2>1, <2>6, <2>7, <3>1, <3>2, <3>3, <3>4, YearInCentury
    <3> QED BY <3>5 DEF k, yy
  <2>9. y \in Int /\ 0 <= y /\ y <= 399 /\ y \div 100 = b /\ y \div 4 = 25 * b + q
    BY <2>1, <2>5, <2>6, <2>8
  <2>10. YearStart(y) <= doe
    BY <2>1, <2>6, <2>8, <2>9 DEF YearStart
  <2>11. p <= q + 1
    BY <2>6, <2>7, <2>5, <2>1
  <2>12. doe <= YearStart(y) + 365
    BY <2>1, <2>6, <2>7, <2>8, <2>9, <2>11 DEF YearStart
  <2>13. ASSUME y < 399 PROVE doe < YearStart(y + 1)
    <3>1. CASE y - 100 * b < 99
      <4>1. (y + 1) \div 100 = b /\ (y + 1) \div 4 = 25 * b + p
        BY <2>1, <2>5, <2>7, <2>8, <3>1
      <4> QED BY <4>1, <2>1, <2>5, <2>7, <2>8 DEF YearStart
    <3>2. CASE y - 100 * b = 99
      <4>1. (y + 1) \div 100 = b + 1 /\ (y + 1) \div 4 = 25 * b + 25
        BY <2>1, <2>5, <2>8, <3>2
      <4> QED BY <4>1, <3>2, <2>1, <2>5 DEF YearStart
    <3> QED BY <3>1, <3>2, <2>8, <2>1, <2>5
  <2> QED BY <2>9, <2>10, <2>12, <2>13 DEF y
<1> QED BY <1>1, <1>2

\* The day of the era, its year from March, and the month from March of its day.
Days(secs) == secs \div 86400 + 719468
Era(secs) == Days(secs) \div 146097
DayOfEra(secs) == Days(secs) - Era(secs) * 146097
YearFromMarch(secs) == YearOfEra(DayOfEra(secs)) + Era(secs) * 400
DayOfYear(secs) == DayOfEra(secs) - YearStart(YearOfEra(DayOfEra(secs)))
MonthFromMarch(secs) == (5 * DayOfYear(secs) + 2) \div 153
MonthStart(mp) == (153 * mp + 2) \div 5

\* backup.sh, date: the parts that a name is made of, and their ranges.
LEMMA StampParts ==
  ASSUME NEW t \in Nat
  PROVE  /\ YearFromMarch(t) \in Int /\ DayOfYear(t) \in Int /\ MonthFromMarch(t) \in Int
         /\ Days(t) \in Int /\ Era(t) \in Int /\ DayOfEra(t) \in Int
         /\ 146097 * Era(t) <= Days(t) /\ Days(t) < 146097 * Era(t) + 146097
         /\ DayOfEra(t) = Days(t) - 146097 * Era(t)
         /\ 0 <= DayOfEra(t) /\ DayOfEra(t) <= 146096
         /\ 0 <= DayOfYear(t) /\ DayOfYear(t) <= 365
         /\ 0 <= MonthFromMarch(t) /\ MonthFromMarch(t) <= 11
<1>1. Days(t) \in Int
  BY DEF Days
<1>2. /\ Era(t) \in Int /\ 146097 * Era(t) <= Days(t) /\ Days(t) < 146097 * Era(t) + 146097
  BY <1>1 DEF Era
<1>3. /\ DayOfEra(t) \in Int /\ DayOfEra(t) = Days(t) - 146097 * Era(t)
      /\ 0 <= DayOfEra(t) /\ DayOfEra(t) <= 146096
  BY <1>1, <1>2 DEF DayOfEra
<1>4. YearOfEra(DayOfEra(t)) \in Int /\ YearStart(YearOfEra(DayOfEra(t))) \in Int
  BY <1>3, YearOfDay DEF YearStart
<1>5. DayOfYear(t) \in Int /\ 0 <= DayOfYear(t) /\ DayOfYear(t) <= 365
  BY <1>3, <1>4, YearOfDay DEF DayOfYear
<1>6. MonthFromMarch(t) \in Int /\ 0 <= MonthFromMarch(t) /\ MonthFromMarch(t) <= 11
  BY <1>5 DEF MonthFromMarch
<1> QED BY <1>1, <1>2, <1>3, <1>4, <1>5, <1>6 DEF YearFromMarch

\* A later year starts a year of days later.
LEMMA YearStartsGrow ==
  ASSUME NEW x \in Int, NEW y \in Int, 0 <= x, x <= y, y <= 399
  PROVE  YearStart(x) <= YearStart(y)
<1> DEFINE a == x \div 4  b == y \div 4  c == x \div 100  d == y \div 100
<1>1. a \in Int /\ b \in Int /\ c \in Int /\ d \in Int
  OBVIOUS
<1>2. a <= b /\ d - c <= y - x
  OBVIOUS
<1>3. YearStart(x) = 365 * x + a - c /\ YearStart(y) = 365 * y + b - d
  BY DEF YearStart
<1> HIDE DEF a, b, c, d
<1> QED BY <1>1, <1>2, <1>3

\* A later day has a later year from March, or a later day of the same year.
LEMMA LaterDay ==
  ASSUME NEW s \in Nat, NEW t \in Nat, Days(s) < Days(t)
  PROVE  \/ YearFromMarch(s) < YearFromMarch(t)
         \/ YearFromMarch(s) = YearFromMarch(t) /\ DayOfYear(s) < DayOfYear(t)
<1> DEFINE x == YearOfEra(DayOfEra(s))  y == YearOfEra(DayOfEra(t))
<1>1. x \in Int /\ y \in Int /\ 0 <= x /\ x <= 399 /\ 0 <= y /\ y <= 399
  BY StampParts, YearOfDay
<1>2. YearFromMarch(s) = x + 400 * Era(s) /\ YearFromMarch(t) = y + 400 * Era(t)
  BY <1>1, StampParts DEF YearFromMarch
<1>3. YearStart(x) \in Int /\ YearStart(y) \in Int
  BY <1>1 DEF YearStart
<1>4. /\ DayOfYear(s) = DayOfEra(s) - YearStart(x)
      /\ DayOfYear(t) = DayOfEra(t) - YearStart(y)
  BY DEF DayOfYear
<1>5. Era(s) \in Int /\ Era(t) \in Int /\ Era(s) <= Era(t)
  BY StampParts
<1>6. CASE Era(s) < Era(t)
  BY <1>1, <1>2, <1>6, StampParts
<1>7. CASE Era(s) = Era(t)
  <2>1. DayOfEra(s) < DayOfEra(t)
    BY <1>7, StampParts
  <2>2. x <= y
    <3>1. SUFFICES ASSUME y < x PROVE FALSE
      BY <1>1
    <3>2. DayOfEra(t) < YearStart(y + 1)
      BY <1>1, <3>1, YearOfDay, StampParts
    <3>3. YearStart(y + 1) <= YearStart(x)
      BY <1>1, <3>1, YearStartsGrow
    <3>4. YearStart(x) <= DayOfEra(s)
      BY YearOfDay, StampParts
    <3>5. YearStart(y + 1) \in Int
      BY <1>1 DEF YearStart
    <3> HIDE DEF x, y
    <3> QED BY <2>1, <3>2, <3>3, <3>4, <3>5, <1>3, StampParts
  <2>3. CASE x = y
    BY <1>2, <1>3, <1>4, <1>7, <2>1, <2>3, StampParts
  <2>4. CASE x < y
    BY <1>1, <1>2, <1>7, <2>4, StampParts
  <2> QED BY <1>1, <2>2, <2>3, <2>4
<1> QED BY <1>5, <1>6, <1>7

\* The name of an archive, by those parts.
LEMMA NameOf ==
  ASSUME NEW t \in Nat
  PROVE  LET mp == MonthFromMarch(t)
             m  == IF mp < 10 THEN mp + 3 ELSE mp - 9 IN
         Stamp(t) = << YearFromMarch(t) + (IF m <= 2 THEN 1 ELSE 0), m,
                       DayOfYear(t) - MonthStart(mp) + 1,
                       (t % 86400) \div 3600, (t % 3600) \div 60, t % 60 >>
BY DEF Stamp, YearFromMarch, DayOfYear, MonthFromMarch, MonthStart, YearStart, YearOfEra,
       DayOfEra, Era, Days

\* A name is six numbers.
LEMMA NameIsNumbers ==
  ASSUME NEW t \in Nat
  PROVE  DOMAIN Stamp(t) = 1..6 /\ \A k \in 1..6 : Stamp(t)[k] \in Int
<1> DEFINE Y == YearFromMarch(t)
           p == MonthFromMarch(t)
           d == DayOfYear(t)
           m == IF p < 10 THEN p + 3 ELSE p - 9
           v == Y + (IF m <= 2 THEN 1 ELSE 0)
           a == Stamp(t)
<1>1. a = << v, m, d - MonthStart(p) + 1,
             (t % 86400) \div 3600, (t % 3600) \div 60, t % 60 >>
  BY NameOf, SMTT(30)
<1>2. v \in Int /\ m \in Int /\ d - MonthStart(p) + 1 \in Int
  BY StampParts DEF MonthStart
<1> HIDE DEF Y, p, d, m, v, a
<1>3. DOMAIN a = 1..6
  BY <1>1
<1>4. a[1] \in Int /\ a[2] \in Int /\ a[3] \in Int /\ a[4] \in Int /\ a[5] \in Int /\ a[6] \in Int
  BY <1>1, <1>2
<1>5. \A k \in 1..6 : k = 1 \/ k = 2 \/ k = 3 \/ k = 4 \/ k = 5 \/ k = 6
  OBVIOUS
<1>6. \A k \in 1..6 : a[k] \in Int
  BY <1>4, <1>5
<1> QED BY <1>3, <1>6 DEF a

\* Of two names the first number that differs says which is the earlier.
LEMMA LaterName ==
  ASSUME NEW a, NEW b, DOMAIN a = 1..6,
         \/ a[1] < b[1]
         \/ /\ a[1] = b[1]
            /\ \/ a[2] < b[2]
               \/ /\ a[2] = b[2]
                  /\ \/ a[3] < b[3]
                     \/ /\ a[3] = b[3]
                        /\ \/ a[4] < b[4]
                           \/ a[4] = b[4] /\ a[5] < b[5]
                           \/ a[4] = b[4] /\ a[5] = b[5] /\ a[6] < b[6]
  PROVE  Before(a, b)
<1>1. ASSUME NEW k \in 1..6, a[k] < b[k], \A j \in 1..(k - 1) : a[j] = b[j]
      PROVE  Before(a, b)
  BY <1>1 DEF Before
<1>2. CASE a[1] < b[1]
  BY <1>1, <1>2
<1>3. CASE a[1] = b[1] /\ a[2] < b[2]
  BY <1>1, <1>3
<1>4. CASE a[1] = b[1] /\ a[2] = b[2] /\ a[3] < b[3]
  BY <1>1, <1>4
<1>5. CASE a[1] = b[1] /\ a[2] = b[2] /\ a[3] = b[3] /\ a[4] < b[4]
  BY <1>1, <1>5
<1>6. CASE a[1] = b[1] /\ a[2] = b[2] /\ a[3] = b[3] /\ a[4] = b[4] /\ a[5] < b[5]
  BY <1>1, <1>6
<1>7. CASE a[1] = b[1] /\ a[2] = b[2] /\ a[3] = b[3] /\ a[4] = b[4] /\ a[5] = b[5] /\ a[6] < b[6]
  BY <1>1, <1>7
<1> QED BY <1>2, <1>3, <1>4, <1>5, <1>6, <1>7

\* stamp, the name of an archive: of two moments the later one has the later name, so
\* that the newest name in the list is the newest archive, in any month and year.
THEOREM NamesInOrder ==
  ASSUME NEW s \in Nat, NEW t \in Nat, s < t
  PROVE  Before(Stamp(s), Stamp(t))
<1> DEFINE Y == YearFromMarch(s)   Z == YearFromMarch(t)
           p == MonthFromMarch(s)  q == MonthFromMarch(t)
           d == DayOfYear(s)       e == DayOfYear(t)
           m == IF p < 10 THEN p + 3 ELSE p - 9
           n == IF q < 10 THEN q + 3 ELSE q - 9
           v == Y + (IF m <= 2 THEN 1 ELSE 0)
           w == Z + (IF n <= 2 THEN 1 ELSE 0)
           a == Stamp(s)           b == Stamp(t)
<1> SUFFICES Before(a, b)
  OBVIOUS
<1>1. /\ a = << v, m, d - MonthStart(p) + 1,
                (s % 86400) \div 3600, (s % 3600) \div 60, s % 60 >>
      /\ b = << w, n, e - MonthStart(q) + 1,
                (t % 86400) \div 3600, (t % 3600) \div 60, t % 60 >>
  BY NameOf
<1>2. /\ Y \in Int /\ Z \in Int /\ d \in Int /\ e \in Int
      /\ p \in Int /\ q \in Int /\ 0 <= p /\ p <= 11 /\ 0 <= q /\ q <= 11
  BY StampParts
<1>3. /\ 153 * p <= 5 * d + 2 /\ 5 * d + 2 < 153 * p + 153
      /\ 153 * q <= 5 * e + 2 /\ 5 * e + 2 < 153 * q + 153
  <2>1. p = (5 * d + 2) \div 153 /\ q = (5 * e + 2) \div 153
    BY DEF MonthFromMarch
  <2> HIDE DEF p, q, d, e
  <2> QED BY <1>2, <2>1
<1>4. DOMAIN a = 1..6
  BY <1>1
<1>5. /\ a[1] = v /\ a[2] = m /\ a[3] = d - MonthStart(p) + 1
      /\ a[4] = (s % 86400) \div 3600 /\ a[5] = (s % 3600) \div 60 /\ a[6] = s % 60
      /\ b[1] = w /\ b[2] = n /\ b[3] = e - MonthStart(q) + 1
      /\ b[4] = (t % 86400) \div 3600 /\ b[5] = (t % 3600) \div 60 /\ b[6] = t % 60
  BY <1>1
<1> HIDE DEF Y, Z, p, q, d, e, a, b
<1>8. \/ p < 10 /\ m = p + 3 /\ v = Y
      \/ p >= 10 /\ m = p - 9 /\ v = Y + 1
  BY <1>2
<1>9. \/ q < 10 /\ n = q + 3 /\ w = Z
      \/ q >= 10 /\ n = q - 9 /\ w = Z + 1
  BY <1>2
<1>10. m \in Int /\ n \in Int /\ v \in Int /\ w \in Int
  BY <1>2
<1> HIDE DEF m, n, v, w
<1>6. CASE Days(s) < Days(t)
  <2>1. \/ Y < Z
        \/ Y = Z /\ d < e
    BY <1>6, LaterDay DEF Y, Z, d, e
  <2>2. Y = Z => p <= q
    BY <1>2, <1>3, <2>1
  <2>3. CASE v < w
    BY <2>3, <1>4, <1>5, LaterName
  <2>4. CASE ~(v < w)
    <3>1. v = w /\ m <= n
      BY <1>2, <1>8, <1>9, <1>10, <2>1, <2>2, <2>4
    <3>2. CASE m < n
      BY <3>1, <3>2, <1>4, <1>5, LaterName
    <3>3. CASE m = n
      <4>1. p = q /\ Y = Z /\ d < e
        BY <1>2, <1>8, <1>9, <1>10, <2>1, <2>2, <3>1, <3>3
      <4>2. MonthStart(p) \in Int /\ MonthStart(p) = MonthStart(q)
        BY <4>1, <1>2 DEF MonthStart
      <4>3. a[3] < b[3]
        BY <4>1, <4>2, <1>5, <1>2
      <4>4. a[1] = b[1] /\ a[2] = b[2]
        BY <3>1, <3>3, <1>5
      <4> QED BY <4>3, <4>4, <1>4, LaterName
    <3> QED BY <3>1, <3>2, <3>3, <1>10
  <2> QED BY <2>3, <2>4
<1>7. CASE ~(Days(s) < Days(t))
  <2>1. Days(s) = Days(t) /\ s \div 86400 = t \div 86400
    BY <1>7 DEF Days
  <2>2. a[1] = b[1] /\ a[2] = b[2] /\ a[3] = b[3]
    <3>1. Y = Z /\ d = e /\ p = q
      BY <2>1 DEF Y, Z, d, e, p, q, YearFromMarch, DayOfYear, MonthFromMarch, DayOfEra, Era
    <3> QED BY <3>1, <1>5 DEF m, n, v, w
  <2>3. /\ a[4] \in Int /\ a[5] \in Int /\ a[6] \in Int
        /\ b[4] \in Int /\ b[5] \in Int /\ b[6] \in Int
    BY <1>5
  <2>4. \/ a[4] < b[4]
        \/ a[4] = b[4] /\ a[5] < b[5]
        \/ a[4] = b[4] /\ a[5] = b[5] /\ a[6] < b[6]
    <3> DEFINE x == s % 86400  y == t % 86400  h == x \div 3600  i == y \div 3600
               f == s % 3600   g == t % 3600   k == f \div 60    l == g \div 60
    <3>1. x \in Int /\ y \in Int /\ x < y
      BY <2>1
    <3>2. h \in Int /\ i \in Int /\ 3600 * h <= x /\ x < 3600 * h + 3600
          /\ 3600 * i <= y /\ y < 3600 * i + 3600
      BY <3>1
    <3>3. f = x - 3600 * h /\ g = y - 3600 * i
      BY <3>1, <3>2
    <3>4. f \in Int /\ g \in Int /\ k \in Int /\ l \in Int
          /\ 60 * k <= f /\ f < 60 * k + 60 /\ 60 * l <= g /\ g < 60 * l + 60
      OBVIOUS
    <3>5. s % 60 = f - 60 * k /\ t % 60 = g - 60 * l
      BY <3>4
    <3>6. a[4] = h /\ a[5] = k /\ a[6] = s % 60 /\ b[4] = i /\ b[5] = l /\ b[6] = t % 60
      BY <1>5
    <3> HIDE DEF x, y, h, i, f, g, k, l
    <3>7. \/ h < i
          \/ h = i /\ k < l
          \/ h = i /\ k = l /\ f - 60 * k < g - 60 * l
      BY <3>1, <3>2, <3>3, <3>4
    <3> QED BY <3>5, <3>6, <3>7
  <2> QED BY <2>2, <2>4, <1>4, LaterName
<1> QED BY <1>6, <1>7

-----------------------------------------------------------------------------
(***************************************************************************)
(* Volumes.                                                                *)
(***************************************************************************)

LEMMA EmptyVolume ==
  ASSUME NEW n
  PROVE  IsVolume(Empty, n) /\ DOMAIN Empty = {}
BY DEF IsVolume, Empty

LEMMA MoreKeys ==
  ASSUME NEW vol, NEW m \in Nat, NEW n \in Nat, m <= n, IsVolume(vol, m)
  PROVE  IsVolume(vol, n)
<1>1. 1..m \subseteq 1..n
  OBVIOUS
<1>2. Dbs(m) \subseteq Dbs(n)
  BY <1>1 DEF Dbs
<1> QED BY <1>1, <1>2 DEF IsVolume

LEMMA OnlyIsPart ==
  ASSUME NEW vol, NEW S, NEW n, IsVolume(vol, n)
  PROVE  /\ IsVolume(Only(vol, S), n)
         /\ DOMAIN Only(vol, S) = DOMAIN vol \cap S
         /\ Part(Only(vol, S), vol)
<1>1. /\ DOMAIN Only(vol, S) = DOMAIN vol \cap S
      /\ \A f \in DOMAIN vol \cap S : Only(vol, S)[f] = vol[f]
  BY DEF Only
<1>2. Only(vol, S) = [f \in DOMAIN Only(vol, S) |-> Only(vol, S)[f]]
  BY DEF Only
<1> QED BY <1>1, <1>2 DEF IsVolume, Part

LEMMA WithoutFile ==
  ASSUME NEW vol, NEW f, NEW n, IsVolume(vol, n)
  PROVE  /\ IsVolume(Without(vol, f), n)
         /\ DOMAIN Without(vol, f) = DOMAIN vol \ {f}
         /\ Part(Without(vol, f), vol)
<1>1. DOMAIN vol \cap (Files \ {f}) = DOMAIN vol \ {f}
  BY DEF IsVolume
<1> QED BY <1>1, OnlyIsPart DEF Without

LEMMA WithIsVolume ==
  ASSUME NEW vol, NEW f, NEW x, NEW n, IsVolume(vol, n),
         \/ f = "db" /\ x \in Dbs(n)
         \/ f = "wal" /\ x \in 1..MaxWrites
         \/ f = "key" /\ x \in 1..n
         \/ f = "mdm"
  PROVE  IsVolume(With(vol, f, x), n)
<1> DEFINE w == With(vol, f, x)
<1>1. DOMAIN w = DOMAIN vol \cup {f} /\ w = [g \in DOMAIN w |-> w[g]]
  BY DEF With
<1>2. w[f] = x /\ \A g \in DOMAIN w : g # f => g \in DOMAIN vol /\ w[g] = vol[g]
  BY DEF With
<1> HIDE DEF w
<1>3. DOMAIN w \subseteq Files
  BY <1>1 DEF IsVolume, Files
<1>4. "db" \in DOMAIN w => w["db"] \in Dbs(n)
  BY <1>2 DEF IsVolume
<1>5. "wal" \in DOMAIN w => w["wal"] \in 1..MaxWrites
  BY <1>2 DEF IsVolume
<1>6. "key" \in DOMAIN w => w["key"] \in 1..n
  BY <1>2 DEF IsVolume
<1>7. IsVolume(w, n)
  BY <1>1, <1>3, <1>4, <1>5, <1>6 DEF IsVolume
<1> QED BY <1>7 DEF w

LEMMA OverOther ==
  ASSUME NEW new, NEW old, NEW n, IsVolume(new, n), IsVolume(old, n)
  PROVE  /\ IsVolume(Over(new, old), n)
         /\ DOMAIN Over(new, old) = DOMAIN new \cup DOMAIN old
         /\ Part(new, Over(new, old))
<1>1. /\ DOMAIN Over(new, old) = DOMAIN new \cup DOMAIN old
      /\ \A f \in DOMAIN new : Over(new, old)[f] = new[f]
      /\ \A f \in DOMAIN old \ DOMAIN new : Over(new, old)[f] = old[f]
  BY DEF Over
<1>2. Over(new, old) = [f \in DOMAIN Over(new, old) |-> Over(new, old)[f]]
  BY DEF Over
<1> QED BY <1>1, <1>2 DEF IsVolume, Part

\* The rest of an archive is read over the part that has been.
LEMMA OverItsPart ==
  ASSUME NEW part, NEW vol, NEW n, IsVolume(vol, n), Part(part, vol)
  PROVE  Over(part, vol) = vol
<1>1. Over(part, vol) = [f \in DOMAIN vol |-> vol[f]]
  BY DEF Over, Part
<1> QED BY <1>1 DEF IsVolume

LEMMA OverEmpty ==
  ASSUME NEW vol, NEW n, IsVolume(vol, n)
  PROVE  Over(vol, Empty) = vol
<1>1. Over(vol, Empty) = [f \in DOMAIN vol |-> vol[f]]
  BY DEF Over, Empty
<1> QED BY <1>1 DEF IsVolume

LEMMA PartOfPart ==
  ASSUME NEW a, NEW b, NEW c, Part(a, b), Part(b, c)
  PROVE  Part(a, c)
BY DEF Part

LEMMA WholePart ==
  ASSUME NEW vol
  PROVE  Part(vol, vol)
BY DEF Part

LEMMA OnlyItsPart ==
  ASSUME NEW part, NEW vol, NEW n, IsVolume(part, n), Part(part, vol)
  PROVE  Only(vol, DOMAIN part) = part
<1>1. Only(vol, DOMAIN part) = [f \in DOMAIN part |-> part[f]]
  BY DEF Only, Part
<1> QED BY <1>1 DEF IsVolume

LEMMA SoundWhole ==
  ASSUME NEW part, NEW vol, Part(part, vol), Sound(part)
  PROVE  Sound(vol)
BY DEF Sound, Part

LEMMA MergedVolume ==
  ASSUME NEW vol, NEW n, IsVolume(vol, n), {"db", "key"} \subseteq DOMAIN vol
  PROVE  /\ IsVolume(Merged(vol), n)
         /\ {"db", "key"} \subseteq DOMAIN Merged(vol)
         /\ Sound(vol) => Sound(Merged(vol))
<1>1. CASE "wal" \notin DOMAIN vol
  BY <1>1 DEF Merged
<1>2. CASE "wal" \in DOMAIN vol
  <2> DEFINE w == Without(vol, "wal")
             d == [vol["db"] EXCEPT !.v = vol["wal"]]
  <2>1. Merged(vol) = With(w, "db", d)
    BY <1>2 DEF Merged
  <2>2. vol["db"] \in Dbs(n) /\ vol["wal"] \in 0..MaxWrites
    <3>1. vol["wal"] \in 1..MaxWrites /\ vol["db"] \in Dbs(n)
      BY <1>2 DEF IsVolume
    <3> QED BY <3>1, CommandsAssumption
  <2>3. d \in Dbs(n) /\ d.key = vol["db"].key
    BY <2>2 DEF Dbs
  <2>4. IsVolume(w, n) /\ DOMAIN w = DOMAIN vol \ {"wal"} /\ w["key"] = vol["key"]
    <3>1. IsVolume(w, n) /\ DOMAIN w = DOMAIN vol \ {"wal"} /\ Part(w, vol)
      BY WithoutFile
    <3> QED BY <3>1 DEF Part
  <2> HIDE DEF w, d
  <2>5. IsVolume(With(w, "db", d), n)
    BY <2>3, <2>4, WithIsVolume DEF Files
  <2>6. /\ {"db", "key"} \subseteq DOMAIN With(w, "db", d)
        /\ With(w, "db", d)["db"] = d /\ With(w, "db", d)["key"] = vol["key"]
    <3> DEFINE u == With(w, "db", d)
    <3>1. /\ DOMAIN u = DOMAIN w \cup {"db"} /\ u["db"] = d
          /\ \A g \in DOMAIN w \ {"db"} : u[g] = w[g]
      BY DEF With
    <3>2. "key" \in DOMAIN w \ {"db"}
      BY <2>4
    <3> HIDE DEF u
    <3>3. {"db", "key"} \subseteq DOMAIN u /\ u["db"] = d /\ u["key"] = vol["key"]
      BY <2>4, <3>1, <3>2
    <3> QED BY <3>3 DEF u
  <2> QED BY <2>1, <2>3, <2>5, <2>6 DEF Sound
<1> QED BY <1>1, <1>2

\* Two moments have two names.
LEMMA NamesDiffer ==
  ASSUME NEW s \in Nat, NEW t \in Nat, s < t
  PROVE  Stamp(s) # Stamp(t)
<1> DEFINE a == Stamp(s)
<1>1. SUFFICES ASSUME a = Stamp(t) PROVE FALSE
  OBVIOUS
<1>2. DOMAIN a = 1..6 /\ \A k \in 1..6 : a[k] \in Int
  BY NameIsNumbers
<1>3. Before(a, a)
  BY <1>1, NamesInOrder
<1> HIDE DEF a
<1>4. PICK k \in 1..6 : a[k] < a[k]
  BY <1>2, <1>3 DEF Before
<1> QED BY <1>2, <1>4

LEMMA SoundWith ==
  ASSUME NEW vol, NEW f, NEW x, f \notin {"db", "key"}, {"db", "key"} \subseteq DOMAIN vol
  PROVE  /\ {"db", "key"} \subseteq DOMAIN With(vol, f, x)
         /\ Sound(vol) => Sound(With(vol, f, x))
<1> DEFINE u == With(vol, f, x)
<1>1. DOMAIN u = DOMAIN vol \cup {f} /\ \A g \in DOMAIN vol \ {f} : u[g] = vol[g]
  BY DEF With
<1>2. "db" \in DOMAIN vol \ {f} /\ "key" \in DOMAIN vol \ {f}
  OBVIOUS
<1> HIDE DEF u
<1>3. {"db", "key"} \subseteq DOMAIN u /\ u["db"] = vol["db"] /\ u["key"] = vol["key"]
  BY <1>1, <1>2
<1>4. {"db", "key"} \subseteq DOMAIN u /\ (Sound(vol) => Sound(u))
  BY <1>3 DEF Sound
<1> QED BY <1>4 DEF u

LEMMA SoundWithout ==
  ASSUME NEW vol, NEW f, NEW n, IsVolume(vol, n), f \notin {"db", "key"}
  PROVE  /\ {"db", "key"} \subseteq DOMAIN vol => {"db", "key"} \subseteq DOMAIN Without(vol, f)
         /\ Sound(vol) => Sound(Without(vol, f))
<1> DEFINE u == Without(vol, f)
<1>1. DOMAIN u = DOMAIN vol \ {f} /\ Part(u, vol)
  BY WithoutFile
<1> HIDE DEF u
<1>2. /\ {"db", "key"} \subseteq DOMAIN vol => {"db", "key"} \subseteq DOMAIN u
      /\ Sound(vol) => Sound(u)
  BY <1>1 DEF Sound, Part
<1> QED BY <1>2 DEF u

LEMMA OpGoes ==
  ASSUME OpInv, NEW pc, Goto(pc)
  PROVE  /\ op' = [kind |-> op.kind, pc |-> pc, at |-> op.at, from |-> op.from, part |-> op.part,
                   old |-> op.old, res |-> op.res, torn |-> op.torn]
         /\ op'.kind = op.kind /\ op'.pc = pc /\ op'.at = op.at /\ op'.from = op.from
         /\ op'.part = op.part /\ op'.old = op.old /\ op'.res = op.res /\ op'.torn = op.torn
BY DEF OpInv, Goto

LEMMA CheckPreserves ==
  ASSUME BackupIInv, Check
  PROVE  BackupIInv'
<1> USE DEF BackupIInv, BackupInv, CommandsEndWell
<1>1. /\ op.pc = "check" /\ UNCHANGED <<live, staging, archives, service, now, ops, writes, keys>>
      /\ UNCHANGED <<cleared, torn, stranded>> /\ faults' \in Nat
  BY DEF Check, Fault, BackupTypeOK, volumes, counters, history
<1>2. PICK pc \in {"tar", "cleanup"} : Goto(pc)
  BY DEF Check
<1>3. /\ op' = [kind |-> op.kind, pc |-> pc, at |-> op.at, from |-> op.from, part |-> op.part,
               old |-> op.old, res |-> op.res, torn |-> op.torn]
      /\ op'.kind = op.kind /\ op'.pc = pc /\ op'.at = op.at /\ op'.from = op.from
      /\ op'.part = op.part /\ op'.old = op.old /\ op'.res = op.res /\ op'.torn = op.torn
  BY <1>2, OpGoes
<1> USE <1>1, <1>2, <1>3
<1>4. BackupTypeOK'
  BY DEF BackupTypeOK
<1>5. ArchiveIsOneMoment' /\ KeyFits'
  BY DEF ArchiveIsOneMoment, KeyFits, OpInv
<1>6. NothingLost' /\ RestoreAnswers' /\ ServiceIsBack'
  BY DEF NothingLost, RestoreAnswers, ServiceIsBack, OpInv, ContentInv
<1>7. OpInv'
  BY DEF OpInv
<1>8. ContentInv'
  BY DEF ContentInv, OpInv
<1>9. ArchiveInv'
  BY DEF ArchiveInv, OpInv
<1>10. SoundInv'
  BY DEF SoundInv, OpInv
<1> QED BY <1>4, <1>5, <1>6, <1>7, <1>8, <1>9, <1>10

LEMMA WritePreserves ==
  ASSUME BackupIInv, Write
  PROVE  BackupIInv'
<1> USE DEF BackupIInv, BackupInv, CommandsEndWell
<1> DEFINE wal == writes + 1
<1>1. /\ service = "up" /\ writes' \in 0..MaxWrites /\ live' = With(live, "wal", wal)
      /\ UNCHANGED <<staging, archives, service, op, now, ops, keys, faults, cleared, torn, stranded>>
  BY CommandsAssumption DEF Write, steady, history, BackupTypeOK
<1>2. IsVolume(live, keys) /\ {"db", "key"} \subseteq DOMAIN live
  BY <1>1 DEF BackupTypeOK
<1>3. wal \in 1..MaxWrites
  <2>1. live["db"] \in Dbs(keys)
    BY <1>2 DEF IsVolume
  <2>2. writes + 1 \in 1..MaxWrites
    BY CommandsAssumption DEF Write, BackupTypeOK
  <2> QED BY <2>1, <2>2 DEF Dbs
<1> HIDE DEF wal
<1>4. /\ IsVolume(live', keys) /\ {"db", "key"} \subseteq DOMAIN live'
      /\ Sound(live) => Sound(live')
  BY <1>1, <1>2, <1>3, WithIsVolume, SoundWith
<1> USE <1>1, <1>2, <1>4
<1>5. BackupTypeOK'
  BY DEF BackupTypeOK
<1>6. ArchiveIsOneMoment' /\ KeyFits'
  BY DEF ArchiveIsOneMoment, KeyFits, OpInv, Sound
<1>7. NothingLost' /\ RestoreAnswers' /\ ServiceIsBack'
  BY DEF NothingLost, RestoreAnswers, ServiceIsBack, OpInv, ContentInv
<1>8. OpInv'
  BY DEF OpInv
<1>9. ContentInv'
  BY DEF ContentInv, OpInv
<1>10. ArchiveInv'
  BY DEF ArchiveInv, OpInv
<1>11. SoundInv'
  BY DEF SoundInv, OpInv
<1> QED BY <1>5, <1>6, <1>7, <1>8, <1>9, <1>10, <1>11

LEMMA CheckpointPreserves ==
  ASSUME BackupIInv, Checkpoint
  PROVE  BackupIInv'
<1> USE DEF BackupIInv, BackupInv, CommandsEndWell
<1>1. /\ service = "up" /\ live' = Merged(live)
      /\ UNCHANGED <<staging, archives, service, op, now, ops, writes, keys, faults>>
      /\ UNCHANGED <<cleared, torn, stranded>>
  BY DEF Checkpoint, steady, history, counters
<1>2. IsVolume(live, keys) /\ {"db", "key"} \subseteq DOMAIN live
  BY <1>1 DEF BackupTypeOK
<1>3. /\ IsVolume(live', keys) /\ {"db", "key"} \subseteq DOMAIN live'
      /\ Sound(live) => Sound(live')
  BY <1>1, <1>2, MergedVolume
<1> USE <1>1, <1>2, <1>3
<1>4. BackupTypeOK'
  BY DEF BackupTypeOK
<1>5. ArchiveIsOneMoment' /\ KeyFits'
  BY DEF ArchiveIsOneMoment, KeyFits, OpInv, Sound
<1>6. NothingLost' /\ RestoreAnswers' /\ ServiceIsBack'
  BY DEF NothingLost, RestoreAnswers, ServiceIsBack, OpInv, ContentInv
<1>7. OpInv'
  BY DEF OpInv
<1>8. ContentInv'
  BY DEF ContentInv, OpInv
<1>9. ArchiveInv'
  BY DEF ArchiveInv, OpInv
<1>10. SoundInv'
  BY DEF SoundInv, OpInv
<1> QED BY <1>4, <1>5, <1>6, <1>7, <1>8, <1>9, <1>10

LEMMA MdmPreserves ==
  ASSUME BackupIInv, Mdm
  PROVE  BackupIInv'
<1> USE DEF BackupIInv, BackupInv, CommandsEndWell
<1>1. /\ service = "up"
      /\ live' = Without(live, "mdm") \/ live' = With(live, "mdm", TRUE)
      /\ UNCHANGED <<staging, archives, service, op, now, ops, writes, keys, faults>>
      /\ UNCHANGED <<cleared, torn, stranded>>
  BY DEF Mdm, steady, history, counters
<1>2. IsVolume(live, keys) /\ {"db", "key"} \subseteq DOMAIN live
  BY <1>1 DEF BackupTypeOK
<1>3. /\ IsVolume(live', keys) /\ {"db", "key"} \subseteq DOMAIN live'
      /\ Sound(live) => Sound(live')
  <2>1. CASE live' = Without(live, "mdm")
    <3>1. IsVolume(Without(live, "mdm"), keys)
      BY <1>2, WithoutFile
    <3>2. /\ {"db", "key"} \subseteq DOMAIN Without(live, "mdm")
          /\ Sound(live) => Sound(Without(live, "mdm"))
      BY <1>2, SoundWithout
    <3> QED BY <2>1, <3>1, <3>2
  <2>2. CASE live' = With(live, "mdm", TRUE)
    <3>1. IsVolume(With(live, "mdm", TRUE), keys)
      BY <1>2, WithIsVolume
    <3>2. /\ {"db", "key"} \subseteq DOMAIN With(live, "mdm", TRUE)
          /\ Sound(live) => Sound(With(live, "mdm", TRUE))
      BY <1>2, SoundWith
    <3> QED BY <2>2, <3>1, <3>2
  <2> QED BY <1>1, <2>1, <2>2
<1> USE <1>1, <1>2, <1>3
<1>4. BackupTypeOK'
  BY DEF BackupTypeOK
<1>5. ArchiveIsOneMoment' /\ KeyFits'
  BY DEF ArchiveIsOneMoment, KeyFits, OpInv, Sound
<1>6. NothingLost' /\ RestoreAnswers' /\ ServiceIsBack'
  BY DEF NothingLost, RestoreAnswers, ServiceIsBack, OpInv, ContentInv
<1>7. OpInv'
  BY DEF OpInv
<1>8. ContentInv'
  BY DEF ContentInv, OpInv
<1>9. ArchiveInv'
  BY DEF ArchiveInv, OpInv
<1>10. SoundInv'
  BY DEF SoundInv, OpInv
<1> QED BY <1>4, <1>5, <1>6, <1>7, <1>8, <1>9, <1>10

\* A command begins: its moment is later than that of every archive.
LEMMA CommandStarts ==
  ASSUME OpInv, BackupTypeOK, NEW kind, NEW pc, NEW from, NEW wasTorn,
         Started(kind, pc, from, wasTorn)
  PROVE  /\ op.pc = "idle" /\ now' \in Nat /\ now < now' /\ ops' \in Nat
         /\ op' = [kind |-> kind, pc |-> pc, at |-> now', from |-> from, part |-> Empty,
                   old |-> live, res |-> "refused", torn |-> wasTorn]
         /\ op'.kind = kind /\ op'.pc = pc /\ op'.at = now' /\ op'.from = from
         /\ op'.part = Empty /\ op'.old = live /\ op'.res = "refused" /\ op'.torn = wasTorn
         /\ UNCHANGED <<live, archives, service, writes, keys, faults, cleared, torn, stranded>>
<1>1. PICK gap \in Gaps :
        /\ now' = now + gap
        /\ op' = [Idle EXCEPT !.kind = kind, !.pc = pc, !.at = now + gap, !.from = from,
                              !.old = live, !.res = "refused", !.torn = wasTorn]
  BY DEF Started
<1>2. now \in Nat /\ gap \in Nat /\ gap > 0
  BY TimesAssumption DEF BackupTypeOK
<1>3. /\ op.pc = "idle" /\ ops' = ops + 1
      /\ UNCHANGED <<live, archives, service, writes, keys, faults, cleared, torn, stranded>>
  BY DEF Started, steady, history
<1>4. ops' \in Nat
  BY <1>3 DEF BackupTypeOK
<1>5. op' = [kind |-> kind, pc |-> pc, at |-> now', from |-> from, part |-> Empty,
             old |-> live, res |-> "refused", torn |-> wasTorn]
  BY <1>1 DEF Idle
<1>6. now' \in Nat /\ now < now'
  BY <1>1, <1>2
<1>7. /\ op'.kind = kind /\ op'.pc = pc /\ op'.at = now' /\ op'.from = from
      /\ op'.part = Empty /\ op'.old = live /\ op'.res = "refused" /\ op'.torn = wasTorn
  BY <1>5
<1> QED BY <1>3, <1>4, <1>5, <1>6, <1>7

LEMMA BeginBackupPreserves ==
  ASSUME BackupIInv, BeginBackup
  PROVE  BackupIInv'
<1> USE DEF BackupIInv, BackupInv, CommandsEndWell
<1>1. /\ op.pc = "idle" /\ now' \in Nat /\ now < now' /\ ops' \in Nat
      /\ op' = [kind |-> "backup", pc |-> "stop", at |-> now', from |-> Empty, part |-> Empty,
                old |-> live, res |-> "refused", torn |-> FALSE]
      /\ op'.kind = "backup" /\ op'.pc = "stop" /\ op'.at = now' /\ op'.from = Empty
      /\ op'.part = Empty /\ op'.old = live /\ op'.res = "refused" /\ op'.torn = FALSE
      /\ UNCHANGED <<live, archives, service, writes, keys, faults, cleared, torn, stranded>>
  BY CommandStarts DEF BeginBackup
<1>2. staging' = staging
  BY DEF BeginBackup
<1>3. IsVolume(Empty, keys)
  BY EmptyVolume
<1>4. \A a \in archives : a.at \in 0..now /\ a.at \in 0..now' /\ a.at < now'
  <2>1. now \in Nat /\ \A a \in archives : a.at \in 0..now
    BY DEF BackupTypeOK
  <2> QED BY <1>1, <2>1
<1> USE <1>1, <1>2, <1>3, <1>4
<1>5. BackupTypeOK'
  BY DEF BackupTypeOK
<1>6. ArchiveIsOneMoment' /\ KeyFits'
  BY DEF ArchiveIsOneMoment, KeyFits, OpInv
<1>7. NothingLost' /\ RestoreAnswers' /\ ServiceIsBack'
  BY DEF NothingLost, RestoreAnswers, ServiceIsBack, OpInv, ContentInv
<1>8. OpInv'
  BY DEF OpInv
<1>9. ContentInv'
  BY DEF ContentInv, OpInv
<1>10. ArchiveInv'
  BY DEF ArchiveInv, OpInv
<1>11. SoundInv'
  BY DEF SoundInv, OpInv
<1> QED BY <1>5, <1>6, <1>7, <1>8, <1>9, <1>10, <1>11

LEMMA BeginRestorePreserves ==
  ASSUME NEW b \in archives, BackupIInv, BeginRestore(b)
  PROVE  BackupIInv'
<1> USE DEF BackupIInv, BackupInv, CommandsEndWell
<1>1. /\ op.pc = "idle" /\ now' \in Nat /\ now < now' /\ ops' \in Nat
      /\ op' = [kind |-> "restore", pc |-> "stop", at |-> now', from |-> b.data, part |-> Empty,
                old |-> live, res |-> "refused", torn |-> b.torn]
      /\ op'.kind = "restore" /\ op'.pc = "stop" /\ op'.at = now' /\ op'.from = b.data
      /\ op'.part = Empty /\ op'.old = live /\ op'.res = "refused" /\ op'.torn = b.torn
      /\ UNCHANGED <<live, archives, service, writes, keys, faults, cleared, torn, stranded>>
  <2>1. Started("restore", "stop", b.data, b.torn)
    BY DEF BeginRestore
  <2>2. OpInv /\ BackupTypeOK
    OBVIOUS
  <2> QED BY <2>1, <2>2, CommandStarts, Zenon
<1>2. staging' = {Empty} \/ (staging' = staging /\ staging # {})
  <2>1. staging' \in {{Empty}} \cup (IF staging = {} THEN {} ELSE {staging})
    BY Zenon DEF BeginRestore
  <2> QED BY <2>1
<1>3. IsVolume(Empty, keys) /\ IsVolume(b.data, keys) /\ b.torn \in BOOLEAN
  BY EmptyVolume DEF BackupTypeOK
<1>4. \A a \in archives : a.at \in 0..now /\ a.at \in 0..now' /\ a.at < now'
  <2>1. now \in Nat /\ \A a \in archives : a.at \in 0..now
    BY DEF BackupTypeOK
  <2> QED BY <1>1, <2>1
<1>5. ~b.torn => Sound(b.data)
  <2>1. Acceptable(b)
    BY Zenon DEF BeginRestore
  <2> QED BY <2>1 DEF Acceptable, SoundInv
<1> USE <1>1, <1>2, <1>3, <1>4, <1>5
<1>6. BackupTypeOK'
  BY DEF BackupTypeOK
<1>7. ArchiveIsOneMoment' /\ KeyFits'
  BY DEF ArchiveIsOneMoment, KeyFits, OpInv
<1>8. NothingLost' /\ RestoreAnswers' /\ ServiceIsBack'
  BY DEF NothingLost, RestoreAnswers, ServiceIsBack, OpInv, ContentInv
<1>9. OpInv'
  BY DEF OpInv
<1>10. ContentInv'
  BY DEF ContentInv, OpInv
<1>11. ArchiveInv'
  BY DEF ArchiveInv, OpInv
<1>12. SoundInv'
  BY DEF SoundInv, OpInv
<1> QED BY <1>6, <1>7, <1>8, <1>9, <1>10, <1>11, <1>12

\* A service that is stopped may or may not have closed its database.
LEMMA ServiceStops ==
  ASSUME BackupTypeOK, StopService
  PROVE  /\ service' = "down" /\ IsVolume(live', keys)
         /\ Sound(live) => Sound(live')
<1>1. IsVolume(live, keys)
  BY DEF BackupTypeOK
<1>2. CASE live' = live
  BY <1>1, <1>2 DEF StopService
<1>3. CASE service = "up" /\ live' = Merged(live)
  <2>1. {"db", "key"} \subseteq DOMAIN live
    BY <1>3 DEF BackupTypeOK
  <2> QED BY <1>1, <1>3, <2>1, MergedVolume DEF StopService
<1> QED BY <1>2, <1>3 DEF StopService

LEMMA ComposeStopPreserves ==
  ASSUME BackupIInv, ComposeStop
  PROVE  BackupIInv'
<1> USE DEF BackupIInv, BackupInv, CommandsEndWell
<1>1. PICK pc \in {"tar", "unpack"} :
        /\ op.kind = "backup" => pc = "tar"
        /\ op.kind # "backup" => pc = "unpack"
        /\ op' = [op EXCEPT !.pc = pc, !.old = live']
  BY DEF ComposeStop
<1>2. /\ op' = [kind |-> op.kind, pc |-> pc, at |-> op.at, from |-> op.from, part |-> op.part,
               old |-> live', res |-> op.res, torn |-> op.torn]
      /\ op'.kind = op.kind /\ op'.pc = pc /\ op'.at = op.at /\ op'.from = op.from
      /\ op'.part = op.part /\ op'.old = live' /\ op'.res = op.res /\ op'.torn = op.torn
  BY <1>1 DEF OpInv
<1>3. /\ op.pc = "stop"
      /\ UNCHANGED <<staging, archives, now, ops, writes, keys, faults, cleared, torn, stranded>>
  BY DEF ComposeStop, steady, history, counters
<1>4. /\ service' = "down" /\ IsVolume(live', keys)
      /\ Sound(live) => Sound(live')
  BY ServiceStops DEF ComposeStop
<1> USE <1>1, <1>2, <1>3, <1>4
<1>5. BackupTypeOK'
  BY DEF BackupTypeOK
<1>6. ArchiveIsOneMoment' /\ KeyFits'
  BY DEF ArchiveIsOneMoment, KeyFits, OpInv
<1>7. NothingLost' /\ RestoreAnswers' /\ ServiceIsBack'
  BY DEF NothingLost, RestoreAnswers, ServiceIsBack, OpInv, ContentInv
<1>8. OpInv'
  BY DEF OpInv
<1>9. ContentInv'
  BY DEF ContentInv, OpInv
<1>10. ArchiveInv'
  BY DEF ArchiveInv, OpInv
<1>11. SoundInv'
  BY DEF SoundInv, OpInv
<1> QED BY <1>5, <1>6, <1>7, <1>8, <1>9, <1>10, <1>11

\* The command is over, and its archives stay.
LEMMA CommandEnds ==
  ASSUME BackupIInv, op' = Idle, UNCHANGED <<archives, now>>
  PROVE  /\ op'.kind = "none" /\ op'.pc = "idle" /\ op'.from = Empty /\ op'.part = Empty
         /\ op'.old = Empty /\ op'.res = "none" /\ op'.torn = FALSE
         /\ OpInv' /\ ContentInv' /\ ArchiveInv' /\ RestoreAnswers'
<1>1. /\ op'.kind = "none" /\ op'.pc = "idle" /\ op'.from = Empty /\ op'.part = Empty
      /\ op'.old = Empty /\ op'.res = "none" /\ op'.torn = FALSE
  BY DEF Idle
<1>2. OpInv'
  BY <1>1 DEF OpInv, Idle
<1>3. ContentInv' /\ RestoreAnswers'
  BY <1>1 DEF ContentInv, RestoreAnswers
<1>4. ArchiveInv'
  BY <1>1 DEF ArchiveInv, BackupIInv
<1> QED BY <1>1, <1>2, <1>3, <1>4

LEMMA ComposeStopFailsPreserves ==
  ASSUME BackupIInv, ComposeStopFails
  PROVE  BackupIInv'
<1> USE DEF BackupIInv, BackupInv, CommandsEndWell
<1>1. /\ op.pc = "stop" /\ op' = Idle /\ stranded' = TRUE /\ faults' \in Nat
      /\ UNCHANGED <<staging, archives, now, ops, writes, keys, cleared, torn>>
  BY DEF ComposeStopFails, Fault, BackupTypeOK, counters
<1>2. \/ UNCHANGED <<live, service>>
      \/ /\ service' = "down" /\ IsVolume(live', keys)
         /\ Sound(live) => Sound(live')
  BY ServiceStops DEF ComposeStopFails
<1>3. IsVolume(Empty, keys)
  BY EmptyVolume
<1>4. /\ op'.kind = "none" /\ op'.pc = "idle" /\ op'.from = Empty /\ op'.part = Empty
      /\ op'.old = Empty /\ op'.res = "none" /\ op'.torn = FALSE
      /\ OpInv' /\ ContentInv' /\ ArchiveInv' /\ RestoreAnswers'
  BY <1>1, CommandEnds
<1> USE <1>1, <1>2, <1>3, <1>4
<1>5. BackupTypeOK'
  BY DEF BackupTypeOK
<1>6. ArchiveIsOneMoment' /\ KeyFits'
  BY DEF ArchiveIsOneMoment, KeyFits, OpInv
<1>7. NothingLost' /\ ServiceIsBack'
  BY DEF NothingLost, ServiceIsBack, OpInv
<1>8. SoundInv'
  BY DEF SoundInv, OpInv
<1> QED BY <1>5, <1>6, <1>7, <1>8, <1>4

LEMMA PackedVolume ==
  ASSUME BackupTypeOK
  PROVE  IsVolume(Packed, keys) /\ (Sound(live) => Sound(Packed))
<1>1. IsVolume(live, keys)
  BY DEF BackupTypeOK
<1>2. /\ IsVolume(Without(live, "mdm"), keys)
      /\ Sound(live) => Sound(Without(live, "mdm"))
  BY <1>1, WithoutFile, SoundWithout
<1> QED BY <1>1, <1>2 DEF Packed

\* A new archive replaces none: no other has the name of this moment.
LEMMA FiledAnew ==
  ASSUME BackupIInv, op.pc = "tar2", NEW data, NEW whole \in BOOLEAN, Filed(data, whole)
  PROVE  archives' = archives
           \cup {[kind |-> op.kind, name |-> Stamp(op.at), at |-> op.at, data |-> data,
                  whole |-> whole, torn |-> torn,
                  moment |-> IF op.kind = "backup" THEN Without(op.old, "mdm") ELSE op.old]}
<1>1. \A a \in archives : a.name = Stamp(a.at)
  BY DEF BackupIInv, ArchiveInv
<1>2. op.at \in Nat /\ \A a \in archives : a.at \in Nat /\ a.at < op.at
  BY DEF BackupIInv, BackupInv, BackupTypeOK, ArchiveInv
<1>3. \A a \in archives : a.name # Stamp(op.at)
  BY <1>1, <1>2, NamesDiffer
<1>4. {a \in archives : <<a.kind, a.name>> # <<op.kind, Stamp(op.at)>>} = archives
  BY <1>3
<1> QED BY <1>4 DEF Filed

LEMMA TarPreserves ==
  ASSUME BackupIInv, Tar
  PROVE  BackupIInv'
<1> USE DEF BackupIInv, BackupInv, CommandsEndWell
<1>1. PICK S \in SUBSET Files : op' = [op EXCEPT !.pc = "tar2", !.part = Only(Packed, S)]
  BY DEF Tar
<1>2. /\ op' = [kind |-> op.kind, pc |-> "tar2", at |-> op.at, from |-> op.from, part |-> Only(Packed, S),
               old |-> op.old, res |-> op.res, torn |-> op.torn]
      /\ op'.kind = op.kind /\ op'.pc = "tar2" /\ op'.at = op.at /\ op'.from = op.from
      /\ op'.part = Only(Packed, S) /\ op'.old = op.old /\ op'.res = op.res /\ op'.torn = op.torn
  BY <1>1 DEF OpInv
<1>3. /\ op.pc = "tar" /\ UNCHANGED <<live, staging, archives, service, now, ops, writes, keys>>
      /\ UNCHANGED <<faults, cleared, torn, stranded>>
  BY DEF Tar, volumes, counters, steady, history
<1>4. IsVolume(Only(Packed, S), keys) /\ Part(Only(Packed, S), Packed)
  BY PackedVolume, OnlyIsPart
<1>5. Packed' = Packed
  BY <1>2, <1>3 DEF Packed
<1> USE <1>2, <1>3, <1>4, <1>5
<1>6. BackupTypeOK'
  BY DEF BackupTypeOK
<1>7. ArchiveIsOneMoment' /\ KeyFits'
  BY DEF ArchiveIsOneMoment, KeyFits, OpInv
<1>8. NothingLost' /\ RestoreAnswers' /\ ServiceIsBack'
  BY DEF NothingLost, RestoreAnswers, ServiceIsBack, OpInv, ContentInv
<1>9. OpInv'
  BY DEF OpInv
<1>10. ContentInv'
  BY DEF ContentInv, OpInv
<1>11. ArchiveInv'
  BY DEF ArchiveInv, OpInv
<1>12. SoundInv'
  BY DEF SoundInv, OpInv
<1> QED BY <1>6, <1>7, <1>8, <1>9, <1>10, <1>11, <1>12

LEMMA TarDonePreserves ==
  ASSUME BackupIInv, TarDone
  PROVE  BackupIInv'
<1> USE DEF BackupIInv, BackupInv, CommandsEndWell
<1> DEFINE new == [kind |-> op.kind, name |-> Stamp(op.at), at |-> op.at, data |-> Over(op.part, Packed),
                   whole |-> TRUE, torn |-> torn,
                   moment |-> IF op.kind = "backup" THEN Without(op.old, "mdm") ELSE op.old]
<1>1. /\ op.pc = "tar2" /\ UNCHANGED <<live, staging, service, now, ops, writes, keys>>
      /\ UNCHANGED <<cleared, torn, stranded>> /\ faults' \in Nat
  BY DEF TarDone, volumes, counters, steady, history, Fault, BackupTypeOK
<1>2. PICK pc \in {"start", "clear"} :
        /\ Goto(pc)
        /\ op.kind = "backup" => pc = "start"
        /\ op.kind # "backup" => pc = "clear"
  BY DEF TarDone
<1>3. /\ op' = [kind |-> op.kind, pc |-> pc, at |-> op.at, from |-> op.from, part |-> op.part,
               old |-> op.old, res |-> op.res, torn |-> op.torn]
      /\ op'.kind = op.kind /\ op'.pc = pc /\ op'.at = op.at /\ op'.from = op.from
      /\ op'.part = op.part /\ op'.old = op.old /\ op'.res = op.res /\ op'.torn = op.torn
  BY <1>2, OpGoes
<1>4. archives' = archives \cup {new}
  BY <1>1, FiledAnew DEF TarDone
<1>5. Over(op.part, Packed) = Packed
  BY <1>1, PackedVolume, OverItsPart DEF ContentInv
<1>6. /\ live = op.old /\ op.res = "refused" /\ service = "down"
      /\ op.kind = "backup" \/ op.kind = "restore"
  BY <1>1 DEF ContentInv, OpInv
<1>7. Packed = IF op.kind = "backup" THEN Without(op.old, "mdm") ELSE op.old
  BY <1>6 DEF Packed
<1>8. IsVolume(Packed, keys) /\ (Sound(live) => Sound(Packed))
  BY PackedVolume
<1>9. /\ new.kind = op.kind /\ new.name = Stamp(new.at) /\ new.at = op.at /\ new.data = Packed
      /\ new.whole = TRUE /\ new.torn = torn /\ new.moment = Packed
      /\ new = [kind |-> new.kind, name |-> Stamp(new.at), at |-> new.at, data |-> new.data,
                whole |-> new.whole, torn |-> new.torn, moment |-> new.moment]
  BY <1>5, <1>7
<1>10. op.at = now /\ \A a \in archives : a.at < now
  BY <1>1 DEF ArchiveInv
<1>11. now \in Nat /\ torn \in BOOLEAN
  BY DEF BackupTypeOK
<1> HIDE DEF new
<1> USE <1>1, <1>2, <1>3, <1>4, <1>6, <1>8, <1>9, <1>10, <1>11
<1>12. BackupTypeOK'
  <2>1. new.kind \in {"backup", "restore"} /\ IsVolume(new.data, keys) /\ new.at \in 0..now
    OBVIOUS
  <2>2. {new.whole, new.torn} \subseteq BOOLEAN
    BY Zenon
  <2>3. \A a \in archives' : /\ a.kind \in {"backup", "restore"} /\ IsVolume(a.data, keys)
                             /\ {a.whole, a.torn} \subseteq BOOLEAN /\ a.at \in 0..now
    BY <2>1, <2>2, Zenon DEF BackupTypeOK
  <2> QED BY <2>3 DEF BackupTypeOK
<1>13. ArchiveIsOneMoment' /\ KeyFits'
  BY DEF ArchiveIsOneMoment, KeyFits, OpInv
<1>14. NothingLost' /\ RestoreAnswers' /\ ServiceIsBack'
  BY DEF NothingLost, RestoreAnswers, ServiceIsBack, OpInv, ContentInv
<1>15. OpInv'
  BY DEF OpInv
<1>16. ContentInv'
  BY DEF ContentInv, OpInv
<1>17. ArchiveInv'
  BY <1>7 DEF ArchiveInv, OpInv
<1>18. SoundInv'
  BY DEF SoundInv, OpInv
<1> QED BY <1>12, <1>13, <1>14, <1>15, <1>16, <1>17, <1>18

LEMMA TarFailsPreserves ==
  ASSUME BackupIInv, TarFails
  PROVE  BackupIInv'
<1> USE DEF BackupIInv, BackupInv, CommandsEndWell
<1> DEFINE new == [kind |-> op.kind, name |-> Stamp(op.at), at |-> op.at, data |-> op.part,
                   whole |-> FALSE, torn |-> torn,
                   moment |-> IF op.kind = "backup" THEN Without(op.old, "mdm") ELSE op.old]
<1>1. /\ op.pc = "tar2" /\ UNCHANGED <<live, staging, service, now, ops, writes, keys>>
      /\ UNCHANGED <<cleared, torn, stranded>> /\ faults' \in Nat
  BY DEF TarFails, volumes, counters, steady, history, Fault, BackupTypeOK
<1>2. PICK pc \in {"start", "cleanup"} :
        /\ Goto(pc)
        /\ op.kind = "backup" => pc = "start"
        /\ op.kind # "backup" => pc = "cleanup"
  BY DEF TarFails
<1>3. /\ op' = [kind |-> op.kind, pc |-> pc, at |-> op.at, from |-> op.from, part |-> op.part,
               old |-> op.old, res |-> op.res, torn |-> op.torn]
      /\ op'.kind = op.kind /\ op'.pc = pc /\ op'.at = op.at /\ op'.from = op.from
      /\ op'.part = op.part /\ op'.old = op.old /\ op'.res = op.res /\ op'.torn = op.torn
  BY <1>2, OpGoes
<1>4. archives' = archives \cup {new}
  BY <1>1, FiledAnew DEF TarFails
<1>5. /\ IsVolume(op.part, keys) /\ service = "down"
      /\ op.kind = "backup" \/ op.kind = "restore"
  BY <1>1 DEF BackupTypeOK, OpInv
<1>6. /\ new.kind = op.kind /\ new.name = Stamp(new.at) /\ new.at = op.at /\ new.data = op.part
      /\ new.whole = FALSE /\ new.torn = torn
      /\ new = [kind |-> new.kind, name |-> Stamp(new.at), at |-> new.at, data |-> new.data,
                whole |-> new.whole, torn |-> new.torn, moment |-> new.moment]
  OBVIOUS
<1>7. op.at = now /\ now \in Nat /\ torn \in BOOLEAN
  BY <1>1 DEF ArchiveInv, BackupTypeOK
<1> HIDE DEF new
<1> USE <1>1, <1>2, <1>3, <1>4, <1>5, <1>6, <1>7
<1>8. BackupTypeOK'
  <2>1. new.kind \in {"backup", "restore"} /\ IsVolume(new.data, keys) /\ new.at \in 0..now
    OBVIOUS
  <2>2. {new.whole, new.torn} \subseteq BOOLEAN
    BY Zenon
  <2>3. \A a \in archives' : /\ a.kind \in {"backup", "restore"} /\ IsVolume(a.data, keys)
                             /\ {a.whole, a.torn} \subseteq BOOLEAN /\ a.at \in 0..now
    BY <2>1, <2>2, Zenon DEF BackupTypeOK
  <2> QED BY <2>3 DEF BackupTypeOK
<1>9. ArchiveIsOneMoment' /\ KeyFits'
  BY DEF ArchiveIsOneMoment, KeyFits, OpInv
<1>10. NothingLost' /\ RestoreAnswers' /\ ServiceIsBack'
  BY DEF NothingLost, RestoreAnswers, ServiceIsBack, OpInv, ContentInv
<1>11. OpInv'
  BY DEF OpInv
<1>12. ContentInv'
  BY DEF ContentInv, OpInv
<1>13. ArchiveInv'
  BY DEF ArchiveInv, OpInv
<1>14. SoundInv'
  BY DEF SoundInv, OpInv
<1> QED BY <1>8, <1>9, <1>10, <1>11, <1>12, <1>13, <1>14

LEMMA StagedVolume ==
  ASSUME BackupTypeOK, OpInv, op.kind = "restore", op.pc # "start"
  PROVE  Staged \in staging /\ IsVolume(Staged, keys)
<1>1. staging # {}
  BY DEF BackupTypeOK
<1>2. Staged \in staging
  BY <1>1 DEF Staged
<1> QED BY <1>2 DEF BackupTypeOK

LEMMA UnpackPreserves ==
  ASSUME BackupIInv, Unpack
  PROVE  BackupIInv'
<1> USE DEF BackupIInv, BackupInv, CommandsEndWell
<1>1. /\ op.pc = "unpack" /\ staging' = {Over(op.from, Staged)} /\ Goto("check")
      /\ UNCHANGED <<live, archives, service, now, ops, writes, keys>>
      /\ UNCHANGED <<faults, cleared, torn, stranded>>
  BY DEF Unpack, counters, steady, history
<1>2. /\ op' = [kind |-> op.kind, pc |-> "check", at |-> op.at, from |-> op.from, part |-> op.part,
               old |-> op.old, res |-> op.res, torn |-> op.torn]
      /\ op'.kind = op.kind /\ op'.pc = "check" /\ op'.at = op.at /\ op'.from = op.from
      /\ op'.part = op.part /\ op'.old = op.old /\ op'.res = op.res /\ op'.torn = op.torn
  BY <1>1, OpGoes
<1>3. IsVolume(Over(op.from, Staged), keys) /\ Part(op.from, Over(op.from, Staged))
  <2>1. IsVolume(Staged, keys) /\ IsVolume(op.from, keys)
    BY <1>1, StagedVolume DEF OpInv, BackupTypeOK
  <2> QED BY <2>1, OverOther
<1> USE <1>1, <1>2, <1>3
<1>4. BackupTypeOK'
  BY DEF BackupTypeOK
<1>5. ArchiveIsOneMoment' /\ KeyFits'
  BY DEF ArchiveIsOneMoment, KeyFits, OpInv
<1>6. NothingLost' /\ RestoreAnswers' /\ ServiceIsBack'
  BY DEF NothingLost, RestoreAnswers, ServiceIsBack, OpInv, ContentInv
<1>7. OpInv'
  BY DEF OpInv
<1>8. ContentInv'
  BY DEF ContentInv, OpInv
<1>9. ArchiveInv'
  BY DEF ArchiveInv, OpInv
<1>10. SoundInv'
  BY DEF SoundInv, OpInv
<1> QED BY <1>4, <1>5, <1>6, <1>7, <1>8, <1>9, <1>10

LEMMA UnpackFailsPreserves ==
  ASSUME BackupIInv, UnpackFails
  PROVE  BackupIInv'
<1> USE DEF BackupIInv, BackupInv, CommandsEndWell
<1>1. /\ op.pc = "unpack" /\ Goto("cleanup")
      /\ UNCHANGED <<live, archives, service, now, ops, writes, keys>>
      /\ UNCHANGED <<cleared, torn, stranded>> /\ faults' \in Nat
  BY DEF UnpackFails, counters, history, Fault, BackupTypeOK
<1>2. PICK S \in SUBSET Files : staging' = {Over(Only(op.from, S), Staged)}
  BY DEF UnpackFails
<1>3. /\ op' = [kind |-> op.kind, pc |-> "cleanup", at |-> op.at, from |-> op.from, part |-> op.part,
               old |-> op.old, res |-> op.res, torn |-> op.torn]
      /\ op'.kind = op.kind /\ op'.pc = "cleanup" /\ op'.at = op.at /\ op'.from = op.from
      /\ op'.part = op.part /\ op'.old = op.old /\ op'.res = op.res /\ op'.torn = op.torn
  BY <1>1, OpGoes
<1>4. IsVolume(Over(Only(op.from, S), Staged), keys)
  <2>1. IsVolume(Staged, keys) /\ IsVolume(op.from, keys)
    BY <1>1, StagedVolume DEF OpInv, BackupTypeOK
  <2>2. IsVolume(Only(op.from, S), keys)
    BY <2>1, OnlyIsPart
  <2> QED BY <2>1, <2>2, OverOther
<1> USE <1>1, <1>2, <1>3, <1>4
<1>5. BackupTypeOK'
  BY DEF BackupTypeOK
<1>6. ArchiveIsOneMoment' /\ KeyFits'
  BY DEF ArchiveIsOneMoment, KeyFits, OpInv
<1>7. NothingLost' /\ RestoreAnswers' /\ ServiceIsBack'
  BY DEF NothingLost, RestoreAnswers, ServiceIsBack, OpInv, ContentInv
<1>8. OpInv'
  BY DEF OpInv
<1>9. ContentInv'
  BY DEF ContentInv, OpInv
<1>10. ArchiveInv'
  BY DEF ArchiveInv, OpInv
<1>11. SoundInv'
  BY DEF SoundInv, OpInv
<1> QED BY <1>5, <1>6, <1>7, <1>8, <1>9, <1>10, <1>11

\* What is about to be wiped has been kept.
LEMMA KeptFirst ==
  ASSUME BackupIInv, op.pc = "clear"
  PROVE  /\ live = op.old /\ \E a \in archives : a.whole /\ a.data = live
         /\ op.kind = "restore" /\ op.res = "refused" /\ service = "down"
<1>1. live = op.old /\ op.kind = "restore" /\ op.res = "refused" /\ service = "down"
  BY DEF BackupIInv, ContentInv, OpInv
<1>2. PICK a \in archives : a.kind = "restore" /\ a.at = op.at
  BY DEF BackupIInv, ArchiveInv
<1>3. a.whole /\ a.data = op.old
  BY <1>2 DEF BackupIInv, ArchiveInv
<1> QED BY <1>1, <1>2, <1>3

LEMMA ClearPreserves ==
  ASSUME BackupIInv, Clear
  PROVE  BackupIInv'
<1> USE DEF BackupIInv, BackupInv, CommandsEndWell
<1>1. /\ op.pc = "clear" /\ live' = Empty /\ cleared' = cleared \cup {live} /\ Goto("copy")
      /\ UNCHANGED <<staging, archives, service, now, ops, writes, keys, faults, torn, stranded>>
  BY DEF Clear, counters
<1>2. /\ op' = [kind |-> op.kind, pc |-> "copy", at |-> op.at, from |-> op.from, part |-> op.part,
               old |-> op.old, res |-> op.res, torn |-> op.torn]
      /\ op'.kind = op.kind /\ op'.pc = "copy" /\ op'.at = op.at /\ op'.from = op.from
      /\ op'.part = op.part /\ op'.old = op.old /\ op'.res = op.res /\ op'.torn = op.torn
  BY <1>1, OpGoes
<1>3. /\ live = op.old /\ \E a \in archives : a.whole /\ a.data = live
      /\ op.kind = "restore" /\ op.res = "refused" /\ service = "down"
  BY <1>1, KeptFirst
<1>4. IsVolume(Empty, keys)
  BY EmptyVolume
<1> USE <1>1, <1>2, <1>3, <1>4
<1>5. BackupTypeOK'
  BY DEF BackupTypeOK
<1>6. ArchiveIsOneMoment' /\ KeyFits'
  BY DEF ArchiveIsOneMoment, KeyFits, OpInv
<1>7. NothingLost' /\ RestoreAnswers' /\ ServiceIsBack'
  BY DEF NothingLost, RestoreAnswers, ServiceIsBack, OpInv, ContentInv
<1>8. OpInv'
  BY DEF OpInv
<1>9. ContentInv'
  BY DEF ContentInv, OpInv
<1>10. ArchiveInv'
  BY DEF ArchiveInv, OpInv
<1>11. SoundInv'
  BY DEF SoundInv, OpInv
<1> QED BY <1>5, <1>6, <1>7, <1>8, <1>9, <1>10, <1>11

LEMMA ClearFailsPreserves ==
  ASSUME BackupIInv, ClearFails
  PROVE  BackupIInv'
<1> USE DEF BackupIInv, BackupInv, CommandsEndWell
<1>1. /\ op.pc = "clear" /\ cleared' = cleared \cup {live} /\ torn' = TRUE
      /\ op' = [op EXCEPT !.pc = "cleanup", !.res = "half"] /\ faults' \in Nat
      /\ UNCHANGED <<staging, archives, service, now, ops, writes, keys, stranded>>
  BY DEF ClearFails, counters, Fault, BackupTypeOK
<1>2. /\ op' = [kind |-> op.kind, pc |-> "cleanup", at |-> op.at, from |-> op.from, part |-> op.part,
               old |-> op.old, res |-> "half", torn |-> op.torn]
      /\ op'.kind = op.kind /\ op'.pc = "cleanup" /\ op'.at = op.at /\ op'.from = op.from
      /\ op'.part = op.part /\ op'.old = op.old /\ op'.res = "half" /\ op'.torn = op.torn
  BY <1>1 DEF OpInv
<1>3. /\ live = op.old /\ \E a \in archives : a.whole /\ a.data = live
      /\ op.kind = "restore" /\ op.res = "refused" /\ service = "down"
  BY <1>1, KeptFirst
<1>4. IsVolume(live', keys)
  <2>1. PICK S \in SUBSET Files : live' = Only(live, S)
    BY DEF ClearFails
  <2>2. IsVolume(live, keys)
    BY DEF BackupTypeOK
  <2> QED BY <2>1, <2>2, OnlyIsPart
<1> USE <1>1, <1>2, <1>3, <1>4
<1>5. BackupTypeOK'
  BY DEF BackupTypeOK
<1>6. ArchiveIsOneMoment' /\ KeyFits'
  BY DEF ArchiveIsOneMoment, KeyFits, OpInv
<1>7. NothingLost' /\ RestoreAnswers' /\ ServiceIsBack'
  BY DEF NothingLost, RestoreAnswers, ServiceIsBack, OpInv, ContentInv
<1>8. OpInv'
  BY DEF OpInv
<1>9. ContentInv'
  BY DEF ContentInv, OpInv
<1>10. ArchiveInv'
  BY DEF ArchiveInv, OpInv
<1>11. SoundInv'
  BY DEF SoundInv, OpInv
<1> QED BY <1>5, <1>6, <1>7, <1>8, <1>9, <1>10, <1>11

LEMMA CopyPreserves ==
  ASSUME BackupIInv, Copy
  PROVE  BackupIInv'
<1> USE DEF BackupIInv, BackupInv, CommandsEndWell
<1>1. /\ op.pc = "copy" /\ live' = Over(Staged, live) /\ torn' = op.torn
      /\ op' = [op EXCEPT !.pc = "recheck", !.res = "copied"]
      /\ UNCHANGED <<staging, archives, service, now, ops, writes, keys, faults, cleared, stranded>>
  BY DEF Copy, counters
<1>2. /\ op' = [kind |-> op.kind, pc |-> "recheck", at |-> op.at, from |-> op.from, part |-> op.part,
               old |-> op.old, res |-> "copied", torn |-> op.torn]
      /\ op'.kind = op.kind /\ op'.pc = "recheck" /\ op'.at = op.at /\ op'.from = op.from
      /\ op'.part = op.part /\ op'.old = op.old /\ op'.res = "copied" /\ op'.torn = op.torn
  BY <1>1 DEF OpInv
<1>3. op.kind = "restore" /\ service = "down" /\ live = Empty
  BY <1>1 DEF OpInv, ContentInv
<1>4. Staged \in staging /\ IsVolume(Staged, keys) /\ Part(op.from, Staged)
  BY <1>1, <1>3, StagedVolume DEF ContentInv
<1>5. live' = Staged
  BY <1>1, <1>3, <1>4, OverEmpty
<1>6. op.torn \in BOOLEAN /\ (~op.torn => Sound(Staged))
  BY <1>3, <1>4, SoundWhole DEF SoundInv, BackupTypeOK
<1> USE <1>1, <1>2, <1>3, <1>4, <1>5, <1>6
<1>7. BackupTypeOK'
  BY DEF BackupTypeOK
<1>8. ArchiveIsOneMoment' /\ KeyFits'
  BY DEF ArchiveIsOneMoment, KeyFits, OpInv
<1>9. NothingLost' /\ RestoreAnswers' /\ ServiceIsBack'
  BY DEF NothingLost, RestoreAnswers, ServiceIsBack, OpInv, ContentInv
<1>10. OpInv'
  BY DEF OpInv
<1>11. ContentInv'
  BY DEF ContentInv, OpInv
<1>12. ArchiveInv'
  BY DEF ArchiveInv, OpInv
<1>13. SoundInv'
  BY DEF SoundInv, OpInv
<1> QED BY <1>7, <1>8, <1>9, <1>10, <1>11, <1>12, <1>13

LEMMA CopyFailsPreserves ==
  ASSUME BackupIInv, CopyFails
  PROVE  BackupIInv'
<1> USE DEF BackupIInv, BackupInv, CommandsEndWell
<1>1. /\ op.pc = "copy" /\ Goto("rollback") /\ faults' \in Nat
      /\ UNCHANGED <<staging, archives, service, now, ops, writes, keys, cleared, torn, stranded>>
  BY DEF CopyFails, counters, history, Fault, BackupTypeOK
<1>2. /\ op' = [kind |-> op.kind, pc |-> "rollback", at |-> op.at, from |-> op.from, part |-> op.part,
               old |-> op.old, res |-> op.res, torn |-> op.torn]
      /\ op'.kind = op.kind /\ op'.pc = "rollback" /\ op'.at = op.at /\ op'.from = op.from
      /\ op'.part = op.part /\ op'.old = op.old /\ op'.res = op.res /\ op'.torn = op.torn
  BY <1>1, OpGoes
<1>3. op.kind = "restore" /\ service = "down" /\ op.res = "refused"
  BY <1>1 DEF OpInv
<1>4. PICK S \in SUBSET Files : live' = Over(Only(Staged, S), live)
  BY DEF CopyFails
<1>5. IsVolume(live', keys)
  <2>1. IsVolume(Staged, keys) /\ IsVolume(live, keys)
    BY <1>1, <1>3, StagedVolume DEF BackupTypeOK
  <2>2. IsVolume(Only(Staged, S), keys)
    BY <2>1, OnlyIsPart
  <2> QED BY <1>4, <2>1, <2>2, OverOther
<1> USE <1>1, <1>2, <1>3, <1>5
<1>6. BackupTypeOK'
  BY DEF BackupTypeOK
<1>7. ArchiveIsOneMoment' /\ KeyFits'
  BY DEF ArchiveIsOneMoment, KeyFits, OpInv
<1>8. NothingLost' /\ RestoreAnswers' /\ ServiceIsBack'
  BY DEF NothingLost, RestoreAnswers, ServiceIsBack, OpInv, ContentInv
<1>9. OpInv'
  BY DEF OpInv
<1>10. ContentInv'
  BY DEF ContentInv, OpInv
<1>11. ArchiveInv'
  BY DEF ArchiveInv, OpInv
<1>12. SoundInv'
  BY DEF SoundInv, OpInv
<1> QED BY <1>6, <1>7, <1>8, <1>9, <1>10, <1>11, <1>12

LEMMA RollbackPreserves ==
  ASSUME BackupIInv, Rollback
  PROVE  BackupIInv'
<1> USE DEF BackupIInv, BackupInv, CommandsEndWell
<1>1. /\ op.pc = "rollback" /\ op' = [op EXCEPT !.pc = "cleanup", !.res = "rolled_back"]
      /\ UNCHANGED <<staging, archives, service, now, ops, writes, keys, faults>>
      /\ UNCHANGED <<cleared, torn, stranded>>
  BY DEF Rollback, counters, steady, history
<1>2. /\ op' = [kind |-> op.kind, pc |-> "cleanup", at |-> op.at, from |-> op.from, part |-> op.part,
               old |-> op.old, res |-> "rolled_back", torn |-> op.torn]
      /\ op'.kind = op.kind /\ op'.pc = "cleanup" /\ op'.at = op.at /\ op'.from = op.from
      /\ op'.part = op.part /\ op'.old = op.old /\ op'.res = "rolled_back" /\ op'.torn = op.torn
  BY <1>1 DEF OpInv
<1>3. op.kind = "restore" /\ service = "down"
  BY <1>1 DEF OpInv
<1>4. live' = Over(op.old, live)
  BY <1>1 DEF Rollback, ArchiveInv
<1>5. IsVolume(live', keys) /\ Part(op.old, live')
  BY <1>4, OverOther DEF BackupTypeOK
<1>6. Sound(op.old) => Sound(live')
  BY <1>5, SoundWhole
<1> USE <1>1, <1>2, <1>3, <1>5, <1>6
<1>7. BackupTypeOK'
  BY DEF BackupTypeOK
<1>8. ArchiveIsOneMoment' /\ KeyFits'
  BY DEF ArchiveIsOneMoment, KeyFits, OpInv
<1>9. NothingLost' /\ RestoreAnswers' /\ ServiceIsBack'
  BY DEF NothingLost, RestoreAnswers, ServiceIsBack, OpInv, ContentInv
<1>10. OpInv'
  BY DEF OpInv
<1>11. ContentInv'
  BY DEF ContentInv, OpInv
<1>12. ArchiveInv'
  BY DEF ArchiveInv, OpInv
<1>13. SoundInv'
  BY DEF SoundInv, OpInv
<1> QED BY <1>7, <1>8, <1>9, <1>10, <1>11, <1>12, <1>13

LEMMA RollbackFailsPreserves ==
  ASSUME BackupIInv, RollbackFails
  PROVE  BackupIInv'
<1> USE DEF BackupIInv, BackupInv, CommandsEndWell
<1>1. /\ op.pc = "rollback" /\ op' = [op EXCEPT !.pc = "cleanup", !.res = "half"]
      /\ UNCHANGED <<staging, archives, service, now, ops, writes, keys, cleared, stranded>>
      /\ torn' = TRUE /\ faults' \in Nat
  BY DEF RollbackFails, counters, Fault, BackupTypeOK
<1>2. /\ op' = [kind |-> op.kind, pc |-> "cleanup", at |-> op.at, from |-> op.from, part |-> op.part,
               old |-> op.old, res |-> "half", torn |-> op.torn]
      /\ op'.kind = op.kind /\ op'.pc = "cleanup" /\ op'.at = op.at /\ op'.from = op.from
      /\ op'.part = op.part /\ op'.old = op.old /\ op'.res = "half" /\ op'.torn = op.torn
  BY <1>1 DEF OpInv
<1>3. op.kind = "restore" /\ service = "down"
  BY <1>1 DEF OpInv
<1>4. PICK S \in SUBSET Files : live' = Over(Only(op.old, S), live)
  BY <1>1 DEF RollbackFails, ArchiveInv
<1>5. IsVolume(live', keys)
  <2>1. IsVolume(op.old, keys) /\ IsVolume(live, keys)
    BY DEF BackupTypeOK
  <2>2. IsVolume(Only(op.old, S), keys)
    BY <2>1, OnlyIsPart
  <2> QED BY <1>4, <2>1, <2>2, OverOther
<1> USE <1>1, <1>2, <1>3, <1>5
<1>6. BackupTypeOK'
  BY DEF BackupTypeOK
<1>7. ArchiveIsOneMoment' /\ KeyFits'
  BY DEF ArchiveIsOneMoment, KeyFits, OpInv
<1>8. NothingLost' /\ RestoreAnswers' /\ ServiceIsBack'
  BY DEF NothingLost, RestoreAnswers, ServiceIsBack, OpInv, ContentInv
<1>9. OpInv'
  BY DEF OpInv
<1>10. ContentInv'
  BY DEF ContentInv, OpInv
<1>11. ArchiveInv'
  BY DEF ArchiveInv, OpInv
<1>12. SoundInv'
  BY DEF SoundInv, OpInv
<1> QED BY <1>6, <1>7, <1>8, <1>9, <1>10, <1>11, <1>12

LEMMA RecheckPreserves ==
  ASSUME BackupIInv, Recheck
  PROVE  BackupIInv'
<1> USE DEF BackupIInv, BackupInv, CommandsEndWell
<1>1. /\ op.pc = "recheck" /\ UNCHANGED <<live, staging, archives, service, now, ops, writes, keys>>
      /\ UNCHANGED <<cleared, torn, stranded>> /\ faults' \in Nat
  BY DEF Recheck, Fault, BackupTypeOK, volumes, counters, history
<1>2. op.kind = "restore" /\ op.res = "copied" /\ service = "down"
  BY <1>1 DEF OpInv
<1>3. PICK res \in {"copied", "ok"} : op' = [op EXCEPT !.pc = "cleanup", !.res = res]
  BY <1>2 DEF Recheck, Goto, OpInv
<1>4. /\ op' = [kind |-> op.kind, pc |-> "cleanup", at |-> op.at, from |-> op.from, part |-> op.part,
               old |-> op.old, res |-> res, torn |-> op.torn]
      /\ op'.kind = op.kind /\ op'.pc = "cleanup" /\ op'.at = op.at /\ op'.from = op.from
      /\ op'.part = op.part /\ op'.old = op.old /\ op'.res = res /\ op'.torn = op.torn
  BY <1>3 DEF OpInv
<1> USE <1>1, <1>2, <1>3, <1>4
<1>5. BackupTypeOK'
  BY DEF BackupTypeOK
<1>6. ArchiveIsOneMoment' /\ KeyFits'
  BY DEF ArchiveIsOneMoment, KeyFits, OpInv
<1>7. NothingLost' /\ RestoreAnswers' /\ ServiceIsBack'
  BY DEF NothingLost, RestoreAnswers, ServiceIsBack, OpInv, ContentInv
<1>8. OpInv'
  BY DEF OpInv
<1>9. ContentInv'
  BY DEF ContentInv, OpInv
<1>10. ArchiveInv'
  BY DEF ArchiveInv, OpInv
<1>11. SoundInv'
  BY DEF SoundInv, OpInv
<1> QED BY <1>5, <1>6, <1>7, <1>8, <1>9, <1>10, <1>11

LEMMA CleanupPreserves ==
  ASSUME BackupIInv, Cleanup
  PROVE  BackupIInv'
<1> USE DEF BackupIInv, BackupInv, CommandsEndWell
<1>1. /\ op.pc = "cleanup" /\ Goto("start") /\ faults' \in Nat
      /\ UNCHANGED <<live, archives, service, now, ops, writes, keys, cleared, torn, stranded>>
  BY DEF Cleanup, Fault, BackupTypeOK, counters, history
<1>2. staging' = {} \/ staging' = staging
  BY DEF Cleanup
<1>3. op.kind = "restore" /\ service = "down"
  BY <1>1 DEF OpInv
<1>4. /\ op' = [kind |-> op.kind, pc |-> "start", at |-> op.at, from |-> op.from, part |-> op.part,
               old |-> op.old, res |-> op.res, torn |-> op.torn]
      /\ op'.kind = op.kind /\ op'.pc = "start" /\ op'.at = op.at /\ op'.from = op.from
      /\ op'.part = op.part /\ op'.old = op.old /\ op'.res = op.res /\ op'.torn = op.torn
  BY <1>1, OpGoes
<1>5. /\ Part(op.old, live) => Only(live, DOMAIN op.old) = op.old
      /\ Part(op.from, live) => Only(live, DOMAIN op.from) = op.from
  BY OnlyItsPart DEF BackupTypeOK
<1> USE <1>1, <1>2, <1>3, <1>4, <1>5
<1>6. BackupTypeOK'
  BY DEF BackupTypeOK
<1>7. ArchiveIsOneMoment' /\ KeyFits'
  BY DEF ArchiveIsOneMoment, KeyFits, OpInv
<1>8. NothingLost' /\ RestoreAnswers' /\ ServiceIsBack'
  BY DEF NothingLost, RestoreAnswers, ServiceIsBack, OpInv, ContentInv
<1>9. OpInv'
  BY DEF OpInv
<1>10. ContentInv'
  BY DEF ContentInv, OpInv
<1>11. ArchiveInv'
  BY DEF ArchiveInv, OpInv
<1>12. SoundInv'
  BY DEF SoundInv, OpInv
<1> QED BY <1>6, <1>7, <1>8, <1>9, <1>10, <1>11, <1>12

\* A boot makes a key only where there is none, and then also where nothing is torn.
LEMMA ServiceBoots ==
  ASSUME BackupTypeOK, BootService
  PROVE  /\ service' = "up" /\ keys' \in Nat \ {0} /\ keys <= keys'
         /\ IsVolume(live', keys') /\ {"db", "key"} \subseteq DOMAIN live'
         /\ Sound(live) => Sound(live')
         /\ \A vol : IsVolume(vol, keys) => IsVolume(vol, keys')
<1> DEFINE key == IF "key" \in DOMAIN live THEN live["key"] ELSE keys + 1
           db == [v |-> 0, key |-> key]
<1>1. IsVolume(live, keys) /\ keys \in Nat \ {0}
  BY DEF BackupTypeOK
<1>2. /\ service' = "up" /\ keys' = IF "key" \in DOMAIN live THEN keys ELSE keys + 1
      /\ live' = IF "db" \in DOMAIN live THEN With(live, "key", key)
                 ELSE With(With(Without(live, "wal"), "db", db), "key", key)
  BY DEF BootService
<1>3. keys' \in Nat \ {0} /\ keys <= keys'
  BY <1>1, <1>2
<1>4. ASSUME NEW vol, IsVolume(vol, keys) PROVE IsVolume(vol, keys')
  BY <1>1, <1>3, <1>4, MoreKeys
<1>5. key \in 1..keys'
  <2>1. CASE "key" \in DOMAIN live
    <3>1. live["key"] \in 1..keys
      BY <1>1, <2>1 DEF IsVolume
    <3> QED BY <1>1, <1>2, <2>1, <3>1
  <2>2. CASE "key" \notin DOMAIN live
    BY <1>1, <1>2, <2>2
  <2> QED BY <2>1, <2>2
<1>6. IsVolume(live, keys')
  BY <1>1, <1>4
<1>7. CASE "db" \in DOMAIN live
  <2> DEFINE u == With(live, "key", key)
  <2> HIDE DEF key
  <2>1. live' = u
    BY <1>2, <1>7
  <2>2. IsVolume(u, keys')
    BY <1>5, <1>6, WithIsVolume
  <2>3. /\ DOMAIN u = DOMAIN live \cup {"key"} /\ u["key"] = key
        /\ \A f \in DOMAIN live \ {"key"} : u[f] = live[f]
    BY DEF With
  <2>4. "db" \in DOMAIN live \ {"key"}
    BY <1>7
  <2>5. Sound(live) => key = live["key"]
    BY DEF Sound, key
  <2> HIDE DEF u
  <2>6. {"db", "key"} \subseteq DOMAIN u /\ (Sound(live) => Sound(u))
    BY <2>3, <2>4, <2>5 DEF Sound
  <2> QED BY <1>2, <1>3, <1>4, <2>1, <2>2, <2>6
<1>8. CASE "db" \notin DOMAIN live
  <2> DEFINE w == Without(live, "wal")
             u == With(With(w, "db", db), "key", key)
  <2> HIDE DEF key
  <2>1. live' = u
    BY <1>2, <1>8
  <2>2. db \in Dbs(keys')
    BY <1>5, CommandsAssumption DEF Dbs
  <2>3. IsVolume(w, keys')
    BY <1>6, WithoutFile
  <2>4. IsVolume(With(w, "db", db), keys')
    BY <2>2, <2>3, WithIsVolume
  <2>5. IsVolume(u, keys')
    BY <1>5, <2>4, WithIsVolume
  <2>6. {"db", "key"} \subseteq DOMAIN u
    BY DEF With
  <2>7. ~Sound(live)
    BY <1>8 DEF Sound
  <2> HIDE DEF u
  <2> QED BY <1>2, <1>3, <1>4, <2>1, <2>5, <2>6, <2>7
<1> QED BY <1>7, <1>8

LEMMA ComposeStartPreserves ==
  ASSUME BackupIInv, ComposeStart
  PROVE  BackupIInv'
<1> USE DEF BackupIInv, BackupInv, CommandsEndWell
<1>1. /\ op.pc = "start" /\ op' = Idle
      /\ UNCHANGED <<staging, archives, now, ops, writes, faults, cleared, torn, stranded>>
  BY DEF ComposeStart, steady, history
<1>2. /\ service' = "up" /\ keys' \in Nat \ {0} /\ keys <= keys'
      /\ IsVolume(live', keys') /\ {"db", "key"} \subseteq DOMAIN live'
      /\ Sound(live) => Sound(live')
      /\ \A vol : IsVolume(vol, keys) => IsVolume(vol, keys')
  BY ServiceBoots DEF ComposeStart
<1>3. IsVolume(Empty, keys')
  BY EmptyVolume
<1>4. /\ op'.kind = "none" /\ op'.pc = "idle" /\ op'.from = Empty /\ op'.part = Empty
      /\ op'.old = Empty /\ op'.res = "none" /\ op'.torn = FALSE
      /\ OpInv' /\ ContentInv' /\ ArchiveInv' /\ RestoreAnswers'
  BY <1>1, CommandEnds
<1> USE <1>1, <1>2, <1>3, <1>4
<1>5. BackupTypeOK'
  BY DEF BackupTypeOK
<1>6. ArchiveIsOneMoment' /\ KeyFits'
  BY DEF ArchiveIsOneMoment, KeyFits, OpInv, SoundInv, Sound
<1>7. NothingLost' /\ ServiceIsBack'
  BY DEF NothingLost, ServiceIsBack, OpInv
<1>8. SoundInv'
  BY DEF SoundInv, OpInv
<1> QED BY <1>5, <1>6, <1>7, <1>8, <1>4

LEMMA ComposeStartFailsPreserves ==
  ASSUME BackupIInv, ComposeStartFails
  PROVE  BackupIInv'
<1> USE DEF BackupIInv, BackupInv, CommandsEndWell
<1>1. /\ op.pc = "start" /\ op' = Idle /\ stranded' = TRUE /\ faults' \in Nat
      /\ UNCHANGED <<live, staging, archives, service, now, ops, writes, keys, cleared, torn>>
  BY DEF ComposeStartFails, counters, volumes, Fault, BackupTypeOK
<1>2. IsVolume(Empty, keys)
  BY EmptyVolume
<1>3. /\ op'.kind = "none" /\ op'.pc = "idle" /\ op'.from = Empty /\ op'.part = Empty
      /\ op'.old = Empty /\ op'.res = "none" /\ op'.torn = FALSE
      /\ OpInv' /\ ContentInv' /\ ArchiveInv' /\ RestoreAnswers'
  BY <1>1, CommandEnds
<1> USE <1>1, <1>2, <1>3
<1>4. BackupTypeOK'
  BY DEF BackupTypeOK
<1>5. ArchiveIsOneMoment' /\ KeyFits'
  BY DEF ArchiveIsOneMoment, KeyFits, OpInv
<1>6. NothingLost' /\ ServiceIsBack'
  BY DEF NothingLost, ServiceIsBack, OpInv
<1>7. SoundInv'
  BY DEF SoundInv, OpInv
<1> QED BY <1>4, <1>5, <1>6, <1>7, <1>3

LEMMA KilledPreserves ==
  ASSUME BackupIInv, Killed
  PROVE  BackupIInv'
<1> USE DEF BackupIInv, BackupInv, CommandsEndWell
<1>1. /\ op.pc # "idle" /\ op' = Idle /\ stranded' = TRUE /\ faults' \in Nat
      /\ torn' = (torn \/ op.pc \in {"copy", "rollback"})
      /\ UNCHANGED <<live, staging, archives, service, now, ops, writes, keys, cleared>>
  BY DEF Killed, counters, volumes, Fault, BackupTypeOK
<1>2. IsVolume(Empty, keys)
  BY EmptyVolume
<1>3. /\ op'.kind = "none" /\ op'.pc = "idle" /\ op'.from = Empty /\ op'.part = Empty
      /\ op'.old = Empty /\ op'.res = "none" /\ op'.torn = FALSE
      /\ OpInv' /\ ContentInv' /\ ArchiveInv' /\ RestoreAnswers'
  BY <1>1, CommandEnds
<1> USE <1>1, <1>2, <1>3
<1>4. BackupTypeOK'
  BY DEF BackupTypeOK
<1>5. ArchiveIsOneMoment' /\ KeyFits'
  BY DEF ArchiveIsOneMoment, KeyFits, OpInv
<1>6. NothingLost' /\ ServiceIsBack'
  BY DEF NothingLost, ServiceIsBack, OpInv
<1>7. SoundInv'
  BY DEF SoundInv, OpInv
<1> QED BY <1>4, <1>5, <1>6, <1>7, <1>3

LEMMA OperatorStartsPreserves ==
  ASSUME BackupIInv, OperatorStarts
  PROVE  BackupIInv'
<1> USE DEF BackupIInv, BackupInv, CommandsEndWell
<1>1. /\ op.pc = "idle" /\ stranded' = FALSE
      /\ UNCHANGED <<staging, archives, op, now, ops, writes, faults, cleared, torn>>
  BY DEF OperatorStarts
<1>2. /\ service' = "up" /\ keys' \in Nat \ {0} /\ keys <= keys'
      /\ IsVolume(live', keys') /\ {"db", "key"} \subseteq DOMAIN live'
      /\ Sound(live) => Sound(live')
      /\ \A vol : IsVolume(vol, keys) => IsVolume(vol, keys')
  BY ServiceBoots DEF OperatorStarts
<1> USE <1>1, <1>2
<1>3. BackupTypeOK'
  BY DEF BackupTypeOK
<1>4. ArchiveIsOneMoment' /\ KeyFits'
  BY DEF ArchiveIsOneMoment, KeyFits, OpInv, SoundInv, Sound
<1>5. NothingLost' /\ RestoreAnswers' /\ ServiceIsBack'
  BY DEF NothingLost, RestoreAnswers, ServiceIsBack, OpInv, ContentInv
<1>6. OpInv'
  BY DEF OpInv
<1>7. ContentInv'
  BY DEF ContentInv, OpInv
<1>8. ArchiveInv'
  BY DEF ArchiveInv, OpInv
<1>9. SoundInv'
  BY DEF SoundInv, OpInv
<1> QED BY <1>3, <1>4, <1>5, <1>6, <1>7, <1>8, <1>9

LEMMA BackupStarts ==
  ASSUME BackupInit
  PROVE  BackupIInv
<1> DEFINE db == [v |-> 0, key |-> 1]
           w == With(Empty, "key", 1)
<1>1. live = With(w, "db", db) /\ staging = {} /\ archives = {} /\ service = "up" /\ op = Idle
  BY DEF BackupInit
<1>2. /\ now \in Nat /\ ops = 0 /\ writes = 0 /\ keys = 1 /\ faults = 0
      /\ cleared = {} /\ torn = FALSE /\ stranded = FALSE
  BY TimesAssumption DEF BackupInit
<1>3. IsVolume(Empty, 1)
  BY EmptyVolume
<1>4. IsVolume(live, 1)
  <2>1. db \in Dbs(1)
    BY CommandsAssumption DEF Dbs
  <2>2. IsVolume(w, 1)
    BY <1>3, WithIsVolume
  <2> HIDE DEF w, db
  <2>3. IsVolume(With(w, "db", db), 1)
    BY <2>1, <2>2, WithIsVolume
  <2> QED BY <1>1, <2>3
<1>5. Sound(live)
  <2>1. DOMAIN live = {"db", "key"} /\ live["db"] = db /\ live["key"] = 1
    BY <1>1 DEF With, Empty
  <2> QED BY <2>1 DEF Sound
<1>6. /\ op.kind = "none" /\ op.pc = "idle" /\ op.from = Empty /\ op.part = Empty
      /\ op.old = Empty /\ op.res = "none" /\ op.torn = FALSE
  BY <1>1 DEF Idle
<1>7. OpInv
  BY <1>1, <1>6 DEF OpInv, Idle
<1> HIDE DEF w, db
<1>8. BackupTypeOK
  <2>1. {"db", "key"} \subseteq DOMAIN live
    BY <1>5 DEF Sound
  <2>2. writes \in 0..MaxWrites
    BY <1>2, CommandsAssumption
  <2>3. {torn, stranded, op.torn} \subseteq BOOLEAN
    BY <1>2, <1>6, Zenon
  <2> QED BY <1>1, <1>2, <1>3, <1>4, <1>6, <2>1, <2>2, <2>3 DEF BackupTypeOK
<1>9. ContentInv /\ ArchiveInv /\ SoundInv
  BY <1>1, <1>2, <1>5, <1>6 DEF ContentInv, ArchiveInv, SoundInv
<1>10. ArchiveIsOneMoment /\ KeyFits /\ NothingLost /\ RestoreAnswers /\ ServiceIsBack
  BY <1>1, <1>2, <1>5, <1>6
  DEF ArchiveIsOneMoment, KeyFits, NothingLost, RestoreAnswers, ServiceIsBack, Sound
<1> QED BY <1>7, <1>8, <1>9, <1>10 DEF BackupIInv, BackupInv, CommandsEndWell

LEMMA BackupStutters ==
  ASSUME BackupIInv, UNCHANGED backupVars
  PROVE  BackupIInv'
<1>1. /\ UNCHANGED <<live, staging, archives, service, op, now, ops, writes, keys, faults>>
      /\ UNCHANGED <<cleared, torn, stranded>>
  BY DEF backupVars, volumes, counters, history
<1> USE <1>1 DEF BackupIInv, BackupInv, CommandsEndWell
<1>2. BackupTypeOK'
  BY DEF BackupTypeOK
<1>3. ArchiveIsOneMoment' /\ KeyFits'
  BY DEF ArchiveIsOneMoment, KeyFits, OpInv
<1>4. NothingLost' /\ RestoreAnswers' /\ ServiceIsBack'
  BY DEF NothingLost, RestoreAnswers, ServiceIsBack, OpInv, ContentInv
<1>5. OpInv'
  BY DEF OpInv
<1>6. ContentInv'
  BY DEF ContentInv, OpInv, Packed
<1>7. ArchiveInv'
  BY DEF ArchiveInv, OpInv
<1>8. SoundInv'
  BY DEF SoundInv, OpInv
<1> QED BY <1>2, <1>3, <1>4, <1>5, <1>6, <1>7, <1>8

\* The inductive invariant of the backup tool: whatever fails, and wherever it is
\* killed.
THEOREM BackupInvariance == BackupSpec => []BackupIInv
<1>1. BackupInit => BackupIInv
  BY BackupStarts
<1>2. BackupIInv /\ [BackupNext]_backupVars => BackupIInv'
  <2> SUFFICES ASSUME BackupIInv, [BackupNext]_backupVars PROVE BackupIInv'
    OBVIOUS
  <2>1. CASE Write
    BY <2>1, WritePreserves
  <2>2. CASE Checkpoint \/ Mdm
    BY <2>2, CheckpointPreserves, MdmPreserves
  <2>3. CASE BeginBackup
    BY <2>3, BeginBackupPreserves
  <2>4. ASSUME NEW a \in archives, BeginRestore(a) PROVE BackupIInv'
    BY <2>4, BeginRestorePreserves
  <2>5. CASE ComposeStop \/ ComposeStopFails \/ ComposeStart \/ ComposeStartFails
    BY <2>5, ComposeStopPreserves, ComposeStopFailsPreserves, ComposeStartPreserves,
       ComposeStartFailsPreserves
  <2>6. CASE Tar \/ TarDone \/ TarFails
    BY <2>6, TarPreserves, TarDonePreserves, TarFailsPreserves
  <2>7. CASE Unpack \/ UnpackFails \/ Check
    BY <2>7, UnpackPreserves, UnpackFailsPreserves, CheckPreserves
  <2>8. CASE Clear \/ ClearFails \/ Copy \/ CopyFails
    BY <2>8, ClearPreserves, ClearFailsPreserves, CopyPreserves, CopyFailsPreserves
  <2>9. CASE Rollback \/ RollbackFails \/ Recheck \/ Cleanup
    BY <2>9, RollbackPreserves, RollbackFailsPreserves, RecheckPreserves, CleanupPreserves
  <2>10. CASE Killed
    BY <2>10, KilledPreserves
  <2>11. CASE OperatorStarts
    BY <2>11, OperatorStartsPreserves
  <2>12. CASE UNCHANGED backupVars
    BY <2>12, BackupStutters
  <2> QED
    BY <2>1, <2>2, <2>3, <2>4, <2>5, <2>6, <2>7, <2>8, <2>9, <2>10, <2>11, <2>12
    DEF BackupNext, Command, RestoreSteps
<1> QED BY <1>1, <1>2, PTL DEF BackupSpec

\* At any time an archive that is whole is of one moment, and a running service has
\* the key of its secrets unless a restore was cut off.
THEOREM ArchivesAreWhole == BackupSpec => []BackupInv
<1>1. BackupIInv => BackupInv
  BY DEF BackupIInv
<1> QED BY <1>1, BackupInvariance, PTL

\* At every failure and at a kill, what was wiped is kept, what is reported is true
\* and the service is running again.
THEOREM NothingIsLost == BackupSpec => []CommandsEndWell
<1>1. BackupIInv => CommandsEndWell
  BY DEF BackupIInv
<1> QED BY <1>1, BackupInvariance, PTL

-----------------------------------------------------------------------------
(****************************************************************************)
(* The secrets of the server.                                               *)
(****************************************************************************)

USE EnvKeysAssumption, BoundsAssumption

-----------------------------------------------------------------------------
(***************************************************************************)
(* The key and the rows.                                                   *)
(***************************************************************************)

\* crypto/: what is stored is readable by whoever is up, and is what was last set.
LEMMA StoredIsReadable ==
  ASSUME TypeOK, KeyInv, RowsInv
  PROVE  SecretsReadable /\ ReadsLastSet
<1> SUFFICES ASSUME server.pc = "up", NEW k \in Kinds
             PROVE  GetPlaintext(k) # {"unavailable"} /\ GetPlaintext(k) = last[k]
  BY DEF SecretsReadable, ReadsLastSet
<1>1. CASE rows[k] = <<>> /\ last[k] = None
  BY <1>1 DEF GetPlaintext, Has, None
<1>2. ASSUME NEW v \in {"a", "b"}, rows[k] = <<[val |-> v, key |-> DeploymentKey]>>, last[k] = {v}
      PROVE  GetPlaintext(k) # {"unavailable"} /\ GetPlaintext(k) = last[k]
  <2>1. Head(rows[k]) = [val |-> v, key |-> DeploymentKey] /\ Has(k)
    BY <1>2 DEF Has
  <2>2. server.key = DeploymentKey
    BY DEF KeyInv
  <2>3. GetPlaintext(k) = {v}
    BY <2>1, <2>2 DEF GetPlaintext, Decrypt
  <2> QED BY <1>2, <2>3
<1> QED BY <1>1, <1>2 DEF RowsInv

\* The steps of a boot leave the tables and the requests alone.
LEMMA BootKeepsRequests ==
  ASSUME RequestInv, AloneInv, UNCHANGED <<rows, req>>
  PROVE  RequestInv' /\ AloneInv'
<1>1. RequestInv'
  BY DEF RequestInv
<1>2. ASSUME NEW c \in Clients
      PROVE  /\ Others(c)' = Others(c) /\ BodyOf(c)' = BodyOf(c)
             /\ \A k : Has(k)' = Has(k)
             /\ \A k : WouldBePresent(BodyOf(c), k)' = WouldBePresent(BodyOf(c), k)
  <2>1. Others(c)' = Others(c)
    BY DEF Others
  <2>2. BodyOf(c)' = BodyOf(c)
    BY Zenon DEF BodyOf
  <2>3. \A k : Has(k)' = Has(k)
    BY DEF Has
  <2>4. \A k : WouldBePresent(BodyOf(c), k)' = WouldBePresent(BodyOf(c), k)
    BY <2>2, <2>3 DEF WouldBePresent
  <2> QED BY <2>1, <2>2, <2>3, <2>4
<1>3. AloneInv'
  BY <1>2 DEF AloneInv
<1> QED BY <1>1, <1>3

\* load_or_create: LoadKey to RenameTmp.
LEMMA BootPreserves ==
  ASSUME IInv, LoadKey \/ CreateTmp \/ WriteTmp \/ RenameTmp
  PROVE  IInv'
<1> USE DEF Boot, files, tables
<1>1. RequestInv' /\ AloneInv'
  BY BootKeepsRequests DEF IInv, LoadKey, CreateTmp, WriteTmp, RenameTmp
<1>2. CASE LoadKey
  <2>1. /\ server' \in [pc : {"down", "create", "write", "rename", "up"}, key : Options(Keys)]
        /\ KeyInv'
    <3>1. CASE env # None
      <4>1. env \in Options(Keys) /\ server' = [pc |-> "up", key |-> env]
        <5>1. PICK k \in env : env = {k}
          BY <3>1 DEF IInv, TypeOK
        <5>2. k \in Keys
          BY <5>1 DEF IInv, TypeOK, Keys
        <5> QED BY <1>2, <3>1, <5>1, <5>2 DEF LoadKey, Options
      <4> QED BY <1>2, <3>1, <4>1 DEF LoadKey, KeyInv, DeploymentKey
    <3>2. CASE env = None /\ keyFile # None
      <4>1. keyFile \in Options(Keys) /\ server' = [pc |-> "up", key |-> keyFile]
        BY <1>2, <3>2 DEF LoadKey, IInv, TypeOK, Options, Keys
      <4> QED BY <1>2, <3>2, <4>1 DEF LoadKey, KeyInv, DeploymentKey
    <3>3. CASE env = None /\ keyFile = None
      <4>1. None \in Options(Keys) /\ server' = [pc |-> "create", key |-> None]
        BY <1>2, <3>3 DEF LoadKey, Options
      <4> QED BY <1>2, <3>3, <4>1 DEF LoadKey, KeyInv, DeploymentKey
    <3> QED BY <3>1, <3>2, <3>3
  <2>2. TypeOK' /\ RowsInv'
    BY <1>2, <2>1 DEF LoadKey, IInv, TypeOK, RowsInv, DeploymentKey
  <2> QED BY <1>1, <2>1, <2>2 DEF IInv
<1>3. CASE CreateTmp
  <2>1. DeploymentKey = None /\ DeploymentKey' = DeploymentKey
    BY <1>3 DEF CreateTmp, IInv, KeyInv, DeploymentKey
  <2>2. CASE tmpFile = None
    <3>1. PICK n \in Fresh : n = made + 1
      <4>1. made \in 0..MaxKeys /\ made < MaxKeys
        BY <1>3, <2>2 DEF CreateTmp, IInv, TypeOK
      <4> QED BY <4>1 DEF Fresh
    <3>2. {n} \in Options(Keys) /\ {Half} \in Options(Fresh \cup {Half}) /\ n \in 0..MaxKeys
      <4>1. n \in 0..MaxKeys
        BY DEF Fresh
      <4>2. n \in Keys
        BY DEF Keys
      <4> QED BY <4>1, <4>2 DEF Options
    <3>3. server' = [pc |-> "write", key |-> {n}] /\ tmpFile' = {Half} /\ made' = n
      BY <1>3, <2>2, <3>1 DEF CreateTmp
    <3>4. TypeOK' /\ RowsInv'
      BY <1>3, <2>1, <3>2, <3>3 DEF CreateTmp, IInv, TypeOK, RowsInv
    <3>5. KeyInv'
      BY <2>1, <3>3 DEF KeyInv
    <3> QED BY <1>1, <3>4, <3>5 DEF IInv
  <2>3. CASE tmpFile # None
    <3>1. server' = [pc |-> "down", key |-> None] /\ None \in Options(Keys)
      BY <1>3, <2>3 DEF CreateTmp, Options
    <3>2. TypeOK' /\ RowsInv'
      BY <1>3, <2>1, <2>3, <3>1 DEF CreateTmp, IInv, TypeOK, RowsInv
    <3>3. KeyInv'
      BY <3>1 DEF KeyInv
    <3> QED BY <1>1, <3>2, <3>3 DEF IInv
  <2> QED BY <2>2, <2>3
<1>4. CASE WriteTmp
  <2>1. DeploymentKey = None /\ DeploymentKey' = DeploymentKey
    BY <1>4 DEF WriteTmp, IInv, KeyInv, DeploymentKey
  <2>2. PICK n \in Fresh : server.key = {n}
    BY <1>4 DEF WriteTmp, IInv, KeyInv
  <2>3. server' = [pc |-> "rename", key |-> {n}] /\ tmpFile' = {n}
        /\ {n} \in Options(Keys) /\ {n} \in Options(Fresh \cup {Half})
    BY <1>4, <2>2 DEF WriteTmp, Options, Keys
  <2>4. TypeOK' /\ RowsInv'
    BY <1>4, <2>1, <2>3 DEF WriteTmp, IInv, TypeOK, RowsInv
  <2>5. KeyInv'
    BY <2>1, <2>3 DEF KeyInv
  <2> QED BY <1>1, <2>4, <2>5 DEF IInv
<1>5. CASE RenameTmp
  <2>1. DeploymentKey = None /\ env = None
    BY <1>5 DEF RenameTmp, IInv, KeyInv, DeploymentKey
  <2>2. PICK n \in Fresh : server.key = {n} /\ tmpFile = {n}
    BY <1>5 DEF RenameTmp, IInv, KeyInv
  <2>3. /\ server' = [pc |-> "up", key |-> {n}] /\ keyFile' = {n} /\ tmpFile' = None
        /\ {n} \in Options(Keys) /\ {n} \in Options(Fresh) /\ None \in Options(Fresh \cup {Half})
    BY <1>5, <2>2 DEF RenameTmp, Options, Keys
  <2>4. TypeOK'
    BY <1>5, <2>3 DEF RenameTmp, IInv, TypeOK
  <2>5. RowsInv'
    <3>1. \A k \in Kinds : rows[k] = <<>> /\ last[k] = None
      BY <2>1 DEF IInv, RowsInv
    <3> QED BY <1>5, <3>1 DEF RenameTmp, RowsInv
  <2>6. DeploymentKey' = {n} /\ {n} # None
    BY <1>5, <2>1, <2>3 DEF RenameTmp, DeploymentKey, None
  <2>7. KeyInv'
    BY <2>3, <2>6 DEF KeyInv
  <2> QED BY <1>1, <2>4, <2>5, <2>7 DEF IInv
<1> QED BY <1>2, <1>3, <1>4, <1>5

LEMMA NoReqType == NoReq \in Request
BY DEF NoReq, Request, Options, Modes, Kinds, None

LEMMA CrashPreserves ==
  ASSUME IInv, Crash
  PROVE  IInv'
<1> USE DEF Boot, files, tables
<1>1. server' = [pc |-> "down", key |-> None] /\ None \in Options(Keys)
  BY DEF Crash, Options
<1>2. req' = [c \in Clients |-> NoReq] /\ req' \in [Clients -> Request]
  BY NoReqType DEF Crash
<1>3. \A c \in Clients : req'[c] = NoReq /\ NoReq.pc = "none"
  BY <1>2 DEF NoReq
<1>4. TypeOK' /\ RowsInv'
  BY <1>1, <1>2 DEF Crash, IInv, TypeOK, RowsInv, DeploymentKey, Request
<1>5. KeyInv'
  BY <1>1 DEF KeyInv
<1>6. RequestInv' /\ AloneInv'
  BY <1>2, <1>3 DEF RequestInv, AloneInv, Kinds
<1> QED BY <1>4, <1>5, <1>6 DEF IInv

-----------------------------------------------------------------------------
(***************************************************************************)
(* The requests.                                                           *)
(***************************************************************************)

\* What WouldBePresent reads besides the rows: the body, which has one field of a kind.
LEMMA BodyIs ==
  ASSUME IInv, NEW c \in Clients, req[c].pc # "none"
  PROVE  \E b \in Bodies : BodyOf(c) = b /\ \A k \in Kinds : b.secret[k] \in Options({"", "a", "b"})
<1>1. PICK b \in Bodies : req[c].body = {b}
  BY DEF IInv, RequestInv
<1>2. BodyOf(c) = b
  BY <1>1 DEF BodyOf
<1>3. b \in Body
  BY BodiesAssumption
<1> QED BY <1>2, <1>3 DEF Body

LEMMA OneRow ==
  ASSUME NEW S, NEW x \in S
  PROVE  <<x>> \in Seq(S)
<1>1. <<x>> = Append(<<>>, x)
  OBVIOUS
<1> QED BY <1>1, EmptySeq, AppendProperties

\* apply_secret: afterwards the secret is there if it would be, under the one key, and
\* no other secret is touched.
LEMMA ApplySecretStores ==
  ASSUME IInv, server.pc = "up", NEW b, NEW k \in Kinds, b.secret[k] \in Options({"", "a", "b"}),
         ApplySecret(k, b.secret[k]), UNCHANGED <<env, keyFile>>
  PROVE  /\ rows' \in [Kinds -> Seq(Row)] /\ last' \in [Kinds -> Options({"a", "b"})]
         /\ RowsInv'
         /\ Has(k)' = WouldBePresent(b, k)
         /\ \A j \in Kinds : WouldBePresent(b, j)' = WouldBePresent(b, j)
         /\ \A j \in Kinds : j # k => Has(j)' = Has(j)
<1> DEFINE field == b.secret[k]
<1>1. /\ rows \in [Kinds -> Seq(Row)] /\ last \in [Kinds -> Options({"a", "b"})] /\ RowsInv
      /\ server.key = DeploymentKey /\ server.key # None /\ server.key \in Options(Keys)
      /\ DeploymentKey' = DeploymentKey
  BY DEF IInv, TypeOK, KeyInv, DeploymentKey
<1>2. /\ rows' = IF field = None THEN rows
                 ELSE IF field = {""} THEN [rows EXCEPT ![k] = <<>>]
                 ELSE [rows EXCEPT ![k] = <<[val |-> CHOOSE v \in field : TRUE, key |-> server.key]>>]
      /\ last' = IF field = None THEN last ELSE [last EXCEPT ![k] = field \ {""}]
  BY DEF ApplySecret, Set, Delete
<1>3. field \in Options({"", "a", "b"})
  OBVIOUS
<1> HIDE DEF field
<1>4. CASE field = None
  <2>1. rows' = rows /\ last' = last
    BY <1>2, <1>4
  <2>2. \A j : Has(j)' = Has(j)
    BY <2>1 DEF Has
  <2>3. Has(k)' = WouldBePresent(b, k) /\ \A j : WouldBePresent(b, j)' = WouldBePresent(b, j)
    BY <1>4, <2>2 DEF WouldBePresent, field
  <2>4. RowsInv'
    BY <1>1, <2>1 DEF RowsInv
  <2> QED BY <1>1, <2>1, <2>2, <2>3, <2>4
<1>5. CASE field = {""}
  <2>1. rows' = [rows EXCEPT ![k] = <<>>] /\ last' = [last EXCEPT ![k] = None]
    <3>1. {""} # None /\ {""} \ {""} = None
      BY DEF None
    <3> QED BY <1>2, <1>5, <3>1
  <2>2. <<>> \in Seq(Row) /\ None \in Options({"a", "b"})
    BY EmptySeq DEF Options
  <2>3. /\ rows' \in [Kinds -> Seq(Row)] /\ last' \in [Kinds -> Options({"a", "b"})]
        /\ rows'[k] = <<>> /\ last'[k] = None
        /\ \A j \in Kinds : j # k => rows'[j] = rows[j] /\ last'[j] = last[j]
    BY <1>1, <2>1, <2>2
  <2>4. RowsInv'
    BY <1>1, <2>3 DEF RowsInv
  <2>5. Has(k)' = FALSE /\ \A j \in Kinds : j # k => Has(j)' = Has(j)
    <3>1. \A j \in Kinds : j # k => Has(j)' = Has(j)
      BY <2>3, Zenon DEF Has
    <3>2. Has(k)' = FALSE
      BY <2>3, Zenon DEF Has
    <3> QED BY <3>1, <3>2
  <2>6. b.secret[k] # None /\ b.secret[k] = {""}
    BY <1>5 DEF field, None
  <2>7. WouldBePresent(b, k) = FALSE /\ WouldBePresent(b, k)' = FALSE
    BY <2>6 DEF WouldBePresent
  <2>8. \A j \in Kinds : WouldBePresent(b, j)' = WouldBePresent(b, j)
    <3> TAKE j \in Kinds
    <3>1. CASE j # k
      BY <2>5, <3>1 DEF WouldBePresent
    <3> QED BY <2>7, <3>1
  <2> QED BY <2>3, <2>4, <2>5, <2>7, <2>8
<1>6. ASSUME NEW v \in {"a", "b"}, field = {v}
      PROVE  /\ rows' \in [Kinds -> Seq(Row)] /\ last' \in [Kinds -> Options({"a", "b"})]
             /\ RowsInv'
             /\ Has(k)' = WouldBePresent(b, k)
             /\ \A j \in Kinds : WouldBePresent(b, j)' = WouldBePresent(b, j)
             /\ \A j \in Kinds : j # k => Has(j)' = Has(j)
  <2>1. /\ field # None /\ field # {""} /\ (CHOOSE w \in field : TRUE) = v /\ field \ {""} = {v}
    BY <1>6 DEF None
  <2> DEFINE row == [val |-> v, key |-> server.key]
  <2>2. rows' = [rows EXCEPT ![k] = <<row>>] /\ last' = [last EXCEPT ![k] = {v}]
    BY <1>2, <2>1
  <2>3. row \in Row /\ {v} \in Options({"a", "b"})
    BY <1>1 DEF Row, Options
  <2>4. row = [val |-> v, key |-> DeploymentKey']
    BY <1>1
  <2> HIDE DEF row
  <2>5. <<row>> \in Seq(Row) /\ <<row>> # <<>>
    <3>1. <<row>> \in Seq(Row)
      BY <2>3, OneRow
    <3>2. Len(<<row>>) = 1 /\ Len(<<>>) = 0
      OBVIOUS
    <3>3. <<row>> # <<>>
      BY <3>2
    <3> QED BY <3>1, <3>3
  <2>6. /\ rows' \in [Kinds -> Seq(Row)] /\ last' \in [Kinds -> Options({"a", "b"})]
        /\ rows'[k] = <<row>> /\ last'[k] = {v}
        /\ \A j \in Kinds : j # k => rows'[j] = rows[j] /\ last'[j] = last[j]
    BY <1>1, <2>2, <2>3, <2>5
  <2>7. RowsInv'
    <3>1. ASSUME NEW j \in Kinds
          PROVE  \/ rows'[j] = <<>> /\ last'[j] = None
                 \/ \E w \in {"a", "b"} : /\ rows'[j] = <<[val |-> w, key |-> DeploymentKey']>>
                                          /\ last'[j] = {w} /\ DeploymentKey' # None
      <4>1. CASE j = k
        BY <1>1, <2>4, <2>6, <4>1
      <4>2. CASE j # k
        BY <1>1, <2>6, <4>2 DEF RowsInv
      <4> QED BY <4>1, <4>2
    <3> QED BY <3>1 DEF RowsInv
  <2>8. Has(k)' = TRUE /\ \A j \in Kinds : j # k => Has(j)' = Has(j)
    <3>1. \A j \in Kinds : j # k => Has(j)' = Has(j)
      BY <2>6, Zenon DEF Has
    <3>2. Has(k)' = TRUE
      BY <2>5, <2>6, Zenon DEF Has
    <3> QED BY <3>1, <3>2
  <2>9. WouldBePresent(b, k) = TRUE /\ WouldBePresent(b, k)' = TRUE
    BY <2>1 DEF WouldBePresent, field
  <2>10. \A j \in Kinds : WouldBePresent(b, j)' = WouldBePresent(b, j)
    <3> TAKE j \in Kinds
    <3>1. CASE j # k
      BY <2>8, <3>1 DEF WouldBePresent
    <3> QED BY <2>9, <3>1
  <2> QED BY <2>6, <2>7, <2>8, <2>9, <2>10
<1> QED BY <1>3, <1>4, <1>5, <1>6 DEF Options

\* What a step of one request does to the others: nothing, where it writes no rows.
LEMMA OthersKept ==
  ASSUME IInv, NEW c \in Clients, NEW r \in Request, req' = [req EXCEPT ![c] = r],
         UNCHANGED rows, r.pc # "none" => req[c].pc # "none",
         NEW d \in Clients, d # c, req'[d].alone
  PROVE  /\ req'[d].pc # "none" => Others(d)' = {}
         /\ req'[d].pc \in Kinds \cup {"mode"} =>
              /\ req'[d].view = {View(req'[d].mode, req'[d].org,
                                      {k \in Kinds : WouldBePresent(BodyOf(d), k)'})}
              /\ \A k \in Done(req'[d].pc) : Has(k)' = WouldBePresent(BodyOf(d), k)'
<1>1. req \in [Clients -> Request]
  BY DEF IInv, RequestInv
<1>2. req'[d] = req[d] /\ req'[c] = r /\ \A e \in Clients : e # c => req'[e] = req[e]
  BY <1>1
<1>3. BodyOf(d)' = BodyOf(d)
  BY <1>2, Zenon DEF BodyOf
<1>4. \A k : Has(k)' = Has(k)
  BY DEF Has
<1>5. \A k : WouldBePresent(BodyOf(d), k)' = WouldBePresent(BodyOf(d), k)
  BY <1>3, <1>4 DEF WouldBePresent
<1>6. Others(d)' \subseteq Others(d)
  BY <1>2 DEF Others
<1>7. /\ req[d].pc # "none" => Others(d) = {}
      /\ req[d].pc \in Kinds \cup {"mode"} =>
           /\ req[d].view = {View(req[d].mode, req[d].org,
                                  {k \in Kinds : WouldBePresent(BodyOf(d), k)})}
           /\ \A k \in Done(req[d].pc) : Has(k) = WouldBePresent(BodyOf(d), k)
  BY <1>2 DEF IInv, AloneInv
<1> QED BY <1>2, <1>4, <1>5, <1>6, <1>7

\* A request that comes to its end, one way or another, with the rows as they are.
LEMMA EndPreserves ==
  ASSUME IInv, NEW c \in Clients, req' = [req EXCEPT ![c] = NoReq],
         UNCHANGED <<files, server, made, rows, last, puts>>,
         account' \in [mode : Modes, org : Options({"org"})]
  PROVE  IInv'
<1> USE DEF files
<1>1. req \in [Clients -> Request] /\ NoReq \in Request /\ NoReq.pc = "none"
  BY NoReqType DEF IInv, RequestInv, NoReq
<1>2. req' \in [Clients -> Request] /\ req'[c] = NoReq /\ \A d \in Clients : d # c => req'[d] = req[d]
  BY <1>1
<1>3. TypeOK' /\ KeyInv' /\ RowsInv'
  BY <1>2 DEF IInv, TypeOK, KeyInv, RowsInv, DeploymentKey, Request
<1>4. RequestInv'
  <2>1. \A d \in Clients : req'[d].pc # "none" => req'[d] = req[d]
    BY <1>1, <1>2
  <2>2. "none" \notin Kinds \cup {"mode"}
    BY DEF Kinds
  <2> QED BY <1>2, <2>1, <2>2 DEF IInv, RequestInv
<1>5. AloneInv'
  <2> SUFFICES ASSUME NEW d \in Clients, req'[d].alone
               PROVE  /\ req'[d].pc # "none" => Others(d)' = {}
                      /\ req'[d].pc \in Kinds \cup {"mode"} =>
                           /\ req'[d].view = {View(req'[d].mode, req'[d].org,
                                                   {k \in Kinds : WouldBePresent(BodyOf(d), k)'})}
                           /\ \A k \in Done(req'[d].pc) : Has(k)' = WouldBePresent(BodyOf(d), k)'
    BY DEF AloneInv
  <2>1. CASE d = c
    BY <1>1, <1>2, <2>1 DEF Kinds
  <2>2. CASE d # c
    BY <1>1, <2>2, OthersKept
  <2> QED BY <2>1, <2>2
<1> QED BY <1>3, <1>4, <1>5 DEF IInv

LEMMA PutReadPreserves ==
  ASSUME IInv, NEW c \in Clients, NEW b \in Bodies, PutRead(c, b)
  PROVE  IInv'
<1> USE DEF files, tables
<1>1. req \in [Clients -> Request] /\ req[c].pc = "none" /\ b \in Body
  BY BodiesAssumption DEF IInv, RequestInv, PutRead
<1> DEFINE m == IF b.mode = None THEN account.mode ELSE CHOOSE x \in b.mode : TRUE
           o == IF b.org = None THEN account.org ELSE b.org
           a == Others(c) = {}
           r == [pc |-> "check", body |-> {b}, mode |-> m, org |-> o, view |-> None, alone |-> a]
<1>2. m \in Modes /\ o \in Options({"org"})
  <2>1. b.mode \in Options(Modes) /\ b.org \in Options({"org"})
    BY <1>1 DEF Body
  <2>2. account.mode \in Modes /\ account.org \in Options({"org"})
    BY DEF IInv, TypeOK
  <2>3. b.mode # None => (CHOOSE x \in b.mode : TRUE) \in Modes
    BY <2>1 DEF Options
  <2> QED BY <2>1, <2>2, <2>3
<1>3. a \in BOOLEAN /\ None \in Options(Answer) /\ {b} \in Options(Bodies)
  BY DEF Options
<1>4. req' = [d \in Clients |-> IF d = c THEN r ELSE [req[d] EXCEPT !.alone = FALSE]]
  BY DEF PutRead
<1> HIDE DEF m, o, a
<1>5. r \in Request /\ r.pc = "check" /\ r.body = {b} /\ r.alone = a
  BY <1>2, <1>3 DEF Request
<1>6. ASSUME NEW d \in Clients, d # c
      PROVE  /\ [req[d] EXCEPT !.alone = FALSE] \in Request
             /\ req'[d].alone = FALSE /\ req'[d].pc = req[d].pc /\ req'[d].body = req[d].body
             /\ req'[d].view = req[d].view /\ req'[d].mode = req[d].mode
             /\ req'[d].org = req[d].org
  <2>1. req[d] \in Request /\ FALSE \in BOOLEAN
    BY <1>1
  <2>2. req'[d] = [req[d] EXCEPT !.alone = FALSE]
    BY <1>4, <1>6
  <2> QED BY <2>1, <2>2 DEF Request
<1>7. req'[c] = r
  BY <1>4
<1> HIDE DEF r
<1>8. req' \in [Clients -> Request]
  BY <1>4, <1>5, <1>6
<1>9. TypeOK' /\ KeyInv' /\ RowsInv'
  <2>1. puts' \in 0..MaxPuts
    BY DEF PutRead, IInv, TypeOK
  <2>2. UNCHANGED <<files, server, made, tables>>
    BY DEF PutRead
  <2>3. \A d \in Clients : req'[d] \in Request
    BY <1>8
  <2>4. TypeOK'
    BY <2>1, <2>2, <2>3 DEF IInv, TypeOK, Request
  <2>5. KeyInv' /\ RowsInv'
    BY <2>2 DEF IInv, KeyInv, RowsInv, DeploymentKey
  <2> QED BY <2>4, <2>5
<1>10. "check" \notin Kinds \cup {"mode"}
  BY DEF Kinds
<1>11. RequestInv'
  <2>1. ASSUME NEW d \in Clients
        PROVE  /\ req'[d].pc # "none" => \E x \in Bodies : req'[d].body = {x}
               /\ req'[d].pc \in Kinds \cup {"mode"} =>
                    \E p \in SUBSET Kinds : /\ req'[d].view = {View(req'[d].mode, req'[d].org, p)}
                                            /\ Complete(req'[d].mode, req'[d].org, p)
    <3>1. CASE d = c
      BY <1>5, <1>7, <1>10, <3>1
    <3>2. CASE d # c
      <4>1. /\ req[d].pc # "none" => \E x \in Bodies : req[d].body = {x}
            /\ req[d].pc \in Kinds \cup {"mode"} =>
                 \E p \in SUBSET Kinds : /\ req[d].view = {View(req[d].mode, req[d].org, p)}
                                         /\ Complete(req[d].mode, req[d].org, p)
        BY DEF IInv, RequestInv
      <4>2. /\ req'[d].pc = req[d].pc /\ req'[d].body = req[d].body
            /\ req'[d].view = req[d].view /\ req'[d].mode = req[d].mode
            /\ req'[d].org = req[d].org
        BY <1>6, <3>2
      <4> QED BY <4>1, <4>2
    <3> QED BY <3>1, <3>2
  <2> QED BY <1>8, <2>1 DEF RequestInv
<1>12. AloneInv'
  <2>1. Others(c)' = Others(c)
    BY <1>6 DEF Others
  <2>2. req'[c].alone => Others(c)' = {}
    BY <1>5, <1>7, <2>1 DEF a
  <2>3. req'[c].pc = "check"
    BY <1>5, <1>7
  <2> QED BY <1>6, <1>10, <2>2, <2>3 DEF AloneInv
<1> QED BY <1>9, <1>11, <1>12 DEF IInv

LEMMA PutCheckPreserves ==
  ASSUME IInv, NEW c \in Clients, PutCheck(c)
  PROVE  IInv'
<1> USE DEF files, tables
<1> DEFINE present == {k \in Kinds : WouldBePresent(BodyOf(c), k)}
           v == View(req[c].mode, req[c].org, present)
           r == [req[c] EXCEPT !.pc = "license", !.view = {v}]
<1>1. /\ req \in [Clients -> Request] /\ req[c] \in Request /\ req[c].pc = "check"
      /\ UNCHANGED <<files, server, made, tables, puts>>
  BY DEF IInv, RequestInv, PutCheck
<1>2. CASE ~Complete(req[c].mode, req[c].org, present)
  <2>1. req' = [req EXCEPT ![c] = NoReq]
    BY <1>2 DEF PutCheck
  <2>2. account' \in [mode : Modes, org : Options({"org"})]
    BY <1>1 DEF IInv, TypeOK
  <2> QED BY <1>1, <2>1, <2>2, EndPreserves
<1>3. CASE Complete(req[c].mode, req[c].org, present)
  <2>1. req' = [req EXCEPT ![c] = r]
    BY <1>3 DEF PutCheck
  <2>2. present \in SUBSET Kinds
    OBVIOUS
  <2>3. v \in Answer
    BY <1>1, <2>2 DEF View, Answer, Request
  <2> HIDE DEF v
  <2>4. "license" \in Kinds /\ {v} \in Options(Answer)
    BY <2>3 DEF Options, Kinds
  <2>5. /\ r \in Request /\ r.pc = "license" /\ r.view = {v} /\ r.mode = req[c].mode
        /\ r.org = req[c].org /\ r.body = req[c].body /\ r.alone = req[c].alone
    BY <1>1, <2>4 DEF Request
  <2> HIDE DEF r
  <2>6. /\ req' \in [Clients -> Request] /\ req'[c] = r
        /\ \A d \in Clients : d # c => req'[d] = req[d]
    BY <1>1, <2>1, <2>5
  <2>7. TypeOK' /\ KeyInv' /\ RowsInv'
    BY <1>1, <2>6 DEF IInv, TypeOK, KeyInv, RowsInv, DeploymentKey, Request
  <2>8. RequestInv'
    <3>1. \E x \in Bodies : req'[c].body = {x}
      BY <1>1, <2>5, <2>6 DEF IInv, RequestInv
    <3>2. \E p \in SUBSET Kinds : /\ req'[c].view = {View(req'[c].mode, req'[c].org, p)}
                                  /\ Complete(req'[c].mode, req'[c].org, p)
      BY <1>3, <2>2, <2>5, <2>6 DEF v
    <3> QED BY <2>6, <3>1, <3>2 DEF IInv, RequestInv
  <2>9. AloneInv'
    <3> SUFFICES ASSUME NEW d \in Clients, req'[d].alone
                 PROVE  /\ req'[d].pc # "none" => Others(d)' = {}
                        /\ req'[d].pc \in Kinds \cup {"mode"} =>
                             /\ req'[d].view = {View(req'[d].mode, req'[d].org,
                                                     {k \in Kinds : WouldBePresent(BodyOf(d), k)'})}
                             /\ \A k \in Done(req'[d].pc) : Has(k)' = WouldBePresent(BodyOf(d), k)'
      BY DEF AloneInv
    <3>1. CASE d = c
      <4>1. Others(c)' = {}
        <5>1. Others(c) = {}
          BY <1>1, <2>5, <2>6, <3>1 DEF IInv, AloneInv
        <5>2. Others(c)' = Others(c)
          BY <2>6 DEF Others
        <5> QED BY <5>1, <5>2
      <4>2. BodyOf(c)' = BodyOf(c)
        BY <2>5, <2>6, Zenon DEF BodyOf
      <4>3. \A k : WouldBePresent(BodyOf(c), k)' = WouldBePresent(BodyOf(c), k)
        BY <1>1, <4>2 DEF WouldBePresent, Has
      <4>4. Done("license") = {}
        BY DEF Done
      <4>5. {k \in Kinds : WouldBePresent(BodyOf(c), k)'} = present
        BY <4>3
      <4>6. r.view = {View(r.mode, r.org, {k \in Kinds : WouldBePresent(BodyOf(c), k)'})}
        BY <2>5, <4>5 DEF v
      <4> QED BY <2>5, <2>6, <3>1, <4>1, <4>4, <4>6
    <3>2. CASE d # c
      BY <1>1, <2>1, <2>5, <3>2, OthersKept
    <3> QED BY <3>1, <3>2
  <2> QED BY <2>7, <2>8, <2>9 DEF IInv
<1> QED BY <1>2, <1>3

LEMMA PutSecretPreserves ==
  ASSUME IInv, NEW c \in Clients, NEW k \in Kinds, NEW to, PutSecret(c, k, to),
         <<k, to>> \in {<<"license", "client_id">>, <<"client_id", "client_secret">>,
                        <<"client_secret", "mode">>}
  PROVE  IInv'
<1> USE DEF files
<1>1. /\ req \in [Clients -> Request] /\ req[c] \in Request /\ req[c].pc = k /\ server.pc = "up"
      /\ k # "none" /\ k \in Kinds \cup {"mode"} /\ to \in Kinds \cup {"mode"} /\ to # "none"
      /\ UNCHANGED <<files, server, made, account, puts>>
  BY DEF IInv, RequestInv, PutSecret, Kinds
<1>2. PICK b \in Bodies : BodyOf(c) = b /\ \A j \in Kinds : b.secret[j] \in Options({"", "a", "b"})
  BY <1>1, BodyIs
<1>3. /\ rows' \in [Kinds -> Seq(Row)] /\ last' \in [Kinds -> Options({"a", "b"})] /\ RowsInv'
      /\ Has(k)' = WouldBePresent(b, k)
      /\ \A j \in Kinds : WouldBePresent(b, j)' = WouldBePresent(b, j)
      /\ \A j \in Kinds : j # k => Has(j)' = Has(j)
  <2>1. ApplySecret(k, b.secret[k])
    BY <1>2 DEF PutSecret
  <2> QED BY <1>1, <1>2, <2>1, ApplySecretStores
<1> DEFINE r == [req[c] EXCEPT !.pc = to]
<1>4. /\ r \in Request /\ r.pc = to /\ r.view = req[c].view /\ r.mode = req[c].mode
      /\ r.org = req[c].org /\ r.body = req[c].body /\ r.alone = req[c].alone
  BY <1>1 DEF Request
<1>5. req' = [req EXCEPT ![c] = r]
  BY <1>1 DEF PutSecret
<1> HIDE DEF r
<1>6. /\ req' \in [Clients -> Request] /\ req'[c] = r
      /\ \A d \in Clients : d # c => req'[d] = req[d]
  BY <1>1, <1>4, <1>5
<1>7. TypeOK' /\ KeyInv'
  <2>1. \A d \in Clients : req'[d] \in Request
    BY <1>6
  <2>2. TypeOK'
    BY <1>1, <1>3, <2>1 DEF IInv, TypeOK, Request
  <2>3. KeyInv'
    BY <1>1 DEF IInv, KeyInv, DeploymentKey
  <2> QED BY <2>2, <2>3
<1>8. RequestInv'
  <2>1. \E x \in Bodies : req'[c].body = {x}
    BY <1>1, <1>4, <1>6 DEF IInv, RequestInv
  <2>2. \E p \in SUBSET Kinds : /\ req'[c].view = {View(req'[c].mode, req'[c].org, p)}
                                /\ Complete(req'[c].mode, req'[c].org, p)
    <3>1. PICK p \in SUBSET Kinds : /\ req[c].view = {View(req[c].mode, req[c].org, p)}
                                    /\ Complete(req[c].mode, req[c].org, p)
      BY <1>1 DEF IInv, RequestInv
    <3> QED BY <1>4, <1>6, <3>1
  <2> QED BY <1>6, <2>1, <2>2 DEF IInv, RequestInv
<1>9. AloneInv'
  <2> SUFFICES ASSUME NEW d \in Clients, req'[d].alone
               PROVE  /\ req'[d].pc # "none" => Others(d)' = {}
                      /\ req'[d].pc \in Kinds \cup {"mode"} =>
                           /\ req'[d].view = {View(req'[d].mode, req'[d].org,
                                                   {j \in Kinds : WouldBePresent(BodyOf(d), j)'})}
                           /\ \A j \in Done(req'[d].pc) : Has(j)' = WouldBePresent(BodyOf(d), j)'
    BY DEF AloneInv
  <2>1. CASE d = c
    <3>1. /\ req[c].alone /\ Others(c) = {}
          /\ req[c].view = {View(req[c].mode, req[c].org, {j \in Kinds : WouldBePresent(b, j)})}
          /\ \A j \in Done(k) : Has(j) = WouldBePresent(b, j)
      BY <1>1, <1>2, <1>4, <1>6, <2>1 DEF IInv, AloneInv
    <3>2. Others(c)' = {}
      <4>1. Others(c)' = Others(c)
        BY <1>6 DEF Others
      <4> QED BY <3>1, <4>1
    <3>3. BodyOf(c)' = b
      <4>1. BodyOf(c)' = BodyOf(c)
        BY <1>4, <1>6, Zenon DEF BodyOf
      <4> QED BY <1>2, <4>1
    <3>4. \A j \in Kinds : WouldBePresent(BodyOf(c), j)' = WouldBePresent(b, j)
      <4>1. \A j : WouldBePresent(BodyOf(c), j)' = WouldBePresent(b, j)'
        BY <3>3 DEF WouldBePresent
      <4> QED BY <1>3, <4>1
    <3>5. {j \in Kinds : WouldBePresent(BodyOf(c), j)'} = {j \in Kinds : WouldBePresent(b, j)}
      BY <3>4
    <3>6. Done(to) = Done(k) \cup {k} /\ Done(k) \subseteq Kinds /\ k \notin Done(k)
      BY DEF Done, Kinds
    <3>7. \A j \in Done(to) : Has(j)' = WouldBePresent(BodyOf(c), j)'
      BY <1>3, <3>1, <3>4, <3>6
    <3> QED BY <1>4, <1>6, <2>1, <3>1, <3>2, <3>5, <3>7
  <2>2. CASE d # c
    <3>1. req[d].pc = "none"
      <4>1. c \in Others(d)
        BY <1>1, <2>2 DEF Others
      <4> QED BY <1>6, <2>2, <4>1 DEF IInv, AloneInv
    <3> QED BY <1>6, <2>2, <3>1 DEF Kinds
  <2> QED BY <2>1, <2>2
<1> QED BY <1>3, <1>7, <1>8, <1>9 DEF IInv

LEMMA PutPreserves ==
  ASSUME IInv, NEW c \in Clients, Put(c)
  PROVE  IInv'
<1>1. CASE \E b \in Bodies : PutRead(c, b)
  BY <1>1, PutReadPreserves
<1>2. CASE PutCheck(c)
  BY <1>2, PutCheckPreserves
<1>3. CASE \/ PutSecret(c, "license", "client_id")
           \/ PutSecret(c, "client_id", "client_secret")
           \/ PutSecret(c, "client_secret", "mode")
  BY <1>3, PutSecretPreserves DEF Kinds
<1>4. CASE PutMode(c)
  <2>1. account' \in [mode : Modes, org : Options({"org"})]
    BY <1>4 DEF PutMode, IInv, TypeOK
  <2> QED BY <1>4, <2>1, EndPreserves DEF PutMode
<1>5. CASE PutFails(c)
  <2>1. account' \in [mode : Modes, org : Options({"org"})]
    BY <1>5 DEF PutFails, tables, IInv, TypeOK
  <2> QED BY <1>5, <2>1, EndPreserves DEF PutFails, tables
<1> QED BY <1>1, <1>2, <1>3, <1>4, <1>5 DEF Put

LEMMA InitIInv == Init => IInv
<1> SUFFICES ASSUME Init PROVE IInv
  OBVIOUS
<1>1. req \in [Clients -> Request] /\ \A c \in Clients : req[c] = NoReq /\ req[c].pc = "none"
  BY NoReqType DEF Init, NoReq
<1>2. /\ \A S : None \in Options(S)
      /\ "free" \in Modes /\ <<>> \in Seq(Row) /\ 0 \in 0..MaxKeys /\ 0 \in 0..MaxPuts
  BY EmptySeq DEF Options, Modes
<1>3. TypeOK
  BY <1>1, <1>2 DEF Init, TypeOK, Request
<1>4. KeyInv /\ RowsInv
  BY DEF Init, KeyInv, RowsInv
<1>5. RequestInv /\ AloneInv
  BY <1>1 DEF RequestInv, AloneInv, Kinds
<1> QED BY <1>3, <1>4, <1>5 DEF IInv

-----------------------------------------------------------------------------
(***************************************************************************)
(* The theorems.                                                           *)
(***************************************************************************)

\* IInv holds of every behaviour: any crashes, any number of clients and bodies, of
\* load_or_create and update_account.
THEOREM SecretsInvariance == Spec => []IInv
<1>1. IInv /\ [Next]_vars => IInv'
  <2> SUFFICES ASSUME IInv, [Next]_vars PROVE IInv'
    OBVIOUS
  <2>1. CASE LoadKey \/ CreateTmp \/ WriteTmp \/ RenameTmp
    BY <2>1, BootPreserves
  <2>2. CASE Crash
    BY <2>2, CrashPreserves
  <2>3. CASE \E c \in Clients : Put(c)
    BY <2>3, PutPreserves
  <2>4. CASE UNCHANGED vars
    <3>1. RequestInv' /\ AloneInv'
      BY <2>4, BootKeepsRequests DEF vars, tables, IInv
    <3>2. TypeOK' /\ KeyInv' /\ RowsInv'
      BY <2>4 DEF vars, tables, files, IInv, TypeOK, KeyInv, RowsInv, DeploymentKey
    <3> QED BY <3>1, <3>2 DEF IInv
  <2> QED BY <2>1, <2>2, <2>3, <2>4 DEF Next
<1> QED BY <1>1, InitIInv, PTL DEF Spec

\* crypto/ and db/credentials.rs: a server that is up decrypts whatever any earlier one has
\* stored, and reads what was last set, wherever a crash came.
THEOREM SecretsSurvive == Spec => []Inv
<1>1. IInv => Inv
  BY StoredIsReadable DEF IInv, Inv
<1> QED BY <1>1, SecretsInvariance, PTL

\* update_account: the answer of a PUT that no other one overlapped is what a GET says
\* next, also where its last write failed and changed nothing.
LEMMA AnswerStep ==
  ASSUME IInv, [Next]_vars, NEW c \in Clients, req[c].pc = "mode",
         account' = [mode |-> req[c].mode, org |-> req[c].org],
         req'[c].pc = "none", req[c].alone
  PROVE  req[c].view = {Get'} /\ Complete(Get'.mode, Get'.org, Get'.present)
<1>1. "mode" \notin Kinds /\ "mode" \in Kinds \cup {"mode"} /\ Done("mode") = Kinds
  BY DEF Kinds, Done
<1>2. Others(c) = {} /\ \A k \in Kinds : Has(k) = WouldBePresent(BodyOf(c), k)
  BY <1>1 DEF IInv, AloneInv
<1>3. req[c].view = {View(req[c].mode, req[c].org, {k \in Kinds : WouldBePresent(BodyOf(c), k)})}
  BY <1>1 DEF IInv, AloneInv
<1>4. rows' = rows
  <2>1. CASE LoadKey \/ CreateTmp \/ WriteTmp \/ RenameTmp \/ Crash
    BY <2>1 DEF LoadKey, CreateTmp, WriteTmp, RenameTmp, Crash, tables
  <2>2. ASSUME NEW d \in Clients, Put(d) PROVE rows' = rows
    <3>1. d # c => req[d].pc = "none"
      BY <1>2 DEF Others
    <3>2. ASSUME NEW k \in Kinds, NEW to, PutSecret(d, k, to) PROVE FALSE
      <4>1. req[d].pc = k /\ k # "none"
        BY <3>2 DEF PutSecret, Kinds
      <4> QED BY <1>1, <3>1, <4>1
    <3>3. "license" \in Kinds /\ "client_id" \in Kinds /\ "client_secret" \in Kinds
      BY DEF Kinds
    <3> QED BY <2>2, <3>2, <3>3 DEF Put, PutRead, PutCheck, PutMode, PutFails, tables
  <2>3. CASE UNCHANGED vars
    BY <2>3 DEF vars, tables
  <2> QED BY <2>1, <2>2, <2>3 DEF Next
<1> DEFINE there == {k \in Kinds : Has(k)}
<1>5. there = {k \in Kinds : WouldBePresent(BodyOf(c), k)}
  BY <1>2
<1>6. Get' = View(req[c].mode, req[c].org, there)
  <2>1. {k \in Kinds : Has(k)}' = there
    BY <1>4 DEF Has
  <2>2. account'.mode = req[c].mode /\ account'.org = req[c].org
    OBVIOUS
  <2> QED BY <2>1, <2>2 DEF Get, View
<1>7. req[c].view = {Get'}
  BY <1>3, <1>5, <1>6
<1>8. PICK p \in SUBSET Kinds : /\ req[c].view = {View(req[c].mode, req[c].org, p)}
                                /\ Complete(req[c].mode, req[c].org, p)
  BY <1>1 DEF IInv, RequestInv
<1>9. Get' = View(req[c].mode, req[c].org, p)
  BY <1>7, <1>8
<1>10. Get'.mode = req[c].mode /\ Get'.org = req[c].org /\ Get'.present = p
  BY <1>9 DEF View
<1> QED BY <1>7, <1>8, <1>10

\* api/account.rs, update_account: the answer of a PUT that nobody else overlapped is what
\* is stored, and enough for its mode.
THEOREM AnswersAreTruthful == Spec => AnswerTruthful
<1>1. IInv /\ [Next]_vars =>
        [\A c \in Clients :
           /\ req[c].pc = "mode" /\ account' = [mode |-> req[c].mode, org |-> req[c].org]
           /\ req'[c].pc = "none" /\ req[c].alone
           => /\ req[c].view = {Get'}
              /\ Complete(Get'.mode, Get'.org, Get'.present)]_vars
  BY AnswerStep
<1> QED BY <1>1, SecretsInvariance, PTL DEF Spec, AnswerTruthful

=============================================================================
