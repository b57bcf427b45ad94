-------------------------- MODULE PrayerDayProofs --------------------------
(***************************************************************************)
(* What is published for a day, for any places whose sun is SunOK, any     *)
(* configuration that svc_config.c accepts and any uploaded file: it is in *)
(* bounds and in order, the firmware's file and the engine agree,          *)
(* tomorrow's jamats are kept, and none is before its adhan.               *)
(***************************************************************************)
EXTENDS PrayerDay, TLAPS

-----------------------------------------------------------------------------
(* Minutes *)

WholeMinute(t, latest) == t \in Int /\ 0 <= t /\ t <= latest /\ t % 60 = 0

\* The engine's times end with the second day.
EngineTime(t) == WholeMinute(t, 172740)

\* What hours_to_sec() makes of the hours of two days.
LEMMA MinutesOfHours ==
  ASSUME NEW t \in Int, t <= 172740
  PROVE  EngineTime(HoursToSec(t))
<1> DEFINE m == (t + 59) \div 60
           n == 60 * m
<1>1. m \in Int /\ m <= 2879
  BY SMT
<1> HIDE DEF m
<1>2. n \in Int /\ n <= 172740 /\ n % 60 = 0
  BY <1>1, SMT
<1>3. HoursToSec(t) = IF n < 0 THEN 0 ELSE n
  BY <1>2, SMT DEF HoursToSec, Lesser, Greater, DayLength, m
<1> HIDE DEF n
<1> QED BY <1>2, <1>3, SMT DEF EngineTime, WholeMinute

\* It keeps the order, and what lies a minute apart in the first day stays apart.
LEMMA MinutesInOrder ==
  ASSUME NEW s \in Int, NEW t \in Int
  PROVE  /\ s <= t => HoursToSec(s) <= HoursToSec(t)
         /\ 0 <= s /\ s < DayLength /\ s + 60 <= t => HoursToSec(s) < HoursToSec(t)
BY SMT DEF HoursToSec, Lesser, Greater, DayLength

-----------------------------------------------------------------------------
(* Seasons *)

\* A share of a difference lies between nothing and the whole of it.
ShareOf(a, b, w) == (a * b) \div w

PartOf(b, w) == w \in {46, 91} /\ b \in 0 .. w
Share(s, a)  == s \in Int /\ (a >= 0 => 0 <= s /\ s <= a) /\ (a <= 0 => a <= s /\ s <= 0)

\* The sign of a product with a natural number.
LEMMA TimesPart ==
  ASSUME NEW a \in Int, NEW c \in Nat
  PROVE  a * c \in Int /\ (a >= 0 => a * c >= 0) /\ (a <= 0 => a * c <= 0)
  OBVIOUS

\* A part of the night is between none and all of it.
LEMMA ShareBounds ==
  ASSUME NEW a \in Int, NEW b, NEW w, PartOf(b, w)
  PROVE  Share(ShareOf(a, b, w), a)
<1>1. w \in {46, 91} /\ b \in Nat /\ w - b \in Nat /\ b \in Int
  BY DEF PartOf
<1> DEFINE x == a * b
           y == a * (w - b)
<1>2. /\ x \in Int /\ (a >= 0 => x >= 0) /\ (a <= 0 => x <= 0)
      /\ y \in Int /\ (a >= 0 => y >= 0) /\ (a <= 0 => y <= 0)
  BY <1>1, TimesPart
<1>3. ShareOf(a, b, w) = x \div w
  BY DEF ShareOf
<1>4. CASE w = 46
  <2>1. y = a * 46 - x
    BY <1>1, <1>4
  <2> HIDE DEF x, y
  <2>2. Share(x \div 46, a)
    BY <1>2, <2>1, SMT DEF Share
  <2> QED BY <1>3, <1>4, <2>2
<1>5. CASE w = 91
  <2>1. y = a * 91 - x
    BY <1>1, <1>5
  <2> HIDE DEF x, y
  <2>2. Share(x \div 91, a)
    BY <1>2, <2>1, SMT DEF Share
  <2> QED BY <1>3, <1>5, <2>2
<1> QED BY <1>1, <1>4, <1>5

\* interpolate_season() stays between the bounds of what it interpolates.
LEMMA InterpolatedBetween ==
  ASSUME NEW v, NEW lo \in Int, NEW hi \in Int, NEW dyy \in 0 .. 366,
         \A k \in 1 .. 7 : v[k] \in Int /\ lo <= v[k] /\ v[k] <= hi
  PROVE  Interpolated(v, dyy) \in Int /\ lo <= Interpolated(v, dyy) /\ Interpolated(v, dyy) <= hi
<1> DEFINE bound == <<0, 91, 137, 183, 229, 275, 366>>
           Of(i) == bound[i] <= dyy /\ (i = 6 \/ dyy < bound[i + 1])
           k == CHOOSE i \in 1 .. 6 : Of(i)
           width == IF k \in {1, 6} THEN 91 ELSE 46
<1>1. \E i \in 1 .. 6 : Of(i)
  OBVIOUS
<1>2. k \in 1 .. 6 /\ Of(k)
  BY <1>1
<1> HIDE DEF k
<1>3. width \in {46, 91} /\ dyy - bound[k] \in 0 .. width
  BY <1>2
<1>4. k + 1 \in 1 .. 7 /\ v[k] \in Int /\ lo <= v[k] /\ v[k] <= hi
        /\ v[k + 1] \in Int /\ lo <= v[k + 1] /\ v[k + 1] <= hi
  BY <1>2
<1> DEFINE a == v[k + 1] - v[k]
           b == dyy - bound[k]
           share == ShareOf(a, b, width)
<1>5. Interpolated(v, dyy) = v[k] + share
  BY DEF Interpolated, k, ShareOf
<1>6. a \in Int /\ v[k] + a = v[k + 1]
  BY <1>4
<1>7. PartOf(b, width)
  BY <1>3 DEF PartOf
<1> HIDE DEF width, a, b
<1>8. Share(share, a)
  BY <1>6, <1>7, ShareBounds
<1> HIDE DEF share
<1> QED BY <1>4, <1>5, <1>6, <1>8 DEF Share

\* A slope of the seasonal adjustment, over every latitude.
LEMMA SlopeBounds ==
  ASSUME NEW x \in 0 .. 900, NEW s \in Int, s + 921 >= 0, s <= 4810
  PROVE  LET v == 75 * 55000 + s * x IN v \in Int /\ 3000000 <= v /\ v <= 9000000
<1>1. (s + 921) * x >= 0 /\ (4810 - s) * x >= 0
  <2>1. x \in Nat /\ s + 921 \in Int /\ 4810 - s \in Int /\ 4810 - s >= 0
    OBVIOUS
  <2> QED BY <2>1, TimesPart
<1> DEFINE y == s * x
<1>2. (s + 921) * x = y + 921 * x /\ (4810 - s) * x = 4810 * x - y /\ y \in Int
  BY SMT
<1> HIDE DEF y
<1>3. 3000000 <= 75 * 55000 + y /\ 75 * 55000 + y <= 9000000 /\ 75 * 55000 + y \in Int
  <2>1. x \in Int /\ 921 * x <= 828900 /\ 4810 * x <= 4329000 /\ 75 * 55000 = 4125000
    BY SMT
  <2>2. y + 828900 >= 0 /\ y <= 4329000
    BY <1>1, <1>2, <2>1, SMT
  <2> QED BY <1>2, <2>1, <2>2, SMT
<1> QED BY <1>3, SMT DEF y

Latitude(lat) == lat \in Int /\ Abs(lat) <= 900

\* Of the seasonal bounds, both are at least fifty minutes and at most three hours.
SeasonBound(by) == by \in Int /\ 3000 <= by /\ by <= 10800

\* The seasonal adjustment between its pieces stays within the bounds of a slope.
LEMMA SeasonAdjustBounds ==
  ASSUME NEW slopes, slopes = FajrSlopes \/ slopes = IshaSlopes, NEW lat, Latitude(lat), NEW dyy \in 0 .. 366
  PROVE  SeasonBound(SeasonAdjust(slopes, lat, dyy))
<1> DEFINE x == Abs(lat)
           At(k) == 75 * 55000 + slopes[k] * x
           at == [k \in 1 .. 4 |-> At(k)]
           v  == <<at[1], at[2], at[3], at[4], at[3], at[2], at[1]>>
           Fits(n) == n \in Int /\ 3000000 <= n /\ n <= 9000000
<1>1. x \in 0 .. 900
  BY SMT DEF Abs, Latitude
<1>2. \A k \in 1 .. 4 : slopes[k] \in Int /\ slopes[k] + 921 >= 0 /\ slopes[k] <= 4810
  BY SMT DEF FajrSlopes, IshaSlopes
<1>3. \A k \in 1 .. 4 : Fits(At(k))
  <2> TAKE k \in 1 .. 4
  <2> DEFINE s == slopes[k]
  <2>1. s \in Int /\ s + 921 >= 0 /\ s <= 4810
    BY <1>2
  <2> HIDE DEF s, x
  <2>2. LET n == 75 * 55000 + s * x IN n \in Int /\ 3000000 <= n /\ n <= 9000000
    BY <1>1, <2>1, SlopeBounds
  <2> QED BY <2>2 DEF s
<1> HIDE DEF At, x, Fits
<1>4. \A k \in 1 .. 7 : Fits(v[k])
  <2>1. Fits(at[1]) /\ Fits(at[2]) /\ Fits(at[3]) /\ Fits(at[4])
    BY <1>3
  <2> HIDE DEF at
  <2> QED BY <2>1
<1> HIDE DEF v
<1> DEFINE lo == 3000000
           hi == 9000000
<1>5. lo \in Int /\ hi \in Int
  BY SMT
<1>6. \A k \in 1 .. 7 : v[k] \in Int /\ lo <= v[k] /\ v[k] <= hi
  BY <1>4 DEF Fits
<1>7. Interpolated(v, dyy) \in Int /\ lo <= Interpolated(v, dyy) /\ Interpolated(v, dyy) <= hi
  <2> HIDE DEF lo, hi
  <2> QED BY <1>5, <1>6, InterpolatedBetween, Zenon
<1>8. SeasonAdjust(slopes, lat, dyy) = (Interpolated(v, dyy) * 60 + 27500) \div 55000
  BY SMT DEF SeasonAdjust, v, At, x
<1> QED BY <1>7, <1>8, SMT DEF SeasonBound

\* The days since the solstice stay within a year, in either hemisphere.
LEMMA SolsticeDays ==
  ASSUME NEW d \in [y : Nat, m : 1 .. 12, d : 1 .. 31], NEW lat \in Int
  PROVE  DaysSinceSolstice(d, lat) \in 0 .. 366
<1> DEFINE before == <<0, 31, 59, 90, 120, 151, 181, 212, 243, 273, 304, 334>>
           Day(x) == x + d.d + (IF Leap(d.y) /\ d.m > 2 THEN 1 ELSE 0)
<1>1. before[d.m] \in Int
  BY SMT
<1> HIDE DEF before
<1>2. Day(before[d.m]) \in Int
  BY <1>1, SMT
<1>3. \A n \in Int : n % 365 \in 0 .. 366 /\ n % 366 \in 0 .. 366
  BY SMT
<1> DEFINE n == Day(before[d.m])
           days == IF lat >= 0 THEN n + 10 ELSE n - (IF Leap(d.y) THEN 173 ELSE 172)
           year == IF Leap(d.y) THEN 366 ELSE 365
<1>4. DaysSinceSolstice(d, lat) = days % year
  BY DEF DaysSinceSolstice, before, Day
<1>5. n \in Int
  BY <1>2
<1> HIDE DEF Day, n
<1>6. days \in Int
  BY <1>5
<1> HIDE DEF days
<1>7. days % year \in 0 .. 366
  <2>1. CASE Leap(d.y)
    BY <1>3, <1>6, <2>1
  <2>2. CASE ~ Leap(d.y)
    BY <1>3, <1>6, <2>2
  <2> QED BY <2>1, <2>2
<1> QED BY <1>4, <1>7

-----------------------------------------------------------------------------
(* Twilight *)

Angles == {0, 140, 150, 160, 170, 175, 180, 185, 195}

MethodOK(m) ==
  /\ m.fajr \in Angles \ {0} /\ m.isha \in Angles /\ m.maghrib \in {0, 40} /\ m.moon \in BOOLEAN
  /\ m.interval \in {0, 90} /\ (m.moon \/ m.interval = 90 => m.maghrib = 0)

\* Every method of the table is well formed.
LEMMA MethodFacts == \A name \in DOMAIN Methods : MethodOK(Methods[name])
<1>1. DOMAIN Methods = {"MWL", "ISNA", "EGYPTIAN", "KARACHI", "UMM_AL_QURA", "JAFARIA", "MOONSIGHTING"}
  BY DEF Methods
<1>2. MethodOK(Methods["MWL"])
  <2>1. Methods["MWL"] = [fajr |-> 180, isha |-> 170, interval |-> 0, maghrib |-> 0, moon |-> FALSE]
    BY DEF Methods
  <2> QED BY <2>1 DEF MethodOK, Angles
<1>3. MethodOK(Methods["ISNA"])
  <2>1. Methods["ISNA"] = [fajr |-> 150, isha |-> 150, interval |-> 0, maghrib |-> 0, moon |-> FALSE]
    BY DEF Methods
  <2> QED BY <2>1 DEF MethodOK, Angles
<1>4. MethodOK(Methods["EGYPTIAN"])
  <2>1. Methods["EGYPTIAN"] = [fajr |-> 195, isha |-> 175, interval |-> 0, maghrib |-> 0, moon |-> FALSE]
    BY DEF Methods
  <2> QED BY <2>1 DEF MethodOK, Angles
<1>5. MethodOK(Methods["KARACHI"])
  <2>1. Methods["KARACHI"] = [fajr |-> 180, isha |-> 180, interval |-> 0, maghrib |-> 0, moon |-> FALSE]
    BY DEF Methods
  <2> QED BY <2>1 DEF MethodOK, Angles
<1>6. MethodOK(Methods["UMM_AL_QURA"])
  <2>1. Methods["UMM_AL_QURA"] = [fajr |-> 185, isha |-> 0, interval |-> 90, maghrib |-> 0, moon |-> FALSE]
    BY DEF Methods
  <2> QED BY <2>1 DEF MethodOK, Angles
<1>7. MethodOK(Methods["JAFARIA"])
  <2>1. Methods["JAFARIA"] = [fajr |-> 160, isha |-> 140, interval |-> 0, maghrib |-> 40, moon |-> FALSE]
    BY DEF Methods
  <2> QED BY <2>1 DEF MethodOK, Angles
<1>8. MethodOK(Methods["MOONSIGHTING"])
  <2>1. Methods["MOONSIGHTING"] = [fajr |-> 180, isha |-> 180, interval |-> 0, maghrib |-> 0, moon |-> TRUE]
    BY DEF Methods
  <2> QED BY <2>1 DEF MethodOK, Angles
<1> QED BY <1>1, <1>2, <1>3, <1>4, <1>5, <1>6, <1>7, <1>8

\* A portion is at most half of the night, and no less than a minute of one of seven minutes.
LEMMA PortionBounds ==
  ASSUME NEW r, NEW angle \in Angles, NEW night \in Int, 0 <= night
  PROVE  LET part == Portion(r, night, angle) IN
           part \in Int /\ 0 <= part /\ 2 * part <= night /\ (night >= 420 /\ part > 0 => part >= 60)
<1>1. CASE r = "MIDDLE_NIGHT"
  BY <1>1, SMT DEF Portion
<1>2. CASE r = "SEVENTH"
  BY <1>2, SMT DEF Portion
<1>3. CASE r = "ANGLE_BASED"
  <2>1. Portion(r, night, angle) = (night * angle) \div 600
    BY <1>3 DEF Portion
  <2>2. angle = 0 \/ angle = 140 \/ angle = 150 \/ angle = 160 \/ angle = 170 \/ angle = 175 \/ angle = 180
        \/ angle = 185 \/ angle = 195
    BY DEF Angles
  <2> QED BY <2>1, <2>2, SMT
<1>4. CASE r \notin {"MIDDLE_NIGHT", "SEVENTH", "ANGLE_BASED"}
  BY <1>4, SMT DEF Portion
<1> QED BY <1>1, <1>2, <1>3, <1>4

\* Where Twilight() puts Maghrib, Fajr and Isha, and that it keeps them apart.
TwilightOK(s, t) ==
  /\ t.maghrib \in Int /\ s.set <= t.maghrib
  /\ t.fajr # None => t.fajr \in Int /\ t.fajr <= s.rise
  /\ t.isha # None => /\ t.isha \in Int /\ t.maghrib <= t.isha
                      /\ t.isha <= t.maghrib + 46800 /\ t.isha <= s.set + 82800
  /\ Apart(s) => /\ t.fajr # None => t.fajr + 60 <= s.rise
                 /\ t.isha # None => t.maghrib + 60 <= t.isha

\* Whatever rule replaces Fajr and Isha, they are on their side of the night.
LEMMA TwilightBounds ==
  ASSUME NEW s, SunOK(s), s.rise # None, s.set # None,
         NEW date \in [y : Nat, m : 1 .. 12, d : 1 .. 31], NEW name \in DOMAIN Methods, NEW r
  PROVE  TwilightOK(s, Twilight(s, date, Methods[name], r))
<1> DEFINE m == Methods[name]
           night == DayLength - (s.set - s.rise)
           fajrPart == Portion(r, night, m.fajr)
           ishaPart == IF m.interval = 0 THEN Portion(r, night, m.isha) ELSE 0
           maghrib  == IF m.maghrib > 0 /\ s.maghrib # None THEN s.maghrib ELSE s.set
           angled   == IF m.interval > 0 THEN maghrib + 60 * m.interval ELSE s.isha
           fajr == IF fajrPart > 0 /\ (s.fajr = None \/ s.rise - s.fajr > fajrPart)
                   THEN s.rise - fajrPart ELSE s.fajr
           isha == IF ishaPart > 0 /\ (angled = None \/ angled - maghrib > ishaPart)
                   THEN maghrib + ishaPart ELSE angled
           dyy  == DaysSinceSolstice(date, s.lat)
           safeFajr == SeasonAdjust(FajrSlopes, s.lat, dyy)
           safeIsha == SeasonAdjust(IshaSlopes, s.lat, dyy)
           t == Twilight(s, date, Methods[name], r)
<1>1. t = [maghrib |-> maghrib,
           fajr |-> IF m.moon /\ (fajr = None \/ s.rise - safeFajr > fajr) THEN s.rise - safeFajr ELSE fajr,
           isha |-> IF m.moon /\ (isha = None \/ s.set + safeIsha < isha) THEN s.set + safeIsha ELSE isha]
  BY DEF Twilight
<1>2. /\ s.rise \in Int /\ s.set \in Int /\ s.rise <= s.set /\ s.set <= s.rise + 86400
      /\ s.fajr # None => s.fajr \in Int /\ s.fajr <= s.rise
      /\ s.maghrib # None => s.maghrib \in Int /\ s.set <= s.maghrib /\ s.maghrib <= s.set + 39600
      /\ s.isha # None => s.isha \in Int /\ s.set <= s.isha /\ s.isha <= s.set + 46800
      /\ s.maghrib # None /\ s.isha # None => s.maghrib <= s.isha
  BY SMT DEF SunOK, DayLength
<1>3. /\ m.fajr \in Angles \ {0} /\ m.isha \in Angles /\ m.maghrib \in {0, 40} /\ m.moon \in BOOLEAN
      /\ m.interval \in {0, 90} /\ (m.moon \/ m.interval = 90 => m.maghrib = 0)
  BY MethodFacts DEF MethodOK
<1>4. night \in Int /\ 0 <= night /\ night <= 86400
  BY <1>2, SMT DEF DayLength
<1>5. Apart(s) => /\ night >= 420 /\ (s.fajr # None => s.fajr + 60 <= s.rise)
                  /\ s.isha # None => s.isha >= 60 + (IF s.maghrib = None THEN s.set ELSE s.maghrib)
  BY <1>2, SMT DEF Apart, DayLength
<1> HIDE DEF m, night
<1>6. /\ fajrPart \in Int /\ 0 <= fajrPart /\ 2 * fajrPart <= night
      /\ night >= 420 /\ fajrPart > 0 => fajrPart >= 60
  BY <1>3, <1>4, PortionBounds
<1>7. /\ ishaPart \in Int /\ 0 <= ishaPart /\ 2 * ishaPart <= night
      /\ night >= 420 /\ ishaPart > 0 => ishaPart >= 60
  BY <1>3, <1>4, PortionBounds
<1>8. /\ safeFajr \in Int /\ 3000 <= safeFajr /\ safeFajr <= 10800
      /\ safeIsha \in Int /\ 3000 <= safeIsha /\ safeIsha <= 10800
  <2>1. Latitude(s.lat)
    BY DEF SunOK, Latitude
  <2>2. dyy \in 0 .. 366
    BY <2>1, SolsticeDays DEF Latitude
  <2> HIDE DEF dyy
  <2>3. SeasonBound(safeFajr) /\ SeasonBound(safeIsha)
    BY <2>1, <2>2, SeasonAdjustBounds
  <2> QED BY <2>3 DEF SeasonBound
<1> HIDE DEF fajrPart, ishaPart, safeFajr, safeIsha, t
<1>9. maghrib \in Int /\ s.set <= maghrib /\ maghrib <= s.set + 39600
  BY <1>2, SMT
<1>10. m.moon => maghrib = s.set
  BY <1>3
<1>11. angled # None => /\ angled \in Int /\ maghrib <= angled /\ angled <= maghrib + 46800
                        /\ angled <= s.set + 46800 /\ (Apart(s) => maghrib + 60 <= angled)
  <2>1. CASE m.interval = 90
    BY <1>2, <1>3, <2>1, SMT
  <2>2. CASE m.interval = 0
    BY <1>2, <1>3, <1>5, <2>2, SMT
  <2> QED BY <1>3, <2>1, <2>2
<1>12. fajr # None => fajr \in Int /\ fajr <= s.rise /\ (Apart(s) => fajr + 60 <= s.rise)
  BY <1>2, <1>5, <1>6, SMT
<1> HIDE DEF maghrib, angled, fajr
<1>13. isha # None => /\ isha \in Int /\ maghrib <= isha /\ isha <= maghrib + 46800
                      /\ isha <= s.set + 82800 /\ (Apart(s) => maghrib + 60 <= isha)
  <2>0. \/ isha = angled
        \/ isha = maghrib + ishaPart /\ ishaPart > 0 /\ (angled = None \/ angled - maghrib > ishaPart)
    OBVIOUS
  <2> HIDE DEF isha
  <2>1. CASE isha = angled
    BY <1>2, <1>11, <2>1, SMT
  <2>2. CASE isha = maghrib + ishaPart /\ ishaPart > 0 /\ (angled = None \/ angled - maghrib > ishaPart)
    <3>1. maghrib + ishaPart \in Int /\ maghrib <= maghrib + ishaPart /\ ishaPart <= 43200
      BY <1>4, <1>7, <1>9, SMT
    <3>2. ishaPart <= 46800 /\ maghrib + ishaPart <= s.set + 82800
      BY <1>2, <1>7, <1>9, <3>1, SMT
    <3>3. Apart(s) => ishaPart >= 60
      BY <1>5, <1>7, <2>2
    <3> QED BY <1>7, <1>9, <2>2, <3>1, <3>2, <3>3, SMT
  <2> QED BY <2>0, <2>1, <2>2
<1> HIDE DEF isha
<1>14. /\ t.maghrib = maghrib
       /\ t.fajr # None => t.fajr \in Int /\ t.fajr <= s.rise /\ (Apart(s) => t.fajr + 60 <= s.rise)
  BY <1>1, <1>2, <1>8, <1>12, SMT
<1>15. t.isha # None => /\ t.isha \in Int /\ maghrib <= t.isha /\ t.isha <= maghrib + 46800
                        /\ t.isha <= s.set + 82800 /\ (Apart(s) => maghrib + 60 <= t.isha)
  BY <1>1, <1>2, <1>8, <1>9, <1>10, <1>13, SMT
<1> QED BY <1>9, <1>14, <1>15, SMT DEF t, TwilightOK

-----------------------------------------------------------------------------
(* The engine *)

Wrap(s, x) == (x + Shift(s)) % DayLength

\* Wrapping brings a time into the local day, and no more than shifts one that is in it.
LEMMA WrapFacts ==
  ASSUME NEW s, SunOK(s), NEW x \in Int
  PROVE  /\ Shift(s) \in Int /\ Wrap(s, x) \in Int /\ 0 <= Wrap(s, x) /\ Wrap(s, x) < DayLength
         /\ 0 <= x + Shift(s) /\ x + Shift(s) < DayLength => Wrap(s, x) = x + Shift(s)
<1>1. Shift(s) \in Int
  BY DEF SunOK, Shift
<1> DEFINE y == x + Shift(s)
<1>2. y \in Int
  BY <1>1
<1> HIDE DEF y
<1>3. y % 86400 \in Int /\ 0 <= y % 86400 /\ y % 86400 < 86400 /\ (0 <= y /\ y < 86400 => y % 86400 = y)
  BY <1>2, SMT
<1> QED BY <1>1, <1>3, SMT DEF Wrap, DayLength, y

\* Midnight is no earlier than Isha, and less than a day after sunset.
LEMMA MidnightBounds ==
  ASSUME NEW s, NEW fajr \in Int, NEW isha \in Int, s.set \in Int, fajr <= s.set, isha <= s.set + 82800
  PROVE  LET midnight == IslamicMidnight(s, fajr, isha) IN
           midnight \in Int /\ isha <= midnight /\ midnight <= s.set + 82800
<1> DEFINE half == s.set + (fajr + DayLength - s.set) \div 2
<1>1. half \in Int /\ half <= s.set + 43200
  BY SMT DEF DayLength
<1> HIDE DEF half
<1>2. IslamicMidnight(s, fajr, isha) = IF half < isha THEN isha ELSE half
  BY NoneOK DEF IslamicMidnight, half
<1> QED BY <1>1, <1>2, SMT

\* The fields of the engine's result, before and after they are put in minutes.
Hours(s, t) ==
  [fajr |-> Wrap(s, t.fajr), sunrise |-> Wrap(s, s.rise), dhuhr |-> Wrap(s, s.mid), asr |-> Wrap(s, s.asr),
   sunset |-> Wrap(s, s.set), maghrib |-> Wrap(s, t.maghrib),
   isha |-> Wrap(s, t.maghrib) + t.isha - t.maghrib,
   midnight |-> Wrap(s, s.set) + IslamicMidnight(s, t.fajr, t.isha) - s.set]
Events == {"fajr", "sunrise", "dhuhr", "asr", "sunset", "maghrib", "isha", "midnight"}

\* The engine gives times only if it has all of them, and those are the ones wrapped and rounded.
LEMMA EngineFields ==
  ASSUME NEW s, SunOK(s), NEW date \in [y : Nat, m : 1 .. 12, d : 1 .. 31], NEW name \in DOMAIN Methods,
         NEW r, Engine(s, date, name, r) # None
  PROVE  LET raw == Engine(s, date, name, r)
             m == Methods[name]
             t == Twilight(s, date, m, Effective(r, s.lat, m))
         IN  /\ s.rise # None /\ s.set # None /\ s.asr # None /\ t.fajr # None /\ t.isha # None
             /\ \A e \in Events : raw[e] = HoursToSec(Hours(s, t)[e])
             /\ raw.yellow = None \/ (s.yellow # None /\ raw.yellow = HoursToSec(Wrap(s, s.yellow)))
<1> DEFINE raw == Engine(s, date, name, r)
           m == Methods[name]
           t == Twilight(s, date, m, Effective(r, s.lat, m))
           c == Calculate(s, date, name, r)
<1>1. c # None /\ raw = [e \in DOMAIN c |-> IF e = "yellow" /\ c[e] = None THEN None ELSE HoursToSec(c[e])]
  BY DEF Engine
<1>2. s.rise # None /\ s.set # None /\ s.asr # None /\ t.fajr # None /\ t.isha # None
  BY <1>1, Zenon DEF Calculate
<1>3. /\ {s.rise, s.set, s.mid, s.asr, t.fajr, t.maghrib} \subseteq Int
      /\ s.yellow = None \/ s.yellow \in Int
  <2>1. TwilightOK(s, t)
    BY <1>2, TwilightBounds
  <2> HIDE DEF t
  <2> QED BY <1>2, <2>1 DEF SunOK, TwilightOK
<1> DEFINE Given(x) == IF x = None THEN None ELSE Wrapped(x + s.ahead + 60 * s.tz)
<1>4. \A x \in Int : Given(x) = Wrap(s, x)
  <2> TAKE x \in Int
  <2>1. x # None /\ x + s.ahead + 60 * s.tz \in Int /\ x + s.ahead + 60 * s.tz # None
    BY NoneOK DEF SunOK
  <2>2. x + s.ahead + 60 * s.tz = x + Shift(s)
    BY DEF SunOK, Shift
  <2> QED BY <2>1, <2>2 DEF Wrapped, Wrap
<1>5. c = [fajr |-> Given(t.fajr), sunrise |-> Given(s.rise), dhuhr |-> Given(s.mid),
           asr |-> Given(s.asr), yellow |-> Given(s.yellow), sunset |-> Given(s.set),
           maghrib |-> Given(t.maghrib), isha |-> Given(t.maghrib) + t.isha - t.maghrib,
           midnight |-> Given(s.set) + IslamicMidnight(s, t.fajr, t.isha) - s.set]
  BY <1>1, Zenon DEF Calculate
<1> HIDE DEF Given, c, raw, t, m
<1>6. \A e \in Events : c[e] = Hours(s, t)[e] /\ raw[e] = HoursToSec(c[e])
  BY <1>1, <1>3, <1>4, <1>5 DEF Events, Hours
<1>7. raw.yellow = None \/ (s.yellow # None /\ raw.yellow = HoursToSec(Wrap(s, s.yellow)))
  <2>1. CASE s.yellow = None
    BY <1>1, <1>5, <2>1 DEF Given
  <2>2. CASE s.yellow # None
    BY <1>1, <1>3, <1>4, <1>5, <2>2
  <2> QED BY <2>1, <2>2
<1> QED BY <1>2, <1>6, <1>7 DEF raw, t, m

\* Every time of the engine is a whole minute of two days.
LEMMA EngineTimes ==
  ASSUME NEW s, SunOK(s), NEW date \in [y : Nat, m : 1 .. 12, d : 1 .. 31], NEW name \in DOMAIN Methods,
         NEW r, Engine(s, date, name, r) # None
  PROVE  LET raw == Engine(s, date, name, r) IN
           (\A e \in Events : EngineTime(raw[e])) /\ (raw.yellow = None \/ EngineTime(raw.yellow))
<1> DEFINE raw == Engine(s, date, name, r)
           m == Methods[name]
           t == Twilight(s, date, m, Effective(r, s.lat, m))
           Fits(x) == x \in Int /\ x <= 172740
<1>1. /\ s.rise # None /\ s.set # None /\ s.asr # None /\ t.fajr # None /\ t.isha # None
      /\ \A e \in Events : raw[e] = HoursToSec(Hours(s, t)[e])
      /\ raw.yellow = None \/ (s.yellow # None /\ raw.yellow = HoursToSec(Wrap(s, s.yellow)))
  BY EngineFields
<1>2. TwilightOK(s, t)
  BY <1>1, TwilightBounds
<1> HIDE DEF raw, m, t
<1>3. /\ {s.rise, s.set, s.mid, s.asr, t.fajr, t.maghrib, t.isha} \subseteq Int
      /\ t.isha <= t.maghrib + 46800 /\ t.isha <= s.set + 82800 /\ t.fajr <= s.rise /\ s.rise <= s.set
      /\ s.yellow # None => s.yellow \in Int
  BY <1>1, <1>2 DEF SunOK, TwilightOK
<1>4. \A x \in Int : Wrap(s, x) \in Int /\ Wrap(s, x) < 86400
  BY WrapFacts DEF DayLength
<1>5. LET midnight == IslamicMidnight(s, t.fajr, t.isha) IN
        midnight \in Int /\ t.isha <= midnight /\ midnight <= s.set + 82800
  BY <1>3, MidnightBounds
<1>6. Fits(Wrap(s, t.maghrib) + t.isha - t.maghrib)
  BY <1>3, <1>4, SMT
<1>7. Fits(Wrap(s, s.set) + IslamicMidnight(s, t.fajr, t.isha) - s.set)
  BY <1>3, <1>4, <1>5, SMT
<1>8. \A x \in Int : Fits(Wrap(s, x))
  BY <1>4, SMT
<1> HIDE DEF Fits
<1>9. \A e \in Events : Fits(Hours(s, t)[e])
  BY <1>3, <1>6, <1>7, <1>8 DEF Events, Hours
<1>10. \A x : Fits(x) => EngineTime(HoursToSec(x))
  BY MinutesOfHours DEF Fits
<1>11. raw.yellow = None \/ EngineTime(raw.yellow)
  BY <1>1, <1>3, <1>8, <1>10
<1> QED BY <1>1, <1>9, <1>10, <1>11 DEF raw

\* On a day of the civil clock they come in their order.
LEMMA EngineOrder ==
  ASSUME NEW s, SunOK(s), NEW date \in [y : Nat, m : 1 .. 12, d : 1 .. 31], NEW name \in DOMAIN Methods,
         NEW r, Engine(s, date, name, r) # None, Apart(s),
         LET m == Methods[name]  t == Twilight(s, date, m, Effective(r, s.lat, m)) IN
           t.fajr + Shift(s) >= 0 /\ t.maghrib + Shift(s) < DayLength
  PROVE  LET raw == Engine(s, date, name, r) IN
           /\ raw.fajr < raw.sunrise /\ raw.sunrise < raw.dhuhr /\ raw.dhuhr < raw.asr
           /\ raw.asr < raw.sunset /\ raw.sunset <= raw.maghrib
           /\ raw.maghrib < raw.isha /\ raw.isha <= raw.midnight
<1> DEFINE raw == Engine(s, date, name, r)
           m == Methods[name]
           t == Twilight(s, date, m, Effective(r, s.lat, m))
           h == Hours(s, t)
<1>1. /\ s.rise # None /\ s.set # None /\ s.asr # None /\ t.fajr # None /\ t.isha # None
      /\ \A e \in Events : raw[e] = HoursToSec(h[e])
  BY EngineFields
<1>2. TwilightOK(s, t)
  BY <1>1, TwilightBounds
<1>3. t.fajr + Shift(s) >= 0 /\ t.maghrib + Shift(s) < DayLength
  OBVIOUS
<1> HIDE DEF raw, m, t
<1>4. /\ {s.rise, s.set, s.mid, s.asr, t.fajr, t.maghrib, t.isha} \subseteq Int
      /\ t.fajr + 60 <= s.rise /\ s.rise + 60 <= s.mid /\ s.mid + 60 <= s.asr /\ s.asr + 60 <= s.set
      /\ s.set <= t.maghrib /\ t.maghrib + 60 <= t.isha /\ t.isha <= s.set + 82800
  BY <1>1, <1>2 DEF SunOK, TwilightOK, Apart
<1>5. LET midnight == IslamicMidnight(s, t.fajr, t.isha) IN midnight \in Int /\ t.isha <= midnight
  <2>1. t.fajr <= s.set
    BY <1>4
  <2> QED BY <1>4, <2>1, MidnightBounds
<1>6. \A x \in {t.fajr, s.rise, s.mid, s.asr, s.set, t.maghrib} :
        Wrap(s, x) = x + Shift(s) /\ x + Shift(s) \in Int /\ 0 <= x + Shift(s) /\ x + Shift(s) < DayLength
  <2> TAKE x \in {t.fajr, s.rise, s.mid, s.asr, s.set, t.maghrib}
  <2>1. x \in Int /\ t.fajr <= x /\ x <= t.maghrib
    BY <1>4
  <2>2. Shift(s) \in Int /\ DayLength \in Int
    BY <2>1, WrapFacts DEF DayLength
  <2>3. 0 <= x + Shift(s) /\ x + Shift(s) < DayLength
    <3> HIDE DEF DayLength
    <3> QED BY <1>3, <1>4, <2>1, <2>2
  <2> QED BY <2>1, <2>2, <2>3, WrapFacts
<1>7. /\ h.fajr = t.fajr + Shift(s) /\ h.sunrise = s.rise + Shift(s) /\ h.dhuhr = s.mid + Shift(s)
      /\ h.asr = s.asr + Shift(s) /\ h.sunset = s.set + Shift(s) /\ h.maghrib = t.maghrib + Shift(s)
      /\ h.isha = t.maghrib + Shift(s) + t.isha - t.maghrib
      /\ h.midnight = s.set + Shift(s) + IslamicMidnight(s, t.fajr, t.isha) - s.set
  BY <1>6 DEF Hours
<1>8. Shift(s) \in Int
  BY <1>4, WrapFacts
<1> HIDE DEF h
<1>9. \A e \in Events : h[e] \in Int
  BY <1>4, <1>5, <1>7, <1>8 DEF Events
<1>10. \A e \in {"fajr", "sunrise", "dhuhr", "asr", "maghrib"} : 0 <= h[e] /\ h[e] < DayLength
  BY <1>6, <1>7
<1>11. /\ h.fajr + 60 <= h.sunrise /\ h.sunrise + 60 <= h.dhuhr /\ h.dhuhr + 60 <= h.asr
       /\ h.asr + 60 <= h.sunset /\ h.sunset <= h.maghrib /\ h.maghrib + 60 <= h.isha /\ h.isha <= h.midnight
  BY <1>4, <1>5, <1>7, <1>8
<1> DEFINE Sec(e) == HoursToSec(h[e])
<1>12. /\ Sec("fajr") < Sec("sunrise") /\ Sec("sunrise") < Sec("dhuhr") /\ Sec("dhuhr") < Sec("asr")
       /\ Sec("asr") < Sec("sunset") /\ Sec("sunset") <= Sec("maghrib")
       /\ Sec("maghrib") < Sec("isha") /\ Sec("isha") <= Sec("midnight")
  BY <1>9, <1>10, <1>11, MinutesInOrder DEF Events
<1> QED BY <1>1, <1>12 DEF raw, Events

-----------------------------------------------------------------------------
(* The two days *)

DateOK == [y : Nat, m : 1 .. 12, d : 1 .. 31]

\* The day after a date is a date, and another.
LEMMA NextDayFacts ==
  ASSUME NEW d \in DateOK
  PROVE  NextDay(d) \in DateOK /\ NextDay(d) # d
<1>1. DaysInMonth(d.y, d.m) \in 28 .. 31
  BY DEF DaysInMonth, DateOK
<1>2. CASE d.d < DaysInMonth(d.y, d.m)
  <2>1. NextDay(d) = [y |-> d.y, m |-> d.m, d |-> d.d + 1] /\ d.d + 1 \in 1 .. 31
    BY <1>1, <1>2 DEF NextDay, DateOK
  <2> QED BY <2>1 DEF DateOK
<1>3. CASE ~(d.d < DaysInMonth(d.y, d.m)) /\ d.m < 12
  <2>1. NextDay(d) = [y |-> d.y, m |-> d.m + 1, d |-> 1] /\ d.m + 1 \in 1 .. 12
    BY <1>3 DEF NextDay, DateOK
  <2> QED BY <2>1 DEF DateOK
<1>4. CASE ~(d.d < DaysInMonth(d.y, d.m)) /\ ~(d.m < 12)
  <2>1. NextDay(d) = [y |-> d.y + 1, m |-> 1, d |-> 1]
    BY <1>4 DEF NextDay, DateOK
  <2> QED BY <2>1 DEF DateOK
<1> QED BY <1>2, <1>3, <1>4

\* In a year a MM-DD key is of one date.
LEMMA OneDate ==
  ASSUME NEW d \in DateOK, NEW e \in DateOK, d.y = e.y, MonthDay(d) = MonthDay(e)
  PROVE  d = e
<1>1. d.m = e.m /\ d.d = e.d
  <2> DEFINE m == d.m
             n == e.m
             i == d.d
             j == e.d
  <2>1. m \in 1 .. 12 /\ n \in 1 .. 12 /\ i \in 1 .. 31 /\ j \in 1 .. 31
    BY DEF DateOK
  <2>2. m * 100 + i = n * 100 + j
    BY DEF MonthDay
  <2> HIDE DEF m, n, i, j
  <2>3. m = n /\ i = j
    BY <2>1, <2>2
  <2> QED BY <2>3 DEF m, n, i, j
<1>2. \A x \in DateOK : x = [y |-> x.y, m |-> x.m, d |-> x.d]
  BY DEF DateOK
<1> QED BY <1>1, <1>2

\* What is fixed at the start.
Settled ==
  /\ place \in Places /\ cfg \in Configs
  /\ DOMAIN sky = {place.date, NextDay(place.date), [NextDay(place.date) EXCEPT !.y = place.date.y]}
  /\ \A d \in DOMAIN sky : sky[d] = place.sun \/ sky[d] \in place.suns
  /\ engine = [d \in DOMAIN sky |-> Engine(sky[d], d, place.method, rule)]

RawOK(raw) == (\A e \in Events : EngineTime(raw[e])) /\ (raw.yellow = None \/ EngineTime(raw.yellow))

\* What the day's environment is once the device is configured.
LEMMA SettledFacts ==
  ASSUME Settled
  PROVE  /\ place.date \in DateOK /\ NextDay(place.date) \in DateOK /\ NextDay(place.date) # place.date
         /\ place.date \in DOMAIN sky /\ NextDay(place.date) \in DOMAIN sky
         /\ place.method \in DOMAIN Methods
         /\ \A d \in DOMAIN sky : /\ d \in DateOK /\ SunOK(sky[d])
                                  /\ engine[d] = Engine(sky[d], d, place.method, rule)
                                  /\ engine[d] # None => RawOK(engine[d])
<1>1. place.date \in DateOK /\ place.method \in DOMAIN Methods /\ SunOK(place.sun) /\ \A s \in place.suns : SunOK(s)
  BY PlacesOK DEF Settled, DateOK
<1>2. NextDay(place.date) \in DateOK /\ NextDay(place.date) # place.date
  BY <1>1, NextDayFacts
<1>3. [NextDay(place.date) EXCEPT !.y = place.date.y] \in DateOK
  BY <1>1, <1>2 DEF DateOK
<1>4. ASSUME NEW d \in DOMAIN sky
      PROVE  /\ d \in DateOK /\ SunOK(sky[d]) /\ engine[d] = Engine(sky[d], d, place.method, rule)
             /\ engine[d] # None => RawOK(engine[d])
  <2>1. d \in DateOK /\ SunOK(sky[d]) /\ engine[d] = Engine(sky[d], d, place.method, rule)
    BY <1>1, <1>2, <1>3, <1>4 DEF Settled
  <2>2. ASSUME engine[d] # None PROVE RawOK(engine[d])
    BY <1>1, <2>1, <2>2, EngineTimes DEF RawOK, DateOK
  <2> QED BY <2>1, <2>2
<1> QED BY <1>1, <1>2, <1>4 DEF Settled

-----------------------------------------------------------------------------
(* Times of the rules and of the file *)

\* The setters accept only configurations in bounds.
LEMMA ConfigFacts == Settled => ConfigOK(cfg)
  BY ConfigsOK DEF Settled

\* The adhan times with their offsets are whole minutes in bounds, not before the raw ones.
LEMMA AdhanTimes ==
  ASSUME ConfigOK(cfg), NEW raw, RawOK(raw), NEW p \in Prayers
  PROVE  /\ WholeMinute(Adhan(raw)[p], 176340) /\ raw[p] <= Adhan(raw)[p]
         /\ WholeMinute(Zawal(raw), 172740)
<1>1. EngineTime(raw[p]) /\ EngineTime(raw.dhuhr)
  BY DEF RawOK, Prayers, Events
<1> DEFINE late == cfg.adhan[p]
           at == raw[p]
           noon == raw.dhuhr
           early == cfg.zawal
<1>2. Adhan(raw)[p] = at + 60 * late /\ Zawal(raw) = Greater(noon - 60 * early, 0)
  BY DEF Adhan, Zawal
<1>3. late \in 0 .. 60 /\ early \in 0 .. 30
  BY DEF ConfigOK
<1>4. /\ at \in Int /\ 0 <= at /\ at <= 172740 /\ at % 60 = 0
      /\ noon \in Int /\ 0 <= noon /\ noon <= 172740 /\ noon % 60 = 0
  BY <1>1 DEF EngineTime, WholeMinute
<1> HIDE DEF late, at, noon, early
<1>5. WholeMinute(at + 60 * late, 176340) /\ at <= at + 60 * late
  BY <1>3, <1>4, SMT DEF WholeMinute
<1>6. WholeMinute(Greater(noon - 60 * early, 0), 172740)
  BY <1>3, <1>4, SMT DEF WholeMinute, Greater
<1> QED BY <1>2, <1>5, <1>6 DEF at

\* A time that comes from a year file of this source: only the users' may say something else than
\* whole minutes.
TimeBy(t, latest, source) ==
  t \in Int /\ 0 <= t /\ t <= latest /\ (source # "user" => t % 60 = 0)

EntryTime(v, source) == v = None \/ TimeBy(v, 200000, source)

\* What is read back from a file is what was written, or nothing.
LEMMA ReadBackFacts ==
  ASSUME NEW v, NEW source
  PROVE  /\ ReadBack(v) = None \/ ReadBack(v) = v
         /\ v = None \/ (v \in Int /\ (source # "user" => v % 60 = 0)) => EntryTime(ReadBack(v), source)
BY SMT DEF ReadBack, EntryTime, TimeBy

\* When compute_jamat() gives a time, and how far before the adhan it may be.
NotBefore(jamat, adhan, j, round) ==
  \/ j.anchor \in {"SUNRISE_MINUS", "MIDNIGHT_MINUS"}
  \/ jamat = None \/ jamat >= adhan
  \/ j.anchor = "ADHAN_PLUS" /\ 2 * j.offset < round /\ jamat + 30 * round > adhan

JamatTime(v, source) == v = None \/ TimeBy(v, 263700, source)

\* Rounding moves a time by half a step at most, and down by less.
LEMMA RoundedTimes ==
  ASSUME NEW source, NEW t, TimeBy(t, 262800, source), NEW round, RoundingOK(round)
  PROVE  LET r == RoundToMin(t, round) IN
           TimeBy(r, 263700, source) /\ round \in Int /\ (r = t \/ t < r + 30 * round)
<1>1. t \in Int /\ 0 <= t /\ t <= 262800 /\ (source # "user" => t % 60 = 0)
  BY DEF TimeBy
<1>2. round \in {0, 2, 5, 10, 15, 20, 30} /\ round \in Int /\ round <= 30
  BY DEF RoundingOK
<1> DEFINE r == RoundToMin(t, round)
<1>3. r \in Int /\ 0 <= r /\ (r = t \/ r % 60 = 0) /\ r <= t + 30 * round /\ (r = t \/ t < r + 30 * round)
  BY <1>1, <1>2, SMT DEF RoundToMin
<1> HIDE DEF r
<1>4. r <= 263700
  BY <1>1, <1>2, <1>3, SMT
<1> QED BY <1>2, <1>3, <1>4, SMT DEF r, TimeBy

\* A jamat of the rules is in bounds, and not before its adhan where it follows it.
LEMMA ComputedFacts ==
  ASSUME NEW source, NEW adhan, TimeBy(adhan, 176400, source),
         NEW sunrise, EntryTime(sunrise, source), NEW midnight, EntryTime(midnight, source),
         NEW j, JamatOK(j), NEW round, RoundingOK(round)
  PROVE  LET v == ComputeJamat(adhan, sunrise, midnight, j, round) IN
           JamatTime(v, source) /\ NotBefore(v, adhan, j, round)
<1> DEFINE off == 60 * j.offset
           v == ComputeJamat(adhan, sunrise, midnight, j, round)
           From(base) == RoundToMin(base, round)
<1>1. off \in Int /\ 0 <= off /\ off <= 86400 /\ off % 60 = 0 /\ j.offset \in Int /\ 0 <= j.offset
  BY SMT DEF JamatOK
<1>2. ASSUME NEW t, EntryTime(t, source)
      PROVE  LET b == IF t = None \/ t < off THEN None ELSE From(t - off) IN JamatTime(b, source)
  <2>1. CASE t = None \/ t < off
    BY <2>1 DEF JamatTime
  <2>2. CASE t # None /\ ~(t < off)
    <3>1. t \in Int /\ 0 <= t - off /\ t - off <= 262800 /\ (source # "user" => (t - off) % 60 = 0)
      BY <1>1, <1>2, <2>2, SMT DEF EntryTime, TimeBy
    <3>2. TimeBy(t - off, 262800, source)
      BY <1>1, <3>1 DEF TimeBy
    <3>3. TimeBy(From(t - off), 263700, source)
      BY <3>2, RoundedTimes
    <3> QED BY <2>2, <3>3 DEF JamatTime
  <2> QED BY <2>1, <2>2
<1>3. CASE j.anchor = "ADHAN_PLUS"
  <2> DEFINE t == adhan + off
             r == From(t)
  <2>1. v = r
    BY <1>3 DEF ComputeJamat
  <2>2. adhan \in Int /\ t \in Int /\ 0 <= t /\ t <= 262800 /\ (source # "user" => t % 60 = 0)
    BY <1>1, SMT DEF TimeBy
  <2>3. t = adhan + 60 * j.offset
    OBVIOUS
  <2> HIDE DEF t
  <2>4. TimeBy(t, 262800, source)
    BY <2>2 DEF TimeBy
  <2>5. TimeBy(r, 263700, source) /\ round \in Int /\ (r = t \/ t < r + 30 * round)
    BY <2>4, RoundedTimes
  <2>6. r \in Int
    BY <2>5 DEF TimeBy
  <2> HIDE DEF r, v
  <2>7. r >= adhan \/ (2 * j.offset < round /\ r + 30 * round > adhan)
    BY <1>1, <2>2, <2>3, <2>5, <2>6
  <2> QED BY <1>3, <2>1, <2>5, <2>7 DEF JamatTime, NotBefore, v
<1>4. CASE j.anchor = "SUNRISE_MINUS"
  <2>1. v = IF sunrise = None \/ sunrise < off THEN None ELSE From(sunrise - off)
    BY <1>4 DEF ComputeJamat
  <2> QED BY <1>2, <1>4, <2>1 DEF NotBefore
<1>5. CASE j.anchor = "MIDNIGHT_MINUS"
  <2>1. v = IF midnight = None \/ midnight < off THEN None ELSE From(midnight - off)
    BY <1>5 DEF ComputeJamat
  <2> QED BY <1>2, <1>5, <2>1 DEF NotBefore
<1>6. CASE j.anchor = "DISABLED"
  <2>1. v = None
    BY <1>6 DEF ComputeJamat
  <2> QED BY <2>1 DEF NotBefore, JamatTime
<1> QED BY <1>3, <1>4, <1>5, <1>6 DEF JamatOK

EntryOK(e, source) ==
  /\ \A p \in Prayers : EntryTime(e.adhan[p], source) /\ EntryTime(e.jamat[p], source)
  /\ \A f \in Aside : EntryTime(e[f], source)

\* The engine's times can stand in an entry of a file.
LEMMA RawEntryTimes ==
  ASSUME NEW raw, RawOK(raw), NEW source
  PROVE  (\A e \in Events : EntryTime(raw[e], source)) /\ EntryTime(raw.yellow, source)
<1>1. \A v : EngineTime(v) => EntryTime(v, source)
  BY SMT DEF EngineTime, EntryTime, WholeMinute, TimeBy
<1>2. EntryTime(None, source)
  BY DEF EntryTime
<1> QED BY <1>1, <1>2 DEF RawOK

AdhansIn(adhan, source) == \A p \in Prayers : TimeBy(adhan[p], 176400, source)

\* Both functions that compute a day's jamats give times that are in bounds.
LEMMA ComputedTimes ==
  ASSUME ConfigOK(cfg), NEW source, NEW adhan, AdhansIn(adhan, source),
         NEW sunrise, EntryTime(sunrise, source), NEW midnight, EntryTime(midnight, source),
         NEW season \in {"summer", "winter"}, NEW p \in Prayers
  PROVE  LET v == ComputedJamats(adhan, sunrise, midnight, season)[p] IN
           JamatTime(v, source) /\ NotBefore(v, adhan[p], cfg.jamat[p][season], cfg.jamat[p].round)
<1>1. JamatOK(cfg.jamat[p][season]) /\ RoundingOK(cfg.jamat[p].round)
  BY DEF ConfigOK
<1>2. ComputedJamats(adhan, sunrise, midnight, season)[p]
        = ComputeJamat(adhan[p], sunrise, midnight, cfg.jamat[p][season], cfg.jamat[p].round)
  BY DEF ComputedJamats
<1> QED BY <1>1, <1>2, ComputedFacts DEF AdhansIn

\* The jamats published are in bounds and not before their adhan, whether of the file or of the
\* rules.
LEMMA JamatsFacts ==
  ASSUME ConfigOK(cfg), NEW source, NEW adhan, AdhansIn(adhan, source),
         NEW raw, RawOK(raw), NEW entry, EntryOK(entry, source),
         NEW season \in {"summer", "winter"}, NEW p \in Prayers
  PROVE  LET v == Jamats(entry, adhan, raw, season)[p] IN
           JamatTime(v, source) /\ NotBefore(v, adhan[p], cfg.jamat[p][season], cfg.jamat[p].round)
<1> DEFINE sunrise == Merge(entry.sunrise, raw.sunrise)
           midnight == Merge(entry.midnight, raw.midnight)
           computed == ComputedJamats(adhan, sunrise, midnight, season)
           v == Jamats(entry, adhan, raw, season)[p]
           inFile == entry.jamat[p]
<1>1. EntryTime(entry.sunrise, source) /\ EntryTime(entry.midnight, source) /\ EntryTime(inFile, source)
  BY DEF EntryOK, Aside
<1>2. EntryTime(sunrise, source) /\ EntryTime(midnight, source)
  BY <1>1, RawEntryTimes DEF Merge, Events
<1> HIDE DEF sunrise, midnight
<1>3. JamatTime(computed[p], source) /\ NotBefore(computed[p], adhan[p], cfg.jamat[p][season], cfg.jamat[p].round)
  BY <1>2, ComputedTimes
<1>4. v = MergeJamat(inFile, computed[p], adhan[p])
  BY DEF Jamats, sunrise, midnight
<1> HIDE DEF computed, inFile, v
<1>5. JamatTime(v, source) /\ NotBefore(v, adhan[p], cfg.jamat[p][season], cfg.jamat[p].round)
  <2>1. CASE inFile = None \/ inFile < adhan[p]
    <3>1. v = computed[p]
      BY <1>4, <2>1 DEF MergeJamat
    <3> QED BY <1>3, <3>1
  <2>2. CASE ~(inFile = None \/ inFile < adhan[p])
    <3>1. v = inFile /\ inFile \in Int /\ adhan[p] \in Int
      BY <1>1, <1>4, <2>2 DEF MergeJamat, EntryTime, TimeBy, AdhansIn
    <3>2. JamatTime(v, source)
      BY <1>1, <3>1, SMT DEF EntryTime, JamatTime, TimeBy
    <3>3. v >= adhan[p]
      BY <2>2, <3>1
    <3> QED BY <3>2, <3>3 DEF NotBefore
  <2> QED BY <2>1, <2>2
<1> QED BY <1>5 DEF v

-----------------------------------------------------------------------------
(* The year file *)

Season(d) == CurrentSeason(cfg, d)

\* There are two seasons.
LEMMA SeasonFacts == \A d : Season(d) \in {"summer", "winter"}
  BY DEF Season, CurrentSeason

\* The jamats of a day without a file.
Computed(d) == ComputedJamats(Adhan(engine[d]), engine[d].sunrise, engine[d].midnight, Season(d))

\* The jamats of a day without a file are in bounds.
LEMMA ComputedOfDay ==
  ASSUME ConfigOK(cfg), NEW source, NEW d, RawOK(engine[d]), NEW p \in Prayers
  PROVE  JamatTime(Computed(d)[p], source)
<1> DEFINE raw == engine[d]
           adhan == Adhan(raw)
<1>1. AdhansIn(adhan, source)
  BY AdhanTimes, SMT DEF WholeMinute, TimeBy, AdhansIn
<1>2. EntryTime(raw.sunrise, source) /\ EntryTime(raw.midnight, source)
  BY RawEntryTimes DEF Events
<1> HIDE DEF raw, adhan
<1>3. JamatTime(ComputedJamats(adhan, raw.sunrise, raw.midnight, Season(d))[p], source)
  BY <1>1, <1>2, SeasonFacts, ComputedTimes
<1> QED BY <1>3 DEF Computed, raw, adhan

\* An entry that says what the engine and the rules say of the day, or nothing.
SunAgrees(e, d) == e.sunrise \in {None, engine[d].sunrise} /\ e.midnight \in {None, engine[d].midnight}
Agrees(e, d) ==
  /\ \A p \in Prayers : e.adhan[p] \in {None, Adhan(engine[d])[p]} /\ e.jamat[p] \in {None, Computed(d)[p]}
  /\ SunAgrees(e, d)
  /\ e.zawal \in {None, Zawal(engine[d])} /\ e.yellow \in {None, engine[d].yellow}
  /\ e.sehri \in {None, engine[d].fajr} /\ e.iftar \in {None, engine[d].sunset}

\* An entry that says nothing is in bounds and contradicts no engine.
LEMMA NoEntryFacts ==
  \A source : EntryOK(NoEntry, source) /\ \A d : Agrees(NoEntry, d)
<1>1. NoEntry = [adhan |-> NoTimes, jamat |-> NoTimes, sunrise |-> None, midnight |-> None, zawal |-> None,
                 yellow |-> None, sehri |-> None, iftar |-> None]
  BY DEF NoEntry
<1>2. \A p \in Prayers : NoTimes[p] = None
  BY DEF NoTimes
<1>3. \A source : EntryTime(None, source)
  BY DEF EntryTime
<1> QED BY <1>1, <1>2, <1>3 DEF EntryOK, Agrees, SunAgrees, Aside

\* build_day_entry() writes what recalculate() computes.
LEMMA BuiltFacts ==
  ASSUME ConfigOK(cfg), NEW source, NEW d, RawOK(engine[d])
  PROVE  EntryOK(BuildDayEntry(d), source) /\ Agrees(BuildDayEntry(d), d)
<1> DEFINE raw == engine[d]
           adhan == Adhan(raw)
           computed == Computed(d)
           zawal == Zawal(raw)
           e == BuildDayEntry(d)
<1>1. e = [adhan |-> [p \in Prayers |-> ReadBack(adhan[p])], jamat |-> [p \in Prayers |-> ReadBack(computed[p])],
           sunrise |-> ReadBack(raw.sunrise), midnight |-> ReadBack(raw.midnight),
           zawal |-> ReadBack(zawal), yellow |-> ReadBack(raw.yellow),
           sehri |-> ReadBack(raw.fajr), iftar |-> ReadBack(raw.sunset)]
  BY DEF BuildDayEntry, Computed, Season, CurrentSeason
<1>2. \A v : WholeMinute(v, 176340) \/ JamatTime(v, source) \/ EntryTime(v, source) => EntryTime(ReadBack(v), source)
  BY ReadBackFacts DEF WholeMinute, TimeBy, JamatTime, EntryTime
<1>3. \A p \in Prayers : EntryTime(ReadBack(adhan[p]), source) /\ EntryTime(ReadBack(computed[p]), source)
  BY <1>2, AdhanTimes, ComputedOfDay
<1>4. \A f \in {"sunrise", "midnight", "yellow", "fajr", "sunset"} : EntryTime(ReadBack(raw[f]), source)
  BY <1>2, RawEntryTimes DEF Events
<1>5. EntryTime(ReadBack(zawal), source)
  <2>1. WholeMinute(zawal, 172740)
    BY AdhanTimes DEF Prayers
  <2> QED BY <1>2, <2>1, ReadBackFacts DEF WholeMinute, TimeBy
<1>6. \A v : ReadBack(v) \in {None, v}
  BY ReadBackFacts
<1> HIDE DEF e, adhan, computed, zawal
<1>7. EntryOK(e, source)
  BY <1>1, <1>3, <1>4, <1>5 DEF EntryOK, Aside
<1>8. Agrees(e, d)
  <2>1. \A p \in Prayers : e.adhan[p] \in {None, adhan[p]} /\ e.jamat[p] \in {None, computed[p]}
    BY <1>1, <1>6
  <2>2. /\ e.sunrise \in {None, raw.sunrise} /\ e.midnight \in {None, raw.midnight}
        /\ e.zawal \in {None, zawal} /\ e.yellow \in {None, raw.yellow}
        /\ e.sehri \in {None, raw.fajr} /\ e.iftar \in {None, raw.sunset}
    BY <1>1, <1>6
  <2> QED BY <2>1, <2>2 DEF Agrees, SunAgrees, adhan, computed, zawal
<1> QED BY <1>7, <1>8 DEF e

\* A file whose times are in bounds, and in whole minutes if the firmware wrote it, which then agrees
\* with the engine and the rules on the dates of its year.
FileOK(f) ==
  /\ f.source \in {"none", "firmware", "user"}
  /\ \A d \in DOMAIN sky :
       /\ EntryOK(EntryOf(f, d), f.source)
       /\ engine[d] # None /\ f.source # "user" /\ (f.source = "none" \/ f.year = d.y) =>
            Agrees(EntryOf(f, d), d)

\* No file is a file in bounds.
LEMMA NoFileOK == FileOK(NoFile)
<1>1. NoFile.source = "none" /\ \A d : EntryOf(NoFile, d) = NoEntry
  BY DEF NoFile, EntryOf
<1> QED BY <1>1, NoEntryFacts DEF FileOK, Agrees

\* The entry a generated year has for a date is that of a day of the engine, of that date in its
\* year.
LEMMA DaysFacts ==
  ASSUME Settled, NEW y, NEW d \in DOMAIN sky, MonthDay(d) \in DOMAIN Days(y)
  PROVE  \E e \in DOMAIN sky :
           engine[e] # None /\ Days(y)[MonthDay(d)] = BuildDayEntry(e) /\ (d.y = y => e = d)
<1> DEFINE dates == {e \in DOMAIN sky : e.y = y /\ engine[e] # None}
           keys == {MonthDay(e) : e \in dates}
           Of(k) == CHOOSE e \in dates : MonthDay(e) = k
<1>1. Days(y) = [k \in keys |-> BuildDayEntry(Of(k))]
  BY DEF Days
<1>2. MonthDay(d) \in keys
  BY <1>1
<1>3. \E e \in dates : MonthDay(e) = MonthDay(d)
  BY <1>2
<1>4. Of(MonthDay(d)) \in dates /\ MonthDay(Of(MonthDay(d))) = MonthDay(d)
  BY <1>3
<1>5. Days(y)[MonthDay(d)] = BuildDayEntry(Of(MonthDay(d)))
  BY <1>1, <1>2
<1> DEFINE e == Of(MonthDay(d))
<1>6. e \in DOMAIN sky /\ e.y = y /\ engine[e] # None /\ MonthDay(e) = MonthDay(d)
  BY <1>4
<1>7. Days(y)[MonthDay(d)] = BuildDayEntry(e)
  BY <1>5
<1> HIDE DEF e
<1>8. d \in DateOK /\ e \in DateOK
  BY <1>6, SettledFacts
<1>9. d.y = y => e = d
  BY <1>6, <1>8, OneDate
<1> QED BY <1>6, <1>7, <1>9

\* A generated year is in bounds and agrees with the engine.
LEMMA GeneratedOK ==
  ASSUME Settled, NEW y
  PROVE  FileOK(GenerateFullYear(y))
<1> DEFINE f == GenerateFullYear(y)
<1>1. f.source = "firmware" /\ f.year = y /\ f.days = Days(y)
  BY DEF GenerateFullYear
<1> HIDE DEF f
<1>2. ASSUME NEW d \in DOMAIN sky
      PROVE  EntryOK(EntryOf(f, d), f.source) /\ (d.y = y => Agrees(EntryOf(f, d), d))
  <2>1. CASE MonthDay(d) \in DOMAIN Days(y)
    <3>1. PICK e \in DOMAIN sky :
            engine[e] # None /\ Days(y)[MonthDay(d)] = BuildDayEntry(e) /\ (d.y = y => e = d)
      BY <2>1, DaysFacts
    <3>2. EntryOf(f, d) = BuildDayEntry(e)
      BY <1>1, <2>1, <3>1 DEF EntryOf
    <3>3. RawOK(engine[e]) /\ ConfigOK(cfg)
      BY <3>1, SettledFacts, ConfigFacts
    <3> QED BY <3>1, <3>2, <3>3, BuiltFacts
  <2>2. CASE MonthDay(d) \notin DOMAIN Days(y)
    <3>1. EntryOf(f, d) = NoEntry
      BY <1>1, <2>2 DEF EntryOf
    <3> QED BY <3>1, NoEntryFacts
  <2> QED BY <2>1, <2>2
<1>3. FileOK(f)
  BY <1>1, <1>2 DEF FileOK, Agrees
<1> QED BY <1>3 DEF f

\* A time the mosque wrote otherwise is read back in bounds.
LEMMA MovedTime ==
  ASSUME NEW v, EntryTime(v, "user"), NEW by, by = None \/ by \in Int
  PROVE  EntryTime(Moved(v, by), "user")
<1>1. CASE v = None \/ by = None
  BY <1>1 DEF Moved, EntryTime
<1>2. CASE v # None /\ by # None
  <2>1. Moved(v, by) = ReadBack(v + by)
    BY <1>2 DEF Moved
  <2>2. v + by \in Int
    BY <1>2, SMT DEF EntryTime, TimeBy
  <2> QED BY <2>1, <2>2, ReadBackFacts
<1> QED BY <1>1, <1>2

\* A day edited by the mosque stays in bounds.
LEMMA EditedFacts ==
  ASSUME NEW u \in Uploads, NEW d, EntryOK(BuildDayEntry(d), "user")
  PROVE  EntryOK(Edited(BuildDayEntry(d), u), "user")
<1> DEFINE b == BuildDayEntry(d)
           e == Edited(b, u)
<1>1. DOMAIN b = {"adhan", "jamat"} \cup Aside /\ b = [f \in DOMAIN b |-> b[f]]
  BY DEF BuildDayEntry, Aside
<1> HIDE DEF b
<1>2. /\ e.adhan = [p \in Prayers |-> Moved(b.adhan[p], u.adhan)]
      /\ e.jamat = [p \in Prayers |-> Moved(b.jamat[p], u.jamat)]
      /\ \A f \in Aside : e[f] = Moved(b[f], u[f])
  BY <1>1 DEF Edited, Aside
<1>3. /\ \A p \in Prayers : EntryTime(b.adhan[p], "user") /\ EntryTime(b.jamat[p], "user")
      /\ \A f \in Aside : EntryTime(b[f], "user")
  BY DEF EntryOK, b
<1>4. /\ \A by \in {u.adhan, u.jamat} : by = None \/ by \in Int
      /\ \A f \in Aside : u[f] = None \/ u[f] \in Int
  BY UploadsOK DEF Aside
<1> HIDE DEF e
<1>5. \A p \in Prayers : EntryTime(e.adhan[p], "user") /\ EntryTime(e.jamat[p], "user")
  BY <1>2, <1>3, <1>4, MovedTime
<1>6. \A f \in Aside : EntryTime(e[f], "user")
  BY <1>2, <1>3, <1>4, MovedTime
<1> QED BY <1>5, <1>6 DEF EntryOK, e, b

\* An uploaded year is in bounds.
LEMMA UploadedOK ==
  ASSUME Settled, NEW u \in Uploads, NEW y
  PROVE  FileOK(Uploaded(u, y))
<1> DEFINE f == Uploaded(u, y)
           days == Days(y)
<1>1. f.source = "user" /\ f.days = [k \in DOMAIN days \ u.without |-> Edited(days[k], u)]
  BY DEF Uploaded
<1> HIDE DEF f, days
<1>2. ASSUME NEW d \in DOMAIN sky
      PROVE  EntryOK(EntryOf(f, d), "user")
  <2>1. CASE MonthDay(d) \in DOMAIN days \ u.without
    <3>1. PICK e \in DOMAIN sky : engine[e] # None /\ days[MonthDay(d)] = BuildDayEntry(e)
      BY <2>1, DaysFacts DEF days
    <3>2. EntryOf(f, d) = Edited(BuildDayEntry(e), u)
      BY <1>1, <2>1, <3>1 DEF EntryOf
    <3>3. RawOK(engine[e]) /\ ConfigOK(cfg)
      BY <3>1, SettledFacts, ConfigFacts
    <3>4. EntryOK(BuildDayEntry(e), "user")
      BY <3>3, BuiltFacts
    <3> QED BY <3>2, <3>4, EditedFacts
  <2>2. CASE MonthDay(d) \notin DOMAIN days \ u.without
    <3>1. EntryOf(f, d) = NoEntry
      BY <1>1, <2>2 DEF EntryOf
    <3> QED BY <3>1, NoEntryFacts
  <2> QED BY <2>1, <2>2
<1>3. FileOK(f)
  BY <1>1, <1>2 DEF FileOK
<1> QED BY <1>3 DEF f

-----------------------------------------------------------------------------
(* What is published *)

Typed(c) ==
  /\ \A f \in Times : \A p \in Prayers : JamatTime(c[f][p], c.source)
  /\ \A f \in Aside \cup {"sunset"} : JamatTime(c[f], c.source)

\* What tomorrow's jamats are without a file.
Coming == IF engine[NextDay(place.date)] = None THEN NoTimes ELSE Computed(NextDay(place.date))

\* A year file that is not an uploaded one, and is none or of the year y.
Plain(f, y) == f.source # "user" /\ (f.source = "none" \/ f.year = y)

\* What agrees with the engine and the rules is published as if it were not there.
LEMMA AgreeingJamats ==
  ASSUME NEW e, NEW d, Agrees(e, d)
  PROVE  Jamats(e, Adhan(engine[d]), engine[d], Season(d)) = Computed(d)
<1> DEFINE raw == engine[d]
           adhan == Adhan(raw)
           sunrise == Merge(e.sunrise, raw.sunrise)
           midnight == Merge(e.midnight, raw.midnight)
<1>1. sunrise = raw.sunrise /\ midnight = raw.midnight
  BY DEF Agrees, SunAgrees, Merge
<1>2. Jamats(e, adhan, raw, Season(d))
        = [p \in Prayers |-> MergeJamat(e.jamat[p], ComputedJamats(adhan, sunrise, midnight, Season(d))[p], adhan[p])]
  BY DEF Jamats
<1>3. ComputedJamats(adhan, sunrise, midnight, Season(d)) = Computed(d)
  BY <1>1 DEF Computed
<1> HIDE DEF sunrise, midnight
<1>4. \A p \in Prayers : MergeJamat(e.jamat[p], Computed(d)[p], adhan[p]) = Computed(d)[p]
  BY DEF Agrees, MergeJamat
<1>5. Computed(d) = [p \in Prayers |-> Computed(d)[p]]
  BY DEF Computed, ComputedJamats
<1> QED BY <1>2, <1>3, <1>4, <1>5

\* An entry that agrees with the engine publishes the engine's adhan times.
LEMMA AgreeingAdhan ==
  ASSUME NEW e, NEW d, Agrees(e, d)
  PROVE  [p \in Prayers |-> Tripped(e.adhan[p], Adhan(engine[d])[p])] = Adhan(engine[d])
<1>1. \A p \in Prayers : Tripped(e.adhan[p], Adhan(engine[d])[p]) = Adhan(engine[d])[p]
  BY DEF Agrees, Tripped
<1>2. Adhan(engine[d]) = [p \in Prayers |-> Adhan(engine[d])[p]]
  BY DEF Adhan
<1> QED BY <1>1, <1>2

\* The jamats foretold are in bounds, and those to come when no file of another year interferes.
LEMMA TomorrowFacts ==
  ASSUME Settled, NEW f, FileOK(f)
  PROVE  LET next == NextDay(place.date)
             jamats == TomorrowsJamats(f, place.date)
         IN  /\ \A p \in Prayers : JamatTime(jamats[p], f.source)
             /\ Plain(f, next.y) => jamats = Coming
<1> DEFINE next == NextDay(place.date)
           raw == engine[next]
           adhan == Adhan(raw)
           entry == EntryOf(f, next)
           jamats == TomorrowsJamats(f, place.date)
<1>1. next \in DOMAIN sky /\ ConfigOK(cfg) /\ (raw # None => RawOK(raw))
  BY SettledFacts, ConfigFacts
<1>2. jamats = IF raw = None THEN NoTimes ELSE Jamats(entry, adhan, raw, Season(next))
  BY DEF TomorrowsJamats, Season
<1>3. Coming = IF raw = None THEN NoTimes ELSE Computed(next)
  BY DEF Coming
<1>4. EntryOK(entry, f.source) /\ (raw # None /\ Plain(f, next.y) => Agrees(entry, next))
  BY <1>1 DEF FileOK, Plain
<1> HIDE DEF jamats, next, entry
<1>5. CASE raw = None
  BY <1>2, <1>3, <1>5 DEF NoTimes, JamatTime, jamats, next
<1>6. CASE raw # None
  <2>1. AdhansIn(adhan, f.source)
    BY <1>1, <1>6, AdhanTimes, SMT DEF WholeMinute, TimeBy, AdhansIn
  <2> HIDE DEF raw, adhan
  <2>2. \A p \in Prayers : JamatTime(Jamats(entry, adhan, raw, Season(next))[p], f.source)
    BY <1>1, <1>4, <1>6, <2>1, SeasonFacts, JamatsFacts
  <2>3. Plain(f, next.y) => Jamats(entry, adhan, raw, Season(next)) = Computed(next)
    BY <1>4, <1>6, AgreeingJamats DEF raw, adhan
  <2> QED BY <1>2, <1>3, <1>6, <2>2, <2>3 DEF jamats, next
<1> QED BY <1>5, <1>6

\* The tripwire leaves an adhan within a minute of the engine's.
LEMMA TrippedTimes ==
  ASSUME NEW source, NEW t, WholeMinute(t, 176340), NEW inFile, EntryTime(inFile, source)
  PROVE  TimeBy(Tripped(inFile, t), 176400, source)
BY SMT DEF WholeMinute, TimeBy, EntryTime, Tripped, Abs

\* The record that svc_prayer_engine_service publishes, with its sources merged.
LEMMA PublishedIs ==
  ASSUME NEW f, NEW d, engine[d] # None
  PROVE  LET raw == engine[d]
             entry == EntryOf(f, d)
             fresh == Adhan(raw)
             adhan == [p \in Prayers |-> Tripped(entry.adhan[p], fresh[p])]
         IN  Published(f, d) =
               [date |-> d, source |-> f.source, season |-> Season(d),
                astronomical |-> [p \in Prayers |-> raw[p]], adhan |-> adhan,
                sunrise |-> Merge(entry.sunrise, raw.sunrise), sunset |-> raw.sunset,
                midnight |-> Merge(entry.midnight, raw.midnight), yellow |-> Merge(entry.yellow, raw.yellow),
                zawal |-> Merge(entry.zawal, Zawal(raw)),
                sehri |-> Merge(entry.sehri, raw.fajr), iftar |-> Merge(entry.iftar, raw.sunset),
                jamat |-> Jamats(entry, adhan, raw, Season(d)),
                tomorrow |-> IF d = place.date THEN TomorrowsJamats(f, d) ELSE NoTimes]
BY DEF Published, Season

\* What is published has its types, its date and season, and jamats not before their adhan.
LEMMA PublishedFacts ==
  ASSUME Settled, NEW f, FileOK(f), NEW d \in DOMAIN sky, engine[d] # None
  PROVE  LET c == Published(f, d) IN
           /\ Typed(c) /\ c.date = d /\ c.season = Season(d) /\ c.source = f.source
           /\ \A p \in Prayers : NotBefore(c.jamat[p], c.adhan[p], cfg.jamat[p][c.season], cfg.jamat[p].round)
           /\ c.astronomical = [p \in Prayers |-> engine[d][p]] /\ c.sunset = engine[d].sunset
           /\ Plain(f, d.y) => c.sunrise = engine[d].sunrise /\ c.midnight = engine[d].midnight
           /\ c.tomorrow = IF d = place.date THEN TomorrowsJamats(f, d) ELSE NoTimes
<1> DEFINE raw == engine[d]
           entry == EntryOf(f, d)
           fresh == Adhan(raw)
           adhan == [p \in Prayers |-> Tripped(entry.adhan[p], fresh[p])]
           jamat == Jamats(entry, adhan, raw, Season(d))
           zawal == Zawal(raw)
           source == f.source
           tomorrow == IF d = place.date THEN TomorrowsJamats(f, d) ELSE NoTimes
           c == Published(f, d)
<1>1. c = [date |-> d, source |-> f.source, season |-> Season(d),
           astronomical |-> [p \in Prayers |-> raw[p]], adhan |-> adhan,
           sunrise |-> Merge(entry.sunrise, raw.sunrise), sunset |-> raw.sunset,
           midnight |-> Merge(entry.midnight, raw.midnight), yellow |-> Merge(entry.yellow, raw.yellow),
           zawal |-> Merge(entry.zawal, zawal),
           sehri |-> Merge(entry.sehri, raw.fajr), iftar |-> Merge(entry.iftar, raw.sunset),
           jamat |-> jamat, tomorrow |-> tomorrow]
  BY PublishedIs
<1>2. RawOK(raw) /\ ConfigOK(cfg) /\ EntryOK(entry, source)
  BY SettledFacts, ConfigFacts DEF FileOK
<1>3. \A p \in Prayers : WholeMinute(fresh[p], 176340) /\ WholeMinute(zawal, 172740)
  BY <1>2, AdhanTimes
<1>4. \A p \in Prayers : EntryTime(entry.adhan[p], source)
  BY <1>2 DEF EntryOK
<1>5. Plain(f, d.y) =>
        entry.sunrise \in {None, raw.sunrise} /\ entry.midnight \in {None, raw.midnight}
  BY DEF FileOK, Plain, Agrees, SunAgrees
<1> HIDE DEF raw, entry, fresh, zawal, c, source
<1>6. \A p \in Prayers : TimeBy(adhan[p], 176400, source)
  BY <1>3, <1>4, TrippedTimes
<1> HIDE DEF adhan
<1>7. \A p \in Prayers :
        JamatTime(jamat[p], source) /\ NotBefore(jamat[p], adhan[p], cfg.jamat[p][Season(d)], cfg.jamat[p].round)
  BY <1>2, <1>6, SeasonFacts, JamatsFacts DEF AdhansIn
<1>8. \A p \in Prayers : JamatTime(tomorrow[p], source)
  BY TomorrowFacts DEF NoTimes, JamatTime, source
<1> HIDE DEF jamat, tomorrow
<1>9. \A v : EntryTime(v, source) \/ TimeBy(v, 176400, source) \/ WholeMinute(v, 172740) => JamatTime(v, source)
  BY SMT DEF EntryTime, WholeMinute, TimeBy, JamatTime
<1>10. \A a, b : EntryTime(a, source) /\ JamatTime(b, source) => JamatTime(Merge(a, b), source)
  BY <1>9 DEF Merge
<1>11. (\A e \in Events : JamatTime(raw[e], source)) /\ JamatTime(raw.yellow, source)
  BY <1>2, <1>9, RawEntryTimes
<1>12. \A g \in Aside : EntryTime(entry[g], source)
  BY <1>2 DEF EntryOK
<1>13. JamatTime(zawal, source)
  BY <1>3, <1>9 DEF Prayers
<1>14. \A g \in Times : \A p \in Prayers : JamatTime(c[g][p], source)
  <2>1. \A p \in Prayers : JamatTime(c.astronomical[p], source)
    BY <1>1, <1>11 DEF Prayers, Events
  <2>2. \A p \in Prayers : JamatTime(c.adhan[p], source)
    BY <1>1, <1>6, <1>9
  <2>3. \A p \in Prayers : JamatTime(c.jamat[p], source) /\ JamatTime(c.tomorrow[p], source)
    BY <1>1, <1>7, <1>8
  <2> QED BY <2>1, <2>2, <2>3 DEF Times
<1>15. \A g \in Aside \cup {"sunset"} : JamatTime(c[g], source)
  <2>1. JamatTime(c.sunset, source)
    BY <1>1, <1>11 DEF Events
  <2>2. /\ JamatTime(c.sunrise, source) /\ JamatTime(c.midnight, source)
        /\ JamatTime(c.sehri, source) /\ JamatTime(c.iftar, source)
    BY <1>1, <1>10, <1>11, <1>12 DEF Events, Aside
  <2>3. JamatTime(c.zawal, source) /\ JamatTime(c.yellow, source)
    BY <1>1, <1>10, <1>11, <1>12, <1>13 DEF Aside
  <2> QED BY <2>1, <2>2, <2>3 DEF Aside
<1>16. \A p \in Prayers : NotBefore(c.jamat[p], c.adhan[p], cfg.jamat[p][c.season], cfg.jamat[p].round)
  BY <1>1, <1>7
<1>17. c.astronomical = [p \in Prayers |-> engine[d][p]] /\ c.sunset = engine[d].sunset
  BY <1>1 DEF raw
<1>18. Plain(f, d.y) => c.sunrise = engine[d].sunrise /\ c.midnight = engine[d].midnight
  BY <1>1, <1>5 DEF Merge, raw
<1>19. /\ c.date = d /\ c.season = Season(d) /\ c.source = source
       /\ c.tomorrow = IF d = place.date THEN TomorrowsJamats(f, d) ELSE NoTimes
  BY <1>1 DEF tomorrow, source
<1>20. Typed(c)
  BY <1>14, <1>15, <1>19 DEF Typed
<1>21. c.source = f.source
  BY <1>19 DEF source
<1> QED BY <1>16, <1>17, <1>18, <1>19, <1>20, <1>21 DEF c

\* A file of the firmware for the year of the day changes nothing of it.
LEMMA PlainPublished ==
  ASSUME Settled, NEW f, FileOK(f), NEW d \in DOMAIN sky, engine[d] # None, Plain(f, d.y)
  PROVE  LET raw == engine[d] IN
           Published(f, d) =
             [date |-> d, source |-> f.source, season |-> Season(d),
              astronomical |-> [p \in Prayers |-> raw[p]], adhan |-> Adhan(raw),
              sunrise |-> raw.sunrise, sunset |-> raw.sunset, midnight |-> raw.midnight, yellow |-> raw.yellow,
              zawal |-> Zawal(raw), sehri |-> raw.fajr, iftar |-> raw.sunset, jamat |-> Computed(d),
              tomorrow |-> IF d = place.date THEN TomorrowsJamats(f, d) ELSE NoTimes]
<1> DEFINE raw == engine[d]
           entry == EntryOf(f, d)
           fresh == Adhan(raw)
           adhan == [p \in Prayers |-> Tripped(entry.adhan[p], fresh[p])]
           zawal == Zawal(raw)
           tomorrow == IF d = place.date THEN TomorrowsJamats(f, d) ELSE NoTimes
<1>1. Published(f, d) =
        [date |-> d, source |-> f.source, season |-> Season(d),
         astronomical |-> [p \in Prayers |-> raw[p]], adhan |-> adhan,
         sunrise |-> Merge(entry.sunrise, raw.sunrise), sunset |-> raw.sunset,
         midnight |-> Merge(entry.midnight, raw.midnight), yellow |-> Merge(entry.yellow, raw.yellow),
         zawal |-> Merge(entry.zawal, zawal),
         sehri |-> Merge(entry.sehri, raw.fajr), iftar |-> Merge(entry.iftar, raw.sunset),
         jamat |-> Jamats(entry, adhan, raw, Season(d)), tomorrow |-> tomorrow]
  BY PublishedIs
<1>2. Agrees(entry, d)
  BY DEF FileOK, Plain
<1>3. adhan = fresh
  BY <1>2, AgreeingAdhan
<1>4. Jamats(entry, adhan, raw, Season(d)) = Computed(d)
  BY <1>2, <1>3, AgreeingJamats
<1>5. /\ Merge(entry.sunrise, raw.sunrise) = raw.sunrise /\ Merge(entry.midnight, raw.midnight) = raw.midnight
      /\ Merge(entry.yellow, raw.yellow) = raw.yellow /\ Merge(entry.zawal, zawal) = zawal
      /\ Merge(entry.sehri, raw.fajr) = raw.fajr /\ Merge(entry.iftar, raw.sunset) = raw.sunset
  BY <1>2 DEF Agrees, SunAgrees, Merge
<1> HIDE DEF adhan, tomorrow, zawal, fresh, entry
<1> QED BY <1>1, <1>3, <1>4, <1>5 DEF tomorrow, zawal, fresh

-----------------------------------------------------------------------------
(* The invariant *)

First  == place.date
Second == NextDay(place.date)

\* The year file is for the year of one of the days there were.
FileInv == FileOK(file) /\ (file.source # "none" => file.year \in {First.y, Today.y})

\* What is in the cache is of a day there was, and told of it by the engine, the rules and a file. A
\* sunrise or midnight of another source than the mosque is the engine's: of the first day no file
\* of another year can have had a part in it; of the second it is the file that is there now.
CacheInv ==
  cache # None =>
    /\ Typed(cache)
    /\ cache.date = First \/ (day = 2 /\ cache.date = Second)
    /\ engine[cache.date] # None
    /\ \A p \in Prayers : NotBefore(cache.jamat[p], cache.adhan[p], cfg.jamat[p][cache.season], cfg.jamat[p].round)
    /\ cache.astronomical = [p \in Prayers |-> engine[cache.date][p]] /\ cache.sunset = engine[cache.date].sunset
    /\ cache.source # "user" /\ (cache.date = First \/ OfItsYear) =>
         cache.sunrise = engine[cache.date].sunrise /\ cache.midnight = engine[cache.date].midnight
    /\ cache.date = Second /\ file.source # "user" /\ Second.y = First.y => cache.jamat = Computed(Second)

\* What was foretold is what is so without a file, unless an uploaded one came into it.
ToldInv == told # None /\ file.source # "user" /\ Second.y = First.y => told = Coming

IInv == Settled /\ day \in 1 .. 2 /\ FileInv /\ CacheInv /\ ToldInv

\* The two days of a behaviour.
LEMMA TodayFacts ==
  ASSUME day \in 1 .. 2
  PROVE  Today = IF day = 1 THEN First ELSE Second
<1>1. CASE day = 1
  BY <1>1 DEF Today, Dates, First
<1>2. CASE day = 2
  BY <1>2 DEF Today, Dates, Second
<1> QED BY <1>1, <1>2

\* The invariant holds at the start.
LEMMA InitIInv == Init => IInv
<1> SUFFICES ASSUME Init PROVE IInv
  OBVIOUS
<1>1. Settled
  <2> DEFINE next == NextDay(place.date)
             others == {next, [next EXCEPT !.y = place.date.y]}
  <2>1. PICK s \in [others -> place.suns] :
          sky = [d \in {place.date} \cup others |-> IF d = place.date THEN place.sun ELSE s[d]]
    BY DEF Init
  <2>2. DOMAIN sky = {place.date, next, [next EXCEPT !.y = place.date.y]}
    BY <2>1
  <2>3. \A d \in DOMAIN sky : sky[d] = place.sun \/ sky[d] \in place.suns
    BY <2>1
  <2> QED BY <2>2, <2>3 DEF Init, Settled
<1>2. FileInv
  <2>1. file.source = "none"
    BY DEF Init, NoFile
  <2> QED BY <2>1, NoFileOK DEF Init, FileInv
<1> QED BY <1>1, <1>2 DEF Init, IInv, CacheInv, ToldInv

\* What does not depend on the file or the cache stays what it is.
LEMMA Unmoved ==
  ASSUME UNCHANGED <<place, rule, cfg, sky, engine>>
  PROVE  /\ Settled => Settled'
         /\ First' = First /\ Second' = Second /\ Coming' = Coming /\ Computed(Second)' = Computed(Second)
         /\ \A f : FileOK(f) => (file' = f => FileOK(file)')
<1>1. Settled => Settled'
  BY DEF Settled
<1>2. First' = First /\ Second' = Second
  BY DEF First, Second
<1>3. \A d : Computed(d)' = Computed(d)
  BY DEF Computed, ComputedJamats, Adhan, Season
<1>4. Coming' = Coming /\ Computed(Second)' = Computed(Second)
  BY DEF Coming, Second, Computed, ComputedJamats, Adhan, Season
<1>5. ASSUME NEW f, FileOK(f), file' = f
      PROVE  FileOK(file)'
  BY <1>5 DEF FileOK, SunAgrees, Agrees, Adhan, Zawal, Computed, ComputedJamats, Season
<1> QED BY <1>1, <1>2, <1>4, <1>5

\* A file that a recalculation may be made with.
LEMMA RecalculatedStep ==
  ASSUME IInv, NEW f, NEW keep, Recalculated(f, keep), FileOK(f),
         f.source # "none" => f.year \in {First.y, Today.y},
         keep => f = file \/ file.source # "user"
  PROVE  IInv'
<1> DEFINE new == Published(f, Today)
           failed == engine[Today] = None
<1>1. /\ cache' = IF failed THEN cache ELSE new
      /\ told' = IF day = 1 /\ ~failed THEN new.tomorrow ELSE IF keep THEN told ELSE None
      /\ file' = f
      /\ UNCHANGED <<place, rule, cfg, sky, engine>> /\ day' = day
  BY DEF Recalculated
<1>2. /\ Settled' /\ First' = First /\ Second' = Second /\ Coming' = Coming
      /\ Computed(Second)' = Computed(Second) /\ FileOK(file)'
  BY <1>1, Unmoved DEF IInv
<1>3. /\ Today' = Today /\ Today = (IF day = 1 THEN First ELSE Second) /\ Today \in DOMAIN sky
      /\ First # Second /\ day \in 1 .. 2
  BY <1>1, TodayFacts, SettledFacts DEF IInv, Today, Dates, First, Second
<1>4. FileInv'
  BY <1>1, <1>2, <1>3 DEF FileInv
<1>5. ASSUME ~failed
      PROVE  /\ Typed(new) /\ new.date = Today /\ new.season = Season(Today)
             /\ \A p \in Prayers : NotBefore(new.jamat[p], new.adhan[p], cfg.jamat[p][new.season], cfg.jamat[p].round)
             /\ new.astronomical = [p \in Prayers |-> engine[Today][p]] /\ new.sunset = engine[Today].sunset
             /\ new.source = f.source
             /\ Plain(f, Today.y) =>
                  new.sunrise = engine[Today].sunrise /\ new.midnight = engine[Today].midnight
             /\ new.tomorrow = IF Today = First THEN TomorrowsJamats(f, Today) ELSE NoTimes
  BY <1>3, <1>5, PublishedFacts DEF IInv, First
<1>6. ASSUME ~failed, f.source # "user", f.source = "none" \/ f.year = Today.y
      PROVE  new.jamat = Computed(Today)
  <2>1. Plain(f, Today.y)
    BY <1>6 DEF Plain
  <2> QED BY <1>3, <1>6, <2>1, PlainPublished DEF IInv
<1> HIDE DEF new, failed
<1>7. CacheInv'
  <2>1. CASE failed
    <3>1. cache' = cache
      BY <1>1, <2>1
    <3>2. cache # None => cache.date = First
      BY <1>3, <2>1 DEF IInv, CacheInv, failed
    <3> QED BY <1>1, <1>2, <1>3, <3>1, <3>2 DEF IInv, CacheInv
  <2>2. CASE ~failed
    <3>1. cache' = new /\ new.date = Today /\ engine[Today] # None
      BY <1>1, <1>5, <2>2 DEF failed
    <3>2. new.date = First \/ (day = 2 /\ new.date = Second)
      BY <1>3, <3>1
    <3>3. /\ new.source = f.source
          /\ Plain(f, Today.y) =>
               new.sunrise = engine[Today].sunrise /\ new.midnight = engine[Today].midnight
      BY <1>5, <2>2
    <3>4. Today = First => f.source = "none" \/ f.year = Today.y
      BY <1>3
    <3>5. OfItsYear' => f.source = "none" \/ f.year = Today.y
      BY <1>1, <3>1 DEF OfItsYear
    <3>6. Today = Second /\ f.source # "user" /\ Second.y = First.y => new.jamat = Computed(Second)
      BY <1>6, <2>2
    <3>7. new.source # "user" /\ (new.date = First \/ OfItsYear') =>
            new.sunrise = engine[Today].sunrise /\ new.midnight = engine[Today].midnight
      BY <3>1, <3>3, <3>4, <3>5 DEF Plain
    <3> QED BY <1>1, <1>2, <1>5, <2>2, <3>1, <3>2, <3>6, <3>7 DEF CacheInv
  <2> QED BY <2>1, <2>2
<1>8. ToldInv'
  <2>1. CASE day = 1 /\ ~failed
    <3>1. told' = TomorrowsJamats(f, place.date)
      BY <1>1, <1>3, <1>5, <2>1 DEF First
    <3>2. f.source # "user" /\ Second.y = First.y => Plain(f, Second.y)
      BY <1>3, <2>1 DEF Plain
    <3>3. Plain(f, Second.y) => TomorrowsJamats(f, place.date) = Coming
      BY TomorrowFacts DEF IInv, Second
    <3> QED BY <1>1, <1>2, <3>1, <3>2, <3>3 DEF ToldInv
  <2>2. CASE ~(day = 1 /\ ~failed) /\ keep
    <3>1. told' = told /\ (f = file \/ file.source # "user")
      BY <1>1, <2>2
    <3> QED BY <1>1, <1>2, <3>1 DEF IInv, ToldInv
  <2>3. CASE ~(day = 1 /\ ~failed) /\ ~keep
    <3>1. told' = None
      BY <1>1, <2>3
    <3> QED BY <3>1 DEF ToldInv
  <2> QED BY <2>1, <2>2, <2>3
<1> QED BY <1>1, <1>2, <1>3, <1>4, <1>7, <1>8 DEF IInv

\* Every step keeps the invariant.
LEMMA NextIInv == IInv /\ [Next]_vars => IInv'
<1> SUFFICES ASSUME IInv, [Next]_vars PROVE IInv'
  OBVIOUS
<1>1. FileOK(file) /\ (file.source # "none" => file.year \in {First.y, Today.y})
  BY DEF IInv, FileInv
<1>2. \A y : FileOK(GenerateFullYear(y)) /\ GenerateFullYear(y).source = "firmware" /\ GenerateFullYear(y).year = y
  BY GeneratedOK DEF IInv, GenerateFullYear
<1>3. CASE Recalculate
  BY <1>1, <1>3, RecalculatedStep DEF Recalculate
<1>4. CASE Regenerate
  <2>1. Recalculated(GenerateFullYear(Today.y), TRUE) /\ file.source # "user"
    BY <1>4 DEF Regenerate
  <2> QED BY <1>2, <2>1, RecalculatedStep
<1>5. CASE HttpRegenerate
  BY <1>2, <1>5, RecalculatedStep DEF HttpRegenerate
<1>6. CASE HttpDelete
  <2>1. FileOK(NoFile) /\ NoFile.source = "none"
    BY NoFileOK DEF NoFile
  <2> QED BY <1>6, <2>1, RecalculatedStep DEF HttpDelete
<1>7. ASSUME NEW u \in Uploads, HttpUpload(u)
      PROVE  IInv'
  <2>1. FileOK(Uploaded(u, Today.y)) /\ Uploaded(u, Today.y).year = Today.y
    BY UploadedOK DEF IInv, Uploaded
  <2> QED BY <1>7, <2>1, RecalculatedStep DEF HttpUpload
<1>8. CASE Midnight
  <2>1. day = 1 /\ day' = 2 /\ UNCHANGED <<place, rule, cfg, sky, engine, file, cache, told>>
    BY <1>8 DEF Midnight
  <2>2. /\ Settled' /\ First' = First /\ Second' = Second /\ Coming' = Coming
        /\ Computed(Second)' = Computed(Second) /\ FileOK(file)'
    BY <1>1, <2>1, Unmoved DEF IInv
  <2>3. Today = First /\ First # Second
    BY <2>1, TodayFacts, SettledFacts DEF IInv, First, Second
  <2>4. FileInv'
    BY <1>1, <2>1, <2>2, <2>3 DEF FileInv
  <2>5. CacheInv'
    BY <2>1, <2>2, <2>3 DEF IInv, CacheInv
  <2> QED BY <2>1, <2>2, <2>4, <2>5 DEF IInv, ToldInv
<1>9. CASE UNCHANGED vars
  <2>1. UNCHANGED <<place, rule, cfg, sky, engine>> /\ UNCHANGED <<day, file, cache, told>>
    BY <1>9 DEF vars
  <2>2. /\ Settled' /\ First' = First /\ Second' = Second /\ Coming' = Coming
        /\ Computed(Second)' = Computed(Second) /\ FileOK(file)'
    BY <1>1, <2>1, Unmoved DEF IInv
  <2>3. Today' = Today /\ OfItsYear' = OfItsYear
    BY <2>1 DEF Today, Dates, OfItsYear
  <2>4. CacheInv'
    BY <2>1, <2>2, <2>3 DEF IInv, CacheInv
  <2> QED BY <1>1, <2>1, <2>2, <2>3, <2>4 DEF IInv, FileInv, ToldInv
<1> QED BY <1>3, <1>4, <1>5, <1>6, <1>7, <1>8, <1>9 DEF Next

\* The invariant holds throughout.
LEMMA SpecIInv == Spec => []IInv
  BY InitIInv, NextIInv, PTL DEF Spec

-----------------------------------------------------------------------------
(* Theorems *)

\* A jamat's bounds are within those of a time.
LEMMA JamatTimeIsTime ==
  ASSUME NEW source, NEW v, JamatTime(v, source)
  PROVE  v = None \/ IsTime(v, source)
<1>1. Latest = 263700
  BY SMT DEF Latest, DayLength
<1>2. CASE v = None
  BY <1>2
<1>3. CASE v \in Int /\ 0 <= v /\ v <= Latest /\ (source # "user" => v % 60 = 0)
  <2>1. Latest \in Int
    BY <1>1
  <2> HIDE DEF Latest
  <2> QED BY <1>3, <2>1 DEF IsTime
<1> QED BY <1>1, <1>2, <1>3 DEF JamatTime, TimeBy

\* Whatever is published for a day lies between its midnight and what the latest anchor, offset and
\* rounding make of its last event, in whole minutes unless a user's file says otherwise, for every
\* configuration that svc_config.c accepts and after any sequence of recalculations, regenerations,
\* uploads and deletions.
THEOREM TimesAreBounded == Spec => []TypeOK
<1>1. IInv => TypeOK
  <2> SUFFICES ASSUME IInv PROVE TypeOK
    OBVIOUS
  <2>1. file.source \in {"none", "firmware", "user"}
    BY DEF IInv, FileInv, FileOK
  <2>2. ASSUME cache # None
        PROVE  /\ \A f \in Times : \A p \in Prayers : cache[f][p] = None \/ IsTime(cache[f][p], cache.source)
               /\ \A f \in Aside \cup {"sunset"} : cache[f] = None \/ IsTime(cache[f], cache.source)
    BY <2>2, JamatTimeIsTime DEF IInv, CacheInv, Typed
  <2> QED BY <2>1, <2>2 DEF IInv, TypeOK
<1> QED BY <1>1, SpecIInv, PTL

\* What is published for a civil day is in its order, Fajr, Dhuhr, Asr, sunset, Maghrib and Isha, for
\* every method, high-latitude rule, sun and file. Sunrise and midnight are in their places among
\* them where neither a file of the mosque, which may say anything of the two, nor one of another
\* year has a part in it.
THEOREM PublishedInOrder == Spec => []InOrder
<1>1. IInv => InOrder
  <2> SUFFICES ASSUME IInv, cache # None, CivilDay(cache.date) PROVE InOrder
    BY DEF InOrder
  <2> DEFINE d == cache.date
             s == sky[d]
             m == Methods[place.method]
             t == Twilight(s, d, m, Effective(rule, s.lat, m))
             raw == engine[d]
  <2>1. d \in DOMAIN sky /\ raw # None
    BY SettledFacts DEF IInv, CacheInv, First, Second
  <2>2. /\ d \in DateOK /\ SunOK(s) /\ place.method \in DOMAIN Methods
        /\ raw = Engine(s, d, place.method, rule)
    BY <2>1, SettledFacts DEF IInv
  <2>3. t.fajr + Shift(s) >= 0 /\ t.maghrib + Shift(s) < DayLength /\ Apart(s)
    BY DEF CivilDay
  <2>4. /\ cache.astronomical = [p \in Prayers |-> raw[p]] /\ cache.sunset = raw.sunset
        /\ cache.source # "user" /\ OfItsYear => cache.sunrise = raw.sunrise /\ cache.midnight = raw.midnight
    BY DEF IInv, CacheInv
  <2> HIDE DEF d, s, raw
  <2>5. /\ raw.fajr < raw.sunrise /\ raw.sunrise < raw.dhuhr /\ raw.dhuhr < raw.asr
        /\ raw.asr < raw.sunset /\ raw.sunset <= raw.maghrib
        /\ raw.maghrib < raw.isha /\ raw.isha <= raw.midnight
    BY <2>1, <2>2, <2>3, EngineOrder DEF DateOK
  <2>6. \A p \in Prayers : cache.astronomical[p] = raw[p]
    BY <2>4
  <2>7. raw.fajr < raw.dhuhr
    <3>1. raw.fajr \in Int /\ raw.sunrise \in Int /\ raw.dhuhr \in Int
      BY <2>1, SettledFacts DEF IInv, RawOK, EngineTime, WholeMinute, Events, raw
    <3> QED BY <2>5, <3>1, SMT
  <2> QED BY <2>4, <2>5, <2>6, <2>7 DEF InOrder, Prayers
<1> QED BY <1>1, SpecIInv, PTL

\* The firmware's own file for the year never changes what the engine and the rules give: the two
\* codings of the jamats agree on every date, in every season and configuration.
THEOREM FirmwareFileAgrees == Spec => []TableAgrees
<1>1. IInv => TableAgrees
  <2> SUFFICES ASSUME IInv, file.source = "firmware", file.year = Today.y PROVE TableAgrees
    BY DEF TableAgrees
  <2> DEFINE d == Today
             with == Published(file, d)
             without == Published(NoFile, d)
  <2>1. d = (IF day = 1 THEN First ELSE Second) /\ d \in DOMAIN sky /\ First # Second
    BY TodayFacts, SettledFacts DEF IInv, First, Second
  <2>2. FileOK(file) /\ FileOK(NoFile) /\ Plain(file, d.y) /\ Plain(NoFile, d.y)
    BY NoFileOK DEF IInv, FileInv, Plain, NoFile
  <2>3. CASE engine[d] = None
    <3>1. with = None /\ without = None
      BY <2>3 DEF Published
    <3> QED BY <3>1 DEF TableAgrees
  <2>4. CASE engine[d] # None
    <3> DEFINE raw == engine[d]
               Told(f) == IF d = place.date THEN TomorrowsJamats(f, d) ELSE NoTimes
               Of(f) == [date |-> d, source |-> f.source, season |-> Season(d),
                         astronomical |-> [p \in Prayers |-> raw[p]], adhan |-> Adhan(raw),
                         sunrise |-> raw.sunrise, sunset |-> raw.sunset, midnight |-> raw.midnight,
                         yellow |-> raw.yellow, zawal |-> Zawal(raw), sehri |-> raw.fajr, iftar |-> raw.sunset,
                         jamat |-> Computed(d), tomorrow |-> Told(f)]
    <3>1. with = Of(file) /\ without = Of(NoFile)
      BY <2>1, <2>2, <2>4, PlainPublished DEF IInv
    <3>2. NextDay(d).y = d.y => Told(file) = Told(NoFile)
      <4>1. CASE d = place.date /\ NextDay(d).y = d.y
        <5>1. Plain(file, NextDay(place.date).y) /\ Plain(NoFile, NextDay(place.date).y)
          BY <2>2, <4>1 DEF Plain
        <5>2. TomorrowsJamats(file, place.date) = Coming /\ TomorrowsJamats(NoFile, place.date) = Coming
          BY <2>2, <5>1, TomorrowFacts DEF IInv
        <5> QED BY <4>1, <5>2
      <4>2. CASE d # place.date
        BY <4>2
      <4> QED BY <4>1, <4>2
    <3> HIDE DEF Told, d
    <3>3. \A f \in DOMAIN Of(file) \ {"source"} : Of(file)[f] = Of(NoFile)[f] \/ (f = "tomorrow" /\ NextDay(d).y # d.y)
      BY <3>2
    <3> QED BY <3>1, <3>3 DEF TableAgrees, d
  <2> QED BY <2>3, <2>4
<1> QED BY <1>1, SpecIInv, PTL

\* Tomorrow's jamats as announced today are tomorrow's, whatever is regenerated or deleted in between.
THEOREM ForetoldIsKept == Spec => []TomorrowKept
<1>1. IInv => TomorrowKept
  <2> SUFFICES ASSUME IInv, day = 2, told # None, cache # None, cache.date = Today,
                      file.source # "user", Today.y = place.date.y
               PROVE  cache.jamat = told
    BY DEF TomorrowKept
  <2>1. Today = Second /\ Second.y = First.y
    BY TodayFacts DEF IInv, First
  <2>2. cache.jamat = Computed(Second) /\ engine[Second] # None
    BY <2>1 DEF IInv, CacheInv
  <2>3. told = Coming
    BY <2>1 DEF IInv, ToldInv
  <2> QED BY <2>2, <2>3 DEF Coming, Second
<1> QED BY <1>1, SpecIInv, PTL

\* No jamat that is not counted back from sunrise or midnight is published before its adhan, but for
\* what its own rounding takes back.
THEOREM NeverBeforeTheAdhan == Spec => []NotBeforeAdhan
<1>1. IInv => NotBeforeAdhan
  BY DEF IInv, CacheInv, NotBefore, NotBeforeAdhan
<1> QED BY <1>1, SpecIInv, PTL
=============================================================================
