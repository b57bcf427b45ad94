---------------------------- MODULE MCPrayerDay -----------------------------
(* Days of London, Inverness, Karachi, Makkah, Reykjavik, Tromso and Sydney: the end of a year, of *)
(* February, of a season, a change of the clock and the solstice. The next day's sun rises and     *)
(* sets MaxDrift seconds apart from the day's.                                                     *)
EXTENDS PrayerDay

MaxDrift == 20

\* date, method, latitude, seconds of civil time (UTC) ahead of local mean time, UTC offsets of the
\* day and the next in minutes, and the seconds of noon, sunrise, sunset, Asr, its yellowing, Fajr,
\* Maghrib and Isha.
Rows == {
  <<<<2023, 12, 31>>, "MWL", 515, 31, 0, 0,
    <<43371, 29146, 57606, 49421, 54538, 21727, None, 64627>>>>,
  <<<<2024, 3, 24>>, "MWL", 515, 31, 0, 0,
    <<43567, 21155, 66041, 55778, 63788, 14261, None, 72538>>>>,
  <<<<2024, 3, 30>>, "MWL", 515, 31, 0, 60,
    <<43459, 20335, 66646, 56118, 64387, 13282, None, 73288>>>>,
  <<<<2024, 6, 21>>, "MOONSIGHTING", 515, 31, 60, 60,
    <<43316, 13369, 73261, 59083, 70459, None, None, None>>>>,
  <<<<2024, 6, 21>>, "JAFARIA", 515, 31, 60, 60,
    <<43316, 13369, 73261, 59083, 70459, None, 74956, 83050>>>>,
  <<<<2024, 10, 24>>, "ISNA", 515, 31, 60, 60,
    <<42248, 24009, 60439, 51407, 58006, 18444, None, 65995>>>>,
  <<<<2024, 6, 21>>, "MWL", 575, 1008, 60, 60,
    <<43316, 10861, 75768, 59868, 72172, None, None, None>>>>,
  <<<<2024, 2, 28>>, "EGYPTIAN", 575, 1008, 0, 0,
    <<43956, 25079, 62898, 53207, 60143, 16659, None, 70422>>>>,
  <<<<2023, 12, 31>>, "MOONSIGHTING", 575, 1008, 0, 0,
    <<43372, 31325, 55430, 47560, 51120, 22384, None, 64373>>>>,
  <<<<2024, 2, 29>>, "KARACHI", 249, -16080, 300, 300,
    <<43947, 23002, 64912, 55961, 63347, 18446, None, 69472>>>>,
  <<<<2024, 6, 21>>, "UMM_AL_QURA", 214, -9552, 180, 180,
    <<43314, 19129, 67499, 55305, 65848, 13849, None, None>>>>,
  <<<<2024, 3, 30>>, "MWL", 641, 5256, 0, 0,
    <<43458, 19413, 67612, 55499, 64380, 7867, None, 78381>>>>,
  <<<<2024, 6, 21>>, "MWL", 641, 5256, 0, 0,
    <<43316, 5330, 81296, 60880, 75107, None, None, None>>>>,
  <<<<2023, 12, 31>>, "MWL", 696, -4536, 60, 60,
    <<43370, None, None, None, None, 24311, None, 61720>>>>,
  <<<<2024, 3, 30>>, "JAFARIA", 696, -4536, 60, 120,
    <<43460, 18712, 68357, 55028, 64291, 3374, 70671, 80274>>>>,
  <<<<2023, 12, 31>>, "MOONSIGHTING", -339, -36288, 660, 660,
    <<43359, 17479, 69231, 56857, 67343, 11246, None, 75456>>>>}

Later(t, by) == IF t = None THEN None ELSE t + by

Sun(row, tz, by) ==
  [lat |-> row[3], ahead |-> row[4], tz |-> tz, mid |-> row[7][1],
   rise |-> Later(row[7][2], -by), set |-> Later(row[7][3], by), asr |-> Later(row[7][4], by),
   yellow |-> Later(row[7][5], by), fajr |-> Later(row[7][6], -by), maghrib |-> Later(row[7][7], by),
   isha |-> Later(row[7][8], by)]

MCPlaces ==
  {[date |-> [y |-> row[1][1], m |-> row[1][2], d |-> row[1][3]], method |-> row[2],
    sun |-> Sun(row, row[5], 0), suns |-> {Sun(row, row[6], by) : by \in {-MaxDrift, MaxDrift}}] :
     row \in Rows}

Jamat(wa, wo, sa, so, round) ==
  [winter |-> [anchor |-> wa, offset |-> wo], summer |-> [anchor |-> sa, offset |-> so], round |-> round]
Plus(wo, so, round) == Jamat("ADHAN_PLUS", wo, "ADHAN_PLUS", so, round)

\* The jamats of the UK preset, and one with every limit: a jamat a day before sunrise, rounding to
\* half hours, a summer over the new year.
MCConfigs ==
  LET uk == [fajr |-> Jamat("SUNRISE_MINUS", 45, "DISABLED", 0, 5), dhuhr |-> Plus(70, 25, 5),
             asr |-> Plus(15, 15, 5), maghrib |-> Plus(3, 3, 2), isha |-> Plus(15, 15, 5)]
  IN  {[adhan |-> [p \in Prayers |-> 0], zawal |-> 10, season |-> [summer |-> 325, winter |-> 1025], jamat |-> uk],
       [adhan |-> [p \in Prayers |-> 5], zawal |-> 0, season |-> [summer |-> 1025, winter |-> 229],
        jamat |-> [uk EXCEPT !.fajr = Jamat("DISABLED", 0, "SUNRISE_MINUS", 1440, 0), !.dhuhr = Plus(15, 40, 30), !.asr = Plus(0, 1, 5),
                             !.isha = Jamat("MIDNIGHT_MINUS", 0, "ADHAN_PLUS", 1440, 10)]]}

\* One an adhan a minute late less a second, which the tripwire lets pass, in seconds that nothing
\* rounds; one with a sunrise after noon and a midnight before dusk; one that lacks half of the days.
MCUploads == {
  [adhan |-> 59, jamat |-> None, sunrise |-> None, midnight |-> None, zawal |-> None, yellow |-> 0,
   sehri |-> -59, iftar |-> None, without |-> {}],
  [adhan |-> None, jamat |-> -2400, sunrise |-> 28801, midnight |-> -36001, zawal |-> 1,
   yellow |-> None, sehri |-> None, iftar |-> -7201, without |-> {}],
  [adhan |-> -3600, jamat |-> 600, sunrise |-> -90000, midnight |-> 200000, zawal |-> -43200,
   yellow |-> 7200, sehri |-> 0, iftar |-> 0, without |-> {1231, 324, 331, 622, 228, 301}]}
=============================================================================
