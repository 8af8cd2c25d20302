----------------------------- MODULE SystemStatus -----------------------------
(***************************************************************************)
(* What the engine last said of itself: the debug sentences of the modem   *)
(* ($PQWM1, $PQWP1 to 7, $PQWS1) and its positions go into short           *)
(* histories, of which the debug report of the framework and the           *)
(* measurements read the last entries.  One value stands for all the       *)
(* fields of a sentence that no reader tells apart.  Every operation holds *)
(* mMutexSystemStatus and is one step.                                     *)
(***************************************************************************)
EXTENDS Integers, Sequences, SequencesExt

CONSTANTS
  Sentence,    \* what the modem sends: records [kind, star, size, val]
  Place,       \* positions, 0 the one of all zeros
  MaxItem,     \* SystemStatusItemBase::maxItem, 5 in the code
  MaxReports,  \* bound: reports and deletions in a behaviour
  None

Item == {"Location", "TimeAndClock", "XoState", "RfAndParams", "ErrRecovery", "InjectedPosition",
         "BestPosition", "Xtra", "Ephemeris", "SvHealth", "Pdr", "NavData", "PositionFailure"}
Constellation == {"GPS", "GLO", "BDS", "GAL", "QZSS", "NAVIC"}
Num == [GPS |-> 32, GLO |-> 24, BDS |-> 37, GAL |-> 36, QZSS |-> 5, NAVIC |-> 14]
SV_ALL_NUM_MIN == Num["GPS"] + Num["GLO"] + Num["QZSS"] + Num["BDS"] + Num["GAL"]
SV_ALL_NUM == SV_ALL_NUM_MIN + Num["NAVIC"]

VARIABLES
  cache,    \* mCache: Item -> Seq([val, mValid, mUtcReported])
  reports,  \* reports so far, which is the time
  told      \* ghost: Item -> its last report since the start or the deletion of all
            \* aiding data, [val, at], or None; val is None if it was cut short

vars == <<cache, reports, told>>
------------------------------------------------------------------------------
\* The fields of a sentence end at the '*' before the checksum.
Fields(s) == IF s.star THEN s.size ELSE 0
Values(kind) == {s.val : s \in {t \in Sentence : t.kind = kind}}

\* What a parser may find.  The first clears its result before it counts the fields; the
\* others return before they do, and what is then stored is what the memory held.
PQWM1parser(s) ==
  LET n == Fields(s)
      v == IF n > 22 THEN s.val ELSE [tow |-> 0, agc |-> 0, rec |-> 0]
  IN {[v |-> v, leap |-> n > 24, amps |-> n > 30, uncNs |-> n > 31]}
PQWP1parser(s) == IF Fields(s) < 9 THEN Values(s.kind) ELSE {s.val}
PQWP2parser(s) == IF Fields(s) < 7 THEN Values(s.kind) ELSE {s.val}
PQWP3parser(s) == IF Fields(s) < 13 THEN Values(s.kind) ELSE {s.val}
PQWP4parser(s) == IF Fields(s) < 7 THEN Values(s.kind) ELSE {s.val}
PQWP5parser(s) == IF Fields(s) < 17 THEN Values(s.kind) ELSE {s.val}
PQWP6parser(s) == IF Fields(s) < 3 THEN Values(s.kind) ELSE {s.val}
Nav(v, limit) == [v |-> v, limit |-> IF v = 0 THEN SV_ALL_NUM ELSE limit]
PQWP7parser(s) ==
  IF Fields(s) < 2 + 3 * SV_ALL_NUM_MIN
  THEN {Nav(v, limit) : v \in Values(s.kind), limit \in {SV_ALL_NUM_MIN, SV_ALL_NUM}}
  ELSE {Nav(s.val, IF Fields(s) < 2 + 3 * SV_ALL_NUM THEN SV_ALL_NUM_MIN ELSE SV_ALL_NUM)}
PQWS1parser(s) == IF Fields(s) < 4 THEN Values(s.kind) ELSE {s.val}

\* The items made of it.
TimeAndClock(p) == [tow |-> p.v.tow, leap |-> p.leap, uncNs |-> p.uncNs]
RfAndParams(p) == [agc |-> p.v.agc, amps |-> p.amps]
Items(s) ==
  CASE s.kind = "PQWM1" -> {[TimeAndClock |-> TimeAndClock(p), XoState |-> p.v.agc,
                             RfAndParams |-> RfAndParams(p), ErrRecovery |-> p.v.rec] : p \in PQWM1parser(s)}
    [] s.kind = "PQWP1" -> {[InjectedPosition |-> p] : p \in PQWP1parser(s)}
    [] s.kind = "PQWP2" -> {[BestPosition |-> p] : p \in PQWP2parser(s)}
    [] s.kind = "PQWP3" -> {[Xtra |-> p] : p \in PQWP3parser(s)}
    [] s.kind = "PQWP4" -> {[Ephemeris |-> p] : p \in PQWP4parser(s)}
    [] s.kind = "PQWP5" -> {[SvHealth |-> p] : p \in PQWP5parser(s)}
    [] s.kind = "PQWP6" -> {[Pdr |-> p] : p \in PQWP6parser(s)}
    [] s.kind = "PQWP7" -> {[NavData |-> p] : p \in PQWP7parser(s)}
    [] s.kind = "PQWS1" -> {[PositionFailure |-> p] : p \in PQWS1parser(s)}
    [] OTHER -> {<<>>}
Needed == [PQWM1 |-> 0, PQWP1 |-> 9, PQWP2 |-> 7, PQWP3 |-> 13, PQWP4 |-> 7, PQWP5 |-> 17,
           PQWP6 |-> 3, PQWP7 |-> 2 + 3 * SV_ALL_NUM_MIN, PQWS1 |-> 4, PQWX |-> 0]

Complete(s) == Fields(s) >= Needed[s.kind]

\* What an entry is compared by; the values of a reset, which for a position is whatever
\* the memory holds.
equals(i, a, b) == IF i = "Location" THEN a.place = b.place ELSE a = b
Zero(i) ==
  CASE i = "TimeAndClock" -> {[tow |-> 0, leap |-> FALSE, uncNs |-> FALSE]}
    [] i = "RfAndParams" -> {[agc |-> 0, amps |-> FALSE]}
    [] i = "NavData" -> {Nav(0, SV_ALL_NUM)}
    [] i = "Location" -> {[place |-> p, speed |-> 0] : p \in Place}
    [] OTHER -> {0}

Pushed_DropsNewest(report, e) ==
  LET r == Append(report, e) IN IF Len(r) > MaxItem THEN Front(r) ELSE r
Pushed(report, e) ==
  LET r == Append(report, e) IN IF Len(r) > MaxItem THEN Tail(r) ELSE r
setIteminReport(i, report, val) ==
  IF i = "ErrRecovery" /\ val = 0 THEN report
  ELSE IF report # <<>> /\ equals(i, Last(report).val, val)
  THEN [report EXCEPT ![Len(report)].mUtcReported = reports']
  ELSE Pushed(report, [val |-> val, mValid |-> TRUE, mUtcReported |-> reports'])
setDefaultIteminReport(report, val) ==
  Pushed(report, [val |-> val, mValid |-> FALSE, mUtcReported |-> reports'])
------------------------------------------------------------------------------
Init ==
  /\ cache = [i \in Item |-> <<>>] /\ reports = 0 /\ told = [i \in Item |-> None]

counted == reports < MaxReports /\ reports' = reports + 1

\* A sentence of the modem; one of an unknown kind is taken and changes nothing.
setNmeaString(s) ==
  /\ counted
  /\ \E found \in Items(s) :
       /\ cache' = [i \in Item |-> IF i \in DOMAIN found
                                   THEN setIteminReport(i, cache[i], found[i]) ELSE cache[i]]
       /\ told' = [i \in Item |->
            IF i \notin DOMAIN found \/ (i = "ErrRecovery" /\ found[i] = 0) THEN told[i]
            ELSE [val |-> IF Complete(s) THEN found[i] ELSE None, at |-> reports']]

\* A position of the engine, while a session runs and no engine hub takes it.
eventPosition(place, speed) ==
  LET val == [place |-> place, speed |-> speed]
  IN /\ counted
     /\ cache' = [cache EXCEPT !["Location"] = setIteminReport("Location", @, val)]
     /\ told' = [told EXCEPT !["Location"] = [val |-> val, at |-> reports']]

\* All aiding data is deleted.
setDefaultGnssEngineStates ==
  /\ counted
  /\ \E p \in Zero("Location") :
       cache' = [i \in Item |->
         setDefaultIteminReport(cache[i], IF i = "Location" THEN p ELSE CHOOSE z \in Zero(i) : TRUE)]
  /\ told' = [i \in Item |-> None]

Next ==
  \/ \E s \in Sentence : setNmeaString(s)
  \/ \E p \in Place, v \in 0 .. 1 : eventPosition(p, v)
  \/ setDefaultGnssEngineStates

Spec == Init /\ [][Next]_vars
------------------------------------------------------------------------------
\* The readers, on a thread of the framework or on the message thread.
getReport == [i \in Item |-> IF cache[i] = <<>> THEN <<>> ELSE <<Last(cache[i])>>]

svid_idx(c) ==
  CASE c = "GPS" -> 0
    [] c = "GLO" -> Num["GPS"]
    [] c = "BDS" -> Num["GPS"] + Num["GLO"]
    [] c = "GAL" -> Num["GPS"] + Num["GLO"] + Num["BDS"]
    [] c = "QZSS" -> Num["GPS"] + Num["GLO"] + Num["BDS"] + Num["GAL"]
    [] c = "NAVIC" -> Num["GPS"] + Num["GLO"] + Num["QZSS"] + Num["BDS"] + Num["GAL"]
\* The satellites of a constellation, each with the ephemeris, health and prediction told;
\* no sentence tells of the health or the prediction of NAVIC.
convertSatelliteInfo(c) ==
  LET r == getReport
      of(i) == IF r[i] = <<>> \/ c = "NAVIC" THEN 0 ELSE r[i][1].val
      nav(k) == IF r["NavData"] # <<>> /\ k < r["NavData"][1].val.limit
                THEN r["NavData"][1].val.v ELSE 0
  IN {[ephemeris |-> nav(svid_idx(c) + k), health |-> of("SvHealth"), predicted |-> of("Xtra")] :
        k \in {j \in 0 .. Num[c] - 1 : svid_idx(c) + j < SV_ALL_NUM}}

getDebugReport ==
  LET r == getReport
      valid(i) == r[i] # <<>> /\ r[i][1].mValid
      at(i, place) == [place |-> place, mUtcReported |-> r[i][1].mUtcReported]
  IN [mLocation |-> IF valid("Location") THEN at("Location", r["Location"][1].val.place)
                    ELSE IF valid("BestPosition") THEN at("BestPosition", r["BestPosition"][1].val)
                    ELSE None,
      mTime |-> IF r["TimeAndClock"] # <<>> /\ r["TimeAndClock"][1].val.tow # 0
                THEN r["TimeAndClock"][1].val ELSE None,
      mSatelliteInfo |-> [c \in Constellation |-> convertSatelliteInfo(c)]]

\* What the framework is given: the age of the position instead of its time.
getDebugData ==
  LET r == getDebugReport
  IN [position |-> IF r.mLocation = None THEN None
                   ELSE [place |-> r.mLocation.place, ageSeconds |-> reports - r.mLocation.mUtcReported],
      time |-> r.mTime, satelliteDataArray |-> r.mSatelliteInfo]

\* The gain given to measurements made at a time of the week, None if it is not known.
getAgcInformation(msInWeek) ==
  LET r == getReport
  IN IF r["RfAndParams"] # <<>> /\ r["TimeAndClock"] # <<>> /\ r["TimeAndClock"][1].val.tow = msInWeek
     THEN r["RfAndParams"][1].val.agc ELSE None
------------------------------------------------------------------------------
\* The debug report tells the last position reported since the aiding data was deleted, and
\* its age; if the engine has reported none, the last estimate it gave.  A position equal
\* to what the deletion left in memory stays unknown, and so does an estimate of all
\* zeros (SystemStatus.cpp:1361 compares neither with mValid).
PositionTold ==
  LET p == getDebugData.position
      matches(i, place) ==
        \/ p = [place |-> place, ageSeconds |-> reports - told[i].at]
        \/ ~Last(cache[i]).mValid
  IN IF told["Location"] # None THEN matches("Location", told["Location"].val.place)
     ELSE CASE told["BestPosition"] = None -> p = None
            [] OTHER -> told["BestPosition"].val # None => matches("BestPosition", told["BestPosition"].val)

\* It tells the time of the last sentence that held one, and every satellite with its
\* ephemeris, health and prediction of the last complete sentences.
EngineTold ==
  LET d == getDebugData
      last(i, c) == IF told[i] = None \/ c = "NAVIC" THEN 0 ELSE told[i].val
      whole(i) == told[i] # None => told[i].val # None
      nav == told["NavData"]
  IN /\ d.time = IF told["TimeAndClock"] = None \/ told["TimeAndClock"].val.tow = 0 THEN None
                 ELSE told["TimeAndClock"].val
     /\ \A c \in Constellation : \A s \in d.satelliteDataArray[c] :
          /\ whole("SvHealth") => s.health = last("SvHealth", c)
          /\ whole("Xtra") => s.predicted = last("Xtra", c)
          /\ whole("NavData") =>
               s.ephemeris = IF nav = None \/ (c = "NAVIC" /\ nav.val.limit < SV_ALL_NUM)
                             THEN 0 ELSE nav.val.v

\* The gain given to measurements is that of the sentence of their time.
GainTold ==
  \A t \in {v.tow : v \in Values("PQWM1")} \ {0} :
    getAgcInformation(t) = IF told["TimeAndClock"] # None /\ told["TimeAndClock"].val.tow = t
                           THEN told["RfAndParams"].val.agc ELSE None

\* The last entry of every history is the last complete report, with its time.
LatestHeld ==
  \A i \in Item \ {"Location"} : told[i] # None /\ told[i].val # None =>
    Last(cache[i]).val = told[i].val /\ Last(cache[i]).mUtcReported = told[i].at

StatusFollows == PositionTold /\ EngineTold /\ GainTold /\ LatestHeld
==============================================================================
