-------------------------------- MODULE Nmea --------------------------------
(***************************************************************************)
(* The NMEA sentences the adapter writes (gps/utils/loc_nmea.cpp): GSV for *)
(* the satellites in view, GSA, VTG, DTM, RMC, GNS and GGA for a position. *)
(* A sentence is a record of what its fields tell; a satellite is a record *)
(* [type, signal, id], signal "none" where the modem does not name it.     *)
(***************************************************************************)
EXTENDS Integers, FiniteSets, Sequences, SequencesExt

CONSTANTS
  Conf,             \* configurations: records [grouping, custom, datum, leap]
  View,             \* satellites in view: a set of sequences of satellites
  Fix,              \* positions: records [latlong, hasUsed, used, nav, tech, gps, timestamp]
  InView, InUse,    \* satellites in a GSV (4) and in a GSA (12)
  MaxCode,          \* MAX_TAG_BLOCK_GROUP_CODE, 99999
  LsChange,         \* GPS time of the change of the leap second, 1 s before midnight UTC + 1
  None

Constellation == {"GPS", "GLO", "GAL", "BDS", "QZSS", "NAVIC"}

VARIABLES
  conf,    \* tag blocks, customized quality, datum, the change of the leap second is known
  code,    \* static in loc_nmea_generate_GSA
  nmea,    \* nmeaArraystr, until it is reported
  given    \* history: what the call was given

vars == <<conf, code, nmea, given>>
------------------------------------------------------------------------------
(* Satellites in view. *)

Signals == <<<<"GPS", "L1CA">>, <<"GPS", "L5">>, <<"GPS", "L2">>, <<"GLO", "G1">>, <<"GLO", "G2">>,
             <<"GAL", "E1">>, <<"GAL", "E5A">>, <<"GAL", "E5B">>, <<"QZSS", "L1CA">>, <<"QZSS", "L5">>,
             <<"QZSS", "L2">>, <<"BDS", "B1I">>, <<"BDS", "B1C">>, <<"BDS", "B2AI">>, <<"NAVIC", "L5">>>>
DefaultSignal == [GPS |-> "L1CA", SBAS |-> "L1CA", GLO |-> "G1", GAL |-> "E1", QZSS |-> "L1CA",
                  BDS |-> "B1I", NAVIC |-> "L5"]
svIdOffset == [GPS |-> 0, SBAS |-> 87, GLO |-> 0, GAL |-> 300, QZSS |-> 192, BDS |-> 200, NAVIC |-> 400]
system(s) == IF s.type = "SBAS" THEN "GPS" ELSE s.type

\* The counter a satellite adds to: that of its signal, or of the default one if none
\* counts its signal.
counted_BySignal(s) ==
  IF <<system(s), s.signal>> \in ToSet(Signals) THEN <<system(s), s.signal>>
  ELSE <<system(s), DefaultSignal[s.type]>>
counted(s) ==
  LET sig == IF s.signal = "B2AQ" THEN "B2AI" ELSE s.signal
  IN IF <<system(s), sig>> \in ToSet(Signals) THEN <<system(s), sig>>
     ELSE <<system(s), DefaultSignal[s.type]>>

\* The signal its identifier names; two signals of QZSS and GPS have none, and that of
\* B2I is in no sentence.
convert_signalType_to_signalId(s) ==
  CASE s.signal \in {"L1C", "L1S"} -> None
    [] s.signal = "B2AQ" -> "B2AI"
    [] s.signal = "none" -> DefaultSignal[s.type]
    [] OTHER -> s.signal

\* The sentences of a signal: as many as its satellites counted need, and in them those
\* whose identifier is that of the signal.  From the first of SBAS on, their offset is
\* taken from every number.
loc_nmea_generate_GSV(view, signal) ==
  LET in(s) == system(s) = signal[1] /\ convert_signalType_to_signalId(s) = signal[2]
      listed == SelectSeq(view, in)
      svCount == Len(SelectSeq(view, LAMBDA s : counted(s) = signal))
      sentenceCount == (svCount + InView - 1) \div InView
      offset(i) == IF \E j \in 1 .. i : listed[j].type = "SBAS" THEN svIdOffset["SBAS"]
                   ELSE svIdOffset[listed[i].type]
      number(i) == [sat |-> listed[i], id |-> listed[i].id - offset(i)]
  IN [k \in 1 .. sentenceCount |->
       [is |-> "GSV", signal |-> signal, number |-> k, count |-> sentenceCount, svCount |-> svCount,
        sats |-> [i \in 1 .. (IF Len(listed) < InView * k THEN IF Len(listed) < InView * (k - 1) THEN 0
                              ELSE Len(listed) - InView * (k - 1) ELSE InView)
                    |-> number(InView * (k - 1) + i)]]]

loc_nmea_generate_sv(view) ==
  /\ given = <<>>
  /\ nmea' = FlattenSeq([i \in 1 .. Len(Signals) |-> loc_nmea_generate_GSV(view, Signals[i])])
  /\ given' = [view |-> view]
  /\ UNCHANGED <<conf, code>>
------------------------------------------------------------------------------
(* A position. *)

used(fix) == [c \in Constellation |-> IF fix.hasUsed THEN fix.used[c] ELSE {}]
talkerOf(fix, c) == IF Cardinality({d \in Constellation : used(fix)[d] # {}}) > 1 THEN "GN" ELSE c
count(fix, S) == Cardinality(UNION {{c} \X used(fix)[c] : c \in S})
totalSvUsedCount(fix) == count(fix, Constellation)

\* The sentences of a constellation: all of them if they are grouped, else the first.
\* The code of a group is counted on after it, but starts again within it.
loc_nmea_generate_GSA(fix, c, from) ==
  LET ids == SetToSortSeq(used(fix)[c], <)
      sentenceCount == (Len(ids) + InUse - 1) \div InUse
      grouped == Len(ids) > InUse /\ conf.grouping
      codeAt(k) == IF from = MaxCode /\ k > 1 THEN 1 ELSE from
      fixType == CASE totalSvUsedCount(fix) = 0 -> 1 [] totalSvUsedCount(fix) <= 3 -> 2 [] OTHER -> 3
  IN [sentences |->
        [k \in 1 .. (IF conf.grouping \/ sentenceCount = 0 THEN sentenceCount ELSE 1) |->
          [is |-> "GSA", talker |-> talkerOf(fix, c), system |-> c, type |-> fixType,
           group |-> IF grouped THEN [number |-> k, count |-> sentenceCount, code |-> codeAt(k)] ELSE None,
           ids |-> SubSeq(ids, InUse * (k - 1) + 1, IF InUse * k < Len(ids) THEN InUse * k ELSE Len(ids))]],
      code |-> IF grouped THEN codeAt(sentenceCount + 1) + 1 ELSE from]

InGSA == <<"GPS", "GLO", "GAL", "BDS", "QZSS">>   \* the order of their sentences
GSAs(fix) ==
  LET after[i \in 0 .. Len(InGSA)] ==
        IF i = 0 THEN [sentences |-> <<>>, code |-> code]
        ELSE LET g == loc_nmea_generate_GSA(fix, InGSA[i], after[i - 1].code)
             IN [sentences |-> after[i - 1].sentences \o g.sentences, code |-> g.code]
  IN after[Len(InGSA)]
talker(fix) ==
  LET in == SelectSeq(InGSA, LAMBDA c : used(fix)[c] # {})
  IN IF in = <<>> THEN "GPS" ELSE talkerOf(fix, Last(in))
svUsedCount(fix) == count(fix, ToSet(InGSA))

\* What a position rests on, the best first; with no coordinates it has no quality.
Corrections == <<"PPP", "RTK_FIXED", "RTK", "DGNSS", "SBAS">>
solution(fix) ==
  LET found == SelectSeq(Corrections, LAMBDA n : fix.nav # None /\ n \in fix.nav)
      tech == IF fix.tech = None THEN {} ELSE fix.tech
  IN CASE ~fix.latlong -> "none"
       [] found # <<>> -> Head(found)
       [] "satellite" \in tech -> "GNSS"
       [] "sensors" \in tech -> "DR"
       [] OTHER -> "none"
loc_nmea_get_fix_quality(fix) ==
  LET s == solution(fix)
      row(gga, rmc, vtg) == [gga |-> gga, rmc |-> rmc, vtg |-> vtg]
      plain == CASE s = "PPP" -> row("2", "P", "P") [] s = "RTK_FIXED" -> row("4", "R", "D")
                 [] s = "RTK" -> row("5", "F", "D") [] s \in {"DGNSS", "SBAS"} -> row("2", "D", "D")
                 [] s = "GNSS" -> row("1", "A", "A") [] s = "DR" -> row("6", "E", "E")
                 [] OTHER -> row("0", "N", "N")
      sensors == fix.tech # None /\ "sensors" \in fix.tech
      corrected == (fix.nav # None /\ fix.nav \ {"PPP"} # {}) \/ "satellite" \in fix.tech
      gga == IF ~conf.custom THEN <<plain.gga>>
             ELSE IF fix.nav # None /\ "PPP" \in fix.nav THEN IF sensors THEN <<"6", "9">> ELSE <<"5", "9">>
             ELSE IF sensors THEN IF corrected THEN <<"6", plain.gga>> ELSE <<"6">>
             ELSE <<plain.gga>>
  IN [gga |-> gga, rmc |-> plain.rmc, vtg |-> plain.vtg,
      gns |-> [c \in Constellation |-> IF s = "DR" \/ fix.used[c] # {} THEN plain.rmc ELSE "N"]]

\* The time: seconds from midnight, and the second written.  In the second of the change
\* it is written as the 60th of the day before.
get_utctime_with_leapsecond_transition(fix) ==
  LET inTransition == fix.gps # None /\ conf.leap /\ fix.gps = LsChange
  IN IF inTransition THEN [day |-> 0, second |-> 60]
     ELSE IF fix.timestamp < 0 THEN [day |-> 0, second |-> 60 + fix.timestamp]
     ELSE [day |-> 1, second |-> fix.timestamp]

VTG(fix) == [is |-> "VTG", talker |-> talker(fix), mode |-> loc_nmea_get_fix_quality(fix).vtg]
DTM(fix) == [is |-> "DTM", talker |-> talker(fix), datum |-> conf.datum]
RMC(fix) ==
  [is |-> "RMC", talker |-> talker(fix), time |-> get_utctime_with_leapsecond_transition(fix),
   status |-> IF \E c \in Constellation \ {"NAVIC"} : used(fix)[c] # {} THEN "A" ELSE "V",
   place |-> fix.latlong, mode |-> loc_nmea_get_fix_quality(fix).rmc]
GNS(fix) ==
  [is |-> "GNS", talker |-> talker(fix), time |-> get_utctime_with_leapsecond_transition(fix),
   place |-> fix.latlong, modes |-> loc_nmea_get_fix_quality(fix).gns, svUsed |-> svUsedCount(fix)]
GGA(fix) ==
  [is |-> "GGA", talker |-> talker(fix), time |-> get_utctime_with_leapsecond_transition(fix),
   place |-> fix.latlong, quality |-> loc_nmea_get_fix_quality(fix).gga,
   svUsed |-> IF svUsedCount(fix) > InUse THEN InUse ELSE svUsedCount(fix)]
emptyGSA == [is |-> "GSA", talker |-> "GPS", system |-> None, type |-> 1, group |-> None, ids |-> <<>>]

\* In the datum PZ90 a DTM goes before each sentence with coordinates.
loc_nmea_generate_pos(fix) ==
  LET gsa == GSAs(fix)
      dtm == <<DTM(fix)>>
      again == IF conf.datum = "PZ90" THEN dtm ELSE <<>>
  IN /\ given = <<>>
     /\ nmea' = (IF gsa.sentences = <<>> THEN <<emptyGSA>> ELSE gsa.sentences)
                \o <<VTG(fix)>> \o dtm \o <<RMC(fix)>> \o again \o <<GNS(fix)>> \o again \o <<GGA(fix)>>
     /\ code' = gsa.code
     /\ given' = [fix |-> fix]
     /\ UNCHANGED conf
------------------------------------------------------------------------------
\* The sentences are given to the clients, as one text.
reportNmea == given # <<>> /\ nmea' = <<>> /\ given' = <<>> /\ UNCHANGED <<conf, code>>

Init ==
  /\ conf \in Conf
  /\ code = 1 /\ nmea = <<>> /\ given = <<>>
Next ==
  \/ \E view \in View : loc_nmea_generate_sv(view)
  \/ \E fix \in Fix : loc_nmea_generate_pos(fix)
  \/ reportNmea
Spec == Init /\ [][Next]_vars
------------------------------------------------------------------------------
Moments == {[gps |-> f.gps, timestamp |-> f.timestamp] : f \in Fix}
sentences(is) == SelectSeq(nmea, LAMBDA m : m.is = is)
first(is) == Head(sentences(is))

\* Every satellite in view is in one sentence, under its own number, and the sentences of
\* a signal number and count themselves and their satellites.  Signals with no sentence
\* (L1C, L1S, B2I) are counted and not told (loc_nmea.cpp:2155), and a satellite of GPS
\* after one of SBAS has a wrong number (:849).
ViewTold ==
  "view" \in DOMAIN given =>
    LET view == given.view
        told(k) == convert_signalType_to_signalId(view[k]) \notin {None, "B2I"}
        in(k) == {<<m, i>> \in (1 .. Len(nmea)) \X (1 .. InView) :
                    i <= Len(nmea[m].sats) /\ nmea[m].sats[i].sat = view[k]}
        id(k) == view[k].id - svIdOffset[view[k].type]
    IN /\ \A k \in 1 .. Len(view) :
            /\ Cardinality(in(k)) = IF told(k) THEN 1 ELSE 0
            /\ \A e \in in(k) : \/ nmea[e[1]].sats[e[2]].id = id(k)
                                \/ view[k].type = "GPS" /\ \E j \in 1 .. k - 1 : view[j].type = "SBAS"
       /\ \A m \in 1 .. Len(nmea) :
            LET group == SelectSeq(nmea, LAMBDA n : n.signal = nmea[m].signal)
            IN /\ nmea[m].count = Len(group) /\ group[nmea[m].number] = nmea[m]
               /\ \/ nmea[m].svCount = Cardinality({<<n, i>> \in (1 .. Len(group)) \X (1 .. InView) :
                                                      i <= Len(group[n].sats)})
                  \/ \E k \in 1 .. Len(view) : ~told(k)

\* The satellites a position used are listed once each, under a talker that says whether
\* several constellations were used; the codes tell the groups of sentences apart until
\* they start again (:678).  NAVIC has no GSA, and without tag blocks only the first
\* sentence is sent.
UsedTold ==
  "fix" \in DOMAIN given =>
    LET gsa == sentences("GSA")
        groups == {m \in 1 .. Len(gsa) : gsa[m].group # None}
        listed(c) == {<<m, i>> \in (1 .. Len(gsa)) \X (1 .. InUse) : gsa[m].system = c /\ i <= Len(gsa[m].ids)}
    IN /\ \A c \in Constellation \ {"NAVIC"} :
            LET ids == {gsa[e[1]].ids[e[2]] : e \in listed(c)}
                all == used(given.fix)[c]
            IN /\ Cardinality(ids) = Cardinality(listed(c)) /\ ids \subseteq all
               /\ ids = all \/ (~conf.grouping /\ Cardinality(ids) = InUse)
       /\ \A m, n \in groups : \/ (gsa[m].system = gsa[n].system) <=> (gsa[m].group.code = gsa[n].group.code)
                               \/ \E k \in groups : gsa[k].group.code = MaxCode
       /\ \A m \in 1 .. Len(nmea) : nmea[m].talker = talker(given.fix)

\* The sentences of a position agree: a position that GGA calls no fix has no mode in VTG,
\* RMC and GNS and is called one by none of them; only without coordinates does the
\* customized quality call a fix what is none (loc_nmea.cpp:1264).
FixAgrees ==
  "fix" \in DOMAIN given =>
    LET none == first("RMC").mode = "N"
        gga == first("GGA").quality
    IN /\ none <=> first("VTG").mode = "N"
       /\ gga = <<"0">> => none
       /\ none => gga = <<"0">> \/ (conf.custom /\ ~given.fix.latlong)
       /\ none => \A c \in Constellation : first("GNS").modes[c] = "N"
       /\ first("GGA").svUsed <= first("GNS").svUsed

\* Across a leap second that the modem announced, a later position is written with a later
\* time: 59, 60, 0.
TimeAdvances ==
  conf.leap /\ "fix" \in DOMAIN given =>
    \A m \in Moments : m.gps # None /\ given.fix.gps # None /\ m.gps < given.fix.gps =>
      LET s == get_utctime_with_leapsecond_transition(m)
          t == first("GGA").time
      IN s.day < t.day \/ (s.day = t.day /\ s.second < t.second)

SentencesTell == ViewTold /\ UsedTold /\ FixAgrees /\ TimeAdvances
==============================================================================
