----------------------------- MODULE Helpers_proofs -----------------------------
(***************************************************************************)
(* What five helpers compute, for every input: mode 01 read back by a scan *)
(* tool, the check digit of a vehicle number, the files of the log, the    *)
(* fault memory, and the keys made of seeds.                               *)
(***************************************************************************)
EXTENDS Obd, VinDecoder, LogFiles, FaultMemory, SeedKey, FunctionTheorems, FiniteSetTheorems,
        SequenceTheorems, WellFoundedInduction, TLAPS

-----------------------------------------------------------------------------
(* Mode 01. *)

\* The answer was computed from the value behind the request: that of a sensor,
\* a whole number of seconds or kilometres, or zero.
AnswerSent ==
  /\ pid \in Pids /\ sensor \in Int
  /\ pid \notin Sensors \cup CounterPids => sensor = 0
  /\ pid \in CounterPids => \E n \in Nat : sensor = 1000 * n
  /\ \E n \in Encodings(pid, sensor) : answer = handleMode01(pid, n)

LEMMA EncodedType ==
  ASSUME NEW p, NEW v \in Int
  PROVE  Encoded(p, v) \in Int
BY DEF Encoded

LEMMA PidsAre ==
  Pids = {"x04", "x05", "x06", "x07", "x08", "x09", "x0A", "x0B", "x0C", "x0D", "x0E", "x0F",
          "x10", "x11", "x14", "x15", "x1C", "x1F", "x21", "x22", "x2F", "x31", "x33", "x42",
          "x43", "x44", "x45", "x46", "x5C"}
BY DEF Pids, Formula

\* A request starts nowhere but at a value the sensors give.
LEMMA AnswerInvariance == ObdInit /\ [][ObdNext]_obdVars => []AnswerSent
<1>1. ObdInit => AnswerSent
  <2> SUFFICES ASSUME ObdInit PROVE AnswerSent
      OBVIOUS
  <2>1. pid = "x0C" /\ sensor = 0 /\ answer = handleMode01(pid, 0)
      BY DEF ObdInit
  <2>2. 0 \in Encodings(pid, sensor)
      BY <2>1 DEF Encodings, Encoded
  <2> QED BY <2>1, <2>2, PidsAre DEF AnswerSent, Sensors, CounterPids
<1>2. AnswerSent /\ [ObdNext]_obdVars => AnswerSent'
  <2>1. ASSUME NEW p \in Pids, NEW v \in Values(p), pid' = p, sensor' = v,
               \E n \in Encodings(p, v) : answer' = handleMode01(p, n)
        PROVE  AnswerSent'
    <3>1. v \in Int
      <4>1. CASE p \in Sensors
          BY <4>1, ObdAssumption DEF Values
      <4>2. CASE p \in CounterPids
          BY <4>2, ObdAssumption DEF Values, Sensors, CounterPids
      <4>3. CASE p \notin Sensors \cup CounterPids
          BY <4>3 DEF Values
      <4> QED BY <4>1, <4>2, <4>3
    <3>2. p \notin Sensors \cup CounterPids => v = 0
        BY DEF Values
    <3>3. p \in CounterPids => \E n \in Nat : v = 1000 * n
        BY ObdAssumption DEF Values, Sensors, CounterPids
    <3>4. (\E n \in Encodings(pid, sensor) : answer = handleMode01(pid, n))'
        BY <2>1 DEF Encodings, Encoded, handleMode01, TwoBytes, Inexact, Resolution, Formula
    <3> QED BY <2>1, <3>1, <3>2, <3>3, <3>4 DEF AnswerSent
  <2>2. CASE UNCHANGED obdVars
      BY <2>2 DEF obdVars, AnswerSent
  <2> QED BY <2>1, <2>2 DEF ObdNext
<1> QED BY <1>1, <1>2, PTL

\* The number a scan tool puts together from two bytes is the one that was sent.
LEMMA TwoBytesRead ==
  ASSUME NEW n \in Int
  PROVE  /\ n \div 256 \in Int /\ n % 256 \in Int
         /\ (n \div 256) * 256 + (n % 256) = n
OBVIOUS

\* The number sent is the encoded one, or the one below a whole one.
OffByOne(n, e) ==
  n = e \/ (pid \in Inexact /\ n = e - 1 /\ sensor % Resolution(pid) = 0)

LEMMA EncodedOffByOne ==
  ASSUME sensor \in Int, NEW n \in Encodings(pid, sensor)
  PROVE  n \in Int /\ OffByOne(n, Encoded(pid, sensor))
BY EncodedType DEF Encodings, OffByOne

LEMMA WordsRead ==
  ASSUME AnswerSent, TwoBytes(pid), pid # "x22"
  PROVE  ScannerReadsSensor
<1> DEFINE e == Encoded(pid, sensor)
           m == answer[1] * 256 + answer[2]
<1>0. PICK n \in Encodings(pid, sensor) : answer = handleMode01(pid, n)
    BY DEF AnswerSent
<1>1. sensor \in Int /\ e \in Int /\ n \in Int /\ OffByOne(n, e)
    BY EncodedType, EncodedOffByOne DEF AnswerSent
<1>2. answer = <<n \div 256, n % 256>>
    BY <1>0 DEF handleMode01
<1>3. m = n
    BY <1>1, <1>2, TwoBytesRead
<1> HIDE DEF m
<1>4. CASE pid = "x0C"
  <2>1. Decoded(pid, answer) = 250 * m /\ e = (4 * sensor) \div 1000
      BY <1>4 DEF Decoded, Encoded, Formula, m
  <2>2. Resolution(pid) = 250 /\ n = e
      BY <1>1, <1>4 DEF Resolution, Formula, OffByOne, Inexact
  <2> QED BY <1>1, <1>3, <2>1, <2>2 DEF ScannerReadsSensor
<1>5. CASE pid = "x10"
  <2>1. Decoded(pid, answer) = 10 * m /\ e = sensor \div 10
      BY <1>5 DEF Decoded, Encoded, Formula, m
  <2>2. Resolution(pid) = 10 /\ pid \in Inexact
      BY <1>5 DEF Resolution, Formula, Inexact
  <2>3. n = e \/ (n = e - 1 /\ sensor % 10 = 0)
      BY <1>1, <2>2 DEF OffByOne
  <2> QED BY <1>1, <1>3, <2>1, <2>2, <2>3 DEF ScannerReadsSensor
<1>6. CASE pid = "x42"
  <2>1. Decoded(pid, answer) = m /\ e = sensor
      BY <1>6 DEF Decoded, Encoded, Formula, m
  <2>2. Resolution(pid) = 1 /\ pid \in Inexact
      BY <1>6 DEF Resolution, Formula, Inexact
  <2>3. n = e \/ n = e - 1
      BY <1>1 DEF OffByOne
  <2> QED BY <1>1, <1>3, <2>1, <2>2, <2>3 DEF ScannerReadsSensor
<1>7. CASE pid \in CounterPids
  <2>1. Decoded(pid, answer) = 1000 * m /\ e = sensor \div 1000
      BY <1>7 DEF Decoded, Encoded, Formula, m, CounterPids
  <2>2. Resolution(pid) = 1000 /\ n = e
      BY <1>1, <1>7 DEF Resolution, Formula, CounterPids, OffByOne, Inexact
  <2> QED BY <1>1, <1>3, <2>1, <2>2 DEF ScannerReadsSensor
<1>8. CASE pid \in {"x43", "x44"}
  <2>1. sensor = 0
      BY <1>8 DEF AnswerSent, Sensors, CounterPids
  <2>2. n = 0
      BY <1>1, <1>8, <2>1 DEF Encoded, OffByOne, Inexact
  <2>3. Decoded(pid, answer) = 0 /\ Resolution(pid) = 1000
      BY <1>3, <1>8, <2>2 DEF Decoded, Resolution, Formula, m
  <2> QED BY <2>1, <2>3 DEF ScannerReadsSensor
<1> QED BY <1>4, <1>5, <1>6, <1>7, <1>8 DEF TwoBytes, CounterPids

LEMMA BytesRead ==
  ASSUME AnswerSent, ~TwoBytes(pid), pid \notin Disagreeing
  PROVE  ScannerReadsSensor
<1> DEFINE e == Encoded(pid, sensor)
           a == answer[1]
<1>0. PICK n \in Encodings(pid, sensor) : answer = handleMode01(pid, n)
    BY DEF AnswerSent
<1>1. sensor \in Int /\ e \in Int /\ n \in Int /\ OffByOne(n, e)
    BY EncodedType, EncodedOffByOne DEF AnswerSent
<1>2. a = n
    BY <1>0 DEF handleMode01
<1> HIDE DEF a
<1>3. CASE pid \in {"x05", "x0F", "x46", "x5C"}
  <2>1. Decoded(pid, answer) = 1000 * (a - 40) /\ e = (sensor + 40000) \div 1000
      BY <1>3 DEF Decoded, Encoded, Formula, a
  <2>2. Resolution(pid) = 1000 /\ n = e
      BY <1>1, <1>3 DEF Resolution, Formula, OffByOne, Inexact
  <2> QED BY <1>1, <1>2, <2>1, <2>2 DEF ScannerReadsSensor
<1>4. CASE pid \in {"x0B", "x0D", "x1C", "x33"}
  <2>1. Decoded(pid, answer) = 1000 * a /\ e = sensor \div 1000
      BY <1>4 DEF Decoded, Encoded, Formula, a
  <2>2. Resolution(pid) = 1000 /\ n = e
      BY <1>1, <1>4 DEF Resolution, Formula, OffByOne, Inexact
  <2> QED BY <1>1, <1>2, <2>1, <2>2 DEF ScannerReadsSensor
<1>5. CASE pid \in {"x14", "x15"}
  <2>1. Decoded(pid, answer) = 5 * a /\ e = sensor \div 5
      BY <1>5 DEF Decoded, Encoded, Formula, a
  <2>2. Resolution(pid) = 5 /\ pid \in Inexact
      BY <1>5 DEF Resolution, Formula, Inexact
  <2>3. n = e \/ (n = e - 1 /\ sensor % 5 = 0)
      BY <1>1, <2>2 DEF OffByOne
  <2> QED BY <1>1, <1>2, <2>1, <2>2, <2>3 DEF ScannerReadsSensor
<1>6. CASE pid \in {"x0A", "x45"}
  <2>1. sensor = 0
      BY <1>6 DEF AnswerSent, Sensors, CounterPids
  <2>2. n = 0
      BY <1>1, <1>6, <2>1 DEF Encoded, OffByOne, Inexact
  <2>3. Decoded(pid, answer) = 0
      BY <1>2, <1>6, <2>2 DEF Decoded, Formula, a
  <2>4. Resolution(pid) \in {1000, 3000}
      BY <1>6 DEF Resolution, Formula
  <2> QED BY <2>1, <2>3, <2>4 DEF ScannerReadsSensor
<1> QED BY <1>3, <1>4, <1>5, <1>6, PidsAre DEF AnswerSent, TwoBytes, Disagreeing

\* Whatever the sensors read, a scan tool shows it, rounded down to what the
\* bytes can tell or one step below where floats may lose one, for every PID
\* but the nine that are encoded otherwise.
THEOREM ScanToolShowsSensor == ObdSpec => []ScannerReadsSensor
<1>1. AnswerSent => ScannerReadsSensor
  <2>1. ASSUME pid \in Disagreeing PROVE ScannerReadsSensor
      BY <2>1 DEF ScannerReadsSensor
  <2> QED BY <2>1, WordsRead, BytesRead DEF Disagreeing
<1> QED BY <1>1, AnswerInvariance, PTL DEF ObdSpec

-----------------------------------------------------------------------------
(* The check digit. *)

\* A set that holds zero and, with a number, the next one, holds every number.
LEMMA SetInduction ==
  ASSUME NEW S, 0 \in S, \A n \in Nat : n \in S => n + 1 \in S
  PROVE  \A n \in Nat : n \in S
<1> SUFFICES ASSUME NEW T, T = Nat \ S, T # {} PROVE FALSE
    OBVIOUS
<1> DEFINE R == OpToRel(<, Nat)
<1>1. IsWellFoundedOn(R, Nat)
    BY NatLessThanWellFounded
<1>2. \A x, y \in Nat : x < y => <<x, y>> \in R
    BY DEF OpToRel
<1> HIDE DEF R
<1>3. PICK m \in T : \A y \in T : ~(<<y, m>> \in R)
    BY <1>1, WFMin
<1>4. m \in Nat /\ m # 0
    BY <1>3
<1>5. m - 1 \in Nat /\ m - 1 < m
    BY <1>4
<1>6. m - 1 \in S
    BY <1>2, <1>3, <1>4, <1>5
<1>7. (m - 1) + 1 \in S
    BY <1>5, <1>6
<1> QED BY <1>3, <1>4, <1>7

\* The sums exist, so that the definition says what each of them is.
LEMMA SumsStep ==
  ASSUME NEW v
  PROVE  Sums(v) = [i \in 0..17 |-> IF i = 0 THEN 0 ELSE Sums(v)[i - 1] + Term(v, i)]
<1> DEFINE Holds(f, n) == f = [i \in 0..n |-> IF i = 0 THEN 0 ELSE f[i - 1] + Term(v, i)]
           S == {n \in Nat : \E f : Holds(f, n)}
<1>1. 0 \in S
  <2>1. Holds([i \in 0..0 |-> 0], 0)
      OBVIOUS
  <2> QED BY <2>1
<1>2. ASSUME NEW n \in Nat, n \in S PROVE n + 1 \in S
  <2>1. PICK f : Holds(f, n)
      BY <1>2
  <2> DEFINE g == [i \in 0..(n + 1) |-> IF i = n + 1 THEN f[n] + Term(v, n + 1) ELSE f[i]]
  <2>2. ASSUME NEW i \in 0..(n + 1)
        PROVE  g[i] = IF i = 0 THEN 0 ELSE g[i - 1] + Term(v, i)
    <3>1. CASE i = 0
        BY <2>1, <3>1
    <3>2. CASE i # 0 /\ i # n + 1
        BY <2>1, <3>2
    <3>3. CASE i = n + 1
        BY <3>3
    <3> QED BY <3>1, <3>2, <3>3
  <2>3. Holds(g, n + 1)
      BY <2>2
  <2>4. \E f1 : Holds(f1, n + 1)
    <3> HIDE DEF g, Holds
    <3> QED BY <2>3
  <2> QED BY <2>4
<1>3. \E f : Holds(f, 17)
  <2> HIDE DEF S
  <2>1. 17 \in S
      BY <1>1, <1>2, SetInduction
  <2> QED BY <2>1 DEF S
<1> QED BY <1>3 DEF Sums

Vin == {v \in Seq(Characters) : Len(v) = 17}

\* The interval, kept folded.
Places == 1..17

LEMMA PlacesAre == \A i : i \in Places <=> i \in Int /\ 1 <= i /\ i <= 17
BY DEF Places

LEMMA CharacterAt ==
  ASSUME NEW v \in Vin, NEW i \in Places
  PROVE  v[i] \in Characters /\ i - 1 \in 0..16
<1>1. v \in Seq(Characters) /\ i \in 1..Len(v) /\ i \in Int /\ 1 <= i /\ i <= 17
  <2>1. v \in Seq(Characters) /\ Len(v) = 17
      BY DEF Vin
  <2>2. i \in Int /\ 1 <= i /\ i <= 17
      BY PlacesAre
  <2> QED BY ONLY <2>1, <2>2
<1>2. v[i] \in Characters
    BY ONLY <1>1, ElementOfSeq
<1>3. i - 1 \in 0..16
    BY ONLY <1>1
<1> QED BY <1>2, <1>3

LEMMA CharacterChanged ==
  ASSUME NEW v \in Vin, NEW i \in Places, NEW c \in Characters
  PROVE  /\ [v EXCEPT ![i] = c] \in Vin
         /\ [v EXCEPT ![i] = c][i] = c
<1>1. v \in Seq(Characters) /\ Len(v) = 17
    BY DEF Vin
<1>2. i \in 1..Len(v)
    BY <1>1 DEF Places
<1>3. [v EXCEPT ![i] = c] \in Seq(Characters) /\ Len([v EXCEPT ![i] = c]) = 17
  <2>1. PICK n : n = Len(v)
      OBVIOUS
  <2>2. v \in [1..n -> Characters] /\ n \in Nat /\ n = 17
      BY <1>1, <2>1, LenProperties
  <2>3. [v EXCEPT ![i] = c] \in [1..n -> Characters]
      BY ONLY <2>2, c \in Characters
  <2>4. [v EXCEPT ![i] = c] \in Seq(Characters)
      BY ONLY <2>2, <2>3, SeqDef
  <2>5. DOMAIN [v EXCEPT ![i] = c] = 1..n
      BY ONLY <2>3
  <2>6. Len([v EXCEPT ![i] = c]) = n
      BY ONLY <2>2, <2>4, <2>5, LenProperties
  <2> QED BY <2>2, <2>4, <2>6
<1>4. [v EXCEPT ![i] = c][i] = c
    BY <1>1, <1>2, LenProperties
<1> QED BY <1>1, <1>3, <1>4 DEF Vin

LEMMA CharacterKept ==
  ASSUME NEW v \in Vin, NEW i \in Places, NEW c, NEW j \in Places, j # i
  PROVE  [v EXCEPT ![i] = c][j] = v[j]
<1>1. v \in Seq(Characters) /\ Len(v) = 17
    BY DEF Vin
<1>2. j \in DOMAIN v
    BY <1>1, LenProperties DEF Places
<1> QED BY <1>2

LEMMA ValueRange == \A c \in Characters : Value(c) \in 0..9
<1> SUFFICES ASSUME NEW c \in Characters PROVE Value(c) \in 0..9
    OBVIOUS
<1>1. CASE c \in DOMAIN trans
    BY <1>1 DEF Value, trans
<1>2. CASE c \notin DOMAIN trans /\ c = "0"
    BY <1>2 DEF Value
<1>3. CASE c \notin DOMAIN trans /\ c # "0"
  <2>1. \E i \in 1..9 : digits[i] = c
      BY <1>3 DEF Characters
  <2> QED BY <1>3, <2>1 DEF Value
<1> QED BY <1>1, <1>2, <1>3

LEMMA WeightRange == \A i \in 0..16 : Weight(i) \in 1..10
BY DEF Weight

\* Eleven is a prime: no weight times a difference of values is a multiple.
LEMMA SeenModEleven ==
  ASSUME NEW s \in Int, NEW d \in -9..9, d # 0, NEW w \in 1..10
  PROVE  (s + d * w) % 11 # s % 11
OBVIOUS

LEMMA SumsType ==
  ASSUME NEW v \in Vin
  PROVE  \A n \in 0..17 : Sums(v)[n] \in Int
<1> DEFINE S == {n \in Nat : n <= 17 => Sums(v)[n] \in Int}
<1>1. \A i \in Places : Term(v, i) \in Int
  <2> SUFFICES ASSUME NEW i \in Places PROVE Term(v, i) \in Int
      OBVIOUS
  <2>1. v[i] \in Characters /\ i - 1 \in 0..16
      BY CharacterAt
  <2> QED BY <2>1, ValueRange, WeightRange DEF Term
<1>2. 0 \in S
    BY SumsStep
<1>3. ASSUME NEW n \in Nat, n \in S PROVE n + 1 \in S
  <2> SUFFICES ASSUME n + 1 <= 17 PROVE Sums(v)[n + 1] \in Int
      OBVIOUS
  <2>1. Sums(v)[n + 1] = Sums(v)[n] + Term(v, n + 1)
      BY SumsStep
  <2>2. n + 1 \in Places
      BY PlacesAre
  <2> QED BY <1>1, <1>3, <2>1, <2>2
<1>4. \A n \in Nat : n \in S
  <2> HIDE DEF S
  <2> QED BY <1>2, <1>3, SetInduction
<1> QED BY <1>4

\* One character changes every sum from its position on, by the difference of
\* the values times the weight.
LEMMA OneTermChanged ==
  ASSUME NEW v \in Vin, NEW p \in Places \ {CheckPosition}, NEW c \in Characters,
         NEW w, w = [v EXCEPT ![p] = c]
  PROVE  /\ w \in Vin
         /\ Sums(w)[17] = Sums(v)[17] + (Value(c) - Value(v[p])) * Weight(p - 1)
<1> DEFINE d == Value(c) - Value(v[p])
           e == d * Weight(p - 1)
           S == {n \in Nat : n <= 17 => Sums(w)[n] = Sums(v)[n] + IF n < p THEN 0 ELSE e}
<1>1. /\ w \in Vin /\ w[p] = c
      /\ \A i \in Places : i # p => w[i] = v[i]
  <2>1. v \in Vin /\ p \in Places /\ c \in Characters /\ w = [v EXCEPT ![p] = c]
      OBVIOUS
  <2>2. [v EXCEPT ![p] = c] \in Vin /\ [v EXCEPT ![p] = c][p] = c
      BY <2>1, CharacterChanged
  <2>3. \A i \in Places : i # p => [v EXCEPT ![p] = c][i] = v[i]
      BY <2>1, CharacterKept
  <2> QED BY ONLY <2>1, <2>2, <2>3
<1>2. Value(c) \in Int /\ Value(v[p]) \in Int /\ Weight(p - 1) \in Int
  <2>1. v[p] \in Characters /\ p - 1 \in 0..16
      BY CharacterAt
  <2> QED BY <2>1, ValueRange, WeightRange
<1>3. \A i \in Places : Term(v, i) \in Int
  <2> SUFFICES ASSUME NEW i \in Places PROVE Term(v, i) \in Int
      OBVIOUS
  <2>1. v[i] \in Characters /\ i - 1 \in 0..16
      BY CharacterAt
  <2> QED BY <2>1, ValueRange, WeightRange DEF Term
<1>4. Term(w, p) = Term(v, p) + e
  <2>2. Term(w, p) = Value(c) * Weight(p - 1) /\ Term(v, p) = Value(v[p]) * Weight(p - 1)
      BY <1>1 DEF Term
  <2> QED BY <1>2, <2>2
<1>5. \A i \in Places \ {p} : Term(w, i) = Term(v, i)
    BY <1>1 DEF Term
<1>6. e \in Int
    BY <1>2
<1> HIDE DEF e
<1>7. 0 \in S
  <2>1. Sums(w)[0] = 0 /\ Sums(v)[0] = 0
      BY SumsStep
  <2>2. 0 < p
      BY PlacesAre
  <2> QED BY <2>1, <2>2
<1>8. ASSUME NEW n \in Nat, n \in S PROVE n + 1 \in S
  <2> SUFFICES ASSUME n + 1 <= 17
               PROVE  Sums(w)[n + 1] = Sums(v)[n + 1] + IF n + 1 < p THEN 0 ELSE e
      OBVIOUS
  <2>1. /\ Sums(w)[n + 1] = Sums(w)[n] + Term(w, n + 1)
        /\ Sums(v)[n + 1] = Sums(v)[n] + Term(v, n + 1)
      BY SumsStep
  <2>2. Sums(v)[n] \in Int /\ Term(v, n + 1) \in Int /\ n + 1 \in Places
    <3>1. n + 1 \in Places
        BY PlacesAre
    <3> QED BY <1>3, <3>1, SumsType
  <2>3. Sums(w)[n] = Sums(v)[n] + IF n < p THEN 0 ELSE e
      BY <1>8
  <2>4. CASE n + 1 = p
      BY <1>4, <1>6, <2>1, <2>2, <2>3, <2>4, PlacesAre
  <2>5. CASE n + 1 # p
    <3>1. Term(w, n + 1) = Term(v, n + 1)
        BY <1>5, <2>2, <2>5
    <3>2. p \in Int /\ (n < p <=> n + 1 < p)
        BY <2>5, PlacesAre
    <3> HIDE DEF S
    <3> QED BY ONLY n \in Nat, <1>6, <2>1, <2>2, <2>3, <3>1, <3>2
  <2> QED BY <2>4, <2>5
<1>9. \A n \in Nat : n \in S
  <2> HIDE DEF S
  <2> QED BY <1>7, <1>8, SetInduction
<1>10. Sums(w)[17] = Sums(v)[17] + e
  <2>1. Sums(w)[17] = Sums(v)[17] + IF 17 < p THEN 0 ELSE e
    <3>1. 17 \in S
      <4> HIDE DEF S
      <4> QED BY <1>9
    <3> QED BY <3>1
  <2>2. ~(17 < p)
      BY PlacesAre
  <2> QED BY <2>1, <2>2
<1> QED BY <1>1, <1>10 DEF e

LEMMA CheckCharacterTells ==
  ASSUME NEW r \in 0..10, NEW q \in 0..10, CheckCharacter(r) = CheckCharacter(q)
  PROVE  r = q
BY DEF CheckCharacter, digits

VarIsVin ==
  /\ vin_number \in Vin \cup {<<>>}
  /\ position \in Places \ {CheckPosition}

LEMMA VinInvariance == VinInit /\ [][VinNext]_vinVars => []VarIsVin
<1>1. VinInit => VarIsVin
    BY DEF VinInit, VarIsVin, CheckPosition, Places
<1>2. VarIsVin /\ [VinNext]_vinVars => VarIsVin'
  <2>1. ASSUME NEW v \in Vehicles, NEW i \in (1..17) \ {CheckPosition}, NEW c \in Characters,
               vin_number' = Checked([v EXCEPT ![i] = c]), position' = i
        PROVE  VarIsVin'
    <3>1. v \in Vin
        BY VinAssumption DEF Vin
    <3> DEFINE w == [v EXCEPT ![i] = c]
    <3>2. w \in Vin
        BY <3>1, CharacterChanged DEF Places
    <3>3. calculateChecksum(w) \in Characters
      <4>1. Sums(w)[17] % 11 \in 0..10
          BY <3>2, SumsType
      <4>2. \A r \in 0..10 : CheckCharacter(r) \in Characters
          BY DEF CheckCharacter, Characters, digits, trans
      <4> QED BY <4>1, <4>2 DEF calculateChecksum
    <3>4. Checked(w) \in Vin
      <4> HIDE DEF w
      <4> QED BY <3>2, <3>3, CharacterChanged, PlacesAre DEF Checked, CheckPosition
    <3> QED BY <2>1, <3>4 DEF VarIsVin, Places
  <2>2. CASE UNCHANGED vinVars
      BY <2>2 DEF vinVars, VarIsVin
  <2> QED BY <2>1, <2>2 DEF VinNext
<1> QED BY <1>1, <1>2, PTL

\* For every vehicle, one character misread at any place is noticed, unless the
\* two stand for the same value or the check character is an X.
THEOREM MisreadingsNoticed == VinSpec => []OneCharacterDetected
<1>1. VarIsVin => OneCharacterDetected
  <2> SUFFICES ASSUME VarIsVin, validateChecksum(vin_number), vin_number[CheckPosition] # "X",
                      NEW c \in Characters, Value(c) # Value(vin_number[position]),
                      validateChecksum([vin_number EXCEPT ![position] = c])
               PROVE  FALSE
      BY DEF OneCharacterDetected
  <2> DEFINE v == vin_number
             w == [v EXCEPT ![position] = c]
             d == Value(c) - Value(v[position])
  <2>1. v \in Vin
    <3>1. Len(v) = 17 /\ Len(<<>>) # 17
        BY DEF validateChecksum
    <3>2. v # <<>>
        BY ONLY <3>1, Zenon
    <3> QED BY <3>2 DEF VarIsVin
  <2>2. /\ w \in Vin
        /\ Sums(w)[17] = Sums(v)[17] + d * Weight(position - 1)
      BY <2>1, OneTermChanged DEF VarIsVin
  <2>3. w[CheckPosition] = v[CheckPosition]
      BY <2>1, CharacterKept, PlacesAre DEF VarIsVin, CheckPosition
  <2>4. CheckCharacter(Sums(w)[17] % 11) = CheckCharacter(Sums(v)[17] % 11)
      BY <2>3 DEF validateChecksum, calculateChecksum
  <2>5. Sums(v)[17] \in Int /\ Sums(w)[17] \in Int
      BY <2>1, <2>2, SumsType
  <2>6. Sums(w)[17] % 11 = Sums(v)[17] % 11
      BY <2>4, <2>5, CheckCharacterTells
  <2>7. d \in -9..9 /\ d # 0
    <3>1. v[position] \in Characters
        BY <2>1, CharacterAt DEF VarIsVin
    <3> QED BY <3>1, ValueRange
  <2>8. Weight(position - 1) \in 1..10
    <3>1. position - 1 \in 0..16
        BY <2>1, CharacterAt DEF VarIsVin
    <3> QED BY <3>1, WeightRange
  <2> QED BY <2>2, <2>5, <2>6, <2>7, <2>8, SeenModEleven
<1> QED BY <1>1, VinInvariance, PTL DEF VinSpec

-----------------------------------------------------------------------------
(* The log files. *)

\* A set that holds n and, with a number, the one before, holds all of 0 to n.
LEMMA SetInductionDown ==
  ASSUME NEW S, NEW n \in Nat, n \in S,
         \A i \in Nat : i < n /\ i + 1 \in S => i \in S
  PROVE  \A i \in 0..n : i \in S
<1> DEFINE T == {k \in Nat : k <= n => n - k \in S}
<1>1. 0 \in T
    OBVIOUS
<1>2. ASSUME NEW k \in Nat, k \in T PROVE k + 1 \in T
  <2> SUFFICES ASSUME k + 1 <= n PROVE n - (k + 1) \in S
      OBVIOUS
  <2>1. PICK i : i = n - (k + 1)
      OBVIOUS
  <2>2. i \in Nat /\ i < n /\ i + 1 = n - k
      BY <2>1
  <2>3. n - k \in S
      BY <1>2
  <2> QED BY <2>1, <2>2, <2>3
<1>3. \A k \in Nat : k \in T
  <2> HIDE DEF T
  <2> QED BY <1>1, <1>2, SetInduction
<1>4. ASSUME NEW i \in 0..n PROVE i \in S
  <2>1. n - i \in T
      BY <1>3
  <2>2. n - (n - i) = i
      OBVIOUS
  <2> QED BY <2>1, <2>2
<1> QED BY <1>4

LEMMA GenerationsType == Generations \in Nat /\ Generations >= 1
BY LogAssumption DEF Generations

LEMMA RenamedStep ==
  ASSUME NEW fs
  PROVE  Renamed(fs) = [i \in 0..Generations |->
           IF i = Generations THEN fs ELSE Rename(Renamed(fs)[i + 1], i, i + 1)]
<1> DEFINE G == Generations
           Holds(f, n) == f = [i \in (G - n)..G |->
                                 IF i = G THEN fs ELSE Rename(f[i + 1], i, i + 1)]
           S == {n \in Nat : \E f : Holds(f, n)}
<1>0. G \in Nat
    BY GenerationsType
<1> HIDE DEF G
<1>1. 0 \in S
  <2>1. Holds([i \in (G - 0)..G |-> fs], 0)
      BY <1>0
  <2> QED BY <2>1
<1>2. ASSUME NEW n \in Nat, n \in S PROVE n + 1 \in S
  <2>1. PICK f : Holds(f, n)
      BY <1>2
  <2> DEFINE m == G - (n + 1)
             g == [i \in m..G |-> IF i = m THEN Rename(f[m + 1], m, m + 1) ELSE f[i]]
  <2>2. ASSUME NEW i \in m..G
        PROVE  g[i] = IF i = G THEN fs ELSE Rename(g[i + 1], i, i + 1)
    <3>1. CASE i = G
        BY <1>0, <2>1, <3>1
    <3>2. CASE i # G /\ i # m
        BY <1>0, <2>1, <3>2
    <3>3. CASE i = m
        BY <1>0, <3>3
    <3> QED BY <3>1, <3>2, <3>3
  <2>3. Holds(g, n + 1)
      BY <2>2
  <2>4. n + 1 \in Nat
      OBVIOUS
  <2> HIDE DEF g, Holds
  <2> QED BY <2>3, <2>4
<1>3. \E f : Holds(f, G)
  <2> HIDE DEF S
  <2>1. G \in S
      BY <1>0, <1>1, <1>2, SetInduction
  <2> QED BY <2>1 DEF S
<1>4. \E f : f = [i \in 0..G |-> IF i = G THEN fs ELSE Rename(f[i + 1], i, i + 1)]
  <2>1. G - G = 0
      BY <1>0
  <2> QED BY <1>3, <2>1
<1> QED BY <1>4 DEF Renamed, G

LEMMA ContentsStep ==
  ASSUME NEW fs
  PROVE  /\ Contents(fs)[Generations] = HeldBy(fs, Generations)
         /\ \A i \in Nat : i < Generations =>
              Contents(fs)[i] = Contents(fs)[i + 1] \o HeldBy(fs, i)
<1> DEFINE G == Generations
           J(q, i) == q \o HeldBy(fs, i)
           Holds(f, n) == f = [i \in (G - n)..G |->
                                 IF i = G THEN HeldBy(fs, i) ELSE J(f[i + 1], i)]
           S == {n \in Nat : \E f : Holds(f, n)}
<1>0. G \in Nat
    BY GenerationsType
<1> HIDE DEF G, J
<1>1. 0 \in S
  <2>1. Holds([i \in (G - 0)..G |-> HeldBy(fs, i)], 0)
      BY <1>0
  <2> QED BY <2>1
<1>2. ASSUME NEW n \in Nat, n \in S PROVE n + 1 \in S
  <2>1. PICK f : Holds(f, n)
      BY <1>2
  <2> DEFINE m == G - (n + 1)
             g == [i \in m..G |-> IF i = m THEN J(f[m + 1], m) ELSE f[i]]
  <2>2. ASSUME NEW i \in m..G
        PROVE  g[i] = IF i = G THEN HeldBy(fs, i) ELSE J(g[i + 1], i)
    <3>1. CASE i = G
        BY <1>0, <2>1, <3>1
    <3>2. CASE i # G /\ i # m
        BY <1>0, <2>1, <3>2
    <3>3. CASE i = m
        BY <1>0, <3>3
    <3> QED BY <3>1, <3>2, <3>3
  <2>3. Holds(g, n + 1)
      BY <2>2
  <2>4. n + 1 \in Nat
      OBVIOUS
  <2> HIDE DEF g, Holds
  <2> QED BY <2>3, <2>4
<1>3. \E f : Holds(f, G)
  <2> HIDE DEF S
  <2>1. G \in S
      BY <1>0, <1>1, <1>2, SetInduction
  <2> QED BY <2>1 DEF S
<1>4. \E f : f = [i \in 0..G |-> IF i = G THEN HeldBy(fs, i) ELSE J(f[i + 1], i)]
  <2>1. G - G = 0
      BY <1>0
  <2> QED BY <1>3, <2>1
<1>5. Contents(fs) = [i \in 0..G |->
                        IF i = G THEN HeldBy(fs, i) ELSE J(Contents(fs)[i + 1], i)]
    BY <1>4 DEF Contents, G, J
<1>6. Contents(fs)[G] = HeldBy(fs, G)
    BY <1>0, <1>5
<1>7. ASSUME NEW i \in Nat, i < G PROVE Contents(fs)[i] = J(Contents(fs)[i + 1], i)
    BY <1>0, <1>5, <1>7
<1> QED BY <1>6, <1>7 DEF G, J

\* Files of lines, without a gap after the first.
Files(fs) ==
  /\ fs \in [DOMAIN fs -> Seq(Nat)]
  /\ DOMAIN fs \subseteq 0..Generations
  /\ \A i \in DOMAIN fs : \A j \in 1..i : j \in DOMAIN fs

\* What is there once the files from i on are renamed.
RotatedFrom(fs, i) ==
  [k \in {k \in DOMAIN fs : k < i} \cup {k \in 1..Generations : k > i /\ k - 1 \in DOMAIN fs}
           \cup {k \in DOMAIN fs : k = i /\ i = Generations}
     |-> IF k <= i THEN fs[k] ELSE fs[k - 1]]

\* Renaming shifts the files by one; the oldest of all is replaced.
LEMMA RotatedIs ==
  ASSUME NEW fs, Files(fs), 0 \in DOMAIN fs
  PROVE  Rotated(fs) = [k \in {k \in 1..Generations : k - 1 \in DOMAIN fs} |-> fs[k - 1]]
<1> DEFINE S == {i \in Nat : i <= Generations => Renamed(fs)[i] = RotatedFrom(fs, i)}
<1>0. Generations \in Nat /\ Generations >= 1
    BY GenerationsType
<1>1. Generations \in S
  <2>1. Renamed(fs)[Generations] = fs
      BY <1>0, RenamedStep
  <2>2. fs = RotatedFrom(fs, Generations)
    <3>1. DOMAIN RotatedFrom(fs, Generations) = DOMAIN fs
        BY <1>0 DEF RotatedFrom, Files
    <3>2. \A k \in DOMAIN fs : RotatedFrom(fs, Generations)[k] = fs[k]
        BY <1>0 DEF RotatedFrom, Files
    <3>3. fs = [k \in DOMAIN fs |-> fs[k]]
        BY DEF Files
    <3>4. RotatedFrom(fs, Generations)
            = [k \in DOMAIN fs |-> RotatedFrom(fs, Generations)[k]]
        BY <3>1 DEF RotatedFrom
    <3> QED BY <3>2, <3>3, <3>4
  <2> QED BY <1>0, <2>1, <2>2
<1>2. ASSUME NEW i \in Nat, i < Generations, i + 1 \in S PROVE i \in S
  <2> DEFINE R == RotatedFrom(fs, i + 1)
  <2>1. Renamed(fs)[i] = Rename(R, i, i + 1)
    <3>1. Renamed(fs)[i] = Rename(Renamed(fs)[i + 1], i, i + 1)
        BY <1>0, <1>2, RenamedStep
    <3>2. Renamed(fs)[i + 1] = R
        BY <1>0, <1>2
    <3> QED BY <3>1, <3>2
  <2>2. i \in DOMAIN R <=> i \in DOMAIN fs
      BY <1>0, <1>2 DEF RotatedFrom
  <2>3. CASE i \notin DOMAIN fs
    <3>1. \A k \in DOMAIN fs : k < i
        BY <1>0, <2>3 DEF Files
    <3>2. R = RotatedFrom(fs, i)
        BY <1>0, <1>2, <2>3, <3>1 DEF RotatedFrom, Files
    <3> QED BY <2>1, <2>2, <2>3, <3>2 DEF Rename
  <2>4. CASE i \in DOMAIN fs
    <3> DEFINE D == (DOMAIN R \ {i}) \cup {i + 1}
    <3>1. Rename(R, i, i + 1) = [k \in D |-> IF k = i + 1 THEN R[i] ELSE R[k]]
        BY <2>2, <2>4 DEF Rename
    <3>2. D = DOMAIN RotatedFrom(fs, i)
        BY <1>0, <1>2, <2>4 DEF RotatedFrom, Files
    <3>3. ASSUME NEW k \in D
          PROVE  (IF k = i + 1 THEN R[i] ELSE R[k]) = RotatedFrom(fs, i)[k]
        BY <1>0, <1>2, <2>4, <3>2 DEF RotatedFrom, Files
    <3>4. Rename(R, i, i + 1) = RotatedFrom(fs, i)
        BY <3>1, <3>2, <3>3 DEF RotatedFrom
    <3> QED BY <2>1, <3>4
  <2> QED BY <2>3, <2>4
<1>3. 0 \in S
  <2> HIDE DEF S
  <2>1. \A i \in 0..Generations : i \in S
      BY <1>0, <1>1, <1>2, SetInductionDown
  <2> QED BY <1>0, <2>1
<1>4. Rotated(fs) = RotatedFrom(fs, 0)
    BY <1>0, <1>3 DEF Rotated
<1> QED BY <1>0, <1>4 DEF RotatedFrom, Files

LEMMA HeldType ==
  ASSUME NEW fs, Files(fs)
  PROVE  \A i \in 0..Generations : HeldBy(fs, i) \in Seq(Nat)
BY EmptySeq DEF Files, HeldBy

LEMMA ContentsType ==
  ASSUME NEW fs, Files(fs)
  PROVE  \A i \in 0..Generations : Contents(fs)[i] \in Seq(Nat)
<1> DEFINE S == {i \in Nat : i <= Generations => Contents(fs)[i] \in Seq(Nat)}
<1>0. Generations \in Nat /\ Generations >= 1
    BY GenerationsType
<1>1. Generations \in S
    BY <1>0, ContentsStep, HeldType
<1>2. ASSUME NEW i \in Nat, i < Generations, i + 1 \in S PROVE i \in S
  <2>1. Contents(fs)[i] = Contents(fs)[i + 1] \o HeldBy(fs, i)
      BY <1>0, <1>2, ContentsStep
  <2>2. Contents(fs)[i + 1] \in Seq(Nat) /\ HeldBy(fs, i) \in Seq(Nat)
      BY <1>0, <1>2, HeldType
  <2> QED BY <2>1, <2>2, ConcatProperties
<1> HIDE DEF S
<1>3. \A i \in 0..Generations : i \in S
    BY <1>0, <1>1, <1>2, SetInductionDown
<1> QED BY <1>0, <1>3 DEF S

LEMMA ContentsFirst == \A fs : Contents(fs)[0] = Contents(fs)[1] \o HeldBy(fs, 0)
<1> SUFFICES ASSUME NEW fs PROVE Contents(fs)[0] = Contents(fs)[1] \o HeldBy(fs, 0)
    OBVIOUS
<1>1. PICK i \in Nat : i = 0 /\ i + 1 = 1 /\ i < Generations
    BY GenerationsType
<1>2. Contents(fs)[i] = Contents(fs)[i + 1] \o HeldBy(fs, i)
    BY <1>1, ContentsStep
<1> QED BY <1>1, <1>2

LEMMA Associative == \A q, u, v \in Seq(Nat) : (q \o u) \o v = q \o (u \o v)
<1> SUFFICES ASSUME NEW q \in Seq(Nat), NEW u \in Seq(Nat), NEW v \in Seq(Nat)
             PROVE  (q \o u) \o v = q \o (u \o v)
    OBVIOUS
<1> QED BY ONLY q \in Seq(Nat), u \in Seq(Nat), v \in Seq(Nat), ConcatAssociative

LEMMA AppendLast ==
  \A q, u \in Seq(Nat) : \A e \in Nat : Append(q \o u, e) = q \o Append(u, e)
<1> SUFFICES ASSUME NEW q \in Seq(Nat), NEW u \in Seq(Nat), NEW e \in Nat
             PROVE  Append(q \o u, e) = q \o Append(u, e)
    OBVIOUS
<1>1. q \o u \in Seq(Nat)
    BY ConcatProperties
<1>2. PICK v : v = <<e>> /\ v \in Seq(Nat)
  <2>1. <<e>> \in Seq(Nat)
      OBVIOUS
  <2> QED BY <2>1, Zenon
<1>3. Append(q \o u, e) = (q \o u) \o v /\ Append(u, e) = u \o v
    BY <1>1, <1>2, AppendIsConcat
<1>4. (q \o u) \o v = q \o (u \o v)
    BY <1>2, ConcatAssociative
<1> QED BY ONLY <1>3, <1>4

\* What the files from n on hold depends on these files only.
LEMMA ContentsSame ==
  ASSUME NEW fs, NEW rs, NEW n \in 0..Generations,
         \A k \in n..Generations : HeldBy(rs, k) = HeldBy(fs, k)
  PROVE  Contents(rs)[n] = Contents(fs)[n]
<1> DEFINE S == {i \in Nat : n <= i /\ i <= Generations => Contents(rs)[i] = Contents(fs)[i]}
<1>0. Generations \in Nat /\ Generations >= 1
    BY GenerationsType
<1>1. Generations \in S
    BY <1>0, ContentsStep
<1>2. ASSUME NEW i \in Nat, i < Generations, i + 1 \in S PROVE i \in S
  <2> SUFFICES ASSUME n <= i PROVE Contents(rs)[i] = Contents(fs)[i]
      OBVIOUS
  <2>1. /\ Contents(fs)[i] = Contents(fs)[i + 1] \o HeldBy(fs, i)
        /\ Contents(rs)[i] = Contents(rs)[i + 1] \o HeldBy(rs, i)
      BY <1>0, <1>2, ContentsStep
  <2>2. Contents(rs)[i + 1] = Contents(fs)[i + 1] /\ HeldBy(rs, i) = HeldBy(fs, i)
      BY <1>0, <1>2
  <2> QED BY <2>1, <2>2
<1> HIDE DEF S
<1>3. \A i \in 0..Generations : i \in S
    BY <1>0, <1>1, <1>2, SetInductionDown
<1> QED BY <1>0, <1>3 DEF S

\* Shifting the files drops the oldest one, and nothing else.
LEMMA ContentsShifted ==
  ASSUME NEW fs, Files(fs), NEW rs, Files(rs),
         \A k \in 1..Generations : HeldBy(rs, k) = HeldBy(fs, k - 1)
  PROVE  Contents(fs)[0] = HeldBy(fs, Generations) \o Contents(rs)[1]
<1> DEFINE S == {i \in Nat : 1 <= i /\ i <= Generations =>
                    Contents(fs)[i - 1] = HeldBy(fs, Generations) \o Contents(rs)[i]}
<1>0. Generations \in Nat /\ Generations >= 1 /\ HeldBy(fs, Generations) \in Seq(Nat)
    BY GenerationsType, HeldType
<1>1. Generations \in S
  <2>1. Contents(fs)[Generations - 1]
          = Contents(fs)[Generations] \o HeldBy(fs, Generations - 1)
    <3>1. PICK i \in Nat : i < Generations /\ i + 1 = Generations /\ i = Generations - 1
        BY <1>0
    <3> QED BY <3>1, ContentsStep
  <2>2. /\ Contents(fs)[Generations] = HeldBy(fs, Generations)
        /\ Contents(rs)[Generations] = HeldBy(rs, Generations)
      BY <1>0, ContentsStep
  <2>3. HeldBy(rs, Generations) = HeldBy(fs, Generations - 1)
      BY <1>0
  <2> QED BY <1>0, <2>1, <2>2, <2>3
<1>2. ASSUME NEW i \in Nat, i < Generations, i + 1 \in S PROVE i \in S
  <2> SUFFICES ASSUME 1 <= i
               PROVE  Contents(fs)[i - 1] = HeldBy(fs, Generations) \o Contents(rs)[i]
      OBVIOUS
  <2>1. Contents(fs)[i] = HeldBy(fs, Generations) \o Contents(rs)[i + 1]
    <3>1. (i + 1) - 1 = i
        OBVIOUS
    <3> QED BY <1>0, <1>2, <3>1
  <2>2. Contents(fs)[i - 1] = Contents(fs)[i] \o HeldBy(fs, i - 1)
    <3>1. PICK j \in Nat : j < Generations /\ j + 1 = i /\ j = i - 1
        BY <1>0, <1>2
    <3> QED BY <3>1, ContentsStep
  <2>3. Contents(rs)[i] = Contents(rs)[i + 1] \o HeldBy(rs, i)
      BY <1>0, <1>2, ContentsStep
  <2>4. HeldBy(rs, i) = HeldBy(fs, i - 1)
      BY <1>0, <1>2
  <2>5. Contents(rs)[i + 1] \in Seq(Nat) /\ HeldBy(rs, i) \in Seq(Nat)
      BY <1>0, <1>2, ContentsType, HeldType
  <2>6. (HeldBy(fs, Generations) \o Contents(rs)[i + 1]) \o HeldBy(rs, i)
          = HeldBy(fs, Generations) \o (Contents(rs)[i + 1] \o HeldBy(rs, i))
      BY ONLY <1>0, <2>5, Associative, Zenon
  <2> QED BY ONLY <2>1, <2>2, <2>3, <2>4, <2>6
<1> HIDE DEF S
<1>3. \A i \in 0..Generations : i \in S
    BY <1>0, <1>1, <1>2, SetInductionDown
<1>4. 1 \in S
    BY <1>0, <1>3
<1>5. Contents(fs)[1 - 1] = HeldBy(fs, Generations) \o Contents(rs)[1]
    BY <1>0, <1>4 DEF S
<1> QED BY <1>5

\* Every file but the newest is full, and from the first line that was thrown
\* away on there are as many as there may be.
Full(fs) == \A i \in DOMAIN fs : i >= 1 => Len(fs[i]) >= MaxSize

Kept(fs, all) ==
  \E gone \in Seq(Nat) : /\ all = gone \o Contents(fs)[0]
                         /\ gone # <<>> => Generations \in DOMAIN fs

LEMMA Rotating ==
  ASSUME NEW fs, Files(fs), 0 \in DOMAIN fs, Full(fs), Len(fs[0]) >= MaxSize,
         NEW all, Kept(fs, all), NEW rs, rs = Rotated(fs)
  PROVE  Files(rs) /\ Full(rs) /\ Kept(rs, all)
<1>0. Generations \in Nat /\ Generations >= 1
    BY GenerationsType
<1>1. rs = [k \in {k \in 1..Generations : k - 1 \in DOMAIN fs} |-> fs[k - 1]]
    BY RotatedIs
<1>2. Files(rs)
  <2>1. DOMAIN rs = {k \in 1..Generations : k - 1 \in DOMAIN fs}
      BY <1>1
  <2>2. DOMAIN rs \subseteq 0..Generations
      BY <2>1
  <2>3. rs \in [DOMAIN rs -> Seq(Nat)]
      BY <1>1 DEF Files
  <2>4. ASSUME NEW i \in DOMAIN rs, NEW j \in 1..i PROVE j \in DOMAIN rs
    <3>1. i \in 1..Generations /\ i - 1 \in DOMAIN fs
        BY <2>1
    <3>2. j - 1 \in DOMAIN fs
      <4>1. CASE j = 1
          BY <4>1
      <4>2. CASE j # 1
        <5>1. j - 1 \in 1..(i - 1)
            BY <1>0, <3>1, <4>2
        <5> QED BY <3>1, <5>1 DEF Files
      <4> QED BY <4>1, <4>2
    <3> QED BY <1>0, <2>1, <3>1, <3>2
  <2> QED BY <2>2, <2>3, <2>4 DEF Files
<1>3. Full(rs)
  <2> SUFFICES ASSUME NEW i \in DOMAIN rs, i >= 1 PROVE Len(rs[i]) >= MaxSize
      BY DEF Full
  <2>1. i \in 1..Generations /\ i - 1 \in DOMAIN fs /\ rs[i] = fs[i - 1]
      BY <1>1
  <2>2. CASE i - 1 = 0
      BY <2>1, <2>2
  <2>3. CASE i - 1 # 0
      BY <1>0, <2>1, <2>3 DEF Full
  <2> QED BY <2>2, <2>3
<1>4. \A k \in 1..Generations : HeldBy(rs, k) = HeldBy(fs, k - 1)
    BY <1>1 DEF HeldBy
<1>5. Contents(rs)[0] = Contents(rs)[1]
  <2>1. Contents(rs)[0] = Contents(rs)[1] \o HeldBy(rs, 0)
      BY ContentsFirst
  <2>2. HeldBy(rs, 0) = <<>>
      BY <1>1 DEF HeldBy
  <2>3. Contents(rs)[1] \in Seq(Nat)
      BY <1>0, <1>2, ContentsType
  <2> QED BY <2>1, <2>2, <2>3, ConcatEmptySeq
<1>6. Contents(fs)[0] = HeldBy(fs, Generations) \o Contents(rs)[0]
    BY <1>2, <1>4, <1>5, ContentsShifted
<1>7. Kept(rs, all)
  <2>1. PICK gone \in Seq(Nat) : /\ all = gone \o Contents(fs)[0]
                                 /\ gone # <<>> => Generations \in DOMAIN fs
      BY DEF Kept
  <2> DEFINE last == HeldBy(fs, Generations)
             more == gone \o last
  <2>2. last \in Seq(Nat) /\ Contents(rs)[0] \in Seq(Nat)
      BY <1>0, <1>2, HeldType, ContentsType
  <2>3. all = more \o Contents(rs)[0]
    <3>1. (gone \o last) \o Contents(rs)[0] = gone \o (last \o Contents(rs)[0])
        BY ONLY <2>2, gone \in Seq(Nat), Associative, Zenon
    <3> QED BY ONLY <1>6, <2>1, <3>1
  <2>4. more \in Seq(Nat)
      BY <2>2, ConcatProperties
  <2>5. Generations \in DOMAIN fs => Generations \in DOMAIN rs
    <3>1. SUFFICES ASSUME Generations \in DOMAIN fs PROVE Generations - 1 \in DOMAIN fs
        BY <1>0, <1>1
    <3>2. CASE Generations = 1
        BY <3>2
    <3>3. CASE Generations # 1
      <4>1. Generations - 1 \in 1..Generations
          BY <1>0, <3>3
      <4> QED BY <3>1, <4>1 DEF Files
    <3> QED BY <3>2, <3>3
  <2>6. more # <<>> => Generations \in DOMAIN fs
    <3>1. SUFFICES ASSUME Generations \notin DOMAIN fs PROVE more = <<>>
        OBVIOUS
    <3>2. last = <<>> /\ gone = <<>>
        BY <2>1, <3>1 DEF HeldBy
    <3> QED BY <3>2
  <2> HIDE DEF more
  <2> QED BY <2>3, <2>4, <2>5, <2>6 DEF Kept
<1> QED BY <1>2, <1>3, <1>7

LEMMA Opening ==
  ASSUME NEW fs, Files(fs), Full(fs), NEW all, Kept(fs, all), NEW rs, rs = Opened(fs)
  PROVE  Files(rs) /\ Full(rs) /\ Kept(rs, all) /\ 0 \in DOMAIN rs
<1>0. Generations \in Nat /\ Generations >= 1
    BY GenerationsType
<1>1. /\ DOMAIN rs = DOMAIN fs \cup {0}
      /\ \A i \in DOMAIN fs : rs[i] = fs[i]
      /\ 0 \notin DOMAIN fs => rs[0] = <<>>
    BY DEF Opened
<1>2. Files(rs)
  <2>1. rs \in [DOMAIN rs -> Seq(Nat)]
      BY EmptySeq DEF Opened, Files
  <2>2. ASSUME NEW i \in DOMAIN rs, NEW j \in 1..i PROVE j \in DOMAIN rs
      BY <1>1 DEF Files
  <2> QED BY <1>0, <1>1, <2>1, <2>2 DEF Files
<1>3. Full(rs)
    BY <1>1 DEF Full
<1>4. \A i \in 0..Generations : HeldBy(rs, i) = HeldBy(fs, i)
    BY <1>1 DEF HeldBy
<1>5. Contents(rs)[0] = Contents(fs)[0]
    BY <1>0, <1>4, ContentsSame
<1>6. Kept(rs, all)
    BY <1>1, <1>5 DEF Kept
<1> QED BY <1>1, <1>2, <1>3, <1>6

LEMMA Writing ==
  ASSUME NEW fs, Files(fs), Full(fs), 0 \in DOMAIN fs, NEW all, Kept(fs, all),
         NEW line \in Nat, NEW rs, rs = [fs EXCEPT ![0] = Append(@, line)]
  PROVE  Files(rs) /\ Full(rs) /\ Kept(rs, Append(all, line)) /\ 0 \in DOMAIN rs
<1>0. Generations \in Nat /\ Generations >= 1
    BY GenerationsType
<1>1. fs[0] \in Seq(Nat) /\ Append(fs[0], line) \in Seq(Nat)
    BY AppendProperties DEF Files
<1>2. /\ DOMAIN rs = DOMAIN fs /\ rs[0] = Append(fs[0], line)
      /\ \A i \in DOMAIN fs : i # 0 => rs[i] = fs[i]
    BY DEF Files
<1>3. Files(rs)
  <2>1. rs \in [DOMAIN fs -> Seq(Nat)]
      BY <1>1 DEF Files
  <2> QED BY <1>2, <2>1 DEF Files
<1>4. Full(rs)
    BY <1>2 DEF Full
<1>5. Contents(rs)[1] = Contents(fs)[1] /\ Contents(fs)[1] \in Seq(Nat)
  <2>1. \A i \in 1..Generations : HeldBy(rs, i) = HeldBy(fs, i)
      BY <1>2 DEF HeldBy
  <2>2. 1 \in 0..Generations
      BY <1>0
  <2> QED BY <2>1, <2>2, ContentsSame, ContentsType
<1>6. Contents(rs)[0] = Append(Contents(fs)[0], line)
  <2>1. /\ Contents(rs)[0] = Contents(rs)[1] \o HeldBy(rs, 0)
        /\ Contents(fs)[0] = Contents(fs)[1] \o HeldBy(fs, 0)
      BY ContentsFirst
  <2>2. HeldBy(rs, 0) = Append(fs[0], line) /\ HeldBy(fs, 0) = fs[0]
      BY <1>2 DEF HeldBy
  <2>3. Append(Contents(fs)[1] \o fs[0], line) = Contents(fs)[1] \o Append(fs[0], line)
      BY ONLY line \in Nat, <1>1, <1>5, AppendLast, Zenon
  <2> QED BY ONLY <1>5, <2>1, <2>2, <2>3, Zenon
<1>7. Kept(rs, Append(all, line))
  <2>1. PICK gone \in Seq(Nat) : /\ all = gone \o Contents(fs)[0]
                                 /\ gone # <<>> => Generations \in DOMAIN fs
      BY DEF Kept
  <2>2. Contents(fs)[0] \in Seq(Nat)
      BY <1>0, ContentsType
  <2>3. Append(all, line) = gone \o Append(Contents(fs)[0], line)
      BY ONLY line \in Nat, gone \in Seq(Nat), <2>1, <2>2, AppendLast
  <2> QED BY <1>2, <1>6, <2>1, <2>3 DEF Kept
<1> QED BY <1>2, <1>3, <1>4, <1>7

\* With the oldest generation present, there are MaxSize lines in each but the
\* newest.
LEMMA NotShort ==
  ASSUME NEW fs, Files(fs), Full(fs), Generations \in DOMAIN fs
  PROVE  Len(Contents(fs)[0]) >= Generations * MaxSize
<1> DEFINE Least(i) == (Generations - i + 1) * MaxSize
           S == {i \in Nat : 1 <= i /\ i <= Generations => Len(Contents(fs)[i]) >= Least(i)}
<1>0. /\ Generations \in Nat /\ Generations >= 1
      /\ MaxSize \in Nat
    BY GenerationsType, LogAssumption
<1>1. ASSUME NEW i \in Nat, 1 <= i, i <= Generations
      PROVE  HeldBy(fs, i) \in Seq(Nat) /\ Len(HeldBy(fs, i)) >= MaxSize
  <2>1. i \in DOMAIN fs
      BY <1>0, <1>1 DEF Files
  <2> QED BY <1>1, <2>1, HeldType DEF Full, HeldBy
<1>2. Generations \in S
  <2>1. Least(Generations) = MaxSize
      BY <1>0
  <2> QED BY <1>0, <1>1, <2>1, ContentsStep
<1>3. ASSUME NEW i \in Nat, i < Generations, i + 1 \in S PROVE i \in S
  <2> SUFFICES ASSUME 1 <= i PROVE Len(Contents(fs)[i]) >= Least(i)
      OBVIOUS
  <2>1. Contents(fs)[i] = Contents(fs)[i + 1] \o HeldBy(fs, i)
      BY <1>3, ContentsStep
  <2>2. Contents(fs)[i + 1] \in Seq(Nat) /\ Len(Contents(fs)[i + 1]) >= Least(i + 1)
      BY <1>0, <1>3, ContentsType
  <2>3. HeldBy(fs, i) \in Seq(Nat) /\ Len(HeldBy(fs, i)) >= MaxSize
      BY <1>0, <1>1, <1>3
  <2>4. Len(Contents(fs)[i]) = Len(Contents(fs)[i + 1]) + Len(HeldBy(fs, i))
      BY <2>1, <2>2, <2>3, ConcatProperties
  <2>5. Least(i) = Least(i + 1) + MaxSize
      BY <1>0
  <2>6. /\ Least(i + 1) \in Int /\ Len(Contents(fs)[i + 1]) \in Nat
        /\ Len(HeldBy(fs, i)) \in Nat
      BY <1>0, <2>2, <2>3, LenProperties
  <2> HIDE DEF Least
  <2> QED BY <1>0, <2>2, <2>3, <2>4, <2>5, <2>6
<1>4. 1 \in S
  <2> HIDE DEF S
  <2>1. \A i \in 0..Generations : i \in S
      BY <1>0, <1>2, <1>3, SetInductionDown
  <2> QED BY <1>0, <2>1
<1>5. Len(Contents(fs)[1]) >= Generations * MaxSize
  <2>1. Generations - 1 + 1 = Generations
      BY <1>0
  <2> QED BY <1>0, <1>4, <2>1
<1>6. Contents(fs)[1] \in Seq(Nat) /\ HeldBy(fs, 0) \in Seq(Nat)
    BY <1>0, ContentsType, HeldType
<1>7. Len(Contents(fs)[0]) = Len(Contents(fs)[1]) + Len(HeldBy(fs, 0))
    BY <1>6, ContentsFirst, ConcatProperties
<1>8. Len(Contents(fs)[1]) \in Nat /\ Len(HeldBy(fs, 0)) \in Nat
    BY <1>6, LenProperties
<1>9. Generations * MaxSize \in Int
    BY <1>0
<1> QED BY ONLY <1>5, <1>7, <1>8, <1>9

LEMMA LastIsSuffix ==
  ASSUME NEW S, NEW gone \in Seq(S), NEW q \in Seq(S)
  PROVE  IsSuffix(q, gone \o q)
<1> DEFINE all == gone \o q
<1>1. /\ all \in Seq(S) /\ Len(all) = Len(gone) + Len(q)
      /\ Len(gone) \in Nat /\ Len(q) \in Nat
      /\ \A i \in 1..Len(q) : all[Len(gone) + i] = q[i]
    OBVIOUS
<1> HIDE DEF all
<1> DEFINE r == Reverse(q)
           t == Reverse(all)
<1>2. r = [i \in 1..Len(q) |-> q[(Len(q) - i) + 1]] /\ Len(r) = Len(q)
    BY <1>1 DEF Reverse
<1>3. t = [i \in 1..Len(all) |-> all[(Len(all) - i) + 1]] /\ Len(t) = Len(all)
    BY <1>1 DEF Reverse
<1>4. ASSUME NEW i \in 1..Len(q) PROVE r[i] = t[i]
  <2>1. PICK j : j = (Len(q) - i) + 1
      OBVIOUS
  <2>2. j \in 1..Len(q) /\ (Len(all) - i) + 1 = Len(gone) + j /\ i \in 1..Len(all)
      BY <1>1, <2>1
  <2>3. r[i] = q[j] /\ t[i] = all[Len(gone) + j]
      BY <1>2, <1>3, <2>1, <2>2
  <2> QED BY <1>1, <2>2, <2>3
<1> HIDE DEF r, t
<1>5. SubSeq(r, 1, Len(r)) = SubSeq(t, 1, Len(r))
    BY <1>1, <1>2, <1>4
<1> QED BY <1>1, <1>2, <1>3, <1>5 DEF IsSuffix, IsPrefix, r, t, all

LogTypeOK ==
  /\ Files(files)
  /\ log_open \in BOOLEAN /\ log_pos \in Nat
  /\ lines \in Nat /\ started \in Nat /\ started <= lines
  /\ written \in Seq(Nat)

\* An open file is there, and rotated only when it is full.
Writable ==
  log_open => /\ 0 \in DOMAIN files
              /\ log_pos >= MaxSize => Len(files[0]) >= MaxSize

Remembered ==
  LET kept == IF lines - started < RecentMax THEN lines - started ELSE RecentMax
  IN recent = [i \in 1..kept |-> lines - kept + i]

LogIInv == LogTypeOK /\ Writable /\ Full(files) /\ Kept(files, written) /\ Remembered

\* The newest line joins the ones remembered, and the oldest makes room.
LEMMA RemembersOne ==
  ASSUME LogTypeOK, Remembered, Remember(lines + 1), lines' = lines + 1, started' = started
  PROVE  Remembered'
<1> DEFINE kept == IF lines - started < RecentMax THEN lines - started ELSE RecentMax
           then == IF (lines + 1) - started < RecentMax THEN (lines + 1) - started ELSE RecentMax
           all  == Append(recent, lines + 1)
<1>1. /\ lines \in Nat /\ started \in Nat /\ started <= lines /\ RecentMax \in Nat
      /\ kept \in Nat /\ then \in Nat
    BY LogAssumption DEF LogTypeOK
<1>2. recent = [i \in 1..kept |-> lines - kept + i]
    BY DEF Remembered
<1>3. recent \in Seq(Int) /\ Len(recent) = kept
    BY <1>1, <1>2
<1>4. /\ all \in Seq(Int) /\ Len(all) = kept + 1
      /\ \A i \in 1..kept : all[i] = lines - kept + i
      /\ all[kept + 1] = lines + 1
    BY <1>1, <1>2, <1>3, AppendProperties
<1>5. recent' = IF Len(all) > RecentMax THEN Tail(all) ELSE all
    BY DEF Remember
<1> HIDE DEF all
<1>6. recent' = [i \in 1..then |-> (lines + 1) - then + i]
  <2>1. CASE kept + 1 > RecentMax
    <3>1. kept = RecentMax /\ then = kept
        BY <1>1, <2>1
    <3>2. recent' = Tail(all) /\ all # <<>>
        BY <1>1, <1>4, <1>5, <2>1
    <3>3. /\ Tail(all) \in Seq(Int) /\ Len(Tail(all)) = kept
          /\ \A i \in 1..kept : Tail(all)[i] = all[i + 1]
        BY <1>1, <1>4, <3>2, HeadTailProperties
    <3>4. ASSUME NEW i \in 1..kept PROVE Tail(all)[i] = (lines + 1) - kept + i
      <4>1. CASE i = kept
          BY <1>1, <1>4, <3>3, <4>1
      <4>2. CASE i # kept
          BY <1>1, <1>4, <3>3, <4>2
      <4> QED BY <4>1, <4>2
    <3>5. Tail(all) = [i \in 1..kept |-> (lines + 1) - kept + i]
      <4> HIDE DEF kept
      <4>1. DOMAIN Tail(all) = 1..kept /\ Tail(all) \in [1..kept -> Int]
          BY ONLY <1>1, <3>3, LenProperties
      <4> QED BY ONLY <3>4, <4>1
    <3> QED BY <3>1, <3>2, <3>5
  <2>2. CASE ~(kept + 1 > RecentMax)
    <3>1. then = kept + 1
        BY <1>1, <2>2
    <3>2. recent' = all
        BY <1>4, <1>5, <2>2
    <3>3. ASSUME NEW i \in 1..(kept + 1) PROVE all[i] = (lines + 1) - (kept + 1) + i
      <4> HIDE DEF kept
      <4>1. CASE i = kept + 1
          BY <1>1, <1>4, <4>1
      <4>2. CASE i # kept + 1
          BY <1>1, <1>4, <4>2
      <4> QED BY <4>1, <4>2
    <3>4. all = [i \in 1..(kept + 1) |-> (lines + 1) - (kept + 1) + i]
      <4> HIDE DEF kept
      <4>1. DOMAIN all = 1..(kept + 1) /\ all \in [1..(kept + 1) -> Int]
          BY ONLY <1>1, <1>4, LenProperties
      <4> QED BY ONLY <3>3, <4>1
    <3> QED BY <3>1, <3>2, <3>4
  <2> QED BY <2>1, <2>2
<1>7. then = IF lines' - started' < RecentMax THEN lines' - started' ELSE RecentMax
  <2>1. lines' = lines + 1 /\ started' = started
      OBVIOUS
  <2> QED BY ONLY <2>1
<1>8. recent' = [i \in 1..then |-> lines' - then + i]
  <2>1. lines' = lines + 1
      OBVIOUS
  <2> HIDE DEF then
  <2> QED BY ONLY <1>6, <2>1
<1> HIDE DEF then
<1> QED BY <1>7, <1>8 DEF Remembered

LEMMA LogInitial == LogInit => LogIInv
<1> SUFFICES ASSUME LogInit PROVE LogIInv
    OBVIOUS
<1>0. Generations \in Nat /\ Generations >= 1 /\ MaxSize \in Nat \ {0} /\ RecentMax \in Nat
    BY GenerationsType, LogAssumption
<1>1. DOMAIN files = {0} /\ files[0] = <<>>
    BY DEF LogInit
<1>2. Files(files)
    BY <1>0, <1>1, EmptySeq DEF LogInit, Files
<1>3. Full(files)
    BY <1>1 DEF Full
<1>4. Kept(files, written)
  <2>1. \A k \in 0..Generations : HeldBy(files, k) = <<>>
      BY <1>1 DEF HeldBy
  <2> DEFINE S == {i \in Nat : i <= Generations => Contents(files)[i] = <<>>}
  <2>2. Generations \in S
      BY <1>0, <2>1, ContentsStep
  <2>3. ASSUME NEW i \in Nat, i < Generations, i + 1 \in S PROVE i \in S
    <3>1. Contents(files)[i] = Contents(files)[i + 1] \o HeldBy(files, i)
        BY <2>3, ContentsStep
    <3>2. Contents(files)[i + 1] = <<>> /\ HeldBy(files, i) = <<>>
        BY <1>0, <2>1, <2>3
    <3> QED BY <3>1, <3>2
  <2>4. 0 \in S
    <3> HIDE DEF S
    <3>1. \A i \in 0..Generations : i \in S
        BY <1>0, <2>2, <2>3, SetInductionDown
    <3> QED BY <1>0, <3>1
  <2>5. written = <<>> /\ <<>> \in Seq(Nat) /\ written = <<>> \o Contents(files)[0]
      BY <1>0, <2>4 DEF LogInit
  <2> QED BY ONLY <2>5 DEF Kept
<1>5. LogTypeOK /\ Writable /\ Remembered
    BY <1>0, <1>1, <1>2 DEF LogInit, LogTypeOK, Writable, Remembered
<1> QED BY <1>2, <1>3, <1>4, <1>5 DEF LogIInv

LEMMA LogKeepsIInv == ASSUME LogIInv, NEW l \in LogLevels, Log(l) PROVE LogIInv'
<1>0. /\ MaxSize \in Nat \ {0} /\ LogTypeOK
      /\ lines' = lines + 1 /\ started' = started /\ Remember(lines + 1)
      /\ lines + 1 \in Nat
    BY LogAssumption DEF LogIInv, LogTypeOK, Log
<1>1. Remembered'
    BY <1>0, RemembersOne DEF LogIInv
<1> DEFINE line == lines + 1
           rotates == log_open /\ log_pos >= MaxSize
<1>2. PICK reopens \in BOOLEAN :
        LET opens == log_open /\ (rotates => reopens)
            base  == IF ~rotates THEN files
                     ELSE IF opens THEN Opened(Rotated(files)) ELSE Rotated(files)
        IN /\ log_open' = opens
           /\ IF opens
                THEN /\ files' = [base EXCEPT ![0] = Append(@, line)]
                     /\ log_pos' = Len(files'[0])
                     /\ written' = Append(written, line)
                ELSE files' = base /\ UNCHANGED <<log_pos, written>>
    BY DEF Log
<1> DEFINE opens == log_open /\ (rotates => reopens)
           base  == IF ~rotates THEN files
                    ELSE IF opens THEN Opened(Rotated(files)) ELSE Rotated(files)
<1>3. /\ Files(base) /\ Full(base) /\ Kept(base, written)
      /\ opens => 0 \in DOMAIN base
  <2>1. CASE ~rotates
      BY <2>1 DEF LogIInv, LogTypeOK, Writable
  <2>2. CASE rotates
    <3>1. PICK rs : rs = Rotated(files)
        OBVIOUS
    <3>2. Files(rs) /\ Full(rs) /\ Kept(rs, written)
      <4>1. 0 \in DOMAIN files /\ Len(files[0]) >= MaxSize /\ Files(files) /\ Full(files)
            /\ Kept(files, written)
          BY <2>2 DEF LogIInv, LogTypeOK, Writable
      <4> QED BY ONLY <3>1, <4>1, Rotating
    <3>3. CASE opens
      <4>1. base = Opened(rs)
          BY <2>2, <3>1, <3>3
      <4> QED BY ONLY <3>2, <4>1, Opening
    <3>4. CASE ~opens
        BY <2>2, <3>1, <3>2, <3>4
    <3> QED BY <3>3, <3>4
  <2> QED BY <2>1, <2>2
<1>4. PICK fs : fs = base
    OBVIOUS
<1>5. CASE opens
  <2>1. /\ log_open' = TRUE /\ files' = [fs EXCEPT ![0] = Append(@, line)]
        /\ log_pos' = Len(files'[0]) /\ written' = Append(written, line)
      BY <1>2, <1>4, <1>5
  <2>2. /\ Files(files') /\ Full(files') /\ Kept(files', Append(written, line))
        /\ 0 \in DOMAIN files'
      BY ONLY <1>0, <1>3, <1>4, <1>5, <2>1, Writing
  <2>3. files'[0] \in Seq(Nat)
      BY <2>2 DEF Files
  <2>4. LogTypeOK'
    <3>1. Append(written, line) \in Seq(Nat) /\ Len(files'[0]) \in Nat
        BY <1>0, <2>3, AppendProperties, LenProperties DEF LogTypeOK
    <3> QED BY <1>0, <2>1, <2>2, <3>1 DEF LogTypeOK
  <2>5. Writable'
      BY <2>1, <2>2 DEF Writable
  <2> QED BY <1>1, <2>1, <2>2, <2>4, <2>5 DEF LogIInv
<1>6. CASE ~opens
  <2>1. log_open' = FALSE /\ files' = fs /\ UNCHANGED <<log_pos, written>>
      BY <1>2, <1>4, <1>6
  <2>2. LogTypeOK' /\ Writable'
    <3>1. Files(files')
        BY ONLY <1>3, <1>4, <2>1
    <3> HIDE DEF opens, base, rotates
    <3>2. Writable'
        BY <2>1 DEF Writable
    <3>3. started' \in Nat /\ lines' \in Nat /\ started' <= lines'
        BY <1>0 DEF LogTypeOK
    <3>4. log_open' \in BOOLEAN /\ log_pos' \in Nat /\ written' \in Seq(Nat)
        BY <1>0, <2>1 DEF LogTypeOK
    <3> QED BY <3>1, <3>2, <3>3, <3>4 DEF LogTypeOK
  <2> QED BY <1>1, <1>3, <1>4, <2>1, <2>2 DEF LogIInv
<1> QED BY <1>5, <1>6

LEMMA RestartKeepsIInv == ASSUME LogIInv, LogRestart PROVE LogIInv'
<1>0. MaxSize \in Nat \ {0} /\ RecentMax \in Nat /\ LogTypeOK
    BY LogAssumption DEF LogIInv
<1>1. PICK opens \in BOOLEAN :
        log_open' = opens /\ files' = IF opens THEN Opened(files) ELSE files
    BY DEF LogRestart
<1>2. /\ log_pos' = 0 /\ recent' = <<>> /\ started' = lines /\ lines' = lines
      /\ written' = written
    BY DEF LogRestart
<1>3. /\ Files(files') /\ Full(files') /\ Kept(files', written)
      /\ opens => 0 \in DOMAIN files'
  <2>1. CASE opens
    <3>1. files' = Opened(files) /\ Files(files) /\ Full(files) /\ Kept(files, written)
        BY <1>1, <2>1 DEF LogIInv, LogTypeOK
    <3> QED BY ONLY <3>1, Opening
  <2>2. CASE ~opens
      BY <1>1, <2>2 DEF LogIInv, LogTypeOK
  <2> QED BY <2>1, <2>2
<1>4. LogTypeOK' /\ Writable'
    BY <1>0, <1>1, <1>2, <1>3 DEF LogTypeOK, Writable
<1>5. Remembered'
    BY <1>0, <1>2 DEF LogTypeOK, Remembered
<1> QED BY <1>2, <1>3, <1>4, <1>5 DEF LogIInv

LEMMA LogInvariance == LogInit /\ [][LogNext]_logVars => []LogIInv
<1>1. LogIInv /\ [LogNext]_logVars => LogIInv'
  <2> SUFFICES ASSUME LogIInv, [LogNext]_logVars PROVE LogIInv'
      OBVIOUS
  <2>1. ASSUME NEW l \in LogLevels, setLevel(l) PROVE LogIInv'
      BY <2>1 DEF setLevel, LogIInv, LogTypeOK, Writable, Remembered
  <2>2. CASE UNCHANGED logVars
      BY <2>2 DEF logVars, LogIInv, LogTypeOK, Writable, Remembered
  <2> QED BY <2>1, <2>2, LogKeepsIInv, RestartKeepsIInv DEF LogNext
<1> QED BY <1>1, LogInitial, PTL

\* For every size, number of files and restart, the files hold the newest lines
\* without a gap, nothing was thrown away too early, and memory holds the newest
\* lines of this process.
THEOREM NewestKept == LogSpec => []LogKeepsNewest
<1>1. LogIInv => LogKeepsNewest
  <2> SUFFICES ASSUME LogIInv PROVE LogKeepsNewest
      OBVIOUS
  <2>1. PICK gone \in Seq(Nat) : /\ written = gone \o OnDisk
                                 /\ gone # <<>> => Generations \in DOMAIN files
      BY DEF LogIInv, Kept, OnDisk
  <2>2. OnDisk \in Seq(Nat)
      BY GenerationsType, ContentsType DEF LogIInv, LogTypeOK, OnDisk
  <2>3. IsSuffix(OnDisk, written)
      BY <2>1, <2>2, LastIsSuffix
  <2>4. ASSUME Len(OnDisk) < Len(written) PROVE Len(OnDisk) >= Generations * MaxSize
    <3>1. gone # <<>>
        BY <2>1, <2>2, <2>4
    <3> QED BY <2>1, <3>1, NotShort DEF LogIInv, LogTypeOK, OnDisk
  <2> QED BY <2>3, <2>4 DEF LogIInv, Remembered, LogKeepsNewest
<1> QED BY <1>1, LogInvariance, PTL DEF LogSpec

-----------------------------------------------------------------------------
(* The fault memory. *)

Snapshots == [code : FaultCodes, at : Int]

LEMMA AppendSnapshot ==
  \A q, u \in Seq(Snapshots) : \A e \in Snapshots : Append(q \o u, e) = q \o Append(u, e)
<1> SUFFICES ASSUME NEW q \in Seq(Snapshots), NEW u \in Seq(Snapshots), NEW e \in Snapshots
             PROVE  Append(q \o u, e) = q \o Append(u, e)
    OBVIOUS
<1>1. q \o u \in Seq(Snapshots)
    BY ConcatProperties
<1>2. PICK v : v = <<e>> /\ v \in Seq(Snapshots)
  <2>1. <<e>> \in Seq(Snapshots)
      OBVIOUS
  <2> QED BY <2>1, Zenon
<1>3. Append(q \o u, e) = (q \o u) \o v /\ Append(u, e) = u \o v
    BY <1>1, <1>2, AppendIsConcat
<1>4. (q \o u) \o v = q \o (u \o v)
    BY <1>2, ConcatAssociative
<1> QED BY ONLY <1>3, <1>4

LEMMA SparedStep ==
  ASSUME NEW taken \in Seq(Snapshots), NEW codes
  PROVE  /\ Spared(taken, codes)[0] = <<>>
         /\ \A i \in 1..Len(taken) :
              Spared(taken, codes)[i] =
                IF taken[i].code \in codes THEN Spared(taken, codes)[i - 1]
                ELSE Append(Spared(taken, codes)[i - 1], taken[i])
<1> DEFINE Joined(q, i) == IF taken[i].code \in codes THEN q ELSE Append(q, taken[i])
           Holds(f, n) == f = [i \in 0..n |-> IF i = 0 THEN <<>> ELSE Joined(f[i - 1], i)]
           S == {n \in Nat : \E f : Holds(f, n)}
<1> HIDE DEF Joined
<1>1. 0 \in S
  <2>1. Holds([i \in 0..0 |-> <<>>], 0)
      OBVIOUS
  <2> QED BY <2>1
<1>2. ASSUME NEW n \in Nat, n \in S PROVE n + 1 \in S
  <2>1. PICK f : Holds(f, n)
      BY <1>2
  <2> DEFINE g == [i \in 0..(n + 1) |-> IF i = n + 1 THEN Joined(f[n], n + 1) ELSE f[i]]
  <2>2. ASSUME NEW i \in 0..(n + 1)
        PROVE  g[i] = IF i = 0 THEN <<>> ELSE Joined(g[i - 1], i)
    <3>1. CASE i = 0
        BY <2>1, <3>1
    <3>2. CASE i # 0 /\ i # n + 1
        BY <2>1, <3>2
    <3>3. CASE i = n + 1
        BY <3>3
    <3> QED BY <3>1, <3>2, <3>3
  <2>3. Holds(g, n + 1)
      BY <2>2
  <2>4. n + 1 \in Nat
      OBVIOUS
  <2> HIDE DEF g, Holds
  <2> QED BY <2>3, <2>4
<1> DEFINE length == Len(taken)
<1>3. length \in Nat
    BY LenProperties
<1> HIDE DEF length
<1>4. \E f : Holds(f, length)
  <2> HIDE DEF S
  <2>1. length \in S
      BY <1>1, <1>2, <1>3, SetInduction
  <2> QED BY <2>1 DEF S
<1>5. Holds(Spared(taken, codes), length)
    BY <1>4 DEF Spared, Joined, length
<1>6. Spared(taken, codes)[0] = <<>>
    BY <1>3, <1>5
<1>7. ASSUME NEW i \in 1..length
      PROVE  Spared(taken, codes)[i] = Joined(Spared(taken, codes)[i - 1], i)
    BY <1>3, <1>5
<1> QED BY <1>6, <1>7 DEF Joined, length

LEMMA SparedOne ==
  ASSUME NEW taken \in Seq(Snapshots), NEW codes, NEW i \in 1..Len(taken)
  PROVE  Spared(taken, codes)[i] =
           IF taken[i].code \in codes THEN Spared(taken, codes)[i - 1]
           ELSE Append(Spared(taken, codes)[i - 1], taken[i])
BY SparedStep

LEMMA SparedType ==
  ASSUME NEW taken \in Seq(Snapshots), NEW codes
  PROVE  \A i \in 0..Len(taken) : Spared(taken, codes)[i] \in Seq(Snapshots)
<1> DEFINE S == {i \in Nat : i <= Len(taken) => Spared(taken, codes)[i] \in Seq(Snapshots)}
<1>1. 0 \in S
  <2>1. Spared(taken, codes)[0] = <<>>
      BY SparedStep
  <2> QED BY <2>1, EmptySeq
<1>2. ASSUME NEW i \in Nat, i \in S PROVE i + 1 \in S
  <2> SUFFICES ASSUME i + 1 <= Len(taken)
               PROVE  Spared(taken, codes)[i + 1] \in Seq(Snapshots)
      OBVIOUS
  <2>1. PICK j \in 1..Len(taken) : j = i + 1 /\ j - 1 = i
      BY LenProperties
  <2>2. taken[j] \in Snapshots
      BY ElementOfSeq
  <2>3. Spared(taken, codes)[i] \in Seq(Snapshots)
      BY <1>2, LenProperties
  <2>4. Append(Spared(taken, codes)[i], taken[j]) \in Seq(Snapshots)
      BY <2>2, <2>3, AppendProperties
  <2>5. Spared(taken, codes)[j] =
          IF taken[j].code \in codes THEN Spared(taken, codes)[j - 1]
          ELSE Append(Spared(taken, codes)[j - 1], taken[j])
      BY SparedStep
  <2> QED BY <2>1, <2>3, <2>4, <2>5
<1> HIDE DEF S
<1>3. \A i \in Nat : i \in S
    BY <1>1, <1>2, SetInduction
<1> QED BY <1>3, LenProperties DEF S

\* What is left of two sequences put together is what is left of each.
Joined(all, older, newer) == all = older \o newer

LEMMA SparedApart ==
  ASSUME NEW older \in Seq(Snapshots), NEW newer \in Seq(Snapshots), NEW codes,
         NEW taken, Joined(taken, older, newer)
  PROVE  Joined(Spared(taken, codes)[Len(taken)],
                Spared(older, codes)[Len(older)], Spared(newer, codes)[Len(newer)])
<1> DEFINE m == Len(older)
           n == Len(newer)
           L(i) == Spared(taken, codes)[i]
<1>1. /\ taken \in Seq(Snapshots) /\ Len(taken) = m + n /\ m \in Nat /\ n \in Nat
      /\ \A i \in 1..m : taken[i] = older[i]
      /\ \A i \in 1..n : taken[m + i] = newer[i]
    BY DEF Joined
<1> HIDE DEF m, n
<1>2. ASSUME NEW i \in 1..Len(taken)
      PROVE  L(i) = IF taken[i].code \in codes THEN L(i - 1) ELSE Append(L(i - 1), taken[i])
    BY ONLY <1>1, SparedOne
<1>3. L(m) = Spared(older, codes)[m]
  <2> DEFINE S == {i \in Nat : i <= m => L(i) = Spared(older, codes)[i]}
  <2>1. 0 \in S
    <3>1. Spared(taken, codes)[0] = <<>>
        BY ONLY <1>1, SparedStep
    <3>2. Spared(older, codes)[0] = <<>>
        BY SparedStep
    <3> QED BY <3>1, <3>2
  <2>2. ASSUME NEW i \in Nat, i \in S PROVE i + 1 \in S
    <3> SUFFICES ASSUME i + 1 <= m PROVE L(i + 1) = Spared(older, codes)[i + 1]
        OBVIOUS
    <3>1. PICK j \in 1..m : j = i + 1 /\ j - 1 = i
        BY <1>1
    <3>2. L(i) = Spared(older, codes)[i]
        BY <1>1, <2>2
    <3>3. Spared(older, codes)[j] =
            IF older[j].code \in codes THEN Spared(older, codes)[j - 1]
            ELSE Append(Spared(older, codes)[j - 1], older[j])
        BY SparedStep DEF m
    <3>4. j \in 1..Len(taken) /\ taken[j] = older[j]
        BY <1>1
    <3>5. L(j) = IF taken[j].code \in codes THEN L(j - 1) ELSE Append(L(j - 1), taken[j])
        BY <1>2, <3>4
    <3> HIDE DEF L
    <3> QED BY ONLY <3>1, <3>2, <3>3, <3>4, <3>5
  <2> HIDE DEF S
  <2>3. m \in S
      BY <1>1, <2>1, <2>2, SetInduction
  <2> QED BY <1>1, <2>3 DEF S
<1>4. L(m + n) = Spared(older, codes)[m] \o Spared(newer, codes)[n]
  <2> DEFINE head == Spared(older, codes)[m]
             R(i) == head \o Spared(newer, codes)[i]
             S == {i \in Nat : i <= n => L(m + i) = R(i)}
  <2>0. head \in Seq(Snapshots)
      BY <1>1, SparedType DEF m
  <2>1. 0 \in S
    <3>1. Spared(newer, codes)[0] = <<>> /\ m + 0 = m
        BY <1>1, SparedStep
    <3>2. head \o <<>> = head
        BY <2>0, ConcatEmptySeq
    <3> QED BY <1>3, <3>1, <3>2
  <2>2. ASSUME NEW i \in Nat, i \in S PROVE i + 1 \in S
    <3>0. (i + 1 <= n => L(m + (i + 1)) = R(i + 1)) => i + 1 \in S
      <4> HIDE DEF L, R
      <4> QED OBVIOUS
    <3> SUFFICES ASSUME i + 1 <= n PROVE L(m + (i + 1)) = R(i + 1)
        BY <3>0
    <3>1. PICK j \in 1..n : j = i + 1 /\ j - 1 = i
        BY <1>1
    <3>2. L(m + i) = head \o Spared(newer, codes)[i]
      <4> HIDE DEF L, R
      <4>1. L(m + i) = R(i)
          BY <1>1, <2>2
      <4> QED BY <4>1 DEF R
    <3>3. Spared(newer, codes)[j] =
            IF newer[j].code \in codes THEN Spared(newer, codes)[j - 1]
            ELSE Append(Spared(newer, codes)[j - 1], newer[j])
        BY SparedStep DEF n
    <3>4. PICK k \in 1..Len(taken) : k = m + j /\ k - 1 = m + i
        BY <1>1, <3>1
    <3>5. taken[k] = newer[j] /\ newer[j] \in Snapshots
        BY <1>1, <3>4, ElementOfSeq DEF n
    <3>6. L(k) = IF taken[k].code \in codes THEN L(k - 1) ELSE Append(L(k - 1), taken[k])
        BY <1>2
    <3>7. Spared(newer, codes)[i] \in Seq(Snapshots)
        BY <1>1, <3>1, SparedType DEF n
    <3>8. Append(head \o Spared(newer, codes)[i], newer[j])
            = head \o Append(Spared(newer, codes)[i], newer[j])
      <4>1. PICK q : q = Spared(newer, codes)[i]
          OBVIOUS
      <4>2. PICK e : e = newer[j]
          OBVIOUS
      <4>3. q \in Seq(Snapshots) /\ e \in Snapshots
          BY <3>5, <3>7, <4>1, <4>2
      <4>4. Append(head \o q, e) = head \o Append(q, e)
        <5> HIDE DEF head
        <5> QED BY ONLY <2>0, <4>3, AppendSnapshot, Zenon
      <4> QED BY <4>1, <4>2, <4>4
    <3>9. m + (i + 1) = k
        BY <1>1, <3>1, <3>4
    <3> HIDE DEF L, head
    <3> QED BY ONLY <3>1, <3>2, <3>3, <3>4, <3>5, <3>6, <3>8, <3>9
  <2> HIDE DEF S
  <2>3. n \in S
      BY <1>1, <2>1, <2>2, SetInduction
  <2>4. L(m + n) = R(n)
    <3> HIDE DEF L, R
    <3> QED BY <1>1, <2>3 DEF S
  <2> QED BY <2>4
<1> QED BY <1>1, <1>4 DEF m, n, Joined

FaultTypeOK ==
  /\ DOMAIN stored_dtcs \subseteq FaultCodes
  /\ stored_dtcs \in [DOMAIN stored_dtcs -> [count : Nat, pending : BOOLEAN]]
  /\ added \in [FaultCodes -> Nat]
  /\ freeze_frames \in Seq(Snapshots) /\ captured \in Seq(Snapshots)
  /\ events \in Nat

Counted ==
  \A c \in FaultCodes :
    added[c] = IF c \in DOMAIN stored_dtcs THEN stored_dtcs[c].count ELSE 0

NewestTaken == \E older \in Seq(Snapshots) : captured = older \o freeze_frames

FaultIInv == FaultTypeOK /\ Counted /\ NewestTaken

LEMMA FaultsFirst == FaultInit => FaultIInv
<1> SUFFICES ASSUME FaultInit PROVE FaultIInv
    OBVIOUS
<1>1. FaultTypeOK
  <2>1. DOMAIN stored_dtcs = {} /\ stored_dtcs \in [{} -> [count : Nat, pending : BOOLEAN]]
      BY DEF FaultInit
  <2>2. freeze_frames \in Seq(Snapshots) /\ captured \in Seq(Snapshots)
      BY EmptySeq DEF FaultInit
  <2>3. added \in [FaultCodes -> Nat] /\ events \in Nat
      BY DEF FaultInit
  <2> QED BY <2>1, <2>2, <2>3 DEF FaultTypeOK
<1>2. Counted
    BY DEF FaultInit, Counted
<1>3. NewestTaken
  <2>1. <<>> \in Seq(Snapshots) /\ captured = <<>> \o freeze_frames
      BY EmptySeq DEF FaultInit
  <2> QED BY <2>1 DEF NewestTaken
<1> QED BY <1>1, <1>2, <1>3 DEF FaultIInv

\* The steps of the table, which leave the snapshots alone.
TableOK ==
  /\ DOMAIN stored_dtcs \subseteq FaultCodes
  /\ stored_dtcs \in [DOMAIN stored_dtcs -> [count : Nat, pending : BOOLEAN]]
  /\ added \in [FaultCodes -> Nat]

FramesOK == freeze_frames \in Seq(Snapshots) /\ captured \in Seq(Snapshots) /\ NewestTaken

LEMMA FaultParts == FaultIInv <=> TableOK /\ FramesOK /\ Counted /\ events \in Nat
BY DEF FaultIInv, FaultTypeOK, TableOK, FramesOK

LEMMA Adding ==
  ASSUME TableOK, Counted, NEW code \in FaultCodes, NEW pending \in BOOLEAN,
         addDTC(code, pending)
  PROVE  TableOK' /\ Counted'
<1>1. /\ DOMAIN stored_dtcs' = DOMAIN stored_dtcs \cup {code}
      /\ \A c \in DOMAIN stored_dtcs : c # code => stored_dtcs'[c] = stored_dtcs[c]
    BY DEF addDTC
<1>2. /\ stored_dtcs'[code].count =
           1 + (IF code \in DOMAIN stored_dtcs THEN stored_dtcs[code].count ELSE 0)
      /\ stored_dtcs'[code] \in [count : Nat, pending : BOOLEAN]
    BY DEF addDTC, TableOK
<1>3. added' = [added EXCEPT ![code] = @ + 1]
    BY DEF addDTC
<1>4. TableOK'
  <2>1. stored_dtcs' \in [DOMAIN stored_dtcs' -> [count : Nat, pending : BOOLEAN]]
    <3>1. \A c \in DOMAIN stored_dtcs' : stored_dtcs'[c] \in [count : Nat, pending : BOOLEAN]
        BY <1>1, <1>2 DEF TableOK
    <3>2. stored_dtcs' = [c \in DOMAIN stored_dtcs' |-> stored_dtcs'[c]]
        BY DEF addDTC
    <3> QED BY <3>1, <3>2
  <2> QED BY <1>1, <1>3, <2>1 DEF TableOK
<1>5. Counted'
  <2> SUFFICES ASSUME NEW c \in FaultCodes
               PROVE  added'[c] = IF c \in DOMAIN stored_dtcs'
                                  THEN stored_dtcs'[c].count ELSE 0
      BY DEF Counted
  <2>1. CASE c = code
      BY <1>1, <1>2, <1>3, <2>1 DEF TableOK, Counted
  <2>2. CASE c # code
      BY <1>1, <1>3, <2>2 DEF TableOK, Counted
  <2> QED BY <2>1, <2>2
<1> QED BY <1>4, <1>5

LEMMA Removing ==
  ASSUME TableOK, Counted, NEW codes, Removed(codes)
  PROVE  TableOK' /\ Counted'
<1>1. /\ DOMAIN stored_dtcs' = DOMAIN stored_dtcs \ codes
      /\ \A c \in DOMAIN stored_dtcs' : stored_dtcs'[c] = stored_dtcs[c]
      /\ stored_dtcs' = [c \in DOMAIN stored_dtcs' |-> stored_dtcs'[c]]
    BY DEF Removed, Keep
<1>2. added' = [c \in FaultCodes |-> IF c \in codes THEN 0 ELSE added[c]]
    BY DEF Removed
<1>3. TableOK'
    BY <1>1, <1>2 DEF TableOK
<1>4. Counted'
    BY <1>1, <1>2 DEF Counted
<1> QED BY <1>3, <1>4

\* A step that touches nothing but whether a code is pending.
LEMMA Relabelling ==
  ASSUME TableOK, Counted, added' = added,
         DOMAIN stored_dtcs' = DOMAIN stored_dtcs,
         stored_dtcs' \in [DOMAIN stored_dtcs -> [count : Nat, pending : BOOLEAN]],
         \A c \in DOMAIN stored_dtcs : stored_dtcs'[c].count = stored_dtcs[c].count
  PROVE  TableOK' /\ Counted'
BY DEF TableOK, Counted

\* The oldest snapshot makes room for a new one.
LEMMA Capturing ==
  ASSUME FramesOK, events \in Nat, NEW code \in FaultCodes, captureFrame(code)
  PROVE  FramesOK'
<1> DEFINE frame == [code |-> code, at |-> events + 1]
           room == IF Len(freeze_frames) >= MaxFreezeFrames
                   THEN Tail(freeze_frames) ELSE freeze_frames
<1>1. frame \in Snapshots
    BY DEF Snapshots
<1>2. freeze_frames' = Append(room, frame) /\ captured' = Append(captured, frame)
    BY DEF captureFrame
<1> HIDE DEF frame
<1>3. PICK older \in Seq(Snapshots) : captured = older \o freeze_frames
    BY DEF FramesOK, NewestTaken
<1>4. \E gone \in Seq(Snapshots) : room \in Seq(Snapshots) /\ captured = gone \o room
  <2>1. CASE ~ (Len(freeze_frames) >= MaxFreezeFrames)
      BY <1>3, <2>1 DEF FramesOK
  <2>2. CASE Len(freeze_frames) >= MaxFreezeFrames
    <3>1. freeze_frames \in Seq(Snapshots) /\ freeze_frames # <<>> /\ room = Tail(freeze_frames)
        BY <2>2, FaultMemoryAssumption DEF FramesOK
    <3>2. PICK first : first = <<Head(freeze_frames)>>
        OBVIOUS
    <3>3. first \in Seq(Snapshots) /\ room \in Seq(Snapshots) /\ freeze_frames = first \o room
        BY <3>1, <3>2
    <3>4. (older \o first) \o room = older \o (first \o room)
      <4> HIDE DEF room
      <4> QED BY ONLY older \in Seq(Snapshots), <3>3, ConcatAssociative
    <3>5. older \o first \in Seq(Snapshots)
        BY <3>3, ConcatProperties
    <3>6. captured = (older \o first) \o room
        BY ONLY <1>3, <3>3, <3>4
    <3> HIDE DEF room
    <3> QED BY <3>3, <3>5, <3>6
  <2> QED BY <2>1, <2>2
<1> HIDE DEF room
<1>5. PICK gone \in Seq(Snapshots) : room \in Seq(Snapshots) /\ captured = gone \o room
    BY <1>4
<1>6. captured' = gone \o freeze_frames'
    BY ONLY <1>1, <1>2, <1>5, AppendSnapshot
<1>7. freeze_frames' \in Seq(Snapshots) /\ captured' \in Seq(Snapshots)
    BY <1>1, <1>2, <1>5, AppendProperties DEF FramesOK
<1> QED BY <1>6, <1>7 DEF FramesOK, NewestTaken

LEMMA Clearing ==
  ASSUME FramesOK, NEW codes, ClearFrames(codes)
  PROVE  FramesOK'
<1>1. PICK older \in Seq(Snapshots) : captured = older \o freeze_frames
    BY DEF FramesOK, NewestTaken
<1>2. freeze_frames \in Seq(Snapshots) /\ captured \in Seq(Snapshots)
    BY DEF FramesOK
<1>3. Joined(captured, older, freeze_frames)
    BY <1>1 DEF Joined
<1>4. Joined(Spared(captured, codes)[Len(captured)], Spared(older, codes)[Len(older)],
             Spared(freeze_frames, codes)[Len(freeze_frames)])
    BY ONLY <1>2, <1>3, older \in Seq(Snapshots), SparedApart
<1>5. /\ Spared(older, codes)[Len(older)] \in Seq(Snapshots)
      /\ Spared(freeze_frames, codes)[Len(freeze_frames)] \in Seq(Snapshots)
      /\ Spared(captured, codes)[Len(captured)] \in Seq(Snapshots)
    BY <1>2, SparedType, LenProperties
<1>6. /\ freeze_frames' = Spared(freeze_frames, codes)[Len(freeze_frames)]
      /\ captured' = Spared(captured, codes)[Len(captured)]
    BY DEF ClearFrames
<1> QED BY <1>4, <1>5, <1>6 DEF FramesOK, NewestTaken, Joined

LEMMA FramesSame ==
  ASSUME FramesOK, UNCHANGED <<freeze_frames, captured>>
  PROVE  FramesOK'
BY DEF FramesOK, NewestTaken

LEMMA TableSame ==
  ASSUME TableOK, Counted, UNCHANGED <<stored_dtcs, added>>
  PROVE  TableOK' /\ Counted'
BY DEF TableOK, Counted

LEMMA FaultStep == FaultIInv /\ [FaultNext]_faultVars => FaultIInv'
<1> SUFFICES ASSUME FaultIInv, [FaultNext]_faultVars PROVE FaultIInv'
    OBVIOUS
<1>0. TableOK /\ FramesOK /\ Counted /\ events \in Nat
    BY FaultParts
<1> SUFFICES TableOK' /\ FramesOK' /\ Counted' /\ events' \in Nat
    BY FaultParts DEF FaultIInv, FaultTypeOK, TableOK, FramesOK
<1>1. ASSUME NEW c \in FaultCodes, NEW p \in BOOLEAN, addDTC(c, p)
      PROVE  TableOK' /\ FramesOK' /\ Counted' /\ events' \in Nat
  <2>1. UNCHANGED <<freeze_frames, captured>> /\ events' \in Nat
      BY <1>0, <1>1 DEF addDTC
  <2> QED BY <1>0, <1>1, <2>1, Adding, FramesSame
<1>2. ASSUME NEW c \in FaultCodes, NEW p \in BOOLEAN, setPending(c, p)
      PROVE  TableOK' /\ FramesOK' /\ Counted' /\ events' \in Nat
  <2>1. /\ DOMAIN stored_dtcs' = DOMAIN stored_dtcs
        /\ stored_dtcs' \in [DOMAIN stored_dtcs -> [count : Nat, pending : BOOLEAN]]
        /\ \A d \in DOMAIN stored_dtcs : stored_dtcs'[d].count = stored_dtcs[d].count
      BY <1>0, <1>2 DEF setPending, TableOK
  <2>2. UNCHANGED <<added, freeze_frames, captured, events>>
      BY <1>2 DEF setPending
  <2> QED BY <1>0, <2>1, <2>2, Relabelling, FramesSame
<1>3. ASSUME NEW codes, Removed(codes)
      PROVE  TableOK' /\ FramesOK' /\ Counted' /\ events' \in Nat
  <2>1. UNCHANGED <<freeze_frames, captured, events>>
      BY <1>3 DEF Removed
  <2> QED BY <1>0, <1>3, <2>1, Removing, FramesSame
<1>4. ASSUME NEW c \in FaultCodes, captureFrame(c)
      PROVE  TableOK' /\ FramesOK' /\ Counted' /\ events' \in Nat
  <2>1. UNCHANGED <<stored_dtcs, added>> /\ events' \in Nat
      BY <1>0, <1>4 DEF captureFrame
  <2> QED BY <1>0, <1>4, <2>1, Capturing, TableSame
<1>5. ASSUME NEW codes, ClearFrames(codes)
      PROVE  TableOK' /\ FramesOK' /\ Counted' /\ events' \in Nat
  <2>1. UNCHANGED <<stored_dtcs, added, events>>
      BY <1>5 DEF ClearFrames
  <2> QED BY <1>0, <1>5, <2>1, Clearing, TableSame
<1>6. CASE clearPending
  <2>1. /\ DOMAIN stored_dtcs' = DOMAIN stored_dtcs
        /\ stored_dtcs' \in [DOMAIN stored_dtcs -> [count : Nat, pending : BOOLEAN]]
        /\ \A d \in DOMAIN stored_dtcs : stored_dtcs'[d].count = stored_dtcs[d].count
      BY <1>0, <1>6 DEF clearPending, TableOK
  <2>2. UNCHANGED <<added, freeze_frames, captured, events>>
      BY <1>6 DEF clearPending
  <2> QED BY <1>0, <2>1, <2>2, Relabelling, FramesSame
<1>7. CASE UNCHANGED faultVars
    BY <1>0, <1>7, FramesSame, TableSame DEF faultVars
<1> QED
    BY <1>1, <1>2, <1>3, <1>4, <1>5, <1>6, <1>7
    DEF FaultNext, removeDTC, clearAllDTCs, clearActive, clearForDTC, clearAllFrames

LEMMA FaultAlways == FaultSpec => []FaultIInv
BY FaultsFirst, FaultStep, PTL DEF FaultSpec

\* Whatever was reported, confirmed, removed, captured and cleared, and in
\* which order: each code of DTCManager's table has the count of its reports,
\* and FreezeFrame's snapshots are the newest of those not cleared.
THEOREM FaultsCounted == FaultSpec => []FaultsRemembered
<1>1. FaultIInv => FaultsRemembered
  <2> SUFFICES ASSUME FaultIInv PROVE FaultsRemembered
      OBVIOUS
  <2>1. PICK older \in Seq(Snapshots) : captured = older \o freeze_frames
      BY DEF FaultIInv, NewestTaken
  <2>2. freeze_frames \in Seq(Snapshots)
      BY DEF FaultIInv, FaultTypeOK
  <2>3. IsSuffix(freeze_frames, captured)
      BY <2>1, <2>2, LastIsSuffix
  <2> QED BY <2>3 DEF FaultIInv, Counted, FaultsRemembered
<1> QED BY <1>1, FaultAlways, PTL

-----------------------------------------------------------------------------
(* The seed and key algorithms. *)

LEMMA ByteIs == \A x : x \in Byte <=> x \in Int /\ 0 <= x /\ x <= 255
BY DEF Byte

\* What the eight bits of a byte are worth.
LEMMA BitsMakeByte ==
  ASSUME NEW x \in Int, 0 <= x, x <= 255
  PROVE  x = Bit(x, 1) + 2 * Bit(x, 2) + 4 * Bit(x, 4) + 8 * Bit(x, 8)
               + 16 * Bit(x, 16) + 32 * Bit(x, 32) + 64 * Bit(x, 64) + 128 * Bit(x, 128)
<1>1. /\ x = 2 * (x \div 2) + Bit(x, 1)
      /\ x \div 2 = 2 * (x \div 4) + Bit(x, 2)
      /\ x \div 4 = 2 * (x \div 8) + Bit(x, 4)
      /\ x \div 8 = 2 * (x \div 16) + Bit(x, 8)
    BY DEF Bit
<1>2. /\ x \div 16 = 2 * (x \div 32) + Bit(x, 16)
      /\ x \div 32 = 2 * (x \div 64) + Bit(x, 32)
      /\ x \div 64 = 2 * (x \div 128) + Bit(x, 64)
      /\ x \div 128 = Bit(x, 128)
    BY DEF Bit
<1>3. /\ Bit(x, 1) \in Int /\ Bit(x, 2) \in Int /\ Bit(x, 4) \in Int /\ Bit(x, 8) \in Int
      /\ Bit(x, 16) \in Int /\ Bit(x, 32) \in Int /\ Bit(x, 64) \in Int
      /\ Bit(x, 128) \in Int
    BY DEF Bit
<1>4. /\ x \div 2 \in Int /\ x \div 4 \in Int /\ x \div 8 \in Int /\ x \div 16 \in Int
      /\ x \div 32 \in Int /\ x \div 64 \in Int /\ x \div 128 \in Int
    OBVIOUS
<1> QED BY <1>1, <1>2, <1>3, <1>4

LEMMA BitType ==
  ASSUME NEW x \in Int, NEW w \in Int, w > 0
  PROVE  Bit(x, w) = 0 \/ Bit(x, w) = 1
BY DEF Bit

\* A sum of different powers of two tells which they are.
LEMMA PowersApart ==
  ASSUME NEW a1 \in {0, 1}, NEW a2 \in {0, 2}, NEW a3 \in {0, 4}, NEW a4 \in {0, 8},
         NEW a5 \in {0, 16}, NEW a6 \in {0, 32}, NEW a7 \in {0, 64}, NEW a8 \in {0, 128},
         NEW b1 \in {0, 1}, NEW b2 \in {0, 2}, NEW b3 \in {0, 4}, NEW b4 \in {0, 8},
         NEW b5 \in {0, 16}, NEW b6 \in {0, 32}, NEW b7 \in {0, 64}, NEW b8 \in {0, 128},
         a1 + a2 + a3 + a4 + a5 + a6 + a7 + a8 = b1 + b2 + b3 + b4 + b5 + b6 + b7 + b8
  PROVE  /\ a1 = b1 /\ a2 = b2 /\ a3 = b3 /\ a4 = b4
         /\ a5 = b5 /\ a6 = b6 /\ a7 = b7 /\ a8 = b8
OBVIOUS

Differing(x, y, w) == IF Bit(x, w) = Bit(y, w) THEN 0 ELSE w

LEMMA XorIs ==
  \A x, y : Xor(x, y) =
    Differing(x, y, 1) + Differing(x, y, 2) + Differing(x, y, 4) + Differing(x, y, 8)
      + Differing(x, y, 16) + Differing(x, y, 32) + Differing(x, y, 64) + Differing(x, y, 128)
BY DEF Xor, Differing

LEMMA DifferingType ==
  ASSUME NEW x, NEW y, NEW w
  PROVE  Differing(x, y, w) \in {0, w}
BY DEF Differing

LEMMA XorType == \A x, y : Xor(x, y) \in Byte
<1> SUFFICES ASSUME NEW x, NEW y PROVE Xor(x, y) \in Byte
    OBVIOUS
<1>1. /\ Differing(x, y, 1) \in {0, 1} /\ Differing(x, y, 2) \in {0, 2}
      /\ Differing(x, y, 4) \in {0, 4} /\ Differing(x, y, 8) \in {0, 8}
      /\ Differing(x, y, 16) \in {0, 16} /\ Differing(x, y, 32) \in {0, 32}
      /\ Differing(x, y, 64) \in {0, 64} /\ Differing(x, y, 128) \in {0, 128}
    BY DifferingType
<1> QED BY <1>1, XorIs, ByteIs

\* Two bytes that differ from a third in the same bits are the same byte.
LEMMA XorTellsApart ==
  ASSUME NEW x \in Byte, NEW y \in Byte, NEW z \in Byte, Xor(x, z) = Xor(y, z)
  PROVE  x = y
<1>0. x \in Int /\ y \in Int /\ z \in Int
    BY ByteIs
<1>1. /\ Differing(x, z, 1) \in {0, 1} /\ Differing(x, z, 2) \in {0, 2}
      /\ Differing(x, z, 4) \in {0, 4} /\ Differing(x, z, 8) \in {0, 8}
      /\ Differing(x, z, 16) \in {0, 16} /\ Differing(x, z, 32) \in {0, 32}
      /\ Differing(x, z, 64) \in {0, 64} /\ Differing(x, z, 128) \in {0, 128}
    BY DifferingType
<1>2. /\ Differing(y, z, 1) \in {0, 1} /\ Differing(y, z, 2) \in {0, 2}
      /\ Differing(y, z, 4) \in {0, 4} /\ Differing(y, z, 8) \in {0, 8}
      /\ Differing(y, z, 16) \in {0, 16} /\ Differing(y, z, 32) \in {0, 32}
      /\ Differing(y, z, 64) \in {0, 64} /\ Differing(y, z, 128) \in {0, 128}
    BY DifferingType
<1> DEFINE Same(w) == Differing(x, z, w) = Differing(y, z, w)
<1>3. /\ Same(1) /\ Same(2) /\ Same(4) /\ Same(8)
      /\ Same(16) /\ Same(32) /\ Same(64) /\ Same(128)
    BY <1>1, <1>2, XorIs, PowersApart
<1>4. ASSUME NEW w \in Int, w > 0, Same(w) PROVE Bit(x, w) = Bit(y, w)
  <2>1. /\ Bit(x, w) = 0 \/ Bit(x, w) = 1
        /\ Bit(y, w) = 0 \/ Bit(y, w) = 1
        /\ Bit(z, w) = 0 \/ Bit(z, w) = 1
      BY <1>0, <1>4, BitType
  <2> QED BY <1>4, <2>1 DEF Differing
<1> HIDE DEF Same
<1>5. /\ Bit(x, 1) = Bit(y, 1) /\ Bit(x, 2) = Bit(y, 2)
      /\ Bit(x, 4) = Bit(y, 4) /\ Bit(x, 8) = Bit(y, 8)
      /\ Bit(x, 16) = Bit(y, 16) /\ Bit(x, 32) = Bit(y, 32)
      /\ Bit(x, 64) = Bit(y, 64) /\ Bit(x, 128) = Bit(y, 128)
    BY <1>3, <1>4
<1>6. /\ x = Bit(x, 1) + 2 * Bit(x, 2) + 4 * Bit(x, 4) + 8 * Bit(x, 8)
               + 16 * Bit(x, 16) + 32 * Bit(x, 32) + 64 * Bit(x, 64) + 128 * Bit(x, 128)
      /\ y = Bit(y, 1) + 2 * Bit(y, 2) + 4 * Bit(y, 4) + 8 * Bit(y, 8)
               + 16 * Bit(y, 16) + 32 * Bit(y, 32) + 64 * Bit(y, 64) + 128 * Bit(y, 128)
    BY ByteIs, BitsMakeByte
<1> QED BY ONLY <1>5, <1>6

\* Two seeds of the same length that may differ in one byte, v, only.
Alike(s, t, v) ==
  /\ s \in [1..Len(s) -> Byte] /\ t \in [1..Len(s) -> Byte] /\ Len(t) = Len(s)
  /\ Len(s) \in Nat /\ v \in 1..Len(s)
  /\ \A i \in 1..Len(s) : i # v => s[i] = t[i]

\* Adding a number modulo 256, and multiplying by an odd one, is one to one.
LEMMA AddingTellsApart ==
  ASSUME NEW x \in Byte, NEW y \in Byte, NEW k \in Int, (x + k) % 256 = (y + k) % 256
  PROVE  x = y
BY ByteIs

LEMMA Divided == \A z \in Int : z = 256 * (z \div 256) + (z % 256)
OBVIOUS

LEMMA ScalingTellsApart ==
  ASSUME NEW x \in Byte, NEW y \in Byte
  PROVE  /\ (x * 27 + 74) % 256 = (y * 27 + 74) % 256 => x = y
         /\ (x * 29 + 59) % 256 = (y * 29 + 59) % 256 => x = y
<1>0. x \in Int /\ y \in Int /\ 0 <= x /\ x <= 255 /\ 0 <= y /\ y <= 255
    BY ByteIs
<1>1. ASSUME (x * 27 + 74) % 256 = (y * 27 + 74) % 256 PROVE x = y
  <2>1. PICK k \in Int : 27 * (x - y) = 256 * k
    <3>1. x * 27 + 74 = 256 * ((x * 27 + 74) \div 256) + ((x * 27 + 74) % 256)
        BY <1>0, Divided
    <3>2. y * 27 + 74 = 256 * ((y * 27 + 74) \div 256) + ((y * 27 + 74) % 256)
        BY <1>0, Divided
    <3> DEFINE k == ((x * 27 + 74) \div 256) - ((y * 27 + 74) \div 256)
    <3>3. k \in Int /\ 27 * (x - y) = 256 * k
        BY <1>0, <1>1, <3>1, <3>2
    <3> QED BY <3>3
  <2>2. x - y = 256 * (19 * k - 2 * (x - y))
      BY <1>0, <2>1
  <2> QED BY <1>0, <2>1, <2>2
<1>2. ASSUME (x * 29 + 59) % 256 = (y * 29 + 59) % 256 PROVE x = y
  <2>1. PICK k \in Int : 29 * (x - y) = 256 * k
    <3>1. x * 29 + 59 = 256 * ((x * 29 + 59) \div 256) + ((x * 29 + 59) % 256)
        BY <1>0, Divided
    <3>2. y * 29 + 59 = 256 * ((y * 29 + 59) \div 256) + ((y * 29 + 59) % 256)
        BY <1>0, Divided
    <3> DEFINE k == ((x * 29 + 59) \div 256) - ((y * 29 + 59) \div 256)
    <3>3. k \in Int /\ 29 * (x - y) = 256 * k
        BY <1>0, <1>2, <3>1, <3>2
    <3> QED BY <3>3
  <2>2. x - y = 256 * (53 * k - 6 * (x - y))
      BY <1>0, <2>1
  <2> QED BY <1>0, <2>1, <2>2
<1> QED BY <1>1, <1>2

LEMMA GmTellsApart ==
  ASSUME NEW s, NEW t, NEW v, Alike(s, t, v)
  PROVE  /\ v <= 4 /\ gmAlgorithm28bit(s) = gmAlgorithm28bit(t) => s[v] = t[v]
         /\ v <= 5 /\ gmAlgorithm40bit(s) = gmAlgorithm40bit(t) => s[v] = t[v]
<1>0. s[v] \in Byte /\ t[v] \in Byte /\ v \in Nat /\ v >= 1
    BY DEF Alike
<1>1. ASSUME v <= 4, gmAlgorithm28bit(s) = gmAlgorithm28bit(t) PROVE s[v] = t[v]
  <2>1. gmAlgorithm28bit(s)[v] = gmAlgorithm28bit(t)[v]
      BY <1>1
  <2>2. (s[v] + 85 + v - 1) % 256 = (t[v] + 85 + v - 1) % 256
    <3>1. v \in 1..4
        BY <1>0, <1>1
    <3> DEFINE a == (s[v] + 85 + v - 1) % 256
               b == (t[v] + 85 + v - 1) % 256
    <3>2. 255 - a = 255 - b
        BY <2>1, <3>1 DEF gmAlgorithm28bit
    <3>3. a \in Int /\ b \in Int
        BY <1>0, ByteIs
    <3>4. a = b
      <4> HIDE DEF a, b
      <4> QED BY <3>2, <3>3
    <3> QED BY <3>4
  <2>3. (s[v] + (84 + v)) % 256 = (t[v] + (84 + v)) % 256
    <3>1. s[v] + 85 + v - 1 = s[v] + (84 + v) /\ t[v] + 85 + v - 1 = t[v] + (84 + v)
        BY <1>0, ByteIs
    <3> QED BY <2>2, <3>1
  <2> QED BY <1>0, <2>3, AddingTellsApart
<1>2. ASSUME v <= 5, gmAlgorithm40bit(s) = gmAlgorithm40bit(t) PROVE s[v] = t[v]
  <2>1. gmAlgorithm40bit(s)[v] = gmAlgorithm40bit(t)[v] /\ v \in 1..5
      BY <1>0, <1>2
  <2>2. (s[v] * 27 + 74) % 256 = (t[v] * 27 + 74) % 256
      BY <2>1 DEF gmAlgorithm40bit
  <2> QED BY <1>0, <2>2, ScalingTellsApart
<1> QED BY <1>1, <1>2

LEMMA MercedesTellsApart ==
  ASSUME NEW s, NEW t, NEW v, Alike(s, t, v), v <= 8,
         mercedesAlgorithm(s) = mercedesAlgorithm(t)
  PROVE  s[v] = t[v]
<1>0. s[v] \in Byte /\ t[v] \in Byte /\ v \in 1..8
    BY DEF Alike
<1>1. mercedesAlgorithm(s)[v] = mercedesAlgorithm(t)[v]
    OBVIOUS
<1>2. (s[v] * 29 + 59) % 256 = (t[v] * 29 + 59) % 256
    BY <1>0, <1>1 DEF mercedesAlgorithm
<1> QED BY <1>0, <1>2, ScalingTellsApart

LEMMA FordTellsApart ==
  ASSUME NEW s, NEW t, NEW v, Alike(s, t, v), v <= 4, fordAlgorithm(s) = fordAlgorithm(t)
  PROVE  s[v] = t[v]
<1>0. s[v] \in Byte /\ t[v] \in Byte /\ v \in 1..4 /\ 90 \in Byte
  <2>1. s[v] \in Byte /\ t[v] \in Byte /\ v \in 1..4
      BY DEF Alike
  <2> QED BY <2>1, ByteIs
<1>1. fordAlgorithm(s)[v] = fordAlgorithm(t)[v]
    OBVIOUS
<1>2. (Xor(s[v], 90) + v - 1) % 256 = (Xor(t[v], 90) + v - 1) % 256
    BY <1>0, <1>1 DEF fordAlgorithm
<1>3. (Xor(s[v], 90) + (v - 1)) % 256 = (Xor(t[v], 90) + (v - 1)) % 256
  <2>1. Xor(s[v], 90) \in Int /\ Xor(t[v], 90) \in Int
      BY XorType, ByteIs
  <2>2. /\ Xor(s[v], 90) + v - 1 = Xor(s[v], 90) + (v - 1)
        /\ Xor(t[v], 90) + v - 1 = Xor(t[v], 90) + (v - 1)
      BY <1>0, <2>1
  <2> QED BY <1>2, <2>2
<1>4. Xor(s[v], 90) = Xor(t[v], 90)
    BY <1>0, <1>3, XorType, AddingTellsApart
<1> QED BY <1>0, <1>4, XorTellsApart

LEMMA ToyotaTellsApart ==
  ASSUME NEW s, NEW t, NEW v, Alike(s, t, v), v <= 4, toyotaAlgorithm(s) = toyotaAlgorithm(t)
  PROVE  s[v] = t[v]
<1>0. s[v] \in Byte /\ t[v] \in Byte /\ v \in 1..4 /\ 85 \in Byte
  <2>1. s[v] \in Byte /\ t[v] \in Byte /\ v \in 1..4
      BY DEF Alike
  <2> QED BY <2>1, ByteIs
<1>1. toyotaAlgorithm(s)[v] = toyotaAlgorithm(t)[v]
    OBVIOUS
<1>2. Xor((s[v] + 170) % 256, 85) = Xor((t[v] + 170) % 256, 85)
    BY <1>0, <1>1 DEF toyotaAlgorithm
<1>3. (s[v] + 170) % 256 \in Byte /\ (t[v] + 170) % 256 \in Byte
    BY <1>0, ByteIs
<1>4. (s[v] + 170) % 256 = (t[v] + 170) % 256
    BY <1>0, <1>2, <1>3, XorTellsApart
<1> QED BY <1>0, <1>4, AddingTellsApart

LEMMA HondaTellsApart ==
  ASSUME NEW s, NEW t, NEW v, Alike(s, t, v), v <= 4, hondaAlgorithm(s) = hondaAlgorithm(t)
  PROVE  s[v] = t[v]
<1>0. s[v] \in Byte /\ t[v] \in Byte /\ v \in 1..4 /\ 92 \in Byte
  <2>1. s[v] \in Byte /\ t[v] \in Byte /\ v \in 1..4
      BY DEF Alike
  <2> QED BY <2>1, ByteIs
<1>1. hondaAlgorithm(s)[v] = hondaAlgorithm(t)[v]
    OBVIOUS
<1>2. Xor(s[v], 92) = Xor(t[v], 92)
    BY <1>0, <1>1 DEF hondaAlgorithm
<1> QED BY <1>0, <1>2, XorTellsApart

\* The byte before enters as well, and is the same.
LEMMA BmwTellsApart ==
  ASSUME NEW s, NEW t, NEW v, Alike(s, t, v), 4 <= Len(s), v <= 4,
         bmwAlgorithm(s) = bmwAlgorithm(t)
  PROVE  s[v] = t[v]
<1> DEFINE prev == IF v = 1 THEN 0 ELSE s[v - 1]
<1>0. s[v] \in Byte /\ t[v] \in Byte /\ v \in 1..4 /\ 135 \in Byte
    BY ByteIs DEF Alike
<1>1. prev \in Byte /\ prev = IF v = 1 THEN 0 ELSE t[v - 1]
  <2>1. v # 1 => v - 1 \in 1..Len(s) /\ v - 1 # v
      BY <1>0 DEF Alike
  <2> QED BY <2>1, ByteIs DEF Alike
<1>2. bmwAlgorithm(s)[v] = bmwAlgorithm(t)[v]
    OBVIOUS
<1>3. Xor(Xor(s[v], 135), prev) = Xor(Xor(t[v], 135), prev)
    BY <1>0, <1>1, <1>2 DEF bmwAlgorithm
<1> HIDE DEF prev
<1>4. Xor(s[v], 135) = Xor(t[v], 135)
  <2>1. Xor(s[v], 135) \in Byte /\ Xor(t[v], 135) \in Byte
      BY XorType
  <2>2. PICK x \in Byte, y \in Byte, z \in Byte :
            x = Xor(s[v], 135) /\ y = Xor(t[v], 135) /\ z = prev
      BY <1>1, <2>1
  <2>3. x = y
    <3>1. Xor(x, z) = Xor(y, z)
        BY ONLY <1>3, <2>2
    <3> QED BY ONLY <3>1, x \in Byte, y \in Byte, z \in Byte, XorTellsApart
  <2> QED BY ONLY <2>2, <2>3
<1> QED BY <1>0, <1>4, XorTellsApart

LEMMA SidesAreByte ==
  \A x, x2 \in Byte : ((x * 4) % 256) + (x2 \div 64) \in Byte
<1> SUFFICES ASSUME NEW x \in Byte, NEW x2 \in Byte
             PROVE  ((x * 4) % 256) + (x2 \div 64) \in Byte
    OBVIOUS
<1>1. x \in Int /\ 0 <= x /\ x <= 255 /\ x2 \in Int /\ 0 <= x2 /\ x2 <= 255
    BY ByteIs
<1> DEFINE low == (x * 4) % 256
           high == x2 \div 64
<1>2. low \in Int /\ 0 <= low /\ low <= 252 /\ high \in Int /\ 0 <= high /\ high <= 3
  <2>1. (x * 4) % 256 = 4 * (x % 64)
      BY <1>1
  <2>2. x % 64 \in Int /\ 0 <= x % 64 /\ x % 64 <= 63
      BY <1>1
  <2> QED BY <1>1, <2>1, <2>2
<1> HIDE DEF low, high
<1>3. low + high \in Int /\ 0 <= low + high /\ low + high <= 255
    BY <1>2
<1> QED BY <1>3, ByteIs DEF low, high

LEMMA SidesApart ==
  \A x, x2, y, y2 \in Byte :
    ((x * 4) % 256) + (x2 \div 64) = ((y * 4) % 256) + (y2 \div 64) =>
      (x * 4) % 256 = (y * 4) % 256 /\ x2 \div 64 = y2 \div 64
<1> SUFFICES ASSUME NEW x \in Byte, NEW x2 \in Byte, NEW y \in Byte, NEW y2 \in Byte,
                    ((x * 4) % 256) + (x2 \div 64) = ((y * 4) % 256) + (y2 \div 64)
             PROVE  (x * 4) % 256 = (y * 4) % 256 /\ x2 \div 64 = y2 \div 64
    OBVIOUS
<1>1. /\ x \in Int /\ 0 <= x /\ x <= 255 /\ x2 \in Int /\ 0 <= x2 /\ x2 <= 255
      /\ y \in Int /\ 0 <= y /\ y <= 255 /\ y2 \in Int /\ 0 <= y2 /\ y2 <= 255
    BY ByteIs
<1>2. (x * 4) % 256 = 4 * (x % 64) /\ (y * 4) % 256 = 4 * (y % 64)
    BY <1>1
<1>3. x2 \div 64 \in 0..3 /\ y2 \div 64 \in 0..3 /\ x % 64 \in Int /\ y % 64 \in Int
    BY <1>1
<1> QED BY <1>2, <1>3

LEMMA HalvesMakeByte ==
  \A x, y \in Byte : (x * 4) % 256 = (y * 4) % 256 /\ x \div 64 = y \div 64 => x = y
<1> SUFFICES ASSUME NEW x \in Byte, NEW y \in Byte,
                    (x * 4) % 256 = (y * 4) % 256, x \div 64 = y \div 64
             PROVE  x = y
    OBVIOUS
<1>1. x \in Int /\ 0 <= x /\ x <= 255 /\ y \in Int /\ 0 <= y /\ y <= 255
    BY ByteIs
<1>2. (x * 4) % 256 = 4 * (x % 64) /\ (y * 4) % 256 = 4 * (y % 64)
    BY <1>1
<1>3. x % 64 = y % 64
    BY <1>1, <1>2
<1> QED BY <1>1, <1>3

\* The low six bits of a byte are found in its own place of the key, the high
\* two in the place before.
LEMMA VwTellsApart ==
  ASSUME NEW s, NEW t, NEW v, Alike(s, t, v), 4 <= Len(s), v <= 4,
         vwAlgorithm(s) = vwAlgorithm(t)
  PROVE  s[v] = t[v]
<1> DEFINE Next4(i) == (i % 4) + 1
           Mixed(q, i) == ((q[i] * 4) % 256) + (q[Next4(i)] \div 64)
<1>0. /\ v \in 1..4 /\ 60 \in Byte
      /\ \A i \in 1..4 : s[i] \in Byte /\ t[i] \in Byte /\ Next4(i) \in 1..4
  <2>1. v \in 1..4 /\ \A i \in 1..4 : s[i] \in Byte /\ t[i] \in Byte
      BY DEF Alike
  <2>2. \A i \in 1..4 : Next4(i) \in 1..4
      OBVIOUS
  <2>3. 60 \in Byte
      BY ByteIs
  <2> QED BY <2>1, <2>2, <2>3
<1>1. PICK p \in 1..4 : Next4(p) = v
  <2>1. CASE v = 1
    <3>1. Next4(4) = v
        BY <2>1
    <3> QED BY <3>1
  <2>2. CASE v # 1
    <3>1. v - 1 \in 1..4 /\ Next4(v - 1) = v
        BY <1>0, <2>2
    <3> QED BY <3>1
  <2> QED BY <2>1, <2>2
<1>2. \A i \in 1..4 : Xor(Mixed(s, i), 60) = Xor(Mixed(t, i), 60)
  <2> SUFFICES ASSUME NEW i \in 1..4 PROVE Xor(Mixed(s, i), 60) = Xor(Mixed(t, i), 60)
      OBVIOUS
  <2>1. vwAlgorithm(s)[i] = vwAlgorithm(t)[i]
      OBVIOUS
  <2> QED BY <2>1 DEF vwAlgorithm
<1> HIDE DEF Next4
<1>3. ASSUME NEW i \in 1..4
      PROVE  (s[i] * 4) % 256 = (t[i] * 4) % 256 /\ s[Next4(i)] \div 64 = t[Next4(i)] \div 64
  <2>1. /\ s[i] \in Byte /\ t[i] \in Byte
        /\ s[Next4(i)] \in Byte /\ t[Next4(i)] \in Byte
      BY <1>0
  <2>2. Mixed(s, i) \in Byte /\ Mixed(t, i) \in Byte
      BY ONLY <2>1, SidesAreByte
  <2>3. Mixed(s, i) = Mixed(t, i)
    <3> HIDE DEF Mixed
    <3> QED BY <1>0, <1>2, <2>2, XorTellsApart
  <2> QED BY ONLY <2>1, <2>3, SidesApart
<1>4. (s[v] * 4) % 256 = (t[v] * 4) % 256
    BY <1>0, <1>3
<1>5. s[v] \div 64 = t[v] \div 64
    BY <1>1, <1>3
<1> QED BY ONLY <1>0, <1>4, <1>5, HalvesMakeByte

\* Two bytes make a half of the word; the complement and the addition are one
\* to one on each half, the carry being that of equal lower halves.
LEMMA DividedWord == \A z \in Int : z = 65536 * (z \div 65536) + (z % 65536)
OBVIOUS

LEMMA HalvesApart ==
  ASSUME NEW h1 \in Byte, NEW l1 \in Byte, NEW h2 \in Byte, NEW l2 \in Byte, NEW c \in Int,
         NEW x, x = (65535 - (h1 * 256 + l1)) + c, NEW y, y = (65535 - (h2 * 256 + l2)) + c,
         (x % 65536) \div 256 = (y % 65536) \div 256, x % 256 = y % 256
  PROVE  h1 = h2 /\ l1 = l2
<1>1. /\ h1 \in Int /\ 0 <= h1 /\ h1 <= 255 /\ l1 \in Int /\ 0 <= l1 /\ l1 <= 255
      /\ h2 \in Int /\ 0 <= h2 /\ h2 <= 255 /\ l2 \in Int /\ 0 <= l2 /\ l2 <= 255
    BY ByteIs
<1>2. x \in Int /\ y \in Int
    BY <1>1
<1>3. x % 65536 = y % 65536
  <2>1. ASSUME NEW z \in Int
        PROVE  z % 65536 = 256 * ((z % 65536) \div 256) + (z % 256)
    <3>1. (z % 65536) % 256 = z % 256
        OBVIOUS
    <3>2. z % 65536 \in Int
        OBVIOUS
    <3> QED BY <3>1, <3>2, Divided
  <2> QED BY <1>2, <2>1
<1>4. x = y
  <2>1. -65535 <= x - y /\ x - y <= 65535
      BY <1>1
  <2>2. x = 65536 * (x \div 65536) + (x % 65536) /\ y = 65536 * (y \div 65536) + (y % 65536)
      BY <1>2, DividedWord
  <2> QED BY <1>2, <1>3, <2>1, <2>2
<1> QED BY <1>1, <1>4

Word(q, high, low, carry) ==
  /\ low = (65535 - (q[3] * 256 + q[4])) + 42405
  /\ carry = low \div 65536
  /\ high = (65535 - (q[1] * 256 + q[2])) + (42405 + carry)
  /\ nissanAlgorithm(q)[1] = (high % 65536) \div 256
  /\ nissanAlgorithm(q)[2] = high % 256
  /\ nissanAlgorithm(q)[3] = (low % 65536) \div 256
  /\ nissanAlgorithm(q)[4] = low % 256

LEMMA NissanIs ==
  ASSUME NEW q, \A i \in 1..4 : q[i] \in Byte
  PROVE  \E high, low, carry \in Int : Word(q, high, low, carry)
<1> DEFINE low == (65535 - (q[3] * 256 + q[4])) + 42405
           carry == low \div 65536
           high == (65535 - (q[1] * 256 + q[2])) + 42405 + carry
<1>1. q[1] \in Int /\ q[2] \in Int /\ q[3] \in Int /\ q[4] \in Int
    BY ByteIs
<1>2. /\ nissanAlgorithm(q)[1] = (high % 65536) \div 256
      /\ nissanAlgorithm(q)[2] = high % 256
      /\ nissanAlgorithm(q)[3] = (low % 65536) \div 256
      /\ nissanAlgorithm(q)[4] = low % 256
    BY DEF nissanAlgorithm
<1>3. low \in Int
    BY <1>1
<1>4. carry \in Int
  <2> HIDE DEF low
  <2> QED BY <1>3
<1>5. high \in Int /\ high = (65535 - (q[1] * 256 + q[2])) + (42405 + carry)
  <2>1. PICK half \in Int : half = 65535 - (q[1] * 256 + q[2])
      BY <1>1
  <2>2. high = half + 42405 + carry
      BY <2>1
  <2> HIDE DEF high, carry
  <2>3. high \in Int /\ high = half + (42405 + carry)
      BY ONLY <1>4, <2>2, half \in Int
  <2> QED BY ONLY <2>1, <2>3
<1>6. /\ low = (65535 - (q[3] * 256 + q[4])) + 42405
      /\ carry = low \div 65536
    OBVIOUS
<1> HIDE DEF low, carry, high
<1>7. Word(q, high, low, carry)
    BY ONLY <1>2, <1>5, <1>6 DEF Word
<1> QED BY ONLY <1>3, <1>4, <1>5, <1>7

LEMMA NissanTellsApart ==
  ASSUME NEW s, NEW t, NEW v, Alike(s, t, v), 4 <= Len(s), v <= 4,
         nissanAlgorithm(s) = nissanAlgorithm(t)
  PROVE  s[v] = t[v]
<1>0. /\ v = 1 \/ v = 2 \/ v = 3 \/ v = 4
      /\ \A i \in 1..4 : s[i] \in Byte /\ t[i] \in Byte /\ (i # v => s[i] = t[i])
    BY DEF Alike
<1>1. PICK high, low, carry \in Int : Word(s, high, low, carry)
    BY <1>0, NissanIs
<1>2. PICK high2, low2, carry2 \in Int : Word(t, high2, low2, carry2)
    BY <1>0, NissanIs
<1>3. /\ (high % 65536) \div 256 = (high2 % 65536) \div 256 /\ high % 256 = high2 % 256
      /\ (low % 65536) \div 256 = (low2 % 65536) \div 256 /\ low % 256 = low2 % 256
    BY <1>1, <1>2 DEF Word
<1>4. PICK s1, s2, s3, s4, t1, t2, t3, t4 \in Byte :
        /\ s1 = s[1] /\ s2 = s[2] /\ s3 = s[3] /\ s4 = s[4]
        /\ t1 = t[1] /\ t2 = t[2] /\ t3 = t[3] /\ t4 = t[4]
    BY <1>0
<1>5. s3 = t3 /\ s4 = t4
  <2>1. low = (65535 - (s3 * 256 + s4)) + 42405 /\ low2 = (65535 - (t3 * 256 + t4)) + 42405
      BY <1>1, <1>2, <1>4 DEF Word
  <2> QED BY ONLY <1>3, <2>1, <1>4, HalvesApart
<1>6. s1 = t1 /\ s2 = t2
  <2>1. low = low2
      BY <1>1, <1>2, <1>4, <1>5 DEF Word
  <2>2. carry = carry2
      BY <1>1, <1>2, <2>1 DEF Word
  <2>3. /\ high = (65535 - (s1 * 256 + s2)) + (42405 + carry)
        /\ high2 = (65535 - (t1 * 256 + t2)) + (42405 + carry)
      BY <1>1, <1>2, <1>4, <2>2 DEF Word
  <2>4. PICK c \in Int : c = 42405 + carry
      OBVIOUS
  <2>5. high = (65535 - (s1 * 256 + s2)) + c /\ high2 = (65535 - (t1 * 256 + t2)) + c
      BY ONLY <2>3, <2>4
  <2> QED BY ONLY <1>3, <2>5, c \in Int, HalvesApart
<1> QED BY <1>0, <1>4, <1>5, <1>6

LEMMA DefaultTellsApart ==
  ASSUME NEW s, NEW t, NEW v, Alike(s, t, v),
         [i \in DOMAIN s |-> Xor(s[i], 255)] = [i \in DOMAIN t |-> Xor(t[i], 255)]
  PROVE  s[v] = t[v]
<1>0. s[v] \in Byte /\ t[v] \in Byte /\ v \in DOMAIN s /\ v \in DOMAIN t
    BY DEF Alike
<1>1. 255 \in Byte
    BY ByteIs
<1>2. Xor(s[v], 255) = Xor(t[v], 255)
    BY <1>0
<1> QED BY <1>0, <1>1, <1>2, XorTellsApart

LEMMA BytesCounted == IsFiniteSet(Byte) /\ Cardinality(Byte) = 256
<1>1. PICK last \in Int : last = 255
    OBVIOUS
<1>2. IsFiniteSet(0..last) /\ Cardinality(0..last) = IF 0 > last THEN 0 ELSE (last - 0) + 1
    BY FS_Interval
<1> QED BY <1>1, <1>2 DEF Byte

LEMMA ExpectedTellsApart ==
  ASSUME NEW a \in Algorithms, NEW s, NEW t, NEW v, Alike(s, t, v),
         a = "none" \/ (Need(a) <= Len(s) /\ v <= Need(a)),
         Expected(a, s) = Expected(a, t)
  PROVE  s[v] = t[v]
<1>1. CASE a = "none"
    BY <1>1, DefaultTellsApart DEF Expected
<1>2. CASE a = "gm28"
    BY <1>2, GmTellsApart DEF Expected, Need
<1>3. CASE a = "gm40"
    BY <1>3, GmTellsApart DEF Expected, Need
<1>4. CASE a = "ford"
    BY <1>4, FordTellsApart DEF Expected, Need
<1>5. CASE a = "toyota"
    BY <1>5, ToyotaTellsApart DEF Expected, Need
<1>6. CASE a = "bmw"
    BY <1>6, BmwTellsApart DEF Expected, Need
<1>7. CASE a = "vw"
    BY <1>7, VwTellsApart DEF Expected, Need
<1>8. CASE a = "mercedes"
    BY <1>8, MercedesTellsApart DEF Expected, Need
<1>9. CASE a = "honda"
    BY <1>9, HondaTellsApart DEF Expected, Need
<1>10. CASE a = "nissan"
    BY <1>10, NissanTellsApart DEF Expected, Need
<1> QED
    BY <1>1, <1>2, <1>3, <1>4, <1>5, <1>6, <1>7, <1>8, <1>9, <1>10 DEF Algorithms

\* An algorithm makes as many bytes as it needs.
LEMMA ExpectedLength ==
  ASSUME NEW a \in Algorithms, a # "none", NEW s
  PROVE  /\ Len(Expected(a, s)) = Need(a) /\ Need(a) \in {4, 5, 8}
         /\ SubSeq(Expected(a, s), 1, Need(a)) = Expected(a, s)
<1> DEFINE Filled(k, n) == k = [i \in 1..n |-> k[i]]
<1>1. \A k : \A n \in Nat : Filled(k, n) => Len(k) = n /\ SubSeq(k, 1, n) = k
    OBVIOUS
<1>2. /\ Filled(gmAlgorithm28bit(s), 4) /\ Filled(fordAlgorithm(s), 4)
      /\ Filled(toyotaAlgorithm(s), 4) /\ Filled(bmwAlgorithm(s), 4)
    BY DEF gmAlgorithm28bit, fordAlgorithm, toyotaAlgorithm, bmwAlgorithm
<1>3. /\ Filled(vwAlgorithm(s), 4) /\ Filled(hondaAlgorithm(s), 4)
      /\ Filled(gmAlgorithm40bit(s), 5) /\ Filled(mercedesAlgorithm(s), 8)
    BY DEF vwAlgorithm, hondaAlgorithm, gmAlgorithm40bit, mercedesAlgorithm
<1>4. Filled(nissanAlgorithm(s), 4)
  <2>1. \A a1, a2, a3, a4 : Filled(<<a1, a2, a3, a4>>, 4)
      OBVIOUS
  <2> DEFINE low == (65535 - (s[3] * 256 + s[4])) + 42405
             high == (65535 - (s[1] * 256 + s[2])) + 42405 + low \div 65536
  <2>2. PICK a1, a2, a3, a4 :
          /\ a1 = (high % 65536) \div 256 /\ a2 = high % 256
          /\ a3 = (low % 65536) \div 256 /\ a4 = low % 256
    <3> HIDE DEF low, high
    <3> QED OBVIOUS
  <2>3. nissanAlgorithm(s) = <<a1, a2, a3, a4>>
      BY <2>2 DEF nissanAlgorithm
  <2> HIDE DEF Filled
  <2> QED BY <2>1, <2>3
<1>5. Filled(Expected(a, s), Need(a)) /\ Need(a) \in {4, 5, 8}
  <2> HIDE DEF Filled
  <2> QED BY <1>2, <1>3, <1>4 DEF Expected, Need, Algorithms
<1> HIDE DEF Filled
<1> QED BY <1>1, <1>5

SeedIInv ==
  /\ seed_sizes \in [SeedLevels -> Nat \ {0}]
  /\ algorithm \in Algorithms
  /\ seed # <<>> => /\ Len(seed) \in Nat /\ seed \in [1..Len(seed) -> Byte]
                    /\ varied \in 1..Len(seed)

LEMMA SeedInvariance == SeedSpec => []SeedIInv
<1>1. SeedInit => SeedIInv
    BY DEF SeedInit, SeedIInv, SeedLevels, Algorithms
<1>2. SeedIInv /\ [SeedNext]_seedVars => SeedIInv'
  <2> SUFFICES ASSUME SeedIInv, [SeedNext]_seedVars PROVE SeedIInv'
      OBVIOUS
  <2>1. ASSUME NEW l \in SeedLevels, NEW n \in SeedSizes, setSeedSize(l, n) PROVE SeedIInv'
      BY <2>1, SeedKeyAssumption DEF setSeedSize, SeedIInv
  <2>2. ASSUME NEW a \in Algorithms, NEW l \in SeedLevels \cup {4}, generateSeed(a, l)
        PROVE  SeedIInv'
    <3>1. PICK n \in Nat \ {0} : n = getSeedSize(l)
        BY DEF getSeedSize, SeedIInv
    <3>2. PICK s \in Seeds : seed' = s /\ Len(s) = n
        BY <2>2, <3>1 DEF generateSeed
    <3>3. s \in Seq(Byte)
        BY SeedKeyAssumption
    <3>5. seed' \in [1..n -> Byte] /\ Len(seed') = n
        BY <3>2, <3>3
    <3>6. varied' \in 1..n /\ algorithm' = a /\ seed_sizes' = seed_sizes
        BY <2>2, <3>5 DEF generateSeed
    <3> QED BY <3>5, <3>6 DEF SeedIInv
  <2>3. CASE UNCHANGED seedVars
      BY <2>3 DEF seedVars, SeedIInv
  <2> QED BY <2>1, <2>2, <2>3 DEF SeedNext
<1> QED BY <1>1, <1>2, PTL DEF SeedSpec

\* For every seed, size and algorithm: the key that validateKey expects is
\* accepted for the seed it belongs to and fits no seed that differs in a byte
\* the algorithm looks at; no key at all is accepted for a seed that is too short.
THEOREM KeysFitOneSeed == SeedSpec => []KeysTellSeedsApart
<1>1. SeedIInv => KeysTellSeedsApart
  <2> SUFFICES ASSUME SeedIInv, seed # <<>> PROVE KeysTellSeedsApart
      BY DEF KeysTellSeedsApart
  <2> DEFINE With(b) == [seed EXCEPT ![varied] = b]
             seeds == {With(b) : b \in Byte}
             Key(s) == Expected(algorithm, s)
  <2>0. /\ algorithm \in Algorithms /\ Len(seed) \in Nat
        /\ seed \in [1..Len(seed) -> Byte] /\ varied \in 1..Len(seed)
      BY DEF SeedIInv
  <2>1. ASSUME NEW b \in Byte
        PROVE  /\ With(b) \in [1..Len(seed) -> Byte] /\ Len(With(b)) = Len(seed)
               /\ With(b)[varied] = b
               /\ \A i \in 1..Len(seed) : i # varied => With(b)[i] = seed[i]
      BY <2>0
  <2>2. ASSUME NEW b \in Byte, NEW c \in Byte PROVE Alike(With(b), With(c), varied)
    <3>1. /\ With(b) \in [1..Len(seed) -> Byte] /\ Len(With(b)) = Len(seed)
          /\ \A i \in 1..Len(seed) : i # varied => With(b)[i] = seed[i]
        BY <2>1
    <3>2. /\ With(c) \in [1..Len(seed) -> Byte] /\ Len(With(c)) = Len(seed)
          /\ \A i \in 1..Len(seed) : i # varied => With(c)[i] = seed[i]
        BY <2>1
    <3> HIDE DEF With
    <3> QED BY <2>0, <3>1, <3>2 DEF Alike
  <2>3. ASSUME algorithm # "none", Len(seed) < Need(algorithm), NEW key \in Keys
        PROVE  ~validateKey(algorithm, seed, key)
      BY <2>0, <2>3, ExpectedLength DEF validateKey
  <2>4. ASSUME ~(algorithm # "none" /\ Len(seed) < Need(algorithm)), NEW s \in seeds
        PROVE  validateKey(algorithm, s, Key(s))
    <3>1. CASE algorithm = "none"
        BY <3>1 DEF validateKey
    <3>2. CASE algorithm # "none"
      <4>1. PICK b \in Byte : s = With(b)
          OBVIOUS
      <4>2. Len(s) = Len(seed)
          BY <2>1, <4>1
      <4>3. /\ Len(Key(s)) = Need(algorithm) /\ Need(algorithm) \in {4, 5, 8}
            /\ SubSeq(Key(s), 1, Need(algorithm)) = Key(s)
          BY <2>0, <3>2, ExpectedLength
      <4> HIDE DEF With, seeds
      <4> QED BY <2>0, <2>4, <3>2, <4>2, <4>3 DEF validateKey
    <3> QED BY <3>1, <3>2
  <2>5. ASSUME ~(algorithm # "none" /\ Len(seed) < Need(algorithm)),
               algorithm = "none" \/ varied <= Need(algorithm)
        PROVE  Cardinality({Key(s) : s \in seeds}) = 256
    <3> DEFINE F == [b \in Byte |-> Key(With(b))]
               Made == {Key(s) : s \in seeds}
    <3>1. ASSUME NEW b \in Byte, NEW c \in Byte, Key(With(b)) = Key(With(c)) PROVE b = c
      <4>1. Alike(With(b), With(c), varied)
          BY <2>2
      <4>2. With(b)[varied] = b /\ With(c)[varied] = c /\ Len(With(b)) = Len(seed)
          BY <2>1
      <4>3. algorithm = "none" \/ Need(algorithm) <= Len(seed)
        <5>1. algorithm # "none" => Need(algorithm) \in {4, 5, 8}
            BY <2>0, ExpectedLength
        <5> QED BY <2>0, <2>5, <5>1
      <4>4. algorithm = "none" \/ (Need(algorithm) <= Len(With(b)) /\ varied <= Need(algorithm))
          BY <2>5, <4>2, <4>3
      <4> HIDE DEF With
      <4> QED BY <2>0, <3>1, <4>1, <4>2, <4>4, ExpectedTellsApart
    <3>2. F \in Bijection(Byte, Made)
      <4>1. F \in [Byte -> Made]
          OBVIOUS
      <4>2. \A b, c \in Byte : F[b] = F[c] => b = c
          BY <3>1
      <4>3. \A k \in Made : \E b \in Byte : F[b] = k
          OBVIOUS
      <4> HIDE DEF F, Made
      <4> QED BY <4>1, <4>2, <4>3 DEF Bijection, Injection, Surjection, IsInjective
    <3>3. IsFiniteSet(Byte) /\ Cardinality(Byte) = 256
        BY BytesCounted
    <3> HIDE DEF Made
    <3>4. Cardinality(Made) = Cardinality(Byte)
        BY <3>2, <3>3, FS_Bijection DEF ExistsBijection
    <3> QED BY <3>3, <3>4 DEF Made
  <2> QED BY <2>3, <2>4, <2>5 DEF KeysTellSeedsApart
<1> QED BY <1>1, SeedInvariance, PTL
=============================================================================
