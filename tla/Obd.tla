--------------------------------- MODULE Obd ---------------------------------
(***************************************************************************)
(* Mode 01 as the ECU encodes it (manufacturers/base.cpp) and a scan tool  *)
(* decodes it (protocols/obd2_standard.cpp).  A sensor value is a float,    *)
(* named by its thousandths; casts to an integer drop the fraction, and    *)
(* where the scaling is not exact in floats (0.45f / 0.005) a whole number *)
(* may have become the one below.  Only values whose number is not         *)
(* negative and fits the bytes of the answer are sent: for a larger one    *)
(* the cast is undefined behaviour.                                        *)
(***************************************************************************)
EXTENDS Integers

CONSTANTS SensorValues,      \* thousandths, what a sensor or a profile may give
          Counters           \* whole seconds and kilometres

ASSUME ObdAssumption == SensorValues \subseteq Int /\ Counters \subseteq Nat

VARIABLES pid, sensor, answer     \* the request, the value behind it, the bytes sent
obdVars == <<pid, sensor, answer>>

\* The formulas of getPIDs, by the PIDs the brands also know, with hexadecimal
\* digits as in the source: x0C is 0x0C.
Formula ==
  [x04 |-> "A*100/255", x05 |-> "A-40", x06 |-> "(A-128)*100/128",
   x07 |-> "(A-128)*100/128", x08 |-> "(A-128)*100/128", x09 |-> "(A-128)*100/128",
   x0A |-> "A*3", x0B |-> "A", x0C |-> "((A*256)+B)/4", x0D |-> "A",
   x0E |-> "(A-128)/2", x0F |-> "A-40", x10 |-> "((A*256)+B)/100",
   x11 |-> "A*100/255", x14 |-> "A*0.005", x15 |-> "A*0.005", x1C |-> "A",
   x1F |-> "((A*256)+B)", x21 |-> "((A*256)+B)", x22 |-> "((A*256)+B)*0.079",
   x2F |-> "A*100/255", x31 |-> "((A*256)+B)", x33 |-> "A",
   x42 |-> "((A*256)+B)/1000", x43 |-> "((A*256)+B)*100/255",
   x44 |-> "((A*256)+B)/32768", x45 |-> "A*100/255", x46 |-> "A-40", x5C |-> "A-40"]
Pids == DOMAIN Formula

\* What handleMode01 reads; of every other PID it sends a zero.
Sensors  == {"x0C", "x0D", "x05", "x0F", "x10", "x11", "x14", "x15", "x22", "x2F",
             "x04", "x0B", "x42"}
CounterPids == {"x1F", "x21", "x31"}

Values(p) == IF p \in Sensors THEN SensorValues
             ELSE IF p \in CounterPids THEN {1000 * n : n \in Counters} ELSE {0}

\* The number of encodePIDResponse, and whether it takes two bytes.
TwoBytes(p) == p \in {"x0C", "x10", "x1F", "x21", "x31", "x42", "x22", "x43", "x44"}

\* Thousandths that one step of the bytes stands for.
Resolution(p) ==
  CASE Formula[p] = "((A*256)+B)/4" -> 250
    [] Formula[p] = "((A*256)+B)/100" -> 10
    [] Formula[p] = "((A*256)+B)/1000" -> 1
    [] Formula[p] = "A*0.005" -> 5
    [] Formula[p] = "A*3" -> 3000
    [] OTHER -> 1000

\* Slip: the temperatures lose their offset.
EncodedBare(p, v) ==
  CASE p = "x0C" -> (4 * v) \div 1000
    [] p = "x10" -> v \div 10
    [] p = "x42" -> v
    [] p \in {"x14", "x15"} -> v \div 5
    [] p = "x0A" -> v \div 3000
    [] OTHER -> v \div 1000

Encoded(p, v) ==
  CASE p = "x0C" -> (4 * v) \div 1000
    [] p \in {"x04", "x05", "x0F", "x11", "x2F", "x46", "x5C"} -> (v + 40000) \div 1000
    [] p = "x10" -> v \div 10
    [] p = "x42" -> v
    [] p \in {"x14", "x15"} -> v \div 5
    [] p = "x0A" -> v \div 3000
    [] OTHER -> v \div 1000

\* The factors 100 and 1000 and the divisor 0.005 round; a factor of four, a sum
\* with 40 and the value itself are whole in floats whenever they are at all.
Inexact == {"x10", "x42", "x14", "x15"}

\* The numbers the code may come to: which one is up to the bits of the float.
Encodings(p, v) ==
  {Encoded(p, v)} \cup
    {n \in {Encoded(p, v) - 1} : p \in Inexact /\ n >= 0 /\ v % Resolution(p) = 0}

Fits(p, v) == Encoded(p, v) \in 0..(IF TwoBytes(p) THEN 65535 ELSE 255)

handleMode01(p, n) ==
  IF TwoBytes(p) THEN <<n \div 256, n % 256>>
  ELSE <<n, IF p \in {"x14", "x15"} THEN 128 ELSE 0>>

\* decodePID, to the thousandth.
Decoded(p, data) ==
  LET a == data[1]
      n == a * 256 + data[2]
      f == Formula[p]
  IN CASE f = "A" -> 1000 * a
       [] f = "A-40" -> 1000 * (a - 40)
       [] f = "A*100/255" -> (100000 * a) \div 255
       [] f = "A*3" -> 3000 * a
       [] f = "(A-128)/2" -> 500 * (a - 128)
       [] f = "A*0.005" -> 5 * a
       [] f = "(A-128)*100/128" -> (100000 * (a - 128)) \div 128
       [] f = "((A*256)+B)/4" -> 250 * n
       [] f = "((A*256)+B)/100" -> 10 * n
       [] f = "((A*256)+B)" -> 1000 * n
       [] f = "((A*256)+B)*0.079" -> 79 * n
       [] f = "((A*256)+B)/1000" -> n
       [] f = "((A*256)+B)*100/255" -> (100000 * n) \div 255
       [] f = "((A*256)+B)/32768" -> (1000 * n) \div 32768

ObdInit == pid = "x0C" /\ sensor = 0 /\ answer = handleMode01(pid, 0)

ObdNext ==
  \E p \in Pids : \E v \in Values(p) :
    /\ Fits(p, v)
    /\ pid' = p /\ sensor' = v
    /\ \E n \in Encodings(p, v) : answer' = handleMode01(p, n)

ObdSpec == ObdInit /\ [][ObdNext]_obdVars

\* Encoded otherwise than the formula says: percentages with the offset of a
\* temperature, a pressure without its factor, trims and timing as a bare zero.
Disagreeing == {"x04", "x11", "x2F", "x22", "x06", "x07", "x08", "x09", "x0E"}

\* A scan tool shows the value of the sensor, rounded down to what the bytes
\* can tell, or one step less where the scaling is inexact and the value is a
\* whole number of steps; for every PID but the nine whose encoding is not the
\* inverse of the formula.
ScannerReadsSensor ==
  pid \notin Disagreeing =>
    \/ Decoded(pid, answer) \in (sensor - Resolution(pid) + 1)..sensor
    \/ pid \in Inexact /\ Decoded(pid, answer) = sensor - Resolution(pid)
=============================================================================
