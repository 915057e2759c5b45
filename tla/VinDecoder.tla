------------------------------ MODULE VinDecoder ------------------------------
(***************************************************************************)
(* diagnostics/vin_decoder.cpp: the check digit of a vehicle               *)
(* identification number.  A VIN is seventeen characters, one of which is  *)
(* varied; I, O and Q are in no table and would throw.                     *)
(***************************************************************************)
EXTENDS Integers, Sequences

CONSTANT Vehicles            \* identification numbers, as sequences of characters

VARIABLES vin_number, position
vinVars == <<vin_number, position>>

CheckPosition == 9

trans ==
  [A |-> 1, B |-> 2, C |-> 3, D |-> 4, E |-> 5, F |-> 6, G |-> 7, H |-> 8, J |-> 1,
   K |-> 2, L |-> 3, M |-> 4, N |-> 5, P |-> 7, R |-> 9, S |-> 2, T |-> 3, U |-> 4,
   V |-> 5, W |-> 6, X |-> 7, Y |-> 8, Z |-> 9]
digits == <<"1", "2", "3", "4", "5", "6", "7", "8", "9">>
Characters == DOMAIN trans \cup {digits[i] : i \in 1..9} \cup {"0"}

Value(c) ==
  IF c \in DOMAIN trans THEN trans[c]
  ELSE IF c = "0" THEN 0 ELSE CHOOSE i \in 1..9 : digits[i] = c

\* getWeightMap, by the last digit of the position counted from zero.
Weight(i) == <<1, 8, 7, 6, 5, 4, 3, 2, 10, 9>>[(i % 10) + 1]

ASSUME VinAssumption == \A v \in Vehicles : v \in Seq(Characters) /\ Len(v) = 17

Term(v, i) == IF i = CheckPosition THEN 0 ELSE Value(v[i]) * Weight(i - 1)

\* The sum before the loop and after each of its passes.
Sums(v) == LET sum[i \in 0..17] == IF i = 0 THEN 0 ELSE sum[i - 1] + Term(v, i) IN sum

CheckCharacter(remainder) ==
  IF remainder = 10 THEN "X" ELSE IF remainder = 0 THEN "0" ELSE digits[remainder]

\* Slip: the loop stops before the last character.
ChecksumShort(v) == CheckCharacter(Sums(v)[16] % 11)

calculateChecksum(v) == CheckCharacter(Sums(v)[17] % 11)

\* An X in the check position passes whatever the rest is.
validateChecksum(v) ==
  Len(v) = 17 /\ (v[CheckPosition] = calculateChecksum(v) \/ v[CheckPosition] = "X")

Checked(v) == [v EXCEPT ![CheckPosition] = calculateChecksum(v)]

VinInit == vin_number = <<>> /\ position = 1

\* A number that differs from a vehicle's in one character, with its own digit.
VinNext ==
  \E v \in Vehicles, i \in (1..17) \ {CheckPosition}, c \in Characters :
    /\ vin_number' = Checked([v EXCEPT ![i] = c])
    /\ position' = i

VinSpec == VinInit /\ [][VinNext]_vinVars

\* One character misread at any place is noticed, unless the two stand for the
\* same value or the check character is an X.
OneCharacterDetected ==
  validateChecksum(vin_number) /\ vin_number[CheckPosition] # "X" =>
    \A c \in Characters :
      Value(c) # Value(vin_number[position]) =>
        ~validateChecksum([vin_number EXCEPT ![position] = c])
=============================================================================
