------------------------------- MODULE SeedKey -------------------------------
(***************************************************************************)
(* core/security.cpp: the seed and key algorithms, byte by byte and with   *)
(* the width of the code's integers.  Positions count from 1.  The random  *)
(* seed is any seed; a brand without an algorithm gets the default.        *)
(***************************************************************************)
EXTENDS Integers, Sequences, FiniteSets

CONSTANTS SeedSizes,      \* sizes setSeedSize may ask for, besides the default ones
          Seeds,          \* what the random generator may come up with
          Keys            \* keys a tester may send

Byte == 0..255

ASSUME SeedKeyAssumption ==
  SeedSizes \subseteq Nat \ {0} /\ Seeds \subseteq Seq(Byte) /\ Keys \subseteq Seq(Byte)

Algorithms == {"none", "gm28", "gm40", "ford", "toyota", "bmw", "vw", "mercedes",
               "honda", "nissan"}

VARIABLES seed_sizes,             \* per level
          algorithm, seed, varied   \* the last challenge, and the byte of it that is looked at
seedVars == <<seed_sizes, algorithm, seed, varied>>

SeedLevels == 1..3

\* A level nobody configured has four bytes.
getSeedSize(l) == IF l \in DOMAIN seed_sizes THEN seed_sizes[l] ELSE 4

SeedInit ==
  /\ seed_sizes = [l \in SeedLevels |-> IF l = 3 THEN 8 ELSE 4]
  /\ algorithm = "none" /\ seed = <<>> /\ varied = 1

setSeedSize(l, n) ==
  seed_sizes' = [seed_sizes EXCEPT ![l] = n] /\ UNCHANGED <<algorithm, seed, varied>>

\* The seed itself is what every algorithm returns when it is asked for one.
generateSeed(a, l) ==
  /\ algorithm' = a
  /\ seed' \in {s \in Seeds : Len(s) = getSeedSize(l)}
  /\ varied' \in DOMAIN seed'
  /\ UNCHANGED seed_sizes

SeedNext ==
  \/ \E l \in SeedLevels, n \in SeedSizes : setSeedSize(l, n)
  \/ \E a \in Algorithms, l \in SeedLevels \cup {4} : generateSeed(a, l)

SeedSpec == SeedInit /\ [][SeedNext]_seedVars

-----------------------------------------------------------------------------
\* Exclusive or of two bytes: the powers of two in which they differ.
Bit(x, w) == (x \div w) % 2
Xor(x, y) ==
  LET Differ(w) == IF Bit(x, w) = Bit(y, w) THEN 0 ELSE w
  IN Differ(1) + Differ(2) + Differ(4) + Differ(8)
       + Differ(16) + Differ(32) + Differ(64) + Differ(128)

\* Bytes an algorithm looks at; it takes no shorter seed or key.
Need(a) == CASE a = "gm40" -> 5 [] a = "mercedes" -> 8 [] OTHER -> 4

gmAlgorithm28bit(s) == [i \in 1..4 |-> 255 - ((s[i] + 85 + i - 1) % 256)]
gmAlgorithm40bit(s) == [i \in 1..5 |-> (s[i] * 27 + 74) % 256]
fordAlgorithm(s) == [i \in 1..4 |-> (Xor(s[i], 90) + i - 1) % 256]
toyotaAlgorithm(s) == [i \in 1..4 |-> Xor((s[i] + 170) % 256, 85)]
bmwAlgorithm(s) == [i \in 1..4 |-> Xor(Xor(s[i], 135), IF i = 1 THEN 0 ELSE s[i - 1])]

\* Slip: the bits shifted out of a byte do not enter its neighbour.
VwShifted(s) == [i \in 1..4 |-> Xor((s[i] * 4) % 256, 60)]

\* The two parts have no bit in common: | puts them side by side, as + does.
vwAlgorithm(s) == [i \in 1..4 |-> Xor(((s[i] * 4) % 256) + (s[(i % 4) + 1] \div 64), 60)]

mercedesAlgorithm(s) == [i \in 1..8 |-> (s[i] * 29 + 59) % 256]
hondaAlgorithm(s) == [i \in 1..4 |-> Xor(s[i], 92)]

\* ~seed + 0xA5A5A5A5 on 32 bits, as two halves and a carry.
nissanAlgorithm(s) ==
  LET low  == (65535 - (s[3] * 256 + s[4])) + 42405
      high == (65535 - (s[1] * 256 + s[2])) + 42405 + low \div 65536
  IN <<(high % 65536) \div 256, high % 256, (low % 65536) \div 256, low % 256>>

\* The bytes a key must begin with.
Expected(a, s) ==
  CASE a = "gm28" -> gmAlgorithm28bit(s)  [] a = "gm40" -> gmAlgorithm40bit(s)
    [] a = "ford" -> fordAlgorithm(s)     [] a = "toyota" -> toyotaAlgorithm(s)
    [] a = "bmw" -> bmwAlgorithm(s)       [] a = "vw" -> vwAlgorithm(s)
    [] a = "mercedes" -> mercedesAlgorithm(s) [] a = "honda" -> hondaAlgorithm(s)
    [] a = "nissan" -> nissanAlgorithm(s)
    [] OTHER -> [i \in DOMAIN s |-> Xor(s[i], 255)]

validateKey(a, s, key) ==
  IF a = "none" THEN key = Expected(a, s)
  ELSE /\ Len(s) >= Need(a) /\ Len(key) >= Need(a)
       /\ SubSeq(key, 1, Need(a)) = Expected(a, s)

\* A key that fits one seed fits no other seed that differs in a byte the
\* algorithm looks at, and is accepted whenever seeds are long enough; for
\* shorter ones (the four bytes of levels 1 and 2 for gm40 and mercedes) no
\* key is accepted, of whatever length and bytes.  (Before the first challenge
\* there is no seed.)
KeysTellSeedsApart ==
  LET seeds == {[seed EXCEPT ![varied] = b] : b \in Byte}
  IN seed # <<>> =>
     IF algorithm # "none" /\ Len(seed) < Need(algorithm)
       THEN \A key \in Keys : ~validateKey(algorithm, seed, key)
     ELSE /\ \A s \in seeds : validateKey(algorithm, s, Expected(algorithm, s))
          /\ algorithm = "none" \/ varied <= Need(algorithm)
               => Cardinality({Expected(algorithm, s) : s \in seeds}) = 256
=============================================================================
