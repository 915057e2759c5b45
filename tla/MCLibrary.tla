------------------------------ MODULE MCLibrary ------------------------------
EXTENDS Library

MCCounts == {0, 1, 2, 7}
MCAttemptLimits == {0, 1, 2, 3}
MCLogLevels == {0, 2}
MCCodeLists == {<<>>, <<1>>, <<2, 1>>}
MCSensorValues == {-40000, -1, 0, 275, 450, 999, 3500, 12600, 25000, 90300, 101300, 215000,
                   254999, 655350, 800000, 2500250, 6000000, 16383750}
MCCounters == {0, 1, 255, 256, 65535}
MCSeedSizes == {5}
MCSeeds == {[i \in 1..n |-> (p + 37 * i) % 256] : p \in {0, 200}, n \in {4, 5, 8}}

\* No key, the seeds themselves, and what gm40 and mercedes would make of a
\* short seed followed by zeroes.
Padded(s) == s \o <<0, 0, 0, 0>>
MCKeys == {<<>>} \cup MCSeeds
            \cup {Expected(a, Padded(s)) : a \in {"gm40", "mercedes"}, s \in MCSeeds}

MCVehicles ==
  {<<"1", "G", "1", "Z", "B", "5", "S", "T", "1", "G", "F", "1", "0", "0", "0", "0", "1">>,
   <<"W", "B", "A", "3", "A", "5", "C", "5", "X", "D", "F", "1", "2", "3", "4", "5", "6">>}
=============================================================================
