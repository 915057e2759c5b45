-------------------------- MODULE TroubleCodes_proofs --------------------------
(***************************************************************************)
(* Proofs about TroubleCodes, for every set of codes, profiles, faults and *)
(* brands.                                                                 *)
(*                                                                         *)
(* ProfileInForce is not inductive: Progress says what POST /profile has   *)
(* reached in the middle, namely that the codes of the profile are listed  *)
(* or still to be set.  Nor is OneEntryUnlessRaced: Races says what is     *)
(* known of a code while one or both threads are about to append it.       *)
(***************************************************************************)
EXTENDS TroubleCodes, TLAPS

Entries == [code : Codes, pending : BOOLEAN]
ToDo == {todo[i] : i \in DOMAIN todo}

Progress ==
  /\ rest # "idle" => posted
  /\ posted /\ rest # "setProfile" => impl_profile = main_profile
  /\ posted /\ rest \in {"idle", "set", "push"} /\ ~cleared =>
       ProfileCodes(impl_profile) \subseteq CodesOf(dtcs) \cup ToDo

\* The thread is about to append the code.
RestAdds(c)  == rest = "push" /\ Head(todo) = c
FaultAdds(c) == fault = c

\* How often a code is listed.
AtMostOnce(c) ==
  \A i, j \in DOMAIN dtcs : i < j => ~(dtcs[i].code = c /\ dtcs[j].code = c)
AtMostTwice(c) ==
  \A i, j, k \in DOMAIN dtcs :
    i < j /\ j < k => ~(dtcs[i].code = c /\ dtcs[j].code = c /\ dtcs[k].code = c)

Races ==
  \A c \in Codes :
    /\ AtMostTwice(c)
    /\ c \notin raced => AtMostOnce(c)
    /\ RestAdds(c) \/ FaultAdds(c) => AtMostOnce(c) /\ (Listed(c) => c \in raced)
    /\ RestAdds(c) /\ FaultAdds(c) => ~Listed(c) /\ c \in raced

IInv == TypeOK /\ Races /\ Progress

-----------------------------------------------------------------------------
\* Marking an entry changes no code, only a flag.
LEMMA Marked ==
  ASSUME dtcs \in Seq(Entries), NEW c \in Codes, NEW p \in BOOLEAN, MarkFirst(c, p)
  PROVE  /\ dtcs' \in Seq(Entries) /\ DOMAIN dtcs' = DOMAIN dtcs
         /\ \A i \in DOMAIN dtcs : dtcs'[i].code = dtcs[i].code
         /\ CodesOf(dtcs)' = CodesOf(dtcs)
<1>1. Entry(c, p) \in Entries /\ Len(dtcs) \in Nat /\ DOMAIN dtcs = 1 .. Len(dtcs)
    BY DEF Entry, Entries
<1>2. dtcs' \in [1 .. Len(dtcs) -> Entries]
    BY <1>1 DEF MarkFirst
<1>3. dtcs' \in Seq(Entries) /\ DOMAIN dtcs' = DOMAIN dtcs
    BY <1>1, <1>2
<1>4. \A i \in DOMAIN dtcs : dtcs'[i].code = dtcs[i].code
    BY <1>1 DEF MarkFirst, Entry
<1>5. CodesOf(dtcs)' = CodesOf(dtcs)
    BY <1>3, <1>4 DEF CodesOf
<1> QED BY <1>3, <1>4, <1>5

\* Appending adds the one entry at the end.
LEMMA Pushed ==
  ASSUME dtcs \in Seq(Entries), NEW c \in Codes, NEW p \in BOOLEAN, PushBack(c, p)
  PROVE  /\ dtcs' \in Seq(Entries)
         /\ Len(dtcs) \in Nat /\ DOMAIN dtcs = 1 .. Len(dtcs)
         /\ DOMAIN dtcs' = 1 .. (Len(dtcs) + 1)
         /\ dtcs'[Len(dtcs) + 1].code = c
         /\ \A i \in 1 .. Len(dtcs) : dtcs'[i].code = dtcs[i].code
         /\ CodesOf(dtcs)' = CodesOf(dtcs) \cup {c}
<1>1. Entry(c, p) \in Entries
    BY DEF Entry, Entries
<1>2. /\ dtcs' \in Seq(Entries)
      /\ Len(dtcs) \in Nat /\ DOMAIN dtcs = 1 .. Len(dtcs)
      /\ DOMAIN dtcs' = 1 .. (Len(dtcs) + 1)
      /\ dtcs'[Len(dtcs) + 1] = Entry(c, p)
      /\ \A i \in 1 .. Len(dtcs) : dtcs'[i] = dtcs[i]
    BY <1>1 DEF PushBack
<1>3. CodesOf(dtcs)' = CodesOf(dtcs) \cup {c}
    BY <1>2 DEF CodesOf, Entry
<1> QED BY <1>2, <1>3 DEF Entry

\* A code that is appended is listed once more than before.
LEMMA PushCounts ==
  ASSUME dtcs \in Seq(Entries), NEW c \in Codes, NEW p \in BOOLEAN, PushBack(c, p),
         NEW d \in Codes
  PROVE  /\ (d # c \/ ~Listed(c)) /\ AtMostOnce(d) => AtMostOnce(d)'
         /\ AtMostOnce(d) => AtMostTwice(d)'
         /\ d # c /\ AtMostTwice(d) => AtMostTwice(d)'
<1> DEFINE n == Len(dtcs)
<1>1. /\ n \in Nat /\ DOMAIN dtcs = 1 .. n /\ DOMAIN dtcs' = 1 .. (n + 1)
      /\ dtcs'[n + 1].code = c
      /\ \A i \in 1 .. n : dtcs'[i].code = dtcs[i].code
    BY Pushed
<1>2. \A i \in 1 .. (n + 1) : i \in 1 .. n \/ i = n + 1
    BY <1>1
<1>3. ASSUME d # c \/ ~Listed(c), AtMostOnce(d) PROVE AtMostOnce(d)'
  <2> SUFFICES ASSUME NEW i \in 1 .. (n + 1), NEW j \in 1 .. (n + 1), i < j,
                      dtcs'[i].code = d, dtcs'[j].code = d
               PROVE  FALSE
      BY <1>1 DEF AtMostOnce
  <2>1. i \in 1 .. n
      BY <1>1
  <2>2. dtcs[i].code = d
      BY <1>1, <2>1
  <2>3. CASE j = n + 1
      BY <1>1, <1>3, <2>1, <2>2, <2>3 DEF Listed, CodesOf
  <2>4. CASE j \in 1 .. n
      BY <1>1, <1>3, <2>1, <2>2, <2>4 DEF AtMostOnce
  <2> QED BY <1>2, <2>3, <2>4
<1>4. ASSUME AtMostOnce(d) \/ (d # c /\ AtMostTwice(d)) PROVE AtMostTwice(d)'
  <2> SUFFICES ASSUME NEW i \in 1 .. (n + 1), NEW j \in 1 .. (n + 1), NEW k \in 1 .. (n + 1),
                      i < j, j < k, dtcs'[i].code = d, dtcs'[j].code = d, dtcs'[k].code = d
               PROVE  FALSE
      BY <1>1 DEF AtMostTwice
  <2>1. i \in 1 .. n /\ j \in 1 .. n
      BY <1>1
  <2>2. dtcs[i].code = d /\ dtcs[j].code = d
      BY <1>1, <2>1
  <2>3. CASE AtMostOnce(d)
      BY <1>1, <2>1, <2>2, <2>3 DEF AtMostOnce
  <2>4. CASE d # c /\ AtMostTwice(d)
    <3>1. k \in 1 .. n
        BY <1>1, <1>2, <2>4
    <3> QED BY <1>1, <2>1, <2>2, <2>4, <3>1 DEF AtMostTwice
  <2> QED BY <1>4, <2>3, <2>4
<1> QED BY <1>3, <1>4

\* Where no entry is added, no code is listed more often.
LEMMA CountsKept ==
  ASSUME NEW at, DOMAIN dtcs \subseteq Nat, DOMAIN dtcs' \subseteq Nat,
         \A i \in DOMAIN dtcs' : at[i] \in DOMAIN dtcs /\ dtcs'[i].code = dtcs[at[i]].code,
         \A i, j \in DOMAIN dtcs' : i < j => at[i] < at[j],
         NEW c \in Codes
  PROVE  /\ AtMostOnce(c) => AtMostOnce(c)'
         /\ AtMostTwice(c) => AtMostTwice(c)'
         /\ Listed(c)' => Listed(c)
<1>1. AtMostOnce(c) => AtMostOnce(c)'
    BY DEF AtMostOnce
<1>2. AtMostTwice(c) => AtMostTwice(c)'
  <2> SUFFICES ASSUME AtMostTwice(c), NEW i \in DOMAIN dtcs', NEW j \in DOMAIN dtcs',
                      NEW k \in DOMAIN dtcs', i < j, j < k,
                      dtcs'[i].code = c, dtcs'[j].code = c, dtcs'[k].code = c
               PROVE  FALSE
      BY DEF AtMostTwice
  <2>1. /\ at[i] \in DOMAIN dtcs /\ at[j] \in DOMAIN dtcs /\ at[k] \in DOMAIN dtcs
        /\ at[i] < at[j] /\ at[j] < at[k]
        /\ dtcs[at[i]].code = c /\ dtcs[at[j]].code = c /\ dtcs[at[k]].code = c
      OBVIOUS
  <2> QED BY <2>1 DEF AtMostTwice
<1>3. Listed(c)' => Listed(c)
    BY DEF Listed, CodesOf
<1> QED BY <1>1, <1>2, <1>3

\* Nothing is listed more often, no thread wants to append anything new.
LEMMA RacesKept ==
  ASSUME Races, UNCHANGED raced,
         \A c \in Codes : /\ RestAdds(c)' => RestAdds(c)
                          /\ FaultAdds(c)' => FaultAdds(c)
                          /\ AtMostOnce(c) => AtMostOnce(c)'
                          /\ AtMostTwice(c) => AtMostTwice(c)'
                          /\ Listed(c)' => Listed(c)
  PROVE  Races'
<1> SUFFICES ASSUME NEW c \in Codes
             PROVE  /\ AtMostTwice(c)'
                    /\ c \notin raced' => AtMostOnce(c)'
                    /\ RestAdds(c)' \/ FaultAdds(c)' =>
                         AtMostOnce(c)' /\ (Listed(c)' => c \in raced')
                    /\ RestAdds(c)' /\ FaultAdds(c)' => ~Listed(c)' /\ c \in raced'
    BY DEF Races
<1>1. /\ AtMostTwice(c) /\ (c \notin raced => AtMostOnce(c))
      /\ RestAdds(c) \/ FaultAdds(c) => AtMostOnce(c) /\ (Listed(c) => c \in raced)
      /\ RestAdds(c) /\ FaultAdds(c) => ~Listed(c) /\ c \in raced
    BY DEF Races
<1>2. /\ RestAdds(c)' => RestAdds(c)
      /\ FaultAdds(c)' => FaultAdds(c)
      /\ AtMostOnce(c) => AtMostOnce(c)'
      /\ AtMostTwice(c) => AtMostTwice(c)'
      /\ Listed(c)' => Listed(c)
      /\ c \in raced' <=> c \in raced
    OBVIOUS
<1> QED BY <1>1, <1>2

\* A list of which only flags have changed.
LEMMA RacesMarked ==
  ASSUME TypeOK, Races, NEW c \in Codes, NEW p \in BOOLEAN, MarkFirst(c, p),
         UNCHANGED raced,
         \A d \in Codes : (RestAdds(d)' => RestAdds(d)) /\ (FaultAdds(d)' => FaultAdds(d))
  PROVE  Races'
<1>0. dtcs \in Seq(Entries)
    BY DEF TypeOK, Entries
<1>1. /\ DOMAIN dtcs' = DOMAIN dtcs
      /\ \A i \in DOMAIN dtcs : dtcs'[i].code = dtcs[i].code
      /\ CodesOf(dtcs)' = CodesOf(dtcs)
    BY <1>0, Marked
<1>2. \A d \in Codes : /\ AtMostOnce(d) => AtMostOnce(d)'
                       /\ AtMostTwice(d) => AtMostTwice(d)'
                       /\ Listed(d)' => Listed(d)
    BY <1>1 DEF AtMostOnce, AtMostTwice, Listed
<1> QED BY <1>2, RacesKept

\* A thread has missed a code, and means to append it.
LEMMA RacesMissed ==
  ASSUME Races, NEW c \in Codes, ~Listed(c), UNCHANGED dtcs,
         NEW other, NoteRace(c, other),
         \/ /\ fault = NoCode /\ fault' = c /\ UNCHANGED <<rest, todo>>
            /\ other = IF rest = "push" THEN Head(todo) ELSE NoCode
         \/ /\ rest = "set" /\ rest' = "push" /\ Head(todo) = c /\ UNCHANGED <<fault, todo>>
            /\ other = fault
  PROVE  Races'
<1> USE TroubleCodesAssumption
<1>0. \A d \in Codes : /\ AtMostOnce(d)' = AtMostOnce(d) /\ AtMostTwice(d)' = AtMostTwice(d)
                       /\ Listed(d)' = Listed(d)
    BY DEF AtMostOnce, AtMostTwice, Listed, CodesOf
<1>1. AtMostOnce(c)
    BY DEF AtMostOnce, Listed, CodesOf
<1>2. RestAdds(c)' /\ FaultAdds(c)' => c \in raced'
    BY DEF NoteRace, RestAdds, FaultAdds
<1>3. AtMostTwice(c)
    BY DEF Races
<1> SUFFICES ASSUME NEW d \in Codes
             PROVE  /\ AtMostTwice(d)'
                    /\ d \notin raced' => AtMostOnce(d)'
                    /\ RestAdds(d)' \/ FaultAdds(d)' =>
                         AtMostOnce(d)' /\ (Listed(d)' => d \in raced')
                    /\ RestAdds(d)' /\ FaultAdds(d)' => ~Listed(d)' /\ d \in raced'
    BY DEF Races
<1>4. CASE d = c
    BY <1>0, <1>1, <1>2, <1>3, <1>4
<1>5. CASE d # c
  <2>1. /\ AtMostTwice(d) /\ (d \notin raced => AtMostOnce(d))
        /\ RestAdds(d) \/ FaultAdds(d) => AtMostOnce(d) /\ (Listed(d) => d \in raced)
        /\ RestAdds(d) /\ FaultAdds(d) => ~Listed(d) /\ d \in raced
      BY DEF Races
  <2>2. /\ (d \in raced' <=> d \in raced)
        /\ RestAdds(d)' => RestAdds(d)
        /\ FaultAdds(d)' => FaultAdds(d)
      BY <1>5 DEF NoteRace, RestAdds, FaultAdds
  <2> QED BY <1>0, <2>1, <2>2
<1> QED BY <1>4, <1>5

\* A thread appends the code it has missed.
LEMMA RacesPushed ==
  ASSUME TypeOK, Races, NEW c \in Codes, NEW p \in BOOLEAN, PushBack(c, p), UNCHANGED raced,
         \/ RestAdds(c) /\ rest' = "set" /\ UNCHANGED fault
         \/ FaultAdds(c) /\ fault' = NoCode /\ UNCHANGED <<rest, todo>>
  PROVE  Races'
<1> USE TroubleCodesAssumption
<1>0. dtcs \in Seq(Entries)
    BY DEF TypeOK, Entries
<1> SUFFICES ASSUME NEW d \in Codes
             PROVE  /\ AtMostTwice(d)'
                    /\ d \notin raced' => AtMostOnce(d)'
                    /\ RestAdds(d)' \/ FaultAdds(d)' =>
                         AtMostOnce(d)' /\ (Listed(d)' => d \in raced')
                    /\ RestAdds(d)' /\ FaultAdds(d)' => ~Listed(d)' /\ d \in raced'
    BY DEF Races
<1>1. /\ (d # c \/ ~Listed(c)) /\ AtMostOnce(d) => AtMostOnce(d)'
      /\ AtMostOnce(d) => AtMostTwice(d)'
      /\ d # c /\ AtMostTwice(d) => AtMostTwice(d)'
    BY <1>0, PushCounts
<1>2. Listed(d)' <=> Listed(d) \/ d = c
  <2>1. CodesOf(dtcs)' = CodesOf(dtcs) \cup {c}
      BY <1>0, Pushed
  <2> QED BY <2>1 DEF Listed
<1>3. /\ AtMostTwice(d) /\ (d \notin raced => AtMostOnce(d))
      /\ RestAdds(d) \/ FaultAdds(d) => AtMostOnce(d) /\ (Listed(d) => d \in raced)
      /\ RestAdds(d) /\ FaultAdds(d) => ~Listed(d) /\ d \in raced
    BY DEF Races
<1>4. /\ RestAdds(d)' => RestAdds(d)
      /\ FaultAdds(d)' => FaultAdds(d)
      /\ ~(RestAdds(d)' /\ FaultAdds(d)') \/ d # c
      /\ RestAdds(c)' \/ FaultAdds(c)' => RestAdds(c) /\ FaultAdds(c)
      /\ RestAdds(c) \/ FaultAdds(c)
    BY DEF RestAdds, FaultAdds
<1>5. CASE d = c
    BY <1>1, <1>2, <1>3, <1>4, <1>5
<1>6. CASE d # c
    BY <1>1, <1>2, <1>3, <1>4, <1>6
<1> QED BY <1>5, <1>6

-----------------------------------------------------------------------------
\* The initial states satisfy the invariant.
LEMMA InitIInv == Init => IInv
<1> SUFFICES ASSUME Init PROVE IInv
    OBVIOUS
<1>1. posted \in BOOLEAN /\ cleared \in BOOLEAN
    BY Zenon DEF Init
<1>2. TypeOK
    BY <1>1, TroubleCodesAssumption DEF Init, TypeOK
<1>3. Races
    BY TroubleCodesAssumption
    DEF Init, Races, AtMostOnce, AtMostTwice, Listed, CodesOf, RestAdds, FaultAdds
<1>4. Progress
    BY DEF Init, Progress
<1> QED BY <1>2, <1>3, <1>4 DEF IInv

\* Clearing the list keeps the invariant, whoever asks for it.
LEMMA ClearKeepsIInv ==
  ASSUME IInv, clearDTCs, UNCHANGED <<brand, restVars, fault>>
  PROVE  IInv'
<1>1. cleared' \in BOOLEAN
    BY Zenon DEF clearDTCs
<1>2. TypeOK'
    BY <1>1 DEF IInv, TypeOK, clearDTCs, restVars
<1>3. Races'
  <2>1. \A c \in Codes : AtMostOnce(c)' /\ AtMostTwice(c)' /\ ~Listed(c)'
      BY DEF clearDTCs, AtMostOnce, AtMostTwice, Listed, CodesOf
  <2> QED BY <2>1, RacesKept DEF IInv, clearDTCs, restVars, RestAdds, FaultAdds
<1>4. Progress'
    BY DEF IInv, Progress, clearDTCs, restVars
<1> QED BY <1>2, <1>3, <1>4 DEF IInv

\* A step that leaves the list alone, and makes no thread want to append.
LEMMA ListUnchanged ==
  ASSUME Races, UNCHANGED <<dtcs, raced>>,
         \A c \in Codes : (RestAdds(c)' => RestAdds(c)) /\ (FaultAdds(c)' => FaultAdds(c))
  PROVE  Races'
<1>1. \A c \in Codes : /\ AtMostOnce(c)' = AtMostOnce(c) /\ AtMostTwice(c)' = AtMostTwice(c)
                       /\ Listed(c)' = Listed(c)
    BY DEF AtMostOnce, AtMostTwice, Listed, CodesOf
<1> QED BY <1>1, RacesKept

\* The codes still to be set are the next one and those after it.
LEMMA FirstOfToDo ==
  ASSUME todo \in Seq(Codes), todo # <<>>
  PROVE  /\ Head(todo) \in Codes /\ Tail(todo) \in Seq(Codes)
         /\ ToDo = {Head(todo)} \cup {Tail(todo)[i] : i \in DOMAIN Tail(todo)}
<1>1. Head(todo) \in Codes /\ Tail(todo) \in Seq(Codes)
    OBVIOUS
<1>2. /\ Len(todo) \in Nat \ {0} /\ DOMAIN todo = 1 .. Len(todo)
      /\ DOMAIN Tail(todo) = 1 .. (Len(todo) - 1) /\ Head(todo) = todo[1]
      /\ \A i \in 1 .. (Len(todo) - 1) : Tail(todo)[i] = todo[i + 1]
    OBVIOUS
<1>3. \A i \in DOMAIN todo : i = 1 \/ (i - 1 \in DOMAIN Tail(todo) /\ todo[i] = Tail(todo)[i - 1])
    BY <1>2
<1>4. \A i \in DOMAIN Tail(todo) : i + 1 \in DOMAIN todo /\ Tail(todo)[i] = todo[i + 1]
    BY <1>2
<1>5. 1 \in DOMAIN todo
    BY <1>2
<1>6. ToDo \subseteq {Head(todo)} \cup {Tail(todo)[i] : i \in DOMAIN Tail(todo)}
  <2> SUFFICES ASSUME NEW i \in DOMAIN todo
               PROVE  todo[i] \in {Head(todo)} \cup {Tail(todo)[j] : j \in DOMAIN Tail(todo)}
      BY DEF ToDo
  <2>1. CASE i = 1
      BY <1>2, <2>1
  <2>2. CASE i # 1
      BY <1>3, <2>2
  <2> QED BY <2>1, <2>2
<1>7. {Head(todo)} \cup {Tail(todo)[i] : i \in DOMAIN Tail(todo)} \subseteq ToDo
    BY <1>2, <1>4, <1>5 DEF ToDo
<1> QED BY <1>1, <1>6, <1>7

\* Every step keeps the invariant.
LEMMA NextIInv == IInv /\ [Next]_vars => IInv'
<1> SUFFICES ASSUME IInv, [Next]_vars PROVE IInv'
    OBVIOUS
<1> USE TroubleCodesAssumption
<1>0. /\ TypeOK /\ Races /\ Progress
      /\ dtcs \in Seq(Entries) /\ DOMAIN dtcs \subseteq Nat
  <2>1. TypeOK /\ Races /\ Progress /\ dtcs \in Seq(Entries)
      BY DEF IInv, TypeOK, Entries
  <2> QED BY <2>1
<1>1. ASSUME NEW p \in Profiles, PostProfile(p) PROVE IInv'
  <2>0. posted' \in BOOLEAN
      BY Zenon, <1>1 DEF PostProfile
  <2>1. TypeOK'
      BY <1>0, <1>1, <2>0 DEF TypeOK, PostProfile, ghostVars
  <2>2. Races'
      BY <1>0, <1>1, ListUnchanged DEF PostProfile, ghostVars, RestAdds, FaultAdds
  <2>3. Progress'
      BY <1>0, <1>1 DEF Progress, PostProfile
  <2> QED BY <2>1, <2>2, <2>3 DEF IInv
<1>2. CASE SetProfile
  <2>1. TypeOK'
      BY <1>0, <1>2 DEF TypeOK, SetProfile, ghostVars
  <2>2. Races'
      BY <1>0, <1>2, ListUnchanged DEF SetProfile, ghostVars, RestAdds, FaultAdds
  <2>3. Progress'
      BY <1>0, <1>2 DEF Progress, SetProfile
  <2> QED BY <2>1, <2>2, <2>3 DEF IInv
<1>3. CASE EraseProfileCodes
  <2>1. PICK n \in 0 .. Len(dtcs) : \E kept \in [1 .. n -> 1 .. Len(dtcs)] :
          /\ \A i, j \in 1 .. n : i < j => kept[i] < kept[j]
          /\ dtcs' = [i \in 1 .. n |-> dtcs[kept[i]]]
      BY <1>3 DEF EraseProfileCodes
  <2>2. PICK kept \in [1 .. n -> 1 .. Len(dtcs)] :
          /\ \A i, j \in 1 .. n : i < j => kept[i] < kept[j]
          /\ dtcs' = [i \in 1 .. n |-> dtcs[kept[i]]]
      BY <2>1
  <2>3. dtcs' \in [1 .. n -> Entries] /\ n \in Nat
      BY <1>0, <2>2
  <2>4. dtcs' \in Seq(Entries)
      BY <2>3
  <2>5. cleared' \in BOOLEAN
      BY Zenon, <1>3 DEF EraseProfileCodes
  <2>6. TypeOK'
      BY <1>0, <1>3, <2>4, <2>5 DEF TypeOK, EraseProfileCodes, Entries
  <2>7. Races'
    <3>1. DOMAIN dtcs' = 1 .. n /\ DOMAIN dtcs = 1 .. Len(dtcs)
        BY <1>0, <2>2
    <3>2. \A i \in DOMAIN dtcs' : kept[i] \in DOMAIN dtcs /\ dtcs'[i].code = dtcs[kept[i]].code
        BY <2>2, <3>1
    <3>3. \A i, j \in DOMAIN dtcs' : i < j => kept[i] < kept[j]
        BY <2>2, <3>1
    <3>4. DOMAIN dtcs' \subseteq Nat
        BY <2>3, <3>1
    <3>5. \A c \in Codes : /\ AtMostOnce(c) => AtMostOnce(c)'
                           /\ AtMostTwice(c) => AtMostTwice(c)'
                           /\ Listed(c)' => Listed(c)
        BY <1>0, <3>2, <3>3, <3>4, CountsKept
    <3> QED BY <1>0, <1>3, <3>5, RacesKept DEF EraseProfileCodes, RestAdds, FaultAdds
  <2>8. Progress'
    <3>1. ProfileCodes(impl_profile) = ToDo'
        BY <1>3 DEF EraseProfileCodes, ProfileCodes, ToDo
    <3> QED BY <1>0, <1>3, <3>1 DEF Progress, EraseProfileCodes, ProfileCodes
  <2> QED BY <2>6, <2>7, <2>8 DEF IInv
<1>4. CASE FindProfileCode
  <2>1. CASE todo = <<>>
    <3>1. /\ rest = "set" /\ rest' = "idle"
          /\ UNCHANGED <<dtcs, todo, impl_profile, main_profile, posted, fault, ghostVars>>
        BY <1>4, <2>1 DEF FindProfileCode, ghostVars
    <3>2. TypeOK'
        BY <1>0, <1>4, <2>1, <3>1 DEF TypeOK, FindProfileCode, ghostVars
    <3>3. Races'
        BY <1>0, <3>1, ListUnchanged DEF ghostVars, RestAdds, FaultAdds
    <3>4. /\ ProfileCodes(impl_profile)' = ProfileCodes(impl_profile)
          /\ CodesOf(dtcs)' = CodesOf(dtcs) /\ ToDo' = ToDo
        BY <3>1 DEF ProfileCodes, CodesOf, ToDo
    <3>5. Progress'
        BY <1>0, <3>1, <3>4 DEF Progress, ghostVars
    <3> QED BY <3>2, <3>3, <3>5 DEF IInv
  <2>2. CASE todo # <<>> /\ Listed(Head(todo))
    <3>1. /\ Head(todo) \in Codes /\ Tail(todo) \in Seq(Codes)
          /\ ToDo = {Head(todo)} \cup {Tail(todo)[i] : i \in DOMAIN Tail(todo)}
        BY <1>0, <2>2, FirstOfToDo DEF TypeOK
    <3>2. /\ MarkFirst(Head(todo), FALSE) /\ todo' = Tail(todo) /\ rest = "set"
          /\ UNCHANGED <<rest, raced, brand, main_profile, impl_profile, posted, fault,
                         cleared, injected>>
        BY <1>4, <2>2 DEF FindProfileCode
    <3>3. /\ dtcs' \in Seq(Entries) /\ CodesOf(dtcs)' = CodesOf(dtcs)
        BY <1>0, <3>1, <3>2, Marked
    <3>4. TypeOK'
        BY <1>0, <3>1, <3>2, <3>3 DEF TypeOK, Entries
    <3>5. Races'
      <4>1. \A d \in Codes : (RestAdds(d)' => RestAdds(d)) /\ (FaultAdds(d)' => FaultAdds(d))
          BY <3>2 DEF RestAdds, FaultAdds
      <4>2. FALSE \in BOOLEAN /\ UNCHANGED raced
          BY <3>2
      <4> HIDE DEF ToDo
      <4> QED BY <1>0, <3>1, <3>2, <4>1, <4>2, RacesMarked
    <3>6. /\ ToDo' = {Tail(todo)[i] : i \in DOMAIN Tail(todo)}
          /\ ProfileCodes(impl_profile)' = ProfileCodes(impl_profile)
        BY <3>2 DEF ToDo, ProfileCodes
    <3>7. Progress'
        BY <1>0, <2>2, <3>1, <3>2, <3>3, <3>6 DEF Progress, Listed
    <3> QED BY <3>4, <3>5, <3>7 DEF IInv
  <2>3. CASE todo # <<>> /\ ~Listed(Head(todo))
    <3>1. Head(todo) \in Codes
        BY <1>0, <2>3, FirstOfToDo DEF TypeOK
    <3>2. /\ rest = "set" /\ rest' = "push" /\ NoteRace(Head(todo), fault)
          /\ UNCHANGED <<dtcs, todo, brand, main_profile, impl_profile, posted, fault,
                         cleared, injected>>
        BY <1>4, <2>3 DEF FindProfileCode
    <3>3. TypeOK'
        BY <1>0, <2>3, <3>1, <3>2 DEF TypeOK, NoteRace
    <3>4. Races'
      <4> DEFINE c == Head(todo)
      <4>1. /\ c \in Codes /\ ~Listed(c) /\ UNCHANGED dtcs /\ NoteRace(c, fault)
            /\ rest = "set" /\ rest' = "push" /\ UNCHANGED <<fault, todo>>
          BY <2>3, <3>1, <3>2
      <4> QED BY <1>0, <4>1, RacesMissed
    <3>5. /\ ProfileCodes(impl_profile)' = ProfileCodes(impl_profile)
          /\ CodesOf(dtcs)' = CodesOf(dtcs) /\ ToDo' = ToDo
        BY <3>2 DEF ProfileCodes, CodesOf, ToDo
    <3>6. Progress'
        BY <1>0, <3>2, <3>5 DEF Progress
    <3> QED BY <3>3, <3>4, <3>6 DEF IInv
  <2> QED BY <2>1, <2>2, <2>3
<1>5. CASE PushProfileCode
  <2>1. /\ rest = "push" /\ rest' = "set" /\ todo # <<>>
        /\ PushBack(Head(todo), FALSE) /\ todo' = Tail(todo)
        /\ UNCHANGED <<brand, main_profile, impl_profile, posted, fault, cleared, injected, raced>>
      BY <1>0, <1>5 DEF TypeOK, PushProfileCode, ghostVars
  <2>2. /\ Head(todo) \in Codes /\ Tail(todo) \in Seq(Codes)
        /\ ToDo = {Head(todo)} \cup {Tail(todo)[i] : i \in DOMAIN Tail(todo)}
      BY <1>0, <2>1, FirstOfToDo DEF TypeOK
  <2>3. dtcs' \in Seq(Entries) /\ CodesOf(dtcs)' = CodesOf(dtcs) \cup {Head(todo)}
      BY <1>0, <2>1, <2>2, Pushed
  <2>4. TypeOK'
      BY <1>0, <2>1, <2>2, <2>3 DEF TypeOK, Entries
  <2>5. Races'
    <3> DEFINE c == Head(todo)
    <3>1. RestAdds(c) /\ c \in Codes /\ PushBack(c, FALSE) /\ UNCHANGED <<raced, fault>>
        BY <2>1, <2>2 DEF RestAdds
    <3> QED BY <1>0, <2>1, <3>1, RacesPushed
  <2>6. /\ ToDo' = {Tail(todo)[i] : i \in DOMAIN Tail(todo)}
        /\ ProfileCodes(impl_profile)' = ProfileCodes(impl_profile)
      BY <2>1 DEF ToDo, ProfileCodes
  <2>7. Progress'
      BY <1>0, <2>1, <2>2, <2>3, <2>6 DEF Progress
  <2> QED BY <2>4, <2>5, <2>7 DEF IInv
<1>6. CASE PostClear
    BY <1>6, ClearKeepsIInv DEF PostClear
<1>7. CASE Mode04
    BY <1>7, ClearKeepsIInv DEF Mode04
<1>8. ASSUME NEW c \in Faults, FindFault(c) PROVE IInv'
  <2>0. c \in Codes /\ ProfileCodes(impl_profile)' = ProfileCodes(impl_profile) /\ ToDo' = ToDo
      BY <1>8 DEF FindFault, restVars, ProfileCodes, ToDo
  <2>1. CASE Listed(c)
    <3>1. MarkFirst(c, TRUE) /\ injected' = injected \cup {c}
          /\ UNCHANGED <<fault, raced, brand, restVars, cleared>>
        BY <1>8, <2>1 DEF FindFault
    <3>2. dtcs' \in Seq(Entries) /\ CodesOf(dtcs)' = CodesOf(dtcs)
        BY <1>0, <2>0, <3>1, Marked
    <3>3. TypeOK'
        BY <1>0, <3>1, <3>2 DEF TypeOK, restVars, Entries
    <3>4. Races'
      <4>1. \A d \in Codes : (RestAdds(d)' => RestAdds(d)) /\ (FaultAdds(d)' => FaultAdds(d))
          BY <3>1 DEF restVars, RestAdds, FaultAdds
      <4> QED BY <1>0, <2>0, <3>1, <4>1, RacesMarked
    <3>5. Progress'
        BY <1>0, <2>0, <3>1, <3>2 DEF Progress, restVars
    <3> QED BY <3>3, <3>4, <3>5 DEF IInv
  <2>2. CASE ~Listed(c)
    <3>1. /\ fault = NoCode /\ fault' = c
          /\ NoteRace(c, IF rest = "push" THEN Head(todo) ELSE NoCode)
          /\ UNCHANGED <<dtcs, injected, brand, restVars, cleared>>
        BY <1>8, <2>2 DEF FindFault
    <3>2. TypeOK'
        BY <1>0, <2>0, <3>1 DEF TypeOK, restVars, NoteRace
    <3>3. Races'
      <4> DEFINE other == IF rest = "push" THEN Head(todo) ELSE NoCode
      <4>1. /\ UNCHANGED <<dtcs, rest, todo>> /\ NoteRace(c, other)
            /\ fault = NoCode /\ fault' = c
          BY <3>1 DEF restVars
      <4> QED BY <1>0, <2>0, <2>2, <4>1, RacesMissed
    <3>4. CodesOf(dtcs)' = CodesOf(dtcs)
        BY <3>1 DEF CodesOf
    <3>5. Progress'
        BY <1>0, <2>0, <3>1, <3>4 DEF Progress, restVars
    <3> QED BY <3>2, <3>3, <3>5 DEF IInv
  <2> QED BY <2>1, <2>2
<1>9. CASE PushFault
  <2>1. /\ fault # NoCode /\ fault' = NoCode /\ fault \in Codes
        /\ PushBack(fault, TRUE) /\ injected' = injected \cup {fault}
        /\ UNCHANGED <<brand, restVars, cleared, raced>>
      BY <1>0, <1>9 DEF PushFault, TypeOK
  <2>2. dtcs' \in Seq(Entries) /\ CodesOf(dtcs)' = CodesOf(dtcs) \cup {fault}
      BY <1>0, <2>1, Pushed
  <2>3. TypeOK'
      BY <1>0, <2>1, <2>2 DEF TypeOK, restVars, Entries
  <2>4. Races'
    <3>1. FaultAdds(fault) /\ UNCHANGED <<rest, todo>>
        BY <2>1 DEF FaultAdds, restVars
    <3> QED BY <1>0, <2>1, <3>1, RacesPushed
  <2>5. ProfileCodes(impl_profile)' = ProfileCodes(impl_profile) /\ ToDo' = ToDo
      BY <2>1 DEF restVars, ProfileCodes, ToDo
  <2>6. Progress'
      BY <1>0, <2>1, <2>2, <2>5 DEF Progress, restVars
  <2> QED BY <2>3, <2>4, <2>6 DEF IInv
<1>10. CASE UNCHANGED vars
  <2>1. TypeOK'
      BY <1>0, <1>10 DEF TypeOK, vars, restVars, ghostVars
  <2>2. Races'
      BY <1>0, <1>10, ListUnchanged DEF vars, restVars, ghostVars, RestAdds, FaultAdds
  <2>3. Progress'
      BY <1>0, <1>10 DEF Progress, vars, restVars, ghostVars, ProfileCodes, CodesOf, ToDo
  <2> QED BY <2>1, <2>2, <2>3 DEF IInv
<1> QED BY <1>1, <1>2, <1>3, <1>4, <1>5, <1>6, <1>7, <1>8, <1>9, <1>10 DEF Next

LEMMA Invariance == Spec => []IInv
  BY InitIInv, NextIInv, PTL DEF Spec

-----------------------------------------------------------------------------
\* Type correctness.
THEOREM TypeCorrect == Spec => []TypeOK
  BY Invariance, PTL DEF IInv

\* What is known of every code is known of the entries.
LEMMA RacesBound == TypeOK /\ Races => OneEntryUnlessRaced
<1> SUFFICES ASSUME TypeOK, Races PROVE OneEntryUnlessRaced
    OBVIOUS
<1>1. \A i \in DOMAIN dtcs : dtcs[i].code \in Codes
  <2>1. dtcs \in Seq(Entries)
      BY DEF TypeOK, Entries
  <2>2. \A i \in DOMAIN dtcs : dtcs[i] \in Entries
      BY <2>1
  <2> QED BY <2>2 DEF Entries
<1>2. \A i, j \in DOMAIN dtcs : i < j /\ dtcs[i].code = dtcs[j].code => dtcs[i].code \in raced
  <2> SUFFICES ASSUME NEW i \in DOMAIN dtcs, NEW j \in DOMAIN dtcs, i < j,
                      dtcs[i].code = dtcs[j].code, dtcs[i].code \notin raced
               PROVE  FALSE
      OBVIOUS
  <2>1. AtMostOnce(dtcs[i].code)
      BY <1>1 DEF Races
  <2> QED BY <2>1 DEF AtMostOnce
<1>3. \A i, j, k \in DOMAIN dtcs :
        i < j /\ j < k => dtcs[i].code # dtcs[j].code \/ dtcs[j].code # dtcs[k].code
  <2> SUFFICES ASSUME NEW i \in DOMAIN dtcs, NEW j \in DOMAIN dtcs, NEW k \in DOMAIN dtcs,
                      i < j, j < k, dtcs[i].code = dtcs[j].code, dtcs[j].code = dtcs[k].code
               PROVE  FALSE
      OBVIOUS
  <2>1. AtMostTwice(dtcs[i].code)
      BY <1>1 DEF Races
  <2> QED BY <2>1 DEF AtMostTwice
<1> QED BY <1>2, <1>3 DEF OneEntryUnlessRaced

\* A code is listed twice only after a race of the two threads, and never more.
THEOREM DuplicatesBounded == Spec => []OneEntryUnlessRaced
  BY Invariance, RacesBound, PTL DEF IInv

\* Progress gives the promise of an accepted profile change once it is done.
LEMMA DoneIsInForce == IInv => ProfileInForce
<1> SUFFICES ASSUME IInv, rest = "idle", posted PROVE ProfileInForce
    BY DEF ProfileInForce
<1>1. ToDo = {}
    BY DEF IInv, TypeOK, ToDo
<1> QED BY <1>1 DEF IInv, Progress, ProfileInForce

\* A profile change that is done is in force in both managers.
THEOREM ProfileApplied == Spec => []ProfileInForce
  BY Invariance, DoneIsInForce, PTL

-----------------------------------------------------------------------------
\* A step takes off the list what it clears or is about to set again.
LEMMA StepKeepsOthers ==
  IInv /\ [Next]_vars =>
    [\/ dtcs' = <<>> /\ cleared'
     \/ CodesOf(dtcs) \subseteq CodesOf(dtcs') \cup ProfileCodes(impl_profile)]_vars
<1> SUFFICES ASSUME IInv, Next
             PROVE  \/ dtcs' = <<>> /\ cleared'
                    \/ CodesOf(dtcs) \subseteq CodesOf(dtcs') \cup ProfileCodes(impl_profile)
    OBVIOUS
<1>0. TypeOK /\ dtcs \in Seq(Entries) /\ todo \in Seq(Codes)
    BY DEF IInv, TypeOK, Entries
<1>1. CASE \/ \E p \in Profiles : PostProfile(p)
           \/ SetProfile
    BY <1>1 DEF PostProfile, SetProfile
<1>2. CASE EraseProfileCodes
  <2>1. PICK n \in 0 .. Len(dtcs) : \E kept \in [1 .. n -> 1 .. Len(dtcs)] :
          /\ {kept[i] : i \in 1 .. n} =
               {k \in 1 .. Len(dtcs) : dtcs[k].code \notin ProfileCodes(impl_profile)}
          /\ dtcs' = [i \in 1 .. n |-> dtcs[kept[i]]]
      BY <1>2 DEF EraseProfileCodes
  <2>2. PICK kept \in [1 .. n -> 1 .. Len(dtcs)] :
          /\ {kept[i] : i \in 1 .. n} =
               {k \in 1 .. Len(dtcs) : dtcs[k].code \notin ProfileCodes(impl_profile)}
          /\ dtcs' = [i \in 1 .. n |-> dtcs[kept[i]]]
      BY <2>1
  <2>3. ASSUME NEW k \in 1 .. Len(dtcs), dtcs[k].code \notin ProfileCodes(impl_profile)
        PROVE  dtcs[k].code \in CodesOf(dtcs')
    <3>1. PICK i \in 1 .. n : kept[i] = k
        BY <2>2, <2>3
    <3>2. i \in DOMAIN dtcs' /\ dtcs'[i].code = dtcs[k].code
        BY <2>2, <3>1
    <3> QED BY <3>2 DEF CodesOf
  <2>4. DOMAIN dtcs = 1 .. Len(dtcs)
      BY <1>0
  <2> QED BY <2>3, <2>4 DEF CodesOf
<1>3. CASE FindProfileCode
  <2>1. CASE todo # <<>> /\ Listed(Head(todo))
    <3>1. Head(todo) \in Codes /\ MarkFirst(Head(todo), FALSE) /\ FALSE \in BOOLEAN
      <4>1. Head(todo) \in Codes
          BY <1>0, <2>1
      <4>2. MarkFirst(Head(todo), FALSE)
          BY <1>3, <2>1 DEF FindProfileCode
      <4> QED BY <4>1, <4>2
    <3>2. CodesOf(dtcs)' = CodesOf(dtcs)
        BY <1>0, <3>1, Marked
    <3> QED BY <3>2 DEF CodesOf
  <2>2. CASE ~(todo # <<>> /\ Listed(Head(todo)))
      BY <1>3, <2>2 DEF FindProfileCode
  <2> QED BY <2>1, <2>2
<1>4. CASE PostClear \/ Mode04
    BY <1>4 DEF PostClear, Mode04, clearDTCs
<1>5. ASSUME NEW c \in Faults, FindFault(c)
      PROVE  CodesOf(dtcs) \subseteq CodesOf(dtcs')
  <2>1. CASE Listed(c)
    <3>1. c \in Codes /\ MarkFirst(c, TRUE) /\ TRUE \in BOOLEAN
        BY <1>5, <2>1, TroubleCodesAssumption DEF FindFault
    <3>2. CodesOf(dtcs)' = CodesOf(dtcs)
        BY <1>0, <3>1, Marked
    <3> QED BY <3>2 DEF CodesOf
  <2>2. CASE ~Listed(c)
      BY <1>5, <2>2 DEF FindFault
  <2> QED BY <2>1, <2>2
<1>6. CASE PushProfileCode \/ PushFault
  <2>1. PICK c \in Codes, p \in BOOLEAN : PushBack(c, p)
    <3>1. CASE PushProfileCode
      <4>1. Head(todo) \in Codes
          BY <1>0, <3>1 DEF PushProfileCode, TypeOK
      <4> QED BY <3>1, <4>1 DEF PushProfileCode
    <3>2. CASE PushFault
        BY <1>0, <3>2, TroubleCodesAssumption DEF PushFault, TypeOK
    <3> QED BY <1>6, <3>1, <3>2
  <2>2. CodesOf(dtcs)' = CodesOf(dtcs) \cup {c}
      BY <1>0, <2>1, Pushed
  <2> QED BY <2>2 DEF CodesOf
<1> QED BY <1>1, <1>2, <1>3, <1>4, <1>5, <1>6 DEF Next

\* Applying a profile never removes a code that is not the profile's.
THEOREM OthersStay == Spec => OthersKept
  BY Invariance, StepKeepsOthers, PTL DEF Spec, OthersKept
=============================================================================
