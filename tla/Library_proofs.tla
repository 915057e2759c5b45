---------------------------- MODULE Library_proofs ----------------------------
(***************************************************************************)
(* Proofs about three classes of Library, each from its own specification: *)
(* AccessControl for all users, passwords, limits and lockout times,       *)
(* Database for any vehicles, codes and number of saves, and Replay for    *)
(* any frames, recordings and counts.                                      *)
(***************************************************************************)
EXTENDS AccessControl, Database, Replay, SequenceTheorems, WellFoundedInduction, TLAPS

-----------------------------------------------------------------------------
(* AccessControl.  LockoutInTime needs to know that the counter of the code *)
(* is never behind the wrong passwords that count (NotBehind).              *)

NotBehind == \A u \in Users : tries[u] <= failed[u]

AccessIInv == AccessTypeOK /\ NotBehind

LEMMA AccessInitIInv == AccessInit => AccessIInv
<1> SUFFICES ASSUME AccessInit PROVE AccessIInv
    OBVIOUS
<1>1. (CHOOSE p \in Passwords : TRUE) \in Passwords
    BY AccessAssumption
<1>2. AccessTypeOK
    BY <1>1, AccessAssumption DEF AccessInit, AccessTypeOK
<1>3. NotBehind
  <2>1. tries = [u \in Users |-> 0] /\ failed = [u \in Users |-> 0]
      BY DEF AccessInit
  <2>2. ASSUME NEW u \in Users PROVE tries[u] <= failed[u]
    <3>1. tries[u] = 0 /\ failed[u] = 0
        BY <2>1
    <3> QED BY <3>1, SMT
  <2> QED BY <2>2 DEF NotBehind
<1> QED BY <1>2, <1>3 DEF AccessIInv

LEMMA AccessNextIInv == AccessIInv /\ [AccessNext]_accessVars => AccessIInv'
<1> SUFFICES ASSUME AccessIInv, [AccessNext]_accessVars PROVE AccessIInv'
    OBVIOUS
<1> USE AccessAssumption DEF AccessIInv, AccessTypeOK, NotBehind
<1>1. ASSUME NEW u \in Users, NEW p \in Passwords, LetIn(u, p) PROVE AccessIInv'
    BY <1>1 DEF LetIn
<1>2. ASSUME NEW u \in Users, NEW p \in Passwords, Refuse(u, p) PROVE AccessIInv'
  <2>1. failed' = [failed EXCEPT ![u] = @ + 1] /\ failed' \in [Users -> Nat]
      BY <1>2 DEF Refuse
  <2>2. CASE failed'[u] >= max_attempts
    <3>1. /\ locked_for' = [locked_for EXCEPT ![u] = Lockout]
          /\ tries' = [tries EXCEPT ![u] = 0]
        BY <1>2, <2>2 DEF Refuse
    <3> QED BY <1>2, <2>1, <3>1 DEF Refuse
  <2>3. CASE ~(failed'[u] >= max_attempts)
    <3>1. tries' = [tries EXCEPT ![u] = @ + 1] /\ UNCHANGED locked_for
        BY <1>2, <2>3 DEF Refuse
    <3> QED BY <1>2, <2>1, <3>1 DEF Refuse
  <2> QED BY <2>2, <2>3
<1>3. ASSUME NEW u \in Users, NEW p \in Passwords, addUser(u, p) PROVE AccessIInv'
    BY <1>3 DEF addUser
<1>4. ASSUME NEW u \in Users, removeUser(u) PROVE AccessIInv'
    BY <1>4 DEF removeUser
<1>5. ASSUME NEW u \in Users, lockoutUser(u) PROVE AccessIInv'
    BY <1>5 DEF lockoutUser
<1>6. ASSUME NEW u \in Users, unlockUser(u) PROVE AccessIInv'
    BY <1>6 DEF unlockUser
<1>7. ASSUME NEW n \in AttemptLimits, setMaxAttempts(n) PROVE AccessIInv'
    BY <1>7 DEF setMaxAttempts
<1>8. CASE AccessClock
    BY <1>8 DEF AccessClock
<1>9. CASE UNCHANGED accessVars
    BY <1>9 DEF accessVars
<1> QED BY <1>1, <1>2, <1>3, <1>4, <1>5, <1>6, <1>7, <1>8, <1>9 DEF AccessNext

THEOREM AccessInvariance == AccessSpec => []AccessIInv
  BY AccessInitIInv, AccessNextIInv, PTL DEF AccessSpec

\* Every variable keeps its type.
THEOREM AccessTypeCorrect == AccessSpec => []AccessTypeOK
<1>1. AccessIInv => AccessTypeOK
    BY DEF AccessIInv
<1> QED BY <1>1, AccessInvariance, PTL

\* What LockoutInTime says of one step.
WrongPasswordCounts ==
  \A u \in Users :
    failed'[u] > failed[u] =>
      \/ locked_for'[u] = Lockout
      \/ tries'[u] = tries[u] + 1 /\ tries'[u] < max_attempts

LEMMA StepCounts == AccessIInv /\ [AccessNext]_accessVars => [WrongPasswordCounts]_accessVars
<1> SUFFICES ASSUME AccessIInv, AccessNext, NEW v \in Users, failed'[v] > failed[v]
             PROVE  \/ locked_for'[v] = Lockout
                    \/ tries'[v] = tries[v] + 1 /\ tries'[v] < max_attempts
    BY DEF WrongPasswordCounts
<1> USE AccessAssumption DEF AccessIInv, AccessTypeOK, NotBehind
<1>1. PICK u \in Users, p \in Passwords : Refuse(u, p)
  <2>1. ASSUME NEW u \in Users, NEW p \in Passwords, LetIn(u, p) \/ addUser(u, p)
        PROVE  FALSE
      BY <2>1 DEF LetIn, addUser
  <2>2. ASSUME NEW u \in Users, removeUser(u) \/ lockoutUser(u) \/ unlockUser(u)
        PROVE  FALSE
      BY <2>2 DEF removeUser, lockoutUser, unlockUser
  <2>3. ASSUME NEW n \in AttemptLimits, setMaxAttempts(n) PROVE FALSE
      BY <2>3 DEF setMaxAttempts
  <2>4. CASE AccessClock
      BY <2>4 DEF AccessClock
  <2> QED BY <2>1, <2>2, <2>3, <2>4 DEF AccessNext
<1>2. failed' = [failed EXCEPT ![u] = @ + 1] /\ u = v
    BY <1>1 DEF Refuse
<1>3. CASE failed'[u] >= max_attempts
    BY <1>1, <1>2, <1>3 DEF Refuse
<1>4. CASE ~(failed'[u] >= max_attempts)
  <2>1. tries' = [tries EXCEPT ![u] = @ + 1] /\ failed'[u] < max_attempts
      BY <1>1, <1>2, <1>4 DEF Refuse
  <2> QED BY <1>2, <2>1
<1> QED BY <1>3, <1>4

\* A wrong password locks the user out in full, or is one of fewer than the
\* limit, whatever the limits, the users and the lockout time.
THEOREM LockoutHolds == AccessSpec => LockoutInTime
  BY AccessInvariance, StepCounts, PTL DEF AccessSpec, LockoutInTime, WrongPasswordCounts

-----------------------------------------------------------------------------
(* Database.  SavedWhenTrue is not inductive: a call that returns TRUE has  *)
(* looked at no row, so what is stored is known only from the inserts       *)
(* before it (Underway).                                                    *)

DbTypeOK ==
  /\ handle \in {"null", "dead", "live"} /\ db_is_open \in BOOLEAN /\ migrated \in BOOLEAN
  /\ table \in [Vins -> Seq(Codes)] /\ vin \in Vins
  /\ codes \in Seq(Codes) /\ before \in Seq(Codes)
  /\ step \in 0 .. Len(codes) + 1
  /\ result \in Results /\ saves \in Nat

Underway == step > 0 => result = "none" /\ StoredUpTo(step - 1)

Prefixed == \E n \in 0..Len(codes) : StoredUpTo(n)
WholeWhenTrue    == result = "true" => StoredUpTo(Len(codes))

DbIInv == DbTypeOK /\ Underway /\ Prefixed /\ WholeWhenTrue

\* One more code behind a prefix of the codes, whatever stands before it.
LEMMA PrefixGrows ==
  \A b, c \in Seq(Codes) : \A i \in 1 .. Len(c) :
    /\ c[i] \in Codes
    /\ Append(SubSeq(c, 1, i - 1), c[i]) = SubSeq(c, 1, i)
    /\ Append(b \o SubSeq(c, 1, i - 1), c[i]) = b \o SubSeq(c, 1, i)
<1> TAKE b, c \in Seq(Codes)
<1> TAKE i \in 1 .. Len(c)
<1> DEFINE p == SubSeq(c, 1, i - 1)
<1>1. c[i] \in Codes /\ Len(c) \in Nat
    BY ElementOfSeq, LenProperties
<1>2. p \in Seq(Codes)
  <2>1. \A j \in 1 .. (i - 1) : c[j] \in Codes
      BY <1>1, ElementOfSeq
  <2> HIDE DEF p
  <2>2. SubSeq(c, 1, i - 1) \in Seq(Codes)
      BY <2>1, SubSeqProperties
  <2> QED BY <2>2 DEF p
<1>3. SubSeq(c, 1, i) = p \o <<c[i]>>
  <2>1. 1 \in 1 .. Len(c) /\ i \in 1 .. Len(c)
      BY <1>1
  <2> QED BY <2>1, SubSeqRecursiveSecond
<1> HIDE DEF p
<1>4. Append(p, c[i]) = SubSeq(c, 1, i)
    BY <1>1, <1>2, <1>3
<1>5. Append(b \o p, c[i]) = b \o Append(p, c[i])
  <2>1. \A x \in Codes : Append(b \o p, x) = b \o Append(p, x)
      BY ONLY <1>2, b \in Seq(Codes), SMTT(30)
  <2> QED BY <1>1, <2>1
<1> QED BY <1>1, <1>2, <1>4, <1>5 DEF p

\* Nothing or the old rows: the first statement has stored no code yet.
LEMMA NothingStored ==
  ASSUME NEW S, NEW b \in Seq(S), NEW c, NEW rows, rows = <<>> \/ rows = b
  PROVE  rows \in {SubSeq(c, 1, 0), b \o SubSeq(c, 1, 0)}
<1>1. SubSeq(c, 1, 0) = <<>>
    BY SubSeqEmpty
<1>2. b \o <<>> = b
    BY ConcatEmptySeq
<1> QED BY <1>1, <1>2

LEMMA DbInitIInv == DbInit => DbIInv
<1> SUFFICES ASSUME DbInit PROVE DbIInv
    OBVIOUS
<1>1. (CHOOSE v \in Vins : TRUE) \in Vins
    BY DatabaseAssumption
<1>2. <<>> \in Seq(Codes) /\ Len(<<>>) = 0
    BY EmptySeq
<1>3. codes = <<>> /\ before = <<>> /\ step = 0 /\ result = "none" /\ vin \in Vins
      /\ table = [v \in Vins |-> <<>>]
    BY <1>1 DEF DbInit
<1>4. DbTypeOK
  <2>1. step \in 0 .. Len(codes) + 1
      BY <1>2, <1>3
  <2>2. table \in [Vins -> Seq(Codes)]
      BY <1>2, <1>3
  <2>3. codes \in Seq(Codes) /\ before \in Seq(Codes)
      BY <1>2, <1>3
  <2> QED BY <1>3, <2>1, <2>2, <2>3 DEF DbInit, DbTypeOK, Results
<1>5. StoredUpTo(0)
  <2>1. table[vin] = <<>>
      BY <1>3
  <2>2. table[vin] \in {SubSeq(codes, 1, 0), before \o SubSeq(codes, 1, 0)}
      BY <1>2, <1>3, <2>1, NothingStored
  <2> QED BY <2>2 DEF StoredUpTo, loadDTCs
<1>6. Prefixed
    BY <1>2, <1>5, <1>3 DEF Prefixed
<1> QED BY <1>4, <1>3, <1>6 DEF DbIInv, Underway, WholeWhenTrue

\* A step that leaves the rows and the call alone keeps the invariant.
LEMMA StoreUnchanged ==
  ASSUME DbIInv, UNCHANGED <<table, vin, codes, before>>
  PROVE  /\ \A n \in 0..Len(codes) : StoredUpTo(n) <=> StoredUpTo(n)'
         /\ Prefixed'
  BY DEF DbIInv, Prefixed, StoredUpTo, loadDTCs

LEMMA DbNextIInv == DbIInv /\ [DbNext]_dbVars => DbIInv'
<1> SUFFICES ASSUME DbIInv, [DbNext]_dbVars PROVE DbIInv'
    OBVIOUS
<1>0. DbTypeOK /\ Underway /\ Prefixed /\ WholeWhenTrue /\ Len(codes) \in Nat
    BY LenProperties DEF DbIInv, DbTypeOK
<1>1. CASE dbOpen \/ dbClose \/ runMigrations \/ UNCHANGED dbVars
  <2>1. UNCHANGED <<table, step, vin, codes, result, before, saves>>
      BY <1>1 DEF dbOpen, dbClose, runMigrations, dbVars
  <2>2. DbTypeOK'
      BY <1>0, <1>1, <2>1 DEF DbTypeOK, dbOpen, dbClose, runMigrations, dbVars
  <2>3. Underway' /\ WholeWhenTrue' /\ Prefixed'
      BY <1>0, <2>1 DEF Underway, WholeWhenTrue, Prefixed, StoredUpTo, loadDTCs
  <2> QED BY <2>2, <2>3 DEF DbIInv
<1>2. CASE DbCrash
  <2>1. /\ step' = 0
        /\ result' # "true" \/ result' = result
        /\ UNCHANGED <<table, vin, codes, before>>
      BY <1>2 DEF DbCrash
  <2>2. DbTypeOK'
    <3>1. step' \in 0 .. Len(codes') + 1
        BY <1>0, <2>1
    <3> QED BY <1>0, <1>2, <3>1 DEF DbTypeOK, DbCrash, Results
  <2>3. Prefixed'
      BY <2>1, StoreUnchanged
  <2>4. WholeWhenTrue'
      BY <1>0, <2>1 DEF WholeWhenTrue, StoredUpTo, loadDTCs
  <2>5. Underway'
      BY <1>2 DEF DbCrash, Underway
  <2> QED BY <2>2, <2>3, <2>4, <2>5 DEF DbIInv
<1>3. ASSUME NEW v \in Vins, NEW list \in CodeLists, SaveDelete(v, list) PROVE DbIInv'
  <2>1. /\ step' = 1 /\ vin' = v /\ codes' = list /\ before' = table[v] /\ result' = "none"
        /\ table' = [table EXCEPT ![v] = <<>>] \/ table' = table
        /\ saves' = saves + 1 /\ UNCHANGED <<handle, db_is_open, migrated>>
      BY <1>3 DEF SaveDelete
  <2>2. list \in Seq(Codes) /\ Len(list) \in Nat /\ <<>> \in Seq(Codes)
      BY DatabaseAssumption, LenProperties, EmptySeq
  <2>3. DbTypeOK'
    <3>1. step' \in 0 .. Len(codes') + 1
        BY <2>1, <2>2
    <3>2. table' \in [Vins -> Seq(Codes)] /\ before' \in Seq(Codes)
        BY <1>0, <2>1, <2>2 DEF DbTypeOK
    <3> QED BY <1>0, <2>1, <2>2, <3>1, <3>2 DEF DbTypeOK, Results
  <2>4. table'[vin'] = <<>> \/ table'[vin'] = before'
      BY <1>0, <2>1 DEF DbTypeOK
  <2>5. table'[vin'] \in {SubSeq(codes', 1, 0), before' \o SubSeq(codes', 1, 0)}
    <3>1. before' \in Seq(Codes)
        BY <2>3 DEF DbTypeOK
    <3> QED BY <2>4, <3>1, NothingStored
  <2>6. Prefixed'
    <3>1. 0 \in 0 .. Len(codes')
        BY <2>1, <2>2
    <3> QED BY <2>5, <3>1 DEF Prefixed, StoredUpTo, loadDTCs
  <2>7. Underway' /\ WholeWhenTrue'
    <3>1. step' - 1 = 0
        BY <2>1
    <3> QED BY <2>1, <2>5, <3>1 DEF Underway, WholeWhenTrue, StoredUpTo, loadDTCs
  <2> QED BY <2>3, <2>6, <2>7 DEF DbIInv
<1>4. CASE SaveInsert
  <2>0. /\ step \in 1 .. Len(codes)
        /\ UNCHANGED <<handle, db_is_open, migrated, vin, codes, before, saves>>
      BY <1>0, <1>4, LenProperties DEF SaveInsert, DbTypeOK
  <2>1. CASE step' = 0 /\ result' = "false" /\ UNCHANGED table
    <3>1. DbTypeOK'
        BY <1>0, <2>0, <2>1 DEF DbTypeOK, Results
    <3>2. Prefixed'
        BY <2>0, <2>1, StoreUnchanged
    <3>3. Underway' /\ WholeWhenTrue'
        BY <2>1 DEF Underway, WholeWhenTrue
    <3> QED BY <3>1, <3>2, <3>3 DEF DbIInv
  <2>2. CASE /\ table' = [table EXCEPT ![vin] = Append(@, codes[step])]
             /\ step' = step + 1 /\ UNCHANGED result
    <3>1. /\ codes[step] \in Codes
          /\ Append(SubSeq(codes, 1, step - 1), codes[step]) = SubSeq(codes, 1, step)
          /\ Append(before \o SubSeq(codes, 1, step - 1), codes[step])
               = before \o SubSeq(codes, 1, step)
      <4>1. codes \in Seq(Codes) /\ before \in Seq(Codes) /\ step \in 1 .. Len(codes)
          BY <1>0, <2>0 DEF DbTypeOK
      <4> QED BY ONLY <4>1, PrefixGrows, Zenon
    <3>2. table'[vin] = Append(table[vin], codes[step])
        BY <1>0, <2>2 DEF DbTypeOK
    <3>3. result = "none" /\ StoredUpTo(step - 1)
        BY <1>0, <2>0 DEF Underway
    <3>4. table'[vin] \in {SubSeq(codes, 1, step), before \o SubSeq(codes, 1, step)}
      <4>1. table[vin] = SubSeq(codes, 1, step - 1)
              \/ table[vin] = before \o SubSeq(codes, 1, step - 1)
          BY <3>3 DEF StoredUpTo, loadDTCs
      <4>2. table'[vin] = SubSeq(codes, 1, step) \/ table'[vin] = before \o SubSeq(codes, 1, step)
          BY <3>1, <3>2, <4>1
      <4> QED BY <4>2
    <3>5. DbTypeOK'
      <4>1. table' \in [Vins -> Seq(Codes)]
        <5>1. Append(table[vin], codes[step]) \in Seq(Codes)
            BY <1>0, <3>1 DEF DbTypeOK
        <5> QED BY <1>0, <2>2, <5>1 DEF DbTypeOK
      <4>2. step' \in 0 .. Len(codes) + 1
          BY <1>0, <2>0, <2>2
      <4> QED BY <1>0, <2>0, <2>2, <4>1, <4>2 DEF DbTypeOK
    <3>6. step' - 1 = step /\ result' = "none" /\ step \in 0 .. Len(codes)
        BY <2>0, <2>2, <3>3
    <3>7. Underway'
        BY <2>0, <3>4, <3>6 DEF Underway, StoredUpTo, loadDTCs
    <3>8. WholeWhenTrue' /\ Prefixed'
        BY <2>0, <3>4, <3>6 DEF WholeWhenTrue, Prefixed, StoredUpTo, loadDTCs
    <3> QED BY <3>5, <3>7, <3>8 DEF DbIInv
  <2> QED BY <1>4, <2>1, <2>2 DEF SaveInsert
<1>5. CASE SaveDone
  <2>1. /\ step = Len(codes) + 1 /\ step' = 0 /\ result' = "true"
        /\ UNCHANGED <<handle, db_is_open, migrated, table, vin, codes, before, saves>>
      BY <1>5 DEF SaveDone
  <2>2. StoredUpTo(Len(codes))
    <3>1. step > 0 /\ step - 1 = Len(codes)
        BY <1>0, <2>1
    <3> QED BY <1>0, <3>1 DEF Underway
  <2>3. DbTypeOK'
      BY <1>0, <2>1 DEF DbTypeOK, Results
  <2>4. Prefixed'
      BY <1>0, <2>1, StoreUnchanged
  <2>5. WholeWhenTrue'
      BY <2>1, <2>2 DEF WholeWhenTrue, StoredUpTo, loadDTCs
  <2>6. Underway'
      BY <2>1 DEF Underway
  <2> QED BY <2>3, <2>4, <2>5, <2>6 DEF DbIInv
<1> QED BY <1>1, <1>2, <1>3, <1>4, <1>5 DEF DbNext

LEMMA DbInvariance == DbSpec => []DbIInv
  BY DbInitIInv, DbNextIInv, PTL DEF DbSpec

\* For any codes, vehicles and failures of single statements or of the whole
\* program: a saveDTCs that returned TRUE has stored all its codes, any other
\* a prefix, behind nothing but the rows a failed DELETE left.
THEOREM SavesHonest == DbSpec => []SavedWhenTrue
  BY DbInvariance, PTL DEF DbIInv, WholeWhenTrue, Prefixed, SavedWhenTrue

-----------------------------------------------------------------------------
(* Replay.  What a replay has handed out are the frames between the position *)
(* it began or went on at and the present one (Positioned); a recording is   *)
(* followed line by line (Copied).                                           *)

Shown == Frames \cup {Garbled}

ReplayTypeOK ==
  /\ frames \in Seq(Shown) /\ replay_position \in Nat /\ replaying \in BOOLEAN
  /\ replayed \in Seq(Shown) /\ taken_from \in Nat /\ wrapped \in BOOLEAN
  /\ \A p \in DOMAIN disk : disk[p] \in Seq(Lines)
  /\ heard \in Seq(Frames)

\* A file loaded meanwhile may be shorter than the position: then the replay
\* ends with nothing handed out, and the position falls back.
Positioned ==
  ~wrapped => /\ replaying => taken_from <= replay_position
              /\ replay_position > taken_from => replay_position <= Len(frames)
              /\ Len(replayed) = (IF replay_position > taken_from
                                  THEN replay_position - taken_from ELSE 0)
              /\ \A i \in 1 .. Len(replayed) : replayed[i] = frames[taken_from + i]

Copied ==
  target # NoFile /\ ~restarted =>
    /\ target \in DOMAIN disk /\ ~failed_stream
    /\ Len(disk[target]) = Len(heard)
    /\ \A i \in 1 .. Len(heard) : disk[target][i].frame = heard[i]

ReplayIInv == ReplayTypeOK /\ Positioned /\ Copied

\* A set of naturals that is not empty has a least element.
LEMMA Least ==
  ASSUME NEW T, T \subseteq Nat, T # {}
  PROVE  \E m \in T : \A n \in T : m <= n
<1> DEFINE R == OpToRel(<, Nat)
<1>1. IsWellFoundedOn(R, Nat)
    BY NatLessThanWellFounded
<1>2. \A x, y \in Nat : x < y => <<x, y>> \in R
    BY DEF OpToRel
<1> HIDE DEF R
<1>3. PICK m \in T : \A y \in T : ~(<<y, m>> \in R)
    BY <1>1, WFMin
<1>4. ASSUME NEW n \in T PROVE m <= n
  <2>1. m \in Nat /\ n \in Nat /\ ~(n < m)
      BY <1>2, <1>3
  <2> QED BY <2>1
<1> QED BY <1>4

\* Whatever lines are loaded, frames_ holds what loadFile makes of those before
\* the first bad one.
LEMMA LoadedTypes ==
  ASSUME NEW lines \in Seq(Lines), loadFile(lines)
  PROVE  frames' \in Seq(Shown)
<1> DEFINE bad == {i \in DOMAIN lines : lines[i].kind = "bad"}
           n == IF bad = {} THEN Len(lines)
                ELSE (CHOOSE i \in bad : \A j \in bad : i <= j) - 1
<1>1. frames' = [i \in 1 .. n |-> Parsed(lines[i])]
    BY DEF loadFile
<1>2. n \in 0 .. Len(lines)
  <2>1. bad \subseteq 1 .. Len(lines) /\ bad \subseteq Nat /\ Len(lines) \in Nat
      OBVIOUS
  <2>2. CASE bad = {}
      BY <2>1, <2>2
  <2>3. CASE bad # {}
    <3> HIDE DEF bad
    <3>1. \E i \in bad : \A j \in bad : i <= j
        BY <2>1, <2>3, Least
    <3>2. (CHOOSE i \in bad : \A j \in bad : i <= j) \in bad
        BY <3>1
    <3>3. \A i \in bad : i - 1 \in 0 .. Len(lines)
        BY <2>1
    <3> QED BY <2>3, <3>2, <3>3
  <2> QED BY <2>2, <2>3
<1> HIDE DEF n
<1>3. ASSUME NEW i \in 1 .. n PROVE Parsed(lines[i]) \in Shown
  <2>1. lines[i] \in Lines
      BY <1>2
  <2> QED BY <2>1 DEF Lines, Parsed, Shown
<1> QED BY <1>1, <1>2, <1>3

\* What is handed out are the frames from the position to the new one, which is
\* at most behind the last; without a wrap it does not fall back, unless it was
\* behind the last already.
LEMMA NextFrames ==
  ASSUME ReplayTypeOK, NEW count \in Nat, getNextFrames(count)
  PROVE  /\ replay_position' \in Nat /\ replay_position' <= Len(frames)
         /\ replaying /\ replaying' = (replay_position' < Len(frames))
         /\ replaying' \in BOOLEAN /\ wrapped' \in BOOLEAN /\ replayed' \in Seq(Shown)
         /\ UNCHANGED <<frames, taken_from, recVars>>
         /\ ~wrapped' =>
              /\ ~wrapped
              /\ replayed' = replayed \o SubSeq(frames, replay_position + 1, replay_position')
              /\ replay_position <= Len(frames) => replay_position <= replay_position'
              /\ replay_position > Len(frames) => replay_position' = Len(frames)
<1> DEFINE sum == (replay_position + count) % SizeMax
           end == IF sum < Len(frames) THEN sum ELSE Len(frames)
<1>1. /\ replaying /\ replay_position' = end /\ replaying' = (end < Len(frames))
      /\ wrapped' = (wrapped \/ replay_position + count >= SizeMax)
      /\ replayed' = IF wrapped' THEN replayed
                     ELSE replayed \o SubSeq(frames, replay_position + 1, end)
      /\ UNCHANGED <<frames, taken_from, recVars>>
    BY DEF getNextFrames
<1>2. /\ replay_position \in Nat /\ Len(frames) \in Nat /\ SizeMax \in Nat \ {0}
      /\ frames \in Seq(Shown) /\ replayed \in Seq(Shown) /\ wrapped \in BOOLEAN
    BY ReplayAssumption DEF ReplayTypeOK
<1>3. sum \in Nat /\ (replay_position + count < SizeMax => sum = replay_position + count)
  <2> PICK x \in Nat : x = replay_position + count
      BY <1>2
  <2> PICK m \in Nat \ {0} : m = SizeMax
      BY <1>2
  <2>1. x % m \in Nat /\ (x < m => x % m = x)
      OBVIOUS
  <2> QED BY <2>1
<1> HIDE DEF sum
<1>4. end \in Nat /\ end <= Len(frames)
    BY <1>2, <1>3
<1>5. replay_position + count < SizeMax =>
        /\ replay_position <= Len(frames) => replay_position <= end
        /\ replay_position > Len(frames) => end = Len(frames)
    BY <1>2, <1>3
<1> HIDE DEF end
<1>6. SubSeq(frames, replay_position + 1, end) \in Seq(Shown)
  <2>1. replay_position + 1 \in Int /\ end \in Int
      BY <1>2, <1>4
  <2>2. \A i \in replay_position + 1 .. end : frames[i] \in Shown
      BY <1>2, <1>4
  <2> QED BY <1>2, <2>1, <2>2, SubSeqProperties
<1>7. wrapped' \in BOOLEAN
    BY ONLY <1>1, <1>2, Zenon
<1>10. replaying' \in BOOLEAN
  <2>1. (end < Len(frames)) \in BOOLEAN
      BY <1>2, <1>4
  <2> QED BY ONLY <1>1, <2>1, Zenon
<1>8. ~wrapped' => ~wrapped /\ replay_position + count < SizeMax
  <2>1. ~wrapped' => ~wrapped /\ ~(replay_position + count >= SizeMax)
      BY ONLY <1>1, Zenon
  <2> QED BY <1>2, <2>1
<1>9. replayed' \in Seq(Shown)
  <2>1. replayed \o SubSeq(frames, replay_position + 1, end) \in Seq(Shown)
      BY <1>2, <1>6
  <2> QED BY ONLY <1>1, <1>2, <2>1
<1> QED BY <1>1, <1>4, <1>5, <1>7, <1>8, <1>9, <1>10

\* Frames handed out up to the position, followed by those from there to p.
LEMMA HandedOn ==
  ASSUME frames \in Seq(Shown), replayed \in Seq(Shown), taken_from \in Nat,
         replay_position \in Nat, taken_from <= replay_position,
         Len(replayed) = replay_position - taken_from,
         \A i \in 1 .. Len(replayed) : replayed[i] = frames[taken_from + i],
         NEW p \in Nat, replay_position <= p, p <= Len(frames)
  PROVE  /\ Len(replayed \o SubSeq(frames, replay_position + 1, p)) = p - taken_from
         /\ \A i \in 1 .. p - taken_from :
              (replayed \o SubSeq(frames, replay_position + 1, p))[i] = frames[taken_from + i]
<1> PICK f, r, a, t : f = frames /\ r = replayed /\ a = replay_position /\ t = taken_from
    OBVIOUS
<1>0. /\ f \in Seq(Shown) /\ r \in Seq(Shown) /\ t \in Nat /\ a \in Nat /\ t <= a /\ a <= p
      /\ p <= Len(f) /\ Len(f) \in Nat /\ Len(r) = a - t
      /\ \A i \in 1 .. Len(r) : r[i] = f[t + i]
    OBVIOUS
<1> PICK q : q = SubSeq(f, a + 1, p)
    OBVIOUS
<1>1. q \in Seq(Shown) /\ Len(q) = p - a /\ \A i \in 1 .. p - a : q[i] = f[a + i]
  <2>1. a + 1 \in Int /\ p \in Int /\ \A i \in a + 1 .. p : f[i] \in Shown
      OBVIOUS
  <2>2. /\ q \in Seq(Shown) /\ Len(q) = (IF a + 1 <= p THEN p - (a + 1) + 1 ELSE 0)
        /\ \A i \in 1 .. p - (a + 1) + 1 : q[i] = f[(a + 1) + i - 1]
      BY <2>1, SubSeqProperties
  <2>3. p - (a + 1) + 1 = p - a /\ \A i \in Int : (a + 1) + i - 1 = a + i
      OBVIOUS
  <2>4. 1 .. p - a \subseteq Int
      OBVIOUS
  <2> QED BY <2>2, <2>3, <2>4
<1>2. /\ Len(r \o q) = Len(r) + Len(q)
      /\ \A i \in 1 .. Len(r) + Len(q) : (r \o q)[i] = IF i <= Len(r) THEN r[i]
                                                      ELSE q[i - Len(r)]
  <2> PICK S : S = Shown
      OBVIOUS
  <2>1. q \in Seq(S) /\ r \in Seq(S)
      BY <1>1
  <2> QED BY ONLY <2>1, ConcatProperties
<1> PICK n, m : n = Len(r) /\ m = Len(q)
    OBVIOUS
<1> PICK c : c = r \o q
    OBVIOUS
<1>3. /\ n \in Int /\ n = a - t /\ m = p - a /\ n + m = p - t /\ Len(c) = n + m
      /\ \A i \in 1 .. n + m : c[i] = IF i <= n THEN r[i] ELSE q[i - n]
  <2>1. Len(c) = n + m /\ \A i \in 1 .. n + m : c[i] = IF i <= n THEN r[i] ELSE q[i - n]
      BY ONLY <1>2, c = r \o q, n = Len(r), m = Len(q), Zenon
  <2>2. n = a - t /\ m = p - a /\ n \in Int
      BY ONLY <1>0, p \in Nat, <1>1, n = Len(r), m = Len(q)
  <2>3. n + m = p - t
      BY ONLY <1>0, <2>2, p \in Nat
  <2> QED BY ONLY <2>1, <2>2, <2>3
<1>4. ASSUME NEW i \in 1 .. p - t PROVE c[i] = f[t + i]
  <2>1. i \in Int /\ i >= 1 /\ i <= p - t
      BY ONLY <1>0, <1>4, p \in Nat
  <2>2. c[i] = IF i <= n THEN r[i] ELSE q[i - n]
      BY ONLY <1>3, <1>4
  <2>3. CASE i <= n
    <3>1. i \in 1 .. Len(r)
        BY ONLY <1>3, <2>1, <2>3, n = Len(r)
    <3> QED BY ONLY <1>0, <2>2, <2>3, <3>1
  <2>4. CASE ~(i <= n)
    <3>1. i - n \in 1 .. p - a /\ a + (i - n) = t + i
        BY ONLY <1>0, <1>3, <2>1, <2>4, p \in Nat
    <3> QED BY ONLY <1>1, <2>2, <2>4, <3>1
  <2> QED BY ONLY <2>3, <2>4
<1>5. Len(r \o q) = p - t /\ \A i \in 1 .. p - t : (r \o q)[i] = f[t + i]
    BY ONLY <1>3, <1>4, c = r \o q
<1> QED BY ONLY <1>5, q = SubSeq(f, a + 1, p), f = frames, r = replayed, a = replay_position,
                t = taken_from

\* Without a wrap, what was handed out grows with the position.
LEMMA NextPositioned ==
  ASSUME ReplayTypeOK, Positioned, NEW count \in Nat, getNextFrames(count)
  PROVE  Positioned'
<1> SUFFICES ASSUME ~wrapped' PROVE Positioned'
    BY DEF Positioned
<1> PICK p \in Nat : p = replay_position'
    BY NextFrames
<1>1. /\ p <= Len(frames) /\ replaying /\ ~wrapped
      /\ replayed' = replayed \o SubSeq(frames, replay_position + 1, p)
      /\ replay_position <= Len(frames) => replay_position <= p
      /\ frames' = frames /\ taken_from' = taken_from
    BY NextFrames
<1>2. /\ frames \in Seq(Shown) /\ replayed \in Seq(Shown) /\ Len(frames) \in Nat
      /\ replay_position \in Nat /\ taken_from \in Nat /\ Len(replayed) \in Nat
    BY DEF ReplayTypeOK
<1>3. /\ taken_from <= replay_position /\ Len(replayed) = replay_position - taken_from
      /\ replay_position > taken_from => replay_position <= Len(frames)
      /\ \A i \in 1 .. Len(replayed) : replayed[i] = frames[taken_from + i]
    BY <1>1, <1>2 DEF Positioned
<1>4. CASE replay_position <= p
  <2>1. /\ Len(replayed \o SubSeq(frames, replay_position + 1, p)) = p - taken_from
        /\ \A i \in 1 .. p - taken_from :
             (replayed \o SubSeq(frames, replay_position + 1, p))[i] = frames[taken_from + i]
    <3>1. \A i \in 1 .. Len(replayed) : replayed[i] = frames[taken_from + i]
        BY <1>3
    <3>2. /\ taken_from <= replay_position /\ p <= Len(frames)
          /\ Len(replayed) = replay_position - taken_from
        BY <1>1, <1>3
    <3> QED BY ONLY <1>2, <1>4, <3>1, <3>2, p \in Nat, HandedOn
  <2>2. p > taken_from \/ p = taken_from
      BY <1>2, <1>3, <1>4
  <2>3. /\ Len(replayed') = p - taken_from
        /\ \A i \in 1 .. p - taken_from : replayed'[i] = frames[taken_from + i]
      BY ONLY <1>1, <2>1
  <2>4. /\ taken_from <= p
        /\ Len(replayed') = (IF p > taken_from THEN p - taken_from ELSE 0)
        /\ \A i \in 1 .. Len(replayed') : replayed'[i] = frames[taken_from + i]
      BY ONLY <1>2, <2>2, <2>3, p \in Nat
  <2> QED BY ONLY <1>1, <2>4, p = replay_position' DEF Positioned
<1>5. CASE p < replay_position
  <2>1. replay_position > Len(frames) /\ replay_position = taken_from /\ Len(replayed) = 0
      BY <1>1, <1>2, <1>3, <1>5
  <2>2. SubSeq(frames, replay_position + 1, p) = <<>>
    <3>1. replay_position + 1 \in Int /\ p \in Int /\ p < replay_position + 1
        BY <1>2, <1>5
    <3> QED BY <3>1, SubSeqEmpty
  <2>3. replayed' = replayed /\ Len(replayed') = 0
      BY <1>1, <1>2, <2>1, <2>2, ConcatEmptySeq
  <2>4. ~replaying'
    <3>1. p = Len(frames) /\ replaying' = (p < Len(frames))
        BY <2>1, NextFrames
    <3>2. ~(p < Len(frames))
        BY <1>2, <3>1
    <3> QED BY ONLY <3>1, <3>2, Zenon
  <2>5. p < taken_from
      BY <1>2, <1>5, <2>1
  <2> QED BY <1>1, <1>2, <2>3, <2>4, <2>5 DEF Positioned
<1> QED BY <1>2, <1>4, <1>5

LEMMA ReplayInitIInv == ReplayInit => ReplayIInv
<1> SUFFICES ASSUME ReplayInit PROVE ReplayIInv
    OBVIOUS
<1>1. ReplayTypeOK
  <2>1. DOMAIN disk = {} /\ frames = <<>> /\ replayed = <<>> /\ heard = <<>>
      BY DEF ReplayInit
  <2>2. /\ replay_position \in Nat /\ replaying \in BOOLEAN /\ taken_from \in Nat
        /\ wrapped \in BOOLEAN
      BY DEF ReplayInit
  <2>3. \A p \in DOMAIN disk : disk[p] \in Seq(Lines)
      BY <2>1
  <2>4. <<>> \in Seq(Shown) /\ <<>> \in Seq(Frames)
      OBVIOUS
  <2> QED BY ONLY <2>1, <2>2, <2>3, <2>4 DEF ReplayTypeOK
<1>2. Positioned
    BY DEF ReplayInit, Positioned
<1>3. Copied
    BY DEF ReplayInit, Copied
<1> QED BY <1>1, <1>2, <1>3 DEF ReplayIInv

LEMMA ReplayNextIInv == ReplayIInv /\ [ReplayNext]_replayVars => ReplayIInv'
<1> SUFFICES ASSUME ReplayIInv, [ReplayNext]_replayVars PROVE ReplayIInv'
    OBVIOUS
<1>0. ReplayTypeOK /\ Positioned /\ Copied /\ frames \in Seq(Shown) /\ Len(frames) \in Nat
    BY DEF ReplayIInv, ReplayTypeOK
\* Steps that leave the recordings alone, and those that leave the replay alone.
<1>1. ASSUME UNCHANGED recVars PROVE Copied'
    BY <1>0, <1>1 DEF Copied, recVars
<1>2. ASSUME UNCHANGED playVars PROVE Positioned'
    BY <1>0, <1>2 DEF Positioned, playVars
<1>3. ASSUME NEW p \in Paths, startRecording(p) PROVE ReplayIInv'
  <2>1. UNCHANGED playVars
      BY <1>3 DEF startRecording
  <2>2. CASE target # NoFile
    <3>1. /\ restarted' = TRUE /\ UNCHANGED <<target, disk, heard>>
        BY <1>3, <2>2 DEF startRecording
    <3> QED BY <1>0, <1>2, <2>1, <3>1 DEF ReplayIInv, ReplayTypeOK, Copied, playVars
  <2>3. CASE target = NoFile
    <3> PICK opens \in BOOLEAN :
               /\ failed_stream' = ~opens
               /\ target' = IF opens THEN p ELSE NoFile
               /\ disk' = IF opens
                            THEN [r \in {p} \cup DOMAIN disk |-> IF r = p THEN <<>> ELSE disk[r]]
                            ELSE disk
               /\ heard' = IF opens THEN <<>> ELSE heard
        BY <1>3, <2>3 DEF startRecording
    <3>1. CASE opens
      <4>1. /\ target' = p /\ failed_stream' = FALSE /\ heard' = <<>>
            /\ p \in DOMAIN disk' /\ disk'[p] = <<>>
            /\ \A r \in DOMAIN disk' : disk'[r] = <<>> \/ (r \in DOMAIN disk /\ disk'[r] = disk[r])
          BY <3>1
      <4>2. ReplayTypeOK'
          BY <1>0, <2>1, <4>1 DEF ReplayTypeOK, playVars
      <4>3. Copied'
          BY <4>1 DEF Copied
      <4> QED BY <1>2, <2>1, <4>2, <4>3 DEF ReplayIInv
    <3>2. CASE ~opens
        BY <1>0, <1>2, <2>1, <3>2 DEF ReplayIInv, ReplayTypeOK, Copied, playVars
    <3> QED BY <3>1, <3>2
  <2> QED BY <2>2, <2>3
<1>4. ASSUME NEW lines \in Seq(Lines), loadFile(lines) PROVE ReplayIInv'
  <2>1. frames' \in Seq(Shown)
      BY <1>4, LoadedTypes
  <2>2. /\ replayed' = <<>> /\ taken_from' = replay_position /\ wrapped' = FALSE
        /\ UNCHANGED <<replay_position, replaying, recVars>>
      BY <1>4 DEF loadFile
  <2>3. Positioned'
    <3>1. replay_position \in Nat /\ Len(replayed') = 0
        BY <1>0, <2>2 DEF ReplayTypeOK
    <3> QED BY ONLY <2>2, <3>1 DEF Positioned
  <2>4. ReplayTypeOK'
    <3>1. <<>> \in Seq(Shown) /\ FALSE \in BOOLEAN
        OBVIOUS
    <3> QED BY <1>0, <2>1, <2>2, <3>1 DEF ReplayTypeOK, recVars
  <2> QED BY <1>1, <2>2, <2>3, <2>4 DEF ReplayIInv
<1>5. CASE startReplay
  <2>1. /\ replay_position' = 0 /\ replaying' = TRUE /\ replayed' = <<>> /\ taken_from' = 0
        /\ wrapped' = FALSE /\ UNCHANGED <<frames, recVars>>
      BY <1>5 DEF startReplay
  <2>3. Positioned'
    <3>1. Len(replayed') = 0
        BY <2>1
    <3> QED BY ONLY <2>1, <3>1 DEF Positioned
  <2>4. ReplayTypeOK'
    <3>1. <<>> \in Seq(Shown) /\ 0 \in Nat /\ TRUE \in BOOLEAN /\ FALSE \in BOOLEAN
        OBVIOUS
    <3> QED BY <1>0, <2>1, <3>1 DEF ReplayTypeOK, recVars
  <2> QED BY <1>1, <2>1, <2>3, <2>4 DEF ReplayIInv
<1>6. CASE stopReplay
  <2>1. /\ replaying' = FALSE
        /\ UNCHANGED <<frames, replay_position, replayed, taken_from, wrapped, recVars>>
      BY <1>6 DEF stopReplay
  <2> QED BY <1>0, <1>1, <2>1 DEF ReplayIInv, ReplayTypeOK, Positioned, recVars
<1>7. CASE stopRecording
  <2>1. target' = NoFile /\ UNCHANGED <<disk, heard, restarted, playVars>>
      BY <1>7 DEF stopRecording
  <2> QED BY <1>0, <1>2, <2>1 DEF ReplayIInv, ReplayTypeOK, Copied, playVars
<1>8. ASSUME NEW count \in Counts, getNextFrames(count) PROVE ReplayIInv'
  <2>1. count \in Nat
      BY ReplayAssumption
  <2>2. /\ replay_position' \in Nat /\ wrapped' \in BOOLEAN /\ replayed' \in Seq(Shown)
        /\ replaying' = (replay_position' < Len(frames)) /\ replaying' \in BOOLEAN
        /\ UNCHANGED <<frames, taken_from, recVars>>
      BY <1>0, <1>8, <2>1, NextFrames
  <2>3. Positioned'
      BY <1>0, <1>8, <2>1, NextPositioned
  <2>4. ReplayTypeOK'
      BY <1>0, <2>2 DEF ReplayTypeOK, recVars
  <2> QED BY <1>1, <2>2, <2>3, <2>4 DEF ReplayIInv
<1>9. ASSUME NEW f \in Frames, recordFrame(f) PROVE ReplayIInv'
  <2>1. /\ frames' = Append(frames, f) /\ f \in Shown
        /\ UNCHANGED <<replay_position, replaying, replayed, taken_from, wrapped, target,
                       failed_stream, restarted>>
      BY <1>9 DEF recordFrame, Shown
  <2> DEFINE line == [kind |-> "recorded", frame |-> f]
  <2>2. \/ UNCHANGED <<heard, disk>>
        \/ /\ target # NoFile /\ heard' = Append(heard, f)
           /\ failed_stream /\ disk' = disk
        \/ /\ target # NoFile /\ heard' = Append(heard, f)
           /\ ~failed_stream /\ disk' = [disk EXCEPT ![target] = Append(@, line)]
      BY <1>9 DEF recordFrame
  <2>3. Positioned'
    <3> SUFFICES ASSUME ~wrapped PROVE Positioned'
        BY <2>1 DEF Positioned
    <3>1. /\ replaying => taken_from <= replay_position
          /\ replay_position > taken_from => replay_position <= Len(frames)
          /\ Len(replayed) = (IF replay_position > taken_from
                              THEN replay_position - taken_from ELSE 0)
          /\ \A i \in 1 .. Len(replayed) : replayed[i] = frames[taken_from + i]
        BY <1>0 DEF Positioned
    <3>2. /\ replay_position \in Nat /\ taken_from \in Nat /\ frames \in Seq(Shown)
          /\ Len(frames) \in Nat
        BY <1>0 DEF ReplayTypeOK
    <3>3. /\ Len(frames') = Len(frames) + 1
          /\ \A i \in 1 .. Len(frames) : frames'[i] = frames[i]
        BY <2>1, <3>2, AppendProperties
    <3>4. replay_position > taken_from => replay_position <= Len(frames')
        BY ONLY <3>1, <3>2, <3>3
    <3>5. ASSUME NEW i \in 1 .. Len(replayed) PROVE replayed[i] = frames'[taken_from + i]
      <4>1. replay_position > taken_from /\ taken_from + i \in 1 .. Len(frames)
          BY <3>1, <3>2
      <4> QED BY <3>1, <3>3, <4>1
    <3> QED BY <2>1, <3>1, <3>4, <3>5 DEF Positioned
  <2>4. line \in Lines /\ line.frame = f
      BY DEF Lines
  <2> HIDE DEF line
  <2>5. ReplayTypeOK'
    <3>1. frames' \in Seq(Shown)
        BY <1>0, <2>1
    <3>2. heard' \in Seq(Frames)
      <4>1. heard \in Seq(Frames)
          BY <1>0 DEF ReplayTypeOK
      <4> QED BY ONLY <2>2, <4>1, f \in Frames
    <3>3. \A p \in DOMAIN disk' : disk'[p] \in Seq(Lines)
      <4>1. \A p \in DOMAIN disk : disk[p] \in Seq(Lines) /\ Append(disk[p], line) \in Seq(Lines)
          BY <1>0, <2>4 DEF ReplayTypeOK
      <4> QED BY ONLY <2>2, <4>1
    <3> QED BY <1>0, <2>1, <3>1, <3>2, <3>3 DEF ReplayTypeOK
  <2>6. Copied'
    <3> SUFFICES ASSUME target # NoFile, ~restarted
                 PROVE  /\ target \in DOMAIN disk' /\ ~failed_stream
                        /\ Len(disk'[target]) = Len(heard')
                        /\ \A i \in 1 .. Len(heard') : disk'[target][i].frame = heard'[i]
        BY <2>1 DEF Copied
    <3>1. /\ target \in DOMAIN disk /\ ~failed_stream
          /\ Len(disk[target]) = Len(heard)
          /\ \A i \in 1 .. Len(heard) : disk[target][i].frame = heard[i]
        BY <1>0 DEF Copied
    <3>2. CASE UNCHANGED <<heard, disk>>
        BY <3>1, <3>2
    <3>3. CASE /\ heard' = Append(heard, f)
               /\ disk' = [disk EXCEPT ![target] = Append(@, line)]
      <4>1. disk[target] \in Seq(Lines) /\ heard \in Seq(Frames) /\ Len(heard) \in Nat
          BY <1>0, <3>1 DEF ReplayTypeOK
      <4>2. target \in DOMAIN disk' /\ disk'[target] = Append(disk[target], line)
          BY <3>1, <3>3
      <4>3. /\ Len(disk'[target]) = Len(heard) + 1 /\ disk'[target][Len(heard) + 1] = line
            /\ \A i \in 1 .. Len(heard) : disk'[target][i] = disk[target][i]
          BY <2>4, <3>1, <4>1, <4>2, AppendProperties
      <4>4. /\ Len(heard') = Len(heard) + 1 /\ heard'[Len(heard) + 1] = f
            /\ \A i \in 1 .. Len(heard) : heard'[i] = heard[i]
          BY <3>3, <4>1, AppendProperties
      <4>5. \A i \in 1 .. Len(heard) + 1 : i \in 1 .. Len(heard) \/ i = Len(heard) + 1
          BY <4>1
      <4> QED BY <2>4, <3>1, <4>2, <4>3, <4>4, <4>5
    <3> QED BY <2>2, <3>1, <3>2, <3>3
  <2> QED BY <2>3, <2>5, <2>6 DEF ReplayIInv
<1>10. CASE UNCHANGED replayVars
    BY <1>0, <1>1, <1>2, <1>10 DEF ReplayIInv, ReplayTypeOK, replayVars, playVars, recVars
<1>11. \A p \in DOMAIN disk : disk[p] \in Seq(Lines)
    BY <1>0 DEF ReplayTypeOK
<1>12. \A l \in Lines : <<l>> \in Seq(Lines)
    OBVIOUS
<1> QED
    BY <1>3, <1>4, <1>5, <1>6, <1>7, <1>8, <1>9, <1>10, <1>11, <1>12 DEF ReplayNext

LEMMA ReplayInvariance == ReplaySpec => []ReplayIInv
  BY ReplayInitIInv, ReplayNextIInv, PTL DEF ReplaySpec

\* Unless it was started a second time without being stopped, a recording holds
\* the frames heard since its start, however many, and nothing else.
THEOREM RecordingHolds == ReplaySpec => []RecordingComplete
<1>1. ReplayIInv => RecordingComplete
  <2> SUFFICES ASSUME ReplayIInv, target # NoFile, ~restarted
               PROVE  [i \in DOMAIN disk[target] |-> disk[target][i].frame] = heard
      BY DEF RecordingComplete
  <2>1. /\ target \in DOMAIN disk /\ Len(disk[target]) = Len(heard)
        /\ \A i \in 1 .. Len(heard) : disk[target][i].frame = heard[i]
      BY DEF ReplayIInv, Copied
  <2>2. /\ disk[target] \in Seq(Lines) /\ DOMAIN disk[target] = 1 .. Len(heard)
        /\ heard \in Seq(Frames) /\ heard = [i \in 1 .. Len(heard) |-> heard[i]]
      BY <2>1 DEF ReplayIInv, ReplayTypeOK
  <2> QED BY <2>1, <2>2
<1> QED BY <1>1, ReplayInvariance, PTL

\* What ReplayInOrder says of one step.
InOrder ==
  ~wrapped' =>
    /\ \A i \in DOMAIN replayed' : /\ taken_from' + i \in DOMAIN frames'
                                   /\ replayed'[i] = frames'[taken_from' + i]
    /\ replaying /\ ~replaying' /\ replay_position' # replay_position
         => taken_from' + Len(replayed') >= Len(frames')

LEMMA StepInOrder == ReplayIInv /\ ReplayIInv' /\ [ReplayNext]_replayVars => [InOrder]_replayVars
<1> SUFFICES ASSUME ReplayIInv, ReplayIInv', ReplayNext, ~wrapped' PROVE InOrder
    BY DEF InOrder
<1>1. /\ frames' \in Seq(Shown) /\ Len(frames') \in Nat /\ replay_position' \in Nat
      /\ replayed' \in Seq(Shown) /\ Len(replayed') \in Nat /\ taken_from' \in Nat
      /\ DOMAIN frames' = 1 .. Len(frames') /\ DOMAIN replayed' = 1 .. Len(replayed')
    BY DEF ReplayIInv, ReplayTypeOK
<1>2. /\ replay_position' > taken_from' => replay_position' <= Len(frames')
      /\ Len(replayed') = (IF replay_position' > taken_from'
                           THEN replay_position' - taken_from' ELSE 0)
      /\ \A i \in 1 .. Len(replayed') : replayed'[i] = frames'[taken_from' + i]
    BY DEF ReplayIInv, Positioned
<1>3. ASSUME NEW i \in DOMAIN replayed'
      PROVE  taken_from' + i \in DOMAIN frames' /\ replayed'[i] = frames'[taken_from' + i]
  <2>0. i \in 1 .. Len(replayed')
      BY ONLY <1>1, <1>3
  <2>1. /\ i \in 1 .. Len(replayed') /\ i \in Nat /\ i >= 1
        /\ replayed'[i] = frames'[taken_from' + i]
    <3>1. i \in Nat /\ i >= 1
        BY ONLY <1>1, <2>0
    <3>2. replayed'[i] = frames'[taken_from' + i]
        BY ONLY <1>2, <2>0, Zenon
    <3> QED BY <2>0, <3>1, <3>2
  <2>2. replay_position' > taken_from' /\ i <= replay_position' - taken_from'
      BY <1>1, <1>2, <2>1
  <2>3. taken_from' + i \in 1 .. Len(frames')
      BY <1>1, <1>2, <2>1, <2>2
  <2> QED BY <1>1, <2>1, <2>3
<1>4. ASSUME replaying, ~replaying', replay_position' # replay_position
      PROVE  taken_from' + Len(replayed') >= Len(frames')
  <2>1. PICK count \in Counts : getNextFrames(count)
    <3>1. ASSUME NEW p \in Paths, startRecording(p) PROVE FALSE
        BY <1>4, <3>1 DEF startRecording, playVars
    <3>2. ASSUME NEW lines, loadFile(lines) PROVE FALSE
        BY <1>4, <3>2 DEF loadFile
    <3>3. ASSUME startReplay \/ stopReplay \/ stopRecording PROVE FALSE
        BY <1>4, <3>3 DEF startReplay, stopReplay, stopRecording, playVars
    <3>4. ASSUME NEW f \in Frames, recordFrame(f) PROVE FALSE
        BY <1>4, <3>4 DEF recordFrame
    <3> QED BY <3>1, <3>2, <3>3, <3>4 DEF ReplayNext
  <2>2. ReplayTypeOK /\ count \in Nat
      BY <2>1, ReplayAssumption DEF ReplayIInv
  <2>3. /\ replay_position' <= Len(frames) /\ replaying' = (replay_position' < Len(frames))
        /\ frames' = frames
      BY <2>1, <2>2, NextFrames
  <2>4. ~(replay_position' < Len(frames))
      BY ONLY <1>4, <2>3, Zenon
  <2>5. replay_position' = Len(frames')
      BY <1>1, <2>3, <2>4
  <2> QED BY <1>1, <1>2, <2>5
<1> QED BY <1>3, <1>4 DEF InOrder

\* For any recordings and calls: a replay hands out the frames in order and
\* each once, those recorded meanwhile too, and ends by itself only when none is
\* left; after a loadFile it does so from the position it had.  A count that
\* together with the position does not fit size_t is excepted.
THEOREM ReplayHandsOutAll == ReplaySpec => ReplayInOrder
  BY ReplayInvariance, StepInOrder, PTL DEF ReplaySpec, ReplayInOrder, InOrder
=============================================================================
