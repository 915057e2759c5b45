-------------------------- MODULE UdsServer_proofs --------------------------
(***************************************************************************)
(* Proofs about UdsServer, for every choice of brands, sub-functions,      *)
(* seeds, keys and algorithms.                                             *)
(*                                                                         *)
(* TypeOK alone is inductive, and the two step properties follow from it.  *)
(* TesterInSync is not: that a key opens the level the tester has in mind  *)
(* needs that the tester and the ECU agree on the last challenge, and that *)
(* the ECU accepts a key for no other level.                               *)
(***************************************************************************)
EXTENDS UdsServer, TLAPS

\* The level the tester last got a seed of is the one the ECU waits for.
SameChallenge == tester_challenge = active_seed_level

IInv == TypeOK /\ TesterInSync /\ SameChallenge

\* Only a session with a name is ever entered.
LEMMA AllowedIsSession ==
  ASSUME current_session \in SM!Sessions, NEW s, SM!isSessionAllowed(s)
  PROVE  s \in SM!Sessions
  BY DEF SM!isSessionAllowed, SM!Sessions

\* Sub-functions map to levels: odd ones to themselves, even ones to the next.
LEMMA SubLevelIsLevel ==
  ASSUME NEW sub \in SubLevels
  PROVE  IF sub % 2 = 1 THEN SeedLevel(sub) \in Levels ELSE KeyLevel(sub) \in Levels
  BY UdsAssumption DEF SeedLevel, KeyLevel, Levels

\* The initial states satisfy the invariant.
LEMMA InitIInv == Init => IInv
<1> SUFFICES ASSUME Init PROVE IInv
    OBVIOUS
<1>1. tester_present \in BOOLEAN
    BY Zenon DEF Init
<1>2. reply \in [service : Services \cup {"none"}, sub : SubLevels \cup {0},
                 key : Keys \cup {NoKey}, ok : BOOLEAN]
    BY DEF Init, NoReply, Reply
<1>3. TypeOK
    BY <1>1, <1>2, UdsAssumption DEF Init, TypeOK, SM!Sessions
<1>4. TesterInSync /\ SameChallenge
    BY DEF Init, TesterInSync, SameChallenge
<1> QED BY <1>3, <1>4 DEF IInv

\* An answer that carries no key is of the type of answers.
LEMMA AnswerType ==
  ASSUME NEW service \in Services, NEW ok \in BOOLEAN, Answer(service, ok)
  PROVE  reply' \in [service : Services \cup {"none"}, sub : SubLevels \cup {0},
                     key : Keys \cup {NoKey}, ok : BOOLEAN]
  BY DEF Answer, Reply

\* The services that touch the session are services.
LEMMA SessionServices == {"10", "27", "3E"} \subseteq Services
  BY DEF Services

\* Every step keeps the invariant.
LEMMA NextIInv == IInv /\ [Next]_vars => IInv'
<1> SUFFICES ASSUME IInv, [Next]_vars PROVE IInv'
    OBVIOUS
<1> USE UdsAssumption
<1>0. TypeOK /\ TesterInSync /\ SameChallenge
    BY DEF IInv
<1>1. ASSUME NEW s, SessionRequest(s) PROVE IInv'
  <2>1. CASE SM!isSessionAllowed(s)
    <3>1. s \in SM!Sessions
        BY <1>0, <2>1, AllowedIsSession DEF TypeOK
    <3>2. changeSession(s) /\ NoteSession(s) /\ Answer("10", TRUE) /\ UNCHANGED <<brand, algorithm>>
        BY <1>1, <2>1 DEF SessionRequest, handleDiagnosticSessionControl
    <3>3. reply' \in [service : Services \cup {"none"}, sub : SubLevels \cup {0},
                      key : Keys \cup {NoKey}, ok : BOOLEAN]
        BY <3>2, SessionServices, AnswerType
    <3>4. TypeOK'
        BY <1>0, <3>1, <3>2, <3>3 DEF TypeOK, changeSession, SM!EnterSession, NoteSession, seedVars
    <3>5. TesterInSync' /\ SameChallenge'
        BY <1>0, <3>2 DEF TesterInSync, SameChallenge, changeSession, SM!EnterSession, NoteSession, seedVars
    <3> QED BY <3>4, <3>5 DEF IInv
  <2>2. CASE ~SM!isSessionAllowed(s)
    <3>1. UNCHANGED <<sessionVars, testerVars, brand, algorithm>> /\ Answer("10", FALSE)
        BY <1>1, <2>2 DEF SessionRequest, handleDiagnosticSessionControl
    <3>2. TypeOK'
        BY <1>0, <3>1, SessionServices, AnswerType
        DEF TypeOK, sessionVars, openVars, seedVars, testerVars
    <3>3. TesterInSync' /\ SameChallenge'
        BY <1>0, <3>1 DEF TesterInSync, SameChallenge, sessionVars, openVars, seedVars, testerVars
    <3> QED BY <3>2, <3>3 DEF IInv
  <2> QED BY <2>1, <2>2
<1>2. ASSUME NEW sub \in SubLevels, NEW key \in Keys, SecurityRequest(sub, key) PROVE IInv'
  <2>1. CASE sub % 2 = 1
    <3>1. requestSeed(sub) /\ UNCHANGED <<brand, algorithm>>
        BY <1>2, <2>1 DEF SecurityRequest, handleSecurityAccess
    <3>2. SeedLevel(sub) \in Levels
        BY <2>1, SubLevelIsLevel
    <3>3. (algorithm # NoAlgorithm) \in BOOLEAN
        OBVIOUS
    <3>4. reply' \in [service : Services \cup {"none"}, sub : SubLevels \cup {0},
                      key : Keys \cup {NoKey}, ok : BOOLEAN]
        BY <3>1, <3>3, SessionServices, AnswerType DEF requestSeed
    <3>5. TypeOK'
      <4>1. CASE algorithm = NoAlgorithm
          BY <1>0, <3>1, <3>4, <4>1 DEF TypeOK, requestSeed, openVars, seedVars, testerVars
      <4>2. CASE algorithm # NoAlgorithm
          BY <1>0, <3>1, <3>2, <3>4, <4>2
          DEF TypeOK, requestSeed, openVars, NoteChallenge, SeedLevel
      <4> QED BY <4>1, <4>2
    <3>6. TesterInSync' /\ SameChallenge'
        BY <1>0, <3>1 DEF TesterInSync, SameChallenge, requestSeed, openVars, seedVars, testerVars,
           NoteChallenge, SeedLevel
    <3> QED BY <3>5, <3>6 DEF IInv
  <2>2. CASE sub % 2 # 1
    <3>1. sendKey(sub, key) /\ UNCHANGED <<brand, algorithm>>
        BY <1>2, <2>2 DEF SecurityRequest, handleSecurityAccess
    <3>2. KeyLevel(sub) \in Levels
        BY <2>2, SubLevelIsLevel
    <3>3. SM!KeyAccepted(KeyLevel(sub), key) \in BOOLEAN
        BY DEF SM!KeyAccepted
    <3>4. reply' \in [service : Services \cup {"none"}, sub : SubLevels \cup {0},
                      key : Keys \cup {NoKey}, ok : BOOLEAN]
        BY <3>1, <3>3, SessionServices DEF sendKey, Reply
    <3>5. TypeOK'
        BY <1>0, <3>1, <3>2, <3>4 DEF TypeOK, sendKey, seedVars, testerVars, NoteOpen
    <3>6. TesterInSync' /\ SameChallenge'
        BY <1>0, <3>1 DEF TesterInSync, SameChallenge, sendKey, seedVars, testerVars, NoteOpen,
           SM!KeyAccepted
    <3> QED BY <3>5, <3>6 DEF IInv
  <2> QED BY <2>1, <2>2
<1>3. CASE TesterPresentRequest
  <2>1. handleTesterPresent /\ UNCHANGED <<brand, algorithm>>
      BY <1>3 DEF TesterPresentRequest
  <2>2. tester_present' \in BOOLEAN
      BY Zenon, <2>1 DEF handleTesterPresent
  <2>3. reply' \in [service : Services \cup {"none"}, sub : SubLevels \cup {0},
                    key : Keys \cup {NoKey}, ok : BOOLEAN]
      BY <2>1, SessionServices, AnswerType DEF handleTesterPresent
  <2>4. TypeOK'
      BY <1>0, <2>1, <2>2, <2>3 DEF TypeOK, handleTesterPresent, testerVars
  <2>5. TesterInSync' /\ SameChallenge'
      BY <1>0, <2>1 DEF TesterInSync, SameChallenge, handleTesterPresent, testerVars
  <2> QED BY <2>4, <2>5 DEF IInv
<1>4. ASSUME NEW service \in Services, OtherRequest(service) PROVE IInv'
  <2>1. PICK ok \in BOOLEAN : Answer(service, ok)
      BY <1>4 DEF OtherRequest
  <2>2. TypeOK'
      BY <1>0, <1>4, <2>1, AnswerType
      DEF TypeOK, OtherRequest, sessionVars, openVars, seedVars, testerVars
  <2>3. TesterInSync' /\ SameChallenge'
      BY <1>0, <1>4 DEF TesterInSync, SameChallenge, OtherRequest, sessionVars, openVars, seedVars,
           testerVars
  <2> QED BY <2>2, <2>3 DEF IInv
<1>5. CASE Elapse
  <2>1. TypeOK'
      BY <1>0, <1>5 DEF TypeOK, Elapse, testerVars, NoReply, Reply
  <2>2. TesterInSync' /\ SameChallenge'
      BY <1>0, <1>5 DEF TesterInSync, SameChallenge, Elapse, testerVars
  <2> QED BY <2>1, <2>2 DEF IInv
<1>6. CASE UNCHANGED vars
    BY <1>0, <1>6 DEF IInv, TypeOK, TesterInSync, SameChallenge, vars, sessionVars, openVars, seedVars, testerVars
<1> QED BY <1>1, <1>2, <1>3, <1>4, <1>5, <1>6 DEF Next

LEMMA Invariance == Spec => []IInv
  BY InitIInv, NextIInv, PTL DEF Spec

-----------------------------------------------------------------------------
\* Type correctness, levels odd and answers well formed included.
THEOREM TypeCorrect == Spec => []TypeOK
  BY Invariance, PTL DEF IInv

\* A tester that believes its answers knows the session and the level.
THEOREM TesterInformed == Spec => []TesterInSync
  BY Invariance, PTL DEF IInv

-----------------------------------------------------------------------------
\* A step that is answered with a refusal leaves the session alone.
LEMMA RefusedStep ==
  [Next]_vars => [~reply'.ok => UNCHANGED <<current_session, security_level, tester_present,
                                           active_seed_level, last_seed>>]_vars
<1> SUFFICES ASSUME Next, ~reply'.ok
             PROVE  UNCHANGED <<current_session, security_level, tester_present,
                                active_seed_level, last_seed>>
    OBVIOUS
<1>1. ASSUME NEW s, SessionRequest(s)
      PROVE  UNCHANGED <<current_session, security_level, tester_present,
                         active_seed_level, last_seed>>
    BY <1>1 DEF SessionRequest, handleDiagnosticSessionControl, Answer, Reply,
                sessionVars, openVars, seedVars
<1>2. ASSUME NEW sub \in SubLevels, NEW key \in Keys, SecurityRequest(sub, key)
      PROVE  UNCHANGED <<current_session, security_level, tester_present,
                         active_seed_level, last_seed>>
  <2>1. CASE requestSeed(sub)
    <3>1. algorithm = NoAlgorithm
        BY <2>1 DEF requestSeed, Answer, Reply
    <3> QED BY <2>1, <3>1 DEF requestSeed, openVars, seedVars
  <2>2. CASE sendKey(sub, key)
    <3>1. ~SM!KeyAccepted(KeyLevel(sub), key)
        BY <2>2 DEF sendKey, Reply
    <3> QED BY <2>2, <3>1 DEF sendKey, seedVars
  <2> QED BY <1>2, <2>1, <2>2 DEF SecurityRequest, handleSecurityAccess
<1>3. CASE TesterPresentRequest
    BY <1>3 DEF TesterPresentRequest, handleTesterPresent, Answer, Reply
<1>4. ASSUME NEW service \in Services, OtherRequest(service)
      PROVE  UNCHANGED <<current_session, security_level, tester_present,
                         active_seed_level, last_seed>>
    BY <1>4 DEF OtherRequest, sessionVars, openVars, seedVars
<1>5. CASE Elapse
    BY <1>5 DEF Elapse
<1> QED BY <1>1, <1>2, <1>3, <1>4, <1>5 DEF Next

\* Whatever was refused left no trace in the session.
THEOREM RefusalsLeaveNoTrace == Spec => RefusalChangesNothing
  BY RefusedStep, PTL DEF Spec, RefusalChangesNothing

-----------------------------------------------------------------------------
\* The initial states are initial states of the abstract session.
LEMMA InitImplements == Init => DS!DInit
  BY DEF Init, DS!DInit

\* Every step of the server is a step of the abstract session or a stutter.
LEMMA NextImplements == TypeOK /\ [Next]_vars => [DS!DNext]_DS!dvars
<1> SUFFICES ASSUME TypeOK, [Next]_vars PROVE [DS!DNext]_DS!dvars
    OBVIOUS
<1> USE UdsAssumption
<1>1. ASSUME NEW s, SessionRequest(s) PROVE [DS!DNext]_DS!dvars
  <2>1. CASE SM!isSessionAllowed(s)
    <3>1. changeSession(s)
        BY <1>1, <2>1 DEF SessionRequest, handleDiagnosticSessionControl
    <3>2. s \in DS!Sessions /\ s \in DS!Successors[current_session]
        BY <2>1 DEF TypeOK, SM!Sessions, SM!isSessionAllowed, DS!Sessions, DS!Successors
    <3>3. DS!Enter(s)
        BY <3>1, <3>2 DEF changeSession, SM!EnterSession, seedVars, DS!Enter
    <3> QED BY <3>2, <3>3 DEF DS!DNext
  <2>2. CASE ~SM!isSessionAllowed(s)
      BY <1>1, <2>2 DEF SessionRequest, handleDiagnosticSessionControl, sessionVars,
                        openVars, seedVars, DS!dvars
  <2> QED BY <2>1, <2>2
<1>2. ASSUME NEW sub \in SubLevels, NEW key \in Keys, SecurityRequest(sub, key)
      PROVE  [DS!DNext]_DS!dvars
  <2>1. CASE sub % 2 = 1
    <3>1. requestSeed(sub) /\ SeedLevel(sub) \in Levels
        BY <1>2, <2>1, SubLevelIsLevel DEF SecurityRequest, handleSecurityAccess
    <3>2. CASE algorithm = NoAlgorithm
        BY <3>1, <3>2 DEF requestSeed, openVars, seedVars, DS!dvars
    <3>3. CASE algorithm # NoAlgorithm
      <4>1. DS!Challenge(SeedLevel(sub))
          BY <3>1, <3>3 DEF requestSeed, openVars, DS!Challenge
      <4> QED BY <3>1, <4>1 DEF DS!DNext
    <3> QED BY <3>2, <3>3
  <2>2. CASE sub % 2 # 1
    <3>1. sendKey(sub, key) /\ KeyLevel(sub) \in Levels
        BY <1>2, <2>2, SubLevelIsLevel DEF SecurityRequest, handleSecurityAccess
    <3>2. CASE SM!KeyAccepted(KeyLevel(sub), key)
      <4>1. KeyLevel(sub) # 0
          BY <3>1 DEF Levels
      <4>2. DS!Open
          BY <3>1, <3>2, <4>1 DEF sendKey, SM!KeyAccepted, seedVars, DS!Open
      <4> QED BY <4>2 DEF DS!DNext
    <3>3. CASE ~SM!KeyAccepted(KeyLevel(sub), key)
        BY <3>1, <3>3 DEF sendKey, seedVars, DS!dvars
    <3> QED BY <3>2, <3>3
  <2> QED BY <2>1, <2>2
<1>3. CASE TesterPresentRequest
    BY <1>3 DEF TesterPresentRequest, handleTesterPresent, DS!dvars
<1>4. ASSUME NEW service \in Services, OtherRequest(service) PROVE [DS!DNext]_DS!dvars
    BY <1>4 DEF OtherRequest, sessionVars, openVars, seedVars, DS!dvars
<1>5. CASE Elapse
    BY <1>5 DEF Elapse, DS!dvars
<1>6. CASE UNCHANGED vars
    BY <1>6 DEF vars, sessionVars, openVars, seedVars, DS!dvars
<1> QED BY <1>1, <1>2, <1>3, <1>4, <1>5, <1>6 DEF Next

\* Through the dispatch of any brand the ECU implements the abstract session.
THEOREM ServerRefinement == Spec => ImplementsSession
<1>1. Spec => []TypeOK
    BY TypeCorrect
<1> QED BY <1>1, InitImplements, NextImplements, PTL DEF Spec, ImplementsSession, DS!DSpec
=============================================================================
