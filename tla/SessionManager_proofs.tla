----------------------- MODULE SessionManager_proofs -----------------------
(***************************************************************************)
(* Proofs about SessionManager, for every set of levels, seeds, keys and   *)
(* timeouts and for every tick period.                                     *)
(*                                                                         *)
(* The inductive invariant IInv is the conjunction of the properties       *)
(* themselves: the bounds of the two stopwatches in TypeOK hold only       *)
(* because they never pass since_tick, and the refinement needs to know    *)
(* that a level is open only while a seed is remembered.                   *)
(***************************************************************************)
EXTENDS SessionManager, TLAPS

IInv == TypeOK /\ FallbackInTime /\ RelockInTime /\ ClientInSync /\ OpenHasSeed

\* The stopwatches keep within since_tick over a step that takes no time, if
\* it leaves since_tick alone.
LEMMA WatchKeepsBounds ==
  ASSUME TypeOK, FallbackInTime, RelockInTime, Watch(0), since_tick' = since_tick
  PROVE  /\ FallbackInTime' /\ RelockInTime'
         /\ session_overdue' \in 0 .. TickPeriod
         /\ security_overdue' \in 0 .. TickPeriod
  BY SMT, SessionAssumption DEF TypeOK, FallbackInTime, RelockInTime, Watch

\* The initial state satisfies the invariant.
LEMMA InitIInv == Init => IInv
<1> SUFFICES ASSUME Init PROVE IInv
    OBVIOUS
<1>1. TypeOK
  <2>1. tester_present \in BOOLEAN /\ timeout_cb \in BOOLEAN
      BY Zenon DEF Init
  <2>2. /\ session_timeout \in SessionTimeouts /\ security_timeout \in SecurityTimeouts
        /\ current_session \in Sessions /\ client_session \in Sessions
        /\ last_seed \in Seeds \cup {NoSeed} /\ algorithm \in Algorithms \cup {NoAlgorithm}
        /\ security_level \in Levels \cup {0} /\ active_seed_level \in Levels \cup {0}
      BY SessionAssumption DEF Init, Sessions
  <2>3. /\ session_age \in 0 .. AgeCap /\ security_age \in 0 .. AgeCap
        /\ since_tick \in 0 .. TickPeriod
        /\ session_overdue \in 0 .. TickPeriod /\ security_overdue \in 0 .. TickPeriod
      BY SessionAssumption DEF Init
  <2> QED BY <2>1, <2>2, <2>3 DEF TypeOK
<1>2. FallbackInTime /\ RelockInTime /\ ClientInSync /\ OpenHasSeed
    BY DEF Init, FallbackInTime, RelockInTime, ClientInSync, OpenHasSeed
<1> QED BY <1>1, <1>2 DEF IInv

\* Every step keeps the invariant.
LEMMA NextIInv == IInv /\ [Next]_vars => IInv'
<1> SUFFICES ASSUME IInv, [Next]_vars PROVE IInv'
    OBVIOUS
<1> USE SessionAssumption
<1>0. TypeOK /\ FallbackInTime /\ RelockInTime /\ ClientInSync /\ OpenHasSeed
    BY DEF IInv
<1>1. ASSUME NEW s \in Sessions, ChangeSession(s) PROVE IInv'
  <2>1. FallbackInTime' /\ RelockInTime' /\ session_overdue' \in 0 .. TickPeriod
          /\ security_overdue' \in 0 .. TickPeriod
      BY <1>0, <1>1, WatchKeepsBounds DEF ChangeSession
  <2>2. ClientInSync' /\ OpenHasSeed'
      BY <1>0, <1>1 DEF ClientInSync, OpenHasSeed, ChangeSession, EnterSession,
         configVars, seedVars
  <2>3. TypeOK'
      BY <1>0, <1>1, <2>1 DEF TypeOK, ChangeSession, EnterSession, configVars, seedVars
  <2> QED BY <2>1, <2>2, <2>3 DEF IInv
<1>2. ASSUME NEW l \in Levels, RequestSeed(l) PROVE IInv'
  <2>1. FallbackInTime' /\ RelockInTime' /\ session_overdue' \in 0 .. TickPeriod
          /\ security_overdue' \in 0 .. TickPeriod
      BY <1>0, <1>2, WatchKeepsBounds DEF RequestSeed
  <2>2. ClientInSync' /\ OpenHasSeed'
      BY <1>0, <1>2 DEF ClientInSync, OpenHasSeed, RequestSeed, configVars
  <2>3. TypeOK'
      BY <1>0, <1>2, <2>1 DEF TypeOK, RequestSeed, configVars, timerVars
  <2> QED BY <2>1, <2>2, <2>3 DEF IInv
<1>3. ASSUME NEW l \in Levels, NEW k \in Keys, SendKey(l, k) PROVE IInv'
  <2>1. FallbackInTime' /\ RelockInTime' /\ session_overdue' \in 0 .. TickPeriod
          /\ security_overdue' \in 0 .. TickPeriod
      BY <1>0, <1>3, WatchKeepsBounds DEF SendKey
  <2>2. ClientInSync' /\ OpenHasSeed'
      BY <1>0, <1>3 DEF ClientInSync, OpenHasSeed, SendKey, KeyAccepted, configVars, seedVars
  <2>3. TypeOK'
      BY <1>0, <1>3, <2>1 DEF TypeOK, SendKey, KeyAccepted, configVars, seedVars
  <2> QED BY <2>1, <2>2, <2>3 DEF IInv
<1>4. CASE Lock
  <2>1. FallbackInTime' /\ RelockInTime' /\ session_overdue' \in 0 .. TickPeriod
          /\ security_overdue' \in 0 .. TickPeriod
      BY <1>0, <1>4, WatchKeepsBounds DEF Lock
  <2>2. ClientInSync' /\ OpenHasSeed'
      BY <1>0, <1>4 DEF ClientInSync, OpenHasSeed, Lock, Relock, configVars
  <2>3. TypeOK'
      BY <1>0, <1>4, <2>1 DEF TypeOK, Lock, Relock, configVars, timerVars
  <2> QED BY <2>1, <2>2, <2>3 DEF IInv
<1>5. ASSUME NEW t \in SessionTimeouts, SetSessionTimeout(t) PROVE IInv'
  <2>1. FallbackInTime' /\ RelockInTime' /\ session_overdue' \in 0 .. TickPeriod
          /\ security_overdue' \in 0 .. TickPeriod
      BY <1>0, <1>5, WatchKeepsBounds DEF SetSessionTimeout
  <2> QED BY <1>0, <1>5, <2>1
          DEF IInv, TypeOK, ClientInSync, OpenHasSeed, SetSessionTimeout, timerVars, seedVars
<1>6. ASSUME NEW t \in SecurityTimeouts, SetSecurityTimeout(t) PROVE IInv'
  <2>1. FallbackInTime' /\ RelockInTime' /\ session_overdue' \in 0 .. TickPeriod
          /\ security_overdue' \in 0 .. TickPeriod
      BY <1>0, <1>6, WatchKeepsBounds DEF SetSecurityTimeout
  <2> QED BY <1>0, <1>6, <2>1
          DEF IInv, TypeOK, ClientInSync, OpenHasSeed, SetSecurityTimeout, timerVars, seedVars
<1>7. CASE ResetTimers
  <2>1. FallbackInTime' /\ RelockInTime' /\ session_overdue' \in 0 .. TickPeriod
          /\ security_overdue' \in 0 .. TickPeriod
      BY <1>0, <1>7, WatchKeepsBounds DEF ResetTimers
  <2> QED BY <1>0, <1>7, <2>1
          DEF IInv, TypeOK, ClientInSync, OpenHasSeed, ResetTimers, configVars, seedVars
<1>8. ASSUME NEW p \in BOOLEAN, SetTesterPresent(p) PROVE IInv'
  <2>1. FallbackInTime' /\ RelockInTime' /\ session_overdue' \in 0 .. TickPeriod
          /\ security_overdue' \in 0 .. TickPeriod
      BY <1>0, <1>8, WatchKeepsBounds DEF SetTesterPresent
  <2> QED BY <1>0, <1>8, <2>1
          DEF IInv, TypeOK, ClientInSync, OpenHasSeed, SetTesterPresent, configVars,
              seedVars, timerVars
<1>9. CASE SetTimeoutCallback
  <2>1. FallbackInTime' /\ RelockInTime' /\ session_overdue' \in 0 .. TickPeriod
          /\ security_overdue' \in 0 .. TickPeriod
      BY <1>0, <1>9, WatchKeepsBounds DEF SetTimeoutCallback
  <2> QED BY <1>0, <1>9, <2>1
          DEF IInv, TypeOK, ClientInSync, OpenHasSeed, SetTimeoutCallback, seedVars, timerVars
<1>10. ASSUME NEW a \in Algorithms, SetSeedKeyAlgorithm(a) PROVE IInv'
  <2>1. FallbackInTime' /\ RelockInTime' /\ session_overdue' \in 0 .. TickPeriod
          /\ security_overdue' \in 0 .. TickPeriod
      BY <1>0, <1>10, WatchKeepsBounds DEF SetSeedKeyAlgorithm
  <2> QED BY <1>0, <1>10, <2>1
          DEF IInv, TypeOK, ClientInSync, OpenHasSeed, SetSeedKeyAlgorithm, seedVars, timerVars
<1>11. CASE Tick
  \* After tick() neither event is due, so both stopwatches are back at zero.
  <2>1. CASE TickFallback
    <3>1. ~FallbackDue' /\ ~RelockDue'
        BY <1>11, <2>1 DEF Tick, TickFallback, EnterSession, FallbackDue, RelockDue
    <3>2. session_overdue' = 0 /\ security_overdue' = 0 /\ since_tick' = 0
        BY <1>11, <3>1 DEF Tick, Watch
    <3>3. TypeOK'
        BY <1>0, <1>11, <2>1, <3>2
        DEF TypeOK, Tick, TickFallback, EnterSession, configVars, seedVars, Sessions
    <3>4. ClientInSync' /\ OpenHasSeed'
        BY <1>0, <1>11, <2>1
        DEF ClientInSync, OpenHasSeed, Tick, TickFallback, EnterSession, configVars
    <3> QED BY <3>2, <3>3, <3>4 DEF IInv, FallbackInTime, RelockInTime
  <2>2. CASE TickRelock
    <3>1. ~FallbackDue' /\ ~RelockDue'
        BY <1>11, <2>2
        DEF Tick, TickRelock, Relock, FallbackDue, RelockDue, isSessionExpired, configVars
    <3>2. session_overdue' = 0 /\ security_overdue' = 0 /\ since_tick' = 0
        BY <1>11, <3>1 DEF Tick, Watch
    <3>3. TypeOK'
        BY <1>0, <1>11, <2>2, <3>2 DEF TypeOK, Tick, TickRelock, Relock, configVars
    <3>4. ClientInSync' /\ OpenHasSeed'
        BY <1>0, <1>11, <2>2 DEF ClientInSync, OpenHasSeed, Tick, TickRelock, Relock, configVars
    <3> QED BY <3>2, <3>3, <3>4 DEF IInv, FallbackInTime, RelockInTime
  <2>3. CASE TickIdle
    <3>1. ~FallbackDue' /\ ~RelockDue'
        BY <1>11, <2>3
        DEF Tick, TickIdle, FallbackDue, RelockDue, isSessionExpired, isSecurityExpired, configVars
    <3>2. session_overdue' = 0 /\ security_overdue' = 0 /\ since_tick' = 0
        BY <1>11, <3>1 DEF Tick, Watch
    <3>3. TypeOK'
        BY <1>0, <1>11, <2>3, <3>2 DEF TypeOK, Tick, TickIdle, configVars, seedVars
    <3>4. ClientInSync' /\ OpenHasSeed'
        BY <1>0, <1>11, <2>3 DEF ClientInSync, OpenHasSeed, Tick, TickIdle, configVars, seedVars
    <3> QED BY <3>2, <3>3, <3>4 DEF IInv, FallbackInTime, RelockInTime
  <2> QED BY <1>11, <2>1, <2>2, <2>3 DEF Tick
<1>12. CASE Elapse
  <2>1. since_tick < TickPeriod /\ since_tick' = since_tick + 1
      BY <1>12 DEF Elapse
  <2>2. /\ session_overdue' \in 0 .. TickPeriod /\ security_overdue' \in 0 .. TickPeriod
        /\ FallbackInTime' /\ RelockInTime'
      BY <1>0, <1>12, <2>1 DEF Elapse, Watch, TypeOK, FallbackInTime, RelockInTime
  <2>3. session_age' \in 0 .. AgeCap /\ security_age' \in 0 .. AgeCap
      BY <1>0, <1>12 DEF Elapse, Older, TypeOK
  <2>4. TypeOK'
      BY <1>0, <1>12, <2>1, <2>2, <2>3 DEF Elapse, TypeOK, configVars, seedVars
  <2>5. ClientInSync' /\ OpenHasSeed'
      BY <1>0, <1>12 DEF Elapse, ClientInSync, OpenHasSeed, configVars, seedVars
  <2> QED BY <2>2, <2>4, <2>5 DEF IInv
<1>13. CASE UNCHANGED vars
    BY <1>0, <1>13
    DEF IInv, TypeOK, FallbackInTime, RelockInTime, ClientInSync, OpenHasSeed,
        vars, timerVars, configVars, seedVars, watchVars
<1> QED
    BY <1>1, <1>2, <1>3, <1>4, <1>5, <1>6, <1>7, <1>8, <1>9, <1>10, <1>11, <1>12, <1>13
    DEF Next

LEMMA Invariance == Spec => []IInv
  BY InitIInv, NextIInv, PTL DEF Spec

-----------------------------------------------------------------------------
\* Type correctness, with the stopwatches bounded by the tick period.
THEOREM TypeCorrect == Spec => []TypeOK
  BY Invariance, PTL DEF IInv

\* An expired session never outlives the next tick(), whatever the timeouts
\* and the calls in between.
THEOREM TimersEnforced == Spec => []FallbackInTime
  BY Invariance, PTL DEF IInv

\* Nor does an expired security level: what the first test of tick() leaves
\* open, the second one closes.
THEOREM RelockEnforced == Spec => []RelockInTime
  BY Invariance, PTL DEF IInv

\* With a callback installed its owner always knows the session.
THEOREM OwnerInformed == Spec => []ClientInSync
  BY Invariance, PTL DEF IInv

\* An open level always has its seed behind it.
THEOREM SeedBehindLevel == Spec => []OpenHasSeed
  BY Invariance, PTL DEF IInv

-----------------------------------------------------------------------------
\* The initial state is one of the abstract session.
LEMMA InitImplements == Init => DS!DInit
  BY SessionAssumption DEF Init, DS!DInit

\* Every step is a step of the abstract session or leaves it as it is.
LEMMA NextImplements == IInv /\ [Next]_vars => [DS!DNext]_DS!dvars
<1> SUFFICES ASSUME IInv, [Next]_vars PROVE [DS!DNext]_DS!dvars
    OBVIOUS
<1> USE SessionAssumption
<1>0. TypeOK /\ OpenHasSeed
    BY DEF IInv
<1>1. ASSUME NEW s \in Sessions, ChangeSession(s) PROVE DS!Enter(s)
    BY <1>0, <1>1
    DEF TypeOK, Sessions, ChangeSession, EnterSession, isSessionAllowed, seedVars,
        DS!Enter, DS!Successors, DS!Sessions
<1>2. ASSUME NEW l \in Levels, RequestSeed(l) PROVE DS!Challenge(l)
    BY <1>2 DEF RequestSeed, DS!Challenge
<1>3. ASSUME NEW l \in Levels, NEW k \in Keys, SendKey(l, k) PROVE DS!Open
    BY <1>3 DEF SendKey, KeyAccepted, seedVars, DS!Open
<1>4. CASE Lock
  <2>1. DS!Close
      BY <1>4 DEF Lock, Relock, DS!Close
  <2> QED BY <2>1 DEF DS!DNext
<1>5. CASE Tick
  <2>1. CASE TickFallback
    <3>1. DS!Enter("DEFAULT")
        BY <1>0, <1>5, <2>1
        DEF TypeOK, Sessions, TickFallback, EnterSession, isSessionAllowed, seedVars,
            DS!Enter, DS!Successors, DS!Sessions
    <3> QED BY <3>1 DEF DS!DNext, DS!Sessions
  <2>2. CASE TickRelock
    <3>1. DS!Close
        BY <2>2 DEF TickRelock, Relock, DS!Close
    <3> QED BY <3>1 DEF DS!DNext
  <2>3. CASE TickIdle
      BY <2>3 DEF TickIdle, seedVars, DS!dvars
  <2> QED BY <1>5, <2>1, <2>2, <2>3 DEF Tick
<1>6. ASSUME NEW t \in SessionTimeouts, SetSessionTimeout(t) PROVE UNCHANGED DS!dvars
    BY <1>6 DEF SetSessionTimeout, seedVars, DS!dvars
<1>7. ASSUME NEW t \in SecurityTimeouts, SetSecurityTimeout(t) PROVE UNCHANGED DS!dvars
    BY <1>7 DEF SetSecurityTimeout, seedVars, DS!dvars
<1>8. CASE ResetTimers
    BY <1>8 DEF ResetTimers, seedVars, DS!dvars
<1>9. ASSUME NEW p \in BOOLEAN, SetTesterPresent(p) PROVE UNCHANGED DS!dvars
    BY <1>9 DEF SetTesterPresent, seedVars, DS!dvars
<1>10. CASE SetTimeoutCallback
    BY <1>10 DEF SetTimeoutCallback, seedVars, DS!dvars
<1>11. ASSUME NEW a \in Algorithms, SetSeedKeyAlgorithm(a) PROVE UNCHANGED DS!dvars
    BY <1>11 DEF SetSeedKeyAlgorithm, seedVars, DS!dvars
<1>12. CASE Elapse
    BY <1>12 DEF Elapse, seedVars, DS!dvars
<1>13. CASE UNCHANGED vars
    BY <1>13 DEF vars, seedVars, DS!dvars
<1> QED
    BY <1>1, <1>2, <1>3, <1>4, <1>5, <1>6, <1>7, <1>8, <1>9, <1>10, <1>11, <1>12, <1>13
    DEF Next, DS!DNext, DS!Sessions, Sessions

\* The manager implements the session it promises the tester: with its timers
\* and its tick() it never opens a level that was not challenged and never
\* leaves a session for one that may not follow it.
THEOREM SessionRefinement == Spec => ImplementsSession
  BY InitImplements, NextImplements, Invariance, PTL
  DEF Spec, ImplementsSession, DS!DSpec
=============================================================================
