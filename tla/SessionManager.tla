-------------------------- MODULE SessionManager --------------------------
(***************************************************************************)
(* core/session_manager.{hpp,cpp}: the diagnostic session of one ECU, its  *)
(* security level, and the two timers that tick() enforces.                *)
(*                                                                         *)
(* A call the code refuses (a session that is not allowed, a key that does *)
(* not validate) changes nothing and is not a step.  steady_clock time is  *)
(* kept as the age of the two time points in units of the clock; ages stop *)
(* at AgeCap, beyond every timeout, where no comparison can tell them      *)
(* apart.  The periodic call of tick() is the assumption of the header:    *)
(* at most TickPeriod units pass between two calls.                        *)
(***************************************************************************)
EXTENDS Naturals

CONSTANTS Levels,                   \* security levels, as the UDS handler passes them
          Seeds, Keys, NoSeed,      \* NoSeed: last_seed_ is empty
          Algorithms, NoAlgorithm,  \* pairs (seed generator, key validator)
          KeyFor,                   \* KeyFor[a][s]: the key validator a accepts for seed s
          SessionTimeouts, SecurityTimeouts,
          DefaultSessionTimeout, DefaultSecurityTimeout,
          TickPeriod, AgeCap        \* bound: AgeCap caps both ages

ASSUME SessionAssumption ==
  /\ Levels \subseteq Nat \ {0}
  /\ NoSeed \notin Seeds
  /\ NoAlgorithm \notin Algorithms
  /\ KeyFor \in [Algorithms -> [Seeds -> Keys]]
  /\ AgeCap \in Nat /\ TickPeriod \in Nat
  /\ SessionTimeouts \subseteq 0 .. (AgeCap - 1)
  /\ SecurityTimeouts \subseteq 0 .. (AgeCap - 1)
  /\ DefaultSessionTimeout \in SessionTimeouts
  /\ DefaultSecurityTimeout \in SecurityTimeouts

VARIABLES current_session, security_level, tester_present,
          session_age,              \* now - session_start_
          security_age,             \* now - security_unlock_time_
          session_timeout, security_timeout,
          active_seed_level, last_seed,
          algorithm,                \* seed_generator_ and key_validator_
          timeout_cb,               \* TRUE when a timeout callback is installed
          client_session,           \* the session as the owner of the callback knows it
          since_tick,               \* time since tick() was last called
          session_overdue,          \* how long the fallback to DEFAULT has been due
          security_overdue          \* how long the relock has been due

seedVars   == <<active_seed_level, last_seed>>
timerVars  == <<session_age, security_age>>
configVars == <<session_timeout, security_timeout, algorithm, timeout_cb>>
watchVars  == <<session_overdue, security_overdue>>
vars == <<current_session, security_level, tester_present, timerVars, configVars,
          seedVars, client_session, since_tick, watchVars>>

Sessions == {"DEFAULT", "PROGRAMMING", "EXTENDED", "SAFETY"}

isSessionAllowed(s) ==
  CASE current_session = "DEFAULT"     -> s \in {"DEFAULT", "EXTENDED", "PROGRAMMING"}
    [] current_session = "EXTENDED"    -> s \in {"DEFAULT", "EXTENDED"}
    [] current_session = "PROGRAMMING" -> s = "DEFAULT"
    [] current_session = "SAFETY"      -> FALSE

isSessionExpired  == ~tester_present /\ session_age > session_timeout
isSecurityExpired == ~tester_present /\ security_age > security_timeout

FallbackDue == isSessionExpired /\ current_session # "DEFAULT"
RelockDue   == isSecurityExpired /\ security_level # 0

(***************************************************************************)
(* The two stopwatches run, in every step, while their event is due.       *)
(***************************************************************************)
Watch(elapsed) ==
  /\ session_overdue'  = IF FallbackDue' THEN session_overdue + elapsed ELSE 0
  /\ security_overdue' = IF RelockDue' THEN security_overdue + elapsed ELSE 0

Init ==
  /\ current_session = "DEFAULT" /\ security_level = 0 /\ tester_present = FALSE
  /\ session_age = 0 /\ security_age = 0
  /\ session_timeout = DefaultSessionTimeout
  /\ security_timeout = DefaultSecurityTimeout
  /\ active_seed_level = 0 /\ last_seed = NoSeed
  /\ algorithm = NoAlgorithm /\ timeout_cb = FALSE
  /\ client_session = "DEFAULT"
  /\ since_tick = 0 /\ session_overdue = 0 /\ security_overdue = 0

-----------------------------------------------------------------------------
\* The assignments of changeSession, once isSessionAllowed has accepted s.
EnterSession(s) ==
  /\ current_session' = s
  /\ session_age' = 0
  /\ security_level' = IF s = "DEFAULT" THEN 0 ELSE security_level

\* changeSession called by the owner, which learns the outcome.
ChangeSession(s) ==
  /\ isSessionAllowed(s)
  /\ EnterSession(s)
  /\ client_session' = s
  /\ UNCHANGED <<tester_present, security_age, configVars, seedVars, since_tick>>
  /\ Watch(0)

RequestSeed(l) ==
  /\ algorithm # NoAlgorithm
  /\ active_seed_level' = l
  /\ last_seed' \in Seeds
  /\ UNCHANGED <<current_session, security_level, tester_present, timerVars,
                 configVars, client_session, since_tick>>
  /\ Watch(0)

\* Slip: the level of the key is not compared with the level of the seed.
KeyAcceptedAtAnyLevel(l, key) ==
  last_seed # NoSeed /\ algorithm # NoAlgorithm /\ key = KeyFor[algorithm][last_seed]

KeyAccepted(l, key) ==
  /\ l = active_seed_level /\ last_seed # NoSeed
  /\ algorithm # NoAlgorithm
  /\ key = KeyFor[algorithm][last_seed]

\* A valid key opens the level and leaves the seed in place.
SendKey(l, key) ==
  /\ KeyAccepted(l, key)
  /\ security_level' = l
  /\ security_age' = 0
  /\ UNCHANGED <<current_session, tester_present, session_age, configVars,
                 seedVars, client_session, since_tick>>
  /\ Watch(0)

\* Slip: lock() forgets the seed but not the level it opened.
RelockSeedOnly ==
  /\ security_level' = security_level
  /\ last_seed' = NoSeed
  /\ active_seed_level' = 0

\* The assignments of lock().
Relock ==
  /\ security_level' = 0
  /\ last_seed' = NoSeed
  /\ active_seed_level' = 0

Lock ==
  /\ Relock
  /\ UNCHANGED <<current_session, tester_present, timerVars, configVars,
                 client_session, since_tick>>
  /\ Watch(0)

SetSessionTimeout(t) ==
  /\ session_timeout' = t
  /\ UNCHANGED <<current_session, security_level, tester_present, timerVars,
                 security_timeout, algorithm, timeout_cb, seedVars,
                 client_session, since_tick>>
  /\ Watch(0)

SetSecurityTimeout(t) ==
  /\ security_timeout' = t
  /\ UNCHANGED <<current_session, security_level, tester_present, timerVars,
                 session_timeout, algorithm, timeout_cb, seedVars,
                 client_session, since_tick>>
  /\ Watch(0)

ResetTimers ==
  /\ session_age' = 0 /\ security_age' = 0
  /\ UNCHANGED <<current_session, security_level, tester_present, configVars,
                 seedVars, client_session, since_tick>>
  /\ Watch(0)

SetTesterPresent(present) ==
  /\ tester_present' = present
  /\ UNCHANGED <<current_session, security_level, timerVars, configVars,
                 seedVars, client_session, since_tick>>
  /\ Watch(0)

\* Whoever installs the callback reads getCurrentSession at that moment.
SetTimeoutCallback ==
  /\ timeout_cb' = TRUE
  /\ client_session' = current_session
  /\ UNCHANGED <<current_session, security_level, tester_present, timerVars,
                 session_timeout, security_timeout, algorithm, seedVars, since_tick>>
  /\ Watch(0)

\* The level argument is ignored: one algorithm serves every level.
SetSeedKeyAlgorithm(a) ==
  /\ algorithm' = a
  /\ UNCHANGED <<current_session, security_level, tester_present, timerVars,
                 session_timeout, security_timeout, timeout_cb, seedVars,
                 client_session, since_tick>>
  /\ Watch(0)

-----------------------------------------------------------------------------
\* Slip: the callback is called, the session is not changed.
TickFallbackNotifiesOnly ==
  /\ FallbackDue
  /\ UNCHANGED <<current_session, session_age, security_level, client_session, seedVars>>

\* Slip: the session is changed, the callback is not called.
TickFallbackSilent ==
  /\ FallbackDue /\ isSessionAllowed("DEFAULT")
  /\ EnterSession("DEFAULT")
  /\ UNCHANGED <<client_session, seedVars>>

\* tick(): first the session, then the security level it left behind.  A
\* fallback already closes the level, so the second test then fails.  DEFAULT
\* may follow every session but SAFETY, which no session is left for.
TickFallback ==
  /\ FallbackDue /\ isSessionAllowed("DEFAULT")
  /\ EnterSession("DEFAULT")
  /\ client_session' = IF timeout_cb THEN "DEFAULT" ELSE client_session
  /\ UNCHANGED seedVars

\* Slip: the security level is closed only inside a non-default session.
TickRelockInSession ==
  /\ ~FallbackDue /\ RelockDue
  /\ IF current_session = "DEFAULT"
       THEN UNCHANGED <<security_level, seedVars>>
       ELSE Relock
  /\ UNCHANGED <<current_session, session_age, client_session>>

TickRelock ==
  /\ ~FallbackDue /\ RelockDue
  /\ Relock
  /\ UNCHANGED <<current_session, session_age, client_session>>

TickIdle ==
  /\ ~FallbackDue /\ ~RelockDue
  /\ UNCHANGED <<current_session, security_level, session_age, seedVars, client_session>>

Tick ==
  /\ TickFallback \/ TickRelock \/ TickIdle
  /\ since_tick' = 0
  /\ UNCHANGED <<tester_present, security_age, configVars>>
  /\ Watch(0)

Older(age) == IF age < AgeCap THEN age + 1 ELSE AgeCap

\* One unit of time, while the next tick() is not yet due.
Elapse ==
  /\ since_tick < TickPeriod
  /\ since_tick' = since_tick + 1
  /\ session_age' = Older(session_age)
  /\ security_age' = Older(security_age)
  /\ UNCHANGED <<current_session, security_level, tester_present, configVars,
                 seedVars, client_session>>
  /\ Watch(1)

Next ==
  \/ \E s \in Sessions : ChangeSession(s)
  \/ \E l \in Levels : RequestSeed(l) \/ \E k \in Keys : SendKey(l, k)
  \/ Lock
  \/ \E t \in SessionTimeouts : SetSessionTimeout(t)
  \/ \E t \in SecurityTimeouts : SetSecurityTimeout(t)
  \/ ResetTimers
  \/ \E p \in BOOLEAN : SetTesterPresent(p)
  \/ SetTimeoutCallback
  \/ \E a \in Algorithms : SetSeedKeyAlgorithm(a)
  \/ Tick
  \/ Elapse

Spec == Init /\ [][Next]_vars

-----------------------------------------------------------------------------
TypeOK ==
  /\ current_session \in Sessions /\ client_session \in Sessions
  /\ security_level \in Levels \cup {0} /\ active_seed_level \in Levels \cup {0}
  /\ tester_present \in BOOLEAN /\ timeout_cb \in BOOLEAN
  /\ session_age \in 0 .. AgeCap /\ security_age \in 0 .. AgeCap
  /\ session_timeout \in SessionTimeouts /\ security_timeout \in SecurityTimeouts
  /\ last_seed \in Seeds \cup {NoSeed}
  /\ algorithm \in Algorithms \cup {NoAlgorithm}
  /\ since_tick \in 0 .. TickPeriod
  /\ session_overdue \in 0 .. TickPeriod /\ security_overdue \in 0 .. TickPeriod

\* An expired session does not outlive the next tick(): it has never been
\* overdue for longer than the time since the last one (tick, lines 119-123).
FallbackInTime == session_overdue <= since_tick

\* The same for an open security level whose timer has run out, whichever of
\* tick's two tests closes it (tick, lines 119-126).
RelockInTime == security_overdue <= since_tick

\* Whoever installed the timeout callback never works in another session than
\* the manager: every change it does not ask for is reported (tick, line 122).
ClientInSync == timeout_cb => client_session = current_session

\* A level is open only while the seed that opened it, or a later one, is
\* still there to be answered: no path closes one and not the other in the
\* wrong order (lock, changeSession and sendKey together).
OpenHasSeed == security_level # 0 => last_seed # NoSeed /\ active_seed_level # 0

\* The manager implements the session an ECU promises its tester: a level is
\* opened only by answering a challenge of that level, and sessions follow
\* each other only as allowed, timers and tick() included.
DS == INSTANCE DiagnosticSession WITH
        session   <- current_session,
        level     <- security_level,
        challenge <- IF last_seed = NoSeed THEN 0 ELSE active_seed_level

ImplementsSession == DS!DSpec

\* The way test_all_modes.cpp takes to the programming session is open: out of
\* the extended session (isSessionAllowed, lines 36-39).
ProgrammingFromExtended ==
  current_session = "EXTENDED" => isSessionAllowed("PROGRAMMING")
=============================================================================
