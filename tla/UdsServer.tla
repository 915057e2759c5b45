----------------------------- MODULE UdsServer -----------------------------
(***************************************************************************)
(* The diagnostic services of one emulated ECU as a tester on the bus sees *)
(* them: a brand's dispatch (manufacturers/*.cpp), the UDS handlers of     *)
(* BaseManufacturer (manufacturers/base.cpp) and the SessionManager they   *)
(* share, wired as main.cpp wires them.                                    *)
(*                                                                         *)
(* main never calls tick(), so session_age grows and nothing follows from  *)
(* it; and no code of src/src installs a seed and key algorithm.  Both     *)
(* wirings are modelled: the program's, and that of a host program which   *)
(* installs one through getSessionManager() before traffic starts.         *)
(***************************************************************************)
EXTENDS Naturals, Brands

CONSTANTS BrandsUsed,               \* the brands a behaviour may select
          SubLevels,                \* sub-functions of 0x27, both parities
          Seeds, Keys, NoSeed, NoKey,
          Algorithms, NoAlgorithm, KeyFor,
          TickPeriod, AgeCap        \* bound: AgeCap caps session_age

\* The session manager only ever sees odd levels.
Levels == {l \in 1 .. 255 : l % 2 = 1}

ASSUME UdsAssumption ==
  /\ BrandsUsed \subseteq Brands
  /\ SubLevels \subseteq 0 .. 255
  /\ NoSeed \notin Seeds /\ NoAlgorithm \notin Algorithms
  /\ KeyFor \in [Algorithms -> [Seeds -> Keys]]
  /\ AgeCap \in Nat /\ TickPeriod \in Nat /\ AgeCap > 2

VARIABLES brand, algorithm,         \* fixed when main has finished its setup
          current_session, security_level, tester_present, session_age,
          active_seed_level, last_seed,
          tester_session, tester_challenge, tester_level, \* the tester's notes
          reply                     \* the last answer, until the state moves on

openVars    == <<current_session, security_level, tester_present, session_age>>
seedVars    == <<active_seed_level, last_seed>>
sessionVars == <<openVars, seedVars>>
testerVars  == <<tester_session, tester_challenge, tester_level>>
vars == <<brand, algorithm, sessionVars, testerVars, reply>>

\* The timeouts are the defaults, which main leaves alone, in units of five
\* seconds; what only tick() reads is left at zero, main never calling it.
SM == INSTANCE SessionManager WITH
        SessionTimeouts <- {1}, SecurityTimeouts <- {2},
        DefaultSessionTimeout <- 1, DefaultSecurityTimeout <- 2,
        session_timeout <- 1, security_timeout <- 2,
        security_age <- 0, timeout_cb <- FALSE, client_session <- current_session,
        since_tick <- 0, session_overdue <- 0, security_overdue <- 0

Reply(service, sub, key, ok) == [service |-> service, sub |-> sub, key |-> key, ok |-> ok]
NoReply == Reply("none", 0, NoKey, TRUE)

Answer(service, ok) == reply' = Reply(service, 0, NoKey, ok)

Init ==
  /\ brand \in BrandsUsed /\ algorithm \in Algorithms \cup {NoAlgorithm}
  /\ current_session = "DEFAULT" /\ security_level = 0
  /\ tester_present = FALSE /\ session_age = 0
  /\ active_seed_level = 0 /\ last_seed = NoSeed
  /\ tester_session = "DEFAULT" /\ tester_challenge = 0 /\ tester_level = 0
  /\ reply = NoReply

-----------------------------------------------------------------------------
\* What a tester notes of a positive answer, knowing only what it sent: the
\* session it asked for, the level it asked a seed of, and, when a key is
\* accepted, that the level it last held a seed of is open.  Which level the
\* sub-function of the key stands for is left to the ECU.
NoteSession(s)   == /\ tester_session' = s
                    /\ tester_level' = IF s = "DEFAULT" THEN 0 ELSE tester_level
                    /\ UNCHANGED tester_challenge
NoteChallenge(l) == tester_challenge' = l /\ UNCHANGED <<tester_session, tester_level>>
NoteOpen         == tester_level' = tester_challenge
                    /\ UNCHANGED <<tester_session, tester_challenge>>

changeSession(s) == SM!EnterSession(s) /\ UNCHANGED <<tester_present, seedVars>>

\* The session byte of 0x10 may name no session.
handleDiagnosticSessionControl(s) ==
  IF SM!isSessionAllowed(s)
    THEN changeSession(s) /\ NoteSession(s) /\ Answer("10", TRUE)
    ELSE UNCHANGED <<sessionVars, testerVars>> /\ Answer("10", FALSE)

\* Slip: the seed is filed under the level of its key.
SeedLevelOfKey(sub) == sub + 1

\* An odd sub-function is the level; an even one has its lowest bit set.
SeedLevel(sub) == sub
KeyLevel(sub) == sub + 1

\* Slip: the level becomes active before the generator is looked at.
RequestSeedEarlyLevel(sub) ==
  /\ active_seed_level' = SeedLevel(sub)
  /\ IF algorithm = NoAlgorithm
       THEN UNCHANGED <<last_seed, testerVars>>
       ELSE last_seed' \in Seeds /\ NoteChallenge(sub)
  /\ UNCHANGED openVars
  /\ Answer("27", algorithm # NoAlgorithm)

requestSeed(sub) ==
  /\ IF algorithm = NoAlgorithm
       THEN UNCHANGED <<seedVars, testerVars>>
       ELSE /\ active_seed_level' = SeedLevel(sub) /\ last_seed' \in Seeds
            /\ NoteChallenge(sub)
  /\ UNCHANGED openVars
  /\ Answer("27", algorithm # NoAlgorithm)

\* Slip: the key is compared, its level is not.
SendKeyAtAnyLevel(sub, key) ==
  /\ IF SM!KeyAcceptedAtAnyLevel(KeyLevel(sub), key)
       THEN security_level' = KeyLevel(sub) /\ NoteOpen
       ELSE UNCHANGED <<security_level, testerVars>>
  /\ UNCHANGED <<current_session, tester_present, session_age, seedVars>>
  /\ reply' = Reply("27", sub, key, SM!KeyAcceptedAtAnyLevel(KeyLevel(sub), key))

sendKey(sub, key) ==
  /\ IF SM!KeyAccepted(KeyLevel(sub), key)
       THEN security_level' = KeyLevel(sub) /\ NoteOpen
       ELSE UNCHANGED <<security_level, testerVars>>
  /\ UNCHANGED <<current_session, tester_present, session_age, seedVars>>
  /\ reply' = Reply("27", sub, key, SM!KeyAccepted(KeyLevel(sub), key))

handleSecurityAccess(sub, key) ==
  IF sub % 2 = 1 THEN requestSeed(sub) ELSE sendKey(sub, key)

\* setTesterPresent(true) and resetTimers; nothing ever sets it back.
handleTesterPresent ==
  /\ tester_present' = TRUE /\ session_age' = 0
  /\ UNCHANGED <<current_session, security_level, active_seed_level, last_seed, testerVars>>
  /\ Answer("3E", TRUE)

\* A physical request, dispatched by the brand.  Those that touch no session
\* are answered one way or the other, and refused when the brand lacks them.
SessionRequest(s) ==
  Handler(brand, "10") = "10" /\ handleDiagnosticSessionControl(s) /\ UNCHANGED <<brand, algorithm>>
SecurityRequest(sub, key) ==
  Handler(brand, "27") = "27" /\ handleSecurityAccess(sub, key) /\ UNCHANGED <<brand, algorithm>>
TesterPresentRequest ==
  Handler(brand, "3E") = "3E" /\ handleTesterPresent /\ UNCHANGED <<brand, algorithm>>
OtherRequest(service) ==
  /\ Handler(brand, service) \notin {"10", "27", "3E"}
  /\ \E ok \in BOOLEAN : (Handler(brand, service) = "refuse" => ~ok) /\ Answer(service, ok)
  /\ UNCHANGED <<brand, algorithm, sessionVars, testerVars>>

\* Time passes; nobody calls tick().
Elapse ==
  /\ session_age < AgeCap
  /\ session_age' = session_age + 1 /\ reply' = NoReply
  /\ UNCHANGED <<brand, algorithm, current_session, security_level, tester_present,
                 active_seed_level, last_seed, testerVars>>

Next ==
  \/ \E s \in SM!Sessions \cup {"unnamed"} : SessionRequest(s)
  \/ \E sub \in SubLevels, key \in Keys : SecurityRequest(sub, key)
  \/ TesterPresentRequest
  \/ \E service \in Services : OtherRequest(service)
  \/ Elapse

Spec == Init /\ [][Next]_vars

-----------------------------------------------------------------------------
TypeOK ==
  /\ brand \in Brands /\ algorithm \in Algorithms \cup {NoAlgorithm}
  /\ current_session \in SM!Sessions /\ tester_session \in SM!Sessions
  /\ security_level \in Levels \cup {0} /\ tester_level \in Levels \cup {0}
  /\ tester_challenge \in Levels \cup {0}
  /\ active_seed_level \in Levels \cup {0} /\ last_seed \in Seeds \cup {NoSeed}
  /\ tester_present \in BOOLEAN /\ session_age \in 0 .. AgeCap
  /\ reply \in [service : Services \cup {"none"}, sub : SubLevels \cup {0},
                key : Keys \cup {NoKey}, ok : BOOLEAN]

\* A tester that believes every answer is never wrong about the session or the
\* open level, over any sequence of requests: a key is accepted only for the
\* level whose seed was handed out last, whatever level its sub-function names
\* (base.cpp, 0x10 and 0x27; session_manager.cpp, sendKey).
TesterInSync == tester_session = current_session /\ tester_level = security_level

\* A refused request leaves no trace, so that a tester may go on as if it had
\* not sent it (base.cpp and session_manager.cpp, the early returns).
RefusalChangesNothing ==
  [][~reply'.ok => UNCHANGED <<current_session, security_level, tester_present,
                               active_seed_level, last_seed>>]_vars

\* Through every brand's dispatch the ECU still implements the session it
\* promises: no level opens but in answer to its own challenge.
DS == INSTANCE DiagnosticSession WITH
        session   <- current_session,
        level     <- security_level,
        challenge <- IF last_seed = NoSeed THEN 0 ELSE active_seed_level

ImplementsSession == DS!DSpec

\* A session nobody keeps alive ends once its timeout has passed.
IdleSessionEnds ==
  current_session # "DEFAULT" /\ ~tester_present => session_age <= 1 + TickPeriod

\* The right key, sent as the sub-function after that of its seed, is accepted.
KeyFollowsSeed ==
  reply.service = "27" /\ reply.sub = active_seed_level + 1
    /\ last_seed # NoSeed /\ reply.key = KeyFor[algorithm][last_seed]
  => reply.ok
=============================================================================
