------------------------- MODULE DiagnosticSession -------------------------
(***************************************************************************)
(* What the diagnostic session of one ECU promises its tester, without     *)
(* timers, callbacks or keys: which session may follow which, and that a   *)
(* security level is open only as the answer to a challenge of that very   *)
(* level.  SessionManager implements it.                                   *)
(***************************************************************************)
EXTENDS Naturals

CONSTANT Levels                     \* the security levels a tester can open

VARIABLES session,                  \* the active diagnostic session
          level,                    \* the open security level, 0 when locked
          challenge                 \* the level challenged last, 0 if none

dvars == <<session, level, challenge>>

\* UDSSession, without the values the code has no name for.
Sessions == {"DEFAULT", "PROGRAMMING", "EXTENDED", "SAFETY"}

\* The sessions each session may be left for.
Successors == [s \in Sessions |->
                 CASE s = "DEFAULT"     -> {"DEFAULT", "EXTENDED", "PROGRAMMING"}
                   [] s = "EXTENDED"    -> {"DEFAULT", "EXTENDED"}
                   [] s = "PROGRAMMING" -> {"DEFAULT"}
                   [] s = "SAFETY"      -> {}]

DInit == session = "DEFAULT" /\ level = 0 /\ challenge = 0

\* Entering the default session closes the security level.
Enter(s) == /\ s \in Successors[session]
            /\ session' = s
            /\ level' = IF s = "DEFAULT" THEN 0 ELSE level
            /\ UNCHANGED challenge

Challenge(l) == challenge' = l /\ UNCHANGED <<session, level>>

\* The level opened is the level challenged.
Open == /\ challenge # 0
        /\ level' = challenge
        /\ UNCHANGED <<session, challenge>>

Close == level' = 0 /\ challenge' = 0 /\ UNCHANGED session

DNext == \/ \E s \in Sessions : Enter(s)
         \/ \E l \in Levels : Challenge(l)
         \/ Open
         \/ Close

DSpec == DInit /\ [][DNext]_dvars
=============================================================================
