------------------------------- MODULE Library -------------------------------
(***************************************************************************)
(* The classes the running program builds or links but connects to nothing *)
(* else: log files, replay, access control, fault memory, database, seed   *)
(* and key, vehicle numbers, and the encoding of mode 01.  They share no   *)
(* state; each is followed alone, and part says which.                     *)
(***************************************************************************)
EXTENDS AccessControl, LogFiles, Replay, FaultMemory, Database, SeedKey, VinDecoder, Obd

VARIABLE part

Parts == {"access", "log", "replay", "faults", "database", "seed", "vin", "obd"}

Init ==
  /\ part \in Parts
  /\ AccessInit /\ LogInit /\ ReplayInit /\ FaultInit /\ DbInit /\ SeedInit
  /\ VinInit /\ ObdInit

\* One class moves, the others stay as they are.
Alone(p) ==
  /\ part = p /\ UNCHANGED part
  /\ p = "access" \/ UNCHANGED accessVars
  /\ p = "log" \/ UNCHANGED logVars
  /\ p = "replay" \/ UNCHANGED replayVars
  /\ p = "faults" \/ UNCHANGED faultVars
  /\ p = "database" \/ UNCHANGED dbVars
  /\ p = "seed" \/ UNCHANGED seedVars
  /\ p = "vin" \/ UNCHANGED vinVars
  /\ p = "obd" \/ UNCHANGED obdVars

Next ==
  \/ Alone("access") /\ AccessNext
  \/ Alone("log") /\ LogNext
  \/ Alone("replay") /\ ReplayNext
  \/ Alone("faults") /\ FaultNext
  \/ Alone("database") /\ DbNext
  \/ Alone("seed") /\ SeedNext
  \/ Alone("vin") /\ VinNext
  \/ Alone("obd") /\ ObdNext

vars == <<part, accessVars, logVars, replayVars, faultVars, dbVars, seedVars, vinVars, obdVars>>

Spec == Init /\ [][Next]_vars
=============================================================================
