---------------------------- MODULE Program_proofs ----------------------------
(***************************************************************************)
(* Proofs about Program, for any distances, settings, rounding and numbers *)
(* of clients.                                                             *)
(*                                                                         *)
(* Registers: a value loaded and not stored yet is one that leads to what   *)
(* the counter should show, and only then is the trip the counter at work. *)
(* Ordered: which thread is there, and which is not, follows from the      *)
(* place the main thread has reached.                                      *)
(* Asked: a request read once main was ready finds the handler, and is not *)
(* among those that go to the status document.                             *)
(***************************************************************************)
EXTENDS Program, TLAPS

Registers ==
  /\ main_meter = "trip" => main_pc \in {"load", "store"}
  /\ main_pc = "store" => Plus(main_reg, odo_accum) \in {due[main_meter], lost[main_meter]}

BeforeRest    == {"start_can", "start_rest"}
BeforeHandler == BeforeRest \cup {"start_ws", "set_handler", "setting_handler"}
AfterCan      == {"close_db", "returned"}
AfterWs       == {"stop_can"} \cup AfterCan
AfterRest     == {"stop_ws", "join_ws"} \cup AfterWs

Ordered ==
  /\ main_pc \in BeforeRest => rest_pc = "none"
  /\ main_pc \notin BeforeHandler => handler = "set"
  /\ main_pc \in AfterRest => rest_pc = "done"
  /\ main_pc \in AfterWs => ws_pc = "done"
  /\ main_pc \in AfterCan => ~can_up
  /\ main_pc = "returned" => ~db_open

Asked ==
  /\ asked_ready => Ready
  /\ rest_pc = "default" => ~asked_ready
  /\ rest_pc \in {"accept", "read", "wait"} => answer = "none"
  /\ answer = "default" => ~asked_ready

IInv == TypeOK /\ MileageAddsUp /\ Registers /\ Ordered /\ Asked

-----------------------------------------------------------------------------
LEMMA ClampedIsNat == ASSUME NEW v \in Int PROVE AtLeast0(v) \in Nat
  BY DEF AtLeast0

LEMMA PlusIsNat == ASSUME NEW a \in Nat, NEW b \in Nat PROVE Plus(a, b) \in Nat
<1> DEFINE up == a + b + ((Grain - 1) \div 2)
<1>1. Grain \in Nat /\ Grain > 0 /\ Exact \in Nat
    BY ProgramAssumption
<1>2. (Grain - 1) \div 2 \in Nat
    BY <1>1
<1>3. up \in Nat
    BY <1>2
<1>4. up \div Grain \in Nat
  <2> HIDE DEF up
  <2> QED BY <1>1, <1>3
<1>5. Grain * (up \div Grain) \in Nat
  <2> HIDE DEF up
  <2> QED BY <1>1, <1>4
<1> QED BY <1>5 DEF Plus

LEMMA OnTopIsNat ==
  ASSUME TypeOK, NEW m \in Meters, NEW v \in Nat PROVE OnTop(m, v) \in Nat
  BY PlusIsNat DEF OnTop, TypeOK

LEMMA NothingIsRequest == Nothing \in Requests
  BY DEF Nothing, Requests

LEMMA InitIInv == Init => IInv
<1> SUFFICES ASSUME Init PROVE IInv
    OBVIOUS
<1>1. PICK v \in Initials :
        /\ km = [m \in Meters |-> IF m = "odometer" THEN AtLeast0(v) ELSE 0]
        /\ due = km /\ lost = km
    BY DEF Init
<1>2. AtLeast0(v) \in Nat
    BY ClampedIsNat, ProgramAssumption
<1>3. km \in [Meters -> Nat] /\ due \in [Meters -> Nat] /\ lost \in [Meters -> Nat]
    BY <1>1, <1>2
<1>4. TypeOK
  <2>1. db_open \in DbOpens /\ DbOpens \subseteq BOOLEAN
      BY ProgramAssumption, Zenon DEF Init
  <2>2. db_open \in BOOLEAN
      BY <2>1, Zenon
  <2>3. /\ g_running \in BOOLEAN /\ alive \in BOOLEAN /\ can_up \in BOOLEAN
        /\ rest_running \in BOOLEAN /\ ws_running \in BOOLEAN /\ asked_ready \in BOOLEAN
      BY Zenon DEF Init
  <2>4. /\ main_pc = "start_can" /\ rest_pc = "none" /\ ws_pc = "none" /\ main_meter = "odometer"
        /\ handler = "none" /\ generator = "none" /\ answer = "none" /\ request = Nothing
      BY DEF Init
  <2>5. /\ odo_accum = 0 /\ driven = 0 /\ main_reg = 0
        /\ waiting = 0 /\ untimed = 0 /\ clients = 0
      BY DEF Init
  <2> QED BY <1>3, <2>2, <2>3, <2>4, <2>5, NothingIsRequest DEF TypeOK, Meters
<1>5. MileageAddsUp
    BY <1>1 DEF Init, MileageAddsUp, OnTop, Pending
<1>6. Registers /\ Ordered /\ Asked
    BY DEF Init, Registers, Ordered, Asked, BeforeRest, BeforeHandler, AfterCan, AfterWs, AfterRest
<1> QED BY <1>4, <1>5, <1>6 DEF IInv

-----------------------------------------------------------------------------
\* Setting a counter keeps the types.
LEMMA SetMeterType ==
  ASSUME TypeOK, NEW m \in Meters, NEW v \in Nat, SetMeter(m, v)
  PROVE  km' \in [Meters -> Nat] /\ due' \in [Meters -> Nat] /\ lost' \in [Meters -> Nat]
<1>1. OnTop(m, v) \in Nat /\ OnTop(m, IF main_pc = "store" /\ main_meter = m
                                        THEN main_reg ELSE v) \in Nat
    BY OnTopIsNat DEF TypeOK
<1> QED BY <1>1 DEF TypeOK, SetMeter

LEMMA NextTypeOK == TypeOK /\ [Next]_vars => TypeOK'
<1> SUFFICES ASSUME TypeOK, [Next]_vars PROVE TypeOK'
    OBVIOUS
<1> USE ProgramAssumption
<1> USE DEF mainVars, meterVars, loopVars, upVars, restVars, askVars, netVars, wsVars
<1>1. CASE Signal
  <2>1. g_running' = FALSE
      BY <1>1, Zenon DEF Signal
  <2>2. g_running' \in BOOLEAN
      BY <2>1, Zenon
  <2>3. UNCHANGED <<main_pc, alive, meterVars, loopVars, upVars, restVars, netVars, wsVars>>
      BY <1>1, Zenon DEF Signal
  <2> QED BY <2>2, <2>3 DEF TypeOK
<1>2. CASE StartCan
  <2>1. main_pc' = "start_rest" /\ UNCHANGED <<g_running, alive>>
      BY <1>2 DEF StartCan, Goto
  <2>2. can_up' \in BOOLEAN
      BY <1>2, Zenon DEF StartCan
  <2>3. UNCHANGED <<meterVars, loopVars, db_open, restVars, netVars, wsVars>>
      BY <1>2, Zenon DEF StartCan
  <2> QED BY <2>1, <2>2, <2>3 DEF TypeOK
<1>3. CASE StartRest
    BY <1>3 DEF StartRest, Goto, TypeOK
<1>4. CASE StartWs
    BY <1>4 DEF StartWs, Goto, TypeOK
<1>5. CASE SetRouteHandler
    BY <1>5 DEF SetRouteHandler, Goto, TypeOK
<1>6. CASE SetUpdateGenerator
    BY <1>6 DEF SetUpdateGenerator, Goto, TypeOK
<1>7. CASE Drive
  <2>1. PICK d \in Covered : driven' = driven + d /\ odo_accum' = Plus(odo_accum, d)
      BY <1>7 DEF Drive
  <2>2. driven' \in Nat /\ odo_accum' \in Nat
      BY <2>1, PlusIsNat DEF TypeOK
  <2>3. main_pc' \in {"load", "loop"} /\ UNCHANGED <<g_running, alive>>
      BY <1>7 DEF Drive, Goto
  <2>4. due' \in [Meters -> Nat] /\ lost' \in [Meters -> Nat]
    <3>1. \A m \in Meters : Plus(due[m], odo_accum') \in Nat /\ Plus(lost[m], odo_accum') \in Nat
        BY <2>2, PlusIsNat DEF TypeOK
    <3>2. CASE odo_accum' >= Enough
        BY <1>7, <3>1, <3>2 DEF Drive
    <3>3. CASE ~(odo_accum' >= Enough)
        BY <1>7, <3>3 DEF Drive, TypeOK
    <3> QED BY <3>2, <3>3
  <2> QED BY <1>7, <2>2, <2>3, <2>4 DEF Drive, TypeOK
<1>8. CASE LoadMeter
    BY <1>8 DEF LoadMeter, Goto, TypeOK
<1>9. CASE StoreMeter
  <2>1. Plus(main_reg, odo_accum) \in Nat
      BY PlusIsNat DEF TypeOK
  <2>4. km' \in [Meters -> Nat]
      BY <1>9, <2>1 DEF StoreMeter, TypeOK
  <2>2. main_meter' \in Meters /\ main_pc' \in {"load", "loop"} /\ odo_accum' \in Nat
      BY <1>9 DEF StoreMeter, Goto, TypeOK, Meters
  <2>3. main_reg' \in Nat
      BY <1>9 DEF StoreMeter
  <2> QED BY <1>9, <2>2, <2>3, <2>4 DEF StoreMeter, Goto, TypeOK
<1>10. CASE EndLoop \/ StopRest \/ JoinRest \/ StopWs \/ JoinWs \/ StopCan \/ CloseDb
  <2>1. CASE EndLoop \/ JoinRest \/ JoinWs
      BY <2>1 DEF EndLoop, JoinRest, JoinWs, Goto, TypeOK
  <2>2. CASE StopRest
    <3>1. rest_running' = FALSE /\ main_pc' = "join_rest" /\ UNCHANGED <<g_running, alive>>
        BY <2>2, Zenon DEF StopRest, Goto
    <3>2. rest_running' \in BOOLEAN
        BY <3>1, Zenon
    <3>3. UNCHANGED <<meterVars, loopVars, upVars, rest_pc, handler, askVars, netVars, wsVars>>
        BY <2>2, Zenon DEF StopRest
    <3> QED BY <3>1, <3>2, <3>3 DEF TypeOK
  <2>3. CASE StopWs
    <3>1. ws_running' = FALSE /\ main_pc' = "join_ws" /\ UNCHANGED <<g_running, alive>>
        BY <2>3, Zenon DEF StopWs, Goto
    <3>2. ws_running' \in BOOLEAN
        BY <3>1, Zenon
    <3>3. UNCHANGED <<meterVars, loopVars, upVars, restVars, netVars, ws_pc, generator>>
        BY <2>3, Zenon DEF StopWs
    <3> QED BY <3>1, <3>2, <3>3 DEF TypeOK
  <2>4. CASE StopCan
    <3>1. can_up' = FALSE /\ main_pc' = "close_db" /\ UNCHANGED <<g_running, alive>>
        BY <2>4, Zenon DEF StopCan, Goto
    <3>2. can_up' \in BOOLEAN
        BY <3>1, Zenon
    <3>3. UNCHANGED <<meterVars, loopVars, db_open, restVars, netVars, wsVars>>
        BY <2>4, Zenon DEF StopCan
    <3> QED BY <3>1, <3>2, <3>3 DEF TypeOK
  <2>5. CASE CloseDb
    <3>1. db_open' = FALSE /\ main_pc' = "returned" /\ UNCHANGED <<g_running, alive>>
        BY <2>5, Zenon DEF CloseDb, Goto
    <3>2. db_open' \in BOOLEAN
        BY <3>1, Zenon
    <3>3. UNCHANGED <<meterVars, loopVars, can_up, restVars, netVars, wsVars>>
        BY <2>5, Zenon DEF CloseDb
    <3> QED BY <3>1, <3>2, <3>3 DEF TypeOK
  <2> QED BY <1>10, <2>1, <2>2, <2>3, <2>4, <2>5
<1>11. CASE Connect
    BY <1>11 DEF Connect, TypeOK
<1>12. CASE RestOpen \/ RestTimeout \/ RestInterrupted \/ RestLookup
  <2>1. /\ rest_pc' \in {"timeout", "check", "done", "default", "handle"}
        /\ UNCHANGED <<meterVars, netVars, askVars>>
        /\ UNCHANGED <<mainVars, loopVars, upVars, rest_running, handler, wsVars>>
      BY <1>12 DEF RestOpen, RestTimeout, RestInterrupted, RestLookup, RestGoto
  <2> QED BY <2>1 DEF TypeOK
<1>19. CASE RestDefault \/ RestRoute
  <2>1. /\ rest_pc' \in {"set", "check"} /\ answer' \in {answer, "ok", "error", "404", "default"}
        /\ UNCHANGED <<meterVars, netVars, request, asked_ready>>
        /\ UNCHANGED <<mainVars, loopVars, upVars, rest_running, handler, wsVars>>
      BY <1>19 DEF RestDefault, RestRoute, RestGoto
  <2> QED BY <2>1 DEF TypeOK
<1>13. CASE RestCheck \/ RestAccept \/ RestAcceptFails
  <2>1. CASE RestCheck
    <3>1. /\ rest_pc' \in {"accept", "done"} /\ request' = Nothing /\ answer' = "none"
          /\ <<waiting', untimed'>> \in {<<waiting, untimed>>, <<0, 0>>}
          /\ UNCHANGED <<mainVars, meterVars, loopVars, upVars, rest_running, handler, wsVars,
                          clients>>
        BY <2>1 DEF RestCheck, RestGoto
    <3>2. asked_ready' = FALSE
        BY <2>1, Zenon DEF RestCheck
    <3>3. asked_ready' \in BOOLEAN
        BY <3>2, Zenon
    <3> QED BY <3>1, <3>3, NothingIsRequest DEF TypeOK
  <2>2. CASE RestAccept
      BY <2>2 DEF RestAccept, RestGoto, TypeOK
  <2>3. CASE RestAcceptFails
      BY <2>3 DEF RestAcceptFails, RestGoto, TypeOK
  <2> QED BY <1>13, <2>1, <2>2, <2>3
<1>14. CASE RestRead
  <2>1. /\ rest_pc' \in {"check", "route"} /\ request' \in Requests
        /\ answer' \in {answer, "none", "options"}
        /\ UNCHANGED <<mainVars, meterVars, loopVars, upVars, rest_running, handler, wsVars,
                        netVars>>
      BY <1>14 DEF RestRead, RestGoto
  <2>2. asked_ready' = Ready
      BY <1>14, Zenon DEF RestRead
  <2>3. Ready \in BOOLEAN
      BY Zenon DEF Ready
  <2>4. asked_ready' \in BOOLEAN
      BY <2>2, <2>3, Zenon
  <2> QED BY <2>1, <2>4 DEF TypeOK
<1>20. CASE RestKills \/ WsKills
  <2>1. alive' = FALSE
      BY <1>20, Zenon DEF RestKills, WsKills
  <2>2. alive' \in BOOLEAN
      BY <2>1, Zenon
  <2>3. UNCHANGED <<main_pc, g_running, meterVars, loopVars, upVars, restVars, netVars, wsVars>>
      BY <1>20, Zenon DEF RestKills, WsKills
  <2> QED BY <2>2, <2>3 DEF TypeOK
<1>15. CASE RestSetOdometer
  <2>1. km' \in [Meters -> Nat] /\ due' \in [Meters -> Nat] /\ lost' \in [Meters -> Nat]
    <3>1. CASE request.set = {}
        BY <1>15, <3>1 DEF RestSetOdometer, TypeOK
    <3>2. CASE request.set # {}
      <4>1. PICK v \in request.set : SetMeter("odometer", AtLeast0(v))
          BY <1>15, <3>2 DEF RestSetOdometer
      <4>2. v \in Int
          BY <4>1 DEF TypeOK, Requests
      <4> QED BY <4>1, <4>2, ClampedIsNat, SetMeterType DEF Meters
    <3> QED BY <3>1, <3>2
  <2> QED BY <1>15, <2>1 DEF RestSetOdometer, RestGoto, TypeOK
<1>16. CASE RestResetTrip
  <2>1. km' \in [Meters -> Nat] /\ due' \in [Meters -> Nat] /\ lost' \in [Meters -> Nat]
    <3>1. CASE request.reset = "yes"
        BY <1>16, <3>1, SetMeterType DEF RestResetTrip, Meters
    <3>2. CASE request.reset # "yes"
        BY <1>16, <3>2 DEF RestResetTrip, TypeOK
    <3> QED BY <3>1, <3>2
  <2> QED BY <1>16, <2>1 DEF RestResetTrip, RestGoto, TypeOK
<1>17. CASE WsCheck \/ WsGenerate \/ WsSleep
    BY <1>17 DEF WsCheck, WsGenerate, WsSleep, WsGoto, TypeOK
<1>18. CASE UNCHANGED vars
    BY <1>18 DEF vars, TypeOK
<1> QED
  BY <1>1, <1>2, <1>3, <1>4, <1>5, <1>6, <1>7, <1>8, <1>9, <1>10, <1>11, <1>12, <1>13, <1>14,
     <1>15, <1>16, <1>17, <1>18, <1>19, <1>20 DEF Next, Main, Rest, Ws

-----------------------------------------------------------------------------
Mileage == MileageAddsUp /\ Registers

\* Setting one counter changes what it should show, and nothing else.
LEMMA SetMeterAddsUp ==
  ASSUME TypeOK, Mileage, NEW m \in Meters, NEW v \in Nat, SetMeter(m, v),
         UNCHANGED <<mainVars, loopVars>>
  PROVE  Mileage'
<1>1. UNCHANGED <<main_pc, main_reg, main_meter, odo_accum>>
    BY DEF mainVars, loopVars
<1>2. \A n, w : OnTop(n, w)' = OnTop(n, w')
    BY <1>1 DEF OnTop, Pending
<1>3. /\ km' = [km EXCEPT ![m] = v] /\ due' = [due EXCEPT ![m] = OnTop(m, v)]
      /\ lost' = [lost EXCEPT ![m] = OnTop(m, IF main_pc = "store" /\ main_meter = m
                                                THEN main_reg ELSE v)]
    BY DEF SetMeter
<1>4. /\ km \in [Meters -> Nat] /\ due \in [Meters -> Nat] /\ lost \in [Meters -> Nat]
      /\ main_meter \in Meters
    BY DEF TypeOK
<1>5. ASSUME NEW n \in Meters
      PROVE  OnTop(n, km'[n]) \in {due'[n], lost'[n]}
  <2>1. CASE n = m
      BY <1>3, <1>4, <2>1
  <2>2. CASE n # m
    <3>1. km'[n] = km[n] /\ due'[n] = due[n] /\ lost'[n] = lost[n]
        BY <1>3, <1>4, <2>2
    <3> QED BY <3>1 DEF Mileage, MileageAddsUp
  <2> QED BY <2>1, <2>2
<1>6. ASSUME main_pc = "store"
      PROVE  Plus(main_reg, odo_accum) \in {due'[main_meter], lost'[main_meter]}
  <2>1. CASE main_meter = m
    <3>1. lost'[main_meter] = OnTop(main_meter, main_reg)
        BY <1>3, <1>4, <1>6, <2>1
    <3>2. OnTop(main_meter, main_reg) = Plus(main_reg, odo_accum)
        BY <1>4, <1>6 DEF OnTop, Pending, Meters
    <3> QED BY <3>1, <3>2
  <2>2. CASE main_meter # m
    <3>1. due'[main_meter] = due[main_meter] /\ lost'[main_meter] = lost[main_meter]
        BY <1>3, <1>4, <2>2
    <3> QED BY <1>6, <3>1 DEF Mileage, Registers
  <2> QED BY <2>1, <2>2
<1>7. MileageAddsUp'
    BY <1>1, <1>5 DEF MileageAddsUp, OnTop, Pending, Plus
<1>8. Registers'
    BY <1>1, <1>6 DEF Mileage, Registers, Plus
<1> QED BY <1>7, <1>8 DEF Mileage

\* Steps that touch neither the counters nor what the loop keeps.
LEMMA OthersKeepMileage ==
  ASSUME TypeOK, Mileage, UNCHANGED <<meterVars, loopVars>>,
         main_pc' = main_pc
           \/ (main_meter = "odometer" /\ {main_pc, main_pc'} \cap {"load", "store"} = {})
  PROVE  Mileage'
<1>1. UNCHANGED <<km, due, lost, main_reg, main_meter, odo_accum>>
    BY DEF meterVars, loopVars
<1>2. \A n \in Meters : Pending(n)' <=> Pending(n)
    BY <1>1 DEF Pending
<1>3. MileageAddsUp'
    BY <1>1, <1>2 DEF Mileage, MileageAddsUp, OnTop, Plus
<1>4. Registers'
    BY <1>1 DEF Mileage, Registers, Plus
<1> QED BY <1>3, <1>4 DEF Mileage

LEMMA NextMileage == TypeOK /\ Mileage /\ [Next]_vars => Mileage'
<1> SUFFICES ASSUME TypeOK, Mileage, [Next]_vars PROVE Mileage'
    OBVIOUS
<1>0. /\ km \in [Meters -> Nat] /\ due \in [Meters -> Nat] /\ lost \in [Meters -> Nat]
      /\ main_meter \in Meters
    BY DEF TypeOK
<1>m. main_pc \notin {"load", "store"} => main_meter = "odometer"
    BY <1>0 DEF Mileage, Registers, Meters
<1>1. CASE Drive
  <2>1. /\ main_pc = "loop" /\ main_meter = "odometer"
        /\ UNCHANGED <<km, main_meter>>
      BY <1>1, <1>m DEF Drive, Goto
  <2>2. \A n \in Meters : km[n] \in {due[n], lost[n]}
      BY <2>1 DEF Mileage, MileageAddsUp, OnTop, Pending
  <2>3. CASE odo_accum' >= Enough
    <3>1. /\ main_pc' = "load"
          /\ due'  = [m \in Meters |-> Plus(due[m], odo_accum')]
          /\ lost' = [m \in Meters |-> Plus(lost[m], odo_accum')]
        BY <1>1, <2>3 DEF Drive, Goto
    <3>2. \A n \in Meters : OnTop(n, km[n])' = Plus(km[n], odo_accum')
        BY <2>1, <3>1 DEF OnTop, Pending, Plus
    <3>3. \A n \in Meters : due'[n] = Plus(due[n], odo_accum') /\ lost'[n] = Plus(lost[n], odo_accum')
        BY <3>1
    <3>4. MileageAddsUp'
        BY <2>2, <3>2, <3>3 DEF MileageAddsUp
    <3> QED BY <2>1, <3>1, <3>4 DEF Mileage, Registers
  <2>4. CASE ~(odo_accum' >= Enough)
    <3>1. main_pc' = "loop" /\ UNCHANGED <<due, lost>>
        BY <1>1, <2>4 DEF Drive, Goto
    <3> QED BY <2>1, <2>2, <3>1 DEF Mileage, MileageAddsUp, Registers, OnTop, Pending
  <2> QED BY <2>3, <2>4
<1>2. CASE LoadMeter
  <2>1. /\ main_reg' = km[main_meter] /\ main_pc = "load" /\ main_pc' = "store"
        /\ UNCHANGED <<km, due, lost, odo_accum, main_meter>>
      BY <1>2 DEF LoadMeter, Goto, meterVars
  <2>2. \A n \in Meters : OnTop(n, km[n])' = OnTop(n, km[n])
      BY <2>1 DEF OnTop, Pending, Plus
  <2>3. MileageAddsUp'
      BY <2>1, <2>2 DEF Mileage, MileageAddsUp
  <2>4. OnTop(main_meter, km[main_meter]) = Plus(km[main_meter], odo_accum)
      BY <1>0, <2>1 DEF OnTop, Pending, Meters
  <2>5. Plus(main_reg', odo_accum) \in {due[main_meter], lost[main_meter]}
      BY <1>0, <2>1, <2>4 DEF Mileage, MileageAddsUp
  <2>6. Registers'
      BY <2>1, <2>5 DEF Registers, Plus
  <2> QED BY <2>3, <2>6 DEF Mileage
<1>3. CASE StoreMeter
  <2>1. /\ main_pc = "store" /\ km' = [km EXCEPT ![main_meter] = Plus(main_reg, odo_accum)]
        /\ UNCHANGED <<due, lost>>
      BY <1>3 DEF StoreMeter, Goto
  <2>2. Plus(main_reg, odo_accum) \in {due[main_meter], lost[main_meter]}
      BY <2>1 DEF Mileage, Registers
  <2>3. km'[main_meter] \in {due[main_meter], lost[main_meter]}
      BY <1>0, <2>1, <2>2
  <2>4. \A n \in Meters : n # main_meter => km'[n] = km[n]
      BY <1>0, <2>1
  <2>5. CASE main_meter = "odometer"
    <3>1. main_meter' = "trip" /\ odo_accum' = odo_accum /\ main_pc' = "load"
        BY <1>3, <2>5 DEF StoreMeter, Goto
    <3>2. OnTop("odometer", km["odometer"])' = km'["odometer"]
        BY <3>1 DEF OnTop, Pending
    <3>3. OnTop("trip", km["trip"])' = OnTop("trip", km["trip"])
        BY <2>1, <2>4, <2>5, <3>1 DEF OnTop, Pending, Plus, Meters
    <3>4. OnTop("trip", km["trip"]) \in {due["trip"], lost["trip"]}
        BY DEF Mileage, MileageAddsUp, Meters
    <3>5. MileageAddsUp'
        BY <2>1, <2>3, <2>5, <3>2, <3>3, <3>4 DEF MileageAddsUp, Meters
    <3> QED BY <3>1, <3>5 DEF Mileage, Registers
  <2>6. CASE main_meter = "trip"
    <3>1. main_meter' = "odometer" /\ main_pc' = "loop"
        BY <1>3, <2>6 DEF StoreMeter, Goto
    <3>2. \A n \in Meters : OnTop(n, km[n])' = km'[n]
        BY <3>1 DEF OnTop, Pending
    <3>3. km["odometer"] \in {due["odometer"], lost["odometer"]}
        BY <2>1, <2>6 DEF Mileage, MileageAddsUp, OnTop, Pending, Meters
    <3>4. MileageAddsUp'
        BY <2>1, <2>3, <2>4, <2>6, <3>2, <3>3 DEF MileageAddsUp, Meters
    <3> QED BY <3>1, <3>4 DEF Mileage, Registers
  <2> QED BY <1>0, <2>5, <2>6 DEF Meters
<1>4. CASE StartCan \/ StartRest \/ StartWs \/ SetRouteHandler \/ SetUpdateGenerator
    BY <1>4, <1>m, OthersKeepMileage
       DEF StartCan, StartRest, StartWs, SetRouteHandler, SetUpdateGenerator, Goto
<1>5. CASE EndLoop \/ StopRest \/ JoinRest \/ StopWs \/ JoinWs \/ StopCan \/ CloseDb
    BY <1>5, <1>m, OthersKeepMileage
       DEF EndLoop, StopRest, JoinRest, StopWs, JoinWs, StopCan, CloseDb, Goto
<1>6. CASE Signal \/ Connect \/ Ws
    BY <1>6, OthersKeepMileage
       DEF Signal, Connect, Ws, WsCheck, WsGenerate, WsSleep, WsKills, WsGoto, mainVars
<1>7. CASE RestOpen \/ RestTimeout \/ RestCheck \/ RestAccept \/ RestInterrupted
             \/ RestAcceptFails \/ RestKills
    BY <1>7, OthersKeepMileage
       DEF RestOpen, RestTimeout, RestCheck, RestAccept, RestInterrupted, RestAcceptFails,
           RestKills, RestGoto, mainVars
<1>8. CASE RestRead \/ RestLookup \/ RestDefault \/ RestRoute
    BY <1>8, OthersKeepMileage
       DEF RestRead, RestLookup, RestDefault, RestRoute, RestGoto, mainVars
<1>9. CASE RestSetOdometer
  <2>1. CASE request.set = {}
      BY <1>9, <2>1, OthersKeepMileage DEF RestSetOdometer, RestGoto, mainVars
  <2>2. CASE request.set # {}
    <3>1. PICK v \in request.set : SetMeter("odometer", AtLeast0(v))
        BY <1>9, <2>2 DEF RestSetOdometer
    <3>2. v \in Int /\ "odometer" \in Meters
        BY <3>1, ProgramAssumption DEF TypeOK, Requests, Meters
    <3>3. UNCHANGED <<mainVars, loopVars>>
        BY <1>9 DEF RestSetOdometer, RestGoto
    <3> QED BY <3>1, <3>2, <3>3, ClampedIsNat, SetMeterAddsUp
  <2> QED BY <2>1, <2>2
<1>10. CASE RestResetTrip
  <2>1. UNCHANGED <<mainVars, loopVars>>
      BY <1>10 DEF RestResetTrip, RestGoto
  <2>2. CASE request.reset = "yes"
      BY <1>10, <2>1, <2>2, SetMeterAddsUp DEF RestResetTrip, Meters
  <2>3. CASE request.reset # "yes"
      BY <1>10, <2>1, <2>3, OthersKeepMileage DEF RestResetTrip, mainVars
  <2> QED BY <2>2, <2>3
<1>11. CASE UNCHANGED vars
    BY <1>11, OthersKeepMileage DEF vars, mainVars
<1> QED
  BY <1>1, <1>2, <1>3, <1>4, <1>5, <1>6, <1>7, <1>8, <1>9, <1>10, <1>11 DEF Next, Main, Rest

-----------------------------------------------------------------------------
LEMMA NextOrdered == Ordered /\ [Next]_vars => Ordered'
<1> SUFFICES ASSUME Ordered, [Next]_vars PROVE Ordered'
    OBVIOUS
<1> USE DEF Ordered, BeforeRest, BeforeHandler, AfterCan, AfterWs, AfterRest
<1> USE DEF mainVars, upVars, restVars, askVars, wsVars
<1>1. CASE Signal \/ Connect
    BY <1>1 DEF Signal, Connect
<1>2. CASE StartCan
    BY <1>2 DEF StartCan, Goto
<1>3. CASE StartRest
    BY <1>3 DEF StartRest, Goto
<1>4. CASE StartWs
    BY <1>4 DEF StartWs, Goto
<1>5. CASE SetRouteHandler
    BY <1>5 DEF SetRouteHandler, Goto
<1>6. CASE SetUpdateGenerator
    BY <1>6 DEF SetUpdateGenerator, Goto
<1>7. CASE Drive \/ LoadMeter \/ StoreMeter \/ EndLoop
    BY <1>7 DEF Drive, LoadMeter, StoreMeter, EndLoop, Goto
<1>8. CASE StopRest \/ JoinRest
    BY <1>8 DEF StopRest, JoinRest, Goto
<1>9. CASE StopWs \/ JoinWs
    BY <1>9 DEF StopWs, JoinWs, Goto
<1>10. CASE StopCan
    BY <1>10 DEF StopCan, Goto
<1>11. CASE CloseDb
    BY <1>11 DEF CloseDb, Goto
<1>12. CASE Rest
    BY <1>12 DEF Rest, RestOpen, RestTimeout, RestCheck, RestAccept, RestInterrupted,
                 RestAcceptFails, RestRead, RestLookup, RestDefault, RestRoute, RestSetOdometer,
                 RestResetTrip, RestKills, RestGoto
<1>13. CASE Ws
    BY <1>13 DEF Ws, WsCheck, WsGenerate, WsSleep, WsKills, WsGoto
<1>14. CASE UNCHANGED vars
    BY <1>14 DEF vars
<1> QED
  BY <1>1, <1>2, <1>3, <1>4, <1>5, <1>6, <1>7, <1>8, <1>9, <1>10, <1>11, <1>12, <1>13, <1>14
     DEF Next, Main

-----------------------------------------------------------------------------
LEMMA NextAsked == Ordered /\ Asked /\ [Next]_vars => Asked'
<1> SUFFICES ASSUME Ordered, Asked, [Next]_vars PROVE Asked'
    OBVIOUS
<1> USE DEF Asked, Ready, mainVars, restVars, askVars
<1>1. Ready => handler = "set"
    BY DEF Ordered, BeforeHandler, BeforeRest
<1>2. CASE Main
    BY <1>2 DEF Main, StartCan, StartRest, StartWs, SetRouteHandler, SetUpdateGenerator, Drive,
                LoadMeter, StoreMeter, EndLoop, StopRest, JoinRest, StopWs, JoinWs, StopCan,
                CloseDb, Goto
<1>3. CASE Signal \/ Connect \/ Ws
    BY <1>3 DEF Signal, Connect, Ws, WsCheck, WsGenerate, WsSleep, WsKills, WsGoto
<1>4. CASE RestRead
  <2>1. /\ answer = "none" /\ answer' \in {answer, "none", "options"}
        /\ rest_pc' \in {"check", "route"} /\ main_pc' = main_pc
      BY <1>4 DEF RestRead, RestGoto
  <2>2. asked_ready' => Ready
      BY <1>4 DEF RestRead
  <2> QED BY <2>1, <2>2
<1>5. CASE RestLookup
    BY <1>1, <1>5 DEF RestLookup, RestGoto
<1>6. CASE RestOpen \/ RestTimeout \/ RestCheck \/ RestAccept \/ RestInterrupted \/ RestAcceptFails
    BY <1>6 DEF RestOpen, RestTimeout, RestCheck, RestAccept, RestInterrupted, RestAcceptFails,
                RestGoto
<1>7. CASE RestDefault \/ RestRoute \/ RestSetOdometer \/ RestResetTrip \/ RestKills
    BY <1>7 DEF RestDefault, RestRoute, RestSetOdometer, RestResetTrip, RestKills, RestGoto
<1>8. CASE UNCHANGED vars
    BY <1>8 DEF vars
<1> QED BY <1>2, <1>3, <1>4, <1>5, <1>6, <1>7, <1>8 DEF Next, Rest

THEOREM Invariance == Spec => []IInv
<1>1. IInv /\ [Next]_vars => IInv'
    BY NextTypeOK, NextMileage, NextOrdered, NextAsked DEF IInv, Mileage
<1> QED BY <1>1, InitIInv, PTL DEF Spec

\* Every variable keeps its type, and no counter is ever negative.
THEOREM TypeCorrect == Spec => []TypeOK
<1>1. IInv => TypeOK
    BY DEF IInv
<1> QED BY <1>1, Invariance, PTL

\* For any distances, settings and rounding, each counter is the sum, in floats,
\* of its last setting and every distance passed on since, each once; a
\* setting that is lost is lost whole.
THEOREM MileageCorrect == Spec => []MileageAddsUp
<1>1. IInv => MileageAddsUp
    BY DEF IInv
<1> QED BY <1>1, Invariance, PTL

\* No thread outlives the locals of main its lambdas refer to.
THEOREM MainOutlivesThreads == Spec => []NothingOutlivesMain
<1>1. IInv => NothingOutlivesMain
    BY DEF IInv, Ordered, NothingOutlivesMain, AfterCan, AfterWs, AfterRest
<1> QED BY <1>1, Invariance, PTL

\* A request read once the program was ready reaches the routes, however the
\* lookup of the handler falls between the steps of its assignment.
THEOREM AlwaysRouted == Spec => []RoutedOnceReady
<1>1. IInv => RoutedOnceReady
    BY DEF IInv, Asked, RoutedOnceReady
<1> QED BY <1>1, Invariance, PTL
=============================================================================
