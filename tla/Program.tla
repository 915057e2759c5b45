------------------------------- MODULE Program -------------------------------
(***************************************************************************)
(* main.cpp as threads: the main thread (start-up, simulation loop,        *)
(* shutdown), the HTTP thread of api/rest_api.cpp and the update thread of *)
(* api/websocket.cpp.  Their lambdas hold references to main's locals, and *)
(* they share the two mileage counters of the selected brand, which        *)
(* nothing locks: an increment is a load and a store.                      *)
(*                                                                         *)
(* The CAN threads are one flag here (CANManager models them).  Distances  *)
(* are float, whose additions round (Plus); Enough of them make the loop   *)
(* pass them on.                                                           *)
(***************************************************************************)
EXTENDS Integers

CONSTANTS Initials, Settings,       \* kilometres of config.json, and of POST /odometer
          Covered,                  \* distances one pass of the loop may cover
          Enough,                   \* odo_accum from which the loop passes it on
          Exact, Grain,             \* floats: every unit up to Exact, then the multiples of Grain
          DbOpens,                  \* whether the database can be opened: TRUE, FALSE or both
          MaxDriven, MaxClients     \* bounds: distance in all, connections in all

ASSUME ProgramAssumption ==
  /\ Initials \subseteq Int /\ Settings \subseteq Int
  /\ Covered \subseteq Nat
  /\ Exact \in Nat /\ Grain \in Nat \ {0}
  /\ Enough \in Nat \ {0}
  /\ DbOpens \subseteq BOOLEAN
  /\ MaxDriven \in Nat /\ MaxClients \in Nat

Meters == {"odometer", "trip"}

\* A request is what apiLoop and the routes tell apart.  "post" is a
\* POST /odometer whose body is read: set holds the kilometres given, if any;
\* a reset_trip that is not a Boolean throws.  "malformed" is a POST whose body
\* the route refuses; so is every one with a request line ended by CRLF alone,
\* which the header loop takes for the empty line: its body is never read.
\* "get" is a route that answers, "silent" a client that sends nothing.
Requests ==
  [kind : {"post"}, set : {{}} \cup {{v} : v \in Settings}, reset : {"no", "yes", "bad"}]
    \cup [kind : {"get", "unknown", "options", "malformed", "silent"},
          set : {{}}, reset : {"no"}]
Nothing == [kind |-> "silent", set |-> {}, reset |-> "no"]

VARIABLES main_pc, g_running,
          alive,                    \* FALSE once the process died otherwise than by main
          km,                       \* odometer_km_ and trip_km_
          odo_accum, main_reg, main_meter,   \* loop: distance kept, value loaded, counter at
          db_open, can_up,
          rest_running, rest_pc,
          handler, generator,       \* the two std::function: "none", "torn", "set"
          waiting, untimed, clients, \* connections to accept, those of them
                                    \* without timeout, and ever made
          request, answer,          \* the one being served, the last one sent
          asked_ready,              \* main had reported itself ready when it was read
          ws_running, ws_pc,
          driven,                   \* distance covered so far
          due, lost                 \* what each counter should show: see MileageAddsUp

mainVars  == <<main_pc, g_running, alive>>
meterVars == <<km, due, lost>>
loopVars  == <<odo_accum, main_reg, main_meter, driven>>
upVars    == <<db_open, can_up>>
askVars   == <<request, answer, asked_ready>>
restVars  == <<rest_running, rest_pc, handler, askVars>>
netVars   == <<waiting, untimed, clients>>
wsVars    == <<ws_running, ws_pc, generator>>
vars == <<mainVars, meterVars, loopVars, upVars, restVars, netVars, wsVars>>

\* Addition of two floats: the nearest float, so that a large reading may
\* round a small distance away.
Plus(a, b) ==
  IF a + b <= Exact THEN a + b ELSE Grain * ((a + b + ((Grain - 1) \div 2)) \div Grain)

\* Slip: a negative setting is stored as it came.
AsGiven(v) == v

\* setOdometer: a negative value is zero.
AtLeast0(v) == IF v > 0 THEN v ELSE 0

\* The router, its brand and the database are built before any thread exists.
Init ==
  /\ main_pc = "start_can" /\ g_running = TRUE /\ alive = TRUE
  /\ \E v \in Initials :
       /\ km = [m \in Meters |-> IF m = "odometer" THEN AtLeast0(v) ELSE 0]
       /\ due = km /\ lost = km
  /\ odo_accum = 0 /\ main_reg = 0 /\ main_meter = "odometer" /\ driven = 0
  /\ db_open \in DbOpens /\ can_up = FALSE
  /\ rest_running = FALSE /\ rest_pc = "none" /\ handler = "none"
  /\ request = Nothing /\ answer = "none" /\ asked_ready = FALSE
  /\ waiting = 0 /\ untimed = 0 /\ clients = 0
  /\ ws_running = FALSE /\ ws_pc = "none" /\ generator = "none"

\* signalHandler, at any moment.
Signal ==
  /\ alive /\ g_running /\ g_running' = FALSE
  /\ UNCHANGED <<main_pc, alive, meterVars, loopVars, upVars, restVars, netVars, wsVars>>

Goto(here, there) ==
  alive /\ main_pc = here /\ main_pc' = there /\ UNCHANGED <<g_running, alive>>

-----------------------------------------------------------------------------
\* Without a CAN interface the program runs in simulation-only mode.
StartCan ==
  /\ Goto("start_can", "start_rest")
  /\ can_up' \in BOOLEAN
  /\ UNCHANGED <<meterVars, loopVars, db_open, restVars, netVars, wsVars>>

StartRest ==
  /\ Goto("start_rest", "start_ws")
  /\ rest_running' = TRUE /\ rest_pc' = "open"
  /\ UNCHANGED <<meterVars, loopVars, upVars, handler, askVars, netVars, wsVars>>

StartWs ==
  /\ Goto("start_ws", "set_handler")
  /\ ws_running' = TRUE /\ ws_pc' = "check"
  /\ UNCHANGED <<meterVars, loopVars, upVars, restVars, netVars, generator>>

\* Slip: the simulation loop starts before the routes exist.
SetHandlerLate ==
  /\ Goto("set_handler", "set_generator")
  /\ UNCHANGED <<meterVars, loopVars, upVars, restVars, netVars, wsVars>>

\* Each std::function is assigned while the thread that calls it runs: its
\* pointers change one by one.
SetRouteHandler ==
  /\ \/ Goto("set_handler", "setting_handler") /\ handler' = "torn"
     \/ Goto("setting_handler", "set_generator") /\ handler' = "set"
  /\ UNCHANGED <<meterVars, loopVars, upVars, rest_running, rest_pc, askVars, netVars, wsVars>>

SetUpdateGenerator ==
  /\ \/ Goto("set_generator", "setting_generator") /\ generator' = "torn"
     \/ Goto("setting_generator", "loop") /\ generator' = "set"
  /\ UNCHANGED <<meterVars, loopVars, upVars, restVars, netVars, ws_running, ws_pc>>

\* One pass of the loop up to the odometer; the pass covers d.  What is passed
\* on is due on both counters from here.
Drive ==
  /\ g_running
  /\ \E d \in Covered :
       /\ driven + d <= MaxDriven
       /\ driven' = driven + d /\ odo_accum' = Plus(odo_accum, d)
  /\ IF odo_accum' >= Enough
       THEN /\ Goto("loop", "load")
            /\ due'  = [m \in Meters |-> Plus(due[m], odo_accum')]
            /\ lost' = [m \in Meters |-> Plus(lost[m], odo_accum')]
       ELSE Goto("loop", "loop") /\ UNCHANGED <<due, lost>>
  /\ UNCHANGED <<km, main_reg, main_meter, upVars, restVars, netVars, wsVars>>

\* incrementOdometer: each counter is loaded and stored, the trip last.
LoadMeter ==
  /\ Goto("load", "store")
  /\ main_reg' = km[main_meter]
  /\ UNCHANGED <<meterVars, odo_accum, main_meter, driven, upVars, restVars, netVars, wsVars>>

\* Slip: what the loop kept is forgotten after the first counter.
StoreForgets ==
  /\ Goto("store", "load")
  /\ km' = [km EXCEPT ![main_meter] = Plus(main_reg, odo_accum)]
  /\ main_meter' = "trip" /\ odo_accum' = 0
  /\ UNCHANGED <<due, lost, main_reg, driven, upVars, restVars, netVars, wsVars>>

StoreMeter ==
  /\ km' = [km EXCEPT ![main_meter] = Plus(main_reg, odo_accum)]
  /\ IF main_meter = "odometer"
       THEN Goto("store", "load") /\ main_meter' = "trip" /\ UNCHANGED odo_accum
       ELSE Goto("store", "loop") /\ main_meter' = "odometer" /\ odo_accum' = 0
  /\ main_reg' = 0
  /\ UNCHANGED <<due, lost, driven, upVars, restVars, netVars, wsVars>>

EndLoop ==
  /\ ~g_running /\ Goto("loop", "stop_rest")
  /\ UNCHANGED <<meterVars, loopVars, upVars, restVars, netVars, wsVars>>

\* Slip: the HTTP server is joined but never told to stop.
StopRestNoFlag ==
  /\ Goto("stop_rest", "join_rest")
  /\ UNCHANGED <<meterVars, loopVars, upVars, restVars, netVars, wsVars>>

StopRest ==
  /\ Goto("stop_rest", "join_rest")
  /\ rest_running' = FALSE
  /\ UNCHANGED <<meterVars, loopVars, upVars, rest_pc, handler, askVars, netVars, wsVars>>

JoinRest ==
  /\ rest_pc = "done" /\ Goto("join_rest", "stop_ws")
  /\ UNCHANGED <<meterVars, loopVars, upVars, restVars, netVars, wsVars>>

StopWs ==
  /\ Goto("stop_ws", "join_ws")
  /\ ws_running' = FALSE
  /\ UNCHANGED <<meterVars, loopVars, upVars, restVars, netVars, ws_pc, generator>>

\* Slip: the update thread is detached.
DetachWs ==
  /\ Goto("join_ws", "stop_can")
  /\ UNCHANGED <<meterVars, loopVars, upVars, restVars, netVars, wsVars>>

JoinWs ==
  /\ ws_pc = "done" /\ Goto("join_ws", "stop_can")
  /\ UNCHANGED <<meterVars, loopVars, upVars, restVars, netVars, wsVars>>

StopCan ==
  /\ Goto("stop_can", "close_db")
  /\ can_up' = FALSE
  /\ UNCHANGED <<meterVars, loopVars, db_open, restVars, netVars, wsVars>>

\* After this main returns and its locals are gone.
CloseDb ==
  /\ Goto("close_db", "returned")
  /\ db_open' = FALSE
  /\ UNCHANGED <<meterVars, loopVars, can_up, restVars, netVars, wsVars>>

Main ==
  \/ StartCan \/ StartRest \/ StartWs \/ SetRouteHandler \/ SetUpdateGenerator
  \/ Drive \/ LoadMeter \/ StoreMeter \/ EndLoop
  \/ StopRest \/ JoinRest \/ StopWs \/ JoinWs \/ StopCan \/ CloseDb

-----------------------------------------------------------------------------
\* A client connects to the listening socket.  The connection inherits the
\* socket's receive timeout, if it has one yet.
Connect ==
  /\ alive /\ rest_pc \notin {"none", "open", "done"}
  /\ clients < MaxClients
  /\ clients' = clients + 1 /\ waiting' = waiting + 1
  /\ untimed' = IF rest_pc = "timeout" THEN untimed + 1 ELSE untimed
  /\ UNCHANGED <<mainVars, meterVars, loopVars, upVars, restVars, wsVars>>

RestGoto(here, there) ==
  /\ alive /\ rest_pc = here /\ rest_pc' = there
  /\ UNCHANGED <<mainVars, loopVars, upVars, rest_running, handler, wsVars>>

\* socket() or bind() may fail: the thread ends and running_ stays TRUE.
RestOpen ==
  /\ \E there \in {"timeout", "done"} : RestGoto("open", there)
  /\ UNCHANGED <<meterVars, netVars, askVars>>

\* SO_RCVTIMEO: what is accepted has a timeout of a second, unless its
\* connection was complete before.
RestTimeout ==
  /\ RestGoto("timeout", "check")
  /\ UNCHANGED <<meterVars, netVars, askVars>>

\* Connections the socket still holds go with it.
RestCheck ==
  /\ IF rest_running THEN RestGoto("check", "accept") /\ UNCHANGED <<waiting, untimed>>
                     ELSE RestGoto("check", "done") /\ waiting' = 0 /\ untimed' = 0
  /\ request' = Nothing /\ answer' = "none" /\ asked_ready' = FALSE
  /\ UNCHANGED <<meterVars, clients>>

\* accept() returns the oldest connection ("wait": its read() has no timeout),
\* or nothing after a second.
RestAccept ==
  /\ IF waiting = 0
       THEN RestGoto("accept", "check") /\ UNCHANGED <<waiting, untimed>>
       ELSE /\ RestGoto("accept", IF untimed > 0 THEN "wait" ELSE "read")
            /\ waiting' = waiting - 1
            /\ untimed' = IF untimed > 0 THEN untimed - 1 ELSE 0
  /\ UNCHANGED <<meterVars, clients, askVars>>

\* accept() fails: a signal only restarts the loop, anything else ends it.
RestInterrupted ==
  /\ ~g_running /\ RestGoto("accept", "check")
  /\ UNCHANGED <<meterVars, netVars, askVars>>

RestAcceptFails ==
  /\ RestGoto("accept", "done")
  /\ waiting' = 0 /\ untimed' = 0
  /\ UNCHANGED <<meterVars, clients, askVars>>

\* main has printed that the system is ready.
Ready == main_pc \notin {"start_can", "start_rest", "start_ws", "set_handler", "setting_handler",
                         "set_generator", "setting_generator"}

\* Slip: the connection is kept, and nobody else served, while the client lives.
RestReadKeepsAlive ==
  /\ rest_pc \in {"read", "wait"}
  /\ \E r \in Requests :
       /\ request' = r
       /\ CASE r.kind = "silent"  -> RestGoto(rest_pc, rest_pc) /\ answer' = "none"
            [] r.kind = "options" -> RestGoto(rest_pc, rest_pc) /\ answer' = "options"
            [] OTHER              -> RestGoto(rest_pc, "route") /\ UNCHANGED answer
  /\ asked_ready' = Ready
  /\ UNCHANGED <<meterVars, netVars>>

\* read() returns the request; nothing within the timeout, or a client that
\* went away, closes the connection.  OPTIONS is answered here.
RestRead ==
  /\ rest_pc \in {"read", "wait"}
  /\ \E r \in Requests :
       /\ request' = r
       /\ CASE r.kind = "silent"  -> RestGoto(rest_pc, "check") /\ answer' = "none"
            [] r.kind = "options" -> RestGoto(rest_pc, "check") /\ answer' = "options"
            [] OTHER              -> RestGoto(rest_pc, "route") /\ UNCHANGED answer
  /\ asked_ready' = Ready
  /\ UNCHANGED <<meterVars, netVars>>

\* The test of custom_handler_, which reads one of its pointers.
RestLookup ==
  /\ \/ handler # "set" /\ RestGoto("route", "default")
     \/ handler # "none" /\ RestGoto("route", "handle")
  /\ UNCHANGED <<meterVars, netVars, askVars>>

\* Without a handler every path gets the status document.
RestDefault ==
  /\ RestGoto("default", "check")
  /\ answer' = "default"
  /\ UNCHANGED <<meterVars, netVars, request, asked_ready>>

RestRoute ==
  /\ CASE request.kind = "post" -> RestGoto("handle", "set") /\ UNCHANGED answer
       [] request.kind = "get"  -> RestGoto("handle", "check") /\ answer' = "ok"
       [] request.kind = "malformed" -> RestGoto("handle", "check") /\ answer' = "error"
       [] OTHER -> RestGoto("handle", "check") /\ answer' = "404"
  /\ UNCHANGED <<meterVars, netVars, request, asked_ready>>

\* The process dies of a header the parser throws on (substr, stoi, resize,
\* outside any try), of a handler called in mid-assignment, or of SIGPIPE when
\* it answers a client that is gone.
RestKills ==
  /\ alive /\ alive' = FALSE
  /\ \/ rest_pc \in {"read", "wait", "default", "reset"}
     \/ rest_pc = "route" /\ handler = "torn"
     \/ rest_pc = "handle" /\ request.kind # "post"
  /\ UNCHANGED <<main_pc, g_running, meterVars, loopVars, upVars, restVars, netVars, wsVars>>

\* The distance passed on is not in counter m yet.
Pending(m) == main_pc \in {"load", "store"} /\ (m = "trip" \/ main_meter = "odometer")
OnTop(m, v) == IF Pending(m) THEN Plus(v, odo_accum) ELSE v

\* A counter is set to v.  If main has loaded it and not stored it yet, the
\* value will be lost.
SetMeter(m, v) ==
  /\ km' = [km EXCEPT ![m] = v]
  /\ due' = [due EXCEPT ![m] = OnTop(m, v)]
  /\ lost' = [lost EXCEPT ![m] = OnTop(m, IF main_pc = "store" /\ main_meter = m
                                            THEN main_reg ELSE v)]

RestSetOdometer ==
  /\ RestGoto("set", "reset")
  /\ IF request.set = {} THEN UNCHANGED meterVars
     ELSE \E v \in request.set : SetMeter("odometer", AtLeast0(v))
  /\ UNCHANGED <<netVars, askVars>>

RestResetTrip ==
  /\ RestGoto("reset", "check")
  /\ IF request.reset = "yes" THEN SetMeter("trip", 0) ELSE UNCHANGED meterVars
  /\ answer' = IF request.reset = "bad" THEN "error" ELSE "ok"
  /\ UNCHANGED <<netVars, request, asked_ready>>

Rest ==
  \/ RestOpen \/ RestTimeout \/ RestCheck \/ RestAccept \/ RestInterrupted \/ RestAcceptFails
  \/ RestRead \/ RestLookup \/ RestDefault \/ RestRoute \/ RestSetOdometer \/ RestResetTrip
  \/ RestKills

-----------------------------------------------------------------------------
WsGoto(here, there) ==
  /\ alive /\ ws_pc = here /\ ws_pc' = there
  /\ UNCHANGED <<mainVars, meterVars, loopVars, upVars, restVars, netVars, ws_running,
                 generator>>

WsCheck ==
  \/ ~ws_running /\ WsGoto("check", "done")
  \/ ws_running /\ generator # "set" /\ WsGoto("check", "sleep")
  \/ ws_running /\ generator # "none" /\ WsGoto("check", "generate")

\* The generator is called in mid-assignment.
WsKills ==
  /\ alive /\ alive' = FALSE
  /\ ws_pc = "check" /\ ws_running /\ generator = "torn"
  /\ UNCHANGED <<main_pc, g_running, meterVars, loopVars, upVars, restVars, netVars, wsVars>>

\* The generator reads main's locals; nothing ever adds to clients_, so that
\* broadcast writes to nobody.
WsGenerate == WsGoto("generate", "sleep")
WsSleep == WsGoto("sleep", "check")

Ws == WsCheck \/ WsGenerate \/ WsSleep \/ WsKills

Next == Signal \/ Main \/ Connect \/ Rest \/ Ws

\* read() on a connection without timeout ends only when its client sends
\* something or goes away.
Blocked == rest_pc = "wait"

\* Every thread is scheduled; accept(), and read() on a connection with a
\* timeout, return within a second.
Spec == Init /\ [][Next]_vars /\ WF_vars(Main) /\ WF_vars(~Blocked /\ Rest) /\ WF_vars(Ws)

-----------------------------------------------------------------------------
\* Every variable keeps its type; what the dashboard shows is never negative,
\* whatever config.json or a client asked for.
TypeOK ==
  /\ main_pc \in {"start_can", "start_rest", "start_ws", "set_handler", "setting_handler",
                  "set_generator", "setting_generator", "loop", "load", "store", "stop_rest", "join_rest", "stop_ws", "join_ws",
                  "stop_can", "close_db", "returned"}
  /\ g_running \in BOOLEAN /\ alive \in BOOLEAN /\ db_open \in BOOLEAN /\ can_up \in BOOLEAN
  /\ km \in [Meters -> Nat] /\ due \in [Meters -> Nat] /\ lost \in [Meters -> Nat]
  /\ odo_accum \in Nat /\ driven \in Nat /\ main_reg \in Nat /\ main_meter \in Meters
  /\ rest_pc \in {"none", "open", "timeout", "check", "accept", "read", "wait", "route", "default",
                  "handle", "set", "reset", "done"}
  /\ ws_pc \in {"none", "check", "generate", "sleep", "done"}
  /\ rest_running \in BOOLEAN /\ ws_running \in BOOLEAN
  /\ handler \in {"none", "torn", "set"} /\ generator \in {"none", "torn", "set"}
  /\ request \in Requests /\ asked_ready \in BOOLEAN
  /\ answer \in {"none", "ok", "404", "error", "options", "default"}
  /\ waiting \in Nat /\ untimed \in 0..waiting /\ clients \in Nat

\* No distance the loop passes on is dropped or counted twice: a counter is
\* what it was last set to, with each such distance added since, once and in
\* order (due), in the floats' own arithmetic: a distance Plus rounds away is
\* not dropped here.  A set that falls between main's load and store can be
\* lost, but then entirely: as if it had never come (lost).
MileageAddsUp ==
  \A m \in Meters : OnTop(m, km[m]) \in {due[m], lost[m]}

\* Once main has returned no thread is left that could run a lambda holding
\* references to its locals, and the database was closed behind them.
NothingOutlivesMain ==
  main_pc = "returned" =>
    /\ rest_pc \in {"none", "done"} /\ ws_pc \in {"none", "done"}
    /\ ~can_up /\ ~db_open

\* No request read after the program reported itself ready is answered with
\* the status document, which acknowledges anything and does nothing.
RoutedOnceReady == answer = "default" => ~asked_ready

\* A signal ends the program, whatever the servers were doing, if every client
\* that connected before the timeout was set sends or goes away in the end:
\* main returns, unless the process dies before.
ShutdownCompletes ==
  []<>~Blocked => (~g_running ~> (main_pc = "returned" \/ ~alive))

\* Under the same condition a connection that waits is taken, whatever clients
\* before it send or do not send, unless the server stops, has died, or one of
\* them brings the process down.
ClientsTaken ==
  []<>~Blocked => (waiting > 0 ~> (waiting = 0 \/ ~rest_running \/ rest_pc = "done" \/ ~alive))
=============================================================================
