# The multi-brand ECU emulator in TLA+

These modules model the control of the emulator in `src/src`: a program for a
Raspberry Pi that listens on a CAN bus, plays the ECU of one of eight brands,
answers OBD-II and UDS requests, and is configured over REST while it runs.
TLC checks every module on a small instance, and TLAPS proves every safety
property of the passing runs for every value of the constants.

    cd tla
    tlc -workers 2 -config MCSessionManager.cfg MCSessionManager
    tlapm SessionManager_proofs.tla

`PROJECT.json` lists the components, the runs, the slips (`mutants`) that show
each property has teeth, the source lines of each definition (`map`), the
hazards of the code and the theorems.

## The system

### Threads

`main.cpp` builds everything, starts four further threads and turns into the
simulation loop.

| thread | runs | touches |
|---|---|---|
| main | start-up, then the loop of `main.cpp:339-394` every 50 ms, then shutdown | sensors, odometer, fault injection into the brand's codes |
| CAN receive (`CANManager::rxLoop`) | reads a frame, runs every matching callback under `filter_mutex_`; the program's one callback is `ProtocolRouter::routeCANFrame` | everything the brand's handlers touch: session, codes, odometer reads |
| CAN transmit (`CANManager::txLoop`) | drains `tx_queue_` | the queue, under `tx_mutex_`, and the socket |
| REST (`RESTAPI::apiLoop`) | one client at a time; the routes of `main.cpp:190-314` | profile managers, codes, odometer |
| WebSocket (`WebSocketServer::wsLoop`) | wakes every 100 ms and calls the update generator of `main.cpp:321-336`; nothing gives it a client to send to | reads `main`'s locals |

The two mutexes of `CANManager` are the only ones on a request's path. The
brand object (`BaseManufacturer`), its session manager, its list of codes and
its odometer are shared by three threads without any lock.

### Components

| component | state | operations | what must hold |
|---|---|---|---|
| `SessionManager` | session, security level, seed and its level, tester-present flag, two time points, two timeouts, callback | `changeSession`, `requestSeed`, `sendKey`, `lock`, `setTesterPresent`, `resetTimers`, `tick`, setters | expired sessions and levels end at the next `tick`; the owner of the callback is told; a level opens only for an answer to its own challenge |
| `CANManager` | `state_`, `running_`, socket, two threads, `filters_`, `tx_queue_`, two mutexes | `start`, `stop`, `sendFrame`, `registerCallback`, `unregisterCallback`, the two loops | frames are neither lost, doubled nor reordered; no thread outlives its socket; a restart finds no old thread; `stop` returns |
| brands and `BaseManufacturer` (UDS) | the session manager | `handleCanFrame` of each brand; 0x10, 0x27, 0x3E | a tester that believes the answers is right; a refusal changes nothing |
| trouble codes and profiles | `dtcs_`, the brand's `VehicleProfileManager` and the one of `main` | `setDTC`, `clearDTCs`, `setProfile`, `applyProfileDTCs`, mode 04, REST routes, fault injection | one entry per code, unless two threads race for it; an accepted profile is in force; other codes stay |
| `CANTransportProtocol` | one reassembly buffer, its source, sizes, next sequence number | `prepareMessage`, `processFrame`, `reset` | what is returned was sent, whole, once and in order, as long as no first frame is missing; what arrives undisturbed is returned |
| `ProtocolRouter` | brand table, selected brand | `selectManufacturer`, `routeCANFrame` | frames reach the selected brand only |
| main: start-up, loop, shutdown; the odometer | `g_running`, two mileage counters of the brand, `odo_accum` | `incrementOdometer`, `POST /odometer`, the order of `main.cpp:165-404` | each distance is added once; nothing outlives `main`; a signal ends the program |
| `RESTAPI`, `WebSocketServer` | running flag, socket, thread, handler | `start`, `stop`, `setRouteHandler`, the two loops | a handler is set before it matters; clients are served and `stop` returns, as far as `read` does |
| `AccessControl` | users, failed attempts, lockout | `authenticate`, `addUser`, `removeUser`, `setMaxAttempts`, `lockoutUser`, `unlockUser` | a lockout comes no later than the limit says |
| `DTCManager`, `FreezeFrameManager` | a table of codes of their own, not the brands'; snapshots | add, remove, confirm, clear, capture | counts and the newest snapshots are kept |
| `CANLogger`, `ReplayAnalyzer` | log file generations, lines in memory; replay position, recording stream | log, rotate, load, step, record | the newest lines are kept in order; a replay is in order, a recording complete |
| `DBManager` | SQLite handle and tables | `open`, `close`, `runMigrations`, `saveDTCs`, `loadDTCs` | what a call reports is what is stored |
| `SecurityManager` | seed sizes, algorithm | ten seed and key algorithms | generator and validator agree, keys tell seeds apart |
| `VinDecoder`, mode 01 and `OBD2Standard` | none | check digit; encode, decode | a misread character is noticed; a scan tool shows the sensor's value |
| sensor and driving-cycle simulation | throttle position, profile | `updateDriving`, `applyRPMProfile` | a percentage stays one |
| codecs (`uds`, `kwp2000`, `gmlan`), gRPC stub, metrics | none worth a model | - | - |

### Where it is hard

- Three threads change one list of codes; a profile change is several passes
  over it and anything may happen between two of them.
- `stop()` joins two threads, one of which may wait, with `filter_mutex_`
  held, for `tx_mutex_`, which the other sleeps with.
- Restarting a manager whose start failed, whose receive thread died, or whose
  queue still holds frames.
- The timers of the session are two tests that look at each other's state.
- One reassembly buffer for all sources, on a bus that loses and repeats frames.
- The mileage counters are added to by one thread while another sets them, in
  floats that round.
- Route handler and update generator are lambdas on other threads over locals
  of `main`, assigned after the servers are started and without a lock.
- Requests that end the process: exceptions outside any `try`, and writes to a
  connection that is gone.
- A single HTTP thread that blocks in `accept` and `read`, and is joined.
- Statements that fail, and processes that end, between two writes of one call.

The list of hazards in `PROJECT.json` goes line by line through these and the
others, and names the property that covers each or says why there is none.

## Modules

    DiagnosticSession                abstract: which session follows which, what opens a level
      ^ implemented by
    SessionManager   <--INSTANCE--   UdsServer  --EXTENDS-->  Brands  <--EXTENDS--  TroubleCodes
    CANManager                       (threads, locks, queue, socket)
    CanTp                            (segmentation and reassembly)
    Program                          (main, HTTP and update threads, mileage)
    Simulation                       (driving cycle, profiles, throttle)
    Library  --EXTENDS-->  AccessControl, LogFiles, Replay, FaultMemory,
                           Database, SeedKey, VinDecoder, Obd

Each `MC*` module gives the constants of its specification values for TLC, and
each `*_proofs` module holds the theorems about one; those about the parts of
`Library` are in `Library_proofs` and `Helpers_proofs`. Definitions whose comment
starts with *Slip* are not part of a specification: each is a plausible mistake
in the definition that follows it, and `PROJECT.json` says which property it
breaks.

### DiagnosticSession

Three variables, `session`, `level` and `challenge`, and what may happen to
them: `Enter` a session the present one may be left for, `Challenge` a level,
`Open` the level challenged, `Close`. No timers, keys or callbacks.

### SessionManager

One action per method of `core/session_manager.cpp`; variables carry the names
of the members. A call the code refuses changes nothing and is a stutter. The
two `steady_clock` time points are kept as ages (`session_age`,
`security_age`), which stop at `AgeCap`, one above every timeout. `tick()` is
three actions, one per path (`TickFallback`, `TickRelock`, `TickIdle`).

`tick()` is declared "called periodically"; `Elapse` therefore waits when
`TickPeriod` units have passed without one. `client_session` is what whoever
installed the callback believes, and the two `*_overdue` stopwatches measure
how long an event has been due: they are how a liveness-like promise ("ends at
the next tick") becomes an invariant that can be proved. They never influence
another variable.

`SAFETY` is a value of the enumeration no transition leads to; it stays in the
state space of `isSessionAllowed`, and no behaviour reaches it.

### CANManager

The owner (`main_pc`), `rxLoop` (`rx_pc`) and `txLoop` (`tx_pc`) interleave.
A step ends where the thread can lose the processor with an effect on the
others: at a lock, a system call, a loop test or a join. A mutex is a variable
while it is held across steps: `filter_mutex` during the walk over `filters_`,
and `tx_mutex` during the 10 ms sleep `txLoop` takes with it. Critical sections
without a system call are one step.

The socket delivers the process's own frames back (`RECV_OWN_MSGS`), has a
bounded buffer and drops what does not fit; `poll` and `recvfrom` may fail at
any time, which ends the receive thread; `write` may fail, which loses the
frame. `write()` succeeding or failing counts alike in `written`: the property
speaks of what the program hands to the kernel.

The owner is sequential: `start`, `stop` and the registrations are all called
from `main`, as in the program. A callback answers a request and ignores every
other frame, as each brand's `handleCanFrame` does with its own answers.

### Brands and UdsServer

`Brands` is the `switch` of each `handleCanFrame` as a table from services to
handlers of `BaseManufacturer`. `UdsServer` sends requests through it to the
handlers of 0x10, 0x27 and 0x3E, whose session manager is an `INSTANCE` of
`SessionManager`: its guards and assignments are used, not repeated. The other
services answer either way and change nothing of the session.

`tester_session`, `tester_challenge` and `tester_level` are what a tester notes
of positive answers, knowing only what it sent: the session it asked for, the
level it asked a seed of, and, once a key is accepted, that this level is open.
It does not know which level the ECU makes of the sub-function of a key, so
`TesterInSync` fails if the ECU opens another than the one challenged. `algorithm` is chosen at the start: `NoAlgorithm` is the program as
`main.cpp` wires it, where every 0x27 is refused; any other value is a host
that installs one through `getSessionManager()`. Nobody calls `tick()`.
One unit of time is five seconds, so that the default timeouts are 1 and 2.

### TroubleCodes

`dtcs_` is a sequence of codes with their pending flag. A step is one pass over
the vector, or one `push_back`. `setDTC` searches the list and, when it missed
the code, appends it later, without a lock: two steps (`FindProfileCode` and
`PushProfileCode`, `FindFault` and `PushFault`), between which the other thread
may search, append or clear. `POST /profile` is a step in `main`'s manager, one
in the brand's, the erase pass, and a `setDTC` per code; mode 04 and fault
injection run between any two, while other routes wait, because `RESTAPI`
serves one request at a time. Whether a brand has mode 04 comes from `Brands`.
`cleared`, `injected` and `raced` (the codes one thread missed while the other
was about to append them) are history: what the properties need to know of the
past.

`erase(remove_if(...))` is stated as what it leaves (the surviving positions,
in their order) and not as a loop, here and in `CANManager`; the proofs then
need no induction over sequences.

### CanTp

Several sources send messages on one bus and one receiver puts them together.
A frame carries its kind, source, size, sequence number, and the *piece* of
its message it holds (from which byte up to which); payloads are never
enumerated. The bus keeps order but may lose a frame or deliver it twice,
a source may abandon a message, and the receiver may be `reset`. `clean[s]` is
history: nothing has gone wrong for the present message of `s`.

Any frame may be lost. The code has no timeout between consecutive frames, so
when the first frame of a message is lost, its other frames can complete an
older message of the same source, and what is returned mixes the two. The
messages whose first frame was lost are kept in `headless`; `DeliveredIntact`
says that only a message with pieces of such a one may be returned without
having been sent. Sizes stay below 4096, the twelve bits `buildFirstFrame`
keeps; no caller in the repository sends more.

### Program

`main`, `RESTAPI::apiLoop` and `WebSocketServer::wsLoop` as three program
counters; a signal may come at any moment. `odometer_km_ += km` is a load and a
store, each a step, first for the odometer and then for the trip, as in
`incrementOdometer`; the routes set a counter in one store, between any two of
them. The race makes the code's behaviour formally undefined; the model takes
the outcomes that aligned machine words allow on the Raspberry Pi's ARM: a set
value can be overwritten, never mixed with another.

The counters are `float`. `Plus` adds as floats do: exactly up to `Exact`, and
then rounded to the next multiple of `Grain`, so that a large reading swallows
small distances. In the program the floats are 1/64 km apart from 2^17 km on
and 1/32 km from 2^18 km on, where the hundredth of a kilometre that the loop
passes on vanishes; the constants are small so that TLC meets such readings. `due` and `lost` are history: what a counter should show, and
what it shows when the last setting fell between a load and its store.

A request is what the loop and the routes tell apart (`Requests`): the
characters are parsed elsewhere. The header loop reads only bare line feeds as
intended; a POST whose request line ends in CRLF alone is taken for one without
headers, its body is never read, and the route refuses it, as `"malformed"`.
What is read first (`RestRead`), whether there is a handler (`RestLookup`), and
what the default answer or the route does (`RestDefault`, `RestRoute`) are
separate steps. `asked_ready` remembers that `main` had reported itself ready
when the request was read.

`listen` and `setsockopt(SO_RCVTIMEO)` are two steps (`RestOpen`,
`RestTimeout`). Linux hands the timeout on to accepted sockets, so that
`accept` and `read` end after a second; but a connection completed between the
two steps (`untimed`) has none, and `read` waits for it as long as it is silent.
`Blocked` is that state.

`alive` becomes false when the process dies otherwise than by `main`:
`RestKills` covers the exceptions of the header parser that nothing catches
(`substr` past the end, `stoi`, `resize`) and the signal of a write to a closed
connection. `custom_handler_` and `update_gen_` are assigned while another
thread may call them, each in two steps with a state `"torn"` between; a call
of a torn function may kill the process, too (`RestKills`, `WsKills`).

The CAN threads are one flag here, since `CANManager` shows what `start` and
`stop` do. `DbOpens` says whether the database may fail to open; the run takes
the program with its database.

### Library and its parts

Eight classes are linked into the program, or constructed by it, and connected
to nothing else. `Library` follows one of them per behaviour (`part`), so that
their state spaces add up instead of multiplying; each module can be read, and
proved about, alone.

- `AccessControl`: `authenticate` is `LetIn` and `Refuse`; `locked_until` is
  kept as the time left. `tries` is history: the wrong passwords since the last
  success, lockout or unlocking. `failed_attempts` is *not* reset by a lockout
  that ran out, so the next wrong password locks again at once.
- `LogFiles`: a line has size one; files are a function from generation to
  lines. `Rotated` renames from the oldest on and leaves missing files alone,
  `Log` is `log` with the rotation and a reopening that may fail.
- `Replay`: `loadFile` reads another format than `recordFrame` writes, which
  `Parsed` keeps, and leaves the position where it was; `position + count` wraps
  at `SizeMax`, as a `size_t` does; opening a stream twice sets its failbit and
  goes unnoticed. `replayed`, `taken_from` and `wrapped` are history: what was
  handed out since the replay was started or a file loaded, from which position
  on, and whether a sum wrapped since.
- `FaultMemory`: the table of `DTCManager` and the ring of `FreezeFrameManager`.
  `added` is history: how often each code was reported since it was last taken
  out. `Spared` is `remove_if`, one frame after the other.
- `Database`: each statement of `saveDTCs` is a step which may fail; the
  process may end between two; the tables exist only after `runMigrations`.
- `SeedKey`: all algorithms of `core/security.cpp` on bytes, with their width.
  `^` is `Xor`, the sum of the powers of two in which two bytes differ. `Seeds`
  and `Keys` are arbitrary sets of byte strings: the challenges and the keys
  offered for those that are too short.
- `VinDecoder`: transliteration, weights and check digit, as they are.
- `Obd`: the encoding of mode 01 in `base.cpp` against the formulas and the
  decoder of `obd2_standard.cpp`, in thousandths. Where the scaling of a float
  is inexact (factors 100 and 1000, divisor 0.005) a value that is a whole
  number of steps may be truncated to one step less, as 0.45f is sent as 89:
  `Encodings` holds both numbers. A value whose number does not fit its bytes is
  left out, the cast being undefined there.

### Simulation

The urban cycle of `main`, the RPM range and idle swing of the ten profiles,
and the throttle position, the one sensor value that depends on the one before.

## Runs

| run | states | question | bounds and why they are enough |
|---|---|---|---|
| `session` | 134,704 | are the timers enforced, is the owner told, is the abstract session implemented? | two levels, seeds, keys and algorithms: with two of each every mix-up (key of the other seed, of the other algorithm, for the other level) occurs; timeouts 1, 2 and 3 with a tick every two units: a timer can run out before, at and after a tick, and either one first |
| `can` | 339,703 | are frames kept in order, is a restart safe, does `stop` return, does the queue drain? | two requests and one frame of the owner, two filters (a catch-all as in the program, and one that lets only replies in), a socket buffer of one frame that really overflows; any number of starts, failed starts and stops |
| `uds` | 36,744 | do the answers tell the truth for every brand? | all eight brands; sub-functions 0 to 4 hold the seeds of two levels and the keys below, between and above them; a right and a wrong key |
| `trouble_codes` | 16,614 | does a profile change survive the other threads, and how often can a code be listed? | three profiles, two of which share a code as `bad_o2` and `maf_fault` do; one injected code is a profile's, the other is not; a brand with mode 04, one that answers it without clearing and one without |
| `can_tp` | 4,752,277 | is what is returned what was sent? | two sources, three messages, two faults; 5, 13 and 130 bytes: a single frame, two frames, and nineteen, so that the sequence number wraps |
| `program` | 689,046 | do the threads of `main` add the mileage up, find their handlers, serve the clients and end? | one initial mileage, a negative and a positive setting at the edge of what `Plus` adds exactly, two distances of which one makes the loop pass on at once and one only the second time, so that every load and store of both counters meets every kind of request; two clients, so that one waits behind a silent one, with and without a timeout |
| `library` | 168,873 | does each class keep what it promises, over all orders of its calls? | two users and passwords, attempt limits from 0 (clamped) to 3, four failures; files of two lines, two generations, three lines in memory and nine lines, so that a generation is overwritten; two frames, paths and codes; `getNextFrames` of 0, 1, 2 and of 7 with `SizeMax` 8, which wraps; code lists of up to two; 256 values of each byte of seeds of 4, 5 and 8 bytes, and for short ones the keys of their zero-padded forms among others; every character in every place of two vehicle numbers; for each PID sensor values at the ends of its bytes |

The bounds of `program` and `library` (`MaxDriven`, `MaxClients`, `MaxFailed`,
`MaxLines`, `MaxFrames`, `MaxEvents`, `MaxSaves`) each appear in one guard and
nowhere else.

Deadlock is checked in `session`, `can`, `uds` and `trouble_codes`. `can_tp`
ends when every message is sent and every fault is spent, `program` when `main`
has returned, and a part of `library` when its bound is reached.

Five runs check a statement of the repository that the code does not keep.

| run | statement | what the code does |
|---|---|---|
| `programming_session` | `tests/test_all_modes.cpp` enters PROGRAMMING from EXTENDED | `isSessionAllowed` lets EXTENDED be left for DEFAULT and itself only |
| `idle_session` | `session_manager.hpp`: `tick()` is called periodically; the sessions have timeouts | no code of the program calls it, so an idle session never ends |
| `key_level` | `base.cpp:214`: the key arrives at the sub-function after that of its seed | `level \| 0x01` names the level above, where no seed is pending; the right key is refused |
| `old_profile` | `base.cpp:659`: the existing profile-based codes are cleared first | the codes of the profile just selected are erased, those of the one before stay |
| `throttle_range` | `base.cpp:486` and `sensor_simulator.cpp:28`: the throttle position is a percentage | `updateDriving` limits the upper end only; the first pass of the loop takes it below zero |

### Properties

- `FallbackInTime`, `RelockInTime`: an expired session, an expired level, has
  never been due for longer than the time since the last `tick()`.
- `ClientInSync`: with a callback installed, its owner knows the session.
- `OpenHasSeed`: an open level always has a remembered seed behind it.
- `ImplementsSession`: the refinement of `DiagnosticSession`, once for the
  session manager alone and once behind the dispatch of the brands.
- `Fifo`: what `sendFrame` accepted is, in order, what was written, what is in
  hand and what is queued, over every stop and restart.
- `SocketOpenInUse`, `SpawnSafe`, `FiltersStable`: neither loop uses a closed
  descriptor, `start` never overwrites a joinable `std::thread`, `filters_`
  does not change while it is walked.
- `StopReturns`, `Drains`: `stop` comes to an end; while the manager is up,
  what is accepted is written.
- `TesterInSync`, `RefusalChangesNothing`: a tester that goes by what it asked
  for and what was accepted knows session and level; a refused request leaves
  no trace.
- `OneEntryUnlessRaced`, `ProfileInForce`, `OthersKept`: a code is listed twice
  only if each thread missed it before the other appended it, and never three
  times; when `POST /profile` is done both managers hold it and, unless cleared since, all
  its codes are listed; no other code is removed.
- `DeliveredIntact`, `CleanArrives`, `OnceInOrder`: what is returned was sent,
  whole, or took over frames of a message that lost its first one; an
  undisturbed message is returned; none twice or late.
- `MileageAddsUp`: a counter is what it was last set to, with every distance
  the loop passed on since added once and in order, in the floats' own
  arithmetic. A setting that falls between a load and its store may be lost,
  but then as if it had never come.
- `NothingOutlivesMain`, `RoutedOnceReady`: no thread runs a lambda over
  `main`'s locals after it returned; no request read after the program says it
  is ready gets the default answer that does nothing.
- `ShutdownCompletes`, `ClientsTaken`: a signal ends the program, and a waiting
  connection is taken, unless a request kills the process first; both as long
  as no client without a timeout stays silent for ever.
- `LockoutInTime`: a wrong password is answered by a full lockout or is one of
  fewer than the limit.
- `LogKeepsNewest`: files and memory hold the newest lines without a gap, over
  rotations, failed openings and restarts. Lines logged after a failed opening
  reach no file, and are not counted among those the files should hold.
- `ReplayInOrder`, `RecordingComplete`: each frame from the position the replay
  began at, or had when another file was loaded, once and in order, unless a
  count wraps; a recording that was not started twice holds every frame.
- `FaultsRemembered`: counts survive confirmation; snapshots are the newest.
  That `clearPending` keeps the pending codes is modelled and not judged.
- `SavedWhenTrue`: a save that returned true is stored whole; any other has
  stored a prefix, behind at most the old rows.
- `KeysTellSeedsApart`, `OneCharacterDetected`, `ScannerReadsSensor`: one byte
  of the seed changes the key, and a seed that is too short has none; one misread character of a vehicle number is
  noticed (unless an X stands in the check position, which the code accepts);
  what mode 01 encodes decodes to the sensor's value, rounded down, or one step
  below it where the float scaling is inexact. Nine PIDs are excepted by
  name in `Disagreeing`: base.cpp encodes them otherwise than the formula it
  registers for them.

### Fairness

`CANManager` and `Program` assume some.

In `CANManager` it is weak fairness of `rxLoop`, of `txLoop`, and of
`stop()` once called. That is, the scheduler runs a thread that stays runnable,
and `poll` (100 ms) and the sleep (10 ms) end. No fairness of a mutex is
assumed: `std::mutex` promises none, so `rxLoop` may lose the race for
`tx_mutex` as long as `txLoop` keeps taking it. `StopReturns` holds all the
same because `running_` becomes false first, `txLoop` then leaves its loop and
the lock stays free. Nobody has to call `start`, `stop` or `sendFrame`, and no
tester has to send.

In `Program` it is weak fairness of the main, the HTTP and the update thread:
they are scheduled, and their system calls return, by the timeouts above. The
exception is a `read` from a connection without a timeout: while the HTTP thread
is `Blocked` in it nothing is assumed of it, and the two liveness properties
hold for the behaviours in which such a `read` ends (`[]<>~Blocked`).
Nobody has to connect, send or signal. `Drive` is disabled when the bound on
the distance is reached; the loop can still end then, so that the bound stops
no shutdown.

## Proofs

All theorems are about the specifications TLC runs, for every value of the
constants that satisfies the module's assumption. The assumptions say what the
constants are (levels are positive, the empty seed is no seed, timeouts below
`AgeCap`, sub-functions are bytes, `normal` sets no code); none excludes
behaviour of the code.

**SessionManager_proofs.** The inductive invariant is the conjunction of
`TypeOK`, the two timer bounds, `ClientInSync` and `OpenHasSeed`. The bounds on
the stopwatches are inductive only together: `Elapse` keeps
`overdue <= since_tick` because both grow by one, and `Tick` because the event
is no longer due afterwards, for which the relock test needs the fallback to
have closed the level and reset the age. `SessionRefinement` maps each action to
a step of `DiagnosticSession` or a stutter; `SendKey` is `Open` because the key
must be for the level challenged.

**CANManager_proofs.** Three invariants on top of `TypeOK`. `Locks` ties each
mutex to the program point of the thread that holds it. `Lifecycle` ties
`state`, `running`, `socket_open` and the program counters together: an idle
owner of a manager that is not up has joined both threads, and while a loop
lives the socket is open; it implies `SocketOpenInUse` and `SpawnSafe`.
`Fifo` is inductive with the types of the queue. `FiltersStable` follows from
`Locks`: while `rxLoop` walks, the mutex the owner needs is taken.

**UdsServer_proofs.** `TypeOK` and `TesterInSync`, with `SameChallenge`: the
level the tester last got a seed of is the one the ECU waits for, which is what
makes the level it infers from an accepted key the one that opened. The type
invariant says
more than a type: every level the session manager sees is odd, since
`level | 1` of an even sub-function is.

**TroubleCodes_proofs.** `TypeOK`, `Races` and `Progress`. `Races` says what
is known of a code while a thread is about to append it: it is listed at most
once, and if at all, or if both are about to, they have raced for it; hence at
most two entries come of it. `Progress` says what a half-done profile change has achieved: between erasing and
setting, each of the profile's codes is still to be set or is listed, unless a
clear came in between. `ProfileInForce` is its last moment.

**Program_proofs.** The inductive invariant is `TypeOK`, `MileageAddsUp`,
`Registers`, `Ordered` and `Asked`. `MileageAddsUp` alone is not inductive: a
store writes what was loaded before, so `Registers` says that the loaded value
leads to one of the two the counter may have; a set between the two moves the
counter to the one and the register to the other. Nothing but that `Plus` of
naturals is a natural is used of the rounding. `Ordered` says what the place
`main` has reached tells of the other threads, and gives `NothingOutlivesMain`.
`Asked` says that a request read once `main` was ready is never on its way to
the default answer: the handler was there before `main` was ready, and only a
lookup that finds none goes there. The bounds on distance and clients are
arbitrary naturals.

**CanTp_proofs.** The largest argument. `IInv` says, in parts: that every frame
still to come (`OnBus`) and the one seen last (`LastSeen`) is a frame of a
prepared message (`Good`) and that neighbours follow from one another; that the
buffer holds pieces of one message without a gap, or else too few bytes were
counted for it ever to be complete, or else it already mixes in frames of a
message without a first one (`Reassembly`); that the next consecutive
frame of the source being received belongs to that message and lies behind what
is held, or to a message without a first frame (`Ahead`); that a repetition of the frame seen last is turned away by
its sequence number or begins nothing old (`SeenAgain`); that what is to come is
younger than what was returned (`Order`); and that, while nothing went wrong for
a message, the receiver waits for exactly the next of its frames (`Undamaged`).
`DeliveredIntact` alone is far from inductive: whether a step returns the right
bytes depends on every loss before it. Sixteen frames lost in a row bring the
sequence number round, and the code then accepts the next frame; what keeps it
from returning the message is the count of bytes, which falls short for good.
The assumption says that no source is called `"none"`, the model's value for no
source at all.

**Library_proofs.** `LockoutInTime` needs `NotBehind`: the counter of the
code is never behind the attempts that count. It can be ahead, after a lockout
ran out, which only makes the next one come earlier. `SavedWhenTrue` needs
`Underway`: before the i-th insert the first i - 1 codes stand behind the old
rows or behind nothing; only then is the last step, which looks at no row, known
to report what is there. `RecordingComplete` needs `Copied` (what the open file
holds is what was heard, while nothing opened the stream twice), and
`ReplayInOrder` needs `Positioned` (what was handed out are the frames between
the position it began at and the present one; a file loaded meanwhile may be
shorter than that, and then nothing is handed out and the replay ends).

**Helpers_proofs.** What the pure helpers compute.

- `ScannerReadsSensor` follows from `AnswerSent`: the answer on the table was
  encoded from the sensor's value, PID by PID, as one of its two `Encodings`.
- `OneCharacterDetected`: the weighted sum of a misread number differs by
  weight times difference, and eleven, being prime, divides no such product.
- `LogKeepsNewest`: `Contents`, the files one behind the other, is shifted by a
  rotation and loses only the oldest (`ContentsShifted`). The invariant adds
  that generations have no holes, that every file but the newest is full
  (`Full`), and that whatever is gone went while the oldest existed (`Kept`);
  with these the files hold at least `Generations * MaxSize` lines once a line
  is gone.
- `FaultsRemembered`: `Counted` is inductive by itself. For the snapshots the
  invariant is that the frames kept end the frames captured (`NewestTaken`);
  clearing preserves it because sparing two sequences put together spares each
  (`SparedApart`).
- `KeysTellSeedsApart`: each algorithm is one to one in each byte of the seed.
  A byte is the sum of its bits (`BitsMakeByte`), so a byte is known from its
  exclusive or with a known one (`XorTellsApart`); 27 and 29 have inverses
  modulo 256; the rotation of `vw` finds six bits of a byte in one place and two
  in another; `nissan` goes half by half, the carry being known from the lower
  one. The 256 keys are then counted through a bijection.

Three of these rest on what a recursive function computes. The provers cannot
apply the library's induction theorems, which take a predicate; `SetInduction`
and `SetInductionDown` state induction over a *set* of numbers, proved from the
well-foundedness of `<`, and show first that each recursive function exists and
then what its values are. Library operators the provers know nothing of
(`SelectSeq`, `:>`, `@@`, the recursive `Bitwise`) are therefore not used in the
modules proved about: function constructors and recursive functions stand in
their place.

What stays with TLC: the liveness properties `StopReturns`, `Drains`,
`ShutdownCompletes` and `ClientsTaken`, which need fairness and `ENABLED`; and
the five runs above, which show violations. All other properties of the passing
runs are theorems.

## Not modelled

- **Overlapping passes over `dtcs_`.** `TroubleCodes` interleaves whole passes;
  two that overlap are a data race on a vector, of which nothing can be said.
- **Reports**: modes 02, 03, 07 and 0A and the eight-byte cut of `sendFrame`.
  They change no state; the hazard is listed.
- **Sensors** other than the throttle, `applyCustomProfile`, the environment:
  functions of random noise and of values nobody else reads.
- **`secure_comm`**: a byte-level cipher without control flow worth a model.
- **Readiness flags, calibration data, metrics**: stores of values and
  formatting.
- **Text of HTTP requests and answers**, SQL text, JSON.
- **Codecs no brand calls** (`uds`, `kwp2000`, `gmlan`), `migrations.cpp` and
  `seed_data.cpp`, which nothing calls, and the gRPC stub.
- **Selecting another brand while frames arrive**: the router allows it, the
  program never does it.
- **Flow control** of ISO-TP: `processFrame` accepts and ignores it, and
  `prepareMessage` sends no frame that waits for one.
- `setBitrate`: stores a number nothing reads.

## Plan

1. An abstract first-in first-out channel between `sendFrame` and `write`, and
   `CANManager` shown to implement it, so that `Fifo` becomes a refinement.
2. The same for `TroubleCodes`: an abstract set of codes with the profile in
   force, of which the interleaved passes are an implementation.
3. Mode 03 and 02 reports, once the cut of `sendFrame` is modelled, so that the
   hazard at `base.cpp:126` gets a property.
