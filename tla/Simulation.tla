------------------------------ MODULE Simulation ------------------------------
(***************************************************************************)
(* The drive that main.cpp simulates: the urban cycle                      *)
(* (simulation/driving_cycle.cpp), the RPM of the selected profile         *)
(* (vehicle_profile.cpp) and the throttle position that follows from it    *)
(* (sensor_simulator.cpp).  Time is in passes of the loop, 20 a second;    *)
(* the throttle is in tenths of a percent.  The other sensors are          *)
(* functions of RPM and noise and are left out.                            *)
(***************************************************************************)
EXTENDS Integers, Sequences

CONSTANTS Deviation,  \* how far the noise takes the RPM, either way
          MaxPasses   \* bound: passes of the loop

\* The idle floor, the top RPM and the idle fluctuation of a profile.
Profile(idle_min, drive_max, unstable, amp) ==
  [idle_min |-> idle_min, drive_max |-> drive_max, unstable |-> unstable, amp |-> amp]

gmNormalIdle        == Profile(650, 6000, FALSE, 0)
gmUnstableIdle      == Profile(500, 5000, TRUE, 250)
gmBadO2Sensor       == Profile(700, 5500, FALSE, 30)
gmMAFFault          == Profile(600, 5000, TRUE, 150)
gmCoolantFault      == Profile(750, 5000, FALSE, 0)
gmMisfire           == Profile(400, 4000, TRUE, 300)
gmLowBattery        == Profile(700, 5000, FALSE, 50)
gmFuelPressureFault == Profile(600, 4500, TRUE, 120)
gmEmissionFail      == Profile(700, 5500, FALSE, 0)
gmCustom            == Profile(650, 6000, FALSE, 0)

profiles ==
  [normal |-> gmNormalIdle, unstable_idle |-> gmUnstableIdle, bad_o2 |-> gmBadO2Sensor,
   maf_fault |-> gmMAFFault, coolant_fault |-> gmCoolantFault, misfire |-> gmMisfire,
   low_battery |-> gmLowBattery, fuel_pressure |-> gmFuelPressureFault,
   emission_fail |-> gmEmissionFail, custom |-> gmCustom]

\* RPM and seconds of the urban cycle.
generateUrban ==
  <<<<800, 10>>, <<1200, 8>>, <<1500, 10>>, <<2000, 12>>, <<1200, 6>>, <<800, 8>>,
    <<1500, 10>>, <<1800, 15>>, <<2500, 8>>, <<800, 5>>, <<1000, 6>>, <<1500, 10>>, <<800, 8>>>>

VARIABLES passes, current_profile, throttle_pos
vars == <<passes, current_profile, throttle_pos>>

\* getPoint: the segment the time falls into, and after the end the last one.
EndOf == LET sum[i \in 0..Len(generateUrban)] ==
               IF i = 0 THEN 0 ELSE sum[i - 1] + 20 * generateUrban[i][2]
         IN sum

getPoint(t) ==
  LET ahead == {i \in DOMAIN generateUrban : t <= EndOf[i]}
      i == IF ahead = {} THEN Len(generateUrban) ELSE CHOOSE k \in ahead : \A j \in ahead : k <= j
  IN generateUrban[i][1]

Clamp(v, low, high) == IF v < low THEN low ELSE IF v > high THEN high ELSE v

Noise == {-Deviation, 0, Deviation}

\* applyRPMProfile: an unstable idle swings around the cycle's RPM.
applyRPMProfile(base) ==
  LET p == profiles[current_profile]
      swings == IF p.unstable THEN {s * p.amp + n : s \in {-1, 0, 1}, n \in Noise} ELSE {0}
  IN {Clamp(base + s, p.idle_min, p.drive_max) : s \in swings}

\* updateDriving: half a percent up above 2000 rpm, 0.3 down below.  Only the
\* upper end is limited, as in setThrottlePosition of the brand afterwards.
Throttle(t, rpm) ==
  LET moved == t + (IF rpm > 2000 THEN 5 ELSE -3)
  IN IF rpm <= 0 THEN t ELSE IF moved > 1000 THEN 1000 ELSE moved

Init == passes = 0 /\ current_profile = "normal" /\ throttle_pos = 0

UpdateDriving ==
  /\ passes < MaxPasses /\ passes' = passes + 1
  /\ \E rpm \in applyRPMProfile(getPoint(passes + 1)) :
       throttle_pos' = Throttle(throttle_pos, rpm)
  /\ UNCHANGED current_profile

selectProfile ==
  /\ current_profile' \in DOMAIN profiles
  /\ UNCHANGED <<passes, throttle_pos>>

Next == UpdateDriving \/ selectProfile

Spec == Init /\ [][Next]_vars

\* The throttle position a scan tool asks for is a percentage, as the table
\* of PIDs has it (0 to 100) and as SensorSimulator::setThrottlePosition
\* keeps it.
ThrottleInRange == throttle_pos \in 0..1000
=============================================================================
