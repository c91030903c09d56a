------------------------ MODULE MeasurementMonitorMC ------------------------
(***************************************************************************)
(* Small instances of MeasurementMonitor: two monitors, each with a        *)
(* downlink packet of its own, one measurement in both virtual packets and *)
(* two in the last alone.                                                  *)
(***************************************************************************)
EXTENDS MeasurementMonitor, TLC

CONSTANTS m1, m2, adc, gps, volts, force, speed

None == {}
One == {m1}
Two == {m1, m2}

ComputedHere == {volts, force, speed}
PlacesHere == volts :> {0, 1} @@ force :> {1} @@ speed :> {1}

Fires(m, x, y) == [monitor |-> m, on |-> x, out |-> y]

Apart == {Fires(m1, adc, volts), Fires(m2, gps, force), Fires(m2, gps, speed)}
SpeedTrigger == {Fires(m2, gps, speed)}
=============================================================================
