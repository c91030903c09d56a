SPECIFICATION FairSpec
CONSTANTS
  m1 = m1
  m2 = m2
  adc = adc
  gps = gps
  volts = volts
  force = force
  speed = speed
  Monitors <- Two
  CheckUpdates <- Two
  Downlinked = {adc, gps}
  NumVirtual = 2
  Computed <- ComputedHere
  Places <- PlacesHere
  Triggers <- Apart
  Hesitant <- SpeedTrigger
  Partial <- SpeedTrigger
  Killable <- One
  MaxSamples = 2
  MaxRestarts = 1
INVARIANTS CacheIsCurrent CopiesAgree
PROPERTIES NeverReverts Settled
