SPECIFICATION Spec
CONSTANTS
  m1 = m1
  m2 = m2
  adc = adc
  gps = gps
  volts = volts
  force = force
  speed = speed
  Monitors <- Two
  CheckUpdates <- None
  Downlinked = {adc, gps}
  NumVirtual = 2
  Computed <- ComputedHere
  Places <- PlacesHere
  Triggers <- Apart
  Hesitant <- None
  Partial <- None
  Killable <- None
  MaxSamples = 3
  MaxRestarts = 0
PROPERTIES NeverReverts
