SPECIFICATION FairSpec
CONSTANTS
  r1 = r1
  t1 = t1
  t2 = t2
  a = a
  b = b
  Zero = Zero
  Junk = Junk
  Receivers <- OneReceiver
  Transmitters <- TwoTransmitters
  Automatic <- First
  Addresses <- TwoAddresses
  BlockCount = 1
  Killable <- Second
  MaxPackets = 3
  MaxRestarts = 1
INVARIANTS SemaphoreExact NeverTorn KnowsWhatItSaw DropsBounded
PROPERTIES AutoFollows
