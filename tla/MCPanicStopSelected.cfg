\* One power supply that switches the channel selected before, while it is polled.
SPECIFICATION Spec
CONSTANTS
  Psus = {psu}
  Generators = {}
  Loads = {}
  Others = {}
  Tracking = {}
  Selecting = {psu}
  Deaf = {}
  Channels = 2
INVARIANTS
  OkMeansDisabled
