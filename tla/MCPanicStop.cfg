\* A power supply with two coupled channels and one whose channels are selected and
\* that may not obey; both may hang, drop and come back.
SPECIFICATION FairSpec
CONSTANTS
  Psus = {psu, rail}
  Generators = {}
  Loads = {}
  Others = {}
  Tracking = {psu}
  Selecting = {rail}
  Deaf = {rail}
  Channels = 2
INVARIANTS
  OkMeansOff
  RowsAreHonest
  ResultIsComplete
PROPERTIES
  RowsAreFinal
  PanicCompletes
