\* One session, two panels that share its key, one lost socket or restart.  Users and
\* instruments may do nothing more.
SPECIFICATION FairSpec
CONSTANTS
  Ids = {a}
  Panels = {p, q}
  Nowhere = Nowhere
  MaxVersion = 3
  MaxDrops = 1
  MaxAnswers = 1
  MaxUp = 2
INVARIANTS
  StoreAgrees
  FeedsAgree
PROPERTIES
  ListenersAreServed
CHECK_DEADLOCK FALSE
