\* Two sockets, one topic of two sessions, two loops: a key can be dropped and
\* taken up again, and a socket can leave one key and keep the other.
SPECIFICATION FairSpec
CONSTANTS
  Sockets = {a, b}
  Sessions = {x, y}
  Topics = {t}
  MaxLoops = 2
INVARIANTS
  OnlyToThoseWhoAsked
  WantedIsPolled
PROPERTIES
  SubscribersAreServed
