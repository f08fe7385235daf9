\* Every function of the client, a session of each kind, two connections.
SPECIFICATION ApiSpec
CONSTANT MaxConnections = 2
INVARIANTS WholeOnOneConnection ResolvedDidItAll EveryCallIsRouted
PROPERTY EveryCallSettles
CHECK_DEADLOCK FALSE
