SPECIFICATION Spec

CONSTANTS
  Thread = {t1, t2}
  Name = {n1, n2, n3, hosted}
  hosted = hosted
  Hosts = {hosted}
  Resolvers = 2
  capacity = 2
  max_ttl = 2
  Ttl = {0, 1, 3}
  NoTtl = NoTtl
  MaxClock = 3
  Absent = Absent
  Error = Error
  FromHosts = FromHosts

SYMMETRY Symmetry
INVARIANTS HitsAreFresh CacheBounded
PROPERTIES LiveEntriesKept
