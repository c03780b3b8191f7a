SPECIFICATION FairSpec
CONSTANTS
  Tcp = {l1, l2}
  Udp = {u1}
  Session = {s1, s2, s3}
  limit = 2
  RetryLimit = 2
INVARIANTS PermitsCounted
PROPERTIES LimiterSpec FailStop
