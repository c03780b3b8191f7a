SPECIFICATION FairSpec
CONSTANTS
  Thread = {t1, t2}
  Name = {n1, n2}
  IdSpace = 3
  DOT_CONNECT_ATTEMPTS = 2
  MaxLookups = 2
  Nobody = Nobody
  BITS = 4
  MAX_NAME = 4
  MAX_DNS_NAME_POINTER_HOPS = 2
  MAX_DNS_ALIAS_HOPS = 2
  MAX_RESOLVED_ADDRESSES = 2
  MAX_DNS_ANSWER_RECORDS = 3
  MaxMessage = 6
INVARIANTS SessionInSync OwnAnswers NamesDecode AnswerMatchesRecords
PROPERTY LockReleased
