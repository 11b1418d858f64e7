CONSTANTS
  DNS_TABLE_SIZE = 2
  DNS_MAX_SERVERS = 2
  DNS_MAX_RETRIES = 2
  DNS_MAX_TTL = 2
  SeqnoValues = 4
  TtlValues = 4
  MEMP_NUM_NETDB = 1
  DnsCallers = {1, 2}
  DnsPlans <- MCDnsPlans
SPECIFICATION DnsFairSpec
CHECK_DEADLOCK FALSE
INVARIANTS WaitersCalledBack
PROPERTIES LookupReturns
