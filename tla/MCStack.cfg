CONSTANTS
  Hosts = {"A", "B"}
  ARP_TABLE_SIZE = 2
  ARP_MAXAGE = 4
  ARP_AGE_REREQUEST_USED = 2
  ARP_MAXPENDING = 2
  PROBE_NUM = 1
  ANNOUNCE_NUM = 2
  MAX_CONFLICTS = 1
  PROBE_WAITS = {0}
  ANNOUNCE_WAIT = 1
  DEFEND_INTERVAL = 1
  RATE_LIMIT_INTERVAL = 1
  TriedValues = 3
  LinkLocals = 3
  MaxWire = 4
  LinkPlans <- MCLinkPlans
  MEM_SIZE = 16
  SIZEOF_STRUCT_MEM = 1
  MIN_SIZE = 2
  HeapSizes = {2,3,5}
  FRAG_UNIT = 2
  FRAG_ROOM = 3
  MEMP_NUM_FRAG_PBUF = 2
  MEMP_NUM_REASSDATA = 2
  IP_REASS_MAX_PBUFS = 4
  IP_REASS_MAXAGE = 1
  ReassPlans <- MCReassPlans
  UdpPcbs = {11,12,13}
  RawPcbs = {21,22}
  EphemeralStart = 5
  EphemeralEnd = 6
  UdpPlans <- MCUdpPlans
  PoolBufs = {1,2}
  OtherBufs = {11,12}
  PBUF_POOL_BUFSIZE = 2
  Allocators = {1,2}
  PoolLengths = {0,1,3}
  PbufSteps = 5
  ByteValues = 2
  MaxPbufs = 3
  MaxBytes = 4
  MaxPbufLen = 3
  ProtThreads = {1,2,3}
  MaxNesting = 2
  Keys = {1,2,3,4}
  Values = {1,2}
  kv_num_items_init = 2
SPECIFICATION StackSpec
CHECK_DEADLOCK FALSE
INVARIANTS
  ArpCoherent
  LinkSettles
  HeapSound
  ReassSound
  UdpSound
  PbufsSound
  BytesRight
  ProtectExcludes
  TableIsMap
