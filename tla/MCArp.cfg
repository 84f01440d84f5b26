CONSTANTS
  Neighbours = {gw, h1, h2}
  Gateway = gw
  Far = {far}
  ARP_CACHE_SIZE = 2
  BCAST = BCAST
  Zero = Zero
  Stray = Stray
  Nil = Nil
SPECIFICATION ArpLiveSpec
INVARIANTS ArpInv RightMac
PROPERTIES SendsEnd
