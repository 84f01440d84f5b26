-------------------------------- MODULE Arp --------------------------------
(***************************************************************************)
(* The ARP cache and resolve_mac (net.c).  The shell sends IP packets, and *)
(* net-rx handles ARP frames and answers echo requests, for which it sends *)
(* IP packets itself: it then waits for an ARP reply that nobody receives. *)
(* Both read the cache without a lock: each access is a step.  While the   *)
(* shell stores what DHCP has told it, net-rx can send too.                *)
(*                                                                         *)
(* A host is its own IP and MAC address.  The clock is abstract: a wait    *)
(* may end at any time.  Any host may send an ARP or echo frame any time.  *)
(***************************************************************************)
EXTENDS Naturals, FiniteSets

CONSTANTS Neighbours,      \* on our link
          Gateway,         \* one of them
          Far,             \* hosts behind the gateway
          ARP_CACHE_SIZE,
          BCAST,           \* 255.255.255.255, and its MAC address
          Zero,            \* 0.0.0.0: also a gateway that has not been set
          Stray,           \* a gateway that has been written in part
          Nil

ASSUME ArpAssumption == /\ Gateway \in Neighbours
                        /\ Neighbours \cap Far = {}
                        /\ {BCAST, Zero, Stray, Nil} \cap (Neighbours \cup Far) = {}
                        /\ BCAST \notin {Zero, Stray, Nil}
                        /\ Zero \notin {Stray, Nil}
                        /\ Stray # Nil
                        /\ ARP_CACHE_SIZE \in Nat \ {0}

Threads == {"shell", "rx"}
Slots == 1..ARP_CACHE_SIZE
Addresses == Neighbours \cup Far \cup {BCAST, Zero}

VARIABLES
  bound,      \* configured
  mask,       \* our_mask: "none" while it is 0, "part" or "whole"
  gateway,    \* our_gw: Zero, Stray or Gateway
  ip, mac,    \* arp_cache; ip is Nil where valid is false
  pc,         \* where the threads are
  dst,        \* ip_send's dst
  hop,        \* resolve_mac's hop; for arp_cache_put, the new ip
  slot,       \* the slot that was found
  to,         \* the MAC address resolve_mac returns
  seen,       \* history: mask and gateway when hop was chosen
  raced       \* history: a lookup overlapped the eviction of a slot

settings == <<bound, mask, gateway>>
arp == <<settings, ip, mac, pc, dst, hop, slot, to, seen, raced>>

Unset == [mask |-> "none", gw |-> Zero]

ArpInit ==
  /\ bound = FALSE /\ mask = "none" /\ gateway = Zero
  /\ ip = [s \in Slots |-> Nil]
  /\ mac = [s \in Slots |-> Nil]
  /\ pc = [t \in Threads |-> "idle"]
  /\ dst = [t \in Threads |-> Nil]
  /\ hop = [t \in Threads |-> Nil]
  /\ slot = [t \in Threads |-> 1]
  /\ to = [t \in Threads |-> Nil]
  /\ seen = [t \in Threads |-> Unset]
  /\ raced = FALSE

At(t, label) == pc[t] = label
Goto(t, label) == pc' = [pc EXCEPT ![t] = label]

\* The thread is done with ip_send, and its locals are gone.
Return(t) ==
  /\ Goto(t, "idle")
  /\ dst' = [dst EXCEPT ![t] = Nil]
  /\ hop' = [hop EXCEPT ![t] = Nil]
  /\ slot' = [slot EXCEPT ![t] = 1]
  /\ to' = [to EXCEPT ![t] = Nil]
  /\ seen' = [seen EXCEPT ![t] = Unset]

\* The first valid slot of h, or the set is empty.
Found(h) == {s \in Slots : ip[s] = h /\ \A r \in 1..(s - 1) : ip[r] # h}

-----------------------------------------------------------------------------
(* resolve_mac and the end of ip_send, on either thread.                   *)

\* A gateway written in part may be the address of any host, or of none.
Gateways == IF gateway = Stray THEN Neighbours \cup {Stray} ELSE {gateway}

\* Mutant: everything goes through the gateway.
Hops_Gateway(h) == IF mask = "none" THEN {h} ELSE Gateways

\* With all of the mask nobody but a neighbour is on our link, not even BCAST.
\* The first bytes of it can take a far host for one.  Mask and gateway are loaded
\* one after the other, but each is stored once and in any order: every pair that
\* is loaded can be there at one time, too.
Hops(h) ==
  IF mask = "none" \/ h \in Neighbours THEN {h}
  ELSE IF mask = "part" /\ h \in Far THEN {h} \cup Gateways
  ELSE Gateways

\* Until DHCP has ended the shell sends for DHCP only.
IpSend(t, h) ==
  /\ At(t, "idle")
  /\ t = "shell" /\ ~bound => h = BCAST
  /\ dst' = [dst EXCEPT ![t] = h]
  /\ seen' = [seen EXCEPT ![t] = [mask |-> mask, gw |-> gateway]]
  /\ \E a \in Hops(h) :
       /\ hop' = [hop EXCEPT ![t] = a]
       /\ IF a \in {BCAST, Zero}
          THEN Goto(t, "send") /\ to' = [to EXCEPT ![t] = BCAST]
          ELSE Goto(t, "lookup") /\ UNCHANGED to
  /\ UNCHANGED <<settings, ip, mac, slot>>

\* arp_cache_get finds a slot ...
Hit(t) ==
  /\ pc[t] \in {"lookup", "await"}
  /\ slot' \in {[slot EXCEPT ![t] = s] : s \in Found(hop[t])}
  /\ Goto(t, "fetch")
  /\ UNCHANGED <<settings, ip, mac, dst, hop, to, seen>>

\* ... and copies its MAC address.
Fetch(t) ==
  /\ At(t, "fetch")
  /\ to' = [to EXCEPT ![t] = mac[slot[t]]]
  /\ Goto(t, "send")
  /\ UNCHANGED <<settings, ip, mac, dst, hop, slot, seen>>

\* arp_request
Miss(t) ==
  /\ At(t, "lookup")
  /\ Found(hop[t]) = {}
  /\ Goto(t, "await")
  /\ UNCHANGED <<settings, ip, mac, dst, hop, slot, to, seen>>

\* Mutant: resolve_mac waits for as long as it takes.
GiveUp_Never(t) == FALSE /\ UNCHANGED arp

GiveUp(t) ==
  /\ At(t, "await")
  /\ Return(t)
  /\ UNCHANGED <<settings, ip, mac>>

SendPacket(t) ==
  /\ At(t, "send")
  /\ Return(t)
  /\ UNCHANGED <<settings, ip, mac>>

resolve_mac(t) ==
  \/ Hit(t)
  \/ Fetch(t)
  \/ Miss(t)
  \/ GiveUp(t)
  \/ SendPacket(t)

-----------------------------------------------------------------------------
(* arp_cache_put, on net-rx.                                               *)

\* Mutant: a host that is already there gets another slot.
Unused_Also(h) == {s \in Slots : ip[s] = Nil}

\* A host that is already there needs no slot.
Unused(h) == {s \in Slots : ip[s] = Nil /\ Found(h) = {}}

\* The MAC address of a host does not change: there is nothing to update.
PutKnown(h) ==
  /\ Found(h) # {} /\ Unused(h) = {}
  /\ UNCHANGED <<ip, mac, pc, hop>>

\* valid is set last, so that a new entry appears at once.
PutFree(h) ==
  \E s \in Unused(h) :
    /\ \A r \in Unused(h) : s <= r
    /\ ip' = [ip EXCEPT ![s] = h]
    /\ mac' = [mac EXCEPT ![s] = h]
    /\ UNCHANGED <<pc, hop>>

Victim == 1

PutEvict(h) ==
  /\ Found(h) = {} /\ Unused(h) = {}
  /\ ip' = [ip EXCEPT ![Victim] = h]
  /\ hop' = [hop EXCEPT !["rx"] = h]
  /\ Goto("rx", "evict")
  /\ UNCHANGED mac

\* A request, for us or not, or the reply to ours.
HandleArp(h) ==
  /\ At("rx", "idle")
  /\ PutKnown(h) \/ PutFree(h) \/ PutEvict(h)
  /\ UNCHANGED <<settings, dst, slot, to, seen>>

EvictMac ==
  /\ At("rx", "evict")
  /\ mac' = [mac EXCEPT ![Victim] = hop["rx"]]
  /\ Goto("rx", "idle")
  /\ hop' = [hop EXCEPT !["rx"] = Nil]
  /\ UNCHANGED <<settings, ip, dst, slot, to, seen>>

-----------------------------------------------------------------------------
(* The end of net_dhcp: memcpy stores each option byte by byte.            *)

\* our_ip is stored: it is read only where our_mask is set, which comes later.
StoreIp ==
  /\ At("shell", "idle")
  /\ ~bound
  /\ Goto("shell", "options")
  /\ UNCHANGED <<settings, ip, mac, dst, hop, slot, to, seen>>

\* The options come in any order, and the server can leave them out.
OptionBegins ==
  /\ At("shell", "options")
  /\ \/ mask = "none" /\ mask' = "part" /\ UNCHANGED gateway
     \/ gateway = Zero /\ gateway' = Stray /\ UNCHANGED mask
  /\ Goto("shell", "option")
  /\ UNCHANGED <<bound, ip, mac, dst, hop, slot, to, seen>>

OptionEnds ==
  /\ At("shell", "option")
  /\ mask' = IF mask = "part" THEN "whole" ELSE mask
  /\ gateway' = IF gateway = Stray THEN Gateway ELSE gateway
  /\ Goto("shell", "options")
  /\ UNCHANGED <<bound, ip, mac, dst, hop, slot, to, seen>>

DhcpEnds ==
  /\ At("shell", "options")
  /\ bound' = TRUE
  /\ Goto("shell", "idle")
  /\ UNCHANGED <<mask, gateway, ip, mac, dst, hop, slot, to, seen>>

dhcp_parse_opts ==
  \/ OptionBegins
  \/ OptionEnds
  \/ DhcpEnds

-----------------------------------------------------------------------------
\* A lookup has found a slot that is being overwritten.
History == raced' = (raced \/ (At("rx", "evict") /\ At("shell", "fetch") /\ slot["shell"] = Victim)')

Step(t) == resolve_mac(t) /\ History

Evict == EvictMac /\ History

Configure == dhcp_parse_opts /\ History

ArpNext ==
  \/ \E t \in Threads : Step(t)
  \/ Evict
  \/ \E t \in Threads, h \in Addresses : IpSend(t, h) /\ History
  \/ \E h \in Neighbours : HandleArp(h) /\ History
  \/ StoreIp /\ History
  \/ Configure

ArpSpec == ArpInit /\ [][ArpNext]_arp

\* A ready thread gets the CPU, and the clock reaches every deadline.
ArpLiveSpec == ArpSpec /\ (\A t \in Threads : WF_arp(Step(t)))
                       /\ WF_arp(Evict) /\ WF_arp(Configure)
-----------------------------------------------------------------------------
(* Properties.                                                             *)

\* The type of every variable; a lookup is for an address, never for none.
ArpTypeOK ==
  /\ bound \in BOOLEAN
  /\ mask \in {"none", "part", "whole"}
  /\ gateway \in {Zero, Stray, Gateway}
  /\ ip \in [Slots -> Neighbours \cup {Nil}]
  /\ mac \in [Slots -> Neighbours \cup {Nil}]
  /\ pc \in [Threads -> {"idle", "lookup", "await", "fetch", "send", "evict", "options", "option"}]
  /\ dst \in [Threads -> Addresses \cup {Nil}]
  /\ hop \in [Threads -> Addresses \cup {Stray, Nil}]
  /\ \A t \in Threads : pc[t] \in {"idle", "options", "option"} \/ hop[t] # Nil
  /\ slot \in [Threads -> Slots]
  /\ to \in [Threads -> Neighbours \cup {BCAST, Nil}]
  /\ seen \in [Threads -> [mask : {"none", "part", "whole"}, gw : {Zero, Stray, Gateway}]]
  /\ raced \in BOOLEAN

\* The cache tells the truth: valid slots come first, no host is in two of them,
\* and each has the MAC address of its host, but the one being overwritten.
CacheTruth ==
  \A s \in Slots :
    ip[s] # Nil =>
      /\ \A r \in 1..(s - 1) : ip[r] \notin {ip[s], Nil}
      /\ mac[s] = ip[s] \/ (s = Victim /\ At("rx", "evict"))

\* The variables have their types, and the cache tells the truth.
ArpInv == ArpTypeOK /\ CacheTruth

\* Whose MAC addresses a packet may go to that is sent towards a: everybody's
\* for a broadcast or no address, one that was half written for any host's.
Takers(a) ==
  IF a \in {BCAST, Zero} THEN {BCAST}
  ELSE IF a = Stray THEN Neighbours
  ELSE {a} \cap Neighbours

\* Where t's packet is to go: through the gateway if it is not for our link,
\* as soon as anything of the mask is known.
Towards(t) == IF dst[t] \in Neighbours \/ seen[t].mask = "none" THEN dst[t] ELSE seen[t].gw

\* "Resolve via cache or ARP request; off-subnet IPs resolve the gateway"
\* (net.c:163), whatever is put into the cache meanwhile.  A packet to a neighbour
\* goes to that neighbour's MAC address, however far the configuration has come; to
\* any other address, also to 255.255.255.255, to the gateway's, or to everybody's
\* if none was set; to a far host nothing is sent before the mask is known.  Only a
\* lookup that overlaps the eviction of the slot it found can read another host's.
RightMac == \A t \in Threads : At(t, "send") /\ ~raced => to[t] \in Takers(Towards(t))

\* net-rx comes back to receive, although the ARP reply it may wait for cannot
\* arrive before it does; so does the shell.
SendsEnd == \A t \in Threads : ~At(t, "idle") ~> At(t, "idle")
=============================================================================
