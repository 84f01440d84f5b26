------------------------------ MODULE NetProofs -------------------------------
(***************************************************************************)
(* Theorems about the clients of the network stack, for every network that *)
(* loses, repeats and reorders, any number of servers, hosts and commands. *)
(* What the code can tell apart by an id is right because of what each     *)
(* packet that exists anywhere says of the exchange with its id: that is   *)
(* PacketInv, the core of the inductive invariant IInv.  Behind them, with *)
(* ArpIInv, the theorems about the ARP cache below those clients, for all  *)
(* hosts and sizes of the cache.                                           *)
(***************************************************************************)
EXTENDS Net, Arp, TLAPS

\* The packets that some step may still look at.
Packets == air \cup (IF rx = "recv" THEN {} ELSE {frame})
               \cup (IF full THEN {data} ELSE {})
               \cup (IF got = NULL THEN {} ELSE {got})

\* A packet answers a command there was.  One with the id of this command
\* acknowledges the offer that was asked for, answers the query for its host, or
\* answers one of its pings.
Packet(p) ==
  /\ p.kind \in {"offer", "ack", "dns", "pong"}
  /\ p.id \in 1..commands
  /\ p.kind \in {"offer", "ack"} => p.from \in Servers
  /\ p.id = commands =>
       /\ p.kind = "ack" => want # "offer" /\ asked = <<p.from, p.id>>
       /\ p.kind = "dns" => sh = "idle" \/ p.host = target
       /\ p.kind = "pong" => sh = "idle" \/ i > 0

PacketInv == \A p \in Packets : Packet(p)

\* Who may touch the buffer of the socket.
SocketInv ==
  /\ full => rx \in {"recv", "got"}
  /\ rx = "len" => data = frame
  /\ sh = "read" => full

\* Where the shell is in a command.
ClientInv ==
  /\ sh = "idle" => i = 0 /\ addr = NULL /\ want = "none"
  /\ sh # "idle" => commands > 0 /\ target \in Hosts
  /\ sh \in {"open", "port"} => want \in {"offer", "dns"}
  /\ sh \in {"read", "take", "drop"} => want \in {"offer", "ack", "dns"}
  /\ sh = "wait" => want # "none"
  /\ sh \in {"seq", "got", "ping"} => i > 0
  /\ waiting => sh = "wait" /\ want = "pong"
  /\ DnsTruth

\* The last steps of the exchange with the DHCP server are taken in one go.
DhcpInv ==
  /\ Leased
  /\ want = "offer" => ~configured
  /\ our_ip # NULL => configured \/ sh \in {"options", "configured"}
  /\ sh = "take" /\ want = "offer" => lease.from \in Servers /\ lease.id = commands
  /\ (sh = "take" /\ want = "ack") \/ sh \in {"ip", "options", "configured"} =>
       want = "ack" /\ asked = <<lease.from, lease.id>> /\ lease.from \in Servers /\ lease.id = commands
  /\ sh \in {"options", "configured"} => our_ip = asked
  /\ sh = "configured" => our_gw = asked[1]

\* A reply that net-rx has compared is stored before the next ping of its command.
PingInv ==
  /\ rx = "got" => frame.kind = "pong"
  /\ rx = "got" /\ frame.id = commands =>
       frame.seq = seq /\ sh \notin {"seq", "got", "ping"}
  /\ sh = "ping" \/ (sh = "wait" /\ want = "pong") =>
       (got # NULL /\ got.id = commands => got.seq = seq)

IInv == TypeOK /\ PacketInv /\ SocketInv /\ ClientInv /\ DhcpInv /\ PingInv

-----------------------------------------------------------------------------
(* Packets.                                                                *)

\* A step at which no packet is sent keeps what each says of the exchange.
LEMMA PacketsKept ==
  ASSUME PacketInv, Packets' \subseteq Packets, UNCHANGED <<commands, asked>>,
         want' = "offer" => want = "offer", sh = "idle" => sh' = "idle",
         sh' = "idle" \/ (target' = target /\ (i > 0 => i' > 0))
  PROVE  PacketInv'
BY DEF PacketInv, Packet

LEMMA InitInv == Init => IInv
<1> SUFFICES ASSUME Init
             PROVE  IInv
  OBVIOUS
<1>1. TypeOK
  <2>1. 0 \in 0..Count /\ 0 \in 0..MaxCommands /\ 0 \in 0..0
    BY NetAssumption
  <2>2. QED
    BY <2>1 DEF Init, TypeOK
<1>2. PacketInv
  BY DEF Init, PacketInv, Packets
<1>3. SocketInv /\ ClientInv /\ DhcpInv /\ PingInv
  BY DEF Init, SocketInv, ClientInv, DhcpInv, PingInv, DnsTruth, Leased
<1>4. QED
  BY <1>1, <1>2, <1>3 DEF IInv

-----------------------------------------------------------------------------
(* The net-rx thread.                                                      *)

\* It leaves the shell's variables alone.
LEMMA RxFrame ==
  ASSUME IInv, UNCHANGED <<conf, waiting, seq, sh, command, result>>,
         Packets' \subseteq Packets
  PROVE  PacketInv' /\ ClientInv' /\ DhcpInv'
<1>1. PacketInv'
  BY PacketsKept DEF IInv, command, result
<1>2. ClientInv' /\ DhcpInv'
  BY DEF IInv, ClientInv, DhcpInv, DnsTruth, Leased, conf, command, result
<1>3. QED
  BY <1>1, <1>2


\* A reply is compared with the ping that waits.
LEMMA HandleReplyInv ==
  ASSUME IInv, NEW f \in air, HandleReply(f)
  PROVE  IInv'
<1> USE DEF IInv
<1>1. TypeOK'
  BY DEF HandleReply, Deliver, Expected, Enter, TypeOK, conf, sock, icmp, command, result
<1>2. PacketInv' /\ ClientInv' /\ DhcpInv'
  <2>1. Packets' \subseteq Packets
    BY DEF HandleReply, Deliver, Expected, Enter, Packets, sock, icmp
  <2>2. QED
    BY <2>1, RxFrame DEF HandleReply, conf, icmp, command, result
<1>3. SocketInv' /\ PingInv'
  BY DEF HandleReply, Deliver, Expected, Enter, SocketInv, PingInv, ClientInv, sock, icmp,
     command, result
<1>4. QED
  BY <1>1, <1>2, <1>3

\* The reply is the answer to the ping that waits, or to one of an earlier command.
LEMMA SetGotInv ==
  ASSUME IInv, SetGot
  PROVE  IInv'
<1> USE DEF IInv
<1>1. TypeOK'
  BY DEF SetGot, Leave, TypeOK, PingInv, conf, sock, command, result
<1>2. PacketInv' /\ ClientInv' /\ DhcpInv'
  <2>1. Packets' \subseteq Packets
    BY DEF SetGot, Leave, Packets, sock
  <2>2. QED
    BY <2>1, RxFrame DEF SetGot, conf, command, result
<1>3. SocketInv' /\ PingInv'
  BY DEF SetGot, Leave, SocketInv, PingInv, sock, command, result
<1>4. QED
  BY <1>1, <1>2, <1>3

\* The buffer of the socket is net-rx's until it is marked ready.
LEMMA HandleUdpInv ==
  ASSUME IInv, NEW f \in air, HandleUdp(f)
  PROVE  IInv'
<1> USE DEF IInv
<1>1. TypeOK'
  BY DEF HandleUdp, Deliver, Accepts, Enter, TypeOK, conf, sock, icmp, command, result
<1>2. PacketInv' /\ ClientInv' /\ DhcpInv'
  <2>1. Packets' \subseteq Packets
    BY DEF HandleUdp, Deliver, Accepts, Enter, Packets, sock, icmp
  <2>2. QED
    BY <2>1, RxFrame DEF HandleUdp, conf, icmp, command, result
<1>3. SocketInv' /\ PingInv'
  BY DEF HandleUdp, Deliver, Accepts, Enter, SocketInv, PingInv, sock, icmp, command, result
<1>4. QED
  BY <1>1, <1>2, <1>3

LEMMA CopyBeginsInv ==
  ASSUME IInv, CopyBegins
  PROVE  IInv'
<1> USE DEF IInv
<1>1. TypeOK'
  BY DEF CopyBegins, TypeOK, conf, icmp, command, result
<1>2. PacketInv' /\ ClientInv' /\ DhcpInv'
  <2>1. Packets' \subseteq Packets
    BY DEF CopyBegins, Packets, SocketInv, icmp
  <2>2. QED
    BY <2>1, RxFrame DEF CopyBegins, conf, icmp, command, result
<1>3. SocketInv' /\ PingInv'
  BY DEF CopyBegins, SocketInv, PingInv, icmp, command, result
<1>4. QED
  BY <1>1, <1>2, <1>3

LEMMA CopyEndsInv ==
  ASSUME IInv, CopyEnds
  PROVE  IInv'
<1> USE DEF IInv
<1>1. TypeOK'
  BY DEF CopyEnds, TypeOK, conf, icmp, command, result
<1>2. PacketInv' /\ ClientInv' /\ DhcpInv'
  <2>1. Packets' \subseteq Packets
    BY DEF CopyEnds, Packets, icmp
  <2>2. QED
    BY <2>1, RxFrame DEF CopyEnds, conf, icmp, command, result
<1>3. SocketInv' /\ PingInv'
  BY DEF CopyEnds, SocketInv, PingInv, icmp, command, result
<1>4. QED
  BY <1>1, <1>2, <1>3

\* From here on the buffer is the shell's.
LEMMA SetLenInv ==
  ASSUME IInv, SetLen
  PROVE  IInv'
<1> USE DEF IInv
<1>1. TypeOK'
  BY DEF SetLen, Leave, TypeOK, conf, icmp, command, result
<1>2. PacketInv' /\ ClientInv' /\ DhcpInv'
  <2>1. Packets' \subseteq Packets
    BY DEF SetLen, Leave, Packets, SocketInv, icmp
  <2>2. QED
    BY <2>1, RxFrame DEF SetLen, conf, icmp, command, result
<1>3. SocketInv' /\ PingInv'
  BY DEF SetLen, Leave, SocketInv, PingInv, icmp, command, result
<1>4. QED
  BY <1>1, <1>2, <1>3

LEMMA IgnoreInv ==
  ASSUME IInv, NEW f \in air, Ignore(f)
  PROVE  IInv'
<1> USE DEF IInv
<1>1. TypeOK'
  BY DEF Ignore, TypeOK, conf, sock, icmp, command, result
<1>2. PacketInv' /\ ClientInv' /\ DhcpInv'
  <2>1. Packets' \subseteq Packets
    BY DEF Ignore, Packets, sock, icmp
  <2>2. QED
    BY <2>1, RxFrame DEF Ignore, conf, icmp, command, result
<1>3. SocketInv' /\ PingInv'
  BY DEF Ignore, SocketInv, PingInv, sock, icmp, command, result
<1>4. QED
  BY <1>1, <1>2, <1>3

-----------------------------------------------------------------------------
(* The shell.                                                              *)

\* Most steps change where the shell is, and little else.
LEMMA Typed ==
  ASSUME TypeOK, UNCHANGED <<conf, rx, commands>>,
         sh' \in {"idle", "wait", "read", "take", "drop", "next", "got", "port", "seq", "ip"},
         full' \in BOOLEAN, waiting' \in BOOLEAN, literal' \in BOOLEAN,
         port' \in {port, 0}, seq' \in {seq, i}, got' = got,
         i' \in 0..count', count' \in 0..Count,
         addr' \in {addr, NULL}, target' \in {target, NULL}, want' \in {want, "none", "ack"}
  PROVE  TypeOK'
<1>1. seq' \in 0..Count
  BY NetAssumption DEF TypeOK
<1>2. port' \in {0} \cup 68..(68 + MaxCommands)
  BY DEF TypeOK
<1>3. QED
  BY <1>1, <1>2 DEF TypeOK, conf

\* An address is its own answer.
LEMMA ResolveInv ==
  ASSUME IInv, Resolve
  PROVE  IInv'
<1> USE DEF IInv
<1>1. TypeOK'
  BY DEF Resolve, TypeOK, conf, sock, icmp, net, command
<1>2. PacketInv'
  <2>1. Packets' \subseteq Packets
    BY DEF Resolve, Packets, sock, icmp, net
  <2>2. QED
    BY <2>1, PacketsKept DEF Resolve, command
<1>3. SocketInv'
  BY DEF Resolve, SocketInv, sock, net
<1>4. ClientInv' /\ DhcpInv'
  BY DEF Resolve, ClientInv, DhcpInv, DnsTruth, Leased, conf, sock, icmp, net, command
<1>5. PingInv'
  BY DEF Resolve, PingInv, icmp, net, command
<1>6. QED
  BY <1>1, <1>2, <1>3, <1>4, <1>5

LEMMA EmptySocketInv ==
  ASSUME IInv, EmptySocket
  PROVE  IInv'
<1> USE DEF IInv
<1>1. TypeOK'
  BY Typed DEF EmptySocket, TypeOK, conf, icmp, net, command, result
<1>2. PacketInv'
  <2>1. Packets' \subseteq Packets
    BY DEF EmptySocket, Packets, icmp, net
  <2>2. QED
    BY <2>1, PacketsKept DEF EmptySocket, command, result
<1>3. SocketInv'
  BY DEF EmptySocket, SocketInv, net
<1>4. ClientInv' /\ DhcpInv'
  BY DEF EmptySocket, ClientInv, DhcpInv, DnsTruth, Leased, conf, icmp, net, command, result
<1>5. PingInv'
  BY DEF EmptySocket, PingInv, icmp, net, command, result
<1>6. QED
  BY <1>1, <1>2, <1>3, <1>4, <1>5

LEMMA ReadyInv ==
  ASSUME IInv, Ready
  PROVE  IInv'
<1> USE DEF IInv
<1>1. TypeOK'
  BY DEF Ready, TypeOK, conf, sock, icmp, net, command, result
<1>2. PacketInv'
  <2>1. Packets' \subseteq Packets
    BY DEF Ready, Packets, sock, icmp, net
  <2>2. QED
    BY <2>1, PacketsKept DEF Ready, command, result
<1>3. SocketInv'
  BY DEF Ready, SocketInv, sock, net
<1>4. ClientInv' /\ DhcpInv'
  <2>1. want \in {"offer", "ack", "dns"} /\ ~waiting
    BY DEF Ready, ClientInv, TypeOK
  <2>2. ClientInv'
    BY <2>1 DEF Ready, ClientInv, DnsTruth, icmp, command, result
  <2>3. DhcpInv'
    BY DEF Ready, DhcpInv, Leased, conf, command, result
  <2>4. QED
    BY <2>2, <2>3
<1>5. PingInv'
  BY DEF Ready, PingInv, icmp, net, command, result
<1>6. QED
  BY <1>1, <1>2, <1>3, <1>4, <1>5

\* The answer that is copied is one to this command.
LEMMA ReadInv ==
  ASSUME IInv, Read
  PROVE  IInv'
<1> USE DEF IInv
<1>1. Packet(data) /\ data.kind \in {"offer", "ack", "dns", "pong"}
  BY DEF Read, SocketInv, PacketInv, Packets, Packet
<1>2. /\ sh = "read" /\ sh' \in {"take", "drop"} /\ want \in {"offer", "ack", "dns"}
      /\ UNCHANGED <<conf, sock, icmp, net, command, want, asked>>
  BY DEF Read, ClientInv
<1>3. addr' = addr \/ (addr' = target /\ target \in Hosts)
  BY <1>1 DEF Read, Matches, Packet, ClientInv
<1>4. sh' = "take" /\ want \in {"offer", "ack"} =>
        /\ lease' = data /\ data.id = commands /\ data.from \in Servers
        /\ want = "ack" => asked = <<data.from, data.id>>
  BY <1>1 DEF Read, Matches, Packet
<1>5. TypeOK'
  BY <1>2, <1>3 DEF TypeOK, conf, sock, icmp, net, command
<1>6. PacketInv'
  <2>1. Packets' \subseteq Packets
    BY <1>2 DEF Packets, sock, icmp, net
  <2>2. QED
    BY <1>2, <2>1, PacketsKept DEF command
<1>7. SocketInv' /\ PingInv'
  BY <1>2 DEF SocketInv, PingInv, sock, icmp, net, command
<1>8. ClientInv'
  BY <1>2, <1>3 DEF ClientInv, DnsTruth, icmp, command
<1>9. DhcpInv'
  BY <1>2, <1>4 DEF DhcpInv, Leased, conf, command
<1>10. QED
  BY <1>5, <1>6, <1>7, <1>8, <1>9

LEMMA DropInv ==
  ASSUME IInv, Drop
  PROVE  IInv'
<1> USE DEF IInv
<1>1. TypeOK'
  BY Typed DEF Drop, TypeOK, conf, icmp, net, command, result
<1>2. PacketInv'
  <2>1. Packets' \subseteq Packets
    BY DEF Drop, Packets, icmp, net
  <2>2. QED
    BY <2>1, PacketsKept DEF Drop, command, result
<1>3. SocketInv'
  BY DEF Drop, SocketInv, net
<1>4. ClientInv' /\ DhcpInv'
  BY DEF Drop, ClientInv, DhcpInv, DnsTruth, Leased, conf, icmp, net, command, result
<1>5. PingInv'
  BY DEF Drop, PingInv, ClientInv, icmp, net, command, result
<1>6. QED
  BY <1>1, <1>2, <1>3, <1>4, <1>5

LEMMA TakeAckInv ==
  ASSUME IInv, TakeAck
  PROVE  IInv'
<1> USE DEF IInv
<1>1. TypeOK'
  BY Typed DEF TakeAck, TypeOK, conf, icmp, net, command, result
<1>2. PacketInv'
  <2>1. Packets' \subseteq Packets
    BY DEF TakeAck, Packets, icmp, net
  <2>2. QED
    BY <2>1, PacketsKept DEF TakeAck, command, result
<1>3. SocketInv'
  BY DEF TakeAck, SocketInv, net
<1>4. ClientInv' /\ DhcpInv'
  BY DEF TakeAck, ClientInv, DhcpInv, DnsTruth, Leased, conf, icmp, net, command, result
<1>5. PingInv'
  BY DEF TakeAck, PingInv, icmp, net, command, result
<1>6. QED
  BY <1>1, <1>2, <1>3, <1>4, <1>5

\* The acknowledgement is that of the server that was asked.
LEMMA SetIpInv ==
  ASSUME IInv, SetIp
  PROVE  IInv'
<1> USE DEF IInv
<1>1. TypeOK'
  BY DEF SetIp, TypeOK, DhcpInv, ClientInv, sock, icmp, net, command, result
<1>2. PacketInv'
  <2>1. Packets' \subseteq Packets
    BY DEF SetIp, Packets, sock, icmp, net
  <2>2. QED
    BY <2>1, PacketsKept DEF SetIp, command, result
<1>3. SocketInv'
  BY DEF SetIp, SocketInv, sock, net
<1>4. ClientInv' /\ DhcpInv'
  BY DEF SetIp, ClientInv, DhcpInv, DnsTruth, Leased, sock, icmp, net, command, result
<1>5. PingInv'
  BY DEF SetIp, PingInv, icmp, net, command, result
<1>6. QED
  BY <1>1, <1>2, <1>3, <1>4, <1>5

LEMMA SetOptionsInv ==
  ASSUME IInv, SetOptions
  PROVE  IInv'
<1> USE DEF IInv
<1>1. TypeOK'
  BY DEF SetOptions, TypeOK, DhcpInv, ClientInv, sock, icmp, net, command, result
<1>2. PacketInv'
  <2>1. Packets' \subseteq Packets
    BY DEF SetOptions, Packets, sock, icmp, net
  <2>2. QED
    BY <2>1, PacketsKept DEF SetOptions, command, result
<1>3. SocketInv'
  BY DEF SetOptions, SocketInv, sock, net
<1>4. ClientInv' /\ DhcpInv'
  BY DEF SetOptions, ClientInv, DhcpInv, DnsTruth, Leased, sock, icmp, net, command, result
<1>5. PingInv'
  BY DEF SetOptions, PingInv, icmp, net, command, result
<1>6. QED
  BY <1>1, <1>2, <1>3, <1>4, <1>5

LEMMA ConfiguredInv ==
  ASSUME IInv, Configured
  PROVE  IInv'
<1> USE DEF IInv
<1>1. TypeOK'
  BY DEF Configured, TypeOK, icmp, net, command
<1>2. PacketInv'
  <2>1. Packets' \subseteq Packets
    BY DEF Configured, Packets, icmp, net
  <2>2. QED
    BY <2>1, PacketsKept DEF Configured, command
<1>3. SocketInv'
  BY DEF Configured, SocketInv, net
<1>4. ClientInv' /\ DhcpInv'
  BY DEF Configured, ClientInv, DhcpInv, DnsTruth, Leased, icmp, net, command
<1>5. PingInv'
  BY DEF Configured, PingInv, icmp, net, command
<1>6. QED
  BY <1>1, <1>2, <1>3, <1>4, <1>5

LEMMA CloseSocketInv ==
  ASSUME IInv, CloseSocket
  PROVE  IInv'
<1> USE DEF IInv
<1>1. TypeOK'
  BY DEF CloseSocket, TypeOK, conf, icmp, net, command, result
<1>2. PacketInv'
  <2>1. Packets' \subseteq Packets
    BY DEF CloseSocket, Packets, icmp, net
  <2>2. QED
    BY <2>1, PacketsKept DEF CloseSocket, command, result
<1>3. SocketInv'
  BY DEF CloseSocket, SocketInv, net
<1>4. ClientInv' /\ DhcpInv'
  BY DEF CloseSocket, ClientInv, DhcpInv, DnsTruth, Leased, conf, icmp, net, command, result
<1>5. PingInv'
  BY DEF CloseSocket, PingInv, icmp, net, command, result
<1>6. QED
  BY <1>1, <1>2, <1>3, <1>4, <1>5

LEMMA EmptyClosedInv ==
  ASSUME IInv, EmptyClosed
  PROVE  IInv'
<1> USE DEF IInv
<1>1. TypeOK'
  BY Typed DEF EmptyClosed, TypeOK, conf, icmp, net, command, result
<1>2. PacketInv'
  <2>1. Packets' \subseteq Packets
    BY DEF EmptyClosed, Packets, icmp, net
  <2>2. QED
    BY <2>1, PacketsKept DEF EmptyClosed, command, result
<1>3. SocketInv'
  BY DEF EmptyClosed, SocketInv, net
<1>4. ClientInv' /\ DhcpInv'
  BY DEF EmptyClosed, ClientInv, DhcpInv, DnsTruth, Leased, conf, icmp, net, command, result
<1>5. PingInv'
  BY DEF EmptyClosed, PingInv, icmp, net, command, result
<1>6. QED
  BY <1>1, <1>2, <1>3, <1>4, <1>5

\* No reply to this command is being stored when the next ping begins.
LEMMA NextPingInv ==
  ASSUME IInv, NextPing
  PROVE  IInv'
<1> USE DEF IInv
<1>1. TypeOK'
  <2>1. CASE i < count
    BY <2>1 DEF NextPing, TypeOK, conf, sock, icmp, net
  <2>2. CASE ~(i < count)
    <3>1. 0 \in 0..0 /\ 0 \in 0..Count
      BY NetAssumption
    <3>2. /\ sh' = "idle" /\ count' = 0 /\ i' = 0 /\ target' = NULL /\ addr' = NULL
          /\ literal' = FALSE /\ want' = "none"
          /\ UNCHANGED <<conf, sock, icmp, net, commands>>
      BY <2>2 DEF NextPing, Done
    <3>3. full \in BOOLEAN /\ waiting \in BOOLEAN
      BY DEF TypeOK
    <3>4. QED
      BY <3>1, <3>2, <3>3, Typed DEF sock, icmp, net
  <2>3. QED
    BY <2>1, <2>2
<1>2. PacketInv'
  <2>1. Packets' \subseteq Packets
    BY DEF NextPing, Done, Packets, sock, icmp, net
  <2>2. QED
    BY <2>1, PacketsKept DEF NextPing, Done, TypeOK
<1>3. SocketInv'
  BY DEF NextPing, Done, SocketInv, sock, net
<1>4. ClientInv' /\ DhcpInv'
  BY DEF NextPing, Done, TypeOK, ClientInv, DhcpInv, DnsTruth, Leased, conf, sock, icmp, net
<1>5. PingInv'
  <2>1. CASE i < count
    <3>1. ASSUME rx = "got", frame.id = commands
          PROVE  FALSE
      <4>1. Packet(frame) /\ frame.kind = "pong"
        BY <3>1 DEF PacketInv, Packets, PingInv
      <4>2. i > 0
        BY <3>1, <4>1 DEF NextPing, Packet
      <4>3. QED
        BY <2>1, <3>1, <4>2 DEF NextPing
    <3>2. QED
      BY <2>1, <3>1 DEF NextPing, PingInv, icmp, net
  <2>2. CASE ~(i < count)
    BY <2>2 DEF NextPing, Done, PingInv, icmp, net
  <2>3. QED
    BY <2>1, <2>2
<1>6. QED
  BY <1>1, <1>2, <1>3, <1>4, <1>5

LEMMA SetSeqInv ==
  ASSUME IInv, SetSeq
  PROVE  IInv'
<1> USE DEF IInv
<1>1. TypeOK'
  BY Typed DEF SetSeq, TypeOK, conf, sock, net, command, result
<1>2. PacketInv'
  <2>1. Packets' \subseteq Packets
    BY DEF SetSeq, Packets, sock, net
  <2>2. QED
    BY <2>1, PacketsKept DEF SetSeq, command, result
<1>3. SocketInv'
  BY DEF SetSeq, SocketInv, sock, net
<1>4. ClientInv' /\ DhcpInv'
  BY DEF SetSeq, ClientInv, DhcpInv, DnsTruth, Leased, conf, sock, net, command, result
<1>5. PingInv'
  BY DEF SetSeq, PingInv, net, command, result
<1>6. QED
  BY <1>1, <1>2, <1>3, <1>4, <1>5

LEMMA ClearGotInv ==
  ASSUME IInv, ClearGot
  PROVE  IInv'
<1> USE DEF IInv
<1>1. TypeOK'
  BY DEF ClearGot, TypeOK, conf, sock, net, command, result
<1>2. PacketInv'
  <2>1. Packets' \subseteq Packets
    BY DEF ClearGot, Packets, sock, net
  <2>2. QED
    BY <2>1, PacketsKept DEF ClearGot, command, result
<1>3. SocketInv'
  BY DEF ClearGot, SocketInv, sock, net
<1>4. ClientInv' /\ DhcpInv'
  BY DEF ClearGot, ClientInv, DhcpInv, DnsTruth, Leased, conf, sock, net, command, result
<1>5. PingInv'
  BY DEF ClearGot, PingInv, net, command, result
<1>6. QED
  BY <1>1, <1>2, <1>3, <1>4, <1>5

LEMMA PingAnsweredInv ==
  ASSUME IInv, PingAnswered
  PROVE  IInv'
<1> USE DEF IInv
<1>1. TypeOK'
  BY Typed DEF PingAnswered, PingEnds, TypeOK, conf, sock, net, command, result
<1>2. PacketInv'
  <2>1. Packets' \subseteq Packets
    BY DEF PingAnswered, Answered, PingEnds, Packets, sock, net
  <2>2. QED
    BY <2>1, PacketsKept DEF PingAnswered, Answered, PingEnds, command, result
<1>3. SocketInv'
  BY DEF PingAnswered, Answered, PingEnds, SocketInv, sock, net
<1>4. ClientInv' /\ DhcpInv'
  BY DEF PingAnswered, Answered, PingEnds, ClientInv, DhcpInv, DnsTruth, Leased, conf, sock,
     net, command, result
<1>5. PingInv'
  BY DEF PingAnswered, Answered, PingEnds, PingInv, net, command, result
<1>6. QED
  BY <1>1, <1>2, <1>3, <1>4, <1>5

LEMMA TimeoutInv ==
  ASSUME IInv, Timeout
  PROVE  IInv'
<1> USE DEF IInv
<1>1. TypeOK'
  <2>1. CASE PingEnds
    BY <2>1, Typed DEF PingEnds, TypeOK, conf, sock, icmp, net, command, result
  <2>2. CASE ~PingEnds
    <3>1. 0 \in 0..0 /\ 0 \in 0..Count
      BY NetAssumption
    <3>2. /\ sh' = "idle" /\ count' = 0 /\ i' = 0 /\ target' = NULL /\ addr' = NULL
          /\ literal' = FALSE /\ want' = "none" /\ port' = 0
          /\ UNCHANGED <<conf, full, data, icmp, net, commands>>
      BY <2>2 DEF Timeout, Done
    <3>3. full \in BOOLEAN /\ waiting \in BOOLEAN
      BY DEF TypeOK
    <3>4. QED
      BY <3>1, <3>2, <3>3, Typed DEF icmp, net
  <2>3. QED
    BY <2>1, <2>2
<1>2. PacketInv'
  <2>1. Packets' \subseteq Packets
    BY DEF Timeout, PingEnds, Done, Packets, sock, icmp, net
  <2>2. QED
    BY <2>1, PacketsKept DEF Timeout, PingEnds, Done, command, result
<1>3. SocketInv'
  BY DEF Timeout, PingEnds, Done, SocketInv, sock, net
<1>4. ClientInv' /\ DhcpInv'
  BY DEF Timeout, PingEnds, Done, ClientInv, DhcpInv, DnsTruth, Leased, conf, sock, icmp,
     net, command, result
<1>5. PingInv'
  BY DEF Timeout, PingEnds, Done, PingInv, icmp, net, command, result
<1>6. QED
  BY <1>1, <1>2, <1>3, <1>4, <1>5

\* An OFFER, an ACK, an answer or a reply that comes into being is one to the
\* packet that is sent.
LEMMA PacketsSent ==
  ASSUME PacketInv, NEW answers, Packets' \subseteq Packets \cup answers,
         UNCHANGED <<commands, asked, target, i>>, sh # "idle",
         want' = "offer" => want = "offer",
         \A p \in answers : Packet(p)'
  PROVE  PacketInv'
<1>1. \A p \in Packets : Packet(p)'
  BY DEF PacketInv, Packet
<1>2. QED
  BY <1>1 DEF PacketInv

LEMMA OpenSocketInv ==
  ASSUME IInv, OpenSocket
  PROVE  IInv'
<1> USE DEF IInv
<1> DEFINE answers == IF want = "dns"
                      THEN [kind : {"dns"}, id : {commands}, host : {target}]
                      ELSE [kind : {"offer"}, id : {commands}, from : Servers]
<1>1. /\ sh = "port" /\ sh' = "wait" /\ want \in {"offer", "dns"}
      /\ port' = (IF want = "dns" THEN 68 + commands ELSE 68)
      /\ air' \in {air, air \cup answers} /\ commands \in 1..MaxCommands
      /\ UNCHANGED <<conf, full, data, icmp, rx, frame, command, result>>
  BY DEF OpenSocket, Send, ClientInv, TypeOK
<1>2. TypeOK'
  <2>1. port' \in {0} \cup 68..(68 + MaxCommands)
    BY <1>1, NetAssumption
  <2>2. QED
    BY <1>1, <2>1 DEF TypeOK, conf, icmp, command, result
<1>3. PacketInv'
  <2>1. Packets' \subseteq Packets \cup answers
    BY <1>1 DEF Packets, icmp
  <2>2. \A p \in answers : Packet(p)'
    BY <1>1 DEF Packet, command, result
  <2>3. QED
    BY <1>1, <2>1, <2>2, PacketsSent DEF command, result
<1>4. SocketInv' /\ PingInv'
  BY <1>1 DEF SocketInv, PingInv, icmp, command, result
<1>5. ClientInv' /\ DhcpInv'
  BY <1>1 DEF ClientInv, DhcpInv, DnsTruth, Leased, conf, icmp, command, result
<1>6. QED
  BY <1>2, <1>3, <1>4, <1>5

\* The server whose offer was taken is the one that acknowledges: no other ACK has
\* the id of this exchange.
LEMMA TakeOfferInv ==
  ASSUME IInv, TakeOffer
  PROVE  IInv'
<1> USE DEF IInv
<1> DEFINE answers == [kind : {"ack"}, id : {commands}, from : {lease.from}]
<1>1. /\ sh = "take" /\ sh' = "wait" /\ want = "offer" /\ want' = "ack" /\ full' = FALSE
      /\ asked' = <<lease.from, lease.id>> /\ lease.from \in Servers /\ lease.id = commands
      /\ air' \in {air, air \cup answers} /\ ~configured /\ our_ip = NULL
      /\ UNCHANGED <<conf, port, data, icmp, rx, frame, command, addr, lease>>
  BY DEF TakeOffer, Send, DhcpInv
<1>2. commands \in 1..MaxCommands /\ ~waiting
  BY <1>1 DEF ClientInv, TypeOK
<1>3. TypeOK'
  BY <1>1, Typed DEF TypeOK, conf, icmp, command
<1>4. PacketInv'
  <2>1. Packets' \subseteq Packets \cup answers
    BY <1>1 DEF Packets, icmp
  <2>2. \A p \in answers : Packet(p)'
    BY <1>1, <1>2 DEF Packet, command
  <2>3. \A p \in Packets : Packet(p)'
    BY <1>1 DEF PacketInv, Packet, command
  <2>4. QED
    BY <2>1, <2>2, <2>3 DEF PacketInv
<1>5. SocketInv' /\ PingInv'
  BY <1>1 DEF SocketInv, PingInv, icmp, command
<1>6. ClientInv' /\ DhcpInv'
  BY <1>1, <1>2 DEF ClientInv, DhcpInv, DnsTruth, Leased, conf, icmp, command
<1>7. QED
  BY <1>3, <1>4, <1>5, <1>6

LEMMA PingSentInv ==
  ASSUME IInv, Ping
  PROVE  IInv'
<1> USE DEF IInv
<1> DEFINE answers == [kind : {"pong"}, seq : {seq}, id : {commands}, host : {addr}]
<1>1. /\ sh = "ping" /\ sh' = "wait" /\ want' = "pong" /\ waiting' = TRUE
      /\ air' \in {air, air \cup answers} /\ commands \in 1..MaxCommands
      /\ UNCHANGED <<conf, sock, seq, got, rx, frame, command, addr, lease, asked>>
  BY DEF Ping, Send, ClientInv, TypeOK
<1>2. i > 0
  BY <1>1 DEF ClientInv
<1>3. TypeOK'
  BY <1>1 DEF TypeOK, conf, sock, command
<1>4. PacketInv'
  <2>1. Packets' \subseteq Packets \cup answers
    BY <1>1 DEF Packets, sock
  <2>2. \A p \in answers : Packet(p)'
    BY <1>1, <1>2 DEF Packet, command
  <2>3. QED
    BY <1>1, <2>1, <2>2, PacketsSent DEF command
<1>5. SocketInv' /\ PingInv'
  BY <1>1 DEF SocketInv, PingInv, sock, command
<1>6. ClientInv' /\ DhcpInv'
  BY <1>1 DEF ClientInv, DhcpInv, DnsTruth, Leased, conf, command
<1>7. QED
  BY <1>3, <1>4, <1>5, <1>6

\* A new command has an id that no packet has.
LEMMA CommandInv ==
  ASSUME IInv, NEW h \in Hosts, NEW n \in 0..Count, Command(h, n)
  PROVE  IInv'
<1> USE DEF IInv
<1>1. /\ sh = "idle" /\ commands < MaxCommands /\ commands' = commands + 1
      /\ target' = h /\ literal' \in BOOLEAN /\ count' = n /\ i = 0 /\ addr = NULL
      /\ \/ configured /\ sh' = "resolve" /\ want' = "none"
         \/ ~configured /\ sh' = "open" /\ want' = "offer"
      /\ UNCHANGED <<conf, sock, icmp, net, i, addr, lease, asked>>
  BY DEF Command, ClientInv
<1>2. commands \in Nat /\ commands' \in 0..MaxCommands
  BY <1>1, NetAssumption DEF TypeOK
<1>3. TypeOK'
  BY <1>1, <1>2, NetAssumption DEF TypeOK, conf, sock, icmp, net
<1>4. PacketInv'
  <2>1. Packets' = Packets
    BY <1>1 DEF Packets, sock, icmp, net
  <2>2. \A p \in Packets : p.id \in 1..commands /\ Packet(p)
    BY DEF PacketInv, Packet
  <2>3. \A p \in Packets : Packet(p)'
    BY <1>1, <1>2, <2>2 DEF Packet
  <2>4. QED
    BY <2>1, <2>3 DEF PacketInv
<1>5. SocketInv'
  BY <1>1 DEF SocketInv, sock, net
<1>6. PingInv'
  <2>1. rx = "got" => frame.id \in 1..commands
    BY DEF PacketInv, Packets, Packet
  <2>2. rx = "got" => frame.id # commands'
    BY <1>1, <1>2, <2>1
  <2>3. QED
    BY <1>1, <2>2 DEF PingInv, net
<1>7. ClientInv' /\ DhcpInv'
  BY <1>1, <1>2 DEF ClientInv, DhcpInv, DnsTruth, Leased, conf, icmp
<1>8. QED
  BY <1>3, <1>4, <1>5, <1>6, <1>7

LEMMA NextInv == IInv /\ [Next]_vars => IInv'
<1>1. ASSUME IInv, UNCHANGED vars
      PROVE  IInv'
  <2>1. TypeOK' /\ SocketInv' /\ PingInv'
    BY <1>1 DEF IInv, TypeOK, SocketInv, PingInv, vars, conf, sock, icmp, net, command,
       result
  <2>2. Packets' \subseteq Packets
    BY <1>1 DEF Packets, vars, sock, icmp, net
  <2>3. QED
    BY <1>1, <2>1, <2>2, RxFrame DEF IInv, vars, icmp
<1>2. ASSUME IInv, ShellStep
      PROVE  IInv'
  BY <1>2, ResolveInv, EmptySocketInv, OpenSocketInv, ReadyInv, ReadInv, DropInv,
     TakeOfferInv, TakeAckInv, SetIpInv, SetOptionsInv, ConfiguredInv, CloseSocketInv,
     EmptyClosedInv, NextPingInv, SetSeqInv, ClearGotInv, PingSentInv, PingAnsweredInv DEF
     ShellStep
<1>3. ASSUME IInv, Receive \/ Handle
      PROVE  IInv'
  BY <1>3, HandleReplyInv, HandleUdpInv, IgnoreInv, SetGotInv, CopyBeginsInv, CopyEndsInv,
     SetLenInv DEF Receive, Handle
<1>4. QED
  BY <1>1, <1>2, <1>3, CommandInv, TimeoutInv DEF Next

-----------------------------------------------------------------------------
(* The theorems.                                                           *)

\* The invariant holds in every state.
THEOREM Invariance == Spec => []IInv
BY InitInv, NextInv, PTL DEF Spec

\* The configuration is that of the server whose offer was asked for, and an
\* address is the answer to the name that was looked up.
THEOREM AnswersAreOurs == Spec => []Inv
<1>1. IInv => Inv
  BY DEF IInv, DhcpInv, ClientInv, Inv
<1>2. QED
  BY <1>1, Invariance, PTL

\* Within a command, no reply to an earlier ping is taken for the answer to a later
\* one.
THEOREM PingsAreMatched == Spec => []PingMatched
<1>1. IInv => PingMatched
  BY DEF IInv, PingInv, PingMatched, Answered
<1>2. QED
  BY <1>1, Invariance, PTL

\* While the shell reads a datagram (net.c:312), net-rx leaves the buffer alone.
THEOREM BufferIsTheReaders == Spec => ReaderAlone
<1>1. ASSUME IInv, [Next]_vars, sh = "read"
      PROVE  data.kind \notin {"none", "torn"} /\ data' = data
  <2>1. full /\ rx \in {"recv", "got"}
    BY <1>1 DEF IInv, SocketInv
  <2>2. Packet(data)
    BY <1>1, <2>1 DEF PacketInv, Packets, IInv
  <2>3. data' = data
    <3>1. CASE UNCHANGED vars
      BY <3>1 DEF vars, sock
    <3>2. ASSUME \E h \in Hosts, n \in 0..Count : Command(h, n)
          PROVE  FALSE
      BY <1>1, <3>2 DEF Command
    <3>3. CASE ShellStep \/ Timeout
      BY <1>1, <3>3 DEF ShellStep, Timeout, Resolve, EmptySocket, OpenSocket, Ready, Read,
         Drop, TakeOffer, TakeAck, SetIp, SetOptions, Configured, CloseSocket, EmptyClosed,
         NextPing, SetSeq, ClearGot, Ping, PingAnswered, Answered, sock
    <3>4. CASE Receive \/ Handle
      BY <2>1, <3>4 DEF Receive, Handle, HandleReply, HandleUdp, Ignore, SetGot, CopyBegins,
         CopyEnds, SetLen, sock
    <3>5. QED
      BY <1>1, <3>1, <3>2, <3>3, <3>4 DEF Next
  <2>4. QED
    BY <2>2, <2>3 DEF Packet
<1>2. IInv /\ [Next]_vars
        => [sh = "read" => data.kind \notin {"none", "torn"} /\ data' = data]_vars
  BY <1>1
<1>3. QED
  BY <1>2, Invariance, PTL DEF Spec, ReaderAlone

-----------------------------------------------------------------------------
-----------------------------------------------------------------------------
(***************************************************************************)
(* The ARP cache under the clients, for every set of hosts and every size  *)
(* of the cache.  The inductive invariant ArpIInv adds to the properties   *)
(* of Arp what each thread knows while it waits: for whom it looks under   *)
(* the settings it saw, what is in the slot it found, and what net-rx is   *)
(* about to write.                                                         *)
(***************************************************************************)

\* A thread that looks for a neighbour looks for the right one.  It can also look for
\* a far host, or a gateway half written: nothing in the cache answers that.
LookupInv ==
  \A t \in Threads :
    pc[t] \in {"lookup", "await", "fetch"} /\ hop[t] \in Neighbours =>
      hop[t] \in Takers(Towards(t))

\* Unless a race has occurred, the slot found is still that of the hop.
FetchInv ==
  \A t \in Threads :
    At(t, "fetch") /\ ~raced =>
      /\ ip[slot[t]] = hop[t]
      /\ ~(slot[t] = Victim /\ At("rx", "evict"))

\* Only net-rx fills the cache; the slot it overwrites already bears the new address.
EvictInv ==
  /\ ~At("shell", "evict")
  /\ At("rx", "evict") => hop["rx"] = ip[Victim] /\ hop["rx"] \in Neighbours

ArpIInv == /\ ArpTypeOK
        /\ CacheTruth
        /\ LookupInv
        /\ FetchInv
        /\ EvictInv
        /\ RightMac

-----------------------------------------------------------------------------
(* The cache.                                                              *)

\* What arp_cache_get finds holds the address looked for, and the loop finds
\* nothing only when no slot holds it.
LEMMA FoundHolds ==
  ASSUME NEW h, NEW s \in Found(h)
  PROVE  s \in Slots /\ ip[s] = h
BY DEF Found

\* The variables at one thread.
LEMMA ThreadTypes ==
  ASSUME ArpTypeOK, NEW t \in Threads
  PROVE  /\ pc[t] \in {"idle", "lookup", "await", "fetch", "send", "evict", "options", "option"}
         /\ dst[t] \in Addresses \cup {Nil}
         /\ hop[t] \in Addresses \cup {Stray, Nil}
         /\ slot[t] \in Slots
         /\ to[t] \in Neighbours \cup {BCAST, Nil}
         /\ pc[t] \notin {"idle", "options", "option"} => hop[t] # Nil
BY DEF ArpTypeOK

\* Slot 1 is the one that is overwritten.
LEMMA VictimIsSlot == Victim \in Slots /\ \A s \in Slots : s # Victim => Victim \in 1..(s - 1)
BY ArpAssumption DEF Victim, Slots

\* What is left of a slot.
LEMMA BelowIsSlot ==
  ASSUME NEW s \in Slots, NEW r \in 1..(s - 1)
  PROVE  r \in Slots /\ r < s
BY ArpAssumption DEF Slots

-----------------------------------------------------------------------------
(* One lemma per action.                                                   *)

LEMMA ArpInitInv == ArpInit => ArpIInv
<1> SUFFICES ASSUME ArpInit
             PROVE  ArpIInv
  OBVIOUS
<1>1. ArpTypeOK
  BY VictimIsSlot DEF ArpInit, ArpTypeOK, Unset, Victim
<1>2. QED
  BY <1>1 DEF ArpInit, ArpIInv, CacheTruth, LookupInv, FetchInv, EvictInv, RightMac, At, Threads

\* Whatever part of mask and gateway is stored, a hop that needs no lookup is
\* everybody's, and a neighbour that is looked for is where the packet is to go.
LEMMA HopIsRight ==
  ASSUME ArpTypeOK, NEW h \in Addresses, NEW a \in Hops(h)
  PROVE  LET towards == IF h \in Neighbours \/ mask = "none" THEN h ELSE gateway
         IN  /\ a \in Addresses \cup {Stray} /\ a # Nil
             /\ a \in {BCAST, Zero} => BCAST \in Takers(towards)
             /\ a \in Neighbours => a \in Takers(towards)
<1>1. CASE mask = "none" \/ h \in Neighbours
  BY <1>1, ArpAssumption DEF Hops, Takers, Addresses
<1>2. CASE ~(mask = "none" \/ h \in Neighbours)
  <2>1. CASE a \in Gateways
    BY <1>2, <2>1, ArpAssumption DEF Gateways, Takers, Addresses, ArpTypeOK
  <2>2. CASE a = h /\ h \in Far
    BY <1>2, <2>2, ArpAssumption DEF Addresses
  <2>3. QED
    BY <1>2, <2>1, <2>2 DEF Hops
<1>3. QED
  BY <1>1, <1>2

\* resolve_mac takes the gateway for what is not on the link once a mask is known.
LEMMA IpSendInv ==
  ASSUME ArpIInv, NEW t \in Threads, NEW h \in Addresses, IpSend(t, h), History
  PROVE  ArpIInv'
<1> USE DEF ArpIInv
<1>1. PICK a \in Hops(h) :
        /\ hop' = [hop EXCEPT ![t] = a]
        /\ IF a \in {BCAST, Zero}
           THEN Goto(t, "send") /\ to' = [to EXCEPT ![t] = BCAST]
           ELSE Goto(t, "lookup") /\ UNCHANGED to
  BY DEF IpSend
<1>2. /\ dst' = [dst EXCEPT ![t] = h]
      /\ seen' = [seen EXCEPT ![t] = [mask |-> mask, gw |-> gateway]]
      /\ UNCHANGED <<settings, ip, mac, slot>>
      /\ pc[t] = "idle"
      /\ pc' = [pc EXCEPT ![t] = IF a \in {BCAST, Zero} THEN "send" ELSE "lookup"]
  BY <1>1 DEF IpSend, At, Goto
<1>3. /\ a \in Addresses \cup {Stray} /\ a # Nil
      /\ a \in {BCAST, Zero} => BCAST \in Takers(Towards(t)')
      /\ a \in Neighbours => a \in Takers(Towards(t)')
  <2>1. Towards(t)' = IF h \in Neighbours \/ mask = "none" THEN h ELSE gateway
    BY <1>2 DEF Towards, ArpTypeOK
  <2>2. QED
    BY <2>1, HopIsRight
<1>4. \A u \in Threads : u # t => /\ pc'[u] = pc[u] /\ hop'[u] = hop[u] /\ to'[u] = to[u]
                                  /\ Towards(u)' = Towards(u)
  BY <1>1, <1>2 DEF ArpTypeOK, Towards
<1>5. ArpTypeOK'
  BY <1>1, <1>2, <1>3 DEF ArpTypeOK, settings, History, At, Goto, Threads
<1>6. CacheTruth' /\ EvictInv'
  BY <1>1, <1>2 DEF CacheTruth, EvictInv, At, ArpTypeOK, Threads
<1>7. LookupInv'
  BY <1>1, <1>2, <1>3, <1>4 DEF LookupInv, ArpTypeOK, Takers
<1>8. FetchInv'
  BY <1>1, <1>2 DEF FetchInv, At, ArpTypeOK, History, Threads
<1>9. RightMac'
  BY <1>1, <1>2, <1>3, <1>4 DEF RightMac, At, Goto, ArpTypeOK, History, Takers
<1>10. QED
  BY <1>5, <1>6, <1>7, <1>8, <1>9

\* A slot that the shell finds while net-rx overwrites it is a race.
LEMMA HitInv ==
  ASSUME ArpIInv, NEW t \in Threads, Hit(t), History
  PROVE  ArpIInv'
<1> USE DEF ArpIInv
<1>1. PICK s \in Found(hop[t]) : slot' = [slot EXCEPT ![t] = s]
  BY DEF Hit
<1>2. s \in Slots /\ ip[s] = hop[t]
  BY FoundHolds
<1>3. ArpTypeOK'
  BY <1>1, <1>2 DEF ArpTypeOK, settings, Hit, At, Goto, History, Threads
<1>4. CacheTruth'
  BY DEF CacheTruth, Hit, At, Goto, ArpTypeOK, Threads
<1>5. LookupInv'
  BY DEF LookupInv, Hit, Goto, ArpTypeOK, Towards
<1>6. FetchInv'
  <2>1. SUFFICES ASSUME NEW u \in Threads, At(u, "fetch")', ~raced'
                 PROVE  ip[slot'[u]] = hop[u] /\ ~(slot'[u] = Victim /\ At("rx", "evict")')
    BY DEF FetchInv, Hit
  <2>2. ip[slot'[u]] = hop[u]
    BY <1>1, <1>2, <2>1 DEF FetchInv, Hit, At, Goto, ArpTypeOK, History
  <2>3. ~(slot'[u] = Victim /\ At("rx", "evict")')
    BY <2>1 DEF History, At, Threads
  <2>4. QED
    BY <2>2, <2>3
<1>7. EvictInv'
  BY DEF EvictInv, Hit, At, Goto, ArpTypeOK, Threads
<1>8. RightMac'
  BY DEF RightMac, Hit, At, Goto, ArpTypeOK, History, Towards
<1>9. QED
  BY <1>3, <1>4, <1>5, <1>6, <1>7, <1>8

\* The MAC address in the slot found is that of the next hop.
LEMMA FetchStepInv ==
  ASSUME ArpIInv, NEW t \in Threads, Fetch(t), History
  PROVE  ArpIInv'
<1> USE DEF ArpIInv
<1>1. ArpTypeOK'
  BY ThreadTypes DEF ArpTypeOK, Fetch, At, Goto, History, Threads, settings
<1>2. CacheTruth'
  BY DEF CacheTruth, Fetch, At, Goto, ArpTypeOK, Threads
<1>3. LookupInv'
  BY DEF LookupInv, Fetch, At, Goto, ArpTypeOK, Towards
<1>4. FetchInv'
  BY DEF FetchInv, Fetch, At, Goto, ArpTypeOK, History, Threads
<1>5. EvictInv'
  BY DEF EvictInv, Fetch, At, Goto, ArpTypeOK, Threads
<1>6. RightMac'
  <2>1. SUFFICES ASSUME ~raced'
                 PROVE  to'[t] \in Takers(Towards(t))
    BY DEF RightMac, Fetch, At, Goto, ArpTypeOK, History, Towards
  <2>2. ip[slot[t]] = hop[t] /\ ~(slot[t] = Victim /\ At("rx", "evict"))
    BY <2>1 DEF FetchInv, Fetch, History
  <2>3. hop[t] # Nil /\ hop[t] \in Neighbours
    BY <2>2, ThreadTypes DEF Fetch, At, ArpTypeOK
  <2>4. mac[slot[t]] = hop[t]
    BY <2>2, <2>3, ThreadTypes DEF CacheTruth
  <2>5. hop[t] \in Takers(Towards(t))
    BY <2>3 DEF LookupInv, Fetch, At
  <2>6. QED
    BY <2>4, <2>5 DEF Fetch, ArpTypeOK
<1>7. QED
  BY <1>1, <1>2, <1>3, <1>4, <1>5, <1>6

LEMMA MissInv ==
  ASSUME ArpIInv, NEW t \in Threads, Miss(t), History
  PROVE  ArpIInv'
<1> USE DEF ArpIInv
<1>1. ArpTypeOK'
  BY DEF ArpTypeOK, Miss, At, Goto, History, Threads, settings
<1>2. CacheTruth' /\ EvictInv'
  BY DEF CacheTruth, EvictInv, Miss, At, Goto, ArpTypeOK, Threads
<1>3. LookupInv'
  BY DEF LookupInv, Miss, At, Goto, ArpTypeOK, Towards
<1>4. FetchInv' /\ RightMac'
  BY DEF FetchInv, RightMac, Miss, At, Goto, ArpTypeOK, History, Threads, Towards
<1>5. QED
  BY <1>1, <1>2, <1>3, <1>4

\* GiveUp and SendPacket: the locals are gone.
LEMMA ReturnInv ==
  ASSUME ArpIInv, NEW t \in Threads, pc[t] # "evict", Return(t), UNCHANGED <<settings, ip, mac>>, History
  PROVE  ArpIInv'
<1> USE DEF ArpIInv
<1>1. ArpTypeOK'
  BY VictimIsSlot DEF ArpTypeOK, Return, At, Goto, History, Threads, Victim, settings, Unset
<1>2. CacheTruth'
  BY DEF CacheTruth, Return, At, Goto, ArpTypeOK, Threads
<1>3. LookupInv'
  BY DEF LookupInv, Return, At, Goto, ArpTypeOK, Towards
<1>4. FetchInv' /\ RightMac'
  BY DEF FetchInv, RightMac, Return, At, Goto, ArpTypeOK, History, Threads, Towards
<1>5. EvictInv'
  BY DEF EvictInv, Return, At, Goto, ArpTypeOK, Threads
<1>6. QED
  BY <1>1, <1>2, <1>3, <1>4, <1>5

LEMMA ResolveMacInv ==
  ASSUME ArpIInv, NEW t \in Threads, Step(t)
  PROVE  ArpIInv'
<1>1. CASE GiveUp(t)
  BY <1>1, ReturnInv DEF Step, GiveUp, At
<1>2. CASE SendPacket(t)
  BY <1>2, ReturnInv DEF Step, SendPacket, At
<1>3. QED
  BY <1>1, <1>2, HitInv, FetchStepInv, MissInv DEF Step, resolve_mac

\* The first unused slot follows the valid ones, so no valid slot comes after it.
LEMMA PutFreeTruth ==
  ASSUME ArpIInv, NEW h \in Neighbours, PutFree(h), At("rx", "idle")
  PROVE  /\ ip' \in [Slots -> Neighbours \cup {Nil}]
         /\ mac' \in [Slots -> Neighbours \cup {Nil}]
         /\ CacheTruth'
         /\ \A s \in Slots : ip[s] # Nil => ip'[s] = ip[s]
<1> USE DEF ArpIInv
<1>1. PICK f \in Unused(h) : /\ \A r \in Unused(h) : f <= r
                             /\ ip' = [ip EXCEPT ![f] = h]
                             /\ mac' = [mac EXCEPT ![f] = h]
  BY DEF PutFree
<1>2. f \in Slots /\ ip[f] = Nil /\ Found(h) = {}
  BY <1>1 DEF Unused
<1>3. h # Nil
  BY ArpAssumption
<1>4. \A s \in Slots : ip[s] # h
  <2>1. SUFFICES ASSUME NEW s \in Slots, ip[s] = h
                 PROVE  FALSE
    OBVIOUS
  <2>2. \A r \in 1..(s - 1) : ip[r] # ip[s]
    BY <2>1, <1>3 DEF CacheTruth
  <2>3. s \in Found(h)
    BY <2>1, <2>2 DEF Found
  <2>4. QED
    BY <2>3, <1>2
<1>5. CacheTruth'
  <2>1. SUFFICES ASSUME NEW s \in Slots, ip'[s] # Nil
                 PROVE  /\ \A r \in 1..(s - 1) : ip'[r] \notin {ip'[s], Nil}
                        /\ mac'[s] = ip'[s]
    BY DEF CacheTruth
  <2>2. CASE s = f
    <3>1. ip'[s] = h /\ mac'[s] = h
      BY <1>1, <1>2, <2>2 DEF ArpTypeOK
    <3>2. ASSUME NEW r \in 1..(s - 1)
          PROVE  ip'[r] \notin {ip'[s], Nil}
      <4>1. r \in Slots /\ r < f /\ r # f
        BY <1>2, <2>2, BelowIsSlot
      <4>2. ip[r] # Nil
        BY <4>1, <1>1, <1>2 DEF Unused, Slots
      <4>3. ip'[r] = ip[r]
        BY <4>1, <1>1 DEF ArpTypeOK
      <4>4. QED
        BY <3>1, <4>1, <4>2, <4>3, <1>4
    <3>3. QED
      BY <3>1, <3>2
  <2>3. CASE s # f
    <3>1. ip'[s] = ip[s] /\ mac'[s] = mac[s] /\ ip[s] # Nil
      BY <1>1, <2>1, <2>3 DEF ArpTypeOK
    <3>2. mac[s] = ip[s] /\ \A r \in 1..(s - 1) : ip[r] \notin {ip[s], Nil}
      BY <3>1 DEF CacheTruth, At
    <3>3. \A r \in 1..(s - 1) : r \in Slots /\ r # f
      BY <1>2, <3>2, BelowIsSlot
    <3>4. \A r \in 1..(s - 1) : ip'[r] = ip[r]
      BY <3>3, <1>1 DEF ArpTypeOK
    <3>5. QED
      BY <3>1, <3>2, <3>4
  <2>4. QED
    BY <2>2, <2>3
<1>6. QED
  BY <1>1, <1>2, <1>5 DEF ArpTypeOK

LEMMA HandlePutFreeInv ==
  ASSUME ArpIInv, NEW h \in Neighbours, HandleArp(h), PutFree(h), History
  PROVE  ArpIInv'
<1> USE DEF ArpIInv
<1>1. UNCHANGED <<settings, pc, hop, dst, slot, to, seen>> /\ At("rx", "idle")
  BY DEF HandleArp, PutFree
<1>2. ArpTypeOK' /\ CacheTruth'
  BY <1>1, PutFreeTruth DEF ArpTypeOK, At, History, settings
<1>3. FetchInv'
  <2>1. ASSUME NEW t \in Threads, At(t, "fetch"), ~raced
        PROVE  ip'[slot[t]] = ip[slot[t]]
    BY <2>1, <1>1, PutFreeTruth, ThreadTypes DEF FetchInv, At
  <2>2. QED
    BY <1>1, <2>1 DEF FetchInv, At, History
<1>4. LookupInv' /\ EvictInv' /\ RightMac'
  BY <1>1 DEF LookupInv, EvictInv, RightMac, At, History, Towards
<1>5. QED
  BY <1>2, <1>3, <1>4

\* Slot 0 goes to the new host in two steps; a lookup that has found it is raced.
LEMMA HandlePutEvictInv ==
  ASSUME ArpIInv, NEW h \in Neighbours, HandleArp(h), PutEvict(h), History
  PROVE  ArpIInv'
<1> USE DEF ArpIInv
<1>1. /\ UNCHANGED <<settings, mac, dst, slot, to, seen>>
      /\ At("rx", "idle") /\ pc' = [pc EXCEPT !["rx"] = "evict"]
      /\ ip' = [ip EXCEPT ![Victim] = h]
      /\ hop' = [hop EXCEPT !["rx"] = h]
      /\ h # Nil
  BY ArpAssumption DEF HandleArp, PutEvict, Goto
<1>2. ArpTypeOK'
  BY <1>1 DEF ArpTypeOK, At, History, Addresses, Threads, settings
<1>3. \A s \in Slots : ip[s] \notin {h, Nil}
  <2>1. SUFFICES ASSUME NEW s \in Slots, ip[s] \in {h, Nil}
                 PROVE  FALSE
    OBVIOUS
  <2>2. ip[s] # Nil
    BY DEF PutEvict, Unused
  <2>3. \A r \in 1..(s - 1) : ip[r] # ip[s]
    BY <2>2 DEF CacheTruth
  <2>4. QED
    BY <2>1, <2>2, <2>3 DEF PutEvict, Found
<1>4. CacheTruth'
  <2>1. SUFFICES ASSUME NEW s \in Slots
                 PROVE  /\ \A r \in 1..(s - 1) : ip'[r] \notin {ip'[s], Nil}
                        /\ mac'[s] = ip'[s] \/ s = Victim
    BY <1>1, <1>2 DEF CacheTruth, At, ArpTypeOK, Threads
  <2>2. CASE s = Victim
    BY <2>2 DEF Victim
  <2>3. CASE s # Victim
    <3>1. ip'[s] = ip[s] /\ mac'[s] = ip[s]
      BY <1>1, <1>3, <2>3 DEF ArpTypeOK, CacheTruth
    <3>2. ASSUME NEW r \in 1..(s - 1)
          PROVE  ip'[r] \notin {ip[s], Nil}
      <4>1. r \in Slots
        BY BelowIsSlot
      <4>2. ip[r] \notin {ip[s], Nil}
        BY <1>3 DEF CacheTruth
      <4>3. QED
        BY <1>1, <1>3, <4>1, <4>2 DEF ArpTypeOK
    <3>3. QED
      BY <3>1, <3>2
  <2>4. QED
    BY <2>2, <2>3
<1>5. LookupInv' /\ RightMac'
  BY <1>1 DEF LookupInv, RightMac, At, History, ArpTypeOK, Threads, Towards
<1>6. FetchInv'
  <2>1. SUFFICES ASSUME NEW t \in Threads, At(t, "fetch")', ~raced'
                 PROVE  ip'[slot[t]] = hop'[t] /\ slot[t] # Victim
    BY <1>1 DEF FetchInv
  <2>2. t = "shell" /\ At(t, "fetch") /\ hop'[t] = hop[t]
    BY <1>1, <2>1 DEF At, ArpTypeOK, Threads
  <2>3. slot[t] # Victim
    BY <1>1, <2>1, <2>2, <1>2 DEF History, At, ArpTypeOK, Threads
  <2>4. ip'[slot[t]] = ip[slot[t]]
    BY <1>1, <2>3, ThreadTypes DEF ArpTypeOK
  <2>5. QED
    BY <2>1, <2>2, <2>3, <2>4 DEF FetchInv, History
<1>7. EvictInv'
  BY <1>1, VictimIsSlot DEF EvictInv, At, ArpTypeOK, Threads
<1>8. QED
  BY <1>2, <1>4, <1>5, <1>6, <1>7

LEMMA HandleArpInv ==
  ASSUME ArpIInv, NEW h \in Neighbours, HandleArp(h), History
  PROVE  ArpIInv'
<1>1. CASE PutKnown(h)
  BY <1>1
  DEF PutKnown, HandleArp, ArpIInv, ArpTypeOK, CacheTruth, LookupInv, FetchInv, EvictInv, RightMac,
      At, History, Towards, settings
<1>2. QED
  BY <1>1, HandlePutFreeInv, HandlePutEvictInv DEF HandleArp

LEMMA EvictMacInv ==
  ASSUME ArpIInv, Evict
  PROVE  ArpIInv'
<1> USE DEF ArpIInv
<1>1. /\ UNCHANGED <<settings, ip, dst, slot, to, seen>>
      /\ At("rx", "evict") /\ pc' = [pc EXCEPT !["rx"] = "idle"]
      /\ mac' = [mac EXCEPT ![Victim] = ip[Victim]]
      /\ hop' = [hop EXCEPT !["rx"] = Nil]
      /\ History
  BY DEF Evict, EvictMac, Goto, EvictInv
<1>2. ArpTypeOK'
  BY <1>1, VictimIsSlot DEF ArpTypeOK, At, History, Threads, settings
<1>3. CacheTruth'
  BY <1>1 DEF CacheTruth, ArpTypeOK
<1>4. LookupInv' /\ EvictInv'
  BY <1>1 DEF LookupInv, EvictInv, At, ArpTypeOK, Threads, Towards
<1>5. FetchInv' /\ RightMac'
  BY <1>1 DEF FetchInv, RightMac, At, ArpTypeOK, History, Threads, Towards
<1>6. QED
  BY <1>2, <1>3, <1>4, <1>5

\* The settings become known: who looks for a far host itself goes on doing so.
LEMMA ConfigureInv ==
  ASSUME ArpIInv, \/ StoreIp /\ History
                  \/ Configure
  PROVE  ArpIInv'
<1> USE DEF ArpIInv
<1>1. /\ UNCHANGED <<ip, mac, dst, hop, slot, to, seen>>
      /\ History
      /\ pc["shell"] \in {"idle", "options", "option"}
      /\ \E label \in {"idle", "options", "option"} : pc' = [pc EXCEPT !["shell"] = label]
  BY DEF StoreIp, Configure, dhcp_parse_opts, OptionBegins, OptionEnds, DhcpEnds, At, Goto
<1>2. bound' \in BOOLEAN /\ mask' \in {"none", "part", "whole"} /\ gateway' \in {Zero, Stray, Gateway}
  BY DEF StoreIp, Configure, dhcp_parse_opts, OptionBegins, OptionEnds, DhcpEnds, ArpTypeOK, settings
<1>3. ArpTypeOK'
  BY <1>1, <1>2 DEF ArpTypeOK, History, At, Threads
<1>4. CacheTruth' /\ LookupInv' /\ FetchInv' /\ EvictInv' /\ RightMac'
  BY <1>1 DEF CacheTruth, LookupInv, FetchInv, EvictInv, RightMac, Towards, ArpTypeOK, History, At, Threads
<1>5. QED
  BY <1>3, <1>4

LEMMA StutterInv ==
  ASSUME ArpIInv, UNCHANGED arp
  PROVE  ArpIInv'
BY DEF arp, ArpIInv, ArpTypeOK, CacheTruth, LookupInv, FetchInv, EvictInv, RightMac, At, Towards, settings

LEMMA ArpNextInv == ArpIInv /\ [ArpNext]_arp => ArpIInv'
BY ResolveMacInv, EvictMacInv, IpSendInv, HandleArpInv, ConfigureInv, StutterInv DEF ArpNext

-----------------------------------------------------------------------------
(* The theorems.                                                           *)

\* The invariant holds in every state.
THEOREM ArpInvariance == ArpSpec => []ArpIInv
BY ArpInitInv, ArpNextInv, PTL DEF ArpSpec

\* arp_cache_get and arp_cache_put share arp_cache without a lock: valid slots
\* come first, no host is in two, and each has its own host's MAC address, but
\* for the one slot that arp_cache_put is overwriting.
THEOREM CacheIsTrue == ArpSpec => []ArpInv
<1>1. ArpIInv => ArpInv
  BY DEF ArpIInv, ArpInv
<1>2. QED
  BY <1>1, ArpInvariance, PTL

\* resolve_mac gives ip_send the MAC address of a neighbour for that neighbour, and
\* for any other address the gateway's, or everybody's as long as there is none -
\* whatever ARP frames net-rx handles between the lookup, the copy and the send, and
\* however far dhcp_parse_opts has stored the options that were read - unless the
\* lookup overlapped the eviction of the slot it found.
THEOREM MacIsRight == ArpSpec => []RightMac
<1>1. ArpIInv => RightMac
  BY DEF ArpIInv
<1>2. QED
  BY <1>1, ArpInvariance, PTL
=============================================================================
