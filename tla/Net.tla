-------------------------------- MODULE Net --------------------------------
(***************************************************************************)
(* The clients of the network stack (net.c) on the shell thread, that is   *)
(* DHCP, the resolver and ping as the commands of shell.c call them, and   *)
(* the handlers on the net-rx thread that bring their answers.  They share *)
(* the one UDP socket and icmp_state, without a lock: each access is a     *)
(* step.  (How a packet finds its MAC address is in Arp.)                  *)
(*                                                                         *)
(* The network is the environment: a frame on its way to us is in `air`,   *)
(* and is delivered never, once or several times, in any order; a packet   *)
(* of ours is answered or not.  The server that configured us is gateway   *)
(* and DNS server too.  The clock is abstract: what waits may time out.    *)
(***************************************************************************)
EXTENDS Naturals, FiniteSets

CONSTANTS Hosts,           \* what the user pings and looks up
          Servers,         \* DHCP servers
          Count,           \* the pings of one command at most
          MaxCommands,     \* bound: the commands the user types
          NULL

ASSUME NetAssumption == /\ NULL \notin Hosts
                        /\ Count \in Nat
                        /\ MaxCommands \in Nat

VARIABLES
  configured, our_ip,
  our_gw,                     \* and our_mask and our_dns, from the same options
  port, full, data,           \* udp_sock: its len is 0 or that of data
  waiting, seq, got,          \* icmp_state; got is the reply, or NULL
  air,
  rx, frame,                  \* where net-rx is, the frame it handles
  sh,                         \* where the shell is
  commands,                   \* how many there were: also xid, qid and sport
  target, literal, count, i,  \* the command: its host, by address, its pings
  addr,                       \* what net_resolve returned
  want,                       \* the kind of answer the shell waits for
  lease,                      \* the offer or acknowledgement it has copied
  asked                       \* the server and address of its DHCP REQUEST

conf == <<configured, our_ip, our_gw>>
sock == <<port, full, data>>
icmp == <<waiting, seq, got>>
net == <<air, rx, frame>>
command == <<commands, target, literal, count, i>>
result == <<addr, want, lease, asked>>

vars == <<conf, sock, icmp, net, sh, command, result>>

None == [kind |-> "none"]
Torn == [kind |-> "torn"]

Init ==
  /\ configured = FALSE /\ our_ip = NULL /\ our_gw = NULL
  /\ port = 0 /\ full = FALSE /\ data = None
  /\ waiting = FALSE /\ seq = 0 /\ got = NULL
  /\ air = {} /\ rx = "recv" /\ frame = None
  /\ sh = "idle"
  /\ commands = 0 /\ target = NULL /\ literal = FALSE /\ count = 0 /\ i = 0
  /\ addr = NULL /\ want = "none" /\ lease = None /\ asked = NULL

-----------------------------------------------------------------------------
(* The net-rx thread.                                                      *)

\* A frame for us arrives, and may arrive again.
Deliver(f) ==
  /\ rx = "recv"
  /\ air' \in {air, air \ {f}}

Enter(label, f) == rx' = label /\ frame' = f
Leave == rx' = "recv" /\ frame' = None

Expected(f) == f.kind = "pong" /\ waiting /\ f.seq = seq

HandleReply(f) ==
  /\ Deliver(f)
  /\ Expected(f)
  /\ Enter("got", f)
  /\ UNCHANGED <<conf, sock, icmp, sh, command, result>>

SetGot ==
  /\ rx = "got"
  /\ got' = frame
  /\ Leave
  /\ UNCHANGED <<conf, sock, waiting, seq, air, sh, command, result>>

\* The local port of a datagram; a query with id n uses port 68 + n.
Port(f) == IF f.kind = "dns" THEN 68 + f.id ELSE 68

\* Mutant: a datagram is taken while the last one is still there.
Accepts_Full(f) == f.kind # "pong" /\ Port(f) = port

\* handle_udp: the socket is open on that port, and empty.
Accepts(f) == f.kind # "pong" /\ Port(f) = port /\ ~full

HandleUdp(f) ==
  /\ Deliver(f)
  /\ Accepts(f)
  /\ Enter("copy", f)
  /\ UNCHANGED <<conf, sock, icmp, sh, command, result>>

CopyBegins ==
  /\ rx = "copy"
  /\ data' = Torn
  /\ rx' = "copying"
  /\ UNCHANGED <<conf, port, full, icmp, air, frame, sh, command, result>>

CopyEnds ==
  /\ rx = "copying"
  /\ data' = frame
  /\ rx' = "len"
  /\ UNCHANGED <<conf, port, full, icmp, air, frame, sh, command, result>>

\* "written last: marks ready"
SetLen ==
  /\ rx = "len"
  /\ full' = TRUE
  /\ Leave
  /\ UNCHANGED <<conf, port, data, icmp, air, sh, command, result>>

\* A frame that nobody asked for, or for which there is no room.
Ignore(f) ==
  /\ rx = "recv"
  /\ ~Expected(f) /\ ~Accepts(f)
  /\ air' = air \ {f}
  /\ UNCHANGED <<conf, sock, icmp, rx, frame, sh, command, result>>

-----------------------------------------------------------------------------
(* The shell.                                                              *)

\* The packet is answered, or it or the answers are lost.
Send(answers) == air' \in {air, air \cup answers}

\* The command is over, and its locals are gone.
Done ==
  /\ sh' = "idle"
  /\ target' = NULL /\ literal' = FALSE /\ count' = 0 /\ i' = 0
  /\ addr' = NULL /\ want' = "none" /\ lease' = None

\* The user types a command, perhaps before the last one is over; without pings
\* it is nslookup or ifconfig.  net_ensure runs DHCP first, where it must.
Command(h, n) ==
  /\ sh = "idle"
  /\ commands < MaxCommands
  /\ commands' = commands + 1
  /\ target' = h
  /\ literal' \in BOOLEAN
  /\ count' = n
  /\ IF configured
     THEN sh' = "resolve" /\ UNCHANGED want
     ELSE sh' = "open" /\ want' = "offer"
  /\ UNCHANGED <<conf, sock, icmp, net, i, addr, lease, asked>>

\* net_resolve: an address needs no query.
Resolve ==
  /\ sh = "resolve"
  /\ IF literal
     THEN sh' = "next" /\ addr' = target /\ UNCHANGED want
     ELSE sh' = "open" /\ want' = "dns" /\ UNCHANGED addr
  /\ UNCHANGED <<conf, sock, icmp, net, command, lease, asked>>

EmptySocket ==
  /\ sh = "open"
  /\ full' = FALSE
  /\ sh' = "port"
  /\ UNCHANGED <<conf, port, data, icmp, net, command, result>>

\* The socket is open, and the DISCOVER or the query is sent.
OpenSocket ==
  /\ sh = "port"
  /\ port' = IF want = "dns" THEN 68 + commands ELSE 68
  /\ Send(IF want = "dns"
          THEN [kind : {"dns"}, id : {commands}, host : {target}]
          ELSE [kind : {"offer"}, id : {commands}, from : Servers])
  /\ sh' = "wait"
  /\ UNCHANGED <<conf, full, data, icmp, rx, frame, command, result>>

Ready ==
  /\ sh = "wait"
  /\ want # "pong" /\ full
  /\ sh' = "read"
  /\ UNCHANGED <<conf, sock, icmp, net, command, result>>

\* Mutant: the transaction is not compared.
Matches_AnyId(f) == f.kind = want

Matches(f) == f.kind = want /\ f.id = commands

\* What the shell needs of the datagram is copied before the socket is emptied.
Read ==
  /\ sh = "read"
  /\ IF Matches(data)
     THEN /\ sh' = "take"
          /\ lease' = IF want = "dns" THEN lease ELSE data
          /\ addr' = IF want = "dns" THEN data.host ELSE addr
     ELSE sh' = "drop" /\ UNCHANGED <<lease, addr>>
  /\ UNCHANGED <<conf, sock, icmp, net, command, want, asked>>

Drop ==
  /\ sh = "drop"
  /\ full' = FALSE
  /\ sh' = "wait"
  /\ UNCHANGED <<conf, port, data, icmp, net, command, result>>

\* dhcp_wait is over; the server that made the OFFER answers the REQUEST.
TakeOffer ==
  /\ sh = "take" /\ want = "offer"
  /\ full' = FALSE
  /\ want' = "ack"
  /\ asked' = <<lease.from, lease.id>>
  /\ Send([kind : {"ack"}, id : {commands}, from : {lease.from}])
  /\ sh' = "wait"
  /\ UNCHANGED <<conf, port, data, icmp, rx, frame, command, addr, lease>>

TakeAck ==
  /\ sh = "take" /\ want = "ack"
  /\ full' = FALSE
  /\ sh' = "ip"
  /\ UNCHANGED <<conf, port, data, icmp, net, command, result>>

SetIp ==
  /\ sh = "ip"
  /\ our_ip' = <<lease.from, lease.id>>
  /\ sh' = "options"
  /\ UNCHANGED <<configured, our_gw, sock, icmp, net, command, result>>

\* dhcp_parse_opts
SetOptions ==
  /\ sh = "options"
  /\ our_gw' = lease.from
  /\ sh' = "configured"
  /\ UNCHANGED <<configured, our_ip, sock, icmp, net, command, result>>

Configured ==
  /\ sh = "configured"
  /\ port' = 0
  /\ configured' = TRUE
  /\ lease' = None
  /\ sh' = "resolve"
  /\ UNCHANGED <<our_ip, our_gw, full, data, icmp, net, command, addr, want, asked>>

\* net_resolve closes the socket before it empties it.
CloseSocket ==
  /\ sh = "take" /\ want = "dns"
  /\ port' = 0
  /\ sh' = "empty"
  /\ UNCHANGED <<conf, full, data, icmp, net, command, result>>

EmptyClosed ==
  /\ sh = "empty"
  /\ full' = FALSE
  /\ sh' = "next"
  /\ UNCHANGED <<conf, port, data, icmp, net, command, result>>

\* The next ping; sleep_ms(500) lets net-rx finish a reply it has compared.
NextPing ==
  /\ sh = "next"
  /\ IF i < count
     THEN /\ i > 0 => rx # "got"
          /\ i' = i + 1
          /\ sh' = "seq"
          /\ UNCHANGED <<target, literal, count, addr, want, lease>>
     ELSE Done
  /\ UNCHANGED <<conf, sock, icmp, net, commands, asked>>

SetSeq ==
  /\ sh = "seq"
  /\ seq' = i
  /\ sh' = "got"
  /\ UNCHANGED <<conf, sock, waiting, got, net, command, result>>

\* Mutant: the answer to the last ping is left there.
ClearGot_Not ==
  /\ sh = "got"
  /\ sh' = "ping"
  /\ UNCHANGED <<conf, sock, icmp, net, command, result>>

ClearGot ==
  /\ sh = "got"
  /\ got' = NULL
  /\ sh' = "ping"
  /\ UNCHANGED <<conf, sock, waiting, seq, net, command, result>>

\* In a reply, id and host tell which ping it answers; the code does not see them.
Ping ==
  /\ sh = "ping"
  /\ waiting' = TRUE
  /\ want' = "pong"
  /\ Send([kind : {"pong"}, seq : {seq}, id : {commands}, host : {addr}])
  /\ sh' = "wait"
  /\ UNCHANGED <<conf, sock, seq, got, rx, frame, command, addr, lease, asked>>

PingEnds ==
  /\ waiting' = FALSE
  /\ sh' = "next"
  /\ UNCHANGED <<conf, sock, seq, got, net, command, result>>

Answered == sh = "wait" /\ want = "pong" /\ got # NULL

PingAnswered == Answered /\ PingEnds

\* Mutant: only a ping has a deadline.
Timeout_PingOnly ==
  /\ sh = "wait"
  /\ want = "pong"
  /\ PingEnds

\* A deadline: of the ping, or of the exchange, which fails.
Timeout ==
  /\ sh = "wait"
  /\ \/ /\ want = "pong"
        /\ PingEnds
     \/ /\ want # "pong"
        /\ port' = 0
        /\ Done
        /\ UNCHANGED <<conf, full, data, icmp, net, commands, asked>>

-----------------------------------------------------------------------------
Receive ==
  \E f \in air :
    \/ HandleReply(f)
    \/ HandleUdp(f)
    \/ Ignore(f)

Handle ==
  \/ SetGot
  \/ CopyBegins
  \/ CopyEnds
  \/ SetLen

ShellStep ==
  \/ Resolve
  \/ EmptySocket
  \/ OpenSocket
  \/ Ready
  \/ Read
  \/ Drop
  \/ TakeOffer
  \/ TakeAck
  \/ SetIp
  \/ SetOptions
  \/ Configured
  \/ CloseSocket
  \/ EmptyClosed
  \/ NextPing
  \/ SetSeq
  \/ ClearGot
  \/ Ping
  \/ PingAnswered

Next ==
  \/ \E h \in Hosts, n \in 0..Count : Command(h, n)
  \/ ShellStep
  \/ Timeout
  \/ Receive
  \/ Handle

Spec == Init /\ [][Next]_vars

\* Ready threads get the CPU, and the clock reaches the deadline, also of a wait
\* that datagrams interrupt again and again.
LiveSpec == Spec /\ WF_vars(ShellStep) /\ WF_vars(Handle) /\ SF_vars(Timeout)
-----------------------------------------------------------------------------
(* Properties.                                                             *)

\* The type of every variable.
TypeOK ==
  /\ configured \in BOOLEAN /\ full \in BOOLEAN
  /\ waiting \in BOOLEAN /\ literal \in BOOLEAN
  /\ our_ip \in (Servers \X (1..MaxCommands)) \cup {NULL}
  /\ our_gw \in Servers \cup {NULL}
  /\ port \in {0} \cup 68..(68 + MaxCommands)
  /\ seq \in 0..Count /\ i \in 0..count /\ count \in 0..Count
  /\ got = NULL \/ got.kind = "pong"
  /\ commands \in 0..MaxCommands
  /\ addr \in Hosts \cup {NULL} /\ target \in Hosts \cup {NULL}
  /\ rx \in {"recv", "got", "copy", "copying", "len"}
  /\ sh \in {"idle", "resolve", "open", "port", "wait", "read", "take", "drop", "ip",
             "options", "configured", "empty", "next", "seq", "got", "ping"}
  /\ want \in {"none", "offer", "ack", "dns", "pong"}

\* "written last: marks ready" (net.c:312): while the shell reads a datagram, the
\* handler leaves it alone, and what it reads is a whole datagram.
ReaderAlone ==
  [][sh = "read" => data.kind \notin {"none", "torn"} /\ data' = data]_vars

\* We use the address and the gateway of one server: the one whose offer we asked
\* for last, in this exchange, and that acknowledged it.
Leased ==
  /\ configured => our_ip = asked /\ our_gw = asked[1]
  /\ our_ip # NULL => asked[2] = our_ip[2]

\* An address that net_resolve returns is an answer to the name it was asked for.
DnsTruth == addr # NULL => addr = target

\* The variables have their types, the configuration is one server's, and an
\* address is the answer to its question.
Inv == TypeOK /\ Leased /\ DnsTruth

\* A late reply is not taken for the answer to a later ping of the same command.
PingMatched ==
  Answered /\ got.id = commands => got.seq = seq

\* "Returns RTT in ms, or -1 on timeout / error." (net.h:21): the round trip is the
\* one of the request that was sent.
PingHonest == Answered => got.id = commands

\* A command ends, whatever the network does.
CommandsEnd == sh # "idle" ~> sh = "idle"
=============================================================================
