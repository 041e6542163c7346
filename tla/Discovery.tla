----------------------------- MODULE Discovery -------------------------------
(***************************************************************************)
(* How a client finds the server: it sends a probe to every host of its    *)
(* subnet, waits for the answer of a DiscoveryServer until a timeout, and  *)
(* falls back to the server of its own machine.  Datagrams may be lost,    *)
(* doubled and delayed.                                                    *)
(*                                                                         *)
(* The subnet is that of one of the machine's interfaces, which getifaddrs  *)
(* lists in no particular order; two of them may have the same address.    *)
(*                                                                         *)
(* Addresses are unsigned integers with the operators of C on them, of      *)
(* which & and | are parameters: all that the range asks of them is what    *)
(* they do to a netmask.  UsableHosts says what the range is meant to be,   *)
(* by counting.                                                            *)
(***************************************************************************)
EXTENDS Integers, SequencesExt

CONSTANTS
    Size,       \* how many addresses there are: 2^32
    Blocks,     \* how many of them a subnet may have: 1, 2, 4 and so on
    BitAnd(_, _), BitOr(_, _),  \* & and |
    Private, LinkLocal,     \* addresses of these kinds
    Lists,      \* what getifaddrs may return
    NoMask,     \* the mask of an interface that has none
    Server,     \* the addresses at which a server runs
    Localhost, LocalPort,   \* where the client turns when nobody answers
    TcpPort,    \* the port each server listens on
    Ports, NoNumber,    \* what stoi may make of an answer: a port, or an exception
    MaxAnswers  \* bound: answers under way at a time; what is beyond is lost

ASSUME SizeAssumption ==
    /\ Size \in Nat \ {0}
    /\ \A b \in Blocks : b \in Nat \ {0} /\ \E n \in 1 .. Size : Size = b * n

Address == 0 .. (Size - 1)

ASSUME ServerAssumption ==
    /\ Server \subseteq Address /\ Localhost \notin Address
    /\ DOMAIN TcpPort = Server
    /\ \A s \in Server : TcpPort[s] \in Ports
    /\ 0 \in Ports /\ NoNumber \notin Ports

ASSUME BoundAssumption == MaxAnswers \in Nat

(* A mask has ones, then zeros. *)
Masks == {Size - b : b \in Blocks}

(* With a mask & rounds down to the beginning of a block, and there | can   *)
(* only add.                                                               *)
ASSUME BitsAssumption ==
    \A a \in Address, b \in Blocks :
        /\ BitAnd(a, Size - b) = a - (a % b)
        /\ BitOr(a - (a % b), b - 1) = (a - (a % b)) + (b - 1)

ASSUME InterfaceAssumption ==
    /\ Private \cup LinkLocal \subseteq Address /\ NoMask \notin Masks
    /\ Lists \subseteq Seq([ip : Address, mask : Masks \cup {NoMask},
                            up : BOOLEAN, loopback : BOOLEAN])

VARIABLES
    interfaces, \* the list that getifaddrs returns
    ip, mask,   \* the client's address and netmask
    pc,         \* "start", "scan", "poll", "connect" or "threw"
    cursor,     \* addr_int
    probed,     \* the addresses a probe has been sent to
    probes,     \* probes on their way
    answers,    \* answers on their way, or in the client's socket
    garbled,    \* servers that sent an answer with another port in it
    target      \* where autoConnect connects to

vars == <<interfaces, ip, mask, pc, cursor, probed, probes, answers, garbled, target>>

-----------------------------------------------------------------------------
(* uint32_t: results are taken modulo Size. *)
Word(n) == n % Size
Complement(n) == Size - 1 - n

Network == BitAnd(ip, mask)
Broadcast == BitOr(Network, Complement(mask))
HasHosts == Word(Broadcast - Network) >= 2

FirstHost == IF HasHosts THEN Network + 1 ELSE Network

(* A mutant: the broadcast address counts as a host. *)
LastHost_Broadcast == IF HasHosts THEN Broadcast ELSE Network

LastHost == IF HasHosts THEN Broadcast - 1 ELSE Network

-----------------------------------------------------------------------------
(* A mutant: address and port are swapped. *)
Connect_Swapped(address, port) ==
    /\ pc' = "connect"
    /\ target' = [address |-> port, port |-> address]

Connect(address, port) ==
    /\ pc' = "connect"
    /\ target' = [address |-> address, port |-> port]

Eligible(i) == i.up /\ ~i.loopback /\ i.ip \notin LinkLocal

(* getLocalIPv4: the first private address, or else the first of the       *)
(* others; no interface is number 0.                                       *)
Best == LET private == SelectInSeq(interfaces, LAMBDA i : Eligible(i) /\ i.ip \in Private)
        IN  IF private # 0 THEN private ELSE SelectInSeq(interfaces, Eligible)

(* getNetmaskForIP: the first interface that has the address and a mask,   *)
(* whatever else it is.                                                    *)
WithAddress(a) == SelectInSeq(interfaces, LAMBDA i : i.ip = a /\ i.mask # NoMask)

FindInterface ==
    /\ pc = "start"
    /\ Best # 0
    /\ ip' = interfaces[Best].ip
    /\ WithAddress(ip') # 0
    /\ mask' = interfaces[WithAddress(ip')].mask
    /\ cursor' = FirstHost'
    /\ pc' = "scan"
    /\ UNCHANGED <<interfaces, probed, probes, answers, garbled, target>>

(* There is none, or getifaddrs fails: nobody is searched for. *)
NoInterface ==
    /\ pc = "start"
    /\ Connect(Localhost, LocalPort)
    /\ UNCHANGED <<interfaces, ip, mask, cursor, probed, probes, answers, garbled>>

(* A mutant: the client's own address is left out before the increment. *)
Scan_StaysAtSelf ==
    /\ pc = "scan"
    /\ IF cursor <= LastHost
       THEN /\ cursor' = IF cursor = ip THEN cursor ELSE Word(cursor + 1)
            /\ probed' = probed \cup ({cursor} \ {ip})
            /\ probes' = probes \cup (({cursor} \cap Server) \ {ip})
            /\ UNCHANGED pc
       ELSE pc' = "poll" /\ UNCHANGED <<cursor, probed, probes>>
    /\ UNCHANGED <<interfaces, ip, mask, answers, garbled, target>>

(* One turn of the loop over the hosts, the client itself left out. *)
Scan ==
    /\ pc = "scan"
    /\ IF cursor <= LastHost
       THEN /\ cursor' = Word(cursor + 1)
            /\ IF cursor = ip
               THEN UNCHANGED <<probed, probes>>
               ELSE /\ probed' = probed \cup {cursor}
                    /\ probes' = probes \cup ({cursor} \cap Server)
            /\ UNCHANGED pc
       ELSE pc' = "poll" /\ UNCHANGED <<cursor, probed, probes>>
    /\ UNCHANGED <<interfaces, ip, mask, answers, garbled, target>>

(* A datagram: whether it begins with c_response_phrase, and what is read  *)
(* behind the slash; 0 where there is none.                                *)
Datagram(s, phrase, port) == [from |-> s, phrase |-> phrase, port |-> port]
Answer(s) == Datagram(s, TRUE, TcpPort[s])
Damaged(s) == {Datagram(s, FALSE, 0)} \cup {Datagram(s, TRUE, p) : p \in Ports \cup {NoNumber}}

(* The probe of s arrives; it may arrive again.  handleRequest gives       *)
(* async_send_to a buffer that dies when it returns: what is sent is the   *)
(* answer, or, when the socket could not take it at once, what has become  *)
(* of it.                                                                  *)
HandleRequest(s) ==
    /\ s \in probes /\ Cardinality(answers) < MaxAnswers
    /\ probes' \in {probes, probes \ {s}}
    /\ \E a \in {Answer(s)} \cup Damaged(s) :
          /\ answers' = answers \cup {a}
          /\ garbled' = IF a.phrase /\ a # Answer(s) THEN garbled \cup {s} ELSE garbled
    /\ UNCHANGED <<interfaces, ip, mask, pc, cursor, probed, target>>

Lose ==
    /\ \/ \E s \in probes : probes' = probes \ {s} /\ UNCHANGED answers
       \/ \E a \in answers : answers' = answers \ {a} /\ UNCHANGED probes
    /\ UNCHANGED <<interfaces, ip, mask, pc, cursor, probed, garbled, target>>

(* A mutant: whatever comes is taken for an answer. *)
IsAnswer_Any(a) == TRUE

(* The beginning of the datagram decides. *)
IsAnswer(a) == a.phrase

(* A datagram is read: an answer ends the search, with the port it names   *)
(* or with the exception of stoi, which nobody catches; anything else is   *)
(* left.                                                                   *)
Receive(a) ==
    /\ pc = "poll"
    /\ a \in answers
    /\ answers' \in {answers, answers \ {a}}
    /\ \/ ~IsAnswer(a) /\ UNCHANGED <<pc, target>>
       \/ IsAnswer(a) /\ a.port # NoNumber /\ Connect(a.from, a.port)
       \/ IsAnswer(a) /\ a.port = NoNumber /\ pc' = "threw" /\ UNCHANGED target
    /\ UNCHANGED <<interfaces, ip, mask, cursor, probed, probes, garbled>>

(* The time is up; autoConnect tries the client's own machine. *)
Timeout ==
    /\ pc = "poll"
    /\ Connect(Localhost, LocalPort)
    /\ UNCHANGED <<interfaces, ip, mask, cursor, probed, probes, answers, garbled>>

-----------------------------------------------------------------------------
SubnetSizes == {b \in Blocks : mask = Complement(b - 1)}
Subnet(b) == {a \in Address : a \div b = ip \div b}

(* All addresses of the subnet but the first and the last.                 *)
UsableHosts ==
    UNION {{a \in Subnet(b) : (\E l \in Subnet(b) : l < a) /\ (\E h \in Subnet(b) : h > a)} :
              b \in SubnetSizes}

Init ==
    /\ interfaces \in Lists
    /\ ip = 0 /\ mask = 0 /\ cursor = 0
    /\ pc = "start"
    /\ probed = {} /\ probes = {} /\ answers = {} /\ garbled = {}
    /\ target = [address |-> Localhost, port |-> 0]

Next ==
    \/ FindInterface \/ NoInterface
    \/ Scan
    \/ \E s \in Server : HandleRequest(s)
    \/ Lose
    \/ \E a \in answers : Receive(a)
    \/ Timeout

Spec == Init /\ [][Next]_vars

(* The client runs and time passes. *)
FairSpec == Spec /\ WF_vars(FindInterface \/ NoInterface) /\ WF_vars(Scan) /\ WF_vars(Timeout)

-----------------------------------------------------------------------------
TypeOK ==
    /\ interfaces \in Lists
    /\ {ip, mask, cursor} \subseteq Address
    /\ pc \in {"start", "scan", "poll", "connect", "threw"}
    /\ probed \subseteq Address /\ probes \subseteq Server /\ garbled \subseteq Server
    /\ answers \subseteq [from : Server, phrase : BOOLEAN, port : Ports \cup {NoNumber}]
    /\ target.address \in Address \cup {Localhost}

(* "Prefer private IPv4. Otherwise: fallback to any non-loopback, non      *)
(* link-local IPv4": the address is that of an interface in use.           *)
IsPreferred(a) ==
    LET inUse == {i \in ToSet(interfaces) : i.up /\ ~i.loopback /\ i.ip \notin LinkLocal}
    IN  /\ \E i \in inUse : i.ip = a
        /\ a \in Private \/ \A i \in inUse : i.ip \notin Private

(* Of the preferred interface's subnet every usable host but the client is *)
(* probed, and if the subnet has usable hosts no address that is none:     *)
(* masking and wrapping come to what counting says.                        *)
ScanIsExact ==
    /\ pc \in {"scan", "poll"} => IsPreferred(ip)
    /\ pc = "poll" => UsableHosts \ {ip} \subseteq probed
    /\ UsableHosts # {} => probed \subseteq UsableHosts \ {ip}

(* The client connects to its own machine or to a server that it has       *)
(* probed, never to itself over the network; at the port this server       *)
(* listens on unless an answer of this very server was damaged behind the  *)
(* phrase, and only such an answer throws the client out of the search.    *)
TargetIsServer ==
    /\ pc = "connect" =>
          \/ target = [address |-> Localhost, port |-> LocalPort]
          \/ /\ target.address \in (Server \cap probed) \ {ip}
             /\ target.port = TcpPort[target.address] \/ target.address \in garbled
    /\ pc = "threw" => garbled # {}

(* The last address of all, in a subnet of its own: the loop over the      *)
(* hosts, which is to end behind it, comes back to address 0.              *)
OnlyTheLast == ip = Size - 1 /\ mask = Complement(0)

(* From every other subnet the search ends, also where the range reaches   *)
(* up to the last addresses.                                               *)
SearchEnds == <>(pc \in {"connect", "threw"} \/ (pc = "scan" /\ OnlyTheLast))

=============================================================================
