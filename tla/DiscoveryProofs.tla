--------------------------- MODULE DiscoveryProofs ---------------------------
(***************************************************************************)
(* The search for a server, for addresses of any width, any interfaces     *)
(* and any set of servers: the range that getSubnetRange computes with     *)
(* masks is the one that counting gives, the loop over it probes every     *)
(* host of it but the client and nothing else, and the client connects to  *)
(* a server that it has probed, or to its own machine.                     *)
(***************************************************************************)
EXTENDS Discovery, TLAPS, WellFoundedInduction

-----------------------------------------------------------------------------
(* Numbers. *)

LEMMA Quotient ==
    ASSUME NEW a \in Nat, NEW b \in Nat \ {0}, NEW q \in Nat, NEW r \in 0 .. b - 1,
           a = b * q + r
    PROVE  a \div b = q
  OBVIOUS

LEMMA Products ==
    ASSUME NEW b \in Nat \ {0}, NEW q \in Nat, NEW p \in Nat
    PROVE  /\ b * q \in Nat
           /\ b * q < b * p => b * q + b <= b * p
<1>1. b * q \in Nat /\ b * p \in Nat
  OBVIOUS
<1>2. ASSUME b * q < b * p PROVE b * q + b <= b * p
  <2>1. q < p
    BY <1>2
  <2> QED
    BY <2>1
<1> QED
  BY <1>1, <1>2

(* A set of natural numbers that is not empty has a least element. *)
LEMMA MinIs ==
    ASSUME NEW I \in SUBSET Nat, I # {}
    PROVE  Min(I) \in I /\ \A j \in I : Min(I) <= j
<1>1. PICK R : R = {ss \in Nat \X Nat : ss[1] < ss[2]}
  OBVIOUS
<1>2. IsWellFoundedOn(R, Nat)
  BY <1>1, NatLessThanWellFounded DEF OpToRel
<1>3. \E x \in I : \A y \in I : ~(<<y, x>> \in R)
  BY <1>2, WFMin
<1>4. \E x \in I : \A y \in I : x =< y
  <2>1. PICK x \in I : \A y \in I : ~(<<y, x>> \in R)
    BY <1>3
  <2>2. ASSUME NEW y \in I PROVE x =< y
    <3>1. y < x => <<y, x>> \in R
      BY <1>1
    <3> QED
      BY <2>1, <3>1
  <2> QED
    BY <2>2
<1> QED
  BY <1>4 DEF Min

-----------------------------------------------------------------------------
(* The range of hosts. *)

(* The addresses that share a's block of b addresses. *)
LEMMA BlockIs ==
    ASSUME NEW a \in Address, NEW b \in Blocks, NEW n, n = a - (a % b)
    PROVE  /\ b \in Nat \ {0} /\ n \in Nat /\ n <= a /\ a <= n + (b - 1)
           /\ n + (b - 1) < Size
           /\ \A x \in Address : x \div b = a \div b <=> x \in n .. n + (b - 1)
<1>1. PICK k \in 1 .. Size : Size = b * k
  BY SizeAssumption
<1>2. a \in Nat /\ a < Size /\ b \in Nat \ {0} /\ k \in Nat
  BY SizeAssumption DEF Address
<1>3. PICK q, r : q = a \div b /\ r = a % b
  OBVIOUS
<1>4. q \in Nat /\ r \in 0 .. b - 1 /\ a = b * q + r
  <2>1. a \in Nat /\ b \in Nat \ {0}
    BY <1>2
  <2>2. q \in Nat
    BY <1>3, <2>1
  <2>3. r \in 0 .. b - 1
    BY <1>3, <2>1
  <2>4. a = b * q + r
    BY <1>3, <2>1
  <2> QED
    BY <2>2, <2>3, <2>4
<1>5. PICK m : m = b * q
  OBVIOUS
<1>6. m \in Nat /\ (m < Size => m + b <= Size)
  BY <1>1, <1>2, <1>4, <1>5, Products
<1>7. n = m /\ m <= a /\ a <= m + (b - 1) /\ m + b <= Size
  BY <1>2, <1>3, <1>4, <1>5, <1>6, SizeAssumption
<1>8. ASSUME NEW x \in Address
      PROVE  x \div b = q <=> x \in m .. m + (b - 1)
  <2>1. x \in Nat
    BY DEF Address
  <2>2. ASSUME x \div b = q PROVE x \in m .. m + (b - 1)
    <3>1. PICK s : s = x % b
      OBVIOUS
    <3>2. s \in 0 .. b - 1 /\ x = b * q + s
      <4>1. x \in Nat /\ b \in Nat \ {0} /\ q = x \div b
        BY <1>2, <2>1, <2>2
      <4>2. s \in 0 .. b - 1
        BY <3>1, <4>1
      <4>3. x = b * q + s
        BY <3>1, <4>1
      <4> QED
        BY <4>2, <4>3
    <3> QED
      BY <1>2, <1>5, <1>6, <2>1, <3>2
  <2>3. ASSUME x \in m .. m + (b - 1) PROVE x \div b = q
    <3>1. x - m \in 0 .. b - 1 /\ x = m + (x - m)
      BY <1>2, <1>6, <2>1, <2>3
    <3> QED
      BY <1>2, <1>4, <1>5, <2>1, <3>1, Quotient
  <2> QED
    BY <2>2, <2>3
<1> QED
  BY <1>2, <1>3, <1>6, <1>7, <1>8, SizeAssumption

(* getSubnetRange: with two host bits or more the hosts are the addresses   *)
(* between the first and the last of the block; else there are none, and    *)
(* the range is the network's address alone.                                *)
LEMMA RangeIs ==
    ASSUME ip \in Address, NEW b \in Blocks, mask = Size - b
    PROVE  /\ FirstHost \in Address /\ LastHost \in Address
           /\ HasHosts => /\ LastHost + 1 \in Address /\ FirstHost <= LastHost + 1
                          /\ UsableHosts = FirstHost .. LastHost
           /\ ~HasHosts => UsableHosts = {}
<1>1. PICK n : n = ip - (ip % b)
  OBVIOUS
<1>2. /\ b \in Nat \ {0} /\ n \in Nat /\ n + (b - 1) < Size /\ Size \in Nat
      /\ \A x \in Address : x \div b = ip \div b <=> x \in n .. n + (b - 1)
  BY <1>1, BlockIs, SizeAssumption
<1>3. Network = n
  BY <1>1, BitsAssumption DEF Network
<1>4. Complement(mask) = b - 1
  BY <1>2 DEF Complement
<1>5. Broadcast = n + (b - 1)
  BY <1>1, <1>3, <1>4, BitsAssumption DEF Broadcast
<1>6. Word(Broadcast - Network) = b - 1
  <2>1. Broadcast - Network = b - 1
    BY <1>2, <1>3, <1>5
  <2>2. PICK k : k = b - 1
    OBVIOUS
  <2>3. k \in Nat /\ k < Size /\ Size \in Nat \ {0}
    BY <1>2, <2>2
  <2>4. k % Size = k
    BY <2>3
  <2> QED
    BY <2>1, <2>2, <2>4 DEF Word
<1>7. HasHosts <=> b >= 3
  BY <1>2, <1>6 DEF HasHosts
<1>8. /\ HasHosts => FirstHost = n + 1 /\ LastHost = n + (b - 1) - 1
      /\ ~HasHosts => FirstHost = n /\ LastHost = n
  BY <1>2, <1>3, <1>5 DEF FirstHost, LastHost
<1>9. SubnetSizes = {b}
  <2>1. ASSUME NEW c \in Blocks PROVE mask = Complement(c - 1) <=> c = b
    <3>1. c \in Nat
      BY SizeAssumption
    <3> QED
      BY <1>2, <3>1 DEF Complement
  <2> QED
    BY <2>1 DEF SubnetSizes
<1>10. PICK S : S = Subnet(b)
  OBVIOUS
<1>11. S = n .. n + (b - 1)
  <2>1. \A x \in n .. n + (b - 1) : x \in Address
    BY <1>2 DEF Address
  <2> QED
    BY <1>2, <1>10, <2>1 DEF Subnet
<1>12. UsableHosts = {a \in S : (\E l \in S : l < a) /\ (\E h \in S : h > a)}
  BY <1>9, <1>10 DEF UsableHosts
<1>13. \A a \in S : (\E l \in S : l < a) <=> a > n
  BY <1>2, <1>11
<1>14. \A a \in S : (\E h \in S : h > a) <=> a < n + (b - 1)
  BY <1>2, <1>11
<1>15. UsableHosts = {a \in S : a > n /\ a < n + (b - 1)}
  BY <1>12, <1>13, <1>14
<1>16. CASE HasHosts
  <2>1. UsableHosts = n + 1 .. n + (b - 1) - 1
    BY <1>2, <1>11, <1>15
  <2> QED
    BY <1>2, <1>7, <1>8, <1>16, <2>1 DEF Address
<1>17. CASE ~HasHosts
  <2>1. UsableHosts = {}
    BY <1>2, <1>7, <1>11, <1>15, <1>17
  <2> QED
    BY <1>2, <1>8, <1>17, <2>1 DEF Address
<1> QED
  BY <1>16, <1>17

-----------------------------------------------------------------------------
(* The choice of an interface. *)

Interfaces == [ip : Address, mask : Masks \cup {NoMask}, up : BOOLEAN, loopback : BOOLEAN]

(* The first of those elements of a list that a test lets through. *)
FirstOf(I) == IF I # {} THEN Min(I) ELSE 0

LEMMA FirstIs ==
    ASSUME NEW n \in Nat, NEW I \in SUBSET (1 .. n), NEW k, k = FirstOf(I)
    PROVE  (k = 0 <=> I = {}) /\ (k # 0 => k \in I)
<1>1. I \in SUBSET Nat
  OBVIOUS
<1>2. CASE I = {}
  BY <1>2 DEF FirstOf
<1>3. CASE I # {}
  <2>1. k \in I
    BY <1>1, <1>3, MinIs DEF FirstOf
  <2> QED
    BY <1>3, <2>1
<1> QED
  BY <1>2, <1>3

LEMMA InterfacesAre ==
    ASSUME interfaces \in Lists
    PROVE  /\ interfaces \in Seq(Interfaces) /\ Len(interfaces) \in Nat
           /\ ToSet(interfaces) = {interfaces[i] : i \in 1 .. Len(interfaces)}
<1>1. interfaces \in Seq(Interfaces)
  BY InterfaceAssumption DEF Interfaces
<1>2. PICK s : s = interfaces
  OBVIOUS
<1>3. Len(s) \in Nat /\ DOMAIN s = 1 .. Len(s)
  BY <1>1, <1>2
<1> QED
  BY <1>1, <1>2, <1>3 DEF ToSet

(* getLocalIPv4 finds a private address in use if there is one, or else an  *)
(* address in use that is not of the link's own.                            *)
LEMMA BestIs ==
    ASSUME interfaces \in Lists, NEW k, k = Best, k # 0
    PROVE  k \in 1 .. Len(interfaces) /\ IsPreferred(interfaces[k].ip)
<1>1. PICK n : n = Len(interfaces)
  OBVIOUS
<1>2. n \in Nat /\ ToSet(interfaces) = {interfaces[i] : i \in 1 .. n}
  BY <1>1, InterfacesAre
<1>3. PICK I, J : /\ I = {i \in 1 .. n : Eligible(interfaces[i]) /\ interfaces[i].ip \in Private}
                  /\ J = {i \in 1 .. n : Eligible(interfaces[i])}
  OBVIOUS
<1>4. k = IF FirstOf(I) # 0 THEN FirstOf(I) ELSE FirstOf(J)
  BY <1>1, <1>3 DEF Best, SelectInSeq, FirstOf
<1>5. PICK p, o : p = FirstOf(I) /\ o = FirstOf(J)
  OBVIOUS
<1>6. (p = 0 <=> I = {}) /\ (p # 0 => p \in I) /\ (o # 0 => o \in J)
  <2>1. I \in SUBSET (1 .. n) /\ J \in SUBSET (1 .. n)
    BY <1>3
  <2> QED
    BY <1>2, <1>5, <2>1, FirstIs
<1>7. k \in 1 .. n /\ Eligible(interfaces[k]) /\ (interfaces[k].ip \in Private \/ I = {})
  BY <1>3, <1>4, <1>5, <1>6
<1>8. ASSUME I = {}, NEW i \in 1 .. n, Eligible(interfaces[i])
      PROVE  interfaces[i].ip \notin Private
  BY <1>3, <1>8
<1>9. IsPreferred(interfaces[k].ip)
  BY <1>2, <1>7, <1>8 DEF IsPreferred, Eligible
<1> QED
  BY <1>1, <1>7, <1>9

LEMMA WithAddressIs ==
    ASSUME interfaces \in Lists, NEW a, NEW k, k = WithAddress(a), k # 0
    PROVE  k \in 1 .. Len(interfaces) /\ \E b \in Blocks : interfaces[k].mask = Size - b
<1>1. PICK n : n = Len(interfaces)
  OBVIOUS
<1>2. n \in Nat /\ \A i \in 1 .. n : interfaces[i] \in Interfaces
  BY <1>1, InterfacesAre
<1>3. PICK I : I = {i \in 1 .. n : interfaces[i].ip = a /\ interfaces[i].mask # NoMask}
  OBVIOUS
<1>4. k = FirstOf(I)
  BY <1>1, <1>3 DEF WithAddress, SelectInSeq, FirstOf
<1>5. k \in I
  <2>1. I \in SUBSET (1 .. n)
    BY <1>3
  <2> QED
    BY <1>2, <1>4, <2>1, FirstIs
<1>6. interfaces[k].mask \in Masks
  BY <1>2, <1>3, <1>5 DEF Interfaces
<1> QED
  BY <1>1, <1>3, <1>5, <1>6 DEF Masks

-----------------------------------------------------------------------------
(* The invariant. *)

(* The client has chosen an interface, and its mask is one. *)
Chosen == IsPreferred(ip) /\ \E b \in Blocks : mask = Size - b

(* Every host up to the n-th address, the client left out. *)
Swept(n) == probed = (FirstHost .. n) \ {ip}

(* How far the loop over the hosts has come.  Where there are none the      *)
(* network's address is probed, and its successor may have wrapped around.  *)
Progress ==
    /\ pc = "start" => probed = {}
    /\ pc = "scan" => /\ Chosen
                      /\ HasHosts => cursor \in FirstHost .. LastHost + 1 /\ Swept(cursor - 1)
    /\ pc = "poll" => Chosen /\ (HasHosts => Swept(LastHost))
    /\ pc \in {"connect", "threw"} => \/ probed = {}
                                      \/ Chosen /\ (HasHosts => Swept(LastHost))

NamesItsPort(a) == a.port = TcpPort[a.from]

(* Probes, answers and whom they come from. *)
Honest ==
    /\ ip \notin probed /\ probes \subseteq probed
    /\ \A a \in answers : a.from \in probed
    /\ \A a \in answers : a.phrase => NamesItsPort(a) \/ a.from \in garbled

IInv == TypeOK /\ Progress /\ Honest /\ TargetIsServer

RangeGood ==
    ip \in Address /\ (\E b \in Blocks : mask = Size - b) =>
        /\ FirstHost \in Address /\ LastHost \in Address
        /\ HasHosts => /\ LastHost + 1 \in Address /\ FirstHost <= LastHost + 1
                       /\ UsableHosts = FirstHost .. LastHost
        /\ ~HasHosts => UsableHosts = {}

LEMMA RangeHolds == RangeGood
  BY RangeIs DEF RangeGood

LEMMA InitIInv == Init => IInv
<1> SUFFICES ASSUME Init PROVE IInv
  OBVIOUS
<1>1. 0 \in Address
  BY SizeAssumption DEF Address
<1> QED
  BY <1>1 DEF Init, IInv, TypeOK, Progress, Honest, TargetIsServer

LEMMA FindInterfaceKeeps ==
    ASSUME IInv, FindInterface
    PROVE  IInv'
<1>1. PICK k, w : k = Best /\ w = WithAddress(ip')
  OBVIOUS
<1>2. /\ pc = "start" /\ k # 0 /\ w # 0 /\ ip' = interfaces[k].ip
      /\ mask' = interfaces[w].mask /\ cursor' = FirstHost' /\ pc' = "scan"
      /\ UNCHANGED <<interfaces, probed, probes, answers, garbled, target>>
  BY <1>1 DEF FindInterface
<1>3. interfaces \in Lists /\ interfaces' = interfaces
  BY <1>2 DEF IInv, TypeOK
<1>4. k \in 1 .. Len(interfaces) /\ IsPreferred(ip')
  BY <1>1, <1>2, <1>3, BestIs
<1>5. PICK b \in Blocks : mask' = Size - b
  BY <1>1, <1>2, <1>3, WithAddressIs
<1>6. ip' \in Address
  <2>1. interfaces[k] \in Interfaces
    BY <1>3, <1>4, InterfacesAre
  <2> QED
    BY <1>2, <2>1 DEF Interfaces
<1>7. mask' \in Address
  <2>1. b \in Nat \ {0} /\ b <= Size /\ Size \in Nat
    BY <1>6, BlockIs, SizeAssumption DEF Address
  <2> QED
    BY <1>5, <2>1 DEF Address
<1>8. RangeGood'
  BY RangeHolds, PTL
<1>9. /\ FirstHost' \in Address /\ LastHost' \in Address
      /\ HasHosts' => FirstHost' <= LastHost' + 1
  BY <1>5, <1>6, <1>8 DEF RangeGood
<1>10. TypeOK'
  BY <1>2, <1>6, <1>7, <1>9 DEF IInv, TypeOK
<1>11. probed = {} /\ probes = {} /\ answers = {}
  BY <1>2 DEF IInv, Progress, Honest
<1>12. Progress'
  <2>1. IsPreferred(ip)'
    BY <1>3, <1>4 DEF IsPreferred
  <2>2. Chosen'
    BY <1>5, <2>1 DEF Chosen
  <2>3. HasHosts' => cursor' \in FirstHost' .. LastHost' + 1
    <3>1. PICK f, l : f = FirstHost' /\ l = LastHost'
      OBVIOUS
    <3>2. f \in Nat /\ l \in Nat
      <4>1. f \in Address /\ l \in Address
        BY <1>9, <3>1
      <4> QED
        BY <4>1, SizeAssumption DEF Address
    <3>4. HasHosts' => f <= l + 1
      BY <1>9, <3>1
    <3>3. HasHosts' => f \in f .. l + 1
      BY <3>2, <3>4
    <3> QED
      BY <1>2, <3>1, <3>3
  <2>4. Swept(cursor - 1)'
    <3>1. PICK c : c = cursor'
      OBVIOUS
    <3>2. c \in Nat /\ FirstHost' = c
      BY <1>2, <1>9, <3>1 DEF Address
    <3>3. c .. c - 1 = {}
      BY <3>2
    <3> QED
      BY <1>2, <1>11, <3>1, <3>2, <3>3 DEF Swept
  <2> QED
    BY <1>2, <2>2, <2>3, <2>4 DEF Progress
<1>13. Honest' /\ TargetIsServer'
  BY <1>2, <1>11 DEF Honest, TargetIsServer
<1> QED
  BY <1>10, <1>12, <1>13 DEF IInv

(* What stays as it is while the interface does. *)
LEMMA SameRange ==
    ASSUME ip' = ip, mask' = mask, interfaces' = interfaces
    PROVE  /\ (Chosen' <=> Chosen) /\ (HasHosts' <=> HasHosts)
           /\ FirstHost' = FirstHost /\ LastHost' = LastHost
  BY DEF Chosen, IsPreferred, HasHosts, FirstHost, LastHost, Network, Broadcast

LEMMA NoInterfaceKeeps ==
    ASSUME IInv, NoInterface
    PROVE  IInv'
<1>1. /\ pc = "start" /\ pc' = "connect"
      /\ target' = [address |-> Localhost, port |-> LocalPort]
      /\ UNCHANGED <<interfaces, ip, mask, cursor, probed, probes, answers, garbled>>
  BY DEF NoInterface, Connect
<1>2. TypeOK'
  BY <1>1 DEF IInv, TypeOK
<1>3. Progress' /\ Honest' /\ TargetIsServer'
  BY <1>1 DEF IInv, Progress, Honest, TargetIsServer
<1> QED
  BY <1>2, <1>3 DEF IInv

(* One turn of the loop: the host at the cursor is probed unless it is the  *)
(* client; behind the last host the loop ends.                              *)
LEMMA ScanKeeps ==
    ASSUME IInv, Scan
    PROVE  IInv'
<1>1. /\ pc = "scan" /\ UNCHANGED <<interfaces, ip, mask, answers, garbled, target>>
      /\ ip \in Address /\ mask \in Address /\ cursor \in Address /\ Chosen
      /\ probed \subseteq Address /\ probes \subseteq Server
  BY DEF Scan, IInv, TypeOK, Progress
<1>2. PICK f, l : f = FirstHost /\ l = LastHost
  OBVIOUS
<1>3. /\ f \in Nat /\ l \in Nat /\ cursor \in Nat /\ l < Size /\ Size \in Nat \ {0}
      /\ HasHosts => l + 1 < Size
  BY <1>1, <1>2, RangeHolds, SizeAssumption DEF RangeGood, Chosen, Address
<1>4. FirstHost' = f /\ LastHost' = l /\ Chosen' /\ (HasHosts' <=> HasHosts)
  BY <1>1, <1>2, SameRange
<1>5. HasHosts => cursor \in f .. l + 1 /\ probed = (f .. cursor - 1) \ {ip}
  BY <1>1, <1>2 DEF IInv, Progress, Swept
<1>6. Honest'
  BY <1>1 DEF Scan, IInv, Honest
<1>7. CASE cursor <= l
  <2>1. /\ pc' = pc /\ cursor' = Word(cursor + 1)
        /\ IF cursor = ip
           THEN UNCHANGED <<probed, probes>>
           ELSE /\ probed' = probed \cup {cursor}
                /\ probes' = probes \cup ({cursor} \cap Server)
    BY <1>2, <1>7 DEF Scan
  <2>2. cursor' \in Address
    <3>1. PICK c : c = cursor + 1
      OBVIOUS
    <3>2. c % Size \in 0 .. Size - 1
      BY <1>3, <3>1
    <3> QED
      BY <2>1, <3>1, <3>2 DEF Word, Address
  <2>3. TypeOK'
    BY <1>1, <2>1, <2>2 DEF IInv, TypeOK
  <2>4. probed' = (probed \cup {cursor}) \ {ip}
    BY <2>1 DEF IInv, Honest
  <2>5. ASSUME HasHosts
        PROVE  cursor' \in f .. l + 1 /\ probed' = (f .. cursor' - 1) \ {ip}
    <3>1. PICK c : c = cursor + 1
      OBVIOUS
    <3>2. c \in Nat /\ c < Size /\ c \in f .. l + 1
      BY <1>3, <1>5, <1>7, <2>5, <3>1
    <3>3. cursor' = c
      <4>1. c % Size = c
        BY <1>3, <3>2
      <4> QED
        BY <2>1, <3>1, <4>1 DEF Word
    <3>4. (f .. cursor - 1) \cup {cursor} = f .. c - 1
      BY <1>3, <1>5, <2>5, <3>1
    <3> QED
      BY <1>5, <2>4, <2>5, <3>2, <3>3, <3>4
  <2>6. Progress'
    BY <1>1, <1>4, <2>1, <2>5 DEF Progress, Swept
  <2> QED
    BY <1>1, <1>6, <2>1, <2>3, <2>6 DEF IInv, TargetIsServer
<1>8. CASE ~(cursor <= l)
  <2>1. pc' = "poll" /\ UNCHANGED <<cursor, probed, probes>>
    BY <1>2, <1>8 DEF Scan
  <2>2. TypeOK'
    BY <1>1, <2>1 DEF IInv, TypeOK
  <2>3. HasHosts => probed' = (f .. l) \ {ip}
    <3>1. HasHosts => cursor - 1 = l
      BY <1>3, <1>5, <1>8
    <3> QED
      BY <1>5, <2>1, <3>1
  <2>4. Progress'
    BY <1>1, <1>4, <2>1, <2>3 DEF Progress, Swept
  <2> QED
    BY <1>1, <1>6, <2>1, <2>2, <2>4 DEF IInv, TargetIsServer
<1> QED
  BY <1>7, <1>8

LEMMA HandleRequestKeeps ==
    ASSUME IInv, NEW s \in Server, HandleRequest(s)
    PROVE  IInv'
<1>1. /\ s \in probes /\ probes' \subseteq probes
      /\ UNCHANGED <<interfaces, ip, mask, pc, cursor, probed, target>>
  BY DEF HandleRequest
<1>2. PICK a \in {Answer(s)} \cup Damaged(s) :
          /\ answers' = answers \cup {a}
          /\ garbled' = IF a.phrase /\ a # Answer(s) THEN garbled \cup {s} ELSE garbled
  BY DEF HandleRequest
<1>3. /\ a \in [from : Server, phrase : BOOLEAN, port : Ports \cup {NoNumber}]
      /\ a.from = s
      /\ a = Answer(s) => NamesItsPort(a)
  <2>1. TcpPort[s] \in Ports /\ 0 \in Ports
    BY ServerAssumption
  <2>2. CASE a = Answer(s)
    BY <2>1, <2>2 DEF Answer, Datagram, NamesItsPort
  <2>3. CASE a \in Damaged(s) /\ a # Answer(s)
    <3>1. CASE a = Datagram(s, FALSE, 0)
      BY <2>1, <2>3, <3>1 DEF Datagram
    <3>2. CASE a \in {Datagram(s, TRUE, p) : p \in Ports \cup {NoNumber}}
      <4>1. PICK p \in Ports \cup {NoNumber} : a = Datagram(s, TRUE, p)
        BY <3>2
      <4> QED
        BY <2>3, <4>1 DEF Datagram
    <3> QED
      BY <2>3, <3>1, <3>2 DEF Damaged
  <2> QED
    BY <1>2, <2>2, <2>3
<1>4. TypeOK'
  BY <1>1, <1>2, <1>3 DEF IInv, TypeOK
<1>5. Honest'
  <2>1. garbled \subseteq garbled'
    BY <1>2
  <2>2. ip' \notin probed' /\ probes' \subseteq probed'
    BY <1>1 DEF IInv, Honest
  <2>3. ASSUME NEW x \in answers'
        PROVE  /\ x.from \in probed'
               /\ x.phrase => NamesItsPort(x) \/ x.from \in garbled'
    <3>1. CASE x \in answers
      BY <1>1, <2>1, <3>1 DEF IInv, Honest
    <3>2. CASE x = a
      BY <1>1, <1>2, <1>3, <3>2 DEF IInv, Honest
    <3> QED
      BY <1>2, <3>1, <3>2
  <2> QED
    BY <2>2, <2>3 DEF Honest
<1>6. Progress'
  BY <1>1, SameRange DEF IInv, Progress, Swept
<1>7. TargetIsServer'
  <2>1. garbled \subseteq garbled'
    BY <1>2
  <2> QED
    BY <1>1, <2>1 DEF IInv, TargetIsServer
<1> QED
  BY <1>4, <1>5, <1>6, <1>7 DEF IInv

LEMMA LoseKeeps ==
    ASSUME IInv, Lose
    PROVE  IInv'
<1>1. /\ probes' \subseteq probes /\ answers' \subseteq answers
      /\ UNCHANGED <<interfaces, ip, mask, pc, cursor, probed, garbled, target>>
  BY DEF Lose
<1>2. TypeOK' /\ Honest'
  BY <1>1 DEF IInv, TypeOK, Honest
<1>3. Progress'
  BY <1>1, SameRange DEF IInv, Progress, Swept
<1> QED
  BY <1>1, <1>2, <1>3 DEF IInv, TargetIsServer

(* An answer that is taken for one comes from a server that was probed,     *)
(* and names the port it listens on or is damaged, as that server's are.    *)
LEMMA ReceiveKeeps ==
    ASSUME IInv, NEW a \in answers, Receive(a)
    PROVE  IInv'
<1>1. /\ pc = "poll" /\ answers' \subseteq answers
      /\ UNCHANGED <<interfaces, ip, mask, cursor, probed, probes, garbled>>
      /\ \/ UNCHANGED <<pc, target>>
         \/ /\ a.phrase /\ pc' = "connect"
            /\ target' = [address |-> a.from, port |-> a.port]
         \/ /\ a.phrase /\ a.port = NoNumber /\ pc' = "threw"
            /\ UNCHANGED target
  BY DEF Receive, IsAnswer, Connect
<1>2. /\ a.from \in Server /\ a.from \in probed /\ a.from # ip /\ a.from \in Address
      /\ a.phrase => NamesItsPort(a) \/ a.from \in garbled
  <2>1. a.from \in Server
    BY DEF IInv, TypeOK
  <2>2. a.from \in probed /\ ip \notin probed /\ (a.phrase => NamesItsPort(a) \/ a.from \in garbled)
    BY DEF IInv, Honest
  <2> QED
    BY <2>1, <2>2, ServerAssumption
<1>3. TypeOK' /\ Honest'
  BY <1>1, <1>2 DEF IInv, TypeOK, Honest
<1>4. Progress'
  BY <1>1, SameRange DEF IInv, Progress, Swept
<1>5. TargetIsServer'
  <2>1. a.port = NoNumber => ~NamesItsPort(a)
    BY <1>2, ServerAssumption DEF NamesItsPort
  <2> QED
    BY <1>1, <1>2, <2>1 DEF IInv, TargetIsServer, NamesItsPort
<1> QED
  BY <1>3, <1>4, <1>5 DEF IInv

LEMMA TimeoutKeeps ==
    ASSUME IInv, Timeout
    PROVE  IInv'
<1>1. /\ pc = "poll" /\ pc' = "connect"
      /\ target' = [address |-> Localhost, port |-> LocalPort]
      /\ UNCHANGED <<interfaces, ip, mask, cursor, probed, probes, answers, garbled>>
  BY DEF Timeout, Connect
<1>2. TypeOK' /\ Honest'
  BY <1>1 DEF IInv, TypeOK, Honest
<1>3. Progress'
  BY <1>1, SameRange DEF IInv, Progress, Swept
<1> QED
  BY <1>1, <1>2, <1>3 DEF IInv, TargetIsServer

LEMMA UnchangedKeeps ==
    ASSUME IInv, UNCHANGED vars
    PROVE  IInv'
<1>1. Progress'
  BY SameRange DEF IInv, Progress, Swept, vars
<1> QED
  BY <1>1 DEF IInv, TypeOK, Honest, TargetIsServer, vars

-----------------------------------------------------------------------------
(* The theorems. *)

LEMMA StepKeepsIInv ==
    ASSUME IInv, [Next]_vars
    PROVE  IInv'
  BY FindInterfaceKeeps, NoInterfaceKeeps, ScanKeeps, HandleRequestKeeps, LoseKeeps,
     ReceiveKeeps, TimeoutKeeps, UnchangedKeeps DEF Next

(* The loop of discoverServerByUnicastBruteforce stands at a host or behind *)
(* the last, and has probed exactly the hosts before it but the client;     *)
(* what is under way comes from a probed server.                            *)
THEOREM SearchInvariant == Spec => []IInv
<1>1. IInv /\ [Next]_vars => IInv'
  BY StepKeepsIInv
<1> QED
  BY <1>1, InitIInv, PTL DEF Spec

(* addr_int and the addresses that getSubnetRange makes of one stay         *)
(* addresses: nothing runs over 2^32 but the cursor of a range without      *)
(* hosts, which wraps around.                                               *)
THEOREM TypeCorrect == Spec => []TypeOK
<1>1. IInv => TypeOK
  BY DEF IInv
<1> QED
  BY <1>1, SearchInvariant, PTL

(* getLocalIPv4 prefers a private address, and the loop over the range that *)
(* getSubnetRange gives probes every usable host of its subnet but the      *)
(* client, and if there are any, nothing else.                              *)
THEOREM RangeIsExact == Spec => []ScanIsExact
<1>1. IInv => ScanIsExact
  <2> SUFFICES ASSUME IInv PROVE ScanIsExact
    OBVIOUS
  <2>1. pc \in {"scan", "poll"} => IsPreferred(ip)
    BY DEF IInv, Progress, Chosen
  <2>2. CASE Chosen
    <3>1. PICK f, l, c : f = FirstHost /\ l = LastHost /\ c = cursor
      OBVIOUS
    <3>2. /\ f \in Nat /\ l \in Nat /\ c \in Nat
          /\ HasHosts => UsableHosts = f .. l
          /\ ~HasHosts => UsableHosts = {}
      BY <2>2, <3>1, RangeHolds, SizeAssumption DEF RangeGood, Chosen, Address, IInv, TypeOK
    <3>3. pc = "poll" /\ HasHosts => probed = (f .. l) \ {ip}
      BY <3>1 DEF IInv, Progress, Swept
    <3>4. HasHosts => probed \subseteq (f .. l) \ {ip}
      <4>1. CASE pc = "start"
        BY <4>1 DEF IInv, Progress
      <4>2. CASE pc = "scan"
        BY <3>1, <3>2, <4>2 DEF IInv, Progress, Swept
      <4>3. CASE pc \in {"poll", "connect", "threw"}
        BY <3>1, <4>3 DEF IInv, Progress, Swept
      <4> QED
        BY <4>1, <4>2, <4>3 DEF IInv, TypeOK
    <3> QED
      BY <2>1, <3>2, <3>3, <3>4 DEF ScanIsExact
  <2>3. CASE ~Chosen
    <3>1. pc \notin {"scan", "poll"} /\ probed = {}
      BY <2>3 DEF IInv, TypeOK, Progress
    <3> QED
      BY <3>1 DEF ScanIsExact
  <2> QED
    BY <2>2, <2>3
<1> QED
  BY <1>1, SearchInvariant, PTL

(* Whatever is lost, doubled or late, autoConnect connects to the client's  *)
(* own machine or to a server that was probed.  The port is the one it      *)
(* listens on, and stoi does not throw, except by an answer whose buffer    *)
(* was freed and changed behind the phrase before it was sent.              *)
THEOREM ServerIsFound == Spec => []TargetIsServer
<1>1. IInv => TargetIsServer
  BY DEF IInv
<1> QED
  BY <1>1, SearchInvariant, PTL
=============================================================================
