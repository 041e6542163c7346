---------------------------- MODULE MCDiscovery ------------------------------
(* Discovery with addresses of 4 bits and two servers: every address under  *)
(* every netmask of a single interface, and pairs of interfaces of every    *)
(* kind.                                                                    *)
EXTENDS Discovery, Bitwise, TLC

MCBitAnd(a, b) == a & b
MCBitOr(a, b) == a | b

MCTcpPort == 5 :> 60010 @@ 9 :> 60011
MCPorts == {0, 60010, 60011}
MCPrivate == 8 .. 11
MCLinkLocal == {14}

Interface(a, m, u, l) == [ip |-> a, mask |-> m, up |-> u, loopback |-> l]

Single == {<<Interface(a, m, TRUE, FALSE)>> : a \in Address, m \in Masks}

Kinds == {Interface(a, m, f[1], f[2]) :
             a \in {2, 9, 14}, m \in {12, 8, NoMask},
             f \in {<<TRUE, FALSE>>, <<FALSE, FALSE>>, <<TRUE, TRUE>>}}

MCLists == Single \cup {<<i, j>> : i \in Kinds, j \in Kinds} \cup {<<>>}
=============================================================================
