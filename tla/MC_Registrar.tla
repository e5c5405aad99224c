---------------------------- MODULE MC_Registrar ----------------------------
(* Instances of Registrar for TLC: one node, its zone and the self-test's, *)
(* and envelopes that ask for the root zone, a new one, or one under the   *)
(* name of the node.                                                       *)
EXTENDS Registrar, TLC

CONSTANTS Public

RootName == <<"root">>
TestName == <<"test", "root">>
ShopName == <<"shop", "root">>
AlphaName == <<"alpha", "root">>

MCName == {RootName, TestName, ShopName, Sub("ns1", RootName),
           AlphaName, Sub("node", TestName), Sub("ns2", RootName),
           Sub("ns1", ShopName), Sub("ns2", ShopName),
           Sub("ns1", AlphaName), Sub("ns2", AlphaName)}
MCAddr == {Loopback, Public}
MCPublic == {Public}
MCDefaultRoute == {ShopName}
MCSectorDomain == {RootName, ShopName, AlphaName}
MCRootOnly == {RootName}

Symmetry == Permutations(Client)
=============================================================================
