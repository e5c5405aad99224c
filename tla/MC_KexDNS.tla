------------------------------ MODULE MC_KexDNS ------------------------------
(* Instances of KexDNS for TLC: one node, its zone, and the self-test's,   *)
(* which an envelope may ask for as well.                                  *)
EXTENDS KexDNS, TLC

CONSTANTS Public, Broken

RootName == <<"root">>
TestName == <<"test", "root">>
ShopName == <<"shop", "root">>
AlphaName == <<"alpha", "root">>

MCName == {RootName, TestName, ShopName, AlphaName, Sub("ns1", RootName),
           Sub("node", TestName), Sub("ns1", TestName), Sub("ns2", TestName)}
MCAddr == {Loopback, Public, Broken}
MCPublic == {Public}
MCBroken == {Broken}
MCDefaultRoute == {ShopName}
MCSectorDomain == {TestName}

(* A name that becomes a route and a zone, and one that becomes a record *)
TestQuestion == {<<TestName, "A">>, <<Sub("node", TestName), "OTHER">>}
SeedQuestion == {<<RootName, "SOA">>, <<AlphaName, "A">>}
=============================================================================
