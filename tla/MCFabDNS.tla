------------------------------ MODULE MCFabDNS ------------------------------
(***************************************************************************)
(* An instance of FabDNS for TLC: the cluster chaoyang of the examples in  *)
(* docs/, its zone, its region, and one service.                           *)
(***************************************************************************)
EXTENDS FabDNS

MCCluster == [name |-> "chaoyang", zone |-> "beijing", region |-> "north"]

Ep(c, z, r, h, as) == [cluster |-> c, zone |-> z, region |-> r, hostname |-> h, addrs |-> as]

\* Own cluster twice (two pods, one of them without an IPv4 address), same
\* zone, same region, elsewhere.
MCEndpoints ==
  {Ep("chaoyang", "beijing", "north", "pod", {"v4a"}),
   Ep("chaoyang", "beijing", "north", "pod2", {"v6a"}),
   Ep("haidian", "beijing", "north", "pod", {"v4b", "v6b"}),
   Ep("shijiazhuang", "hebei", "north", None, {"v4c", "bad"}),
   Ep("pudong", "shanghai", "east", "pod", {"v4d", "v6d"})}

MCFamilyOf == [a \in Addresses |->
  CASE a \in {"v4a", "v4b", "v4c", "v4d"} -> "A"
    [] a \in {"v6a", "v6b", "v6d"}        -> "AAAA"
    [] OTHER                              -> "invalid"]

MCServices == {<<"nginx", "default">>}

\* Well-formed names of each kind, names of other services, a name outside the
\* plugin's zones, one in a zone that falls through, and malformed names.
MCNames ==
  {<<"nginx", "default", "svc", "global">>, <<"other", "default", "svc", "global">>,
   <<"nginx", "default", "svc", "fall">>, <<"nginx", "default", "svc", "elsewhere">>,
   <<"nginx", "default", "pudong", "global">>, <<"other", "default", "pudong", "global">>,
   <<"nginx", "default", "global">>,
   <<"pod", "pod", "chaoyang", "nginx", "default", "svc", "global">>}
  \union {<<c, "nginx", "default", "svc", "global">> : c \in {"chaoyang", "haidian", "other"}}
  \union {<<h, c, "nginx", "default", "svc", z>> :
            h \in {"pod", "pod2", "other"}, c \in {"chaoyang", "haidian"}, z \in {"global", "fall"}}
=============================================================================
