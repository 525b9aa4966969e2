------------------------- MODULE MCHeadlessService -------------------------
(***************************************************************************)
(* An instance of HeadlessService for TLC: two clusters, slices over three *)
(* pods.  Two pods have hostnames, as those of a StatefulSet; the third    *)
(* has none.                                                               *)
(***************************************************************************)
EXTENDS HeadlessService

MCTopology ==
  [c \in Clusters |-> [name |-> c, zone |-> "beijing", region |-> "north"]]

MCKey == <<"mysql", "default">>

Pod(n, as) ==
  [pod |-> n, hostname |-> IF n = 3 THEN None ELSE IF n = 1 THEN "mysql-0" ELSE "mysql-1",
   addrs |-> as]

Slice(t, eps) == [type |-> t, eps |-> eps]

V4   == Slice("IPv4", <<Pod(1, <<"v4a">>), Pod(2, <<"v4b">>)>>)
V6   == Slice("IPv6", <<Pod(2, <<"v6b">>), Pod(1, <<"v6a">>)>>)
FQDN == Slice("FQDN", <<Pod(1, <<"name">>)>>)

\* Repeats a pod of the first.
Again == Slice("IPv4", <<Pod(3, <<"v4c">>), Pod(1, <<"v4a">>)>>)

\* The lists that only differ in their order are to be exported alike.
MCSliceLists ==
  {<<>>, <<V4>>, <<V6, V4>>, <<V4, V6>>, <<V4, Again>>, <<Again, V4>>, <<FQDN, Again>>,
   <<Again, V6, FQDN>>}

MCFamilyOf == [a \in Addresses |->
  CASE a \in {"v4a", "v4b", "v4c"} -> "A"
    [] a \in {"v6a", "v6b"}        -> "AAAA"
    [] OTHER                       -> "invalid"]
=============================================================================
