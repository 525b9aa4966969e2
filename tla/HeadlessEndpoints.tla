------------------------- MODULE HeadlessEndpoints -------------------------
(***************************************************************************)
(* GetEndpointsOfHeadlessService                                           *)
(* (src/pkg/service-hub/exporter/service_exporter.go): the endpoints that  *)
(* a headless service exports, one for each pod, are put together from the *)
(* EndpointSlices of the service, of which there are some for each family  *)
(* of addresses.                                                           *)
(*                                                                         *)
(* Pods are numbered in the order of their names.  An EndpointSlice is a   *)
(* record of its address type and of its endpoints, a sequence.  The two   *)
(* sorts are given by what sort.Sort promises, a permutation in order.     *)
(***************************************************************************)
EXTENDS Naturals, Sequences, FiniteSets, Functions

\* The order of the names of address types.
TypeRank(type) ==
  CASE type = "FQDN" -> 1 [] type = "IPv4" -> 2 [] type = "IPv6" -> 3

\* sort.Sort(ByAddressType(...)) is not stable: each of these may come out.
SortedByAddressType(slices) ==
  {s \in {[i \in DOMAIN slices |-> slices[p[i]]] : p \in Bijection(DOMAIN slices, DOMAIN slices)} :
     \A i, j \in DOMAIN s : i < j => TypeRank(s[i].type) <= TypeRank(s[j].type)}

\* MUTANT of Added: a pod that was found before is replaced.
AddedOver(byName, ep) ==
  [p \in DOMAIN byName \union {ep.pod} |->
     IF p = ep.pod THEN [hostname |-> ep.hostname, addrs |-> ep.addrs] ELSE byName[p]]

\* The inner loop's body: an endpoint of a slice joins its pod's.
Added(byName, ep) ==
  [p \in DOMAIN byName \union {ep.pod} |->
     CASE p # ep.pod -> byName[p]
       [] p = ep.pod /\ p \in DOMAIN byName    -> [byName[p] EXCEPT !.addrs = @ \o ep.addrs]
       [] p = ep.pod /\ p \notin DOMAIN byName -> [hostname |-> ep.hostname, addrs |-> ep.addrs]]

\* The inner loop.
AddedEndpoints(byName, eps) ==
  LET loop[n \in 0 .. Len(eps)] == IF n = 0 THEN byName ELSE Added(loop[n - 1], eps[n])
  IN  loop[Len(eps)]

\* MUTANT of AddedSlice: slices of domain names are not left out.
AddedAnySlice(byName, es) == AddedEndpoints(byName, es.eps)

\* The outer loop's body.
AddedSlice(byName, es) ==
  IF es.type = "FQDN" THEN byName ELSE AddedEndpoints(byName, es.eps)

\* The outer loop.
endpointByName(slices) ==
  LET loop[n \in 0 .. Len(slices)] == IF n = 0 THEN <<>> ELSE AddedSlice(loop[n - 1], slices[n])
  IN  loop[Len(slices)]

\* The endpoints of the map, in the order of their names.
ByName(byName) ==
  {[i \in DOMAIN names |-> [pod      |-> names[i],
                            hostname |-> byName[names[i]].hostname,
                            addrs    |-> byName[names[i]].addrs]] :
     names \in {q \in Bijection(1 .. Cardinality(DOMAIN byName), DOMAIN byName) :
                  \A i, j \in DOMAIN q : i < j => q[i] < q[j]}}

\* What may be returned for a list of slices.
GetEndpointsOfHeadlessService(slices) ==
  UNION {ByName(endpointByName(s)) : s \in SortedByAddressType(slices)}

=============================================================================
