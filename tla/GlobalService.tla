--------------------------- MODULE GlobalService ---------------------------
(***************************************************************************)
(* Global services as data, and the two operations that change them, as    *)
(* translated from src/pkg/service-hub/types/global_service_manager.go.    *)
(* A global service is a definition (its type and ports) and the endpoints *)
(* that clusters contributed.  The endpoints are a set: their order in the *)
(* slice of the code only decides whether two equal lists compare equal,   *)
(* which GlobalServiceManager treats as a choice.                          *)
(***************************************************************************)

CONSTANTS Clusters, \* names of clusters
          Keys,     \* namespace/name of global services
          Addrs,    \* endpoint addresses
          Defs,     \* service definitions: type and ports
          Exports,  \* what a cluster may report for one service
          Absent    \* no such global service

ASSUME GlobalServiceAssumption ==
  /\ Exports \subseteq [def : Defs, addrs : SUBSET Addrs]
  /\ Absent \notin [def : Defs, eps : SUBSET [cluster : Clusters, addr : Addrs]]

Endpoints == [cluster : Clusters, addr : Addrs]
Specs     == [def : Defs, eps : SUBSET Endpoints]
MaybeSpec == Specs \union {Absent}

MergeCalls  == [op : {"merge"}, cluster : Clusters, key : Keys, export : Exports]
RevokeCalls == [op : {"revoke"}, cluster : Clusters, key : Keys]
Calls       == MergeCalls \union RevokeCalls

----------------------------------------------------------------------------
(* The two operations as functions on a (possibly absent) global service. *)

\* removeEndpoints: every endpoint but those of one cluster.
removeEndpoints(eps, cluster) == {e \in eps : e.cluster # cluster}

EndpointsOf(spec) == IF spec = Absent THEN {} ELSE spec.eps

\* The endpoints a cluster reports, each tagged with the cluster's name.
OwnEndpoints(cluster, addrs) == [cluster : {cluster}, addr : addrs]

\* MUTANT of MergedSpec: the type and the ports are not set.
MergedSpecUntyped(spec, cluster, export) ==
  [eps |-> removeEndpoints(EndpointsOf(spec), cluster)
             \union OwnEndpoints(cluster, export.addrs)]

\* The callback of CreateOrUpdate: replace the cluster's endpoints, take over
\* the type and the ports of the caller whatever they were before.
MergedSpec(spec, cluster, export) ==
  [def |-> export.def,
   eps |-> removeEndpoints(EndpointsOf(spec), cluster)
             \union OwnEndpoints(cluster, export.addrs)]

\* MUTANT of RevokedSpec: the service is deleted, whoever else has endpoints in it.
RevokedSpecWhole(spec, cluster) == Absent

\* RevokeGlobalService: drop the cluster's endpoints, and the service itself
\* once no endpoint is left.
RevokedSpec(spec, cluster) ==
  LET left == removeEndpoints(EndpointsOf(spec), cluster)
  IN  IF left = {} THEN Absent ELSE [spec EXCEPT !.eps = left]

Applied(spec, c) ==
  IF c.op = "merge" THEN MergedSpec(spec, c.cluster, c.export)
                    ELSE RevokedSpec(spec, c.cluster)

=============================================================================
