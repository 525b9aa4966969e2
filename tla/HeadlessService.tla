-------------------------- MODULE HeadlessService --------------------------
(***************************************************************************)
(* A headless service of several clusters from their EndpointSlices to the *)
(* answers of fabdns: each cluster's exporter makes endpoints of its       *)
(* slices, the host merges them into one global service, one version after *)
(* the other, and the plugin of each cluster answers the names of pods     *)
(* from a copy of some version.  A call of the manager is one step here,   *)
(* because it holds the manager's lock, but it reads from an informer      *)
(* cache that may be behind; GlobalServiceManager has its steps, and       *)
(* ServiceExporter and Importer have how calls and copies come about.      *)
(***************************************************************************)
EXTENDS HeadlessEndpoints

CONSTANTS
  Clusters,   \* cluster names
  Host,       \* the host cluster
  Topology,   \* per cluster, its name, zone and region
  SliceLists, \* what the informer cache may list of the service's slices
  Key,        \* <<service, namespace>>
  Hostnames,  \* hostnames of pods
  Labels, SVC, None, Zones, Addresses, FamilyOf,
  MaxVersions \* bound on the versions of the global service

\* Endpoints of slices, slices, and endpoints of global services.
SliceEndpoint == [pod : Nat, hostname : Hostnames \union {None}, addrs : Seq(Addresses)]

EndpointSlice == [type : {"FQDN", "IPv4", "IPv6"}, eps : Seq(SliceEndpoint)]

DNSEndpoints ==
  [cluster : Clusters, zone : Labels, region : Labels,
   hostname : Hostnames \union {None}, addrs : SUBSET Addresses]

\* The API server admits addresses of a slice's own family only; a pod has one
\* hostname.
Consistent(slices) ==
  /\ \A i \in DOMAIN slices : \A e \in Range(slices[i].eps) : \A a \in Range(e.addrs) :
       /\ slices[i].type = "IPv4" => FamilyOf[a] = "A"
       /\ slices[i].type = "IPv6" => FamilyOf[a] = "AAAA"
  /\ \A i, j \in DOMAIN slices : \A d \in Range(slices[i].eps), e \in Range(slices[j].eps) :
       d.pod = e.pod => d.hostname = e.hostname

ASSUME HeadlessAssumption ==
  /\ Host \in Clusters
  /\ Clusters \subseteq Labels /\ Hostnames \subseteq Labels
  /\ None \notin Labels /\ None \notin SliceLists
  /\ None \notin [type : {"Headless"}, eps : SUBSET DNSEndpoints]
  /\ None \notin [hostname : Labels, cluster : Labels, key : {Key}, isAdHoc : {FALSE}]
  /\ Key \in Labels \X Labels
  /\ Topology \in [Clusters -> [name : Labels, zone : Labels, region : Labels]]
  /\ FamilyOf \in [Addresses -> {"A", "AAAA", "invalid"}]
  /\ SliceLists \subseteq Seq(EndpointSlice)
  /\ \A slices \in SliceLists : Consistent(slices)
  /\ MaxVersions \in Nat

VARIABLES
  listed,   \* the slices of the export made last, by some cluster
  exported, \* the endpoints the exporter has made of them
  versions, \* what the host's global service has been so far; and, beside each
            \* version, the slices of the last export of each cluster that has
            \* been written and that no revocation has removed since
  shown     \* the version that the host's informer cache shows

hvars == <<listed, exported, versions, shown>>

GlobalServices == [type : {"Headless"}, eps : SUBSET DNSEndpoints]

\* fabdns in cluster c, whose global service is g.
DNS(c, g) == INSTANCE FabDNS WITH
  Cluster <- Topology[c], FallZones <- {}, Names <- {}, Services <- {Key},
  services <- [k \in {Key} |-> g], query <- None, answer <- None

Init ==
  /\ listed = None
  /\ exported = <<>>
  /\ versions = <<[service |-> None, slices |-> [c \in Clusters |-> None]]>>
  /\ shown = 1

Newest == versions[Len(versions)]
Read   == versions[shown].service

EndpointsOf(g) == IF g = None THEN {} ELSE g.eps

\* MUTANT of Others: the cluster's own endpoints stay beside the new ones.
OthersAndOwn(g, c) == EndpointsOf(g)

\* removeEndpoints: the endpoints of the other clusters.
Others(g, c) == {e \in EndpointsOf(g) : e.cluster # c}

\* What an endpoint of the exporter is for the plugin.
Exported(c, e) ==
  [cluster |-> c, zone |-> Topology[c].zone, region |-> Topology[c].region,
   hostname |-> e.hostname, addrs |-> Range(e.addrs)]

OwnEndpoints(c, eps) == {Exported(c, eps[i]) : i \in DOMAIN eps}

\* The global service that a merge computes from what it has read.
Merged(c, eps) ==
  [type |-> "Headless", eps |-> Others(Read, c) \union OwnEndpoints(c, eps)]

\* The manager sends an Update with the version it has read: the API server
\* takes it if that is the newest, and takes a Create if there is no object.
MayWrite ==
  IF Read = None THEN Newest.service = None ELSE shown = Len(versions)

Write(g, slices) ==
  /\ Len(versions) < MaxVersions
  /\ versions' = Append(versions, [service |-> g, slices |-> slices])
  /\ UNCHANGED shown

\* Reconcile of a service that is global, and CreateOrMergeGlobalService in the
\* host, which holds the manager's lock from the read to the write: what it
\* reads may be old, but no other call comes between.  The server refuses a
\* member's service without endpoints.
Export(c, slices) ==
  \E eps \in GetEndpointsOfHeadlessService(slices) :
    /\ eps # <<>> \/ c = Host
    /\ IF Merged(c, eps) = Read
       THEN UNCHANGED <<versions, shown>>
       ELSE MayWrite /\ Write(Merged(c, eps), [Newest.slices EXCEPT ![c] = slices])
    /\ listed' = slices
    /\ exported' = eps

\* RevokeGlobalService, for the cluster's exporter, its revoker of lost services
\* or the host's cleaner.  A global service in which it reads no other
\* endpoints is deleted, whatever the newest version has.
Revoke(c) ==
  /\ Read # None
  /\ IF Others(Read, c) = {}
     THEN Newest.service # None /\ Write(None, [d \in Clusters |-> None])
     ELSE /\ MayWrite /\ Others(Read, c) # Read.eps
          /\ Write([Read EXCEPT !.eps = Others(Read, c)], [Newest.slices EXCEPT ![c] = None])
  /\ UNCHANGED <<listed, exported>>

\* A call that fails or has nothing to write: a conflict, status 400, a lost
\* request.
NoEffect == UNCHANGED hvars

\* The watch brings the host's cache the next version.
Deliver ==
  /\ shown < Len(versions)
  /\ shown' = shown + 1
  /\ UNCHANGED <<listed, exported, versions>>

Next ==
  \/ \E c \in Clusters : (\E slices \in SliceLists : Export(c, slices)) \/ Revoke(c)
  \/ Deliver
  \/ NoEffect

Spec == Init /\ [][Next]_hvars

----------------------------------------------------------------------------
(* Properties. *)

HeadlessTypeOK ==
  /\ listed \in SliceLists \union {None}
  /\ exported \in Seq(SliceEndpoint)
  /\ \A i \in DOMAIN exported : \A a \in Range(exported[i].addrs) : FamilyOf[a] # "invalid"
  /\ versions \in Seq([service : GlobalServices \union {None},
                       slices : [Clusters -> SliceLists \union {None}]])
  /\ shown \in 1 .. Len(versions)

\* The endpoints of slices, those of domain names left out.
EntriesOf(slices) ==
  UNION {Range(es.eps) : es \in {x \in Range(slices) : x.type # "FQDN"}}

Entries(slices) == IF slices = None THEN {} ELSE EntriesOf(slices)

\* Slices in which no pod has an address twice.
NoDuplicates(slices) ==
  \A i, j \in {n \in DOMAIN slices : slices[n].type # "FQDN"} :
    \A a \in DOMAIN slices[i].eps, b \in DOMAIN slices[j].eps :
      LET d == slices[i].eps[a]
          e == slices[j].eps[b]
      IN  /\ IsInjective(d.addrs)
          /\ (<<i, a>> # <<j, b>> /\ d.pod = e.pod) => Range(d.addrs) \intersect Range(e.addrs) = {}

\* However the slices are split and listed, a cluster exports one endpoint for
\* each pod, in the order of their names, with all addresses of the pod, IPv4
\* before IPv6; and no address twice, as the type of GlobalService requires,
\* unless the slices themselves have one twice.
PodsExportedOnce ==
  /\ {exported[i].pod : i \in DOMAIN exported} = {e.pod : e \in Entries(listed)}
  /\ \A i, j \in DOMAIN exported : i < j => exported[i].pod < exported[j].pod
  /\ \A i \in DOMAIN exported :
       LET addrs == exported[i].addrs
       IN  /\ Range(addrs) = UNION {Range(e.addrs) : e \in {x \in Entries(listed) : x.pod = exported[i].pod}}
           /\ \A m, n \in DOMAIN addrs :
                (m < n /\ FamilyOf[addrs[m]] = "AAAA") => FamilyOf[addrs[n]] = "AAAA"
           /\ (listed # None /\ NoDuplicates(listed)) => IsInjective(addrs)

\* In each version of the global service, whichever of them a cluster's copy
\* shows, the names of all pods of a cluster are answered from every cluster as
\* one list of slices has them: the last that this cluster had got into the
\* global service by then, if no revocation has removed it.  Each name has
\* exactly the addresses of the pod, of the family asked for, and there is no
\* name without a pod: no mixture of exports, and no older one that a write from
\* an old cache brings back.  (The revocation can be another cluster's: what
\* that one deletes, having read from an old cache, is removed from this one's.)
PodNamesResolve ==
  \A v \in DOMAIN versions, from, c \in Clusters, h \in Hostnames, z \in Zones, qtype \in {"A", "AAAA"} :
    LET pods  == {e \in Entries(versions[v].slices[c]) : e.hostname = h}
        reply == DNS(from, versions[v].service)!Serve(<<h, c, Key[1], Key[2], SVC, z>>, qtype)
    IN  /\ reply.rcode = IF pods = {} THEN "NXDOMAIN" ELSE "NOERROR"
        /\ reply.records = {a \in UNION {Range(e.addrs) : e \in pods} : FamilyOf[a] = qtype}

=============================================================================
