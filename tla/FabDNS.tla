------------------------------- MODULE FabDNS -------------------------------
(***************************************************************************)
(* The fabdns plugin of CoreDNS (src/pkg/fabdns): how a query is parsed,   *)
(* which endpoints of a global service answer it, and who replies.         *)
(*                                                                         *)
(* A name is the sequence of its labels; a DNS zone is the last label (the *)
(* plugin is deployed for "global").  An endpoint carries the cluster, the *)
(* zone and the region it is in, perhaps a hostname, and addresses, each   *)
(* of the A family, the AAAA family or no valid IP at all.  Records are    *)
(* addresses; their order is left out.  The checks of getGlobalRecords for *)
(* an empty namespace, service or cluster are left out too: the labels of  *)
(* a name are not empty.                                                   *)
(***************************************************************************)
EXTENDS Naturals, Sequences

CONSTANTS Labels,        \* labels of DNS names
          SVC,           \* the label "svc"
          None,          \* no label, no service, no query
          Zones,         \* FabDNS.Zones
          FallZones,     \* FabDNS.Fall
          Cluster,       \* FabDNS.Cluster: name, zone and region
          DNSEndpoints,  \* endpoints that may occur in a service
          Addresses,     \* addresses of endpoints
          FamilyOf,      \* "A", "AAAA" or "invalid"
          Names,         \* names that are asked for
          Services       \* <<service, namespace>> of the global services

QTypes == {"A", "AAAA", "other"}

ASSUME FabDNSAssumption ==
  /\ SVC \in Labels
  /\ None \notin Labels
  /\ Cluster \in [name : Labels, zone : Labels, region : Labels]
  /\ FamilyOf \in [Addresses -> {"A", "AAAA", "invalid"}]
  /\ DNSEndpoints \subseteq [cluster : Labels, zone : Labels, region : Labels,
                             hostname : Labels \union {None}, addrs : SUBSET Addresses]
  /\ Names \subseteq Seq(Labels) \ {<<>>}
  /\ Services \subseteq Labels \X Labels

DNSServices == [type : {"ClusterIP", "Headless"}, eps : SUBSET DNSEndpoints]

VARIABLES services, \* the GlobalService resources of this cluster
          query,    \* the query served last
          answer    \* its outcome

fvars == <<services, query, answer>>

----------------------------------------------------------------------------
(* parseRequest *)

Parsed(host, cluster, service, namespace, adHoc) ==
  [hostname |-> host, cluster |-> cluster, key |-> <<service, namespace>>, isAdHoc |-> adHoc]

\* MUTANT of parseRequest: the deprecated form takes the cluster from the place
\* of the service.
parseRequestShifted(l) ==
  CASE Len(l) = 6                -> Parsed(l[1], l[2], l[3], l[4], FALSE)
    [] Len(l) = 5                -> Parsed(None, l[1], l[2], l[3], TRUE)
    [] Len(l) = 4 /\ l[3] = SVC  -> Parsed(None, None, l[1], l[2], FALSE)
    [] Len(l) = 4 /\ l[3] # SVC  -> Parsed(None, l[1], l[2], l[3], TRUE)
    [] OTHER                     -> None

\* None stands for errInvalidRequest.  The test for fewer than 4 and more than
\* 6 labels at once never holds, the default case of the switch catches both.
parseRequest(l) ==
  CASE Len(l) = 6                -> Parsed(l[1], l[2], l[3], l[4], FALSE)
    [] Len(l) = 5                -> Parsed(None, l[1], l[2], l[3], TRUE)
    [] Len(l) = 4 /\ l[3] = SVC  -> Parsed(None, None, l[1], l[2], FALSE)
    [] Len(l) = 4 /\ l[3] # SVC  -> Parsed(None, l[3], l[1], l[2], TRUE)
    [] OTHER                     -> None

----------------------------------------------------------------------------
(* Selection of the records. *)

\* MUTANT of generateRecords: an address that is no IP is not left out, and
\* yields an AAAA record without an address.
generateRecordsUnverified(qtype, e) ==
  {a \in e.addrs : FamilyOf[a] = qtype}
    \union {None : a \in {b \in e.addrs : qtype = "AAAA" /\ FamilyOf[b] = "invalid"}}

\* generateRecords: the addresses of an endpoint that fit the query type.
generateRecords(qtype, e) == {a \in e.addrs : FamilyOf[a] = qtype}

Records(qtype, eps) == UNION {generateRecords(qtype, e) : e \in eps}

\* The cases of the switch over the endpoints of a service.
InCluster(eps, name) == {e \in eps : e.cluster = name}
InZone(eps)   == {e \in eps : e.cluster # Cluster.name /\ e.zone = Cluster.zone}
InRegion(eps) == {e \in eps : /\ e.cluster # Cluster.name
                              /\ e.zone # Cluster.zone
                              /\ e.region = Cluster.region}

\* MUTANT of Preferred: a tier is taken if it has endpoints, even if none of
\* them has an address of the family asked for.
PreferredByEndpoints(qtype, eps) ==
  CASE InCluster(eps, Cluster.name) # {} -> Records(qtype, InCluster(eps, Cluster.name))
    [] InCluster(eps, Cluster.name) = {} /\ InZone(eps) # {} -> Records(qtype, InZone(eps))
    [] OTHER -> Records(qtype, eps)

\* Endpoints of this cluster, else of its zone, else of its region, else all.
Preferred(qtype, eps) ==
  LET own    == Records(qtype, InCluster(eps, Cluster.name))
      zone   == Records(qtype, InZone(eps))
      region == Records(qtype, InRegion(eps))
  IN  IF own # {} THEN own
      ELSE IF zone # {} THEN zone
      ELSE IF region # {} THEN region
      ELSE Records(qtype, eps)

\* MUTANT of PodEndpoints: the cluster in the name is not compared.
PodEndpointsAnywhere(eps, req) == {e \in eps : e.hostname = req.hostname}

\* The endpoints of a headless service that a pod name denotes.
PodEndpoints(eps, req) ==
  {e \in InCluster(eps, req.cluster) : e.hostname = req.hostname}

NoItems     == [rcode |-> "NXDOMAIN", records |-> {}]
Found(recs) == [rcode |-> "NOERROR", records |-> recs]

\* getGlobalRecords for a service that was read.
getGlobalRecords(qtype, req, svc) ==
  CASE req.cluster = None ->
         Found(Preferred(qtype, svc.eps))
    [] req.cluster # None /\ svc.type # "Headless" ->
         NoItems
    [] req.cluster # None /\ svc.type = "Headless" ->
         IF PodEndpoints(svc.eps, req) = {}
         THEN NoItems ELSE Found(Records(qtype, PodEndpoints(svc.eps, req)))

\* getAdHocRecords: no match is an empty answer, not an error.
getAdHocRecords(qtype, req, svc) == Found(Records(qtype, InCluster(svc.eps, req.cluster)))

Lookup(qtype, req) ==
  LET svc == IF req.key \in Services THEN services[req.key] ELSE None
  IN  IF svc = None THEN NoItems
      ELSE IF req.isAdHoc THEN getAdHocRecords(qtype, req, svc)
      ELSE getGlobalRecords(qtype, req, svc)

----------------------------------------------------------------------------
(* ServeDNS: a result is a return code, records, and who wrote the reply.  *)

Written(res) == [rcode |-> res.rcode, records |-> res.records, by |-> "fabdns"]
Error(rcode) == [rcode |-> rcode, records |-> {}, by |-> "nobody"]
NextPlugin   == [rcode |-> "next", records |-> {}, by |-> "next"]

Zone(l) == l[Len(l)]

\* MUTANT of nextOrFailure: the error is returned but no reply is written.
nextOrFailureSilent(l, rcode) == IF Zone(l) \in FallZones THEN NextPlugin ELSE Error(rcode)

nextOrFailure(l, rcode) ==
  IF Zone(l) \in FallZones THEN NextPlugin
  ELSE Written([rcode |-> rcode, records |-> {}])

\* What ServeDNS does when the resource can be read.
Serve(l, qtype) ==
  LET req == parseRequest(l)
      res == Lookup(qtype, req)
  IN  CASE Zone(l) \notin Zones                                 -> nextOrFailure(l, "NOTZONE")
        [] Zone(l) \in Zones /\ qtype = "other"                 -> nextOrFailure(l, "NOTIMP")
        [] Zone(l) \in Zones /\ qtype # "other" /\ req = None   -> Error("NXDOMAIN")
        [] Zone(l) \in Zones /\ qtype # "other" /\ req # None   ->
             IF res.rcode = "NOERROR" THEN Written(res) ELSE nextOrFailure(l, res.rcode)

\* CoreDNS replies for a plugin that returns one of these codes.  (external)
ServerReplies(rcode) == rcode \in {"SERVFAIL", "REFUSED", "FORMERR", "NOTIMP"}

Replies(a) ==
  (IF a.by = "nobody" THEN 0 ELSE 1) + (IF ServerReplies(a.rcode) THEN 1 ELSE 0)

----------------------------------------------------------------------------
Init ==
  /\ services \in [Services -> DNSServices \union {None}]
  /\ query = None
  /\ answer = None

ServeDNS(l, qtype) ==
  /\ query' = [name |-> l, qtype |-> qtype]
  /\ answer' = Serve(l, qtype)
  /\ UNCHANGED services

\* The Get of a well-formed query fails: SERVFAIL, left to the server to send.
GetFails(l, qtype) ==
  /\ Zone(l) \in Zones /\ qtype # "other" /\ parseRequest(l) # None
  /\ query' = [name |-> l, qtype |-> qtype]
  /\ answer' = Error("SERVFAIL")
  /\ UNCHANGED services

Next == \E l \in Names, qtype \in QTypes : ServeDNS(l, qtype) \/ GetFails(l, qtype)

Spec == Init /\ [][Next]_fvars

----------------------------------------------------------------------------
(* Properties. *)

FabDNSTypeOK ==
  /\ services \in [Services -> DNSServices \union {None}]
  /\ query \in [name : Names, qtype : QTypes] \union {None}
  /\ answer \in [rcode : {"NOERROR", "NXDOMAIN", "NOTZONE", "NOTIMP", "SERVFAIL", "next"},
                 records : SUBSET Addresses, by : {"fabdns", "next", "nobody"}]
              \union {None}

\* How far an endpoint is from the cluster that asks.
Distance(e) ==
  CASE e.cluster = Cluster.name -> 0
    [] e.cluster # Cluster.name /\ e.zone = Cluster.zone -> 1
    [] e.cluster # Cluster.name /\ e.zone # Cluster.zone /\ e.region = Cluster.region -> 2
    [] OTHER -> 3

\* The endpoints that can answer and that no nearer one can stand in for.
Nearest(qtype, eps) ==
  {e \in eps : \A f \in eps : generateRecords(qtype, f) # {} => Distance(e) <= Distance(f)}

ServedService == services[parseRequest(query.name).key]

\* A query of the plugin's zone, of a supported type, for a well-formed name of
\* an existing service, and answered.
Answered ==
  /\ query # None
  /\ answer.rcode \in {"NOERROR", "NXDOMAIN"} /\ answer.by = "fabdns"
  /\ parseRequest(query.name) # None
  /\ parseRequest(query.name).key \in Services
  /\ ServedService # None

\* The global name of a service is answered with exactly the addresses of the
\* nearest endpoints that have one of the family asked for: the empty answer
\* only if no endpoint has one, and never a farther endpoint beside a nearer.
\* That the own cluster is nearer than its zone is the code's ("local cluster
\* endpoints preference", fabdns.go), not the design document's: DesignAnswer.
NearestAnswer ==
  (Answered /\ parseRequest(query.name).cluster = None) =>
    answer.records = Records(query.qtype, Nearest(query.qtype, ServedService.eps))

\* The order of docs/multi-cluster-service-discovery-design.md:135-137: the
\* endpoints whose zone matches, else those whose region matches, else all.  It
\* does not hold of getGlobalRecords: endpoints of the cluster that asks are
\* taken alone, without those of other clusters of its zone.
DesignAnswer ==
  LET eps    == ServedService.eps
      zone   == Records(query.qtype, {e \in eps : e.zone = Cluster.zone})
      region == Records(query.qtype, {e \in eps : e.region = Cluster.region})
  IN  (Answered /\ parseRequest(query.name).cluster = None) =>
        answer.records = IF zone # {} THEN zone
                         ELSE IF region # {} THEN region
                         ELSE Records(query.qtype, eps)

\* The name of a pod is answered with addresses of that pod of that cluster
\* only, and exists exactly if the headless service has such an endpoint.
PodNameDenotesPod ==
  LET req == parseRequest(query.name)
      own == {e \in ServedService.eps : e.cluster = req.cluster /\ e.hostname = req.hostname}
  IN  (Answered /\ Len(query.name) = 6) =>
        /\ answer.rcode = "NOERROR" <=> (ServedService.type = "Headless" /\ own # {})
        /\ answer.rcode = "NOERROR" => answer.records = Records(query.qtype, own)

\* The deprecated spelling service.namespace.cluster and its replacement
\* cluster.service.namespace.svc are answered alike, unless a cluster is called
\* "svc".
SpellingsAgree ==
  \A key \in Services, c \in Labels \ {SVC}, z \in Zones, qtype \in QTypes :
    Serve(<<key[1], key[2], c, z>>, qtype) = Serve(<<c, key[1], key[2], SVC, z>>, qtype)

\* A query of a supported type for a well-formed name is replied to once: by
\* the plugin, by the next one, or by the server on the plugin's behalf.
RepliedOnce ==
  (query # None /\ query.qtype # "other" /\ parseRequest(query.name) # None)
    => Replies(answer) = 1

=============================================================================
