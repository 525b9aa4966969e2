---------------------------- MODULE FabDNSProofs ----------------------------
(***************************************************************************)
(* Proofs about FabDNS, for every service, every topology and every name.  *)
(***************************************************************************)
EXTENDS FabDNS, TLAPS

\* The first tier with a record is the set of nearest endpoints that have one.
LEMMA PreferredIsNearest ==
  ASSUME NEW qtype, NEW eps
  PROVE  Preferred(qtype, eps) = Records(qtype, Nearest(qtype, eps))
<1> DEFINE R(e) == generateRecords(qtype, e)
<1> DEFINE Tier(d) == {e \in eps : Distance(e) = d}
<1>1. \A e \in eps : Distance(e) \in 0 .. 3
  BY DEF Distance
<1>2. /\ InCluster(eps, Cluster.name) = Tier(0)
      /\ InZone(eps) = Tier(1)
      /\ InRegion(eps) = Tier(2)
  BY DEF InCluster, InZone, InRegion, Distance
<1>3. ASSUME NEW d \in 0 .. 3, Records(qtype, Tier(d)) # {},
             \A c \in 0 .. 3 : c < d => Records(qtype, Tier(c)) = {}
      PROVE  Records(qtype, Nearest(qtype, eps)) = Records(qtype, Tier(d))
  <2>1. PICK f \in eps : Distance(f) = d /\ R(f) # {}
    BY <1>3 DEF Records
  <2>2. \A g \in eps : R(g) # {} => d <= Distance(g)
    BY <1>1, <1>3 DEF Records
  <2>3. \A e \in eps : (e \in Nearest(qtype, eps) /\ R(e) # {}) <=> (e \in Tier(d) /\ R(e) # {})
    BY <1>1, <2>1, <2>2 DEF Nearest
  <2>4. Nearest(qtype, eps) \subseteq eps /\ Tier(d) \subseteq eps
    BY DEF Nearest
  <2> QED
    BY <2>3, <2>4 DEF Records
<1>4. CASE /\ Records(qtype, Tier(0)) = {} /\ Records(qtype, Tier(1)) = {}
           /\ Records(qtype, Tier(2)) = {}
  <2>1. Preferred(qtype, eps) = Records(qtype, eps)
    BY <1>2, <1>4 DEF Preferred
  <2>2. Records(qtype, eps) = Records(qtype, Tier(3))
    <3>1. \A e \in eps : Distance(e) \in {0, 1, 2, 3}
      BY <1>1
    <3> QED
      BY <1>4, <3>1 DEF Records
  <2>3. CASE Records(qtype, Tier(3)) # {}
    BY <1>3, <1>4, <2>1, <2>2, <2>3
  <2>4. CASE Records(qtype, Tier(3)) = {}
    BY <2>1, <2>2, <2>4 DEF Records, Nearest
  <2> QED
    BY <2>3, <2>4
<1>5. CASE Records(qtype, Tier(0)) # {}
  BY <1>2, <1>3, <1>5 DEF Preferred
<1>6. CASE Records(qtype, Tier(0)) = {} /\ Records(qtype, Tier(1)) # {}
  BY <1>2, <1>3, <1>6 DEF Preferred
<1>7. CASE /\ Records(qtype, Tier(0)) = {} /\ Records(qtype, Tier(1)) = {}
           /\ Records(qtype, Tier(2)) # {}
  BY <1>2, <1>3, <1>7 DEF Preferred
<1> QED
  BY <1>4, <1>5, <1>6, <1>7

----------------------------------------------------------------------------
\* What is kept of the query served last is the answer it was given.
Recorded ==
  query = None
    \/ /\ query \in [name : Names, qtype : QTypes]
       /\ \/ answer = Serve(query.name, query.qtype)
          \/ answer = Error("SERVFAIL") /\ query.qtype # "other" /\ Zone(query.name) \in Zones

\* The answer on record is that of the query on record.
LEMMA RecordedInvariant == Spec => []Recorded
<1>1. Init => Recorded
  BY DEF Init, Recorded
<1>2. Recorded /\ [Next]_fvars => Recorded'
  <2> SUFFICES ASSUME Recorded, [Next]_fvars PROVE Recorded'
    OBVIOUS
  <2>1. ASSUME NEW l \in Names, NEW qtype \in QTypes, ServeDNS(l, qtype) PROVE Recorded'
    <3>1. Serve(l, qtype)' = Serve(l, qtype)
      BY <2>1 DEF ServeDNS, Serve, Lookup
    <3>2. query' \in [name : Names, qtype : QTypes] /\ query'.name = l /\ query'.qtype = qtype
      BY <2>1 DEF ServeDNS
    <3>3. answer' = Serve(query.name, query.qtype)'
      BY <2>1, <3>1, <3>2 DEF ServeDNS
    <3> QED
      BY <3>2, <3>3 DEF Recorded
  <2>2. ASSUME NEW l \in Names, NEW qtype \in QTypes, GetFails(l, qtype) PROVE Recorded'
    BY <2>2 DEF GetFails, Recorded
  <2>3. CASE UNCHANGED fvars
    BY <2>3 DEF fvars, Recorded, Serve, Lookup
  <2> QED
    BY <2>1, <2>2, <2>3 DEF Next
<1> QED
  BY <1>1, <1>2, PTL DEF Spec

\* Whatever the topology and the endpoints, the global name of a service is
\* answered with exactly the records of the nearest endpoints that have some.
THEOREM NearestAlways == Spec => []NearestAnswer
<1>1. Recorded => NearestAnswer
  <2> SUFFICES ASSUME Recorded, Answered, parseRequest(query.name).cluster = None
               PROVE  answer.records =
                        Records(query.qtype, Nearest(query.qtype, ServedService.eps))
    BY DEF NearestAnswer
  <2> DEFINE req == parseRequest(query.name)
  <2>1. answer.rcode \in {"NOERROR", "NXDOMAIN"} /\ answer.by = "fabdns"
    BY DEF Answered
  <2>2. answer = Serve(query.name, query.qtype)
    BY <2>1 DEF Recorded, Answered, Error
  <2>3. req # None /\ req.key \in Services /\ services[req.key] # None
    BY DEF Answered, ServedService
  <2>4. ~req.isAdHoc
    BY <2>3, FabDNSAssumption DEF parseRequest, Parsed, Answered, Recorded
  <2>5. Lookup(query.qtype, req) = Found(Preferred(query.qtype, ServedService.eps))
    BY <2>3, <2>4 DEF Lookup, getGlobalRecords, ServedService
  <2>6. answer = Written(Lookup(query.qtype, req))
    BY <2>1, <2>2, <2>3, <2>5 DEF Serve, nextOrFailure, NextPlugin, Written, Found, Error
  <2>7. answer.records = Preferred(query.qtype, ServedService.eps)
    BY <2>5, <2>6 DEF Written, Found
  <2> QED
    BY <2>7, PreferredIsNearest
<1> QED
  BY <1>1, RecordedInvariant, PTL

----------------------------------------------------------------------------
\* What parseRequest makes of the names that denote a pod or a cluster's service.
LEMMA ParsedForms ==
  ASSUME NEW l
  PROVE  /\ Len(l) = 6 => parseRequest(l) = Parsed(l[1], l[2], l[3], l[4], FALSE)
         /\ Len(l) = 5 => parseRequest(l) = Parsed(None, l[1], l[2], l[3], TRUE)
         /\ (Len(l) = 4 /\ l[3] # SVC) => parseRequest(l) = Parsed(None, l[3], l[1], l[2], TRUE)
<1>1. ASSUME Len(l) = 6 PROVE parseRequest(l) = Parsed(l[1], l[2], l[3], l[4], FALSE)
  BY <1>1 DEF parseRequest
<1>2. ASSUME Len(l) = 5 PROVE parseRequest(l) = Parsed(None, l[1], l[2], l[3], TRUE)
  BY <1>2 DEF parseRequest
<1>3. ASSUME Len(l) = 4, l[3] # SVC PROVE parseRequest(l) = Parsed(None, l[3], l[1], l[2], TRUE)
  BY <1>3 DEF parseRequest
<1> QED
  BY <1>1, <1>2, <1>3

\* The result of a lookup is a code and records of known addresses.
LEMMA LookupTyped ==
  ASSUME services \in [Services -> DNSServices \union {None}], NEW qtype, NEW req
  PROVE  Lookup(qtype, req) \in [rcode : {"NOERROR", "NXDOMAIN"}, records : SUBSET Addresses]
<1> DEFINE svc == services[req.key]
<1>1. NoItems \in [rcode : {"NOERROR", "NXDOMAIN"}, records : SUBSET Addresses]
  BY DEF NoItems
<1>2. ASSUME NEW recs \in SUBSET Addresses
      PROVE  Found(recs) \in [rcode : {"NOERROR", "NXDOMAIN"}, records : SUBSET Addresses]
  BY DEF Found
<1>3. ASSUME NEW eps \in SUBSET DNSEndpoints PROVE Records(qtype, eps) \in SUBSET Addresses
  <2>1. \A e \in eps : e.addrs \in SUBSET Addresses
    BY FabDNSAssumption
  <2> QED
    BY <2>1 DEF Records, generateRecords
<1>4. CASE req.key \in Services /\ svc # None
  <2>1. svc.eps \in SUBSET DNSEndpoints
    BY <1>4 DEF DNSServices
  <2>2. \A name : InCluster(svc.eps, name) \in SUBSET DNSEndpoints
    BY <2>1 DEF InCluster
  <2>3. getAdHocRecords(qtype, req, svc)
          \in [rcode : {"NOERROR", "NXDOMAIN"}, records : SUBSET Addresses]
    BY <1>2, <1>3, <2>2 DEF getAdHocRecords
  <2>4. Preferred(qtype, svc.eps) \in SUBSET Addresses
    <3>1. InZone(svc.eps) \in SUBSET DNSEndpoints /\ InRegion(svc.eps) \in SUBSET DNSEndpoints
      BY <2>1 DEF InZone, InRegion
    <3> QED
      BY <1>3, <2>1, <2>2, <3>1 DEF Preferred
  <2>5. Records(qtype, PodEndpoints(svc.eps, req)) \in SUBSET Addresses
    BY <1>3, <2>2 DEF PodEndpoints
  <2>6. getGlobalRecords(qtype, req, svc)
          \in [rcode : {"NOERROR", "NXDOMAIN"}, records : SUBSET Addresses]
    BY <1>1, <1>2, <2>4, <2>5 DEF getGlobalRecords
  <2> QED
    BY <1>1, <1>4, <2>3, <2>6 DEF Lookup
<1>5. CASE ~(req.key \in Services /\ svc # None)
  BY <1>1, <1>5 DEF Lookup
<1> QED
  BY <1>4, <1>5

\* What ServeDNS may answer, and who writes it.
LEMMA ServeForms ==
  ASSUME services \in [Services -> DNSServices \union {None}], NEW l \in Names, NEW qtype
  PROVE  \/ Serve(l, qtype) = NextPlugin
         \/ /\ Serve(l, qtype) = Error("NXDOMAIN")
            /\ Zone(l) \in Zones /\ parseRequest(l) = None
         \/ /\ Serve(l, qtype) \in [rcode : {"NOERROR", "NXDOMAIN", "NOTZONE"},
                                    records : SUBSET Addresses, by : {"fabdns"}]
         \/ qtype = "other" /\ Serve(l, qtype) = Written([rcode |-> "NOTIMP", records |-> {}])
<1> DEFINE req == parseRequest(l)
<1> DEFINE res == Lookup(qtype, req)
<1>1. res \in [rcode : {"NOERROR", "NXDOMAIN"}, records : SUBSET Addresses]
  BY LookupTyped
<1>2. CASE Zone(l) \notin Zones
  BY <1>2 DEF Serve, nextOrFailure, Written
<1>3. CASE Zone(l) \in Zones /\ qtype = "other"
  BY <1>3 DEF Serve, nextOrFailure
<1>4. CASE Zone(l) \in Zones /\ qtype # "other" /\ req = None
  BY <1>4 DEF Serve
<1>5. CASE Zone(l) \in Zones /\ qtype # "other" /\ req # None
  <2>1. Serve(l, qtype) = IF res.rcode = "NOERROR" THEN Written(res) ELSE nextOrFailure(l, res.rcode)
    BY <1>5 DEF Serve
  <2>2. Written(res) \in [rcode : {"NOERROR", "NXDOMAIN", "NOTZONE"},
                          records : SUBSET Addresses, by : {"fabdns"}]
    BY <1>1 DEF Written
  <2>3. nextOrFailure(l, res.rcode) = NextPlugin
          \/ nextOrFailure(l, res.rcode) \in [rcode : {"NOERROR", "NXDOMAIN", "NOTZONE"},
                                              records : SUBSET Addresses, by : {"fabdns"}]
    BY <1>1 DEF nextOrFailure, Written
  <2> QED
    BY <2>1, <2>2, <2>3
<1> QED
  BY <1>2, <1>3, <1>4, <1>5

\* The services are typed, and the answer on record is one of its forms.
LEMMA ServicesTyped == Spec => [](services \in [Services -> DNSServices \union {None}])
<1>1. Init => services \in [Services -> DNSServices \union {None}]
  BY DEF Init
<1>2. services \in [Services -> DNSServices \union {None}] /\ [Next]_fvars
        => (services \in [Services -> DNSServices \union {None}])'
  BY DEF Next, ServeDNS, GetFails, fvars
<1> QED
  BY <1>1, <1>2, PTL DEF Spec

\* The plugin's answers are well typed: an address that is no IP yields none.
THEOREM FabDNSTypeCorrect == Spec => []FabDNSTypeOK
<1>1. Init => FabDNSTypeOK
  BY DEF Init, FabDNSTypeOK
<1>2. FabDNSTypeOK /\ [Next]_fvars => FabDNSTypeOK'
  <2> SUFFICES ASSUME FabDNSTypeOK, [Next]_fvars PROVE FabDNSTypeOK'
    OBVIOUS
  <2> DEFINE Answers == [rcode : {"NOERROR", "NXDOMAIN", "NOTZONE", "NOTIMP", "SERVFAIL", "next"},
                         records : SUBSET Addresses, by : {"fabdns", "next", "nobody"}]
  <2>1. ASSUME NEW l \in Names, NEW qtype \in QTypes, ServeDNS(l, qtype) PROVE FabDNSTypeOK'
    <3>1. Serve(l, qtype) \in Answers
      BY ServeForms DEF FabDNSTypeOK, NextPlugin, Error, Written
    <3> QED
      BY <2>1, <3>1 DEF FabDNSTypeOK, ServeDNS
  <2>2. ASSUME NEW l \in Names, NEW qtype \in QTypes, GetFails(l, qtype) PROVE FabDNSTypeOK'
    <3>1. Error("SERVFAIL") \in Answers
      BY DEF Error
    <3> QED
      BY <2>2, <3>1 DEF FabDNSTypeOK, GetFails
  <2>3. CASE UNCHANGED fvars
    BY <2>3 DEF FabDNSTypeOK, fvars
  <2> QED
    BY <2>1, <2>2, <2>3 DEF Next
<1> QED
  BY <1>1, <1>2, PTL DEF Spec

\* A query of a supported type for a well-formed name gets exactly one reply,
\* whatever the configuration, the services and the failures.
THEOREM AlwaysRepliedOnce == Spec => []RepliedOnce
<1>1. Recorded /\ services \in [Services -> DNSServices \union {None}] => RepliedOnce
  <2> SUFFICES ASSUME Recorded, services \in [Services -> DNSServices \union {None}],
                      query # None, query.qtype # "other", parseRequest(query.name) # None
               PROVE  Replies(answer) = 1
    BY DEF RepliedOnce
  <2>1. query.name \in Names
    BY DEF Recorded
  <2>2. CASE answer = Error("SERVFAIL")
    BY <2>2 DEF Error, Replies, ServerReplies
  <2>3. CASE answer = NextPlugin
    BY <2>3 DEF NextPlugin, Replies, ServerReplies
  <2>4. CASE answer \in [rcode : {"NOERROR", "NXDOMAIN", "NOTZONE"},
                         records : SUBSET Addresses, by : {"fabdns"}]
    BY <2>4 DEF Replies, ServerReplies
  <2> QED
    BY <2>1, <2>2, <2>3, <2>4, ServeForms DEF Recorded
<1> QED
  BY <1>1, RecordedInvariant, ServicesTyped, PTL

\* A pod name is answered from that pod of that cluster alone.
THEOREM PodNameAlwaysDenotesPod == Spec => []PodNameDenotesPod
<1>1. Recorded => PodNameDenotesPod
  <2> DEFINE req == parseRequest(query.name)
  <2> DEFINE own == {e \in ServedService.eps : e.cluster = req.cluster /\ e.hostname = req.hostname}
  <2> SUFFICES ASSUME Recorded, Answered, Len(query.name) = 6
               PROVE  /\ answer.rcode = "NOERROR" <=> (ServedService.type = "Headless" /\ own # {})
                      /\ answer.rcode = "NOERROR" => answer.records = Records(query.qtype, own)
    BY DEF PodNameDenotesPod
  <2>1. answer.rcode \in {"NOERROR", "NXDOMAIN"} /\ answer.by = "fabdns"
    BY DEF Answered
  <2>2. answer = Serve(query.name, query.qtype) /\ query.name \in Names
    BY <2>1 DEF Recorded, Answered, Error
  <2>3. req # None /\ req.key \in Services /\ services[req.key] # None
    BY DEF Answered, ServedService
  <2>4. query.name \in Seq(Labels)
    BY <2>2, FabDNSAssumption
  <2>5. ~req.isAdHoc /\ req.cluster # None
    <3>1. req = Parsed(query.name[1], query.name[2], query.name[3], query.name[4], FALSE)
      BY <2>4, ParsedForms
    <3>2. query.name[2] \in Labels
      BY <2>4
    <3> QED
      BY <3>1, <3>2, FabDNSAssumption DEF Parsed
  <2>6. Lookup(query.qtype, req) = getGlobalRecords(query.qtype, req, ServedService)
    BY <2>3, <2>5 DEF Lookup, ServedService
  <2>7. PodEndpoints(ServedService.eps, req) = own
    BY DEF PodEndpoints, InCluster
  <2>8. getGlobalRecords(query.qtype, req, ServedService) =
          IF ServedService.type = "Headless" /\ own # {}
          THEN Found(Records(query.qtype, own)) ELSE NoItems
    BY <2>5, <2>7 DEF getGlobalRecords
  <2>9. /\ answer.rcode = Lookup(query.qtype, req).rcode
        /\ answer.rcode = "NOERROR" => answer.records = Lookup(query.qtype, req).records
    <3>1. Zone(query.name) \in Zones /\ query.qtype # "other"
      BY <2>1, <2>2 DEF Serve, nextOrFailure, NextPlugin, Written
    <3>2. answer = IF Lookup(query.qtype, req).rcode = "NOERROR"
                   THEN Written(Lookup(query.qtype, req))
                   ELSE nextOrFailure(query.name, Lookup(query.qtype, req).rcode)
      BY <2>2, <2>3, <3>1 DEF Serve
    <3> QED
      BY <2>1, <3>2 DEF Written, nextOrFailure, NextPlugin
  <2> QED
    BY <2>6, <2>8, <2>9 DEF Found, NoItems
<1> QED
  BY <1>1, RecordedInvariant, PTL

\* The two spellings of a cluster's service are answered alike.
THEOREM SpellingsAlwaysAgree == Spec => []SpellingsAgree
<1>1. SpellingsAgree
  <2> SUFFICES ASSUME NEW key \in Services, NEW c \in Labels \ {SVC}, NEW z \in Zones,
                      NEW qtype \in QTypes
               PROVE  Serve(<<key[1], key[2], c, z>>, qtype)
                        = Serve(<<c, key[1], key[2], SVC, z>>, qtype)
    BY DEF SpellingsAgree
  <2> DEFINE old == <<key[1], key[2], c, z>>
  <2> DEFINE new == <<c, key[1], key[2], SVC, z>>
  <2>1. c # SVC
    OBVIOUS
  <2>2. /\ Len(old) = 4 /\ old[1] = key[1] /\ old[2] = key[2]
        /\ old[3] = c /\ old[4] = z
        /\ Len(new) = 5 /\ new[1] = c /\ new[2] = key[1]
        /\ new[3] = key[2] /\ new[5] = z
    OBVIOUS
  <2>3. parseRequest(old) = parseRequest(new)
    BY <2>1, <2>2, ParsedForms
  <2>4. Zone(old) = Zone(new)
    BY <2>2 DEF Zone
  <2>5. \A rcode : nextOrFailure(old, rcode) = nextOrFailure(new, rcode)
    BY <2>4 DEF nextOrFailure
  <2> HIDE DEF old, new
  <2>6. Serve(old, qtype) = Serve(new, qtype)
    BY <2>3, <2>4, <2>5 DEF Serve
  <2> QED
    BY <2>6 DEF old, new
<1> QED
  BY <1>1, PTL

=============================================================================
