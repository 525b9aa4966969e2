---------------------------- MODULE MCServiceHub ----------------------------
(***************************************************************************)
(* Instances of ServiceHub for TLC.                                        *)
(***************************************************************************)
EXTENDS ServiceHub, TLC

CONSTANTS m1, m2, k1, k2, a1, d1, d2, ns1, h1, h2

\* A service with an endpoint and a headless one scaled to zero.
MCExports == {[def |-> d1, addrs |-> {a1}], [def |-> d1, addrs |-> {}]}

\* ... and one without ports, which the API server refuses as well.
MCAllExports == MCExports \union {[def |-> d2, addrs |-> {a1}]}

\* The service with an endpoint alone.
MCOneExport == {[def |-> d1, addrs |-> {a1}]}

\* The goroutines of the HTTP server are interchangeable.
HandlerSymmetry == Permutations(Handlers)

MCNamespaceOf == [k \in Keys |-> ns1]
=============================================================================
