------------------------- MODULE MCServiceExporter -------------------------
(***************************************************************************)
(* Instances of ServiceExporter for TLC.                                   *)
(***************************************************************************)
EXTENDS ServiceExporter

CONSTANTS k1, k2, e1, e2, f1

Svc(g, t, p, es) == [global |-> g, type |-> t, ports |-> p, eps |-> es]

\* A headless service with two pods, one pod, no pod, no ports; one that is not
\* global; one that is exposed by node ports.
MCServices ==
  {Svc(TRUE, "ClusterIP", TRUE, {e1, e2}), Svc(TRUE, "ClusterIP", TRUE, {e2}),
   Svc(TRUE, "ClusterIP", TRUE, {}), Svc(TRUE, "ClusterIP", FALSE, {e1}),
   Svc(FALSE, "ClusterIP", TRUE, {e1}), Svc(TRUE, "NodePort", TRUE, {e1})}

\* A headless service scaled up and down.
MCHeadless == {Svc(TRUE, "ClusterIP", TRUE, {e1}), Svc(TRUE, "ClusterIP", TRUE, {})}
=============================================================================
