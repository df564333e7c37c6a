-------------------------- MODULE MCPortLifecycle --------------------------
(***************************************************************************)
(* Model-checking instance of PortLifecycle: the inductive invariant of the *)
(* proofs, and a statement the source makes that its code does not keep.    *)
(***************************************************************************)
EXTENDS PortLifecycleInv

\* "This function cleans up interface-related data structure within NAS-QoS"
\* (nas_qos_if_delete_notify): once all events are handled, no node is left of an
\* interface that does not exist.
NoGhostNodes ==
    Quiescent => \A p \in Ports : intf[p] = Absent =>
        \A node \in {queue, group, upper, pg, ingress, egress} : node[p] = Absent
=============================================================================
