---------------------------- MODULE MCDiskReader ----------------------------
(* Instances of DiskReader for TLC.                                        *)
EXTENDS DiskReader

\* One ring that two calls use in turn, with two requests each and
\* cancellation; and two rings with a third call that waits for one.
MCConfigs ==
  { [capacity |-> 1, calls |-> 2, requests |-> 2, cancel |-> TRUE],
    [capacity |-> 2, calls |-> 3, requests |-> 1, cancel |-> FALSE] }

\* The instance in which a waiter meets disableRings.
MCFallback == {c \in MCConfigs : c.capacity = 2}
=============================================================================
