--------------------------- MODULE MCRosDiscovery ---------------------------
(***************************************************************************)
(* Instances of RosDiscovery for TLC.                                      *)
(***************************************************************************)
EXTENDS MCFwdDiscovery, RosDiscovery

CONSTANTS n, m

\* The node n of plugin X, the node m of plugin Y.
MCNodeOf == [x \in Remote |-> IF x \in {xw, xr} THEN n ELSE m]
=============================================================================
