----------------------------- MODULE MCSshPool -----------------------------
(* Small instances of SshPool for TLC.                                     *)
EXTENDS SshPool

\* Three panes and two scans.
CONSTANTS p1, p2, s1, s2
=============================================================================
