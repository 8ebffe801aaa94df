---------------------------- MODULE MCScanDecode ----------------------------
(***************************************************************************)
(* For the model checker: scans with two steps more than were asked for,   *)
(* with one step more when a step may have several echoes.                 *)
(***************************************************************************)
EXTENDS ScanDecode

MCInit == Init /\ (is_multiecho => Len(scan) <= Window + 1)

MCSpec == MCInit /\ [][Next]_vars
=============================================================================
