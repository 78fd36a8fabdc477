------------------------------ MODULE MCArchive ------------------------------
(* Instances of Archive for TLC. *)
EXTENDS ArchiveProps

CONSTANTS r1, r2, t1, t2

\* Two requests with tenders in opposite orders, and a malformed row.
MCManifest ==
  [r \in Requests |-> IF r = r1 THEN <<t1, Malformed, t2>> ELSE <<t2, t1>>]
=============================================================================
