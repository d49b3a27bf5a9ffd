--------------------------- MODULE MCForensicRun ---------------------------
(* ForensicRun with three module extractors, two of them at a time.        *)
EXTENDS ForensicRun

CONSTANTS m1, m2, m3

MCOrder == <<m1, m2, m3>>
=============================================================================
