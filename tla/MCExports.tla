----------------------------- MODULE MCExports -----------------------------
(* Scans of some hosts, and of more than the buffer holds.                 *)
EXTENDS Exports

CONSTANTS h1, h2, h3

MCScans == {<<h1>>, <<h2, h3>>, <<h2, h3, h1>>}
=============================================================================
