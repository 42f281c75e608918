--------------------------- MODULE MCMatrixRunner ---------------------------
(* Small instances of MatrixRunner for TLC. *)
EXTENDS MatrixRunner

AllModes == {"new", "resume", "overwrite"}
SecondOrBoth == {{2}, {1, 2}}
=============================================================================
