--------------------------- MODULE MCDiagnoseLoop ---------------------------
(* Small instances of DiagnoseLoop for TLC.                                *)
EXTENDS DiagnoseLoop

(* A skill either enters the scope of one tool or an empty scope. *)
MCFilters == {{}, {"query"}}
=============================================================================
