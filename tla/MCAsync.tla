------------------------------ MODULE MCAsync ------------------------------
(* Combinators on one VM, with a cap that their nesting can exhaust. *)
EXTENDS AsyncDrive
=============================================================================
