------------------------------ MODULE NoneValue ------------------------------
(* Python's None: one value for the components that are checked together.  *)
CONSTANT None
=============================================================================
