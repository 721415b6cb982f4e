------------------------------ MODULE MCProgram ------------------------------
(* A small Program: two services, one of which the configuration disables.  *)
EXTENDS Program

MCOrder == <<"dns", "http">>
=============================================================================
