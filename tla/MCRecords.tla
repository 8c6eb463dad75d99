----------------------------- MODULE MCRecords ------------------------------
(* Model checking Records: the .cfg file gives the constants values.       *)
EXTENDS Records
=============================================================================
