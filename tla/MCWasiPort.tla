----------------------------- MODULE MCWasiPort -----------------------------
(***************************************************************************)
(* Instance of WasiPort: buffers smaller than, as large as and larger than *)
(* a reply.                                                                *)
(***************************************************************************)
EXTENDS WasiPort

MCLengths == {1, 2, MaxBytes + 1}
=============================================================================
