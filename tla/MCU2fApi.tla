------------------------------ MODULE MCU2fApi ------------------------------
(* Small instances of U2fApi.                                              *)
EXTENDS U2fApi
=============================================================================
