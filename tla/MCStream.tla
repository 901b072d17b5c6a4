------------------------------ MODULE MCStream ------------------------------
(* A reader, a writer and a control task; two engines alternate in the      *)
(* place of tls_stream_.                                                    *)
EXTENDS Stream, TLC
=============================================================================
