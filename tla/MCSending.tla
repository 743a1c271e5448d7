------------------------------ MODULE MCSending ------------------------------
(* Answers for TLC.                                                        *)
EXTENDS Sending

\* Answers shorter and longer than a call and than the send buffer.
AnySize == 1..9
=============================================================================
