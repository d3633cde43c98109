------------------------------ MODULE MCResult ------------------------------
(* A bounded instance of Result for TLC. *)
EXTENDS Result

MCObjects == {"a", "b", "c"}
MCValues == {"v", "w"}
MCErrors == {"e", "f"}

=============================================================================
