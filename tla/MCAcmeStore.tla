----------------------------- MODULE MCAcmeStore -----------------------------
(* Small instances of AcmeStore for TLC. *)
EXTENDS AcmeStore

=============================================================================
