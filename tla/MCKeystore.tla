----------------------------- MODULE MCKeystore -----------------------------
(* Small instances of Keystore for TLC. *)
EXTENDS Keystore, TLC

(* One record that the daemon renews and one that a soft delete left. *)
MCRecords == { NewCertAndKey(AnyDomain, NoSans),
               [NewCertAndKey(AnyDomain, NoSans) EXCEPT !.managed = FALSE] }

=============================================================================
