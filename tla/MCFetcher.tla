------------------------------ MODULE MCFetcher ------------------------------
(* Small instances of Fetcher for TLC. *)
EXTENDS Fetcher

CONSTANTS a, b  \* two domains

(* A certificate for each of them. *)
OneEach == <<a, b>>

(* Two certificates for a, of which one is listed under b's name. *)
TwoForOne == <<a, a, b>>
NameTaken == <<a, b, b>>
=============================================================================
