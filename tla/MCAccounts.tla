----------------------------- MODULE MCAccounts -----------------------------
(***************************************************************************)
(* Accounts on a small instance: websockets are interchangeable.           *)
(***************************************************************************)
EXTENDS Accounts

Interchangeable == Permutations(Websockets)
=============================================================================
