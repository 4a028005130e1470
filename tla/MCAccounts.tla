----------------------------- MODULE MCAccounts -----------------------------
(* Accounts with few users; requests are interchangeable, and so are the users
   other than the default admin. *)
EXTENDS Accounts, TLC

Interchangeable == Permutations(Requests) \cup Permutations(Users \ {Admin})
=============================================================================
