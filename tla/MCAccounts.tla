----------------------------- MODULE MCAccounts -----------------------------
(* A small instance of Accounts for TLC.                                   *)
EXTENDS Accounts

CONSTANTS ann, r1, r2
=============================================================================
