---------------------------- MODULE MCBankAccounts --------------------------
(* Two currencies and two managers are interchangeable.                    *)
EXTENDS BankAccounts, TLC

Interchangeable == Permutations(Currencies) \union Permutations(Managers)
=============================================================================
