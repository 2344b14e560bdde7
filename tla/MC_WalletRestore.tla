------------------------- MODULE MC_WalletRestore ---------------------------
(* The instance of MC_Wallet, with a scan that deletes output records.    *)
EXTENDS MC_Wallet, WalletRestore
=============================================================================
