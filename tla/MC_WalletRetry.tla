-------------------------- MODULE MC_WalletRetry ----------------------------
(* The instance of MC_Wallet, with the retrying caller.                    *)
EXTENDS MC_Wallet, WalletRetry
=============================================================================
