---------------------------- MODULE MC_Wallet ------------------------------
(* Instantiation of Wallet for TLC: three confirmed primary coins, each   *)
(* of which alone pays a small send with its fee (8 for one input and two  *)
(* outputs), two token coins that together cover a token send, three      *)
(* slates (enough for two concurrent sends and a receive, or a send, a    *)
(* token send and an issue), one of which asks for a payment proof.        *)
EXTENDS Wallet

CONSTANTS s1, s2, s3, tok

MCInitialCoins == (1 :> 10) @@ (2 :> 12) @@ (3 :> 20)
MCInitialTokenCoins == (4 :> 3) @@ (5 :> 5)
MCSlates == {s1, s2, s3}
MCProofSlates == {s1}
=============================================================================
