---------------------------- MODULE MC_RpcTrust ----------------------------
(* Two threads, one untrusted method ("execute"), one ordinary method and  *)
(* one that is never inserted, requests of up to two methods.             *)
EXTENDS RpcTrust, TLC

CONSTANTS th1, th2, execute, view, missing

MCThreads == {th1, th2}
MCCommands == {execute, view, missing}
MCUntrusted == {execute}
MCSymmetry == Permutations(MCThreads)
=============================================================================
