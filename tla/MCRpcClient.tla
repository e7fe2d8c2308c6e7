---------------------------- MODULE MCRpcClient -----------------------------
(* RpcClient with two threads.                                             *)
EXTENDS RpcClient
CONSTANTS t1, t2
MCThreads == {t1, t2}
=============================================================================
