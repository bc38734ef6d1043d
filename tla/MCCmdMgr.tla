------------------------------ MODULE MCCmdMgr ------------------------------
(* CmdMgr for TLC *)
EXTENDS CmdMgr, TLC

Sym == Permutations(Callers) \cup Permutations(ReqIds)
=============================================================================
