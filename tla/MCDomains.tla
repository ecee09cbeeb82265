----------------------------- MODULE MCDomains ------------------------------
(***************************************************************************)
(* A small table of protection domains for TLC.                            *)
(***************************************************************************)
EXTENDS ProtectionDomains

MCRights == {{"write"}, {"read", "global"}}
=============================================================================
