---------------------------- MODULE MCLinkEngine ----------------------------
(* Instances of LinkEngine for TLC.                                        *)
EXTENDS LinkEngine
=============================================================================
