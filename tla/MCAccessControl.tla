-------------------------- MODULE MCAccessControl --------------------------
(* Three accounts, and signer lists of two that replace one another.        *)
EXTENDS AccessControl

CONSTANTS a, b, c

MCAddresses == {a, b, c}
MCSignerLists == {<<a, b>>, <<b, c>>}
=============================================================================
