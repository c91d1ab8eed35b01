--------------------------- MODULE MCPortalAccess ---------------------------
(***************************************************************************)
(* Small instance of PortalAccess: two tabs, a customer and an admin.      *)
(***************************************************************************)
EXTENDS PortalAccess

CONSTANTS t1, t2, ann, adm
=============================================================================
