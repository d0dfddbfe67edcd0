------------------------- MODULE MCRedisCacheService -------------------------
(***************************************************************************)
(* An instance of RedisCacheService for TLC.                               *)
(***************************************************************************)
EXTENDS RedisCacheService

CONSTANTS k1, r1
=============================================================================
