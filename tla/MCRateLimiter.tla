---------------------------- MODULE MCRateLimiter ----------------------------
(* Instances of the rate limiter for TLC: the constants' values are in the *)
(* configuration.  Liveness is among its properties, so no symmetry.       *)
EXTENDS RateLimiter
=============================================================================
