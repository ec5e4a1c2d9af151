--------------------------- MODULE MCAuthSession ----------------------------
(* Two tabs, or two calls of one page, for the model checker.              *)
EXTENDS AuthSession
CONSTANTS t1, t2
=============================================================================
