---------------------------- MODULE MCApiRequest ----------------------------
(* One connection of one client, a limit of two requests in two ticks.     *)
EXTENDS ApiRequest
CONSTANT r1
=============================================================================
