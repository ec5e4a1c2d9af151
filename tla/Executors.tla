----------------------------- MODULE Executors -----------------------------
(***************************************************************************)
(* The executor registry (services/executor_registry.py): what each        *)
(* executor asks of a node's config, and what a run of it can end with.    *)
(*                                                                         *)
(* A config is what validate_config looks at: the fields it has, the kind  *)
(* of its URL and of its expression, and its duration (0 for one that is   *)
(* not a number).                                                          *)
(***************************************************************************)
EXTENDS Integers

(* _default_registry.                                                      *)
Registered == {"http", "delay", "condition", "transform", "webhook", "notification"}

MaxDuration == 3600

Config ==
  [fields     : SUBSET {"url", "duration_seconds", "expression", "true_path", "false_path",
                        "mapping_rules", "target_url", "message"},
   url        : {"http", "other"},
   expression : {"comparison", "unsupported", "unsafe", "not a string"},
   duration   : Int]

(* Mutant: the webhook asks for the field of the http executor.            *)
RequiredCopied(type) ==
  CASE type \in {"http", "webhook"} -> {"url"}
    [] type = "delay"        -> {"duration_seconds"}
    [] type = "condition"    -> {"expression", "true_path", "false_path"}
    [] type = "transform"    -> {"mapping_rules"}
    [] type = "notification" -> {"message"}

(* The fields validate_config asks for.                                    *)
Required(type) ==
  CASE type = "http"         -> {"url"}
    [] type = "delay"        -> {"duration_seconds"}
    [] type = "condition"    -> {"expression", "true_path", "false_path"}
    [] type = "transform"    -> {"mapping_rules"}
    [] type = "webhook"      -> {"target_url"}
    [] type = "notification" -> {"message"}

(* The fields execute takes with config[...], which raises without them.   *)
LookedUp(type) ==
  CASE type = "http"      -> {"url"}
    [] type = "delay"     -> {"duration_seconds"}
    [] type = "condition" -> {"expression"}
    [] type = "webhook"   -> {"target_url"}
    [] OTHER              -> {}

(* validate_config does not raise.                                         *)
ValidConfig(type, c) ==
  /\ Required(type) \subseteq c.fields
  /\ type \in {"http", "webhook"} => c.url = "http"
  /\ type = "delay" => c.duration > 0 /\ c.duration <= MaxDuration
  /\ type = "condition" => c.expression \in {"comparison", "unsupported"}

(* How a run can end: is the result a success, and has the remote side     *)
(* done what it was asked?                                                 *)
Outcome == [success : BOOLEAN, remote : BOOLEAN]

Success == [success |-> TRUE, remote |-> FALSE]
Failure == [success |-> FALSE, remote |-> FALSE]

(* A request: it is not sent because its address is blocked or does not    *)
(* resolve; it fails with httpx.HTTPError, a timeout say, before or after  *)
(* the remote side has done its work; it is answered with 400 or more; or  *)
(* it is answered with less, which is a success, although a redirect, that *)
(* httpx does not follow, says that nothing was done.                      *)
RequestOutcomes == {Failure, [success |-> FALSE, remote |-> TRUE],
                    [success |-> TRUE, remote |-> TRUE], Success}

(* A condition that is no comparison, or compares different types, fails,  *)
(* and so does a transform whose mapping_rules are no dict.                *)
Outcomes(type) ==
  CASE type \in {"http", "webhook"}       -> RequestOutcomes
    [] type \in {"delay", "notification"} -> {Success}
    [] type \in {"condition", "transform"} -> {Success, Failure}

=============================================================================
