------------------------------ MODULE MCScripts ------------------------------
(***************************************************************************)
(* Two of the Python scripts that validate.sh and its smoke test run: the  *)
(* spans of check_real_bundle.py, and the helper scripts.  Each is a       *)
(* process of its own that reads nothing the other leaves, so one of them  *)
(* is run, and the variables of the other stay as they are.                *)
(*                                                                         *)
(* Spans: nine validators in epochs of three slots, with equal balances    *)
(* and with the script's mixed ones, whose sum no epoch divides evenly.    *)
(* Helpers: the weight of a slot is a hundred, of which a voter has 32,    *)
(* and another 10, which leaves a parent weak.                             *)
(***************************************************************************)
EXTENDS EstimateSpans, HelperObservations

VARIABLE script

script_vars == <<script, span_vars, helper_vars>>

MCEqual == [i \in ValidatorIndex |-> 32000]
MCMixed == [i \in ValidatorIndex |-> 32000 + 1000 * (i % 4)]
MCBalances == {MCEqual, MCMixed}

MCRegistry ==
  [i \in ValidatorIndex |->
     [effective_balance |-> CASE i = 0 -> 32 [] i = 1 -> 10 [] i = 2 -> 36 [] OTHER -> 37,
      slashed |-> FALSE, activation_epoch |-> 0, exit_epoch |-> 1000]]

MCDefaultBlock == fixture_block(0, 0, 0, 0, 0)
MCStates == {fixture_state(slot) : slot \in 0..2}

(* Nothing is processed. *)
MCTransition(state, signed_block) == state
MCProcessSlots(state, slot) == state
MCPullUp(state) == state
MCIsValid(state, attestation) == TRUE
MCIsValidPtc(message) == TRUE
MCCommittee(slot) == ValidatorIndex
MCPtc(slot) == <<>>

-----------------------------------------------------------------------------
Init ==
  /\ script \in {"spans", "helpers"}
  /\ SpansInit
  /\ script # "spans" => balances = MCEqual
  /\ HelpersInit

RunSpans == script = "spans" /\ SpansNext /\ UNCHANGED <<script, helper_vars>>
RunHelpers == script = "helpers" /\ HelpersNext /\ UNCHANGED <<script, span_vars>>

Next == RunSpans \/ RunHelpers

Spec == Init /\ [][Next]_script_vars
=============================================================================
