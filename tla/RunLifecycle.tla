---------------------------- MODULE RunLifecycle ----------------------------
(***************************************************************************)
(* The lifecycle of one verification run: the state a VerificationRun is   *)
(* in and the transitions domain/runs.py allows it.  ClaimRun says what    *)
(* the scheduler does between two transitions.                             *)
(***************************************************************************)

RunState == {"new", "hypothesis_ready", "retrieving", "evidence_ready",
             "verifying", "verified", "output", "stopped"}

(* Mutant: a verified run may not go on to its next source. *)
AllowedWithoutNextSource ==
  [s \in RunState |->
     CASE s = "new"              -> {"hypothesis_ready"}
       [] s = "hypothesis_ready" -> {"retrieving", "stopped"}
       [] s = "retrieving"       -> {"evidence_ready", "hypothesis_ready", "stopped"}
       [] s = "evidence_ready"   -> {"verifying"}
       [] s = "verifying"        -> {"verified"}
       [] s = "verified"         -> {"hypothesis_ready", "output", "stopped"}
       [] OTHER                  -> {}]

(* _ALLOWED_TRANSITIONS *)
Allowed ==
  [s \in RunState |->
     CASE s = "new"              -> {"hypothesis_ready"}
       [] s = "hypothesis_ready" -> {"retrieving", "stopped"}
       [] s = "retrieving"       -> {"evidence_ready", "hypothesis_ready", "stopped"}
       [] s = "evidence_ready"   -> {"verifying"}
       [] s = "verifying"        -> {"verified"}
       [] s = "verified"         -> {"retrieving", "hypothesis_ready", "output", "stopped"}
       [] OTHER                  -> {}]

(* A run that reached one of these never moves again. *)
Terminal == {s \in RunState : Allowed[s] = {}}
=============================================================================
