----------------------------- MODULE DemoRefresh -----------------------------
(***************************************************************************)
(* What one refresh of Today Market comes to: the planner, the mock         *)
(* acquisition port, the validation of its batch and the projection that    *)
(* may be published from it.  All of it is a function of the session the    *)
(* prior snapshot reaches, the cutoff asked for and the installed scenario. *)
(*                                                                         *)
(* Sessions are numbered days.  The planner knows no trading calendar: it   *)
(* expects every weekday to be a completed session.  A batch is what the    *)
(* port returned per capability family; payloads, item counts and           *)
(* fingerprints are left out.  The port is built anew for each refresh, so  *)
(* its usage counters start from zero and its limits never refuse.          *)
(***************************************************************************)
EXTENDS Naturals, FiniteSets, FiniteSetsExt

CONSTANTS
    Weekdays,      \* the days the planner expects to be completed sessions
    Ceiling,       \* AUTOMATIC_SESSION_CEILING, 10 in the code
    Capabilities,  \* REQUIRED_CAPABILITY_FAMILIES
    Lacking,       \* the family the partial fixture leaves out
    Malformed,     \* the family the mismatching fixture spoils
    LastFamily     \* the last family, whose coverage the mock cuts short

ASSUME SessionAssumption == Weekdays \subseteq Nat /\ Ceiling \in Nat
ASSUME FamilyAssumption  == {Lacking, Malformed, LastFamily} \subseteq Capabilities

Scenarios == {"stale_success", "quota_assumption_exhausted",
              "partial_family_failure", "schema_mismatch",
              "coverage_incomplete", "synthetic_correction_revision"}

NoBatch == [asked |-> {}, valid |-> {}, covered |-> [f \in {} |-> {}]]

-----------------------------------------------------------------------------
(* Planning                                                                *)

(* The sessions expected to be complete: the prior's own and each weekday   *)
(* after it, up to the cutoff.                                              *)
ExpectedCompleted(prior, cutoff) ==
    {prior} \cup {d \in Weekdays : prior < d /\ d <= cutoff}

MissingSessions(sessions, prior) == {d \in sessions : d > prior}

TooManyAtCeiling(missing) == Cardinality(missing) >= Ceiling

TooMany(missing) == Cardinality(missing) > Ceiling

-----------------------------------------------------------------------------
(* The mock port                                                           *)

Served(scenario) ==
    IF scenario = "partial_family_failure" THEN Capabilities \ {Lacking}
    ELSE Capabilities

CoveredBy(f, asked, scenario) ==
    IF scenario = "coverage_incomplete" /\ f = LastFamily
    THEN asked \ {Max(asked)} ELSE asked

(* A batch says which sessions were asked for, which of the families it     *)
(* serves have the schema of the contract, and which sessions each covers.  *)
Batch(asked, scenario) ==
    LET served == Served(scenario)
    IN  [asked   |-> asked,
         valid   |-> IF scenario = "schema_mismatch"
                     THEN served \ {Malformed} ELSE served,
         covered |-> [f \in served |-> CoveredBy(f, asked, scenario)]]

-----------------------------------------------------------------------------
(* Validation and projection                                               *)

Incomplete(batch) ==
    \/ DOMAIN batch.covered # Capabilities
    \/ \E f \in DOMAIN batch.covered : batch.covered[f] # batch.asked

(* Only a batch in which every required family is valid and covers every    *)
(* session asked for becomes a demo.                                        *)
Publishable(batch) ==
    /\ batch.valid = DOMAIN batch.covered
    /\ ~Incomplete(batch)

(* run_mock_refresh for a prior snapshot: the phase it ends in, and the     *)
(* batch behind the demo it publishes.                                      *)
Refresh(prior, cutoff, scenario) ==
    LET missing == MissingSessions(ExpectedCompleted(prior, cutoff), prior)
        batch   == Batch(missing, scenario)
        Ends(phase) == [phase |-> phase, demo |-> NoBatch]
    IN  CASE missing = {} -> Ends("no_refresh_needed")
          [] missing # {} /\ TooMany(missing) -> Ends("manual_catchup_required")
          [] missing # {} /\ ~TooMany(missing)
             /\ (scenario = "quota_assumption_exhausted" \/ ~Publishable(batch))
             -> Ends("failed_retained_prior")
          [] OTHER -> [phase |-> "demo_published", demo |-> batch]
=============================================================================
