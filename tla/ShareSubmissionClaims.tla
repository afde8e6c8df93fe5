------------------------ MODULE ShareSubmissionClaims -------------------------
(***************************************************************************)
(* What the documents say of block submission and the program does not do. *)
(***************************************************************************)
EXTENDS ShareSubmission

(***************************************************************************)
(* docs/architecture/data-flow.md:57: "Result logged: Submitted / Rejected *)
(* / LocalError": a block the daemon refuses is logged as Rejected.  But   *)
(* the refusal arrives as the text of a PoolError, behind its own prefix,  *)
(* and strip_prefix("submitblock rejected: ") never matches.               *)
(***************************************************************************)
RefusalsAreLoggedAsRejected ==
    \A s \in Session : outcome[s].daemon = "refused" /\ outcome[s].told => outcome[s].logged = "Rejected"
=============================================================================
