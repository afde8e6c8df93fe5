------------------------- MODULE RequestReaderClaims --------------------------
(***************************************************************************)
(* What the documents say of the session loop and the program does not do. *)
(***************************************************************************)
EXTENDS RequestReader

(***************************************************************************)
(* docs/vertical-slice-5.md:66: select! "enables the session to respond to *)
(* miner requests and receive pushed jobs within a single task".  A job    *)
(* that arrives inside a line makes the session answer the rest of it with *)
(* "Parse error"; one that arrives before the newline makes a request      *)
(* disappear without any answer at all.                                    *)
(***************************************************************************)
RequestsAreAnswered == \A n \in 1 .. MaxRequests : sent >= n ~> n \in Range(answers)
=============================================================================
