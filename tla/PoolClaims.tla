------------------------------ MODULE PoolClaims ------------------------------
(***************************************************************************)
(* What the documents say of the whole pool and it does not do.            *)
(***************************************************************************)
EXTENDS Pool

(***************************************************************************)
(* README.md:89: "If share meets network target (ShareResult::Block), pool *)
(* reconstructs solved block header and calls submitblock".  A session     *)
(* that is late with an older notify clears the registry between the       *)
(* judgement and the second lookup, and a current block is dropped.        *)
(***************************************************************************)
CurrentBlockIsSubmitted ==
    \A s \in Session :
        handling[s] = "replying" /\ result[s] = "Block" /\ share[s].subscribed
                                 /\ Judged!id(tip) = share[s].job_id
            => \E c \in candidates : c.share = share[s]
=============================================================================
