---------------------------- MODULE RequestStream -----------------------------
(***************************************************************************)
(* What a Stratum session owes its miner: every request gets one answer,   *)
(* in the order in which the requests were sent.                           *)
(***************************************************************************)
EXTENDS Naturals, Sequences

CONSTANT MaxRequests

VARIABLES
    sent,       \* how many requests the miner has sent
    answers     \* the answers, each naming the request it is for

Init == sent = 0 /\ answers = << >>

Send ==
    /\ sent < MaxRequests
    /\ sent' = sent + 1
    /\ UNCHANGED answers

Answer ==
    /\ Len(answers) < sent
    /\ answers' = Append(answers, Len(answers) + 1)
    /\ UNCHANGED sent

Next == Send \/ Answer

Spec == Init /\ [][Next]_<< sent, answers >> /\ WF_<< sent, answers >>(Answer)
=============================================================================
