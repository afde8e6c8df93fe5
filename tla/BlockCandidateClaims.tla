------------------------- MODULE BlockCandidateClaims -------------------------
EXTENDS BlockCandidate

(***************************************************************************)
(* template_mapper.rs:124: the txids are the branch "because the block     *)
(* header merkle root uses txids": the header of a solved block has the    *)
(* merkle root of its transactions, all of which came with their txid.     *)
(* The branch is not a list of the transactions, however, but of one       *)
(* neighbour per level of the tree.                                        *)
(***************************************************************************)
HeadersCommitToTransactions ==
    /\ block # NoBlock
    /\ \A i \in DOMAIN template.transactions : template.transactions[i].txid # None
    => block.header.merkle_root = RootOfBlock

(***************************************************************************)
(* README.md:77: "At startup the pool logs whether block-found submission  *)
(* is armed or disabled based on pool.payout_script_pubkey_hex", and in    *)
(* API mode it works if "daemon.url serves both the Node API and           *)
(* JSON-RPC": a block found by a subscribed miner of an armed pool is      *)
(* submitted.  A job of the node API has no block_assembly, however, and   *)
(* ends in a LocalError before the daemon is asked.                        *)
(***************************************************************************)
ArmedPoolSubmits ==
    running /\ pool.armed /\ outcome = "LocalError" => 0 \in {share.extranonce1, share.extra_nonce2}
=============================================================================
