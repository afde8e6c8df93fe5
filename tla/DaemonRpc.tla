------------------------------ MODULE DaemonRpc ------------------------------
(***************************************************************************)
(* What an HTTP answer becomes on its way through DaemonClient and         *)
(* NodeApiClient.  An error is its text, the sequence of its parts, which  *)
(* is all that callers have: PoolError::to_string() puts a prefix of its   *)
(* own before every other.                                                 *)
(*                                                                         *)
(* Slip_... definitions: see ActiveJobRegistry.                            *)
(***************************************************************************)
EXTENDS Sequences

\* delivered: before the ten seconds of the client are over.
Response == [delivered : BOOLEAN, success : BOOLEAN, json : BOOLEAN,
             error : {"absent", "null", "message"},
             result : {"absent", "null", "blank", "reason", "template", "other"}]

Ok(value)   == [ok |-> TRUE, value |-> value]
Err(words)  == [ok |-> FALSE, text |-> << "daemon/RPC error" >> \o words]

-----------------------------------------------------------------------------
(* daemon.rs *)

Slip_ErrorIgnored(r) ==
    IF ~r.delivered THEN Err(<< "daemon request failed" >>)
    ELSE IF ~r.json THEN Err(<< "daemon response parse failed" >>)
    ELSE IF ~r.success THEN Err(<< "daemon returned HTTP" >>)
    ELSE IF r.result = "absent" THEN Err(<< "daemon response missing result" >>)
    ELSE Ok(r.result)

rpc_call(r) ==
    IF ~r.delivered THEN Err(<< "daemon request failed" >>)
    ELSE IF ~r.json THEN Err(<< "daemon response parse failed" >>)
    ELSE IF r.error = "message" THEN Err(<< "daemon RPC error" >>)
    ELSE IF ~r.success THEN Err(<< "daemon returned HTTP" >>)
    ELSE IF r.result = "absent" THEN Err(<< "daemon response missing result" >>)
    ELSE Ok(r.result)

get_block_template(r) ==
    IF rpc_call(r).ok /\ rpc_call(r).value # "template"
    THEN Err(<< "daemon template parse failed" >>) ELSE rpc_call(r)

submit_block(r) ==
    IF ~rpc_call(r).ok THEN rpc_call(r)
    ELSE IF rpc_call(r).value \in {"null", "blank"} THEN Ok("accepted")
    ELSE IF rpc_call(r).value = "reason" THEN Err(<< "submitblock rejected", "reason" >>)
    ELSE Err(<< "submitblock returned unexpected result" >>)

(* node_api.rs: the body is the template itself. *)

get_template_current(r) ==
    IF ~r.delivered THEN Err(<< "node API request failed" >>)
    ELSE IF ~r.success THEN Err(<< "node API returned HTTP" >>)
    ELSE IF ~r.json \/ r.result # "template" THEN Err(<< "node API response parse failed" >>)
    ELSE Ok(r.result)

-----------------------------------------------------------------------------
(* The daemon, as far as daemon.rs tells its answers apart, and what comes *)
(* instead of one: nothing, another server's page, another server's JSON.  *)

Verdicts == {"accepted", "refused", "failed"}

Own == {r \in Response : r.delivered /\ r.json}

SubmitAnswers(verdict) ==
    {r \in Own :
        \/ verdict = "accepted" /\ r.success /\ r.error # "message" /\ r.result \in {"null", "blank"}
        \/ verdict = "refused" /\ r.success /\ r.error # "message" /\ r.result = "reason"
        \/ verdict = "failed" /\ r.error = "message" /\ r.result \in {"null", "absent"}}

TemplateAnswers == {r \in Own : r.success /\ r.error # "message" /\ r.result = "template"}

Unread(delivered, success) ==
    [delivered |-> delivered, success |-> success, json |-> FALSE,
     error |-> "absent", result |-> "absent"]

Disturbed ==
    {Unread(FALSE, FALSE), Unread(TRUE, FALSE), Unread(TRUE, TRUE)}
        \cup {r \in Own : r.error = "absent" /\ r.result \in {"absent", "other"}}
=============================================================================
