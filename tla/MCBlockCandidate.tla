--------------------------- MODULE MCBlockCandidate ---------------------------
(***************************************************************************)
(* Words of seven bits, times of four bytes of two bits, hashes of two     *)
(* words of two bytes.  Every nBits, hash and difficulty on an otherwise   *)
(* plain template; templates of every height, with and without flags,      *)
(* commitment and up to four transactions, at an easy target; and          *)
(* configurations with up to two variables set beside files of every kind, *)
(* of which only the start is followed.                                    *)
(***************************************************************************)
EXTENDS BlockCandidateClaims, TLC

CONSTANTS b1, b2

TwoBits == {b1, b2}

\* A transaction's data stands for its hash; the daemon writes it reversed.
Tx(n) == [txid |-> << n, 0, 0, 1 >>, hash |-> << n, 0, 0, 1 >>, data |-> << 1, 0, 0, n >>,
          parses |-> TRUE]
Transactions == [n \in 1 .. 4 |-> Tx(n)]

Plain == [decodable |-> TRUE, version |-> {b1}, previousblockhash |-> << 1, 2, 3, 4 >>,
          bits |-> << SIZE, 1, 0, 0 >>, curtime |-> 27, ntime |-> << 3, 2, 1, 0 >>, height |-> 5,
          flags |-> 0, commitment |-> FALSE, transactions |-> << >>]
Undecodable == [Plain EXCEPT !.decodable = FALSE]

Targets == {[Plain EXCEPT !.bits = << e, m1, m2, m3 >>] :
               e \in 0 .. SIZE + 1, m1 \in Byte, m2 \in Byte, m3 \in Byte}
Heights == {[Plain EXCEPT !.height = h] : h \in 0 .. 20}
Shapes ==
    {[Plain EXCEPT !.flags = f, !.commitment = c, !.transactions = SubSeq(Transactions, 1, n)] :
        f \in 0 .. 1, c \in BOOLEAN, n \in 0 .. 4}
Others ==
    {Undecodable, [Plain EXCEPT !.curtime = U32 - 1], [Plain EXCEPT !.curtime = U32 + 2],
     [Plain EXCEPT !.height = U32 - 1], [Plain EXCEPT !.height = U32],
     [Plain EXCEPT !.previousblockhash = << 1, 2 >>], [Plain EXCEPT !.bits = << 1 >>],
     [Plain EXCEPT !.ntime = << 1 >>],
     [Plain EXCEPT !.transactions = << [Tx(1) EXCEPT !.txid = None] >>],
     [Plain EXCEPT !.transactions = << [Tx(1) EXCEPT !.txid = None, !.hash = << 1 >>] >>],
     [Plain EXCEPT !.transactions = << [Tx(1) EXCEPT !.txid = None, !.hash = None] >>],
     [Plain EXCEPT !.transactions = << Tx(1), [Tx(2) EXCEPT !.data = << 1 >>, !.parses = FALSE] >>]}

Sent(en, rolled, bits, mask) ==
    [extranonce1 |-> en, extra_nonce2 |-> en, rolled |-> rolled, version_bits |-> bits,
     version_rolling_mask |-> mask]

Received == {Sent(1, 0, None, None), Sent(0, 1, None, None), Sent(1, 1, {b2}, {b1, b2}),
             Sent(1, 0, {b2}, {b2}), Sent(1, 0, {b1}, None), Sent(1, 0, {b1}, {b2})}

-----------------------------------------------------------------------------
NotFound == [found |-> FALSE, settings |-> << >>]
File(settings) == [found |-> TRUE, settings |-> settings]

W(n) == Spelt("word", n)
padded(text) == [text EXCEPT !.padded = TRUE]
Armed == "POOL__PAYOUT_SCRIPT_PUBKEY_HEX" :> Spelt("hex", 7)
Difficulty(d) == "POOL__INITIAL_DIFFICULTY" :> Spelt("number", d)

Values ==
    [v \in {"DAEMON__URL", "DAEMON__RPC_USER", "DAEMON__RPC_PASSWORD", "AZ_NODE_API_TOKEN",
            "API__BIND", "STRATUM__BIND"} |-> {padded(W(2))}]
    @@ ("POOL__INITIAL_DIFFICULTY" :> {Spelt("number", 2), padded(Spelt("number", 3)),
                                       Spelt("number", MAX_U32 + 1), W(2)})
    @@ ("POOL__PAYOUT_SCRIPT_PUBKEY_HEX" :> {padded(Spelt("hex", 2)), Empty, W(2)})
    @@ ("DAEMON__JOB_SOURCE_MODE" :> {padded(Spelt("rpc", 0)), padded(Spelt("api", 0)), W(2)})
    @@ ("DAEMON__NODE_API_TOKEN" :> {W(3), Empty, padded(Empty)})
    @@ ("DAEMON__SHARE_API_URL" :> {W(4), padded(Empty)})
    @@ ("API__PORT" :> {Spelt("number", 1), Spelt("number", MAX_U16 + 1)})
    @@ ("STRATUM__PORT" :> {Spelt("number", 2), W(2)})

Set(v) == {v :> text : text \in Values[v]}
EnvOf(v, w) == {a @@ b : a \in Set(v), b \in Set(w)}
Envs == {<< >>} \cup UNION {EnvOf(v, w) : v \in DOMAIN Values, w \in DOMAIN Values}

Files ==
    {NotFound} \cup
    {File(settings) : settings \in
        {<< >>,
         "initial_difficulty" :> Spelt("number", 4),
         "initial_difficulty" :> Spelt("number", MAX_U32 + 1),
         "job_source_mode" :> Spelt("api", 0),
         "job_source_mode" :> padded(Spelt("api", 0)),
         "job_source_mode" :> W(1),
         "payout_script_pubkey_hex" :> padded(Spelt("hex", 1)),
         "payout_script_pubkey_hex" :> W(1),
         ("node_api_token" :> W(1)) @@ ("share_api_url" :> W(1))
             @@ ("job_source_mode" :> Spelt("api", 0)),
         ("url" :> W(1)) @@ ("rpc_user" :> W(1)) @@ ("rpc_password" :> W(1))
             @@ ("api_port" :> Spelt("number", 5)) @@ ("stratum_bind" :> W(1))}}

Case(file, env, t) == [file |-> file, env |-> env, template |-> t]

Starts == {Case(file, env, Undecodable) : file \in Files, env \in Envs}

Solving ==
    {Case(NotFound, Armed @@ Difficulty(d), t) : d \in 0 .. 5, t \in Targets}
    \cup {Case(NotFound, Armed, t) : t \in Heights \cup Shapes \cup Others}
    \cup {Case(File("job_source_mode" :> Spelt("api", 0)), env, t) :
             env \in {<< >>, Armed}, t \in Others \cup {Plain}}
    \cup {Case(NotFound, << >>, Plain)}

All == Starts \cup Solving

ManyTransactions == {Case(NotFound, Armed, t) : t \in Shapes}
BothModes == {Case(File("job_source_mode" :> Spelt(mode, 0)), Armed, Plain) :
                 mode \in {"rpc", "api"}}
=============================================================================
