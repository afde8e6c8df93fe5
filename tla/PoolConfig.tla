------------------------------ MODULE PoolConfig ------------------------------
(***************************************************************************)
(* From config.toml and the environment to the parts of the running pool:  *)
(* load_config, and what main and the composition root make of its result. *)
(* It happens once, before any connection, and decides which job source,   *)
(* sink and submitter everything else talks to.                            *)
(*                                                                         *)
(* A text is what its readers tell apart: what it spells (a number or hex  *)
(* digits by their value n) and whether white space surrounds it.  A       *)
(* function that may fail returns the set of its results, {} for an error. *)
(*                                                                         *)
(* Slip_... definitions: see ActiveJobRegistry.                            *)
(***************************************************************************)
EXTENDS Naturals, Sequences

CONSTANTS None, MAX_U32, MAX_U16

ASSUME NoneAssumption == None \notin Nat

Text == [is : {"blank", "number", "hex", "rpc", "api", "word"}, n : Nat, padded : BOOLEAN]

TheOnly(set) == CHOOSE x \in set : TRUE

Spelt(what, n) == [is |-> what, n |-> n, padded |-> FALSE]
Empty          == Spelt("blank", 0)
trim(text)     == [text EXCEPT !.padded = FALSE]

\* The addresses of the defaults are words of their own.
Default ==
    [name |-> Spelt("word", 0), initial_difficulty |-> 1, payout_script_pubkey_hex |-> Empty,
     api_bind |-> Spelt("word", 0), api_port |-> 8080,
     stratum_bind |-> Spelt("word", 0), stratum_port |-> 3333,
     url |-> Spelt("word", 0), rpc_user |-> Empty, rpc_password |-> Empty,
     job_source_mode |-> "rpc", node_api_token |-> Empty, share_api_url |-> Empty]

Fields == DOMAIN Default

\* What an environment or a file has: texts beside some of its names.
Texts(written, names) ==
    DOMAIN written \subseteq names /\ \A name \in DOMAIN written : written[name] \in Text

-----------------------------------------------------------------------------
(* How a text becomes a value *)

numeral(text, max) == {n \in {text.n} : text.is = "number" /\ n =< max}

parse_job_source_mode(text) == {text.is} \cap {"rpc", "api"}

\* Only the environment's values are trimmed: a padded mode in a file is none.
toml_value(field, text) ==
    IF field = "initial_difficulty" THEN numeral(text, MAX_U32)
    ELSE IF field \in {"api_port", "stratum_port"} THEN numeral(text, MAX_U16)
    ELSE IF field = "job_source_mode" THEN {m \in parse_job_source_mode(text) : ~text.padded}
    ELSE {text}

env_value(field, text) ==
    IF field \in {"rpc_user", "rpc_password", "node_api_token"} THEN {text}
    ELSE toml_value(field, trim(text))

\* The variables in the order they are applied: a later one overwrites.
env_keys ==
    << << "POOL__INITIAL_DIFFICULTY", "initial_difficulty" >>,
       << "POOL__PAYOUT_SCRIPT_PUBKEY_HEX", "payout_script_pubkey_hex" >>,
       << "DAEMON__JOB_SOURCE_MODE", "job_source_mode" >>,
       << "DAEMON__URL", "url" >>,
       << "DAEMON__RPC_USER", "rpc_user" >>,
       << "DAEMON__RPC_PASSWORD", "rpc_password" >>,
       << "AZ_NODE_API_TOKEN", "node_api_token" >>,
       << "DAEMON__NODE_API_TOKEN", "node_api_token" >>,
       << "DAEMON__SHARE_API_URL", "share_api_url" >>,
       << "API__BIND", "api_bind" >>, << "API__PORT", "api_port" >>,
       << "STRATUM__BIND", "stratum_bind" >>, << "STRATUM__PORT", "stratum_port" >> >>

-----------------------------------------------------------------------------
(* config.rs: load_config *)

\* A value that does not parse leaves the field as it was.
overridden(config, override, env) ==
    IF override[1] \in DOMAIN env /\ env_value(override[2], env[override[1]]) # {}
    THEN [config EXCEPT ![override[2]] = TheOnly(env_value(override[2], env[override[1]]))]
    ELSE config

Slip_LastOneStays(config, env) ==
    LET applied[k \in 0 .. Len(env_keys)] ==
            IF k = 0 THEN config
            ELSE overridden(applied[k - 1], env_keys[Len(env_keys) + 1 - k], env)
    IN  applied[Len(env_keys)]

apply_env_overrides_from(config, env) ==
    LET applied[k \in 0 .. Len(env_keys)] ==
            IF k = 0 THEN config ELSE overridden(applied[k - 1], env_keys[k], env)
    IN  applied[Len(env_keys)]

apply_env_overrides(config, env) == apply_env_overrides_from(config, env)

payout_script_pubkey_bytes(config) ==
    LET hex == config.payout_script_pubkey_hex
    IN  IF hex.is = "blank" THEN {None} ELSE {n \in {hex.n} : hex.is = "hex"}

\* A file is its settings: fields and what stands beside them.
from_toml(file) ==
    IF \A f \in DOMAIN file.settings : toml_value(f, file.settings[f]) # {}
    THEN {[f \in Fields |-> IF f \in DOMAIN file.settings
                            THEN TheOnly(toml_value(f, file.settings[f])) ELSE Default[f]]}
    ELSE {}

load_config(file, env) ==
    {config \in {apply_env_overrides(c, env) : c \in IF file.found THEN from_toml(file)
                                                     ELSE {Default}} :
        payout_script_pubkey_bytes(config) # {}}

-----------------------------------------------------------------------------
(* composition.rs, and main up to the listeners *)

\* NodeApiClient::new: a token of white space is no token.
bearer_token(config) ==
    IF config.node_api_token.is = "blank" THEN None
    ELSE trim(config.node_api_token)

DaemonClient(config) == [url |-> config.url, rpc_user |-> config.rpc_user,
                         rpc_password |-> config.rpc_password]

build_job_source(config) ==
    IF config.job_source_mode = "rpc"
    THEN [kind |-> "rpc", daemon |-> DaemonClient(config),
          payout |-> TheOnly(payout_script_pubkey_bytes(config))]
    ELSE [kind |-> "api", url |-> config.url, token |-> bearer_token(config)]

\* The share processor judges and reports with the difficulty given here.
PoolServices(job_source, pool_difficulty, share_sink) ==
    [job_source |-> job_source, pool_difficulty |-> pool_difficulty, share_sink |-> share_sink]

build_pool_services(config) ==
    PoolServices(build_job_source(config), config.initial_difficulty,
                 IF config.share_api_url.is = "blank" THEN None
                 ELSE [url |-> config.share_api_url, token |-> bearer_token(config)])

\* Where connections are taken, and the difficulty told to miners there.
listeners(config) ==
    [api |-> << config.api_bind, config.api_port >>,
     stratum |-> << config.stratum_bind, config.stratum_port >>,
     told_difficulty |-> config.initial_difficulty]

\* What main starts, and whether it logs "armed".
start(config) ==
    [services |-> build_pool_services(config),
     submitter |-> DaemonClient(config),
     armed |-> payout_script_pubkey_bytes(config) # {None},
     listeners |-> listeners(config)]
=============================================================================
