------------------------------ MODULE Sv1Session ------------------------------
(***************************************************************************)
(* The Stratum V1 dialogue of protocol_sv1: what dispatch_request does to  *)
(* the state of a session for each request a miner may send, in whatever   *)
(* order it sends them, and the two things sessions share: the counter of  *)
(* extranonces and the registry of workers.                                *)
(*                                                                         *)
(* One request is one action: a session awaits nothing but its own handler *)
(* while it dispatches.  A version mask is the set of its bits; the mask 0 *)
(* is None in the code.  A share is followed to the checks process_share   *)
(* makes on its validation context; ShareSubmission takes it from there.   *)
(*                                                                         *)
(* Slip_... definitions: see ActiveJobRegistry.                            *)
(***************************************************************************)
EXTENDS Naturals, FiniteSets

CONSTANTS
    Session,         \* connections; a closed one may be reused by a new miner
    User,
    Bits,            \* of the version field
    POOL_MASK,       \* SV1_VERSION_ROLLING_MASK
    EN1_SPACE,       \* NEXT_EXTRANONCE1 is a u32 that wraps: 2^32
    MaxSubscribes,   \* bounds the subscriptions of a run
    None             \* no worker, no extranonce1, no version bits

ASSUME MaskAssumption == POOL_MASK \subseteq Bits
ASSUME NoneAssumption ==
    /\ None \notin User \cup Session
    /\ None \notin Nat
    /\ \A mask \in SUBSET Bits : None # mask
ASSUME SpaceAssumption == EN1_SPACE \in Nat \ {0} /\ MaxSubscribes \in Nat

VARIABLES
    NEXT_EXTRANONCE1,
    workers,             \* InMemoryWorkerRegistry
    active_connections,  \* of InMemoryStatsSnapshot
    open,                \* the connections that are served
    authorized_worker, extranonce1, extranonce2_size, version_rolling,
    granted,             \* the mask the miner was last told it may roll
    subscribes,          \* how many mining.subscribe there were
    nth,                 \* which of them a session's extranonce1 comes from
    judged               \* the share last passed on to the job lookup

sessionVars == << authorized_worker, extranonce1, extranonce2_size, version_rolling >>
historyVars == << granted, subscribes, nth, judged >>
vars == << NEXT_EXTRANONCE1, workers, active_connections, open, sessionVars, historyVars >>

EN2_SIZE == 4

\* What map_request_to_command makes of the requests that parse; the others
\* are answered with an error and change nothing.  A configure that asks for
\* version-rolling without a mask asks for all bits.
ConfigureCommand == {None} \cup SUBSET Bits
AuthorizeCommand == User
SubmitCommand    == [username : User, extra_nonce2_len : {0, EN2_SIZE},
                     version_bits : {None} \cup SUBSET Bits]

Judged == [session : Session, worker : User, extranonce1 : {None} \cup 0 .. EN1_SPACE - 1,
           version_bits : {None} \cup SUBSET Bits]
NoShare == [session |-> None]

TypeOK ==
    /\ NEXT_EXTRANONCE1 \in 0 .. EN1_SPACE - 1
    /\ workers \subseteq User
    /\ active_connections = Cardinality(open)
    /\ open \subseteq Session
    /\ authorized_worker \in [Session -> {None} \cup User]
    /\ extranonce1 \in [Session -> {None} \cup 0 .. EN1_SPACE - 1]
    /\ extranonce2_size \in [Session -> {0, EN2_SIZE}]
    /\ version_rolling \in [Session -> SUBSET POOL_MASK]
    /\ granted \in [Session -> SUBSET Bits]
    /\ subscribes \in 0 .. MaxSubscribes
    /\ nth \in [Session -> 0 .. MaxSubscribes]
    /\ judged \in Judged \cup {NoShare}

Init ==
    /\ NEXT_EXTRANONCE1 = 1 % EN1_SPACE
    /\ workers = {}
    /\ active_connections = 0
    /\ open = {}
    /\ authorized_worker = [s \in Session |-> None]
    /\ extranonce1 = [s \in Session |-> None]
    /\ extranonce2_size = [s \in Session |-> 0]
    /\ version_rolling = [s \in Session |-> {}]
    /\ granted = [s \in Session |-> {}]
    /\ subscribes = 0
    /\ nth = [s \in Session |-> 0]
    /\ judged = NoShare

-----------------------------------------------------------------------------
Connect(s) ==
    /\ s \notin open
    /\ open' = open \cup {s}
    /\ active_connections' = active_connections + 1
    /\ UNCHANGED << NEXT_EXTRANONCE1, workers, sessionVars, historyVars >>

\* The task ends and its SessionState with it.
Disconnect(s) ==
    /\ s \in open
    /\ open' = open \ {s}
    /\ active_connections' = active_connections - 1
    /\ authorized_worker' = [authorized_worker EXCEPT ![s] = None]
    /\ extranonce1' = [extranonce1 EXCEPT ![s] = None]
    /\ extranonce2_size' = [extranonce2_size EXCEPT ![s] = 0]
    /\ version_rolling' = [version_rolling EXCEPT ![s] = {}]
    /\ granted' = [granted EXCEPT ![s] = {}]
    /\ nth' = [nth EXCEPT ![s] = 0]
    /\ UNCHANGED << NEXT_EXTRANONCE1, workers, subscribes, judged >>

Slip_AsRequested(mask) == mask

negotiate_version_rolling(mask) == POOL_MASK \cap mask

\* What the miner knows of its mask after the answer to a configure.
told(known, cmd) == IF cmd = None THEN known ELSE negotiate_version_rolling(cmd)

\* mining.configure; without version-rolling it withdraws the mask unsaid.
Configure(s) ==
    /\ s \in open
    /\ \E cmd \in ConfigureCommand :
          /\ version_rolling' = [version_rolling EXCEPT ![s] =
                                    IF cmd = None THEN {} ELSE negotiate_version_rolling(cmd)]
          /\ granted' = [granted EXCEPT ![s] = told(@, cmd)]
    /\ UNCHANGED << NEXT_EXTRANONCE1, workers, active_connections, open, authorized_worker,
                    extranonce1, extranonce2_size, subscribes, nth, judged >>

Slip_CounterKept(s) ==
    /\ s \in open
    /\ subscribes < MaxSubscribes
    /\ subscribes' = subscribes + 1
    /\ nth' = [nth EXCEPT ![s] = subscribes']
    /\ extranonce1' = [extranonce1 EXCEPT ![s] = NEXT_EXTRANONCE1]
    /\ extranonce2_size' = [extranonce2_size EXCEPT ![s] = EN2_SIZE]
    /\ NEXT_EXTRANONCE1' = IF extranonce1[s] = None THEN (NEXT_EXTRANONCE1 + 1) % EN1_SPACE
                           ELSE NEXT_EXTRANONCE1
    /\ UNCHANGED << workers, active_connections, open, authorized_worker, version_rolling,
                    granted, judged >>

\* mining.subscribe, as often as a miner likes: a new extranonce1 each time.
Subscribe(s) ==
    /\ s \in open
    /\ subscribes < MaxSubscribes
    /\ subscribes' = subscribes + 1
    /\ nth' = [nth EXCEPT ![s] = subscribes']
    /\ extranonce1' = [extranonce1 EXCEPT ![s] = NEXT_EXTRANONCE1]
    /\ extranonce2_size' = [extranonce2_size EXCEPT ![s] = EN2_SIZE]
    /\ NEXT_EXTRANONCE1' = (NEXT_EXTRANONCE1 + 1) % EN1_SPACE
    /\ UNCHANGED << workers, active_connections, open, authorized_worker, version_rolling,
                    granted, judged >>

Slip_FirstUserStays(s) ==
    /\ s \in open
    /\ \E u \in AuthorizeCommand :
          /\ workers' = IF authorized_worker[s] = None THEN workers \cup {u} ELSE workers
          /\ authorized_worker' = [authorized_worker EXCEPT ![s] = u]
    /\ UNCHANGED << NEXT_EXTRANONCE1, active_connections, open, extranonce1,
                    extranonce2_size, version_rolling, historyVars >>

\* mining.authorize: on_authorize never refuses.
Authorize(s) ==
    /\ s \in open
    /\ \E u \in AuthorizeCommand :
          /\ workers' = workers \cup {u}
          /\ authorized_worker' = [authorized_worker EXCEPT ![s] = u]
    /\ UNCHANGED << NEXT_EXTRANONCE1, active_connections, open, extranonce1,
                    extranonce2_size, version_rolling, historyVars >>

Slip_NegotiatedIsEnough(s, cmd) ==
    /\ authorized_worker[s] = cmd.username
    /\ cmd.extra_nonce2_len = extranonce2_size[s]
    /\ cmd.version_bits # None => version_rolling[s] # {}

\* The checks of dispatch_request and those of process_share on the context.
context_accepted(s, cmd) ==
    /\ authorized_worker[s] = cmd.username
    /\ cmd.extra_nonce2_len = extranonce2_size[s]
    /\ cmd.version_bits # None =>
           version_rolling[s] # {} /\ cmd.version_bits \subseteq version_rolling[s]

\* mining.submit; one that is rejected here changes nothing.
SubmitShare(s) ==
    /\ s \in open
    /\ \E cmd \in SubmitCommand :
          /\ context_accepted(s, cmd)
          /\ judged' = [session |-> s, worker |-> cmd.username, extranonce1 |-> extranonce1[s],
                        version_bits |-> cmd.version_bits]
    /\ UNCHANGED << NEXT_EXTRANONCE1, workers, active_connections, open, sessionVars,
                    granted, subscribes, nth >>

Next ==
    \E s \in Session :
        \/ Connect(s) \/ Disconnect(s)
        \/ Configure(s) \/ Subscribe(s) \/ Authorize(s) \/ SubmitShare(s)

Spec == Init /\ [][Next]_vars

-----------------------------------------------------------------------------
Apart(m, n) == (m < n /\ n - m < EN1_SPACE) \/ (n < m /\ m - n < EN1_SPACE)

(***************************************************************************)
(* No two miners search the same space: sessions that subscribed within    *)
(* 2^32 subscriptions of each other have different extranonces, through    *)
(* repeated subscriptions, disconnections and the wrap of the counter.     *)
(***************************************************************************)
OwnSearchSpace ==
    \A s, r \in open :
        s # r /\ nth[s] # 0 /\ nth[r] # 0 /\ Apart(nth[s], nth[r])
            => extranonce1[s] # extranonce1[r]

(***************************************************************************)
(* No share is judged that rolls a version bit its miner was not granted   *)
(* on this very connection, in whatever order configure, subscribe and     *)
(* submit are sent, repeated, and interrupted by reconnections; and no bit *)
(* outside the mask of the pool ever gets into a header.                   *)
(***************************************************************************)
OnlyGrantedBitsRolled ==
    [][judged' # judged /\ judged'.version_bits # None =>
          judged'.version_bits \subseteq granted[judged'.session] \cap POOL_MASK]_vars

(***************************************************************************)
(* Whoever shares are credited to can be found: the worker of a judged     *)
(* share, and the one a session speaks for, is in the list the API serves, *)
(* after any sequence of authorizations of several users on one session.   *)
(***************************************************************************)
CreditedWorkersAreListed ==
    /\ \A s \in open : authorized_worker[s] # None => authorized_worker[s] \in workers
    /\ judged # NoShare => judged.worker \in workers
=============================================================================
