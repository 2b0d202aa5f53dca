-------------------------------- MODULE Node --------------------------------
(***************************************************************************)
(* One dp-api process over its life: the boot sequence of main.rs with its *)
(* fail-closed checks, the ring of decryption keys and its rotation, the   *)
(* certificate files of the two listeners, and the shutdown.  What         *)
(* survives the process is the event log, the last snapshot and the files. *)
(*                                                                         *)
(* Environment: the operator, who edits the configuration, rotates the     *)
(* keys and renews the certificate in two file writes; clients, who keep   *)
(* the published key for its cache time; kills at any moment.              *)
(***************************************************************************)
EXTENDS Integers, Sequences, FiniteSets, SequencesExt

CONSTANTS
    Keys,         \* the operator's decryption keys, each named by its id
    Clients,      \* those who fetch the published key and encrypt to it
    Configs,      \* configurations the operator may boot with
    NoKey,        \* "nothing cached"
    Window,       \* how long a fetched public key is used (Cache-Control)
    MaxLog,       \* bound: events in the log
    MaxVersion,   \* bound: renewals of the certificate
    MaxBoots      \* bound: processes started

Statuses == {"active", "rotating", "sunset"}

Options == {
    "siwe_enabled", "session_secret", "session_secret_short",
    "operator_api_keys", "allow_unauthenticated_admin", "zero_limit",
    "eth_rpc", "signer_key_uri", "settlement_private_rpc",
    "allow_public_settlement", "contract_addr", "tls_cert", "tls_key",
    "tls_client_ca", "insecure", "public_bind", "snapshot_enabled",
    "snapshot_dir", "snapshot_key_uri", "snapshot_key_rotated",
    "order_proof_vk", "allow_unverified_order_proofs", "bad_operator_key",
    "aggregator_bin", "zk_proving_key", "bad_trusted_proxies"}

\* A configured decryption key; an entry may leave its status out.
KeySpecs == [id : Keys, status : Statuses \cup {""}]

ASSUME NodeAssumption ==
    /\ NoKey \notin Keys
    /\ Window \in Nat \ {0}
    /\ MaxLog \in Nat /\ MaxVersion \in Nat /\ MaxBoots \in Nat
    /\ \A c \in Configs :
          /\ c.opts \subseteq Options
          /\ c.keys \in Seq(KeySpecs)
          /\ Len(c.seed) \in Nat /\ DOMAIN c.seed = 1..Len(c.seed)
          /\ \A i \in DOMAIN c.seed : c.seed[i].decimals \in Nat

VARIABLES
    pc,        \* "down", the stage of boot in progress, "serving" or "drain"
    cfg,       \* the running process's configuration
    why,       \* the stage that refused the last boot, "" when it did not
    mark,      \* length of the log when the process started
    boots,     \* processes started so far
    log,       \* durable events: a registered pair, or an order and its key
    snap,      \* durable: events covered by the last snapshot under each key
    ring,      \* MultiKeyDecrypter.inner, in insertion order
    loaded,    \* events of the log the engine's state has taken in
    disk,      \* versions in the certificate file and in the key file
    grpc,      \* what the gRPC listener serves with
    rest,      \* what the REST listener serves with
    streams,   \* a gRPC stream is still open during the drain
    cached,    \* each client's copy of the published key
    age,       \* how long ago each client fetched it
    quiet      \* how long each key has not been active, up to Window + 1

boot    == <<pc, cfg, why, mark, boots>>
durable == <<log, snap>>
tls     == <<disk, grpc, rest>>
clients == <<cached, age, quiet>>
vars    == <<boot, durable, ring, loaded, tls, streams, clients>>

Off     == [up |-> FALSE, cert |-> 0, key |-> 0]
NoCfg   == [opts |-> {}, keys |-> << >>, seed |-> << >>]

-----------------------------------------------------------------------------
(* Configuration: an option is in c.opts when it is set.  The values that  *)
(* matter beyond that are flags of their own.                              *)

\* The option is set: not empty once trimmed.
Has(c, o) == o \in c.opts

validate_siwe_config(c) ==
    Has(c, "siwe_enabled") =>
        Has(c, "session_secret") /\ ~Has(c, "session_secret_short")

validate_admin_auth(c) ==
    Has(c, "operator_api_keys") \/ Has(c, "allow_unauthenticated_admin")

validate_server_limits(c) == ~Has(c, "zero_limit")

\* Signed settlement sends calldata: over a private endpoint, or opted in.
validate_settlement_transport(c) ==
    /\ Has(c, "settlement_private_rpc") => Has(c, "eth_rpc")
    /\ Has(c, "eth_rpc") /\ Has(c, "signer_key_uri") =>
           Has(c, "settlement_private_rpc") \/ Has(c, "allow_public_settlement")

tls_mode(c) ==
    CASE {"tls_cert", "tls_key"} \subseteq c.opts  -> "tls"
      [] {"tls_cert", "tls_key", "tls_client_ca"} \cap c.opts = {}
                                                   -> "plaintext"
      [] OTHER                                     -> "half"

validate_plaintext_bind(c) ==
    tls_mode(c) = "plaintext" => Has(c, "insecure") \/ ~Has(c, "public_bind")

\* main.rs up to the first store connection.
Validated(c) ==
    /\ validate_siwe_config(c)
    /\ validate_admin_auth(c)
    /\ validate_server_limits(c)
    /\ validate_settlement_transport(c)
    /\ tls_mode(c) # "half"
    /\ validate_plaintext_bind(c)

\* A snapshot store beside the file event log needs its own directory.
Snapshots(c) == Has(c, "snapshot_enabled") /\ Has(c, "snapshot_dir")

\* An envelope opens under the key that sealed it and under no other.
SnapshotKeys == {"s1", "s2"}
SnapshotCipher(c) == IF Has(c, "snapshot_key_rotated") THEN "s2" ELSE "s1"

\* The verifying key or the opt-out, and no durable snapshot in the clear.
StoresOpen(c) ==
    /\ Has(c, "order_proof_vk") \/ Has(c, "allow_unverified_order_proofs")
    /\ Snapshots(c) => Has(c, "snapshot_key_uri")

\* Every key URI resolves to a valid secret.
decrypter_from_uri(c) == ~Has(c, "bad_operator_key")

validate_zk_key_dir(c) == Has(c, "aggregator_bin") => Has(c, "zk_proving_key")

Wired(c) ==
    /\ decrypter_from_uri(c)
    /\ validate_zk_key_dir(c)
    /\ Has(c, "eth_rpc") /\ Has(c, "signer_key_uri") => Has(c, "contract_addr")

\* An entry without a status is active when it is the first one.
parse_key_uri_spec(spec, already_seeded) ==
    [id |-> spec.id,
     status |-> IF spec.status # "" THEN spec.status
                ELSE IF already_seeded THEN "rotating" ELSE "active"]

-----------------------------------------------------------------------------
(* MultiKeyDecrypter.                                                      *)

Ids(r) == {r[i].id : i \in DOMAIN r}

\* Upsert in place: other entries keep their status and their position.
insert(r, e) ==
    IF e.id \in Ids(r)
    THEN [i \in DOMAIN r |-> IF r[i].id = e.id THEN e ELSE r[i]]
    ELSE Append(r, e)

\* What retain leaves: insert keeps the ids distinct.
remove(r, id) == RemoveAt(r, CHOOSE i \in DOMAIN r : r[i].id = id)

active_public_key_any_status(r) == IF r = << >> THEN NoKey ELSE r[1].id

\* The first active entry in insertion order.
active_public_key(r) ==
    LET actives == {i \in DOMAIN r : r[i].status = "active"}
    IN  IF actives = {} THEN NoKey
        ELSE r[CHOOSE i \in actives : \A j \in actives : i <= j].id

\* ECIES opens what was sealed to its own public key.
opens(e, key) == e.id = key

decrypts_with_active_only(r, key) ==
    \E i \in DOMAIN r : opens(r[i], key) /\ r[i].status = "active"

\* Every entry is tried, active ones first: whether one of them succeeds
\* does not depend on the order.
decrypts(r, key) == \E i \in DOMAIN r : opens(r[i], key)

\* The loop over the configured entries: r[i] is the ring after i of them.
RingFrom(specs) ==
    LET r[i \in 0..Len(specs)] ==
            IF i = 0 THEN << >>
            ELSE insert(r[i - 1], parse_key_uri_spec(specs[i], i > 1))
    IN  r[Len(specs)]

Active(r) == {r[i].id : i \in {j \in DOMAIN r : r[j].status = "active"}}

Quietened(r) == [k \in Keys |-> IF k \in Active(r) THEN 0 ELSE quiet[k]]

-----------------------------------------------------------------------------

Init ==
    /\ pc = "down" /\ cfg = NoCfg /\ why = "" /\ mark = 0 /\ boots = 0
    /\ log = << >> /\ snap = [sk \in SnapshotKeys |-> 0]
    /\ ring = << >> /\ loaded = {}
    /\ disk = [cert |-> 1, key |-> 1] /\ grpc = Off /\ rest = Off
    /\ streams = FALSE
    /\ cached = [cl \in Clients |-> NoKey] /\ age = [cl \in Clients |-> 0]
    /\ quiet = [k \in Keys |-> Window + 1]

\* The process is gone with everything it held in memory.
Gone ==
    /\ pc' = "down" /\ cfg' = NoCfg
    /\ ring' = << >> /\ loaded' = {} /\ grpc' = Off /\ rest' = Off
    /\ streams' = FALSE
    /\ UNCHANGED <<mark, boots, durable, disk, clients>>

Refuse ==
    /\ Gone
    /\ why' = pc

BootOrder_late_checks == <<"stores", "keys", "recover", "seed", "tasks",
                           "validate", "grpc", "rest", "serving">>

\* Every check that needs no connection comes before the first effect.
BootOrder == <<"validate", "stores", "keys", "recover", "seed", "tasks",
               "grpc", "rest", "serving">>

Goto(stage) ==
    /\ pc' = stage
    /\ UNCHANGED <<cfg, why, mark, boots>>

Proceed ==
    LET i == CHOOSE j \in DOMAIN BootOrder : BootOrder[j] = pc
    IN  Goto(BootOrder[i + 1])

\* The operator keeps a key configured while a client may still use it.
StartProcess(c) ==
    /\ pc = "down" /\ boots < MaxBoots
    /\ \A k \in Keys : quiet[k] <= Window =>
          \E i \in DOMAIN c.keys : c.keys[i].id = k
    /\ pc' = BootOrder[1] /\ cfg' = c /\ why' = "" /\ mark' = Len(log)
    /\ boots' = boots + 1
    /\ UNCHANGED <<durable, ring, loaded, tls, streams, clients>>

Validate ==
    /\ pc = "validate"
    /\ \/ /\ ~Validated(cfg)
          /\ Refuse
       \/ /\ Validated(cfg)
          /\ Proceed
          /\ UNCHANGED <<durable, ring, loaded, tls, streams, clients>>

OpenStores ==
    /\ pc = "stores"
    /\ \/ /\ ~StoresOpen(cfg)
          /\ Refuse
       \/ /\ StoresOpen(cfg)
          /\ Proceed
          /\ UNCHANGED <<durable, ring, loaded, tls, streams, clients>>

LoadKeys ==
    /\ pc = "keys"
    /\ \/ /\ ~Wired(cfg)
          /\ Refuse
       \/ /\ Wired(cfg)
          /\ Proceed
          /\ ring' = RingFrom(cfg.keys)
          /\ quiet' = Quietened(ring')
          /\ UNCHANGED <<durable, loaded, tls, streams, cached, age>>

\* Events the boot has to replay: those its snapshot does not cover.
\* With the wrong snapshot key every envelope is unreadable and the replay
\* starts at the first event.
Base == IF Snapshots(cfg) THEN snap[SnapshotCipher(cfg)] ELSE 0

Replayed == (Base + 1)..Len(log)

Readable == \A i \in Replayed : log[i].kind = "order" => decrypts(ring, log[i].key)

Recover ==
    /\ pc = "recover"
    /\ \/ /\ ~Readable
          /\ Refuse
       \/ /\ Readable
          /\ Proceed
          /\ loaded' = DOMAIN log
          /\ UNCHANGED <<durable, ring, tls, streams, clients>>

Pairs == {log[i].pair : i \in {j \in loaded : log[j].kind = "pair"}}

\* Pairs registered by this boot: list_pairs was empty when seeding began.
Seeded == Len(log) - mark

\* What an entry must satisfy to become a PairRegistered event: the bound on
\* the decimals stands for the parses of its other fields.
seed_decimals(e) == e.decimals <= 30

\* seed_pairs_from_json, one entry per step: each one is appended before the
\* next is looked at, and a bad entry ends the boot where it stands.
SeedPair ==
    /\ pc = "seed"
    /\ Seeded < Len(cfg.seed)
    /\ Cardinality(Pairs) = Seeded
    /\ LET e == cfg.seed[Seeded + 1]
       IN  \/ /\ ~seed_decimals(e)
              /\ Refuse
           \/ /\ seed_decimals(e) /\ Len(log) < MaxLog
              /\ log' = Append(log, [kind |-> "pair", pair |-> e.pair])
              /\ loaded' = loaded \cup {Len(log')}
              /\ UNCHANGED <<boot, snap, ring, tls, streams, clients>>

\* Nothing to seed, or everything seeded: the tick and the snapshotter start.
\* The key list and the seed are not consulted again.
SpawnTasks ==
    /\ pc = "seed"
    /\ Seeded = Len(cfg.seed) \/ Cardinality(Pairs) # Seeded
    /\ pc' = "tasks" /\ mark' = 0
    /\ cfg' = [NoCfg EXCEPT !.opts = cfg.opts]
    /\ UNCHANGED <<why, boots>>
    /\ UNCHANGED <<durable, ring, loaded, tls, streams, clients>>

\* The proxy list is parsed only now, with the tick already running.
BuildGateway ==
    /\ pc = "tasks"
    /\ \/ /\ Has(cfg, "bad_trusted_proxies")
          /\ Refuse
       \/ /\ ~Has(cfg, "bad_trusted_proxies")
          /\ Proceed
          /\ UNCHANGED <<durable, ring, loaded, tls, streams, clients>>

\* External (rustls): a certificate is accepted with its own key only.
with_single_cert(d) == d.cert = d.key

Serving(c) ==
    IF tls_mode(c) = "plaintext" THEN [Off EXCEPT !.up = TRUE]
    ELSE [up |-> TRUE, cert |-> disk.cert, key |-> disk.key]

\* tonic_server_tls parses both files but pairs them in the spawned task:
\* a mismatch ends that task, and nothing looks at it before shutdown.
ListenGrpc ==
    /\ pc = "grpc"
    /\ Proceed
    /\ \/ /\ tls_mode(cfg) = "plaintext" \/ with_single_cert(disk)
          /\ grpc' = Serving(cfg)
       \/ /\ tls_mode(cfg) # "plaintext" /\ ~with_single_cert(disk)
          /\ grpc' = grpc
    /\ UNCHANGED <<durable, ring, loaded, disk, rest, streams, clients>>

\* axum_rustls_config pairs them at once: a mismatch ends the boot.
ListenRest ==
    /\ pc = "rest"
    /\ \/ /\ tls_mode(cfg) # "plaintext" /\ ~with_single_cert(disk)
          /\ Refuse
       \/ /\ tls_mode(cfg) = "plaintext" \/ with_single_cert(disk)
          /\ Proceed
          /\ rest' = Serving(cfg)
          /\ UNCHANGED <<durable, ring, loaded, disk, grpc, streams, clients>>

-----------------------------------------------------------------------------
(* Serving.                                                                *)

rest_operator_pubkey(cl) ==
    /\ pc = "serving"
    /\ active_public_key(ring) # NoKey
    /\ cached' = [cached EXCEPT ![cl] = active_public_key(ring)]
    /\ age' = [age EXCEPT ![cl] = 0]
    /\ UNCHANGED <<boot, durable, ring, loaded, tls, streams, quiet>>

\* The gRPC listener takes orders from the moment it is spawned.
PlaceOrder(cl) ==
    /\ pc = "serving" \/ (pc = "rest" /\ grpc.up)
    /\ Pairs # {}
    /\ cached[cl] # NoKey /\ decrypts(ring, cached[cl])
    /\ Len(log) < MaxLog
    /\ log' = Append(log, [kind |-> "order", key |-> cached[cl]])
    /\ loaded' = loaded \cup {Len(log')}
    /\ UNCHANGED <<boot, snap, ring, tls, streams, clients>>

TakeSnapshot ==
    /\ pc \in {"tasks", "grpc", "rest", "serving"} /\ Snapshots(cfg)
    /\ snap[SnapshotCipher(cfg)] < Len(log)
    /\ snap' = [snap EXCEPT ![SnapshotCipher(cfg)] = Len(log)]
    /\ UNCHANGED <<boot, log, ring, loaded, tls, streams, clients>>

\* KeyAdminHandler.upsert: registers a key, promotes or demotes it.
rest_register_key(k, status) ==
    /\ pc = "serving"
    /\ ring' = insert(ring, [id |-> k, status |-> status])
    /\ quiet' = Quietened(ring')
    /\ ring' # ring
    /\ UNCHANGED <<boot, durable, loaded, tls, streams, cached, age>>

rest_sunset_key(k) ==
    /\ pc = "serving" /\ k \in Ids(ring)
    /\ ring' = insert(ring, [id |-> k, status |-> "sunset"])
    /\ ring' # ring
    /\ UNCHANGED <<boot, durable, loaded, tls, streams, clients>>

\* The operator deletes a key once it was out of use for the cache time.
rest_delete_key(k) ==
    /\ pc = "serving" /\ k \in Ids(ring)
    /\ quiet[k] > Window
    /\ ring' = remove(ring, k)
    /\ UNCHANGED <<boot, durable, loaded, tls, streams, clients>>

\* Time for the clients' copies and for the keys that are not active.  A
\* boot and a drain take less than one unit of it.
Tick ==
    /\ pc \in {"down", "serving"}
    /\ quiet' = [k \in Keys |->
          IF k \in Active(ring) \/ quiet[k] > Window
          THEN quiet[k] ELSE quiet[k] + 1]
    /\ cached' = [cl \in Clients |->
          IF age[cl] >= Window THEN NoKey ELSE cached[cl]]
    /\ age' = [cl \in Clients |->
          IF cached'[cl] = NoKey THEN 0 ELSE age[cl] + 1]
    /\ clients' # clients
    /\ UNCHANGED <<boot, durable, ring, loaded, tls, streams>>

\* The operator renews the certificate: one file, then the other.  Writes
\* matter before a listener reads the files.
WriteFile(f) ==
    /\ pc \in {"grpc", "rest", "serving"} /\ tls_mode(cfg) = "tls"
    /\ disk[f] < MaxVersion
    /\ f = "key" => disk.cert > disk.key
    /\ f = "cert" => disk.cert = disk.key
    /\ disk' = [disk EXCEPT ![f] = @ + 1]
    /\ UNCHANGED <<boot, durable, ring, loaded, grpc, rest, streams,
                   clients>>

ReloadCert_unpaired(loaded_pair) == loaded_pair

\* A reload that cannot pair the files keeps the previous certificate.
ReloadCert(loaded_pair) == IF with_single_cert(disk) THEN loaded_pair ELSE rest

\* SIGHUP reloads the REST listener; the gRPC one waits for a restart.
Sighup ==
    /\ pc = "serving" /\ tls_mode(cfg) # "plaintext"
    /\ rest' = ReloadCert(Serving(cfg))
    /\ rest' # rest
    /\ UNCHANGED <<boot, durable, ring, loaded, disk, grpc, streams,
                   clients>>

-----------------------------------------------------------------------------
(* Shutdown: cancel every task, then wait for each.                        *)

StreamTimeout_never(open) == open

\* with_auction_stream_timeout(request_timeout) ends it, client or not.
StreamTimeout(open) == ~open

CloseStream ==
    /\ streams
    /\ streams' = StreamTimeout(streams)
    /\ UNCHANGED <<boot, durable, ring, loaded, tls, clients>>

\* Ctrl-C or SIGTERM: the token is cancelled, perhaps with a stream open.
Cancel ==
    /\ pc = "serving"
    /\ Goto("drain")
    /\ streams' \in {FALSE, grpc.up}
    /\ UNCHANGED <<durable, ring, loaded, tls, clients>>

\* main awaits its tasks one after the other.  The tick, the gauge, the
\* snapshotter and the reload task select on the token and the REST drain
\* gives up after ten seconds; serve_with_shutdown waits for open streams.
Exit ==
    /\ pc = "drain" /\ ~streams
    /\ Gone
    /\ why' = why

Kill ==
    /\ pc # "down"
    /\ Gone
    /\ why' = why

Next ==
    \/ \E c \in Configs : StartProcess(c)
    \/ Validate \/ OpenStores \/ LoadKeys \/ Recover \/ SeedPair
    \/ SpawnTasks \/ BuildGateway \/ ListenGrpc \/ ListenRest
    \/ \E cl \in Clients : rest_operator_pubkey(cl) \/ PlaceOrder(cl)
    \/ TakeSnapshot
    \/ \E k \in Keys :
          \/ \E s \in Statuses : rest_register_key(k, s)
          \/ rest_sunset_key(k)
          \/ rest_delete_key(k)
    \/ Tick
    \/ \E f \in {"cert", "key"} : WriteFile(f)
    \/ Sighup \/ CloseStream \/ Cancel
    \/ Exit \/ Kill

\* Timers fire and cancelled tasks end; nothing else is promised.
FairSpec ==
    /\ Init /\ [][Next]_vars
    /\ WF_vars(CloseStream)
    /\ WF_vars(Exit)

-----------------------------------------------------------------------------
(* Properties.                                                             *)

\* A process past recovery has taken in its whole log; recovery is refused
\* exactly when an order it has to replay was sealed to a key that the boot
\* was not given, whatever status that key has (recover.rs, main.rs keys).
BootReadsLog ==
    /\ pc \in {"seed", "tasks", "grpc", "rest", "serving", "drain"} =>
           loaded = DOMAIN log
    /\ pc = "recover" =>
           (Readable <=> \A i \in Replayed : log[i].kind = "order" =>
                            \E j \in DOMAIN cfg.keys : cfg.keys[j].id = log[i].key)

\* An order sealed to a key the node published within the cache time can be
\* opened, through promotions, demotions, restarts and deletions of keys
\* that were out of use for that long (rest_operator_pubkey's max-age).
PublishedKeyWorks ==
    pc = "serving" =>
        \A cl \in Clients : cached[cl] # NoKey => decrypts(ring, cached[cl])

\* "an invalid auth config fails closed without ever writing or ticking"
\* (main.rs:46): a boot that its checks refuse leaves the log as it was and
\* never had a task or a listener.
RefusalWritesNothing ==
    /\ pc = "down" /\ why \in {"validate", "stores", "keys"} => Len(log) = mark
    /\ pc \in {"validate", "stores", "keys"} =>
           loaded = {} /\ ~grpc.up /\ ~rest.up

\* A listener is never up with a certificate and a key of two renewals, in
\* the clear on a public address without --insecure, or with the admin
\* routes open without the opt-in, whatever was renewed or reloaded.
ListenersSafe ==
    \A l \in {grpc, rest} : l.up =>
        /\ l.cert = l.key
        /\ l.cert = 0 /\ Has(cfg, "public_bind") => Has(cfg, "insecure")
        /\ ~Has(cfg, "operator_api_keys") =>
               Has(cfg, "allow_unauthenticated_admin")

\* A cancelled process ends: every task it waits for does, the gRPC server
\* with its open streams included (main.rs:706-727).
ShutdownCompletes == pc = "drain" ~> pc = "down"
=============================================================================
