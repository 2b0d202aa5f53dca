------------------------------- MODULE MCNode -------------------------------
(***************************************************************************)
(* Node on two keys, one client and the configurations below: a sound one  *)
(* with its key lists and seeds, and one deviation from it per check.      *)
(***************************************************************************)
EXTENDS Node

CONSTANTS k1, k2, c1

Sound == {"siwe_enabled", "session_secret", "operator_api_keys", "eth_rpc",
          "signer_key_uri", "settlement_private_rpc", "contract_addr",
          "tls_cert", "tls_key", "public_bind", "snapshot_enabled",
          "snapshot_dir", "snapshot_key_uri", "order_proof_vk",
          "aggregator_bin", "zk_proving_key"}

Spec(k, s) == [id |-> k, status |-> s]
Seed(p, d) == [pair |-> p, decimals |-> d]

Both     == <<Spec(k1, ""), Spec(k2, "")>>
KeyLists == {<<Spec(k1, "")>>, <<Spec(k2, "")>>,
             <<Spec(k1, "sunset"), Spec(k2, "active")>>}
GoodSeed == <<Seed("p1", 18)>>
BadSeed  == <<Seed("p1", 18), Seed("p2", 31)>>

Config(opts, keys, seed) == [opts |-> opts, keys |-> keys, seed |-> seed]

\* One option dropped or added: refused, each at its own stage.
Deviations ==
    {Sound \ {o} : o \in {"session_secret", "operator_api_keys", "tls_key",
                           "settlement_private_rpc", "contract_addr",
                           "snapshot_key_uri", "order_proof_vk",
                           "zk_proving_key"}}
    \cup {Sound \cup {o} : o \in {"zero_limit", "session_secret_short",
                                  "bad_operator_key"}}
    \cup {Sound \ {"tls_cert", "tls_key"},
          (Sound \ {"snapshot_dir"}) \cup {"bad_trusted_proxies"}}

\* In the clear behind a proxy, with another snapshot key.
Behind == (Sound \ {"tls_cert", "tls_key"})
             \cup {"insecure", "snapshot_key_rotated"}

MCConfigs ==
    {Config(Sound, ks, GoodSeed) : ks \in KeyLists}
    \cup {Config(Sound, Both, BadSeed)}
    \cup {Config(o, Both, GoodSeed) : o \in Deviations \cup {Behind}}
=============================================================================
