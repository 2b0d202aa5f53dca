SPECIFICATION FairSpec
CONSTANTS
    alice = alice
    bob = bob
    here = here
    elsewhere = elsewhere
    Wallets = {alice, bob}
    IPs = {ip1, "no key"}
    Challenges = {1, 2}
    Signable <- MCSignable
    expected_site = here
    Bodies <- MCBodies
    KeyConfigs <- MCKeyConfigs
    OrderIds = {1}
    Calls = {c1, c2}
    NONCE_TTL = 1
    ISSUED_AT_LEEWAY = 0
    session_ttl = 1
    JWT_LEEWAY = 0
    MAX_NONCES = 2
    MAX_NONCES_PER_IP = 1
    MAX_PROOF_BYTES = 1
    MAX_CIPHERTEXT_BYTES = 1
    MaxSigned = 2
INVARIANTS
    NonceAccounting
    
PROPERTIES
    LoginPromise
    NoncesComeBack
