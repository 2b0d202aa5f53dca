------------------------------ MODULE Sessions --------------------------------
(***************************************************************************)
(* Sign-in with Ethereum and the requests made under it (dp-api: siwe.rs,  *)
(* auth.rs, handler.rs, admin.rs, rest.rs).  A client fetches a nonce,     *)
(* signs a message that carries it, exchanges it for a session token and   *)
(* places, cancels and reads orders as the token's wallet; operators       *)
(* change the pair with their own keys.                                    *)
(*                                                                         *)
(* Handlers run on many threads: verification ends in the nonce store's    *)
(* critical section after checks made outside of it, and a cancellation    *)
(* looks the order up before it asks the engine.                           *)
(*                                                                         *)
(* Times are relative, so that the clock needs no bound: a nonce has an    *)
(* age, a message or a token the time it has left.  The monotonic clock of *)
(* the store and the wall clock of the messages advance together.          *)
(***************************************************************************)
EXTENDS Integers, Sequences, FiniteSets

CONSTANTS
    Wallets, IPs,
    Challenges,        \* 1..n, the random nonces siwe::generate_nonce returns
    Signable,          \* what may be signed: [wallet, site, issued, exp, nbf]
    expected_site,     \* the configured domain and chain id
    Bodies,            \* PlaceOrder requests: [commitment, proof, ciphertext, trader]
    KeyConfigs,        \* configured api keys: [public, operator]
    OrderIds,          \* 1..n, the ids of the orders
    Calls,             \* requests that may be in progress, to verify or to cancel
    NONCE_TTL, ISSUED_AT_LEEWAY, session_ttl, JWT_LEEWAY,
    MAX_NONCES, MAX_NONCES_PER_IP, MAX_PROOF_BYTES, MAX_CIPHERTEXT_BYTES,
    MaxSigned          \* bound: messages the wallets sign

MAX_EXPIRY_WINDOW == 2 * NONCE_TTL

NoExpiry == -2         \* a message without expiration time
Past     == -1         \* any time that has passed

ASSUME SessionsAssumption ==
    /\ NONCE_TTL \in Nat /\ ISSUED_AT_LEEWAY \in Nat /\ JWT_LEEWAY \in Nat
    /\ session_ttl \in Nat
    /\ MAX_NONCES \in Nat /\ MAX_NONCES_PER_IP \in Nat \ {0} /\ MaxSigned \in Nat
    /\ IsFiniteSet(Challenges) /\ Challenges = 1..Cardinality(Challenges)
    /\ OrderIds = 1..Cardinality(OrderIds)
    /\ {"open", "matched", "delisted"} \cap Wallets = {}
    /\ \A text \in Signable : {text.issued, text.exp, text.nbf} \subseteq Int

VARIABLES
    nonces,      \* NonceInner::nonces: nonce -> [age, owner]
    per_ip,      \* NonceInner::per_ip: client key -> outstanding nonces
    issued,      \* number of nonces ever issued
    signed,      \* the messages wallets have signed
    verifying,   \* call -> wallet and nonce of the message whose checks it has passed
    sessions,    \* the tokens issued, in order: [wallet, nonce, left]
    keys,        \* the api keys of this deployment
    pair,        \* status of the trading pair
    orders,      \* the orders placed: [trader, end]
    cancelling,  \* call -> the cancellation between check and act
    operator     \* history: the headers of the last request that changed the pair

store   == <<nonces, per_ip, issued>>
engine  == <<pair, orders>>
vars    == <<store, signed, verifying, sessions, keys, engine, cancelling, operator>>

NoMessage == [wallet |-> "none", nonce |-> 0]
NoCancel  == [order |-> 0]

Idle(c) == verifying[c] = NoMessage /\ cancelling[c] = NoCancel

(***************************************************************************)
(* The nonce store.                                                        *)
(***************************************************************************)
Count(k) == IF k \in DOMAIN per_ip THEN per_ip[k] ELSE 0

(* per_ip once the nonces `gone` are credited back to their owners; an     *)
(* owner that is down to zero leaves the map.                              *)
decrement_owner_keeps_zero(gone) ==
    [k \in DOMAIN per_ip |-> per_ip[k] - Cardinality({n \in gone : nonces[n].owner = k})]

decrement_owner(gone) ==
    LET left(k) == per_ip[k] - Cardinality({n \in gone : nonces[n].owner = k})
    IN  [k \in {j \in DOMAIN per_ip : left(j) # 0} |-> left(k)]

WithoutNonces(gone) == [n \in DOMAIN nonces \ gone |-> nonces[n]]

Expired(n) == nonces[n].age > NONCE_TTL

(* rest_auth_nonce: k is the client key the rate limiter resolved.         *)
generate_for(k) ==
    /\ Cardinality(DOMAIN nonces) < MAX_NONCES
    /\ Count(k) < MAX_NONCES_PER_IP
    /\ issued + 1 \in Challenges
    /\ issued' = issued + 1
    /\ nonces' = [n \in DOMAIN nonces \union {issued'} |->
                     IF n = issued' THEN [age |-> 0, owner |-> k] ELSE nonces[n]]
    /\ per_ip' = [j \in DOMAIN per_ip \union {k} |-> IF j = k THEN Count(k) + 1 ELSE per_ip[j]]
    /\ UNCHANGED <<signed, verifying, sessions, keys, engine, cancelling, operator>>

(* Without the limiter's client key, every caller shares one budget.       *)
NoClientKey == "no key"
rest_auth_nonce(client) == generate_for(IF client = NoClientKey THEN "anonymous" ELSE client)

evict_stale_uncredited ==
    LET stale == {n \in DOMAIN nonces : Expired(n)}
    IN  /\ stale # {}
        /\ nonces' = WithoutNonces(stale)
        /\ UNCHANGED <<per_ip, issued, signed, verifying, sessions, keys, engine, cancelling, operator>>

evict_stale ==
    LET stale == {n \in DOMAIN nonces : Expired(n)}
    IN  /\ stale # {}
        /\ nonces' = WithoutNonces(stale)
        /\ per_ip' = decrement_owner(stale)
        /\ UNCHANGED <<issued, signed, verifying, sessions, keys, engine, cancelling, operator>>

(***************************************************************************)
(* Sign-in.                                                                *)
(***************************************************************************)
Sign(n, text) ==
    LET m == [wallet |-> text.wallet, nonce |-> n, site |-> text.site, issued |-> text.issued,
              exp |-> text.exp, nbf |-> text.nbf]
    IN  /\ n <= issued
        /\ m \notin signed /\ Cardinality(signed) < MaxSigned
        /\ signed' = signed \union {m}
        /\ UNCHANGED <<store, verifying, sessions, keys, engine, cancelling, operator>>

(* What verify_siwe_message asks of a message before it takes the nonce.   *)
MessageValid(m) ==
    /\ m.site = expected_site
    /\ m.issued <= ISSUED_AT_LEEWAY
    /\ m.exp # NoExpiry /\ m.exp # Past /\ m.exp <= MAX_EXPIRY_WINDOW
    /\ m.nbf = 0

(* rest_auth_verify up to the signature, which only a signed message has.  *)
(* A message may be sent any number of times, by anyone.                   *)
CheckMessage(c, m) ==
    /\ Idle(c)
    /\ m \in signed
    /\ MessageValid(m)
    /\ verifying' = [verifying EXCEPT ![c] = [wallet |-> m.wallet, nonce |-> m.nonce]]
    /\ UNCHANGED <<store, signed, sessions, keys, engine, cancelling, operator>>

issue(m) == sessions' = Append(sessions, [wallet |-> m.wallet, nonce |-> m.nonce, left |-> session_ttl])

(* The nonce read and left for the eviction to remove.                     *)
consume_by_lookup(c) ==
    LET m == verifying[c]
    IN  /\ m # NoMessage
        /\ IF m.nonce \in DOMAIN nonces /\ ~ Expired(m.nonce) THEN issue(m) ELSE UNCHANGED sessions
        /\ verifying' = [verifying EXCEPT ![c] = NoMessage]
        /\ UNCHANGED <<store, signed, keys, engine, cancelling, operator>>

(* The critical section of verify_siwe_message and the token that follows. *)
(* A stale nonce is removed, and refused.                                  *)
consume(c) ==
    LET m == verifying[c]
    IN  /\ m # NoMessage
        /\ IF m.nonce \in DOMAIN nonces
           THEN /\ nonces' = WithoutNonces({m.nonce})
                /\ per_ip' = decrement_owner({m.nonce})
                /\ IF Expired(m.nonce) THEN UNCHANGED sessions ELSE issue(m)
           ELSE UNCHANGED <<nonces, per_ip, sessions>>
        /\ verifying' = [verifying EXCEPT ![c] = NoMessage]
        /\ UNCHANGED <<issued, signed, keys, engine, cancelling, operator>>

(***************************************************************************)
(* Who a request is from.  The headers of a request: the index of a        *)
(* session's token, or one of the values below it; and an api key.         *)
(***************************************************************************)
NoBearer    == 0
ForgedToken == -1

AllKeys == UNION {k.public \union k.operator : k \in KeyConfigs}
Headers == [bearer : {ForgedToken, NoBearer} \union DOMAIN sessions, key : {"none"} \union AllKeys]

Wallet(w) == [kind |-> "Wallet", address |-> w]
ApiKey    == [kind |-> "ApiKey"]
Refused   == [kind |-> "Unauthenticated"]

(* An expired token is accepted for the leeway of the jwt library.         *)
verify(token) == token \in DOMAIN sessions /\ sessions[token].left >= - JWT_LEEWAY

AuthCoreByDigests(configured, jwt) ==
    [auth_disabled |-> configured \ {""} = {}, digests |-> configured \ {""}, jwt |-> jwt]

AuthCore(configured, jwt) ==
    [auth_disabled |-> configured = {}, digests |-> configured \ {""}, jwt |-> jwt]

check(core, h) ==
    CASE h.bearer # NoBearer ->
            IF core.jwt /\ verify(h.bearer) THEN Wallet(sessions[h.bearer].wallet) ELSE Refused
      [] h.bearer = NoBearer /\ core.auth_disabled -> ApiKey
      [] h.bearer = NoBearer /\ ~ core.auth_disabled ->
            IF h.key \in core.digests THEN ApiKey ELSE Refused

PublicCaller(h)   == check(AuthCore(keys.public, TRUE), h)
OperatorCaller(h) == check(AuthCore(keys.operator, FALSE), h)

(* The address order handlers scope a request by; an api key has none.     *)
caller_address(h) ==
    LET id == PublicCaller(h) IN IF id.kind = "Wallet" THEN {id.address} ELSE {}

(***************************************************************************)
(* Orders.  An order that left the book keeps the reason it left: "open",  *)
(* "matched", "delisted", or the wallet whose request cancelled it.        *)
(***************************************************************************)
Open(o)  == o \in DOMAIN orders /\ orders[o].end = "open"
OpenIds  == {o \in DOMAIN orders : Open(o)}
Ends(gone, end) == [o \in DOMAIN orders |-> IF o \in gone THEN [orders[o] EXCEPT !.end = end] ELSE orders[o]]

validate_place_order(body) ==
    /\ body.commitment > 0
    /\ body.proof \in 1..MAX_PROOF_BYTES
    /\ body.ciphertext \in 1..MAX_CIPHERTEXT_BYTES

(* The engine refuses a payload that names another trader than the caller. *)
place_order(h, body) ==
    /\ body.trader \in caller_address(h)
    /\ validate_place_order(body)
    /\ pair = "Active"
    /\ Len(orders) + 1 \in OrderIds
    /\ orders' = Append(orders, [trader |-> body.trader, end |-> "open"])
    /\ UNCHANGED <<store, signed, verifying, sessions, keys, pair, cancelling, operator>>

(* The body limit comes before the handler.                                *)
PLACE_ORDER_BODY_LIMIT == (MAX_PROOF_BYTES + MAX_CIPHERTEXT_BYTES) * 2

rest_place_order(h, body) ==
    /\ body.proof + body.ciphertext <= PLACE_ORDER_BODY_LIMIT
    /\ place_order(h, body)

CheckCancelAnyOwner(c, h, o) ==
    /\ Idle(c)
    /\ Open(o) /\ caller_address(h) # {}
    /\ cancelling' = [cancelling EXCEPT ![c] = [order |-> o, caller |-> CHOOSE w \in caller_address(h) : TRUE]]
    /\ UNCHANGED <<store, signed, verifying, sessions, keys, engine, operator>>

(* The order is looked up and must be the caller's.                        *)
CheckCancel(c, h, o) ==
    /\ Idle(c)
    /\ Open(o) /\ orders[o].trader \in caller_address(h)
    /\ cancelling' = [cancelling EXCEPT ![c] = [order |-> o, caller |-> orders[o].trader]]
    /\ UNCHANGED <<store, signed, verifying, sessions, keys, engine, operator>>

(* The engine cancels by id alone; the order may be gone by now.           *)
cancel_order(c) ==
    LET cancel == cancelling[c]
    IN  /\ cancel # NoCancel
        /\ IF Open(cancel.order)
           THEN orders' = Ends({cancel.order}, cancel.caller)
           ELSE UNCHANGED orders
        /\ cancelling' = [cancelling EXCEPT ![c] = NoCancel]
        /\ UNCHANGED <<store, signed, verifying, sessions, keys, pair, operator>>

(* GetOrder and ListOrders answer with the caller's resting orders only; a *)
(* list filtered by pair needs one that is known and not delisted.         *)
validate_pair_known == pair \in {"Active", "Suspended"}

get_order(h, o) == {p \in OpenIds \cap {o} : orders[p].trader \in caller_address(h)}

list_orders(h, filtered) ==
    {o \in OpenIds : /\ orders[o].trader \in caller_address(h)
                     /\ filtered => validate_pair_known}

(* The tick matches resting orders of an active pair.                      *)
EngineMatch(o) ==
    /\ pair = "Active" /\ Open(o)
    /\ orders' = Ends({o}, "matched")
    /\ UNCHANGED <<store, signed, verifying, sessions, keys, pair, cancelling, operator>>

(***************************************************************************)
(* The operator's routes.  Requests that do not parse never get here.      *)
(***************************************************************************)
AdminRequest(h) ==
    /\ OperatorCaller(h) # Refused
    /\ operator' = h
    /\ UNCHANGED <<store, signed, verifying, sessions, keys, cancelling>>

register_pair(h) ==
    /\ AdminRequest(h)
    /\ pair = "Unknown" /\ pair' = "Active"
    /\ UNCHANGED orders

suspend_pair(h) ==
    /\ AdminRequest(h)
    /\ pair = "Active" /\ pair' = "Suspended"
    /\ UNCHANGED orders

delist_pair(h) ==
    /\ AdminRequest(h)
    /\ pair \in {"Active", "Suspended"} /\ pair' = "Delisted"
    /\ orders' = Ends(OpenIds, "delisted")

(***************************************************************************)
(* Time.                                                                   *)
(***************************************************************************)
Down(t, floor) == IF t > floor THEN t - 1 ELSE t

Later(m) == [m EXCEPT !.issued = Down(@, 0), !.exp = IF @ = NoExpiry THEN @ ELSE Down(@, Past),
                      !.nbf = Down(@, 0)]

ClockTick ==
    /\ nonces' = [n \in DOMAIN nonces |->
                     [nonces[n] EXCEPT !.age = IF Expired(n) THEN @ ELSE @ + 1]]
    /\ signed' = {Later(m) : m \in signed}
    /\ sessions' = [i \in DOMAIN sessions |->
                       [sessions[i] EXCEPT !.left = Down(@, - JWT_LEEWAY - 1)]]
    /\ UNCHANGED <<per_ip, issued, verifying, keys, engine, cancelling, operator>>

-----------------------------------------------------------------------------
Init ==
    /\ nonces = <<>> /\ per_ip = <<>> /\ issued = 0
    /\ signed = {} /\ sessions = <<>>
    /\ verifying = [c \in Calls |-> NoMessage]
    /\ keys \in KeyConfigs
    /\ pair = "Unknown" /\ orders = <<>>
    /\ cancelling = [c \in Calls |-> NoCancel]
    /\ operator = [bearer |-> NoBearer, key |-> "none"]

router(h) ==
    \/ \E body \in Bodies : rest_place_order(h, body)
    \/ \E c \in Calls, o \in DOMAIN orders : CheckCancel(c, h, o)

admin_router(h) == register_pair(h) \/ suspend_pair(h) \/ delist_pair(h)

Next ==
    \/ \E k \in IPs : rest_auth_nonce(k)
    \/ evict_stale
    \/ \E n \in Challenges, text \in Signable : Sign(n, text)
    \/ \E c \in Calls :
        \/ \E m \in signed : CheckMessage(c, m)
        \/ consume(c)
        \/ cancel_order(c)
    \/ \E h \in Headers : router(h) \/ admin_router(h)
    \/ \E o \in DOMAIN orders : EngineMatch(o)
    \/ ClockTick

Spec == Init /\ [][Next]_vars

(* start_cleanup runs evict_stale every minute, and time passes.           *)
Fairness == WF_vars(evict_stale) /\ WF_vars(ClockTick)

FairSpec == Spec /\ Fairness

-----------------------------------------------------------------------------
(* The per-client count is exactly the client's outstanding nonces, over   *)
(* every order of issue, sign-in, expiry and cleanup: no slot is lost for  *)
(* good and none is given twice, the limits hold, and a client without     *)
(* nonces has no entry, so that the map stays as small as the store.       *)
NonceAccounting ==
    /\ DOMAIN nonces \subseteq 1..issued
    /\ Cardinality(DOMAIN nonces) <= MAX_NONCES
    /\ DOMAIN per_ip = {nonces[n].owner : n \in DOMAIN nonces}
    /\ \A k \in DOMAIN per_ip :
        /\ per_ip[k] = Cardinality({n \in DOMAIN nonces : nonces[n].owner = k})
        /\ per_ip[k] <= MAX_NONCES_PER_IP

(* A session speaks for a wallet that signed a message for this site with  *)
(* the very nonce the session was opened by.                               *)
SessionsSigned ==
    \A i \in DOMAIN sessions :
        \E m \in signed : /\ m.wallet = sessions[i].wallet
                          /\ m.nonce = sessions[i].nonce
                          /\ m.site = expected_site

(* An order belongs to a wallet that signed in, is cancelled by nobody     *)
(* else whatever happened between the ownership check and the engine's     *)
(* cancel, and is shown to nobody else.                                    *)
OrdersOwned ==
    /\ \A o \in DOMAIN orders :
        /\ \E i \in DOMAIN sessions : sessions[i].wallet = orders[o].trader
        /\ orders[o].end \in Wallets => orders[o].end = orders[o].trader
    /\ \A h \in Headers, o \in DOMAIN orders :
        o \in get_order(h, o) \union list_orders(h, FALSE) =>
            h.bearer \in DOMAIN sessions /\ sessions[h.bearer].wallet = orders[o].trader

(* The pair changes only at the request of a configured operator key, also *)
(* when the only configured key is the empty string; a trader's token is   *)
(* none.  Without operator keys the routes are open.                       *)
PairChangedByOperator ==
    pair # "Unknown" /\ keys.operator # {} =>
        /\ operator.bearer = NoBearer
        /\ operator.key \in keys.operator \ {""}

(* Everything a request did, it was entitled to: the chain from the signed *)
(* message over the nonce and the token to the order, and the operator's   *)
(* keys.                                                                   *)
ActsAuthorised == SessionsSigned /\ OrdersOwned /\ PairChangedByOperator

(* The sign-in service implements SingleUse: a nonce opens at most one     *)
(* session, and none once it is older than NONCE_TTL, with two verify      *)
(* calls of the same message in flight, and with eviction and expiry       *)
(* between the checks and the store's critical section.                    *)
Outstanding == {n \in DOMAIN nonces : ~ Expired(n)}

Promise == INSTANCE SingleUse WITH
    outstanding <- Outstanding,
    closed      <- (1..issued) \ Outstanding,
    opened      <- [n \in Challenges |-> Cardinality({i \in DOMAIN sessions : sessions[i].nonce = n})]

LoginPromise == Promise!Spec

(* A client at its nonce limit gets below it again, although no nonce of   *)
(* its is ever used.                                                       *)
NoncesComeBack == \A k \in IPs : Count(k) = MAX_NONCES_PER_IP ~> Count(k) < MAX_NONCES_PER_IP
=============================================================================
