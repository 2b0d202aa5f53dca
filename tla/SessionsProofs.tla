--------------------------- MODULE SessionsProofs ----------------------------
(***************************************************************************)
(* Proofs about sign-in and the requests made under it, for any wallets,   *)
(* messages, key configurations, limits and number of calls in flight: the *)
(* nonce store's accounting, who may do what, and that sign-in implements  *)
(* SingleUse.                                                              *)
(***************************************************************************)
EXTENDS Sessions, FiniteSetTheorems, SequenceTheorems, TLAPS

Signers == {text.wallet : text \in Signable}
Sites   == {text.site : text \in Signable}
Owners  == IPs \union {"anonymous"}

SignedMessages == [wallet : Signers, nonce : Challenges, site : Sites,
                   issued : Int, exp : Int, nbf : Int]

Messages == [wallet : Signers, nonce : Challenges]
Tokens   == [wallet : Signers, nonce : Challenges, left : Int]
Cancels  == [order : Nat \ {0}, caller : Signers]
Placed   == [trader : Signers, end : {"open", "matched", "delisted"} \union Signers]

TypeOK ==
    /\ issued \in Nat /\ 1..issued \subseteq Challenges
    /\ DOMAIN nonces \subseteq 1..issued
    /\ \A n \in DOMAIN nonces : nonces[n] \in [age : Nat, owner : Owners]
    /\ signed \subseteq SignedMessages
    /\ verifying \in [Calls -> Messages \union {NoMessage}]
    /\ sessions \in Seq(Tokens)
    /\ orders \in Seq(Placed)
    /\ cancelling \in [Calls -> Cancels \union {NoCancel}]

(* A nonce is within the wallet's message, whichever call carries it.      *)
Witnessed(wallet, nonce) ==
    \E m \in signed : m.wallet = wallet /\ m.nonce = nonce /\ m.site = expected_site

(* Between check and act: a call that has passed its checks is for a       *)
(* message that was signed for this site, or for an order of its caller.   *)
ChecksHold ==
    \A c \in Calls :
        /\ verifying[c] # NoMessage => Witnessed(verifying[c].wallet, verifying[c].nonce)
        /\ cancelling[c] # NoCancel =>
              /\ cancelling[c].order \in DOMAIN orders
              /\ cancelling[c].caller = orders[cancelling[c].order].trader

(* Who placed the orders and who cancelled them.                           *)
OrdersTraced ==
    \A o \in DOMAIN orders :
        /\ \E i \in DOMAIN sessions : sessions[i].wallet = orders[o].trader
        /\ orders[o].end \in Wallets => orders[o].end = orders[o].trader

(* The inductive invariant behind ActsAuthorised.                          *)
AuthInv == TypeOK /\ ChecksHold /\ SessionsSigned /\ OrdersTraced /\ PairChangedByOperator

-----------------------------------------------------------------------------
(* Facts about the operators of the model.                                 *)

(* A sequence's indices and elements.                                      *)
LEMMA SeqElements ==
    ASSUME NEW S, NEW s \in Seq(S)
    PROVE  /\ Len(s) \in Nat /\ DOMAIN s = 1..Len(s)
           /\ \A i \in DOMAIN s : i \in Nat \ {0} /\ s[i] \in S
  BY LenProperties, ElementOfSeq

(* A sequence that is appended to keeps what it has.                       *)
LEMMA AppendKeeps ==
    ASSUME NEW S, NEW s \in Seq(S), NEW x \in S
    PROVE  /\ Append(s, x) \in Seq(S)
           /\ DOMAIN Append(s, x) = DOMAIN s \union {Len(s) + 1}
           /\ Len(s) + 1 \notin DOMAIN s
           /\ \A i \in DOMAIN s : Append(s, x)[i] = s[i]
           /\ Append(s, x)[Len(s) + 1] = x
  BY AppendProperties, LenProperties

(* Orders that leave the book stay in the record, with their traders.      *)
LEMMA EndsKeeps ==
    ASSUME orders \in Seq(Placed), NEW gone,
           NEW end \in {"open", "matched", "delisted"} \union Signers
    PROVE  /\ Ends(gone, end) \in Seq(Placed)
           /\ DOMAIN Ends(gone, end) = DOMAIN orders
           /\ \A o \in DOMAIN orders :
                 /\ Ends(gone, end)[o].trader = orders[o].trader
                 /\ Ends(gone, end)[o].end = IF o \in gone THEN end ELSE orders[o].end
  <1>1. DOMAIN orders = 1..Len(orders) /\ Len(orders) \in Nat
        /\ \A o \in DOMAIN orders : orders[o] \in Placed
    BY LenProperties, ElementOfSeq
  <1> DEFINE after == Ends(gone, end)
  <1>2. /\ DOMAIN after = DOMAIN orders
        /\ \A o \in DOMAIN orders :
              /\ after[o] \in Placed
              /\ after[o].trader = orders[o].trader
              /\ after[o].end = IF o \in gone THEN end ELSE orders[o].end
    BY <1>1 DEF Ends, Placed
  <1>3. after \in Seq(Placed)
    <2>1. after = [o \in 1..Len(orders) |-> after[o]]
      BY <1>1 DEF Ends
    <2> HIDE DEF after
    <2> QED
      BY <1>1, <1>2, <2>1, IsASeq
  <1> QED
    BY <1>2, <1>3

(* Who asks for a wallet's orders holds a token of that wallet.            *)
LEMMA CallerHoldsToken ==
    ASSUME NEW h, NEW w \in caller_address(h)
    PROVE  h.bearer \in DOMAIN sessions /\ sessions[h.bearer].wallet = w
  <1>1. PublicCaller(h).kind = "Wallet" /\ w = PublicCaller(h).address
    BY DEF caller_address
  <1>2. h.bearer # NoBearer /\ verify(h.bearer) /\ PublicCaller(h) = Wallet(sessions[h.bearer].wallet)
    BY <1>1 DEF PublicCaller, check, AuthCore, ApiKey, Refused
  <1> QED
    BY <1>1, <1>2 DEF verify, Wallet

(* An operator's routes are closed to tokens, and to the empty key.        *)
LEMMA OperatorHasKey ==
    ASSUME NEW h, OperatorCaller(h) # Refused, keys.operator # {}
    PROVE  h.bearer = NoBearer /\ h.key \in keys.operator \ {""}
  BY DEF OperatorCaller, check, AuthCore

(* Time does not change who signed what, and where.                        *)
LEMMA LaterKeeps ==
    ASSUME NEW m \in SignedMessages
    PROVE  /\ Later(m) \in SignedMessages
           /\ Later(m).wallet = m.wallet /\ Later(m).nonce = m.nonce /\ Later(m).site = m.site
  <1>1. /\ Down(m.issued, 0) \in Int /\ Down(m.nbf, 0) \in Int
        /\ (IF m.exp = NoExpiry THEN m.exp ELSE Down(m.exp, Past)) \in Int
    BY DEF SignedMessages, Down, Past
  <1> QED
    BY <1>1 DEF Later, SignedMessages

-----------------------------------------------------------------------------
(* Each action keeps the types and the chain of authority.                 *)

(* What only depends on variables a step leaves alone.                     *)
LEMMA AuthFrame ==
    ASSUME AuthInv, UNCHANGED <<signed, verifying, sessions, keys, pair, orders, cancelling, operator>>
    PROVE  ChecksHold' /\ SessionsSigned' /\ OrdersTraced' /\ PairChangedByOperator'
  BY DEF AuthInv, ChecksHold, SessionsSigned, OrdersTraced, PairChangedByOperator, Witnessed

(* generate_for hands out the next challenge and no other.                 *)
LEMMA GenerateKeeps ==
    ASSUME AuthInv, NEW k \in Owners, generate_for(k)
    PROVE  AuthInv'
  <1>1. issued' \in Nat /\ issued' = issued + 1 /\ 1..issued' \subseteq Challenges
    <2>1. issued + 1 \in Challenges /\ issued' = issued + 1
      BY DEF generate_for
    <2>2. Challenges = 1..Cardinality(Challenges) /\ Cardinality(Challenges) \in Nat
      BY SessionsAssumption, FS_CardinalityType
    <2> QED
      BY <2>1, <2>2 DEF AuthInv, TypeOK
  <1>2. /\ DOMAIN nonces' \subseteq 1..issued'
        /\ \A n \in DOMAIN nonces' : nonces'[n] \in [age : Nat, owner : Owners]
    <2>1. nonces' = [n \in DOMAIN nonces \union {issued'} |->
                        IF n = issued' THEN [age |-> 0, owner |-> k] ELSE nonces[n]]
      BY DEF generate_for
    <2> QED
      BY <1>1, <2>1 DEF AuthInv, TypeOK
  <1>3. UNCHANGED <<signed, verifying, sessions, keys, pair, orders, cancelling, operator>>
    BY DEF generate_for, engine
  <1>4. TypeOK'
    BY <1>1, <1>2, <1>3 DEF AuthInv, TypeOK
  <1> QED
    BY <1>3, <1>4, AuthFrame DEF AuthInv

(* Eviction only takes nonces away.                                        *)
LEMMA EvictKeeps ==
    ASSUME AuthInv, evict_stale
    PROVE  AuthInv'
  <1>1. UNCHANGED <<issued, signed, verifying, sessions, keys, pair, orders, cancelling, operator>>
    BY DEF evict_stale, engine
  <1>2. PICK stale : nonces' = WithoutNonces(stale)
    BY DEF evict_stale
  <1>3. TypeOK'
    BY <1>1, <1>2 DEF AuthInv, TypeOK, WithoutNonces
  <1> QED
    BY <1>1, <1>3, AuthFrame DEF AuthInv

(* A wallet signs another message.                                         *)
LEMMA SignKeeps ==
    ASSUME AuthInv, NEW n \in Challenges, NEW text \in Signable, Sign(n, text)
    PROVE  AuthInv'
  <1> DEFINE m == [wallet |-> text.wallet, nonce |-> n, site |-> text.site, issued |-> text.issued,
                   exp |-> text.exp, nbf |-> text.nbf]
  <1>1. /\ signed' = signed \union {m}
        /\ UNCHANGED <<nonces, issued, verifying, sessions, keys, pair, orders, cancelling, operator>>
    BY DEF Sign, engine, store
  <1>2. m \in SignedMessages
    BY SessionsAssumption DEF SignedMessages, Signers, Sites
  <1> HIDE DEF m
  <1>3. TypeOK'
    BY <1>1, <1>2 DEF AuthInv, TypeOK
  <1>4. ChecksHold' /\ SessionsSigned' /\ OrdersTraced' /\ PairChangedByOperator'
    BY <1>1 DEF AuthInv, ChecksHold, SessionsSigned, OrdersTraced, PairChangedByOperator, Witnessed
  <1> QED
    BY <1>3, <1>4 DEF AuthInv

(* The checks of verify_siwe_message leave a call with a message for here. *)
LEMMA CheckMessageKeeps ==
    ASSUME AuthInv, NEW c \in Calls, NEW m \in signed, CheckMessage(c, m)
    PROVE  AuthInv'
  <1>1. /\ m.site = expected_site
        /\ verifying' = [verifying EXCEPT ![c] = [wallet |-> m.wallet, nonce |-> m.nonce]]
        /\ UNCHANGED <<nonces, issued, signed, sessions, keys, pair, orders, cancelling, operator>>
    BY DEF CheckMessage, MessageValid, engine, store
  <1>2. [wallet |-> m.wallet, nonce |-> m.nonce] \in Messages
    BY DEF AuthInv, TypeOK, SignedMessages, Messages
  <1>3. TypeOK'
    BY <1>1, <1>2 DEF AuthInv, TypeOK
  <1>4. ChecksHold'
    BY <1>1 DEF AuthInv, TypeOK, ChecksHold, Witnessed
  <1>5. SessionsSigned' /\ OrdersTraced' /\ PairChangedByOperator'
    BY <1>1 DEF AuthInv, SessionsSigned, OrdersTraced, PairChangedByOperator
  <1> QED
    BY <1>3, <1>4, <1>5 DEF AuthInv

(* The token a consumed nonce pays for is the signer's.                    *)
LEMMA ConsumeKeeps ==
    ASSUME AuthInv, NEW c \in Calls, consume(c)
    PROVE  AuthInv'
  <1> DEFINE m == verifying[c]
             token == [wallet |-> m.wallet, nonce |-> m.nonce, left |-> session_ttl]
  <1>1. /\ m # NoMessage
        /\ verifying' = [verifying EXCEPT ![c] = NoMessage]
        /\ UNCHANGED <<issued, signed, keys, pair, orders, cancelling, operator>>
    BY DEF consume, engine
  <1>2. sessions' = sessions \/ sessions' = Append(sessions, token)
    BY DEF consume, issue
  <1>3. nonces' = nonces \/ \E gone : nonces' = WithoutNonces(gone)
    BY DEF consume
  <1>4. m \in Messages /\ token \in Tokens /\ Witnessed(m.wallet, m.nonce)
    BY <1>1, SessionsAssumption DEF AuthInv, TypeOK, Messages, Tokens, ChecksHold
  <1> HIDE DEF token
  <1>5. /\ sessions' \in Seq(Tokens)
        /\ DOMAIN sessions \subseteq DOMAIN sessions'
        /\ \A i \in DOMAIN sessions : sessions'[i] = sessions[i]
        /\ \A i \in DOMAIN sessions' \ DOMAIN sessions : sessions'[i] = token
    <2>1. sessions \in Seq(Tokens)
      BY DEF AuthInv, TypeOK
    <2> QED
      BY <1>2, <1>4, <2>1, AppendKeeps
  <1>6. TypeOK'
    BY <1>1, <1>3, <1>5 DEF AuthInv, TypeOK, WithoutNonces
  <1>7. ChecksHold'
    BY <1>1 DEF AuthInv, TypeOK, ChecksHold, Witnessed
  <1>8. SessionsSigned'
    BY <1>1, <1>4, <1>5 DEF AuthInv, SessionsSigned, Witnessed, token
  <1>9. OrdersTraced' /\ PairChangedByOperator'
    BY ZenonT(60), <1>1, <1>5 DEF AuthInv, OrdersTraced, PairChangedByOperator
  <1> QED
    BY <1>6, <1>7, <1>8, <1>9 DEF AuthInv

(* An order is placed in the name of the token's wallet.                   *)
LEMMA PlaceKeeps ==
    ASSUME AuthInv, NEW h, NEW body, rest_place_order(h, body)
    PROVE  AuthInv'
  <1> DEFINE order == [trader |-> body.trader, end |-> "open"]
  <1>1. /\ body.trader \in caller_address(h)
        /\ orders' = Append(orders, order)
        /\ UNCHANGED <<nonces, issued, signed, verifying, sessions, keys, pair, cancelling, operator>>
    BY DEF rest_place_order, place_order, store
  <1>2. h.bearer \in DOMAIN sessions /\ sessions[h.bearer].wallet = body.trader
    BY <1>1, CallerHoldsToken
  <1>3. order \in Placed
    <2>1. sessions[h.bearer] \in Tokens
      BY <1>2, SeqElements DEF AuthInv, TypeOK
    <2> QED
      BY <1>2, <2>1 DEF Tokens, Placed
  <1>4. /\ orders' \in Seq(Placed)
        /\ DOMAIN orders \subseteq DOMAIN orders'
        /\ \A o \in DOMAIN orders : orders'[o] = orders[o]
        /\ \A o \in DOMAIN orders' \ DOMAIN orders : orders'[o] = order
    <2> HIDE DEF order
    <2> QED
      BY <1>1, <1>3 DEF AuthInv, TypeOK
  <1>5. TypeOK'
    BY <1>1, <1>4 DEF AuthInv, TypeOK
  <1>6. ChecksHold'
    BY <1>1, <1>4 DEF AuthInv, ChecksHold, Witnessed
  <1>7. OrdersTraced'
    BY <1>1, <1>2, <1>4, SessionsAssumption DEF AuthInv, OrdersTraced
  <1>8. SessionsSigned' /\ PairChangedByOperator'
    BY <1>1 DEF AuthInv, SessionsSigned, PairChangedByOperator
  <1> QED
    BY <1>5, <1>6, <1>7, <1>8 DEF AuthInv

(* The owner's check, before the engine is asked to cancel.                *)
LEMMA CheckCancelKeeps ==
    ASSUME AuthInv, NEW c \in Calls, NEW h, NEW o \in DOMAIN orders, CheckCancel(c, h, o)
    PROVE  AuthInv'
  <1>1. /\ cancelling' = [cancelling EXCEPT ![c] = [order |-> o, caller |-> orders[o].trader]]
        /\ UNCHANGED <<nonces, issued, signed, verifying, sessions, keys, pair, orders, operator>>
    BY DEF CheckCancel, engine, store
  <1>2. [order |-> o, caller |-> orders[o].trader] \in Cancels
    <2>1. orders[o] \in Placed /\ o \in Nat \ {0}
      BY SeqElements DEF AuthInv, TypeOK
    <2> QED
      BY <2>1 DEF Placed, Cancels
  <1>3. TypeOK'
    BY <1>1, <1>2 DEF AuthInv, TypeOK
  <1>4. ChecksHold'
    BY <1>1 DEF AuthInv, TypeOK, ChecksHold, Witnessed
  <1>5. SessionsSigned' /\ OrdersTraced' /\ PairChangedByOperator'
    BY <1>1 DEF AuthInv, SessionsSigned, OrdersTraced, PairChangedByOperator
  <1> QED
    BY <1>3, <1>4, <1>5 DEF AuthInv

(* The engine cancels whatever order the check has passed.                 *)
LEMMA CancelKeeps ==
    ASSUME AuthInv, NEW c \in Calls, cancel_order(c)
    PROVE  AuthInv'
  <1> DEFINE cancel == cancelling[c]
  <1>1. /\ cancel # NoCancel
        /\ orders' = orders \/ orders' = Ends({cancel.order}, cancel.caller)
        /\ cancelling' = [cancelling EXCEPT ![c] = NoCancel]
        /\ UNCHANGED <<nonces, issued, signed, verifying, sessions, keys, pair, operator>>
    BY DEF cancel_order, store
  <1>2. /\ cancel \in Cancels /\ cancel.order \in DOMAIN orders
        /\ cancel.caller = orders[cancel.order].trader
    BY <1>1 DEF AuthInv, TypeOK, ChecksHold
  <1>3. cancel.caller \in Signers /\ orders \in Seq(Placed)
    BY <1>2 DEF Cancels, AuthInv, TypeOK
  <1>4. /\ orders' \in Seq(Placed)
        /\ DOMAIN orders' = DOMAIN orders
        /\ \A o \in DOMAIN orders :
              /\ orders'[o].trader = orders[o].trader
              /\ orders'[o].end \in {orders[o].end, orders[o].trader}
    <2> HIDE DEF cancel
    <2>1. CASE orders' = orders
      BY <1>3, <2>1
    <2>2. CASE orders' = Ends({cancel.order}, cancel.caller)
      BY <1>2, <1>3, <2>2, EndsKeeps
    <2> QED
      BY <1>1, <2>1, <2>2
  <1> HIDE DEF cancel
  <1>5. TypeOK'
    BY <1>1, <1>4 DEF AuthInv, TypeOK
  <1>6. ChecksHold'
    BY <1>1, <1>4 DEF AuthInv, TypeOK, ChecksHold, Witnessed
  <1>7. OrdersTraced'
    BY <1>1, <1>4 DEF AuthInv, OrdersTraced
  <1>8. SessionsSigned' /\ PairChangedByOperator'
    BY <1>1 DEF AuthInv, SessionsSigned, PairChangedByOperator
  <1> QED
    BY <1>5, <1>6, <1>7, <1>8 DEF AuthInv

(* Orders that the tick or a delisting ends are nobody's cancellations.    *)
LEMMA EndedByEngine ==
    ASSUME AuthInv, NEW gone, NEW end \in {"matched", "delisted"},
           orders' = Ends(gone, end) \/ orders' = orders,
           UNCHANGED <<nonces, issued, signed, verifying, sessions, keys, cancelling>>
    PROVE  TypeOK' /\ ChecksHold' /\ SessionsSigned' /\ OrdersTraced'
  <1>1. orders \in Seq(Placed) /\ end \notin Wallets
    BY SessionsAssumption DEF AuthInv, TypeOK
  <1>2. /\ orders' \in Seq(Placed)
        /\ DOMAIN orders' = DOMAIN orders
        /\ \A o \in DOMAIN orders :
              /\ orders'[o].trader = orders[o].trader
              /\ orders'[o].end \in {orders[o].end, end}
    BY <1>1, EndsKeeps
  <1>3. TypeOK'
    BY <1>2 DEF AuthInv, TypeOK
  <1>4. ChecksHold'
    BY <1>2 DEF AuthInv, TypeOK, ChecksHold, Witnessed
  <1>5. OrdersTraced'
    BY <1>1, <1>2 DEF AuthInv, OrdersTraced
  <1>6. SessionsSigned'
    BY DEF AuthInv, SessionsSigned
  <1> QED
    BY <1>3, <1>4, <1>5, <1>6

(* The tick's matches.                                                     *)
LEMMA MatchKeeps ==
    ASSUME AuthInv, NEW o \in DOMAIN orders, EngineMatch(o)
    PROVE  AuthInv'
  <1>1. /\ orders' = Ends({o}, "matched")
        /\ UNCHANGED <<nonces, issued, signed, verifying, sessions, keys, pair, cancelling, operator>>
    BY DEF EngineMatch, store
  <1>2. TypeOK' /\ ChecksHold' /\ SessionsSigned' /\ OrdersTraced'
    BY <1>1, EndedByEngine
  <1>3. PairChangedByOperator'
    BY <1>1 DEF AuthInv, PairChangedByOperator
  <1> QED
    BY <1>2, <1>3 DEF AuthInv

(* The operator's routes.                                                  *)
LEMMA AdminKeeps ==
    ASSUME AuthInv, NEW h, admin_router(h)
    PROVE  AuthInv'
  <1>1. /\ OperatorCaller(h) # Refused /\ operator' = h
        /\ UNCHANGED <<nonces, issued, signed, verifying, sessions, keys, cancelling>>
        /\ orders' = orders \/ orders' = Ends(OpenIds, "delisted")
    BY DEF admin_router, register_pair, suspend_pair, delist_pair, AdminRequest, store
  <1>2. TypeOK' /\ ChecksHold' /\ SessionsSigned' /\ OrdersTraced'
    BY <1>1, EndedByEngine
  <1>3. PairChangedByOperator'
    BY <1>1, OperatorHasKey DEF PairChangedByOperator
  <1> QED
    BY <1>2, <1>3 DEF AuthInv

(* Time passes.                                                            *)
LEMMA ClockKeeps ==
    ASSUME AuthInv, ClockTick
    PROVE  AuthInv'
  <1>1. /\ signed' = {Later(m) : m \in signed}
        /\ UNCHANGED <<issued, verifying, keys, pair, orders, cancelling, operator>>
    BY DEF ClockTick, engine
  <1>2. /\ DOMAIN nonces' = DOMAIN nonces
        /\ \A n \in DOMAIN nonces' : nonces'[n] \in [age : Nat, owner : Owners]
    <2> DEFINE age(n) == IF Expired(n) THEN nonces[n].age ELSE nonces[n].age + 1
    <2>1. /\ nonces' = [n \in DOMAIN nonces |-> [nonces[n] EXCEPT !.age = age(n)]]
          /\ \A n \in DOMAIN nonces : nonces[n] \in [age : Nat, owner : Owners]
      BY DEF ClockTick, AuthInv, TypeOK
    <2>2. \A n \in DOMAIN nonces : age(n) \in Nat
      BY <2>1
    <2> HIDE DEF age
    <2> QED
      BY <2>1, <2>2
  <1>3. /\ sessions' \in Seq(Tokens) /\ DOMAIN sessions' = DOMAIN sessions
        /\ \A i \in DOMAIN sessions : /\ sessions'[i].wallet = sessions[i].wallet
                                      /\ sessions'[i].nonce = sessions[i].nonce
    <2> DEFINE left(i) == Down(sessions[i].left, - JWT_LEEWAY - 1)
    <2>1. /\ sessions' = [i \in DOMAIN sessions |-> [sessions[i] EXCEPT !.left = left(i)]]
          /\ sessions \in Seq(Tokens) /\ Len(sessions) \in Nat /\ DOMAIN sessions = 1..Len(sessions)
      BY DEF ClockTick, AuthInv, TypeOK
    <2>2. ASSUME NEW i \in DOMAIN sessions PROVE left(i) \in Int /\ sessions[i] \in Tokens
      <3>1. sessions[i] \in Tokens
        BY <2>1, SeqElements
      <3> QED
        BY <3>1, SessionsAssumption DEF Down, Tokens
    <2> HIDE DEF left
    <2>3. ASSUME NEW i \in DOMAIN sessions
          PROVE  /\ sessions'[i] \in Tokens
                 /\ sessions'[i].wallet = sessions[i].wallet
                 /\ sessions'[i].nonce = sessions[i].nonce
      BY <2>1, <2>2 DEF Tokens
    <2>4. sessions' \in Seq(Tokens)
      <3>1. sessions' \in [1..Len(sessions) -> Tokens]
        BY <2>1, <2>3
      <3> QED
        BY <2>1, <3>1, SeqDef
    <2> QED
      BY <2>1, <2>3, <2>4
  <1>4. signed' \subseteq SignedMessages
    BY <1>1, LaterKeeps DEF AuthInv, TypeOK
  <1>5. ASSUME NEW w, NEW n, Witnessed(w, n) PROVE Witnessed(w, n)'
    BY <1>1, <1>5, LaterKeeps DEF AuthInv, TypeOK, Witnessed
  <1>6. TypeOK'
    BY <1>1, <1>2, <1>3, <1>4 DEF AuthInv, TypeOK
  <1>7. ChecksHold'
    BY <1>1, <1>5 DEF AuthInv, ChecksHold
  <1>8. SessionsSigned'
    <2>1. ASSUME NEW i \in DOMAIN sessions
          PROVE  Witnessed(sessions[i].wallet, sessions[i].nonce)'
      <3>1. Witnessed(sessions[i].wallet, sessions[i].nonce)
        BY DEF AuthInv, SessionsSigned, Witnessed
      <3>2. \E m \in signed' : /\ m.wallet = sessions[i].wallet /\ m.nonce = sessions[i].nonce
                                /\ m.site = expected_site
        BY <1>1, <3>1, LaterKeeps DEF AuthInv, TypeOK, Witnessed
      <3> QED
        BY <1>3, <3>2 DEF Witnessed
    <2> QED
      BY <1>3, <2>1 DEF SessionsSigned, Witnessed
  <1>9. OrdersTraced' /\ PairChangedByOperator'
    BY ZenonT(60), <1>1, <1>3 DEF AuthInv, OrdersTraced, PairChangedByOperator
  <1> QED
    BY <1>6, <1>7, <1>8, <1>9 DEF AuthInv

(* The server starts without nonces, messages, tokens and orders.          *)
LEMMA AuthInit == Init => AuthInv
  <1> SUFFICES ASSUME Init PROVE AuthInv
    OBVIOUS
  <1>1. TypeOK
    BY DEF Init, TypeOK
  <1>2. ChecksHold /\ SessionsSigned /\ OrdersTraced /\ PairChangedByOperator
    BY DEF Init, ChecksHold, SessionsSigned, OrdersTraced, PairChangedByOperator
  <1> QED
    BY <1>1, <1>2 DEF AuthInv

(* Every step keeps the chain of authority.                                *)
LEMMA AuthNext == AuthInv /\ [Next]_vars => AuthInv'
  <1> SUFFICES ASSUME AuthInv, [Next]_vars PROVE AuthInv'
    OBVIOUS
  <1>1. ASSUME NEW k \in IPs, rest_auth_nonce(k) PROVE AuthInv'
    <2>1. \E j \in Owners : generate_for(j)
      BY <1>1 DEF rest_auth_nonce, Owners
    <2> QED
      BY <2>1, GenerateKeeps
  <1>2. CASE evict_stale
    BY <1>2, EvictKeeps
  <1>3. ASSUME NEW n \in Challenges, NEW text \in Signable, Sign(n, text) PROVE AuthInv'
    BY <1>3, SignKeeps
  <1>4. ASSUME NEW c \in Calls, NEW m \in signed, CheckMessage(c, m) PROVE AuthInv'
    BY <1>4, CheckMessageKeeps
  <1>5. ASSUME NEW c \in Calls, consume(c) PROVE AuthInv'
    BY <1>5, ConsumeKeeps
  <1>6. ASSUME NEW c \in Calls, cancel_order(c) PROVE AuthInv'
    BY <1>6, CancelKeeps
  <1>7. ASSUME NEW h \in Headers, router(h) PROVE AuthInv'
    BY <1>7, PlaceKeeps, CheckCancelKeeps DEF router
  <1>8. ASSUME NEW h \in Headers, admin_router(h) PROVE AuthInv'
    BY <1>8, AdminKeeps
  <1>9. ASSUME NEW o \in DOMAIN orders, EngineMatch(o) PROVE AuthInv'
    BY <1>9, MatchKeeps
  <1>10. CASE ClockTick
    BY <1>10, ClockKeeps
  <1>11. CASE UNCHANGED vars
    <2>1. TypeOK'
      BY <1>11 DEF vars, store, engine, AuthInv, TypeOK
    <2> QED
      BY <1>11, <2>1, AuthFrame DEF vars, store, engine, AuthInv
  <1> QED
    BY <1>1, <1>2, <1>3, <1>4, <1>5, <1>6, <1>7, <1>8, <1>9, <1>10, <1>11 DEF Next

(* What the property says of GetOrder and ListOrders follows from who the  *)
(* caller of a request is.                                                 *)
LEMMA AuthInvSuffices == AuthInv => ActsAuthorised
  <1> SUFFICES ASSUME AuthInv PROVE ActsAuthorised
    OBVIOUS
  <1>1. ASSUME NEW h \in Headers, NEW o \in DOMAIN orders,
               o \in get_order(h, o) \union list_orders(h, FALSE)
        PROVE  h.bearer \in DOMAIN sessions /\ sessions[h.bearer].wallet = orders[o].trader
    <2>1. orders[o].trader \in caller_address(h)
      BY <1>1 DEF get_order, list_orders
    <2> QED
      BY <2>1, CallerHoldsToken
  <1> QED
    BY <1>1 DEF AuthInv, ActsAuthorised, OrdersOwned, OrdersTraced

(* Everything a request did, it was entitled to: the sessions are signed   *)
(* for, the orders owned and the pair changed by an operator, for any      *)
(* number of calls between their check and their act.                      *)
THEOREM RequestsAuthorised == Spec => []ActsAuthorised
  <1>1. AuthInv => ActsAuthorised
    BY AuthInvSuffices
  <1> QED
    BY <1>1, AuthInit, AuthNext, PTL DEF Spec

-----------------------------------------------------------------------------
(* The nonce store's accounting.                                           *)

(* The outstanding nonces of a client key.                                 *)
OwnedBy(k) == {n \in DOMAIN nonces : nonces[n].owner = k}

NonceInv == AuthInv /\ NonceAccounting

(* The store is finite, and so is what a client has of it.                 *)
LEMMA StoreFinite ==
    ASSUME TypeOK
    PROVE  /\ IsFiniteSet(DOMAIN nonces)
           /\ \A S \in SUBSET DOMAIN nonces : IsFiniteSet(S) /\ Cardinality(S) \in Nat
  <1>1. IsFiniteSet(1..issued)
    BY FS_Interval DEF TypeOK
  <1>2. IsFiniteSet(DOMAIN nonces)
    BY <1>1, FS_Subset DEF TypeOK
  <1> QED
    BY <1>2, FS_Subset, FS_CardinalityType

(* The count the limit is tested on is the number of outstanding nonces.   *)
LEMMA CountIsOwned ==
    ASSUME NonceInv, NEW k
    PROVE  Count(k) = Cardinality(OwnedBy(k)) /\ Count(k) \in Nat
  <1>1. TypeOK /\ NonceAccounting
    BY DEF NonceInv, AuthInv
  <1>2. OwnedBy(k) \in SUBSET DOMAIN nonces
    BY DEF OwnedBy
  <1>3. Cardinality(OwnedBy(k)) \in Nat
    BY <1>1, <1>2, StoreFinite
  <1>4. CASE k \in DOMAIN per_ip
    BY <1>1, <1>3, <1>4 DEF NonceAccounting, Count, OwnedBy
  <1>5. CASE k \notin DOMAIN per_ip
    <2>1. OwnedBy(k) = {}
      BY <1>1, <1>5 DEF NonceAccounting, OwnedBy
    <2> QED
      BY <1>5, <2>1, FS_EmptySet DEF Count
  <1> QED
    BY <1>4, <1>5

(* A nonce is issued: its client's count goes up by one, below its limit.  *)
LEMMA GenerateAccounts ==
    ASSUME NonceInv, NEW k, generate_for(k)
    PROVE  NonceAccounting'
  <1>1. TypeOK /\ NonceAccounting
    BY DEF NonceInv, AuthInv
  <1>2. /\ issued' = issued + 1
        /\ nonces' = [n \in DOMAIN nonces \union {issued'} |->
                         IF n = issued' THEN [age |-> 0, owner |-> k] ELSE nonces[n]]
        /\ per_ip' = [j \in DOMAIN per_ip \union {k} |-> IF j = k THEN Count(k) + 1 ELSE per_ip[j]]
        /\ Cardinality(DOMAIN nonces) < MAX_NONCES
        /\ Count(k) < MAX_NONCES_PER_IP
    BY DEF generate_for
  <1>3. issued \in Nat /\ issued' \notin DOMAIN nonces /\ DOMAIN nonces \subseteq 1..issued
    BY <1>1, <1>2 DEF TypeOK
  <1>4. DOMAIN nonces' = DOMAIN nonces \union {issued'}
    BY <1>2
  <1>5. DOMAIN nonces' \subseteq 1..issued'
    BY <1>2, <1>3, <1>4
  <1>6. IsFiniteSet(DOMAIN nonces) /\ Cardinality(DOMAIN nonces) \in Nat
    BY <1>1, StoreFinite
  <1>7. Cardinality(DOMAIN nonces') <= MAX_NONCES
    <2>1. Cardinality(DOMAIN nonces \union {issued'}) = Cardinality(DOMAIN nonces) + 1
      BY <1>3, <1>6, FS_AddElement
    <2>2. MAX_NONCES \in Nat
      BY SessionsAssumption
    <2> QED
      BY <1>2, <1>4, <1>6, <2>1, <2>2
  <1>8. DOMAIN per_ip' = {nonces'[n].owner : n \in DOMAIN nonces'}
    BY ZenonT(60), <1>1, <1>2, <1>3 DEF NonceAccounting
  <1>9. ASSUME NEW j \in DOMAIN per_ip'
        PROVE  /\ per_ip'[j] = Cardinality({n \in DOMAIN nonces' : nonces'[n].owner = j})
               /\ per_ip'[j] <= MAX_NONCES_PER_IP
    <2> DEFINE after == {n \in DOMAIN nonces' : nonces'[n].owner = j}
    <2>1. OwnedBy(j) \in SUBSET DOMAIN nonces /\ issued' \notin OwnedBy(j)
      BY <1>3 DEF OwnedBy
    <2>2. IsFiniteSet(OwnedBy(j)) /\ Cardinality(OwnedBy(j)) \in Nat
      BY <1>1, <2>1, StoreFinite
    <2>3. CASE j = k
      <3>1. after = OwnedBy(j) \union {issued'}
        BY <1>2, <1>3, <2>3 DEF OwnedBy
      <3>2. Cardinality(after) = Cardinality(OwnedBy(j)) + 1
        BY <2>1, <2>2, <3>1, FS_AddElement
      <3> QED
        BY <1>2, <2>2, <2>3, <3>2, CountIsOwned, SessionsAssumption
    <2>4. CASE j # k
      <3>1. after = OwnedBy(j) /\ j \in DOMAIN per_ip /\ per_ip'[j] = per_ip[j]
        BY <1>2, <1>3, <1>9, <2>4 DEF OwnedBy
      <3> QED
        BY <1>1, <3>1 DEF NonceAccounting, OwnedBy
    <2> QED
      BY <2>3, <2>4
  <1> QED
    BY <1>5, <1>7, <1>8, <1>9 DEF NonceAccounting

(* Nonces leave the store and are credited back to their clients.          *)
LEMMA ReleaseAccounts ==
    ASSUME NonceInv, NEW gone \in SUBSET DOMAIN nonces,
           nonces' = WithoutNonces(gone), per_ip' = decrement_owner(gone), issued' = issued
    PROVE  NonceAccounting'
  <1>1. TypeOK /\ NonceAccounting
    BY DEF NonceInv, AuthInv
  <1> DEFINE held(k) == {n \in gone : nonces[n].owner = k}
             left(k) == per_ip[k] - Cardinality(held(k))
             stays(k) == {n \in DOMAIN nonces' : nonces'[n].owner = k}
  <1>2. /\ DOMAIN nonces' = DOMAIN nonces \ gone
        /\ \A n \in DOMAIN nonces' : nonces'[n] = nonces[n]
    BY DEF WithoutNonces
  <1>3. per_ip' = [k \in {j \in DOMAIN per_ip : left(j) # 0} |-> left(k)]
    BY DEF decrement_owner
  <1>4. ASSUME NEW k PROVE stays(k) = OwnedBy(k) \ held(k) /\ OwnedBy(k) \cap held(k) = held(k)
    BY <1>2 DEF OwnedBy
  <1>5. ASSUME NEW k \in DOMAIN per_ip
        PROVE  /\ left(k) = Cardinality(stays(k)) /\ left(k) \in Nat
               /\ left(k) <= MAX_NONCES_PER_IP
               /\ left(k) = 0 <=> stays(k) = {}
    <2>1. /\ per_ip[k] = Cardinality(OwnedBy(k)) /\ per_ip[k] <= MAX_NONCES_PER_IP
          /\ MAX_NONCES_PER_IP \in Nat
      BY <1>1, SessionsAssumption DEF NonceAccounting, OwnedBy
    <2>2. IsFiniteSet(OwnedBy(k)) /\ IsFiniteSet(held(k))
      BY <1>1, StoreFinite DEF OwnedBy
    <2>3. IsFiniteSet(stays(k)) /\ Cardinality(stays(k)) = Cardinality(OwnedBy(k)) - Cardinality(held(k))
      <3>1. stays(k) = OwnedBy(k) \ held(k) /\ OwnedBy(k) \cap held(k) = held(k)
        BY <1>4
      <3> HIDE DEF stays, held
      <3> QED
        BY <2>2, <3>1, FS_Difference
    <2>4. Cardinality(OwnedBy(k)) \in Nat /\ Cardinality(held(k)) \in Nat /\ Cardinality(stays(k)) \in Nat
      BY <2>2, <2>3, FS_CardinalityType
    <2>5. Cardinality(stays(k)) = 0 <=> stays(k) = {}
      BY <2>3, FS_EmptySet
    <2> HIDE DEF stays, held
    <2> QED
      BY <2>1, <2>3, <2>4, <2>5
  <1>6. DOMAIN per_ip' = {nonces'[n].owner : n \in DOMAIN nonces'}
    <2>1. DOMAIN per_ip' = {k \in DOMAIN per_ip : stays(k) # {}}
      BY <1>3, <1>5
    <2>2. DOMAIN per_ip = {nonces[n].owner : n \in DOMAIN nonces}
      BY <1>1 DEF NonceAccounting
    <2> QED
      BY <1>2, <2>1, <2>2
  <1>7. ASSUME NEW k \in DOMAIN per_ip'
        PROVE  per_ip'[k] = Cardinality(stays(k)) /\ per_ip'[k] <= MAX_NONCES_PER_IP
    <2>1. k \in DOMAIN per_ip /\ per_ip'[k] = left(k)
      BY <1>3, <1>7
    <2> QED
      BY <1>5, <2>1
  <1>8. Cardinality(DOMAIN nonces') <= MAX_NONCES
    <2>1. DOMAIN nonces' \in SUBSET DOMAIN nonces
      BY <1>2
    <2>2. Cardinality(DOMAIN nonces') <= Cardinality(DOMAIN nonces) /\ Cardinality(DOMAIN nonces') \in Nat
          /\ Cardinality(DOMAIN nonces) \in Nat
      BY <1>1, <2>1, StoreFinite, FS_Subset
    <2> QED
      BY <1>1, <2>2, SessionsAssumption DEF NonceAccounting
  <1> QED
    BY <1>1, <1>2, <1>6, <1>7, <1>8 DEF NonceAccounting

(* Every step keeps the accounts.                                          *)
LEMMA AccountingNext ==
    ASSUME NonceInv, [Next]_vars
    PROVE  NonceAccounting'
  <1>1. ASSUME NEW k \in IPs, rest_auth_nonce(k) PROVE NonceAccounting'
    <2>1. \E j : generate_for(j)
      BY <1>1 DEF rest_auth_nonce
    <2> QED
      BY <2>1, GenerateAccounts
  <1>2. CASE evict_stale
    <2>1. PICK stale \in SUBSET DOMAIN nonces :
             nonces' = WithoutNonces(stale) /\ per_ip' = decrement_owner(stale)
      BY <1>2 DEF evict_stale
    <2> QED
      BY <1>2, <2>1, ReleaseAccounts DEF evict_stale
  <1>3. ASSUME NEW c \in Calls, consume(c) PROVE NonceAccounting'
    <2>1. CASE verifying[c].nonce \in DOMAIN nonces
      <3>1. /\ {verifying[c].nonce} \in SUBSET DOMAIN nonces /\ issued' = issued
            /\ nonces' = WithoutNonces({verifying[c].nonce})
            /\ per_ip' = decrement_owner({verifying[c].nonce})
        BY <1>3, <2>1 DEF consume
      <3> QED
        BY <3>1, ReleaseAccounts
    <2>2. CASE verifying[c].nonce \notin DOMAIN nonces
      <3>1. UNCHANGED <<nonces, per_ip, issued>>
        BY <1>3, <2>2 DEF consume
      <3> QED
        BY <3>1 DEF NonceInv, NonceAccounting
    <2> QED
      BY <2>1, <2>2
  <1>4. CASE ClockTick
    <2>1. /\ UNCHANGED <<per_ip, issued>> /\ DOMAIN nonces' = DOMAIN nonces
          /\ \A n \in DOMAIN nonces : nonces'[n].owner = nonces[n].owner
      BY <1>4 DEF ClockTick, NonceInv, AuthInv, TypeOK
    <2>2. \A k : {n \in DOMAIN nonces' : nonces'[n].owner = k} = {n \in DOMAIN nonces : nonces[n].owner = k}
      BY <2>1
    <2>3. {nonces'[n].owner : n \in DOMAIN nonces'} = {nonces[n].owner : n \in DOMAIN nonces}
      BY <2>1
    <2> QED
      BY <2>1, <2>2, <2>3 DEF NonceInv, NonceAccounting
  <1>5. CASE UNCHANGED <<nonces, per_ip, issued>>
    BY <1>5 DEF NonceInv, NonceAccounting
  <1>6. ASSUME NEW h \in Headers, router(h) \/ admin_router(h) PROVE UNCHANGED <<nonces, per_ip, issued>>
    BY <1>6 DEF router, admin_router, rest_place_order, place_order, CheckCancel, register_pair,
                suspend_pair, delist_pair, AdminRequest, store
  <1> QED
    BY <1>1, <1>2, <1>3, <1>4, <1>5, <1>6
       DEF Next, vars, store, Sign, CheckMessage, cancel_order, EngineMatch

(* The per-client counts of the nonce store are exact and within limits,   *)
(* over every order of issue, sign-in, expiry and cleanup.                 *)
THEOREM NoncesAccounted == Spec => []NonceAccounting
  <1>1. Init => NonceAccounting
    BY FS_EmptySet, SessionsAssumption DEF Init, NonceAccounting
  <1>2. Init => NonceInv
    BY <1>1, AuthInit DEF NonceInv
  <1>3. NonceInv /\ [Next]_vars => NonceInv'
    BY AuthNext, AccountingNext DEF NonceInv
  <1>4. NonceInv => NonceAccounting
    BY DEF NonceInv
  <1> QED
    BY <1>2, <1>3, <1>4, PTL DEF Spec

-----------------------------------------------------------------------------
(* Sign-in implements SingleUse.                                           *)

(* The sessions a nonce has opened, and SingleUse's variables.             *)
OpenedBy(n) == {i \in DOMAIN sessions : sessions[i].nonce = n}
Closed == (1..issued) \ Outstanding
Opened == [n \in Challenges |-> Cardinality(OpenedBy(n))]

(* A step that leaves these alone stutters.                                *)
LEMMA PromiseStutters ==
    ASSUME Outstanding' = Outstanding, issued' = issued, Opened' = Opened
    PROVE  UNCHANGED Promise!vars
  BY DEF Promise!vars, Opened, OpenedBy

(* An issued nonce is a new one: Issue.                                    *)
LEMMA GenerateIssues ==
    ASSUME AuthInv, NEW k, generate_for(k)
    PROVE  Promise!Next
  <1>1. /\ issued + 1 \in Challenges /\ issued' = issued + 1 /\ sessions' = sessions
        /\ nonces' = [n \in DOMAIN nonces \union {issued'} |->
                         IF n = issued' THEN [age |-> 0, owner |-> k] ELSE nonces[n]]
    BY DEF generate_for
  <1>2. issued \in Nat /\ DOMAIN nonces \subseteq 1..issued /\ issued' \notin DOMAIN nonces
    BY <1>1 DEF AuthInv, TypeOK
  <1>3. Outstanding \subseteq 1..issued
    BY <1>2 DEF Outstanding
  <1>4. Outstanding' = Outstanding \union {issued'}
    BY <1>1, <1>2, SessionsAssumption DEF Outstanding, Expired
  <1>5. issued' \notin Outstanding \union Closed
    BY <1>1, <1>2, <1>3 DEF Closed
  <1>6. Closed' = Closed
    BY <1>1, <1>2, <1>3, <1>4 DEF Closed
  <1>7. Opened' = Opened
    BY <1>1 DEF Opened, OpenedBy
  <1>8. Promise!Issue(issued')
    BY <1>4, <1>5, <1>6, <1>7 DEF Promise!Issue, Closed, Opened, OpenedBy
  <1> QED
    BY <1>1, <1>8 DEF Promise!Next

(* Eviction takes nonces that were no longer outstanding.                  *)
LEMMA EvictStutters ==
    ASSUME evict_stale
    PROVE  UNCHANGED Promise!vars
  <1>1. /\ issued' = issued /\ sessions' = sessions
        /\ nonces' = WithoutNonces({n \in DOMAIN nonces : Expired(n)})
    BY DEF evict_stale
  <1>2. Outstanding' = Outstanding
    BY <1>1 DEF Outstanding, Expired, WithoutNonces
  <1>3. Opened' = Opened
    BY <1>1 DEF Opened, OpenedBy
  <1> QED
    BY <1>1, <1>2, <1>3, PromiseStutters

(* A consumed nonce opens one session if it was outstanding, and none      *)
(* otherwise: Login, or nothing.                                           *)
LEMMA ConsumeLogsIn ==
    ASSUME AuthInv, NEW c \in Calls, consume(c)
    PROVE  Promise!Next \/ UNCHANGED Promise!vars
  <1> DEFINE m == verifying[c]
             token == [wallet |-> m.wallet, nonce |-> m.nonce, left |-> session_ttl]
  <1>1. m # NoMessage /\ issued' = issued /\ issued \in Nat /\ DOMAIN nonces \subseteq 1..issued
    BY DEF consume, AuthInv, TypeOK
  <1>2. CASE m.nonce \notin Outstanding
    <2>1. sessions' = sessions
      BY <1>2 DEF consume, Outstanding
    <2>2. Outstanding' = Outstanding
      BY <1>2 DEF consume, Outstanding, Expired, WithoutNonces
    <2>3. Opened' = Opened
      BY <2>1 DEF Opened, OpenedBy
    <2> QED
      BY <1>1, <2>2, <2>3, PromiseStutters
  <1>3. CASE m.nonce \in Outstanding
    <2>1. m.nonce \in DOMAIN nonces /\ ~Expired(m.nonce)
      BY <1>3 DEF Outstanding
    <2>2. nonces' = WithoutNonces({m.nonce}) /\ sessions' = Append(sessions, token)
      BY <2>1 DEF consume, issue
    <2>3. m.nonce \in Challenges /\ m.nonce \in 1..issued
      BY <1>1, <2>1 DEF AuthInv, TypeOK
    <2>4. Outstanding' = Outstanding \ {m.nonce}
      BY <2>2 DEF Outstanding, Expired, WithoutNonces
    <2>5. Closed' = Closed \union {m.nonce}
      BY <1>1, <2>3, <2>4 DEF Closed
    <2>6. sessions \in Seq(Tokens) /\ token \in Tokens
      BY <1>1, SessionsAssumption DEF AuthInv, TypeOK, Messages, Tokens
    <2>7. /\ DOMAIN sessions' = DOMAIN sessions \union {Len(sessions) + 1}
          /\ Len(sessions) + 1 \notin DOMAIN sessions
          /\ \A i \in DOMAIN sessions : sessions'[i] = sessions[i]
          /\ sessions'[Len(sessions) + 1].nonce = m.nonce
      <3>1. token.nonce = m.nonce
        OBVIOUS
      <3> HIDE DEF token
      <3> QED
        BY <2>2, <2>6, <3>1, AppendKeeps
    <2> HIDE DEF token, m
    <2>8. ASSUME NEW n \in Challenges
          PROVE  /\ n # m.nonce => OpenedBy(n)' = OpenedBy(n)
                 /\ n = m.nonce => Cardinality(OpenedBy(n)') = Cardinality(OpenedBy(n)) + 1
      <3>1. n # m.nonce => OpenedBy(n)' = OpenedBy(n)
        BY <2>7 DEF OpenedBy
      <3>2. n = m.nonce => OpenedBy(n)' = OpenedBy(n) \union {Len(sessions) + 1}
        BY <2>7 DEF OpenedBy
      <3>3. IsFiniteSet(OpenedBy(n)) /\ Len(sessions) + 1 \notin OpenedBy(n)
        <4>1. Len(sessions) \in Nat /\ DOMAIN sessions = 1..Len(sessions)
          BY <2>6, SeqElements
        <4>2. IsFiniteSet(DOMAIN sessions) /\ OpenedBy(n) \in SUBSET DOMAIN sessions
          BY <4>1, FS_Interval DEF OpenedBy
        <4> QED
          BY <2>7, <4>2, FS_Subset
      <3>4. Cardinality(OpenedBy(n) \union {Len(sessions) + 1}) = Cardinality(OpenedBy(n)) + 1
        BY <3>3, FS_AddElement
      <3> QED
        BY <3>1, <3>2, <3>4
    <2>9. Opened' = [Opened EXCEPT ![m.nonce] = @ + 1]
      BY <2>8 DEF Opened
    <2>10. Promise!Login(m.nonce)
      BY <1>3, <2>4, <2>5, <2>9 DEF Promise!Login, Closed, Opened, OpenedBy
    <2> QED
      BY <2>3, <2>10 DEF Promise!Next
  <1> QED
    BY <1>2, <1>3

(* Time makes outstanding nonces lapse, if anything.                       *)
LEMMA ClockLapses ==
    ASSUME AuthInv, ClockTick
    PROVE  Promise!Next \/ UNCHANGED Promise!vars
  <1>1. /\ issued' = issued /\ issued \in Nat /\ DOMAIN nonces \subseteq 1..issued
        /\ nonces' = [n \in DOMAIN nonces |->
                        [nonces[n] EXCEPT !.age = IF Expired(n) THEN @ ELSE @ + 1]]
    BY DEF ClockTick, AuthInv, TypeOK
  <1>2. \A n \in DOMAIN nonces : nonces[n] \in [age : Nat, owner : Owners]
    BY DEF AuthInv, TypeOK
  <1>3. Outstanding' \subseteq Outstanding
    <2>1. ASSUME NEW n \in DOMAIN nonces, Expired(n) PROVE Expired(n)'
      BY <1>1, <1>2, <2>1 DEF Expired
    <2> QED
      BY <1>1, <2>1 DEF Outstanding
  <1>4. Opened' = Opened
    <2>1. /\ DOMAIN sessions' = DOMAIN sessions
          /\ \A i \in DOMAIN sessions : sessions'[i].nonce = sessions[i].nonce
      <3>1. \A i \in DOMAIN sessions : sessions[i] \in Tokens
        BY SeqElements DEF AuthInv, TypeOK
      <3> QED
        BY <3>1 DEF ClockTick, Tokens
    <2> QED
      BY <2>1 DEF Opened, OpenedBy
  <1> DEFINE lapsed == Outstanding \ Outstanding'
  <1>5. CASE lapsed = {}
    BY <1>1, <1>3, <1>4, <1>5, PromiseStutters
  <1>6. CASE lapsed # {}
    <2>1. /\ lapsed \in SUBSET Outstanding /\ Outstanding' = Outstanding \ lapsed
      BY <1>3
    <2>2. Closed' = Closed \union lapsed
      <3>1. Outstanding \subseteq 1..issued
        BY <1>1 DEF Outstanding
      <3> QED
        BY <1>1, <1>3, <3>1 DEF Closed
    <2> HIDE DEF lapsed
    <2>3. Promise!Lapse(lapsed)
      BY <1>4, <1>6, <2>1, <2>2 DEF Promise!Lapse, Closed, Opened, OpenedBy
    <2> QED
      BY <2>1, <2>3 DEF Promise!Next
  <1> QED
    BY <1>5, <1>6

(* Every step of the server is a step of SingleUse, or none.               *)
LEMMA PromiseNext ==
    ASSUME AuthInv, [Next]_vars
    PROVE  [Promise!Next]_(Promise!vars)
  <1>1. ASSUME NEW k \in IPs, rest_auth_nonce(k) PROVE Promise!Next
    <2>1. \E j : generate_for(j)
      BY <1>1 DEF rest_auth_nonce
    <2> QED
      BY <2>1, GenerateIssues
  <1>2. CASE UNCHANGED <<nonces, issued, sessions>>
    <2>1. Outstanding' = Outstanding
      BY <1>2 DEF Outstanding, Expired
    <2>2. Opened' = Opened
      BY <1>2 DEF Opened, OpenedBy
    <2> QED
      BY <1>2, <2>1, <2>2, PromiseStutters
  <1>3. ASSUME NEW h \in Headers, router(h) \/ admin_router(h) PROVE UNCHANGED <<nonces, issued, sessions>>
    BY <1>3 DEF router, admin_router, rest_place_order, place_order, CheckCancel, register_pair,
                suspend_pair, delist_pair, AdminRequest, store
  <1>4. \/ UNCHANGED <<nonces, issued, sessions>>
        \/ \E k \in IPs : rest_auth_nonce(k)
        \/ evict_stale
        \/ \E c \in Calls : consume(c)
        \/ ClockTick
    BY <1>3 DEF Next, vars, store, Sign, CheckMessage, cancel_order, EngineMatch
  <1> QED
    BY <1>1, <1>2, <1>4, EvictStutters, ConsumeLogsIn, ClockLapses

(* The sign-in service implements SingleUse: with any number of verify     *)
(* calls in flight, a nonce opens at most one session, and none once it    *)
(* is older than NONCE_TTL.                                                *)
THEOREM SignInIsSingleUse == Spec => LoginPromise
  <1>1. Init => Promise!Init
    <2> SUFFICES ASSUME Init PROVE Promise!Init
      OBVIOUS
    <2>1. Outstanding = {} /\ (1..issued) \ Outstanding = {}
      BY DEF Init, Outstanding
    <2>2. \A n : {i \in DOMAIN sessions : sessions[i].nonce = n} = {}
      BY DEF Init
    <2> QED
      BY <2>1, <2>2, FS_EmptySet DEF Promise!Init
  <1>2. AuthInv /\ [Next]_vars => [Promise!Next]_(Promise!vars)
    BY PromiseNext
  <1> QED
    BY <1>1, <1>2, AuthInit, AuthNext, PTL DEF Spec, LoginPromise, Promise!Spec
=============================================================================
