----------------------------- MODULE BuyerAccess -----------------------------
(***************************************************************************)
(* Buying API access: server/signalproof/access.ts and buyerApi.ts, the    *)
(* page client/src/components/BuyAccess.tsx with its wallet, and the keys  *)
(* the browser keeps (client/src/lib/access.ts).  One browser, whose       *)
(* wallet may hold several accounts and be on another chain.               *)
(*                                                                         *)
(* The page's flow is one async function: the account and the chain it     *)
(* works with are those of the moment of the click.  A key is the payment, *)
(* the expiry and the secret its HMAC is made with; the server keeps none. *)
(* Price, term and secret are read from the environment at every request.  *)
(*                                                                         *)
(* Left out: a second click while the wallet is still asked to switch      *)
(* chains, which the page does not prevent.                                *)
(***************************************************************************)
EXTENDS Naturals, FiniteSets

CONSTANTS
  Buyer,        \* accounts of the wallet
  Payment,      \* transactions that may be sent
  Markets,      \* the situations considered
  NoTerms, NoKey, NoPayment, NoOne,
  MaxTime,      \* bound: the last moment considered
  MaxPolls      \* CONFIRM_MAX_ATTEMPTS, scaled down

\* A transfer, once it is sent.
Transfers ==
  [from : Buyer, to : {"pool", "elsewhere"}, value : Nat,
   status : {"pending", "paid", "reverted"}, minedAt : Nat]

ASSUME BuyAssumption ==
  /\ \A m \in Markets :
       m.prices \subseteq Nat /\ m.terms \subseteq Nat /\ m.accounts \subseteq Buyer
  /\ NoPayment \notin Transfers

VARIABLES
  market,       \* [open, prices, terms, secrets, accounts, switches, faults]
  clock,
  price, days, secret,   \* environment of the server running now
  payments,          \* transfers on Creditcoin, to the pool or elsewhere
  account, onCc3,    \* the wallet
  terms,             \* /v1/access, as fetched when the page was opened
  stage,             \* what the page is doing
  access,            \* the key the page shows
  stored,            \* the key in localStorage
  issued             \* every key handed out so far: to whom, when, on which terms

serverVars == <<market, price, days, secret, issued>>
walletVars == <<account, onCc3>>
pageVars   == <<terms, stage, access, stored>>
buyVars == <<serverVars, clock, payments, walletVars, pageVars>>

Idle == [kind |-> "idle", payment |-> NoPayment, by |-> NoOne, signer |-> NoOne, polls |-> 0]
At(kind, payment, by, signer, polls) ==
  [kind |-> kind, payment |-> payment, by |-> by, signer |-> signer, polls |-> polls]
Failed(payment) == [Idle EXCEPT !.kind = "error", !.payment = payment]

Sent == {p \in Payment : payments[p] # NoPayment}

---------------------------------------------------------------------------
(* The server.                                                             *)

Expired(key) == clock > key.expiry

\* requireAccess and verifyKey: a metered endpoint accepts this key.
Accepts(key) == key # NoKey /\ key.secret = secret /\ ~Expired(key)

\* Mutation of Refusal: the receipt is not looked at.
RefusalWithoutReceipt(p, address, signer) ==
  IF signer # address \/ payments[p].from # signer THEN "SIGNER_MISMATCH"
  ELSE IF payments[p].to # "pool" THEN "WRONG_RECIPIENT"
  ELSE IF payments[p].value < price THEN "UNDERPAID"
  ELSE "none"

\* verifyPurchase, for a transaction the RPC shows in a block.
Refusal(p, address, signer) ==
  IF signer # address \/ payments[p].from # signer THEN "SIGNER_MISMATCH"
  ELSE IF payments[p].to # "pool" THEN "WRONG_RECIPIENT"
  ELSE IF payments[p].value < price THEN "UNDERPAID"
  ELSE IF payments[p].status = "reverted" THEN "TX_FAILED"
  ELSE "none"

\* Mutation of PaidAt: a block the RPC does not have counts as time zero.
PaidAtOrZero(p, blockRead) == IF blockRead THEN payments[p].minedAt ELSE 0

\* The term runs from the block, or from now when the RPC has no such block.
PaidAt(p, blockRead) == IF blockRead THEN payments[p].minedAt ELSE clock

KeyFor(p, blockRead) ==
  [payment |-> p, expiry |-> PaidAt(p, blockRead) + days, secret |-> secret]

\* The server restarts with another price, term or secret.
Reprice ==
  /\ \E new \in market.prices : new > price /\ price' = new
  /\ UNCHANGED <<market, days, secret, issued, clock, payments, walletVars, pageVars>>

ChangeTerm ==
  /\ \E new \in market.terms : new # days /\ days' = new
  /\ UNCHANGED <<market, price, secret, issued, clock, payments, walletVars, pageVars>>

RotateSecret ==
  /\ \E new \in market.secrets : new > secret /\ secret' = new
  /\ UNCHANGED <<market, price, days, issued, clock, payments, walletVars, pageVars>>

---------------------------------------------------------------------------
(* Creditcoin and the wallet.                                              *)

Tick ==
  /\ clock < MaxTime
  /\ clock' = clock + 1
  /\ UNCHANGED <<serverVars, payments, walletVars, pageVars>>

Mine(p, status) ==
  /\ p \in Sent
  /\ payments[p].status = "pending"
  /\ payments' = [payments EXCEPT ![p].status = status, ![p].minedAt = clock]
  /\ UNCHANGED <<serverVars, clock, walletVars, pageVars>>

\* The person picks another account, or another chain, in the wallet.
UseAccount(a) ==
  /\ market.switches
  /\ a \in market.accounts \ {account}
  /\ account' = a
  /\ UNCHANGED <<serverVars, clock, payments, onCc3, pageVars>>

ChangeChain ==
  /\ market.switches
  /\ onCc3' = ~onCc3
  /\ UNCHANGED <<serverVars, clock, payments, account, pageVars>>

---------------------------------------------------------------------------
(* The page.                                                               *)

Busy == stage.kind \in {"paying", "signing", "redeeming", "confirming", "hung"}

\* Mount or reload: the terms are fetched once, and a stored key is taken up
\* unless it has expired.  What the page was doing is forgotten.
Open ==
  /\ terms' = price
  /\ access' = IF stored # NoKey /\ ~Expired(stored) THEN stored ELSE NoKey
  /\ stage' = Idle
  /\ UNCHANGED <<serverVars, clock, payments, walletVars, stored>>

CanBuy == terms # NoTerms /\ access = NoKey /\ ~Busy

\* On another chain the wallet is asked to switch.  The function then goes on
\* with the chain id of the click, so it stops even when the wallet switched.
BuyOnOtherChain(switched) ==
  /\ CanBuy /\ ~onCc3
  /\ onCc3' = switched
  /\ stage' = Failed(NoPayment)
  /\ UNCHANGED <<serverVars, clock, payments, account, terms, access, stored>>

Buy ==
  /\ CanBuy /\ onCc3
  /\ stage' = At("paying", NoPayment, account, NoOne, 0)
  /\ UNCHANGED <<serverVars, clock, payments, walletVars, terms, access, stored>>

Transfer(p, to, value) ==
  /\ payments[p] = NoPayment
  /\ payments' = [payments EXCEPT ![p] =
       [from |-> account, to |-> to, value |-> value, status |-> "pending", minedAt |-> 0]]

\* The wallet sends the transfer, from the account it has by now.
Send(p) ==
  /\ stage.kind = "paying"
  /\ Transfer(p, "pool", terms)
  /\ UNCHANGED <<serverVars, clock, walletVars, terms, access, stored>>

\* A transfer of the person's own, whose hash may be typed in as well.
SendElsewhere(p) ==
  /\ Transfer(p, "elsewhere", price)
  /\ UNCHANGED <<serverVars, clock, walletVars, pageVars>>

PaymentSent ==
  \E p \in Payment : Send(p) /\ stage' = At("signing", p, stage.by, NoOne, 0)

\* The transfer goes out, but the page is told it failed (sendTransactionAsync throws).
PaymentUnreported ==
  \E p \in Payment : Send(p) /\ stage' = Failed(NoPayment)

PaymentDeclined ==
  /\ stage.kind = "paying"
  /\ stage' = Failed(NoPayment)
  /\ UNCHANGED <<serverVars, clock, payments, walletVars, terms, access, stored>>

\* Mutation of CanRedeem: the form is offered once nothing went wrong.
CanRedeemWhenIdle(p) == p \in Sent /\ access = NoKey /\ stage = Idle

\* "Already paid?": any transaction, typed in; or the failed one, again.
CanRedeem(p) == p \in Sent /\ access = NoKey /\ ~Busy

Redeem(p) ==
  /\ CanRedeem(p)
  /\ stage' = At("signing", p, account, NoOne, 0)
  /\ UNCHANGED <<serverVars, clock, payments, walletVars, terms, access, stored>>

\* The text names the account of the click; the wallet signs with the one it has.
SignText ==
  /\ stage.kind = "signing"
  /\ stage' = [stage EXCEPT !.kind = "redeeming", !.signer = account]
  /\ UNCHANGED <<serverVars, clock, payments, walletVars, terms, access, stored>>

SignDeclined ==
  /\ stage.kind = "signing"
  /\ stage' = Failed(stage.payment)
  /\ UNCHANGED <<serverVars, clock, payments, walletVars, terms, access, stored>>

\* POST /v1/access/redeem finds the payment in a block and judges it.
Judged(blockRead) ==
  LET p == stage.payment
      key == KeyFor(p, blockRead)
      refused == Refusal(p, stage.by, stage.signer) # "none"
  IN /\ stage.kind = "redeeming"
     /\ payments[p].status # "pending"
     /\ IF refused
          THEN /\ stage' = Failed(p)
               /\ UNCHANGED <<issued, access, stored>>
          ELSE /\ issued' = issued \cup {[key |-> key, to |-> stage.signer, at |-> clock,
                                          price |-> price, days |-> days]}
               /\ access' = key /\ stored' = key
               /\ stage' = Idle
     /\ UNCHANGED <<market, price, days, secret, clock, payments, walletVars, terms>>

\* TX_NOT_FOUND: not mined yet, or the RPC lags.  The page asks again with the
\* same signature, up to MaxPolls times.
NotFound ==
  /\ stage.kind = "redeeming"
  /\ stage' = IF stage.signer # stage.by \/ stage.polls >= MaxPolls THEN Failed(stage.payment)
              ELSE [stage EXCEPT !.kind = "confirming", !.polls = @ + 1]
  /\ UNCHANGED <<serverVars, clock, payments, walletVars, terms, access, stored>>

PollAgain ==
  /\ stage.kind = "confirming"
  /\ stage' = [stage EXCEPT !.kind = "redeeming"]
  /\ UNCHANGED <<serverVars, clock, payments, walletVars, terms, access, stored>>

\* The server's RPC fails (502): an error like any other.
RpcError ==
  /\ stage.kind = "redeeming"
  /\ stage.signer = stage.by
  /\ stage' = Failed(stage.payment)
  /\ UNCHANGED <<serverVars, clock, payments, walletVars, terms, access, stored>>

\* The request itself fails: nothing catches it, and the page stays busy.
RequestLost ==
  /\ stage.kind = "redeeming"
  /\ stage' = [stage EXCEPT !.kind = "hung"]
  /\ UNCHANGED <<serverVars, clock, payments, walletVars, terms, access, stored>>

Forget ==
  /\ access # NoKey
  /\ access' = NoKey /\ stored' = NoKey
  /\ UNCHANGED <<serverVars, clock, payments, walletVars, terms, stage>>

---------------------------------------------------------------------------
BuyInit ==
  /\ market \in Markets
  /\ clock = 0
  /\ price = 1 /\ days = 1 /\ secret = 1
  /\ payments = [p \in Payment |-> NoPayment]
  /\ account \in market.accounts /\ onCc3 \in (IF market.switches THEN BOOLEAN ELSE {TRUE})
  /\ terms = NoTerms /\ stage = Idle /\ access = NoKey /\ stored = NoKey
  /\ issued = {}

OutsideStep ==
  \/ Reprice \/ ChangeTerm \/ RotateSecret \/ Tick
  \/ \E p \in Payment : Mine(p, "paid") \/ (market.faults /\ Mine(p, "reverted"))
  \/ market.faults /\ \E p \in Payment : SendElsewhere(p)
  \/ \E a \in Buyer : UseAccount(a)
  \/ ChangeChain

PageStep ==
  \/ Open
  \/ \E switched \in BOOLEAN : BuyOnOtherChain(switched)
  \/ Buy \/ PaymentSent \/ PaymentDeclined
  \/ \E p \in Payment : Redeem(p)
  \/ SignText \/ SignDeclined
  \/ Judged(TRUE) \/ NotFound \/ PollAgain \/ Forget

FaultStep ==
  market.faults /\ (PaymentUnreported \/ Judged(FALSE) \/ RpcError \/ RequestLost)

BuyNext == market.open /\ (OutsideStep \/ PageStep \/ FaultStep)

\* A buyer who does not give up: reloads a page that hangs or shows a key the
\* API refuses, redeems again, and signs each time often enough.  The RPC
\* answers a request that is made again and again.
BuyFairness ==
  /\ WF_buyVars(market.open /\ (stage.kind = "hung" \/ terms = NoTerms) /\ Open)
  /\ WF_buyVars(market.open /\ ~Accepts(access) /\ Forget)
  /\ \A p \in Payment :
       /\ SF_buyVars(market.open /\ Redeem(p))
       /\ WF_buyVars(market.open /\ Mine(p, "paid"))
  /\ WF_buyVars(market.open /\ PaymentDeclined)   \* no prompt stays open for ever
  /\ SF_buyVars(market.open /\ SignText)
  /\ WF_buyVars(market.open /\ PollAgain)
  /\ SF_buyVars(market.open /\ Judged(TRUE))

BuySpec == BuyInit /\ [][BuyNext]_buyVars /\ BuyFairness

---------------------------------------------------------------------------
(* Properties.                                                             *)

Keys == [payment : Payment, expiry : Nat, secret : Nat]

BuyTypeOK ==
  /\ clock \in 0 .. MaxTime
  /\ price \in market.prices /\ days \in market.terms /\ secret \in market.secrets
  /\ payments \in [Payment -> Transfers \cup {NoPayment}]
  /\ account \in market.accounts /\ onCc3 \in (IF market.switches THEN BOOLEAN ELSE {TRUE})
  /\ terms = NoTerms \/ terms \in market.prices
  /\ stage.kind \in {"idle", "paying", "signing", "redeeming", "confirming", "hung", "error"}
  /\ stage.payment \in Sent \cup {NoPayment}
  /\ access \in Keys \cup {NoKey} /\ stored \in Keys \cup {NoKey}
  /\ issued \subseteq [key : Keys, to : Buyer, at : 0 .. MaxTime,
                       price : market.prices, days : market.terms]

\* Accounts and chains switched mid-flow, hashes typed in by hand, requests
\* repeated, price and term changed between payment and redemption, blocks the
\* RPC cannot show: a key is only ever handed to the account whose transfer
\* reached the pool and was worth the price asked by then, and buys it the full
\* term offered by then, however late it is redeemed, but never more than that
\* from the redemption.
KeysArePaidFor ==
  \A i \in issued :
    LET paid == payments[i.key.payment]
    IN /\ paid.status = "paid"
       /\ paid.from = i.to /\ paid.to = "pool"
       /\ paid.value >= i.price
       /\ i.key.expiry \in paid.minedAt + i.days .. i.at + i.days

\* Good for the running server: sent by the account in use, and enough.
Redeemable(p) ==
  /\ p \in Sent
  /\ payments[p].status = "paid"
  /\ payments[p].from = account /\ payments[p].to = "pool"
  /\ payments[p].value >= price
  /\ clock <= payments[p].minedAt + days

\* A payment is never lost: whatever fails on the way, a buyer who keeps trying
\* with the account that paid holds a key the API accepts, until the term ends or
\* is cut, the price is raised above what was paid, or the account is changed.
PaymentBringsAccess ==
  \A p \in Payment :
    market.open /\ Redeemable(p) ~> (Accepts(access) \/ ~Redeemable(p))
============================================================================
