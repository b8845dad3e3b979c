------------------------------- MODULE PaymentApp ------------------------------
(***************************************************************************)
(* A wallet extension and what works with it: the payment page             *)
(* (src/frontend/level1-app/src: App.tsx, wallet.ts, stellar.ts) and the   *)
(* wallet connectors of the SDK (src/sdk/src/walletConnector.ts).          *)
(*                                                                         *)
(* Clicks start handlers that await the wallet and the ledger, no button   *)
(* waits for them, and a reload of the page forgets them.  The user may    *)
(* switch the wallet's account at any time.  An answer tells what was so   *)
(* when it was asked for, or what is so when it arrives.  What is sent may *)
(* land although its answer is lost, then or later.                        *)
(*                                                                         *)
(* The page shows the wallet's network and does not act on it, a connector *)
(* signs for the network it was made for: networks are left out.  Of an    *)
(* account the ledger's sequence number stands for what has happened.      *)
(***************************************************************************)
EXTENDS Naturals, FiniteSets

CONSTANTS
    Account, NoAccount,
    Handler,            \* clicks that may be under way at once
    MaxClicks,          \* bound: clicks, reloads and calls of the connector
    MaxSwitches         \* bound: switches of the wallet's account

ASSUME PaymentAssumption ==
    /\ NoAccount \notin Account /\ Account # {}
    /\ MaxClicks \in Nat /\ MaxSwitches \in Nat

VARIABLES
    wallet,             \* its account, and how often it was switched
    page,               \* the state of App: address, balance, loading, feedback
    connector,          \* a WalletConnector: whether connected, its key, and the wallet's
                        \* switches when that key was asked for
    handlers,           \* per click under way: what it is, what it awaits, what it holds
    clicks,
    sequence,           \* of each account on the ledger: its next number
    floating,           \* payments whose answer was lost, which may still land
    payments,           \* history: payments that landed
    signatures,         \* history: what the connector has handed out
    overlapped          \* history: a click on this page was made while another was under way

payVars == <<wallet, page, connector, handlers, clicks, sequence, floating, payments,
             signatures, overlapped>>

NoBalance == [of |-> NoAccount, version |-> 0]
Feedback(kind, click) == [kind |-> kind, of |-> click]
NewPage == [address |-> NoAccount, balance |-> NoBalance, loading |-> FALSE,
            feedback |-> Feedback("idle", 0)]
NoHandler == [kind |-> "none", at |-> "done", click |-> 0, shown |-> NoAccount, pub |-> NoAccount,
              had |-> NoAccount, version |-> 0, signer |-> NoAccount]
\* The reload's effect asks the wallet for its account, without a prompt.
Reconnecting == [NoHandler EXCEPT !.kind = "reconnect", !.at = "address"]
FirstHandler == CHOOSE h \in Handler : TRUE

Loaded(account) == [h \in Handler |-> IF h = FirstHandler
                                      THEN [Reconnecting EXCEPT !.had = account] ELSE NoHandler]

PayInit ==
    \* Which account makes no difference.
    /\ wallet = [account |-> CHOOSE a \in Account : TRUE, switches |-> 0]
    /\ page = NewPage
    /\ connector = [connected |-> FALSE, key |-> NoAccount, asked |-> 0]
    /\ handlers = Loaded(wallet.account)
    /\ clicks = 0 /\ sequence = [a \in Account |-> 1]
    /\ floating = {} /\ payments = {} /\ signatures = {} /\ overlapped = FALSE

OfPage == {h \in Handler : handlers[h].kind \notin {"none", "link", "seal"}}
Counts == clicks < MaxClicks /\ clicks' = clicks + 1
Click == Counts /\ overlapped' = (overlapped \/ OfPage # {})

\* A handler begins and awaits its first answer.
Starts(h, kind, at, pub, version) ==
    /\ handlers[h].kind = "none"
    /\ handlers' = [handlers EXCEPT ![h] =
          [kind |-> kind, at |-> at, click |-> clicks', shown |-> page.address, pub |-> pub,
           had |-> wallet.account, version |-> version, signer |-> NoAccount]]
    /\ UNCHANGED <<wallet, connector, sequence, floating, payments, signatures>>
Clicked(h, kind, at) ==
    /\ Click
    /\ Starts(h, kind, at, page.address,
              IF page.address = NoAccount THEN 0 ELSE sequence[page.address])

At(h, kind, at) == handlers[h].kind = kind /\ handlers[h].at = at
Payment(h) == [click |-> handlers[h].click, shown |-> handlers[h].shown, from |-> handlers[h].pub,
               version |-> handlers[h].version, signer |-> handlers[h].signer]

Says(kind, click) == [page EXCEPT !.feedback = Feedback(kind, click)]

-----------------------------------------------------------------------------
(* App.tsx: clicks *)

OnConnect(h) ==
    /\ page.address = NoAccount
    /\ Clicked(h, "connect", "installed")
    /\ page' = Says("pending", clicks')

\* The wallet keeps its own list of pages; this one forgets.
OnDisconnect ==
    /\ Click
    /\ page.address # NoAccount
    /\ page' = [NewPage EXCEPT !.loading = page.loading]
    /\ UNCHANGED <<wallet, connector, handlers, sequence, floating, payments, signatures>>

RefreshBalance(h) ==
    /\ page.address # NoAccount
    /\ Clicked(h, "refresh", "balance")
    /\ page' = [page EXCEPT !.loading = TRUE]

OnFund(h) ==
    /\ page.address # NoAccount
    /\ Clicked(h, "fund", "friendbot")
    /\ page' = Says("pending", clicks')

OnSend(h) ==
    /\ page.address # NoAccount
    /\ \/ /\ Clicked(h, "send", "account")
          /\ page' = Says("pending", clicks')
       \* No destination, or no amount above zero.
       \/ /\ Click
          /\ page' = Says("error", clicks')
          /\ UNCHANGED <<wallet, connector, handlers, sequence, floating, payments, signatures>>

\* What was under way is forgotten; a payment that was sent may still land.
PageReloads ==
    /\ Counts
    /\ page' = NewPage
    /\ handlers' = Loaded(wallet.account)
    /\ floating' = floating \cup {Payment(h) : h \in {g \in Handler : At(g, "send", "submit")}}
    /\ overlapped' = FALSE
    /\ UNCHANGED <<wallet, connector, sequence, payments, signatures>>

-----------------------------------------------------------------------------
(* App.tsx: what follows an await *)

Stays == UNCHANGED <<wallet, connector, clicks, sequence, floating, payments, signatures,
                     overlapped>>
Ends(h) == handlers' = [handlers EXCEPT ![h] = NoHandler]

\* The handler goes on to read the balance of an account.
ReadsBalance(h, account, version) ==
    handlers' = [handlers EXCEPT ![h].at = "balance", ![h].pub = account, ![h].version = version]

\* The account is shown, and then the network, which nothing looks at.
ReconnectAnswered(h) ==
    /\ At(h, "reconnect", "address")
    /\ \/ Ends(h) /\ UNCHANGED page
       \/ \E a \in {handlers[h].had, wallet.account} :
             /\ page' = [page EXCEPT !.address = a]
             /\ handlers' = [handlers EXCEPT ![h].at = "network"]
    /\ Stays

ReconnectNetworkAnswered(h) == At(h, "reconnect", "network") /\ Ends(h) /\ UNCHANGED page /\ Stays

InstalledAnswered(h) ==
    /\ At(h, "connect", "installed")
    /\ \/ /\ handlers' = [handlers EXCEPT ![h].at = "access", ![h].had = wallet.account]
          /\ UNCHANGED page
       \/ Ends(h) /\ page' = Says("error", handlers[h].click)
    /\ Stays

AccessAnswered(h) ==
    /\ At(h, "connect", "access")
    /\ \/ \E a \in {handlers[h].had, wallet.account} :
             /\ page' = [page EXCEPT !.address = a]
             /\ handlers' = [handlers EXCEPT ![h].at = "network", ![h].pub = a]
       \/ Ends(h) /\ page' = Says("error", handlers[h].click)
    /\ Stays

NetworkAnswered(h) ==
    /\ At(h, "connect", "network")
    /\ page' = [Says("idle", 0) EXCEPT !.loading = TRUE]
    /\ ReadsBalance(h, handlers[h].pub, sequence[handlers[h].pub])
    /\ Stays

\* Friendbot has funded the account or answered with an error, which is not looked at.
FriendbotAnswered(h) ==
    /\ At(h, "fund", "friendbot")
    /\ ReadsBalance(h, handlers[h].pub, sequence[handlers[h].pub])
    /\ page' = [page EXCEPT !.loading = TRUE]
    /\ Stays

FriendbotFails(h) ==
    /\ At(h, "fund", "friendbot")
    /\ Ends(h) /\ page' = Says("error", handlers[h].click) /\ Stays

\* refreshBalance: a handler that funds says so afterwards, whatever came of the balance.
AfterBalance(h, p) ==
    IF handlers[h].kind = "fund" THEN [p EXCEPT !.feedback = Feedback("funded", handlers[h].click)]
    ELSE p

BalanceAnswered(h) ==
    /\ handlers[h].at = "balance"
    /\ \/ \E v \in handlers[h].version .. sequence[handlers[h].pub] :
             page' = AfterBalance(h, [page EXCEPT
                        !.loading = FALSE, !.balance = [of |-> handlers[h].pub, version |-> v]])
       \/ page' = AfterBalance(h, [Says("error", handlers[h].click) EXCEPT
                                      !.loading = FALSE, !.balance = NoBalance])
    /\ Ends(h) /\ Stays

\* Fault: the payment is built for the account shown by then (PaymentsHonest).
Source_Current(h) == IF page.address = NoAccount THEN handlers[h].pub ELSE page.address
\* The handler has the account that was shown when it was clicked.
Source(h) == handlers[h].pub

\* The payment is built with the next sequence number of the account and given to the wallet.
AccountLoaded(h) ==
    /\ At(h, "send", "account")
    /\ \E v \in handlers[h].version .. sequence[Source(h)] :
          handlers' = [handlers EXCEPT ![h].at = "sign", ![h].version = v,
                                       ![h].had = wallet.account, ![h].pub = Source(h)]
    /\ UNCHANGED page /\ Stays

Signed(h) ==
    /\ At(h, "send", "sign")
    /\ \E a \in {handlers[h].had, wallet.account} :
          handlers' = [handlers EXCEPT ![h].at = "submit", ![h].signer = a]
    /\ page' = Says("pending", handlers[h].click)
    /\ Stays

SendFails(h) ==
    /\ handlers[h].kind = "send" /\ handlers[h].at \in {"account", "sign", "submit"}
    /\ Ends(h) /\ page' = Says("error", handlers[h].click) /\ Stays

\* The ledger takes what its source has signed, with the source's next sequence number.
Accepted(p) == p.signer = p.from /\ p.version = sequence[p.from]
Lands(p) ==
    /\ Accepted(p)
    /\ sequence' = [sequence EXCEPT ![p.from] = @ + 1]
    /\ payments' = payments \cup {p}

PaymentAnswered(h) ==
    /\ At(h, "send", "submit")
    /\ Lands(Payment(h))
    /\ page' = [Says("paid", handlers[h].click) EXCEPT !.loading = TRUE]
    /\ ReadsBalance(h, handlers[h].pub, sequence'[handlers[h].pub])
    /\ UNCHANGED <<wallet, connector, clicks, floating, signatures, overlapped>>

\* Taken by the ledger, and failed there: its number is used up.
PaymentRefused(h) ==
    /\ At(h, "send", "submit") /\ Accepted(Payment(h))
    /\ sequence' = [sequence EXCEPT ![handlers[h].pub] = @ + 1]
    /\ Ends(h) /\ page' = Says("error", handlers[h].click)
    /\ UNCHANGED <<wallet, connector, clicks, floating, payments, signatures, overlapped>>

\* For the page it has failed.
AnswerLost(h) ==
    /\ At(h, "send", "submit")
    /\ floating' = floating \cup {Payment(h)}
    /\ Ends(h) /\ page' = Says("error", handlers[h].click)
    /\ UNCHANGED <<wallet, connector, clicks, sequence, payments, signatures, overlapped>>

LandsLate(p) ==
    /\ Lands(p) /\ floating' = floating \ {p}
    /\ UNCHANGED <<wallet, page, connector, handlers, clicks, signatures, overlapped>>

-----------------------------------------------------------------------------
(* walletConnector.ts, and the wallet *)

Calls == Counts /\ UNCHANGED <<page, overlapped>>

ConnectWallet(h) == Calls /\ Starts(h, "link", "key", NoAccount, wallet.switches)

\* Also after disconnect() was called meanwhile.
KeyAnswered(h) ==
    /\ At(h, "link", "key")
    /\ \/ \E a \in {handlers[h].had, wallet.account} :
             connector' = [connected |-> TRUE, key |-> a, asked |-> handlers[h].version]
       \* Not installed, or denied.
       \/ UNCHANGED connector
    /\ Ends(h)
    /\ UNCHANGED <<wallet, page, clicks, sequence, floating, payments, signatures, overlapped>>

ConnectorDisconnect ==
    /\ Calls
    /\ connector' = [connector EXCEPT !.connected = FALSE, !.key = NoAccount]
    /\ UNCHANGED <<wallet, handlers, sequence, floating, payments, signatures>>

SignTransaction(h) ==
    /\ connector.connected
    /\ Calls /\ Starts(h, "seal", "signature", connector.key, connector.asked)

\* The wallet signs with the account it has, whatever the key of the connector.
SignatureAnswered(h) ==
    /\ At(h, "seal", "signature")
    /\ \/ \E a \in {handlers[h].had, wallet.account} :
             signatures' = signatures \cup {[signer |-> a, key |-> handlers[h].pub,
                                            switched |-> wallet.switches > handlers[h].version]}
       \/ UNCHANGED signatures
    /\ Ends(h)
    /\ UNCHANGED <<wallet, page, connector, clicks, sequence, floating, payments, overlapped>>

UserSwitches ==
    /\ wallet.switches < MaxSwitches
    /\ \E a \in Account \ {wallet.account} :
          wallet' = [account |-> a, switches |-> wallet.switches + 1]
    /\ UNCHANGED <<page, connector, handlers, clicks, sequence, floating, payments, signatures,
                   overlapped>>

PayNext ==
    \/ \E h \in Handler :
          \/ OnConnect(h) \/ RefreshBalance(h) \/ OnFund(h) \/ OnSend(h)
          \/ ReconnectAnswered(h) \/ ReconnectNetworkAnswered(h) \/ InstalledAnswered(h)
          \/ AccessAnswered(h) \/ NetworkAnswered(h) \/ FriendbotAnswered(h) \/ FriendbotFails(h)
          \/ BalanceAnswered(h) \/ AccountLoaded(h) \/ Signed(h) \/ SendFails(h)
          \/ PaymentAnswered(h) \/ PaymentRefused(h) \/ AnswerLost(h)
          \/ ConnectWallet(h) \/ KeyAnswered(h) \/ SignTransaction(h) \/ SignatureAnswered(h)
    \/ OnDisconnect \/ PageReloads \/ ConnectorDisconnect \/ UserSwitches
    \/ \E p \in floating : LandsLate(p)

PaySpec == PayInit /\ [][PayNext]_payVars
-----------------------------------------------------------------------------
\* Whatever is clicked while something else is under way, and whatever the wallet is switched
\* to: a payment that lands comes from the account that was shown when Send was clicked, one
\* at most for each click; success is only said of a payment that landed; and once nothing
\* is under way nothing is said to be.  If the clicks waited for each other, the balance then
\* shown is that of the account shown, and after a success it has the payment in it.  A
\* connector's signature is by the key it was connected with, unless the wallet was switched
\* after that key was asked for.
PaymentsHonest ==
    /\ \A p \in payments :
          /\ p.from = p.shown
          /\ \A q \in payments : p.click = q.click => p = q
    /\ page.feedback.kind = "paid" => \E p \in payments : p.click = page.feedback.of
    /\ OfPage = {} =>
          /\ ~page.loading /\ page.feedback.kind # "pending"
          /\ ~overlapped =>
                /\ page.balance.of \in {page.address, NoAccount}
                /\ page.feedback.kind = "paid" => \A p \in payments :
                      p.click = page.feedback.of =>
                         page.balance.of = p.from /\ page.balance.version > p.version
    /\ connector.connected <=> connector.key # NoAccount
    /\ \A s \in signatures : s.signer = s.key \/ s.switched
=============================================================================
