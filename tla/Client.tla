--------------------------------- MODULE Client ---------------------------------
(***************************************************************************)
(* The client library over the purchase service: ApiClient::buy and        *)
(* fetch_content, the receipts a device keeps, and HttpTransport::post,    *)
(* which sends a request again when no answer came.  The server is         *)
(* Purchase; here its requests come from the clients, and a request the    *)
(* client has given up on runs on.                                         *)
(***************************************************************************)
EXTENDS Purchase

CONSTANTS
  Holder,       \* the user of each device
  Attempts      \* k_connection_attempts

Call == [op: {"buy", "restore", "fetch"}, target: Contexts]
Receipt == [ctx: Contexts, key: Keys]

ASSUME HolderAssumption == Holder \in [Devices -> Users]
ASSUME AttemptsAssumption == Attempts \in Nat \ {0}
ASSUME NoConnAssumption == None \notin Workers \cup Call \cup Receipt

VARIABLES
  stage,        \* what the device's call does next
  call,         \* the request of the call in progress
  tries,        \* attempts of post so far
  conn,         \* the worker the device waits for
  got,          \* the receipt it has received and not yet saved
  wallet,       \* the receipts of the device, by context
  lost          \* keys the server has issued whose receipt never came to be saved

client == <<stage, call, tries, conn, got, wallet>>
cvars  == <<vars, client, lost>>

Stages == {"idle", "post", "wait", "save"}

CTypeOK ==
  /\ TypeOK
  /\ stage \in [Devices -> Stages]
  /\ call \in [Devices -> Call \cup {None}]
  /\ tries \in [Devices -> 0 .. Attempts]
  /\ conn \in [Devices -> Workers \cup {None}]
  /\ got \in [Devices -> Receipt \cup {None}]
  /\ wallet \in [Devices -> [Contexts -> Keys \cup {None}]]
  /\ lost \subseteq Keys

CInit ==
  /\ Init
  /\ stage = [d \in Devices |-> "idle"]
  /\ call = [d \in Devices |-> None]
  /\ tries = [d \in Devices |-> 0]
  /\ conn = [d \in Devices |-> None]
  /\ got = [d \in Devices |-> None]
  /\ wallet = [d \in Devices |-> [c \in Contexts |-> None]]
  /\ lost = {}

--------------------------------------------------------------------------------
\* Device d waits for the answer of worker w.
Waits(d, w) == conn[d] = w /\ w # None

\* The answer of worker w carries a receipt: the answer of a successful buy or restore.
CarriesReceipt(w) ==
  pc[w] = "answered" /\ req[w].op \in {"buy", "restore"} /\ reply[w].status = "ok"

\* The receipt on its way to device d: answered and not yet read, or read and not saved.
Coming(d) ==
  IF stage[d] = "save" THEN got[d]
  ELSE IF conn[d] # None /\ CarriesReceipt(conn[d])
         THEN [ctx |-> ctx[conn[d]], key |-> reply[conn[d]].key]
  ELSE None

\* The key of the receipt on its way to d, unless d already has it.
Missed(d) ==
  IF Coming(d) # None /\ wallet[d][Coming(d).ctx] # Coming(d).key THEN {Coming(d).key} ELSE {}

\* The call ends, with a result or an error.
Return(d) ==
  /\ stage' = [stage EXCEPT ![d] = "idle"]
  /\ call' = [call EXCEPT ![d] = None]
  /\ tries' = [tries EXCEPT ![d] = 0]
  /\ conn' = [conn EXCEPT ![d] = None]
  /\ got' = [got EXCEPT ![d] = None]

\* post is called for this request.
Post(d, op, c) ==
  /\ stage' = [stage EXCEPT ![d] = "post"]
  /\ call' = [call EXCEPT ![d] = [op |-> op, target |-> c]]
  /\ tries' = [tries EXCEPT ![d] = 0]

--------------------------------------------------------------------------------
StartBuy(d, p) ==
  /\ stage[d] = "idle"
  /\ Post(d, "buy", p)
  /\ UNCHANGED <<vars, conn, got, wallet, lost>>

\* fetch_content: context_identity has found the context to be the user's; a receipt the
\* device does not have is restored first (stored_receipt).
StartFetch(d, c) ==
  /\ stage[d] = "idle"
  /\ \E t \in Times : Grants(c, Holder[d], t)
  /\ Post(d, IF wallet[d][c] # None THEN "fetch" ELSE "restore", c)
  /\ UNCHANGED <<vars, conn, got, wallet, lost>>

\* One attempt of post reaches the server, which begins to work on it.
Send(d, w) ==
  /\ stage[d] = "post"
  /\ LET c == call[d].target IN
       \/ call[d].op = "buy" /\ \E t \in Times : Buy(w, Holder[d], c, d, t)
       \/ call[d].op = "restore" /\ RestoreReceipt(w, Holder[d], c, d)
       \/ call[d].op = "fetch" /\ FetchPackage(w, Holder[d], c, d)
  /\ tries' = [tries EXCEPT ![d] = @ + 1]
  /\ conn' = [conn EXCEPT ![d] = w]
  /\ stage' = [stage EXCEPT ![d] = "wait"]
  /\ UNCHANGED <<call, got, wallet, lost>>

\* The connection is not made, or the request is lost.
SendFails(d) ==
  /\ stage[d] = "post"
  /\ tries' = [tries EXCEPT ![d] = @ + 1]
  /\ stage' = [stage EXCEPT ![d] = "wait"]
  /\ UNCHANGED <<vars, call, conn, got, wallet, lost>>

\* Mutant: the last attempt is not told from the others.
GiveUpLate(d) ==
  /\ stage[d] = "wait"
  /\ IF tries[d] <= Attempts
       THEN /\ stage' = [stage EXCEPT ![d] = "post"]
            /\ conn' = [conn EXCEPT ![d] = None]
            /\ UNCHANGED <<call, tries, got>>
       ELSE Return(d)
  /\ lost' = lost \cup Missed(d)
  /\ UNCHANGED <<vars, wallet>>

\* Mutant: post starts counting again with every new connection.
GiveUpRecounting(d) ==
  /\ stage[d] = "wait"
  /\ stage' = [stage EXCEPT ![d] = "post"]
  /\ tries' = [tries EXCEPT ![d] = 0]
  /\ conn' = [conn EXCEPT ![d] = None]
  /\ lost' = lost \cup Missed(d)
  /\ UNCHANGED <<vars, call, got, wallet>>

\* The read times out or the connection breaks: post tries once more, or gives up.
GiveUp(d) ==
  /\ stage[d] = "wait"
  /\ IF tries[d] < Attempts
       THEN /\ stage' = [stage EXCEPT ![d] = "post"]
            /\ conn' = [conn EXCEPT ![d] = None]
            /\ UNCHANGED <<call, tries, got>>
       ELSE Return(d)
  /\ lost' = lost \cup Missed(d)
  /\ UNCHANGED <<vars, wallet>>

\* The answer arrives.  A package is opened with the receipt of the wallet.
Deliver(d) ==
  /\ stage[d] = "wait"
  /\ conn[d] # None
  /\ Respond(conn[d])
  /\ IF CarriesReceipt(conn[d])
       THEN /\ stage' = [stage EXCEPT ![d] = "save"]
            /\ got' = [got EXCEPT ![d] = Coming(d)]
            /\ conn' = [conn EXCEPT ![d] = None]
            /\ UNCHANGED <<call, tries>>
       ELSE Return(d)
  /\ UNCHANGED <<wallet, lost>>

\* Mutant: a restored receipt is used without saving it.
SaveBoughtOnly(d) ==
  /\ stage[d] = "save"
  /\ IF call[d].op = "buy"
       THEN Return(d) /\ wallet' = [wallet EXCEPT ![d][got[d].ctx] = got[d].key]
       ELSE /\ Post(d, "fetch", call[d].target)
            /\ got' = [got EXCEPT ![d] = None]
            /\ UNCHANGED <<conn, wallet>>
  /\ UNCHANGED <<vars, lost>>

\* save_receipt; after a restore fetch_content goes on to fetch the package.
Save(d) ==
  /\ stage[d] = "save"
  /\ wallet' = [wallet EXCEPT ![d][got[d].ctx] = got[d].key]
  /\ IF call[d].op = "buy"
       THEN Return(d)
       ELSE /\ Post(d, "fetch", call[d].target)
            /\ got' = [got EXCEPT ![d] = None]
            /\ UNCHANGED conn
  /\ UNCHANGED <<vars, lost>>

\* The transport cannot be set up, the receipt store fails, or the program of the device
\* ends in the middle of a call.
Die(d) ==
  /\ stage[d] # "idle"
  /\ Return(d)
  /\ lost' = lost \cup Missed(d)
  /\ UNCHANGED <<vars, wallet>>

\* A worker goes on, whether or not a device still waits for it.
Work(w) ==
  /\ WorkerStep(w)
  /\ lost' = IF \E d \in Devices : Waits(d, w) THEN lost ELSE lost \cup (generated' \ generated)
  /\ UNCHANGED client

\* The answer nobody waits for any more.
Unheard(w) ==
  /\ \A d \in Devices : ~ Waits(d, w)
  /\ Respond(w)
  /\ UNCHANGED <<client, lost>>

\* The server restarts: every connection breaks, and every device that waits will notice.
ServerRestart ==
  /\ Restart
  /\ conn' = [d \in Devices |-> None]
  /\ lost' = lost \cup UNION {Missed(d) : d \in {e \in Devices : conn[e] # None}}
  /\ UNCHANGED <<stage, call, tries, got, wallet>>

DeviceStep(d) ==
  \/ \E w \in Workers : Send(d, w)
  \/ SendFails(d) \/ GiveUp(d) \/ Deliver(d) \/ Save(d)

CNext ==
  \/ \E d \in Devices :
       \/ \E p \in Pubs : StartBuy(d, p)
       \/ \E c \in Contexts : StartFetch(d, c)
       \/ DeviceStep(d)
       \/ Die(d)
  \/ \E w \in Workers : Work(w) \/ Unheard(w)
  \/ ServerRestart

CSpec == CInit /\ [][CNext]_cvars

\* A program that runs goes on: post has timeouts and a bounded number of attempts.
CFairSpec == CSpec /\ \A d \in Devices : WF_cvars(DeviceStep(d))

--------------------------------------------------------------------------------
\* The server's receipt for a device is the one the device has or is about to save,
\* unless its key is one the device has missed: a wallet falls behind the server only
\* through an answer that was lost, never through the calls themselves.
WalletCurrent ==
  \A d \in Devices, c \in Contexts :
    receipts[<<c, d>>] # None /\ receipts[<<c, d>>].key \notin lost =>
      receipts[<<c, d>>].key =
        IF Coming(d) # None /\ Coming(d).ctx = c THEN Coming(d).key ELSE wallet[d][c]

\* fetch_content opens the package it is answered: the package is sealed for the receipt
\* of the wallet, unless for one whose answer was lost.
PackageOpens ==
  \A d \in Devices :
    LET w == conn[d] IN
      w # None /\ pc[w] = "answered" /\ reply[w].status = "ok" /\ req[w].op = "fetch" =>
        reply[w].key \in {wallet[d][call[d].target]} \cup lost

\* Every call of the library returns, whatever the network and the server do.
CallsReturn == \A d \in Devices : stage[d] # "idle" ~> stage[d] = "idle"

--------------------------------------------------------------------------------
(* The inductive invariant. *)

\* A call in progress has its request, a receipt to save, and an attempt left to make.
CallKnown ==
  \A d \in Devices :
    /\ stage[d] # "idle" => call[d] \in Call
    /\ stage[d] = "save" => got[d] \in Receipt
    /\ stage[d] = "post" => tries[d] < Attempts

\* A device that waits for a worker waits for its own request.
ConnKnown ==
  \A d \in Devices : conn[d] # None =>
    /\ stage[d] = "wait"
    /\ pc[conn[d]] # "idle"
    /\ req[conn[d]].device = d
    /\ req[conn[d]].op = call[d].op
    /\ req[conn[d]].target = call[d].target

\* A successful answer with a receipt or a package has a context and a key, and fetch_package and
\* context_identity issue no receipt.
AnswerKnown ==
  \A w \in Workers :
    /\ pc[w] = "answered" => reply[w] \in Replies
    /\ pc[w] = "answered" /\ reply[w].status = "ok" /\ req[w].op # "identity" =>
         ctx[w] \in Contexts /\ reply[w].key \in Keys
    /\ pc[w] # "idle" /\ req[w].op \in {"fetch", "identity"} =>
         pc[w] \in {"resolve", "load_receipt", "answered"}
    /\ pc[w] = "load_receipt" => ctx[w] = req[w].target

ServerInv == IInv /\ AnswerKnown
CInv == CTypeOK /\ CallKnown /\ ConnKnown /\ ServerInv /\ WalletCurrent /\ PackageOpens
================================================================================
