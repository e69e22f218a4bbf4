------------------------------ MODULE ProKeys ------------------------------
(***************************************************************************)
(* How the API key of a paid account reaches the payer.  The plaintext is  *)
(* stored nowhere: a bank transfer is confirmed while nobody is connected, *)
(* and the checkout page's poll and the bot's /link then compete for one   *)
(* delivery, which mints the key; a Stars charge is answered with the key  *)
(* its grant minted; /rotatekey and POST /v1/account/rotate-key replace a  *)
(* key.  Each request is a sequence of database calls, any of which may be *)
(* its last.  Keys have no value here: what matters is whether the current *)
(* key of an account is with somebody, on its way, or lost.                *)
(***************************************************************************)
EXTENDS Integers

CONSTANTS
    Payments,   \* number of payments; a higher one is newer
    Chat,       \* Telegram chats
    Requests,   \* requests under way at once
    MaxFaults   \* bound on crashes, errors, lost answers, refunds and
                \* commands repeated before they were answered

ASSUME KeysAssumption ==
    /\ Payments \in Nat /\ Requests \in Nat /\ MaxFaults \in Nat
    /\ {"nobody", "web"} \cap Chat = {}

Payment == 1..Payments
Request == 1..Requests

VARIABLES
    payment,  \* payments rows
    held,     \* payment -> somebody was sent the current key of its account
    req,      \* requests under way
    given,    \* payment -> keys its delivery handed out (2 for more)
    faults

vars == <<payment, held, req, given, faults>>

\* payer: the chat of a Stars charge.  chat: telegram_chat_id.  delivered:
\* key_delivered_at is set.
NoRow == [rail |-> "none", product |-> "none", status |-> "none",
          payer |-> "nobody", chat |-> "nobody", delivered |-> FALSE]

\* key: what a request at "send" carries: the current key of the account or
\* one rotated away since.
Idle == [at |-> "idle", pay |-> 0, to |-> "nobody", door |-> FALSE, key |-> "none"]

At(r, step) == req[r].at = step
Row(r) == payment[req[r].pay]

\* A Fix Pack payment is completed and grants no account.
HasAccount(p) == payment[p].product = "pro" /\ payment[p].status = "completed"

-----------------------------------------------------------------------------
(* Payments.                                                               *)

IsNext(p) == payment[p] = NoRow /\ \A q \in Payment : payment[q] = NoRow => p <= q

\* create_invoice, create_fixpack_invoice
OpenInvoice(p, product) ==
    /\ IsNext(p)
    /\ payment' = [payment EXCEPT ![p] = [NoRow EXCEPT !.rail = "bank",
                                            !.product = product, !.status = "pending"]]
    /\ UNCHANGED <<held, req, given, faults>>

\* The operator's confirm: grant_pro_account settles and creates the account in
\* one transaction, and the key it generated is dropped.  A replay returns the
\* same account and changes nothing.
Confirm(p) ==
    /\ payment[p].status = "pending"
    /\ payment' = [payment EXCEPT ![p].status = "completed"]
    /\ UNCHANGED <<held, req, given, faults>>

\* mark_refunded
Refund(p) ==
    /\ payment[p].status = "completed"
    /\ faults < MaxFaults
    /\ faults' = faults + 1
    /\ payment' = [payment EXCEPT ![p].status = "refunded"]
    /\ UNCHANGED <<held, req, given>>

-----------------------------------------------------------------------------
(* Requests begin.                                                         *)

Begin(r, request) ==
    /\ At(r, "idle") /\ \A s \in Request : At(s, "idle") => r <= s
    /\ req' = [req EXCEPT ![r] = request]
    /\ UNCHANGED <<held, given>>

\* invoice_status reads a completed Pro invoice; the page has no chat to link.
Poll(r, p) ==
    /\ payment[p].rail = "bank" /\ HasAccount(p)
    /\ Begin(r, [Idle EXCEPT !.at = "claim", !.pay = p, !.to = "web", !.door = TRUE])
    /\ UNCHANGED <<payment, faults>>

\* _handle_link (and /start with a reference) up to the claim of the chat.
Link(r, c, p) ==
    /\ payment[p].rail = "bank" /\ payment[p].status = "completed"
    /\ payment[p].chat \in {"nobody", c}
    /\ Begin(r, [Idle EXCEPT !.at = "link", !.pay = p, !.to = c, !.door = TRUE])
    /\ UNCHANGED <<payment, faults>>

\* successful_payment: the first delivery of the update creates payment and
\* account, and carries the key on; a repeated one finds them.
StarsCharge(r, c, p) ==
    /\ IsNext(p)
    /\ Begin(r, [at |-> "stamp", pay |-> p, to |-> c, door |-> TRUE, key |-> "current"])
    /\ payment' = [payment EXCEPT ![p] = [NoRow EXCEPT !.rail = "stars",
                       !.product = "pro", !.status = "completed", !.payer = c]]
    /\ UNCHANGED faults

StarsReplay(r, p) ==
    /\ payment[p].rail = "stars" /\ HasAccount(p)
    /\ Begin(r, [Idle EXCEPT !.at = "stamp", !.pay = p, !.to = payment[p].payer,
                             !.door = TRUE])
    /\ UNCHANGED <<payment, faults>>

\* get_completed_by_telegram_chat_id: the newest completed payment of the chat
\* that has an account; a variant takes the newest of any product.
OfChatAny(c) == {p \in Payment : payment[p].chat = c /\ payment[p].status = "completed"}

OfChat(c) == {p \in Payment : payment[p].chat = c /\ HasAccount(p)}

\* An earlier /rotatekey of the chat has not been answered.
Waiting(c) == \E s \in Request : req[s].to = c /\ ~req[s].door

RotateKey(r, c) ==
    /\ faults < MaxFaults \/ ~Waiting(c)
    /\ faults' = IF Waiting(c) THEN faults + 1 ELSE faults
    /\ \E p \in OfChat(c) :
          /\ \A q \in OfChat(c) : q <= p
          /\ HasAccount(p)
          /\ Begin(r, [Idle EXCEPT !.at = "rotate", !.pay = p, !.to = c])
    /\ UNCHANGED payment

\* rotate_account_key: whoever presents the current key.
RotateBearer(r, p) ==
    /\ held[p]
    /\ Begin(r, [Idle EXCEPT !.at = "rotate", !.pay = p, !.to = "web"])
    /\ UNCHANGED <<payment, faults>>

-----------------------------------------------------------------------------
(* Requests go on, one database call at a time.                            *)

\* link_telegram_chat_id: the first chat wins, and the row is read back.
LinkedChat(p, c) == IF payment[p].chat = "nobody" THEN c ELSE payment[p].chat

\* The answer of the conditional update; a variant does not read it.
LostRaceUnread(p, c) == FALSE

LostRace(p, c) == LinkedChat(p, c) # c

LinkChat(r) ==
    /\ At(r, "link")
    /\ payment' = [payment EXCEPT ![req[r].pay].chat = LinkedChat(req[r].pay, req[r].to)]
    /\ req' = [req EXCEPT ![r] =
          IF Row(r).product # "pro" \/ LostRace(req[r].pay, req[r].to) THEN Idle
          ELSE [@ EXCEPT !.at = "claim"]]
    /\ UNCHANGED <<held, given, faults>>

\* The webhook of a Stars charge stamps the payer's chat and answers.
StampChat(r) ==
    /\ At(r, "stamp")
    /\ payment' = [payment EXCEPT ![req[r].pay].chat = LinkedChat(req[r].pay, req[r].to)]
    /\ req' = [req EXCEPT ![r] = IF @.key = "none" THEN Idle ELSE [@ EXCEPT !.at = "send"]]
    /\ UNCHANGED <<held, given, faults>>

\* claim_key_delivery's predicate; variants forget the mark, or the status.
CompletedOnly(p) == payment[p].status = "completed"

UnmarkedOnly(p) == ~payment[p].delivered

Claimable(p) == payment[p].status = "completed" /\ ~payment[p].delivered

ClaimDelivery(r) ==
    /\ At(r, "claim")
    /\ \/ /\ Claimable(req[r].pay)
          /\ payment' = [payment EXCEPT ![req[r].pay].delivered = TRUE]
          /\ req' = [req EXCEPT ![r].at = "rotate"]
       \/ /\ ~Claimable(req[r].pay)
          /\ req' = [req EXCEPT ![r] = Idle]
          /\ UNCHANGED payment
    /\ UNCHANGED <<held, given, faults>>

\* rotate_key: every other copy of the account's key is void, and so is one a
\* request still has to send.
Rotated(r, s) ==
    IF s = r THEN [req[r] EXCEPT !.at = "send", !.key = "current"]
    ELSE IF req[s].pay = req[r].pay /\ req[s].key = "current"
         THEN [req[s] EXCEPT !.key = "void"]
         ELSE req[s]

Rotate(r) ==
    /\ At(r, "rotate")
    /\ req' = [s \in Request |-> Rotated(r, s)]
    /\ held' = [held EXCEPT ![req[r].pay] = FALSE]
    /\ UNCHANGED <<payment, given, faults>>

\* rotate_key raises, before its commit or after it.  deliver_key_once gives
\* its claim back; the other callers have none.
Released(r) == IF req[r].door THEN [req[r] EXCEPT !.at = "release"] ELSE Idle

RotateRaises(r) ==
    /\ At(r, "rotate")
    /\ faults < MaxFaults
    /\ faults' = faults + 1
    /\ \/ /\ req' = [req EXCEPT ![r] = Released(r)]
          /\ UNCHANGED held
       \/ /\ req' = [s \in Request |-> IF s = r THEN Released(r) ELSE Rotated(r, s)]
          /\ held' = [held EXCEPT ![req[r].pay] = FALSE]
    /\ UNCHANGED <<payment, given>>

Release(r) ==
    /\ At(r, "release")
    /\ payment' = [payment EXCEPT ![req[r].pay].delivered = FALSE]
    /\ req' = [req EXCEPT ![r] = Idle]
    /\ UNCHANGED <<held, given, faults>>

AtMost2(n) == IF n > 2 THEN 2 ELSE n

\* The answer arrives.
Send(r) ==
    /\ At(r, "send")
    /\ req' = [req EXCEPT ![r] = Idle]
    /\ held' = [held EXCEPT ![req[r].pay] = @ \/ req[r].key = "current"]
    /\ given' = [given EXCEPT ![req[r].pay] = IF req[r].door THEN AtMost2(@ + 1) ELSE @]
    /\ UNCHANGED <<payment, faults>>

\* The process dies, or the answer is lost on its way.
Dies(r) ==
    /\ req[r].at # "idle"
    /\ faults < MaxFaults
    /\ faults' = faults + 1
    /\ req' = [req EXCEPT ![r] = Idle]
    /\ UNCHANGED <<payment, held, given>>

-----------------------------------------------------------------------------
Init ==
    /\ payment = [p \in Payment |-> NoRow]
    /\ held = [p \in Payment |-> FALSE]
    /\ req = [r \in Request |-> Idle]
    /\ given = [p \in Payment |-> 0]
    /\ faults = 0

Step(r) ==
    \/ LinkChat(r) \/ StampChat(r) \/ ClaimDelivery(r)
    \/ Rotate(r) \/ Release(r) \/ Send(r)

Next ==
    \/ \E p \in Payment :
          \/ \E product \in {"pro", "fixpack"} : OpenInvoice(p, product)
          \/ Confirm(p)
          \/ Refund(p)
    \/ \E r \in Request :
          \/ \E p \in Payment : Poll(r, p) \/ StarsReplay(r, p) \/ RotateBearer(r, p)
          \/ \E c \in Chat, p \in Payment : Link(r, c, p) \/ StarsCharge(r, c, p)
          \/ \E c \in Chat : RotateKey(r, c)
          \/ Step(r)
          \/ RotateRaises(r)
          \/ Dies(r)

\* A request that is not interrupted goes on; a payer without a key runs /link
\* and /rotatekey until one arrives; Telegram repeats an update that was not
\* acknowledged.
Linking(p) ==
    /\ payment[p].chat = "nobody"
    /\ \E r \in Request : StarsReplay(r, p) \/ \E c \in Chat : Link(r, c, p)

Rotating(c) ==
    /\ \E p \in OfChat(c) : ~held[p]
    /\ \E r \in Request : RotateKey(r, c)

Fairness ==
    /\ \A r \in Request : WF_vars(Step(r))
    /\ \A p \in Payment : SF_vars(Linking(p))
    /\ \A c \in Chat : SF_vars(Rotating(c))

Spec == Init /\ [][Next]_vars /\ Fairness

-----------------------------------------------------------------------------
Rows == [rail : {"none", "bank", "stars"}, product : {"none", "pro", "fixpack"},
         status : {"none", "pending", "completed", "refunded"},
         payer : Chat \cup {"nobody"}, chat : Chat \cup {"nobody"}, delivered : BOOLEAN]

Calls == [at : {"idle", "link", "stamp", "claim", "rotate", "release", "send"},
          pay : 0..Payments, to : Chat \cup {"nobody", "web"}, door : BOOLEAN,
          key : {"none", "current", "void"}]

\* Every variable has its type.
TypeOK ==
    /\ payment \in [Payment -> Rows]
    /\ held \in [Payment -> BOOLEAN]
    /\ req \in [Request -> Calls]
    /\ given \in [Payment -> 0..2]
    /\ faults \in 0..MaxFaults

\* The two doors of a payment, and the redeliveries of a Stars update, hand out
\* one key between them, whatever was claimed, failed and released on the way.
DeliveredOnce == \A p \in Payment : given[p] <= 1

\* A chat is sent keys of the accounts its own payments bought: of two chats
\* that run /link on one reference at once, the second gets nothing.
KeysStayWithTheChat ==
    \A r \in Request : At(r, "send") /\ req[r].to \in Chat => Row(r).chat = req[r].to

\* The request that may still hand out the key of its payment's delivery.
Owns(r) ==
    /\ req[r].door
    /\ \/ req[r].at \in {"rotate", "release", "send"}
       \/ req[r].at = "stamp" /\ req[r].key # "none"

HasOwner(p) == \E r \in Request : Owns(r) /\ req[r].pay = p

\* A delivery that was made, is under way, was not sold, is still to be made, or
\* never will be: the mark of a bank transfer is set, a Stars charge has only
\* its own request, or the money went back.
DeliveryOf(p) ==
    IF given[p] # 0 THEN "given"
    ELSE IF HasOwner(p) THEN "out"
    ELSE IF payment[p].product # "pro" \/ payment[p].status \in {"none", "pending"}
         THEN "none"
    ELSE IF payment[p].rail = "bank" /\ HasAccount(p) /\ ~payment[p].delivered
         THEN "due"
    ELSE "burnt"

Deliveries == [p \in Payment |-> DeliveryOf(p)]

KD == INSTANCE KeyDelivery WITH delivery <- Deliveries

\* Polls, /links, redeliveries, rotations, refunds and crashes do to a delivery
\* only what KeyDelivery allows: in particular one that was handed out, or was
\* lost with its request, is never under way again.
KeepsDelivery == KD!Spec

\* A newer account of the same chat is the one /rotatekey finds.
Shadowed(p) ==
    /\ payment[p].chat # "nobody"
    /\ \E q \in Payment : q > p /\ HasAccount(q) /\ payment[q].chat = payment[p].chat

\* Whatever failed, a paid account ends with its key in somebody's hands: the
\* delivery that was burnt is made good by /link and /rotatekey.
KeyReachesPayer ==
    \A p \in Payment : HasAccount(p) ~>
        (held[p] \/ ~HasAccount(p) \/ Shadowed(p))
=============================================================================
