--------------------------- MODULE ProKeysProofs ---------------------------
(***************************************************************************)
(* One delivery per payment, and to the right chat, for any number of      *)
(* payments, chats, requests and faults.  A delivery belongs to one        *)
(* request at a time, its owner: the one that won claim_key_delivery, or   *)
(* the Stars webhook that made the grant.  The mark in the row is what     *)
(* keeps a second owner of a bank transfer away; a Stars charge has one    *)
(* because its row is created once.  Who owns what is also the map to      *)
(* KeyDelivery, which the last part shows to be implemented.               *)
(***************************************************************************)
EXTENDS ProKeys, TLAPS

\* A request under way is about a payment of the rail that leads there.
RightRail(r) ==
    req[r].at # "idle" =>
        /\ req[r].pay \in Payment
        /\ Row(r).rail # "none"
        /\ req[r].at \in {"link", "claim", "release"} =>
              req[r].door /\ Row(r).rail = "bank"
        /\ req[r].at = "link" => req[r].to \in Chat
        /\ req[r].at = "rotate" /\ req[r].door => Row(r).rail = "bank"
        /\ req[r].at = "stamp" =>
              /\ req[r].door /\ Row(r).rail = "stars"
              /\ req[r].to = Row(r).payer

\* Past /link's conditional update, a chat that is waiting is the payment's.
RightChat(r) ==
    req[r].at \in {"claim", "rotate", "release", "send"} /\ req[r].to \in Chat =>
        Row(r).chat = req[r].to

\* An owner has not delivered yet, and the mark shows that there is one.
OwnerIsMarked(r) ==
    Owns(r) => /\ given[req[r].pay] = 0
               /\ Row(r).rail = "bank" => Row(r).delivered

OneOwner ==
    \A r, s \in Request : Owns(r) /\ Owns(s) /\ req[r].pay = req[s].pay => r = s

\* What a row says of its delivery; only the payer's chat is stamped on a Stars
\* charge.
Accounted(p) ==
    /\ given[p] <= 1
    /\ payment[p].rail = "none" => given[p] = 0 /\ ~held[p] /\ payment[p] = NoRow
    /\ payment[p].rail = "bank" /\ given[p] # 0 => payment[p].delivered
    /\ payment[p].rail = "stars" =>
          payment[p].payer \in Chat /\ payment[p].chat \in {"nobody", payment[p].payer}

IInv ==
    /\ TypeOK
    /\ \A r \in Request : RightRail(r) /\ RightChat(r) /\ OwnerIsMarked(r)
    /\ OneOwner
    /\ \A p \in Payment : Accounted(p)

-----------------------------------------------------------------------------
\* No row and no request to begin with.
LEMMA InitIInv == Init => IInv
  BY KeysAssumption
 
      DEF Init, IInv, TypeOK, RightRail, RightChat, OwnerIsMarked, OneOwner, Accounted, Owns,
      Rows, Calls, Idle, NoRow, Payment, Request, At, Row

-----------------------------------------------------------------------------
(* Types of the records the actions write.                                 *)

\* Changing a column of a row.
LEMMA RowColumns ==
    ASSUME NEW x \in Rows
    PROVE  /\ \A v \in {"none", "pending", "completed", "refunded"} :
                 [x EXCEPT !.status = v] \in Rows
           /\ \A v \in Chat \cup {"nobody"} : [x EXCEPT !.chat = v] \in Rows
           /\ \A v \in BOOLEAN : [x EXCEPT !.delivered = v] \in Rows
BY DEF Rows

\* A request that begins, and one that goes on.
LEMMA NewCalls ==
    /\ Idle \in Calls
    /\ \A at \in {"link", "stamp", "claim", "rotate"}, pay \in Payment,
          to \in Chat \cup {"nobody", "web"}, door \in BOOLEAN :
             /\ [Idle EXCEPT !.at = at, !.pay = pay, !.to = to, !.door = door] \in Calls
             /\ [Idle EXCEPT !.at = at, !.pay = pay, !.to = to] \in Calls
<1>1. 0 \in 0..Payments /\ \A pay \in Payment : pay \in 0..Payments
      BY KeysAssumption DEF Payment
<1>2. Idle \in Calls
      BY <1>1 DEF Idle, Calls
<1> QED BY <1>1, <1>2 DEF Calls, Idle

LEMMA CallFields ==
    ASSUME NEW x \in Calls
    PROVE  /\ \A v \in {"claim", "rotate", "release", "send"} :
                 [x EXCEPT !.at = v] \in Calls
           /\ [x EXCEPT !.key = "void"] \in Calls
           /\ [x EXCEPT !.at = "send", !.key = "current"] \in Calls
BY DEF Calls

\* The payment of a request under way, and the call and row themselves.
LEMMA OwnRecords ==
    ASSUME IInv, NEW r \in Request
    PROVE  /\ req[r] \in Calls
           /\ req[r].at # "idle" => req[r].pay \in Payment /\ Row(r) \in Rows
BY DEF IInv, TypeOK, RightRail, Row

-----------------------------------------------------------------------------
(* The actions that change one row, or begin a request.  An owner is made by *)
(* StarsCharge, whose row is new, and by ClaimDelivery, whose mark was not   *)
(* set; the other actions only have to leave owners alone.                   *)

LEMMA OpenInvoiceStep ==
    ASSUME IInv, NEW p \in Payment, NEW product \in {"pro", "fixpack"},
           OpenInvoice(p, product)
    PROVE  IInv'
<1> DEFINE X == [NoRow EXCEPT !.rail = "bank", !.product = product, !.status = "pending"]
<1>1. X \in Rows  BY DEF Rows, NoRow
<1>2. payment' = [payment EXCEPT ![p] = X]  BY DEF OpenInvoice, IsNext, Row
<1>5. TypeOK'  BY <1>1, <1>2 DEF IInv, TypeOK, OpenInvoice, IsNext, At
<1> USE <1>1, <1>2, KeysAssumption
    DEF IInv, TypeOK, OpenInvoice, IsNext, Idle, NoRow, At, Row
<1>6. \A q \in Request : RightRail(q)'  BY DEF RightRail, Accounted
<1>7. \A q \in Request : RightChat(q)'  BY DEF RightChat, RightRail, Accounted
<1>8. \A q \in Request : OwnerIsMarked(q)'
      BY DEF OwnerIsMarked, OneOwner, Owns, RightRail, Accounted
<1>9. OneOwner'  BY DEF OneOwner, Owns, RightRail, OwnerIsMarked, Accounted
<1>10. \A q \in Payment : Accounted(q)'
      BY DEF Accounted, RightRail, OwnerIsMarked, Owns, Rows
<1> QED BY <1>5, <1>6, <1>7, <1>8, <1>9, <1>10

LEMMA ConfirmStep ==
    ASSUME IInv, NEW p \in Payment, Confirm(p)
    PROVE  IInv'
<1> DEFINE X == [payment[p] EXCEPT !.status = "completed"]
<1>1. X \in Rows  BY RowColumns DEF IInv, TypeOK
<1>2. payment' = [payment EXCEPT ![p] = X]  BY DEF Confirm, Row
<1>5. TypeOK'  BY <1>1, <1>2 DEF IInv, TypeOK, Confirm, At
<1> USE <1>1, <1>2, KeysAssumption DEF IInv, TypeOK, Confirm, Idle, NoRow, At, Row
<1>6. \A q \in Request : RightRail(q)'  BY DEF RightRail, Accounted
<1>7. \A q \in Request : RightChat(q)'  BY DEF RightChat, RightRail, Accounted
<1>8. \A q \in Request : OwnerIsMarked(q)'
      BY DEF OwnerIsMarked, OneOwner, Owns, RightRail, Accounted
<1>9. OneOwner'  BY DEF OneOwner, Owns, RightRail, OwnerIsMarked, Accounted
<1>10. \A q \in Payment : Accounted(q)'
  <2>1. payment[p] \in Rows  BY OwnRecords
  <2>2. /\ X.rail = payment[p].rail /\ X.payer = payment[p].payer
        /\ X.chat = payment[p].chat /\ X.delivered = payment[p].delivered
        BY <2>1 DEF Rows
  <2>3. payment'[p] = X  BY OwnRecords
  <2>4. Accounted(p)'
        BY <2>1, <2>2, <2>3, OwnRecords DEF Accounted, RightRail, OwnerIsMarked, Owns
  <2>5. \A q \in Payment : q # p => Accounted(q)'  BY DEF Accounted
  <2> QED BY <2>4, <2>5
<1> QED BY <1>5, <1>6, <1>7, <1>8, <1>9, <1>10

LEMMA RefundStep ==
    ASSUME IInv, NEW p \in Payment, Refund(p)
    PROVE  IInv'
<1> DEFINE X == [payment[p] EXCEPT !.status = "refunded"]
<1>1. X \in Rows  BY RowColumns DEF IInv, TypeOK
<1>2. payment' = [payment EXCEPT ![p] = X]  BY DEF Refund, Row
<1>5. TypeOK'  BY <1>1, <1>2, KeysAssumption DEF IInv, TypeOK, Refund, At
<1> USE <1>1, <1>2, KeysAssumption DEF IInv, TypeOK, Refund, Idle, NoRow, At, Row
<1>6. \A q \in Request : RightRail(q)'  BY DEF RightRail, Accounted
<1>7. \A q \in Request : RightChat(q)'  BY DEF RightChat, RightRail, Accounted
<1>8. \A q \in Request : OwnerIsMarked(q)'
      BY DEF OwnerIsMarked, OneOwner, Owns, RightRail, Accounted
<1>9. OneOwner'  BY DEF OneOwner, Owns, RightRail, OwnerIsMarked, Accounted
<1>10. \A q \in Payment : Accounted(q)'
  <2>1. payment[p] \in Rows  BY OwnRecords
  <2>2. /\ X.rail = payment[p].rail /\ X.payer = payment[p].payer
        /\ X.chat = payment[p].chat /\ X.delivered = payment[p].delivered
        BY <2>1 DEF Rows
  <2>3. payment'[p] = X  BY OwnRecords
  <2>4. Accounted(p)'
        BY <2>1, <2>2, <2>3, OwnRecords DEF Accounted, RightRail, OwnerIsMarked, Owns
  <2>5. \A q \in Payment : q # p => Accounted(q)'  BY DEF Accounted
  <2> QED BY <2>4, <2>5
<1> QED BY <1>5, <1>6, <1>7, <1>8, <1>9, <1>10

LEMMA PollStep ==
    ASSUME IInv, NEW r \in Request, NEW p \in Payment, Poll(r, p)
    PROVE  IInv'
<1> DEFINE Y == [Idle EXCEPT !.at = "claim", !.pay = p, !.to = "web", !.door = TRUE]
<1>3. Y \in Calls  BY NewCalls
<1>4. req' = [req EXCEPT ![r] = Y]  BY DEF Poll, Begin, HasAccount, Row
<1>5. TypeOK'  BY <1>3, <1>4 DEF IInv, TypeOK, Poll, Begin, HasAccount, At
<1> USE <1>3, <1>4, KeysAssumption
    DEF IInv, TypeOK, Poll, Begin, HasAccount, Idle, NoRow, At, Row
<1>6. \A q \in Request : RightRail(q)'  BY DEF RightRail, Accounted
<1>7. \A q \in Request : RightChat(q)'  BY DEF RightChat, RightRail, Accounted
<1>8. \A q \in Request : OwnerIsMarked(q)'
      BY DEF OwnerIsMarked, OneOwner, Owns, RightRail, Accounted
<1>9. OneOwner'  BY DEF OneOwner, Owns, RightRail, OwnerIsMarked, Accounted
<1>10. \A q \in Payment : Accounted(q)'
      BY DEF Accounted, RightRail, OwnerIsMarked, Owns, Rows
<1> QED BY <1>5, <1>6, <1>7, <1>8, <1>9, <1>10

LEMMA StarsReplayStep ==
    ASSUME IInv, NEW r \in Request, NEW p \in Payment, StarsReplay(r, p)
    PROVE  IInv'
<1> DEFINE Y == [Idle EXCEPT !.at = "stamp", !.pay = p,
                             !.to = payment[p].payer, !.door = TRUE]
<1>3. Y \in Calls  BY NewCalls DEF IInv, TypeOK, Rows
<1>4. req' = [req EXCEPT ![r] = Y]  BY DEF StarsReplay, Begin, HasAccount, Row
<1>5. TypeOK'  BY <1>3, <1>4 DEF IInv, TypeOK, StarsReplay, Begin, HasAccount, At
<1> USE <1>3, <1>4, KeysAssumption
    DEF IInv, TypeOK, StarsReplay, Begin, HasAccount, Idle, NoRow, At, Row
<1>6. \A q \in Request : RightRail(q)'  BY DEF RightRail, Accounted
<1>7. \A q \in Request : RightChat(q)'  BY DEF RightChat, RightRail, Accounted
<1>8. \A q \in Request : OwnerIsMarked(q)'
      BY DEF OwnerIsMarked, OneOwner, Owns, RightRail, Accounted
<1>9. OneOwner'  BY DEF OneOwner, Owns, RightRail, OwnerIsMarked, Accounted
<1>10. \A q \in Payment : Accounted(q)'
      BY DEF Accounted, RightRail, OwnerIsMarked, Owns, Rows
<1> QED BY <1>5, <1>6, <1>7, <1>8, <1>9, <1>10

LEMMA RotateBearerStep ==
    ASSUME IInv, NEW r \in Request, NEW p \in Payment, RotateBearer(r, p)
    PROVE  IInv'
<1> DEFINE Y == [Idle EXCEPT !.at = "rotate", !.pay = p, !.to = "web"]
<1>3. Y \in Calls  BY NewCalls
<1>4. req' = [req EXCEPT ![r] = Y]  BY DEF RotateBearer, Begin, Row
<1>5. TypeOK'  BY <1>3, <1>4 DEF IInv, TypeOK, RotateBearer, Begin, At
<1> USE <1>3, <1>4, KeysAssumption
    DEF IInv, TypeOK, RotateBearer, Begin, Idle, NoRow, At, Row
<1>6. \A q \in Request : RightRail(q)'  BY DEF RightRail, Accounted
<1>7. \A q \in Request : RightChat(q)'  BY DEF RightChat, RightRail, Accounted
<1>8. \A q \in Request : OwnerIsMarked(q)'
      BY DEF OwnerIsMarked, OneOwner, Owns, RightRail, Accounted
<1>9. OneOwner'  BY DEF OneOwner, Owns, RightRail, OwnerIsMarked, Accounted
<1>10. \A q \in Payment : Accounted(q)'
      BY DEF Accounted, RightRail, OwnerIsMarked, Owns, Rows
<1> QED BY <1>5, <1>6, <1>7, <1>8, <1>9, <1>10

LEMMA LinkStep ==
    ASSUME IInv, NEW r \in Request, NEW c \in Chat, NEW p \in Payment, Link(r, c, p)
    PROVE  IInv'
<1> DEFINE Y == [Idle EXCEPT !.at = "link", !.pay = p, !.to = c, !.door = TRUE]
<1>3. Y \in Calls  BY NewCalls
<1>4. req' = [req EXCEPT ![r] = Y]  BY DEF Link, Begin, Row
<1>5. TypeOK'  BY <1>3, <1>4 DEF IInv, TypeOK, Link, Begin, At
<1> USE <1>3, <1>4, KeysAssumption DEF IInv, TypeOK, Link, Begin, Idle, NoRow, At, Row
<1>6. \A q \in Request : RightRail(q)'  BY DEF RightRail, Accounted
<1>7. \A q \in Request : RightChat(q)'  BY DEF RightChat, RightRail, Accounted
<1>8. \A q \in Request : OwnerIsMarked(q)'
      BY DEF OwnerIsMarked, OneOwner, Owns, RightRail, Accounted
<1>9. OneOwner'  BY DEF OneOwner, Owns, RightRail, OwnerIsMarked, Accounted
<1>10. \A q \in Payment : Accounted(q)'
      BY DEF Accounted, RightRail, OwnerIsMarked, Owns, Rows
<1> QED BY <1>5, <1>6, <1>7, <1>8, <1>9, <1>10

\* /link's update writes the chat only where none is written: a chat that
\* waits for the key of this payment already is the one in the row.
LEMMA LinkChatStep ==
    ASSUME IInv, NEW r \in Request, LinkChat(r)
    PROVE  IInv'
<1>p. PICK p \in Payment : p = req[r].pay  BY OwnRecords DEF LinkChat, At
<1> DEFINE X == [payment[p] EXCEPT !.chat = LinkedChat(p, req[r].to)]
<1> DEFINE Y == IF Row(r).product # "pro" \/ LostRace(req[r].pay, req[r].to)
                THEN Idle ELSE [req[r] EXCEPT !.at = "claim"]
<1>0. LinkedChat(p, req[r].to) \in Chat \cup {"nobody"}
      BY <1>p, OwnRecords
      DEF LinkChat, At, LinkedChat, IInv, TypeOK, RightRail, Accounted, Rows, Row
<1>1. X \in Rows  BY RowColumns, <1>0 DEF IInv, TypeOK
<1>2. payment' = [payment EXCEPT ![p] = X]
      BY <1>p DEF LinkChat, LinkedChat, LostRace, Row
<1>3. Y \in Calls  BY NewCalls, OwnRecords, CallFields
<1>4. req' = [req EXCEPT ![r] = Y]  BY DEF LinkChat, LinkedChat, LostRace, Row
<1>5. TypeOK'
      BY <1>p, <1>1, <1>2, <1>3, <1>4
      DEF IInv, TypeOK, LinkChat, LinkedChat, LostRace, At
<1> USE <1>p, <1>1, <1>2, <1>3, <1>4, KeysAssumption
    DEF IInv, TypeOK, LinkChat, LinkedChat, LostRace, Idle, NoRow, At, Row
<1>6. \A q \in Request : RightRail(q)'  BY DEF RightRail, Accounted
<1>7. \A q \in Request : RightChat(q)'  BY DEF RightChat, RightRail, Accounted
<1>8. \A q \in Request : OwnerIsMarked(q)'
      BY DEF OwnerIsMarked, OneOwner, Owns, RightRail, Accounted
<1>9. OneOwner'  BY DEF OneOwner, Owns, RightRail, OwnerIsMarked, Accounted
<1>10. \A q \in Payment : Accounted(q)'
  <2>1. payment[p] \in Rows  BY OwnRecords
  <2>2. /\ X.rail = payment[p].rail /\ X.payer = payment[p].payer
        /\ X.delivered = payment[p].delivered
        BY <2>1 DEF Rows
  <2>3. payment'[p] = X  BY OwnRecords
  <2>4. Accounted(p)'
        BY <2>1, <2>2, <2>3, OwnRecords DEF Accounted, RightRail, OwnerIsMarked, Owns
  <2>5. \A q \in Payment : q # p => Accounted(q)'  BY DEF Accounted
  <2> QED BY <2>4, <2>5
<1> QED BY <1>5, <1>6, <1>7, <1>8, <1>9, <1>10

\* The Stars webhook stamps the payer's chat by the same update.
LEMMA StampChatStep ==
    ASSUME IInv, NEW r \in Request, StampChat(r)
    PROVE  IInv'
<1>p. PICK p \in Payment : p = req[r].pay  BY OwnRecords DEF StampChat, At
<1> DEFINE X == [payment[p] EXCEPT !.chat = LinkedChat(p, req[r].to)]
<1> DEFINE Y == IF req[r].key = "none" THEN Idle ELSE [req[r] EXCEPT !.at = "send"]
<1>0. LinkedChat(p, req[r].to) \in Chat \cup {"nobody"}
      BY <1>p, OwnRecords
      DEF StampChat, At, LinkedChat, IInv, TypeOK, RightRail, Accounted, Rows, Row
<1>1. X \in Rows  BY RowColumns, <1>0 DEF IInv, TypeOK
<1>2. payment' = [payment EXCEPT ![p] = X]  BY <1>p DEF StampChat, LinkedChat, Row
<1>3. Y \in Calls  BY NewCalls, OwnRecords, CallFields
<1>4. req' = [req EXCEPT ![r] = Y]  BY DEF StampChat, LinkedChat, Row
<1>5. TypeOK'
      BY <1>p, <1>1, <1>2, <1>3, <1>4 DEF IInv, TypeOK, StampChat, LinkedChat, At
<1> USE <1>p, <1>1, <1>2, <1>3, <1>4, KeysAssumption
    DEF IInv, TypeOK, StampChat, LinkedChat, Idle, NoRow, At, Row
<1>6. \A q \in Request : RightRail(q)'  BY DEF RightRail, Accounted
<1>7. \A q \in Request : RightChat(q)'  BY DEF RightChat, RightRail, Accounted
<1>8. \A q \in Request : OwnerIsMarked(q)'
      BY DEF OwnerIsMarked, OneOwner, Owns, RightRail, Accounted
<1>9. OneOwner'  BY DEF OneOwner, Owns, RightRail, OwnerIsMarked, Accounted
<1>10. \A q \in Payment : Accounted(q)'
  <2>1. payment[p] \in Rows  BY OwnRecords
  <2>2. /\ X.rail = payment[p].rail /\ X.payer = payment[p].payer
        /\ X.delivered = payment[p].delivered
        BY <2>1 DEF Rows
  <2>3. payment'[p] = X  BY OwnRecords
  <2>4. Accounted(p)'
        BY <2>1, <2>2, <2>3, OwnRecords DEF Accounted, RightRail, OwnerIsMarked, Owns
  <2>5. \A q \in Payment : q # p => Accounted(q)'  BY DEF Accounted
  <2> QED BY <2>4, <2>5
<1> QED BY <1>5, <1>6, <1>7, <1>8, <1>9, <1>10

\* An owner that gives its claim back owns nothing any more.
LEMMA ReleaseStep ==
    ASSUME IInv, NEW r \in Request, Release(r)
    PROVE  IInv'
<1>p. PICK p \in Payment : p = req[r].pay  BY OwnRecords DEF Release, At
<1> DEFINE X == [payment[p] EXCEPT !.delivered = FALSE]
<1> DEFINE Y == Idle
<1>1. X \in Rows  BY RowColumns DEF IInv, TypeOK
<1>2. payment' = [payment EXCEPT ![p] = X]  BY <1>p DEF Release, Row
<1>3. Y \in Calls  BY NewCalls
<1>4. req' = [req EXCEPT ![r] = Y]  BY DEF Release, Row
<1>5. TypeOK'  BY <1>p, <1>1, <1>2, <1>3, <1>4 DEF IInv, TypeOK, Release, At
<1> USE <1>p, <1>1, <1>2, <1>3, <1>4, KeysAssumption
    DEF IInv, TypeOK, Release, Idle, NoRow, At, Row
<1>6. \A q \in Request : RightRail(q)'  BY DEF RightRail, Accounted
<1>7. \A q \in Request : RightChat(q)'  BY DEF RightChat, RightRail, Accounted
<1>8. \A q \in Request : OwnerIsMarked(q)'
      BY DEF OwnerIsMarked, OneOwner, Owns, RightRail, Accounted
<1>9. OneOwner'  BY DEF OneOwner, Owns, RightRail, OwnerIsMarked, Accounted
<1>10. \A q \in Payment : Accounted(q)'
  <2>1. payment[p] \in Rows  BY OwnRecords
  <2>2. /\ X.rail = payment[p].rail /\ X.payer = payment[p].payer
        /\ X.chat = payment[p].chat
        BY <2>1 DEF Rows
  <2>3. payment'[p] = X  BY OwnRecords
  <2>4. Accounted(p)'
        BY <2>1, <2>2, <2>3, OwnRecords DEF Accounted, RightRail, OwnerIsMarked, Owns
  <2>5. \A q \in Payment : q # p => Accounted(q)'  BY DEF Accounted
  <2> QED BY <2>4, <2>5
<1> QED BY <1>5, <1>6, <1>7, <1>8, <1>9, <1>10

\* The webhook that records a charge owns its delivery: the row is new.
LEMMA StarsChargeStep ==
    ASSUME IInv, NEW r \in Request, NEW c \in Chat, NEW p \in Payment, StarsCharge(r, c,
           p)
    PROVE  IInv'
<1> DEFINE X == [NoRow EXCEPT !.rail = "stars", !.product = "pro",
                              !.status = "completed", !.payer = c]
<1> DEFINE Y == [at |-> "stamp", pay |-> p, to |-> c, door |-> TRUE, key |-> "current"]
<1>1. X \in Rows  BY DEF Rows, NoRow
<1>2. payment' = [payment EXCEPT ![p] = X]  BY DEF StarsCharge
<1>3. Y \in Calls  BY KeysAssumption DEF Calls, Payment
<1>4. req' = [req EXCEPT ![r] = Y]  BY DEF StarsCharge, Begin
<1>5. TypeOK'  BY <1>1, <1>2, <1>3, <1>4 DEF IInv, TypeOK, StarsCharge, Begin
<1> USE <1>1, <1>2, <1>3, <1>4, KeysAssumption
    DEF IInv, TypeOK, StarsCharge, Begin, IsNext, Idle, NoRow, At, Row
<1>6. \A q \in Request : RightRail(q)'  BY DEF RightRail, Accounted
<1>7. \A q \in Request : RightChat(q)'  BY DEF RightChat, RightRail, Accounted
<1>8. \A q \in Request : OwnerIsMarked(q)'
      BY DEF OwnerIsMarked, OneOwner, Owns, RightRail, Accounted
<1>9. OneOwner'  BY DEF OneOwner, Owns, RightRail, OwnerIsMarked, Accounted
<1>10. \A q \in Payment : Accounted(q)'  BY DEF Accounted
<1> QED BY <1>5, <1>6, <1>7, <1>8, <1>9, <1>10

LEMMA RotateKeyStep ==
    ASSUME IInv, NEW r \in Request, NEW c \in Chat, RotateKey(r, c)
    PROVE  IInv'
<1>1. PICK p \in OfChat(c) :
          Begin(r, [Idle EXCEPT !.at = "rotate", !.pay = p, !.to = c])
      BY DEF RotateKey
<1>2. p \in Payment /\ payment[p].chat = c /\ payment[p].status = "completed"
      BY <1>1 DEF OfChat, HasAccount
<1> DEFINE Y == [Idle EXCEPT !.at = "rotate", !.pay = p, !.to = c]
<1>3. Y \in Calls  BY <1>2, NewCalls
<1>4. req' = [req EXCEPT ![r] = Y] /\ UNCHANGED <<payment, held, given>>
      BY <1>1 DEF Begin, RotateKey
<1>5. TypeOK'  BY <1>1, <1>3, <1>4, KeysAssumption DEF IInv, TypeOK, RotateKey, Begin
<1>a. Y.at = "rotate" /\ Y.pay = p /\ Y.to = c /\ ~Y.door  BY DEF Idle
<1>b. payment[p].rail # "none"  BY <1>2 DEF IInv, Accounted, NoRow
<1> HIDE DEF Y
<1> USE <1>2, <1>4, <1>a, <1>b DEF IInv, TypeOK, Row
<1>6. \A q \in Request : RightRail(q)'  BY DEF RightRail
<1>7. \A q \in Request : RightChat(q)'  BY DEF RightChat
<1>8. \A q \in Request : OwnerIsMarked(q)'  BY DEF OwnerIsMarked, Owns, RightRail
<1>9. OneOwner'  BY DEF OneOwner, Owns, RightRail
<1>10. \A q \in Payment : Accounted(q)'  BY DEF Accounted
<1> QED BY <1>5, <1>6, <1>7, <1>8, <1>9, <1>10

\* A request that ends and leaves everything else alone.
LEMMA EndStep ==
    ASSUME IInv, NEW r \in Request, req' = [req EXCEPT ![r] = Idle],
           UNCHANGED <<payment, held, given>>, faults' \in 0..MaxFaults
    PROVE  IInv'
<1>1. TypeOK'  BY NewCalls DEF IInv, TypeOK
<1> USE DEF IInv, TypeOK, Idle, At, Row
<1>2. \A q \in Request : RightRail(q)'  BY DEF RightRail
<1>3. \A q \in Request : RightChat(q)'  BY DEF RightChat
<1>4. \A q \in Request : OwnerIsMarked(q)'  BY DEF OwnerIsMarked, Owns
<1>5. OneOwner'  BY DEF OneOwner, Owns
<1>6. \A q \in Payment : Accounted(q)'  BY DEF Accounted
<1> QED BY <1>1, <1>2, <1>3, <1>4, <1>5, <1>6

LEMMA DiesStep ==
    ASSUME IInv, NEW r \in Request, Dies(r)
    PROVE  IInv'
<1>1. faults' \in 0..MaxFaults  BY KeysAssumption DEF Dies, IInv, TypeOK
<1> QED BY <1>1, EndStep DEF Dies

\* The claim makes an owner, and only where the mark was not set: then there
\* was none, and nothing was given.
LEMMA ClaimDeliveryStep ==
    ASSUME IInv, NEW r \in Request, ClaimDelivery(r)
    PROVE  IInv'
<1>p. PICK p \in Payment : p = req[r].pay  BY OwnRecords DEF ClaimDelivery, At
<1>1. CASE ~Claimable(p)
      BY <1>p, <1>1, EndStep DEF ClaimDelivery, IInv, TypeOK
<1>2. CASE Claimable(p)
  <2> DEFINE X == [payment[p] EXCEPT !.delivered = TRUE]
  <2> DEFINE Y == [req[r] EXCEPT !.at = "rotate"]
  <2>1. X \in Rows /\ payment[p] \in Rows  BY RowColumns DEF IInv, TypeOK
  <2>2. payment' = [payment EXCEPT ![p] = X] /\ UNCHANGED <<held, given, faults>>
        BY <1>p, <1>2 DEF ClaimDelivery
  <2>3. Y \in Calls /\ req[r] \in Calls  BY OwnRecords, CallFields
  <2>4. req' = [req EXCEPT ![r] = Y]  BY <1>p, <1>2 DEF ClaimDelivery
  <2>5. TypeOK'  BY <2>1, <2>2, <2>3, <2>4 DEF IInv, TypeOK
  <2>6. /\ X.rail = payment[p].rail /\ X.payer = payment[p].payer
        /\ X.chat = payment[p].chat /\ X.delivered
        BY <2>1 DEF Rows
  <2>7. /\ Y.at = "rotate" /\ Y.pay = p /\ Y.door = req[r].door /\ Y.to = req[r].to
        /\ Y.key = req[r].key
        BY <1>p, <2>3 DEF Calls
  <2>8. req[r].at = "claim" /\ ~payment[p].delivered
        BY <1>2 DEF ClaimDelivery, At, Claimable
  <2>9. payment[p].rail = "bank" /\ req[r].door /\ given[p] = 0
        BY <1>p, <2>8 DEF IInv, TypeOK, RightRail, Accounted, Row
  <2>10. \A q \in Request : Owns(q) => req[q].pay # p
        BY <1>p, <2>8, <2>9 DEF IInv, OwnerIsMarked, Row
  <2> HIDE DEF X, Y
  <2> USE <1>p, <2>2, <2>4, <2>6, <2>7, <2>8, <2>9 DEF IInv, TypeOK, Row
  <2>11. \A q \in Request : RightRail(q)'  BY DEF RightRail
  <2>12. \A q \in Request : RightChat(q)'  BY DEF RightChat
  <2>13. \A q \in Request : OwnerIsMarked(q)'  BY <2>10 DEF OwnerIsMarked, Owns
  <2>14. OneOwner'  BY <2>10 DEF OneOwner, Owns
  <2>15. \A q \in Payment : Accounted(q)'  BY DEF Accounted, NoRow
  <2> QED BY <2>5, <2>11, <2>12, <2>13, <2>14, <2>15
<1> QED BY <1>1, <1>2

\* The answer of an owner is the one delivery of its payment.
LEMMA SendStep ==
    ASSUME IInv, NEW r \in Request, Send(r)
    PROVE  IInv'
<1>p. PICK p \in Payment : p = req[r].pay  BY OwnRecords DEF Send, At
<1>1. req' = [req EXCEPT ![r] = Idle] /\ UNCHANGED <<payment, faults>>  BY DEF Send
<1>2. /\ given' = [given EXCEPT ![p] = IF req[r].door THEN AtMost2(@ + 1) ELSE @]
      /\ held' = [held EXCEPT ![p] = @ \/ req[r].key = "current"]
      BY <1>p DEF Send
<1>3. TypeOK'
  <2>1. given' \in [Payment -> 0..2]  BY <1>2 DEF IInv, TypeOK, AtMost2
  <2>2. held' \in [Payment -> BOOLEAN]
    <3>1. (held[p] \/ req[r].key = "current") \in BOOLEAN  OBVIOUS
    <3> QED BY <3>1, <1>2 DEF IInv, TypeOK
  <2> QED BY <1>1, <2>1, <2>2, NewCalls DEF IInv, TypeOK
<1>4. req[r].at = "send" /\ payment[p].rail # "none"
      BY <1>p DEF Send, At, IInv, RightRail, Row
<1>5. req[r].door => Owns(r)  BY <1>4 DEF Owns
<1> USE <1>p, <1>1, <1>2, <1>4, <1>5 DEF IInv, TypeOK, Row, Idle
<1>6. \A q \in Request : RightRail(q)'  BY DEF RightRail
<1>7. \A q \in Request : RightChat(q)'  BY DEF RightChat
<1>8. \A q \in Request : OwnerIsMarked(q)'
  <2> SUFFICES ASSUME NEW q \in Request, Owns(q)' PROVE OwnerIsMarked(q)'
      BY DEF OwnerIsMarked
  <2>1. q # r /\ req'[q] = req[q] /\ Owns(q)  BY DEF Owns
  <2>2. req[r].door => req[q].pay # p  BY <2>1 DEF OneOwner
  <2>3. given'[req[q].pay] = given[req[q].pay]  BY <2>2
  <2> QED BY <2>1, <2>3 DEF OwnerIsMarked
<1>9. OneOwner'  BY DEF OneOwner, Owns
<1>10. \A q \in Payment : Accounted(q)'
  <2>1. \A q \in Payment : q # p => Accounted(q)'  BY DEF Accounted
  <2>2. req[r].door => given[p] = 0 /\ (payment[p].rail = "bank" => payment[p].delivered)
        BY DEF OwnerIsMarked
  <2>3. given'[p] <= 1  BY <2>2 DEF Accounted, AtMost2
  <2>4. Accounted(p)'  BY <2>2, <2>3 DEF Accounted
  <2> QED BY <2>1, <2>4
<1> QED BY <1>3, <1>6, <1>7, <1>8, <1>9, <1>10

\* A rotation voids what others carry and changes nothing else about them.
LEMMA RotatedOthers ==
    ASSUME IInv, NEW r \in Request, NEW s \in Request, s # r
    PROVE  /\ Rotated(r, s) \in Calls
           /\ Rotated(r, s).at = req[s].at /\ Rotated(r, s).pay = req[s].pay
           /\ Rotated(r, s).to = req[s].to /\ Rotated(r, s).door = req[s].door
           /\ Rotated(r, s).key = "none" <=> req[s].key = "none"
<1>1. req[s] \in Calls  BY DEF IInv, TypeOK
<1>2. [req[s] EXCEPT !.key = "void"] \in Calls  BY <1>1, CallFields
<1> QED BY <1>1, <1>2 DEF Rotated, Calls

\* r at "rotate" goes on as Y: to send the new key, to release its claim, or
\* nowhere.
LEMMA RotatingStep ==
    ASSUME IInv, NEW r \in Request, req[r].at = "rotate",
           NEW Y \in Calls,
           \/ /\ Y.at \in {"send", "release"} /\ Y.pay = req[r].pay
              /\ Y.to = req[r].to /\ Y.door = req[r].door
              /\ Y.at = "release" => req[r].door
           \/ Y = Idle,
           req' = [s \in Request |-> IF s = r THEN Y ELSE Rotated(r, s)],
           held' \in {held, [held EXCEPT ![req[r].pay] = FALSE]},
           UNCHANGED <<payment, given>>, faults' \in 0..MaxFaults
    PROVE  IInv'
<1>1. req[r] \in Calls  BY OwnRecords
<1>2. TypeOK'
  <2>1. req' \in [Request -> Calls]  BY RotatedOthers
  <2>2. held' \in [Payment -> BOOLEAN]  BY DEF IInv, TypeOK
  <2> QED BY <2>1, <2>2 DEF IInv, TypeOK
<1>3. \A s \in Request : s # r =>
         /\ req'[s].at = req[s].at /\ req'[s].pay = req[s].pay
         /\ req'[s].to = req[s].to /\ req'[s].door = req[s].door
         /\ req'[s].key = "none" <=> req[s].key = "none"
      BY RotatedOthers
<1>4. req'[r] = Y  OBVIOUS
<1>5. \A s \in Request : Owns(s)' => Owns(s) /\ req'[s].pay = req[s].pay
      BY <1>3, <1>4 DEF Owns, Idle
<1>6. \A s \in Request : RightRail(s)'
  <2>1. \A s \in Request : s # r => RightRail(s)'  BY <1>3 DEF IInv, RightRail, Row
  <2>2. RightRail(r)'  BY <1>4 DEF IInv, RightRail, Row, Idle
  <2> QED BY <2>1, <2>2
<1>7. \A s \in Request : RightChat(s)'
  <2>1. \A s \in Request : s # r => RightChat(s)'  BY <1>3 DEF IInv, RightChat, Row
  <2>2. RightChat(r)'  BY <1>4 DEF IInv, RightChat, Row, Idle
  <2> QED BY <2>1, <2>2
<1>8. \A s \in Request : OwnerIsMarked(s)'  BY <1>5 DEF IInv, OwnerIsMarked, Row
<1>9. OneOwner'  BY <1>5 DEF IInv, OneOwner
<1>10. \A q \in Payment : Accounted(q)'
  <2>1. \A q \in Payment : held'[q] => held[q]  BY DEF IInv, TypeOK
  <2> QED BY <2>1 DEF IInv, Accounted
<1> QED BY <1>2, <1>6, <1>7, <1>8, <1>9, <1>10 DEF IInv

LEMMA RotateStep ==
    ASSUME IInv, NEW r \in Request, Rotate(r)
    PROVE  IInv'
<1> DEFINE Y == [req[r] EXCEPT !.at = "send", !.key = "current"]
<1>1. Y \in Calls /\ req[r] \in Calls  BY OwnRecords, CallFields
<1>2. Y.at = "send" /\ Y.pay = req[r].pay /\ Y.to = req[r].to /\ Y.door = req[r].door
      BY <1>1 DEF Calls
<1>3. req' = [s \in Request |-> IF s = r THEN Y ELSE Rotated(r, s)]
      BY DEF Rotate, Rotated
<1>4. /\ held' = [held EXCEPT ![req[r].pay] = FALSE]
      /\ UNCHANGED <<payment, given, faults>> /\ req[r].at = "rotate"
      BY DEF Rotate, At
<1>5. faults' \in 0..MaxFaults  BY <1>4 DEF IInv, TypeOK
<1> HIDE DEF Y
<1> QED BY <1>1, <1>2, <1>3, <1>4, <1>5, RotatingStep

\* rotate_key raised before its commit: nothing but r changes.
LEMMA RaisedBeforeCommit ==
    ASSUME IInv, NEW r \in Request, req[r].at = "rotate",
           req' = [req EXCEPT ![r] = Released(r)],
           UNCHANGED <<payment, held, given>>, faults' \in 0..MaxFaults
    PROVE  IInv'
<1>1. CASE ~req[r].door  BY <1>1, EndStep DEF Released
<1>2. CASE req[r].door
  <2> DEFINE Y == [req[r] EXCEPT !.at = "release"]
  <2>1. Y \in Calls /\ req[r] \in Calls  BY OwnRecords, CallFields
  <2>2. /\ Y.at = "release" /\ Y.pay = req[r].pay /\ Y.to = req[r].to
        /\ Y.door = req[r].door /\ Y.key = req[r].key
        BY <2>1 DEF Calls
  <2>3. req' = [req EXCEPT ![r] = Y]  BY <1>2 DEF Released
  <2> HIDE DEF Y
  <2>4. TypeOK'  BY <2>1, <2>3 DEF IInv, TypeOK
  <2>5. \A s \in Request : Owns(s)' => Owns(s) /\ req'[s].pay = req[s].pay
        BY <2>2, <2>3 DEF Owns, IInv, TypeOK
  <2> USE <1>2, <2>2, <2>3 DEF IInv, TypeOK, Row
  <2>6. \A s \in Request : RightRail(s)'
    <3>1. \A s \in Request : s # r => RightRail(s)'  BY DEF RightRail
    <3>2. RightRail(r)'  BY DEF RightRail
    <3> QED BY <3>1, <3>2
  <2>7. \A s \in Request : RightChat(s)'  BY DEF RightChat
  <2>8. \A s \in Request : OwnerIsMarked(s)'  BY <2>5 DEF OwnerIsMarked
  <2>9. OneOwner'  BY <2>5 DEF OneOwner
  <2>10. \A q \in Payment : Accounted(q)'  BY DEF Accounted
  <2> QED BY <2>4, <2>6, <2>7, <2>8, <2>9, <2>10
<1> QED BY <1>1, <1>2

LEMMA RotateRaisesStep ==
    ASSUME IInv, NEW r \in Request, RotateRaises(r)
    PROVE  IInv'
<1>1. /\ req[r].at = "rotate" /\ UNCHANGED <<payment, given>>
      /\ faults' \in 0..MaxFaults
      BY KeysAssumption DEF RotateRaises, At, IInv, TypeOK
<1>2. CASE req' = [req EXCEPT ![r] = Released(r)] /\ UNCHANGED held
      BY <1>1, <1>2, RaisedBeforeCommit
<1>3. CASE /\ req' = [s \in Request |-> IF s = r THEN Released(r) ELSE Rotated(r, s)]
           /\ held' = [held EXCEPT ![req[r].pay] = FALSE]
  <2>1. req[r] \in Calls /\ [req[r] EXCEPT !.at = "release"] \in Calls
        BY OwnRecords, CallFields
  <2>2. Released(r) \in Calls  BY <2>1, NewCalls DEF Released
  <2>3. \/ /\ Released(r).at \in {"send", "release"} /\ Released(r).pay = req[r].pay
           /\ Released(r).to = req[r].to /\ Released(r).door = req[r].door
           /\ Released(r).at = "release" => req[r].door
        \/ Released(r) = Idle
        BY <2>1 DEF Released, Calls
  <2> QED BY <1>1, <1>3, <2>2, <2>3, RotatingStep
<1> QED BY <1>2, <1>3 DEF RotateRaises

-----------------------------------------------------------------------------
LEMMA NextIInv == IInv /\ [Next]_vars => IInv'
<1> SUFFICES ASSUME IInv, [Next]_vars PROVE IInv'
    OBVIOUS
<1>1. CASE \E p \in Payment :
              \/ \E product \in {"pro", "fixpack"} : OpenInvoice(p, product)
              \/ Confirm(p) \/ Refund(p)
      BY <1>1, OpenInvoiceStep, ConfirmStep, RefundStep
<1>2. ASSUME NEW r \in Request,
             \/ \E p \in Payment : Poll(r, p) \/ StarsReplay(r, p) \/ RotateBearer(r, p)
             \/ \E c \in Chat, p \in Payment : Link(r, c, p) \/ StarsCharge(r, c, p)
             \/ \E c \in Chat : RotateKey(r, c)
      PROVE  IInv'
      BY <1>2, PollStep, StarsReplayStep, RotateBearerStep, LinkStep, StarsChargeStep,
         RotateKeyStep
<1>3. ASSUME NEW r \in Request, Step(r) \/ RotateRaises(r) \/ Dies(r)
      PROVE  IInv'
      BY <1>3, LinkChatStep, StampChatStep, ClaimDeliveryStep, RotateStep, ReleaseStep,
         SendStep, RotateRaisesStep, DiesStep DEF Step
<1>4. CASE UNCHANGED vars
      BY <1>4
      DEF vars, IInv, TypeOK, RightRail, RightChat, OwnerIsMarked, OneOwner, Owns,
                  Accounted, Row
<1> QED BY <1>1, <1>2, <1>3, <1>4 DEF Next

LEMMA AlwaysIInv == Spec => []IInv
BY InitIInv, NextIInv, PTL DEF Spec

\* Every variable keeps its type.
THEOREM KeysTypeCorrect == Spec => []TypeOK
BY AlwaysIInv, PTL DEF IInv

\* deliver_key_once, and the grant of a Stars charge: a payment hands out at
\* most one key, for any number of polls, /links, redeliveries and faults.
THEOREM OneDelivery == Spec => []DeliveredOnce
<1>1. IInv => DeliveredOnce  BY DEF IInv, Accounted, DeliveredOnce
<1> QED BY <1>1, AlwaysIInv, PTL

\* _handle_link and _handle_rotatekey: a key that is on its way to a chat is
\* one of an account that chat's own payment bought.
THEOREM KeysGoToTheirChat == Spec => []KeysStayWithTheChat
<1>1. IInv => KeysStayWithTheChat  BY DEF IInv, RightChat, KeysStayWithTheChat, At
<1> QED BY <1>1, AlwaysIInv, PTL
-----------------------------------------------------------------------------
(* The refinement.  A step changes the delivery of one payment at most, and  *)
(* what it makes of it depends on who owns it before and after.              *)

\* Who links, may claim, or owns a delivery asks for a payment that was settled,
\* and the latter two for Pro.
Seeks(r) == req[r].at \in {"link", "claim"} \/ Owns(r)

Settled(r) ==
    Seeks(r) => /\ Row(r).status \in {"completed", "refunded"}
                /\ req[r].at # "link" => Row(r).product = "pro"

\* An invoice that is not paid yet has no mark.
Unpaid(p) ==
    payment[p].status = "pending" => payment[p].rail = "bank" /\ ~payment[p].delivered

DInv ==
    /\ \A r \in Request : Settled(r)
    /\ \A p \in Payment : Unpaid(p)

\* A step that changes nothing DeliveryOf(q) looks at.
LEMMA DeliveryStays ==
    ASSUME NEW q \in Payment, given'[q] = given[q], HasOwner(q)' <=> HasOwner(q),
           payment'[q].product = payment[q].product,
           payment'[q].status = payment[q].status,
           payment'[q].rail = payment[q].rail,
           payment'[q].delivered = payment[q].delivered
    PROVE  DeliveryOf(q)' = DeliveryOf(q)
BY DEF DeliveryOf, HasAccount

\* A step that moves one delivery, and how KeyDelivery lets it.
LEMMA OneMoves ==
    ASSUME NEW p \in Payment,
           \A q \in Payment : q # p => DeliveryOf(q)' = DeliveryOf(q),
           \/ DeliveryOf(p)' = DeliveryOf(p)
           \/ DeliveryOf(p) = "none" /\ DeliveryOf(p)' \in {"due", "out"}
           \/ DeliveryOf(p) = "due" /\ DeliveryOf(p)' \in {"out", "burnt"}
           \/ DeliveryOf(p) = "out" /\ DeliveryOf(p)' \in {"due", "given", "burnt"}
    PROVE  KD!Next \/ UNCHANGED Deliveries
<1>1. Deliveries' = [Deliveries EXCEPT ![p] = DeliveryOf(p)']  BY DEF Deliveries
<1>2. Deliveries[p] = DeliveryOf(p)  BY DEF Deliveries
<1>3. DeliveryOf(p)' = DeliveryOf(p) => Deliveries' = Deliveries
      BY DEF Deliveries
<1> QED BY <1>1, <1>2, <1>3
    DEF KD!Next, KD!Grant, KD!Claim, KD!GiveBack, KD!Give, KD!Burn, KD!Becomes

\* Steps that leave every owner where it is, take one away, or make one.
LEMMA SameOwners ==
    ASSUME \A s \in Request : /\ Owns(s)' <=> Owns(s)
                              /\ Owns(s) => req'[s].pay = req[s].pay
    PROVE  \A q \in Payment : HasOwner(q)' <=> HasOwner(q)
BY DEF HasOwner

LEMMA OwnerLeaves ==
    ASSUME IInv, NEW r \in Request, Owns(r), ~Owns(r)',
           \A s \in Request : s # r => req'[s] = req[s]
    PROVE  \A q \in Payment : HasOwner(q)' <=> HasOwner(q) /\ q # req[r].pay
<1>1. \A s \in Request : s # r => (Owns(s)' <=> Owns(s)) /\ req'[s].pay = req[s].pay
      BY DEF Owns
<1> QED BY <1>1 DEF HasOwner, IInv, OneOwner

LEMMA OwnerComes ==
    ASSUME NEW r \in Request, ~Owns(r), Owns(r)',
           \A s \in Request : s # r => req'[s] = req[s]
    PROVE  \A q \in Payment : HasOwner(q)' <=> HasOwner(q) \/ q = req'[r].pay
<1>1. \A s \in Request : s # r => (Owns(s)' <=> Owns(s)) /\ req'[s].pay = req[s].pay
      BY DEF Owns
<1> QED BY <1>1 DEF HasOwner

\* A step that leaves owners, counts and what DeliveryOf reads of the rows alone.
LEMMA NothingMoves ==
    ASSUME \A s \in Request : /\ Owns(s)' <=> Owns(s)
                              /\ Owns(s) => req'[s].pay = req[s].pay,
           UNCHANGED given,
           \A q \in Payment : /\ payment'[q].product = payment[q].product
                              /\ payment'[q].status = payment[q].status
                              /\ payment'[q].rail = payment[q].rail
                              /\ payment'[q].delivered = payment[q].delivered
    PROVE  UNCHANGED Deliveries
<1>1. \A q \in Payment : HasOwner(q)' <=> HasOwner(q)  BY SameOwners
<1>2. \A q \in Payment : DeliveryOf(q)' = DeliveryOf(q)  BY <1>1, DeliveryStays
<1> QED BY <1>2 DEF Deliveries

\* The owner of p has not delivered, and its payment is settled.
LEMMA OwnerKnows ==
    ASSUME IInv, DInv, NEW r \in Request, Owns(r)
    PROVE  /\ req[r].pay \in Payment /\ given[req[r].pay] = 0 /\ Row(r).product = "pro"
           /\ Row(r).status \in {"completed", "refunded"}
           /\ Row(r).rail = "bank" => Row(r).delivered
           /\ DeliveryOf(req[r].pay) = "out"
<1>1. req[r].at # "idle" /\ req[r].at # "link"  BY DEF Owns
<1>2. req[r].pay \in Payment  BY <1>1, OwnRecords
<1>3. HasOwner(req[r].pay)  BY DEF HasOwner
<1> QED BY <1>1, <1>2, <1>3 DEF IInv, DInv, OwnerIsMarked, Settled, Seeks, DeliveryOf

-----------------------------------------------------------------------------
(* What each action does to the deliveries.                                *)

Delivers == KD!Next \/ UNCHANGED Deliveries

\* A payment that has no row, or is not paid, has no owner.
LEMMA NotOwned ==
    ASSUME IInv, DInv, NEW p \in Payment,
           payment[p] = NoRow \/ payment[p].status = "pending"
    PROVE  ~HasOwner(p)
BY DEF IInv, DInv, Settled, Seeks, HasOwner, Row, NoRow

LEMMA OpenInvoiceDelivers ==
    ASSUME IInv, DInv, NEW p \in Payment, NEW product \in {"pro", "fixpack"},
           OpenInvoice(p, product)
    PROVE  DInv' /\ Delivers
<1> DEFINE X == [NoRow EXCEPT !.rail = "bank", !.product = product, !.status = "pending"]
<1>1. /\ payment' = [payment EXCEPT ![p] = X] /\ UNCHANGED <<req, given>>
      /\ payment[p] = NoRow
      BY DEF OpenInvoice, IsNext
<1>2. X.rail = "bank" /\ X.status = "pending" /\ ~X.delivered  BY DEF NoRow
<1>3. payment'[p] = X /\ \A q \in Payment : q # p => payment'[q] = payment[q]
      BY <1>1 DEF IInv, TypeOK
<1> HIDE DEF X
<1>4. ~HasOwner(p)  BY <1>1, NotOwned
<1>5. \A q \in Payment : HasOwner(q)' <=> HasOwner(q)  BY <1>1 DEF HasOwner, Owns
<1>6. \A q \in Payment : q # p => DeliveryOf(q)' = DeliveryOf(q)
      BY <1>1, <1>3, <1>5, DeliveryStays
<1>7. DeliveryOf(p)' = DeliveryOf(p)
      BY <1>1, <1>2, <1>3, <1>4, <1>5 DEF DeliveryOf, NoRow
<1>8. DInv'
  <2>1. \A s \in Request : Owns(s)' <=> Owns(s)  BY <1>1 DEF Owns
  <2>2. \A s \in Request : Seeks(s) =>
            req[s].pay \in Payment /\ req[s].pay # p
        BY <1>1, OwnRecords DEF DInv, Settled, Seeks, Row, NoRow, Owns
  <2>3. \A s \in Request : Settled(s)'
        BY <1>1, <1>3, <2>1, <2>2 DEF DInv, Settled, Seeks, Row
  <2> QED BY <1>2, <1>3, <2>3 DEF DInv, Unpaid
<1> QED BY <1>6, <1>7, <1>8, OneMoves DEF Delivers

\* The settled invoice is due, or has no key to deliver.
LEMMA ConfirmDelivers ==
    ASSUME IInv, DInv, NEW p \in Payment, Confirm(p)
    PROVE  DInv' /\ Delivers
<1> DEFINE X == [payment[p] EXCEPT !.status = "completed"]
<1>1. /\ payment' = [payment EXCEPT ![p] = X] /\ UNCHANGED <<req, given>>
      /\ payment[p].status = "pending"
      BY DEF Confirm
<1>2. /\ X.rail = payment[p].rail /\ X.status = "completed"
      /\ X.product = payment[p].product /\ X.delivered = payment[p].delivered
      BY DEF IInv, TypeOK, Rows
<1>3. payment'[p] = X /\ \A q \in Payment : q # p => payment'[q] = payment[q]
      BY <1>1 DEF IInv, TypeOK
<1> HIDE DEF X
<1>4. ~HasOwner(p)  BY <1>1, NotOwned
<1>5. \A q \in Payment : HasOwner(q)' <=> HasOwner(q)  BY <1>1 DEF HasOwner, Owns
<1>6. \A q \in Payment : q # p => DeliveryOf(q)' = DeliveryOf(q)
      BY <1>1, <1>3, <1>5, DeliveryStays
<1>7. \/ DeliveryOf(p)' = DeliveryOf(p)
      \/ DeliveryOf(p) = "none" /\ DeliveryOf(p)' = "due"
      BY <1>1, <1>2, <1>3, <1>4, <1>5 DEF DeliveryOf, HasAccount, DInv, Unpaid
<1>8. DInv'
  <2>1. \A s \in Request : Owns(s)' <=> Owns(s)  BY <1>1 DEF Owns
  <2>2. \A s \in Request : Seeks(s) => req[s].pay \in Payment
        BY OwnRecords DEF Seeks, Owns
  <2>3. \A s \in Request : Settled(s)'
        BY <1>1, <1>2, <1>3, <2>1, <2>2 DEF DInv, Settled, Seeks, Row
  <2> QED BY <1>2, <1>3, <2>3 DEF DInv, Unpaid
<1> QED BY <1>6, <1>7, <1>8, OneMoves DEF Delivers

\* Money that goes back before the key was claimed ends the delivery.
LEMMA RefundDelivers ==
    ASSUME IInv, DInv, NEW p \in Payment, Refund(p)
    PROVE  DInv' /\ Delivers
<1> DEFINE X == [payment[p] EXCEPT !.status = "refunded"]
<1>1. /\ payment' = [payment EXCEPT ![p] = X] /\ UNCHANGED <<req, given>>
      /\ payment[p].status = "completed"
      BY DEF Refund
<1>2. /\ X.rail = payment[p].rail /\ X.status = "refunded"
      /\ X.product = payment[p].product /\ X.delivered = payment[p].delivered
      BY DEF IInv, TypeOK, Rows
<1>3. payment'[p] = X /\ \A q \in Payment : q # p => payment'[q] = payment[q]
      BY <1>1 DEF IInv, TypeOK
<1> HIDE DEF X
<1>5. \A q \in Payment : HasOwner(q)' <=> HasOwner(q)  BY <1>1 DEF HasOwner, Owns
<1>6. \A q \in Payment : q # p => DeliveryOf(q)' = DeliveryOf(q)
      BY <1>1, <1>3, <1>5, DeliveryStays
<1>7. \/ DeliveryOf(p)' = DeliveryOf(p)
      \/ DeliveryOf(p) = "due" /\ DeliveryOf(p)' = "burnt"
      BY <1>1, <1>2, <1>3, <1>5 DEF DeliveryOf, HasAccount
<1>8. DInv'
  <2>1. \A s \in Request : Owns(s)' <=> Owns(s)  BY <1>1 DEF Owns
  <2>2. \A s \in Request : Seeks(s) => req[s].pay \in Payment
        BY OwnRecords DEF Seeks, Owns
  <2>3. \A s \in Request : Settled(s)'
        BY <1>1, <1>2, <1>3, <2>1, <2>2 DEF DInv, Settled, Seeks, Row
  <2> QED BY <1>2, <1>3, <2>3 DEF DInv, Unpaid
<1> QED BY <1>6, <1>7, <1>8, OneMoves DEF Delivers

\* A request that begins as Y and owns nothing; or one that goes on without
\* having owned, or coming to own, a delivery.
LEMMA QuietDelivers ==
    ASSUME IInv, DInv, NEW r \in Request, ~Owns(r), NEW Y,
           req' = [req EXCEPT ![r] = Y],
           Y.at = "idle" \/ Y.at = "link" \/ (Y.at = "stamp" /\ Y.key = "none")
               \/ Y.at = "claim" \/ ~Y.door,
           Y.at \in {"link", "claim"} =>
               /\ Y.pay \in Payment
               /\ payment[Y.pay].status \in {"completed", "refunded"}
               /\ Y.at = "claim" => payment[Y.pay].product = "pro",
           UNCHANGED given,
           \A q \in Payment : /\ payment'[q].product = payment[q].product
                              /\ payment'[q].status = payment[q].status
                              /\ payment'[q].rail = payment[q].rail
                              /\ payment'[q].delivered = payment[q].delivered
    PROVE  DInv' /\ Delivers
<1>1. req'[r] = Y /\ \A s \in Request : s # r => req'[s] = req[s]
      BY DEF IInv, TypeOK
<1>2. ~Owns(r)'  BY <1>1 DEF Owns
<1>3. \A s \in Request : /\ Owns(s)' <=> Owns(s)
                         /\ Owns(s) => req'[s].pay = req[s].pay
      BY <1>1, <1>2 DEF Owns
<1>4. UNCHANGED Deliveries  BY <1>3, NothingMoves
<1>5. \A s \in Request : Settled(s)'
  <2>1. Settled(r)'  BY <1>1, <1>2 DEF Settled, Seeks, Row
  <2>2. \A s \in Request : s # r /\ Seeks(s) =>
            req[s].pay \in Payment
        BY OwnRecords DEF Seeks, Owns
  <2>3. \A s \in Request : s # r => Settled(s)'
        BY <1>1, <1>3, <2>2 DEF DInv, Settled, Seeks, Row
  <2> QED BY <2>1, <2>3
<1>6. \A q \in Payment : Unpaid(q)'  BY DEF DInv, Unpaid
<1> QED BY <1>4, <1>5, <1>6 DEF DInv, Delivers

LEMMA BeginDelivers ==
    ASSUME IInv, DInv, NEW r \in Request,
           \/ \E p \in Payment : Poll(r, p) \/ StarsReplay(r, p) \/ RotateBearer(r, p)
           \/ \E c \in Chat, p \in Payment : Link(r, c, p)
           \/ \E c \in Chat : RotateKey(r, c)
    PROVE  DInv' /\ Delivers
<1>1. req[r].at = "idle" /\ UNCHANGED <<payment, given>>
      BY DEF Poll, StarsReplay, RotateBearer, Link, RotateKey, Begin, At
<1>2. ~Owns(r)  BY <1>1 DEF Owns
<1>3. CASE \E p \in Payment : Poll(r, p)
  <2>1. PICK p \in Payment : Poll(r, p)  BY <1>3
  <2> DEFINE Y == [Idle EXCEPT !.at = "claim", !.pay = p, !.to = "web", !.door = TRUE]
  <2>2. Y.at = "claim" /\ Y.pay = p  BY DEF Idle
  <2>3. req' = [req EXCEPT ![r] = Y] /\ HasAccount(p)  BY <2>1 DEF Poll, Begin
  <2> HIDE DEF Y
  <2> QED BY <1>1, <1>2, <2>2, <2>3, QuietDelivers DEF HasAccount
<1>4. CASE \E p \in Payment : StarsReplay(r, p)
  <2>1. PICK p \in Payment : StarsReplay(r, p)  BY <1>4
  <2> DEFINE Y == [Idle EXCEPT !.at = "stamp", !.pay = p, !.to = payment[p].payer,
                               !.door = TRUE]
  <2>2. Y.at = "stamp" /\ Y.key = "none"  BY DEF Idle
  <2>3. req' = [req EXCEPT ![r] = Y]  BY <2>1 DEF StarsReplay, Begin
  <2> HIDE DEF Y
  <2> QED BY <1>1, <1>2, <2>2, <2>3, QuietDelivers
<1>5. CASE \E p \in Payment : RotateBearer(r, p)
  <2>1. PICK p \in Payment : RotateBearer(r, p)  BY <1>5
  <2> DEFINE Y == [Idle EXCEPT !.at = "rotate", !.pay = p, !.to = "web"]
  <2>2. Y.at = "rotate" /\ ~Y.door  BY DEF Idle
  <2>3. req' = [req EXCEPT ![r] = Y]  BY <2>1 DEF RotateBearer, Begin
  <2> HIDE DEF Y
  <2> QED BY <1>1, <1>2, <2>2, <2>3, QuietDelivers
<1>6. CASE \E c \in Chat, p \in Payment : Link(r, c, p)
  <2>1. PICK c \in Chat, p \in Payment : Link(r, c, p)  BY <1>6
  <2> DEFINE Y == [Idle EXCEPT !.at = "link", !.pay = p, !.to = c, !.door = TRUE]
  <2>2. Y.at = "link" /\ Y.pay = p  BY DEF Idle
  <2>3. req' = [req EXCEPT ![r] = Y] /\ payment[p].status = "completed"
        BY <2>1 DEF Link, Begin
  <2> HIDE DEF Y
  <2> QED BY <1>1, <1>2, <2>2, <2>3, QuietDelivers
<1>7. CASE \E c \in Chat : RotateKey(r, c)
  <2>1. PICK c \in Chat, p \in Payment :
           req' = [req EXCEPT ![r] = [Idle EXCEPT !.at = "rotate", !.pay = p, !.to = c]]
        BY <1>7 DEF RotateKey, OfChat, Begin
  <2> DEFINE Y == [Idle EXCEPT !.at = "rotate", !.pay = p, !.to = c]
  <2>2. Y.at = "rotate" /\ ~Y.door  BY DEF Idle
  <2>3. req' = [req EXCEPT ![r] = Y]  BY <2>1
  <2> HIDE DEF Y
  <2> QED BY <1>1, <1>2, <2>2, <2>3, QuietDelivers
<1> QED BY <1>3, <1>4, <1>5, <1>6, <1>7

\* The grant of a Stars charge is at once on its way.
LEMMA StarsChargeDelivers ==
    ASSUME IInv, DInv, NEW r \in Request, NEW c \in Chat, NEW p \in Payment,
           StarsCharge(r, c, p)
    PROVE  DInv' /\ Delivers
<1> DEFINE X == [NoRow EXCEPT !.rail = "stars", !.product = "pro",
                              !.status = "completed", !.payer = c]
<1> DEFINE Y == [at |-> "stamp", pay |-> p, to |-> c, door |-> TRUE, key |-> "current"]
<1>1. /\ payment' = [payment EXCEPT ![p] = X] /\ req' = [req EXCEPT ![r] = Y]
      /\ UNCHANGED given /\ payment[p] = NoRow /\ req[r].at = "idle"
      BY DEF StarsCharge, Begin, IsNext, At
<1>2. X.product = "pro" /\ X.status = "completed"  BY DEF NoRow
<1>3. payment'[p] = X /\ \A q \in Payment : q # p => payment'[q] = payment[q]
      BY <1>1 DEF IInv, TypeOK
<1>4. req'[r] = Y /\ \A s \in Request : s # r => req'[s] = req[s]
      BY <1>1 DEF IInv, TypeOK
<1>5. ~Owns(r) /\ Owns(r)' /\ req'[r].pay = p
      BY <1>1, <1>4 DEF Owns
<1> HIDE DEF X, Y
<1>6. ~HasOwner(p) /\ given[p] = 0
      BY <1>1, NotOwned DEF IInv, Accounted, NoRow
<1>7. \A q \in Payment : HasOwner(q)' <=> HasOwner(q) \/ q = p
      BY <1>4, <1>5, OwnerComes
<1>8. \A q \in Payment : q # p => DeliveryOf(q)' = DeliveryOf(q)
      BY <1>1, <1>3, <1>7, DeliveryStays
<1>9. DeliveryOf(p) = "none" /\ DeliveryOf(p)' = "out"
      BY <1>1, <1>6, <1>7 DEF DeliveryOf, NoRow
<1>10. DInv'
  <2>1. \A s \in Request : s # r /\ Seeks(s) =>
            req[s].pay \in Payment /\ req[s].pay # p
        BY <1>1, OwnRecords DEF DInv, Settled, Seeks, Row, NoRow, Owns
  <2>2. \A s \in Request : s # r => Settled(s)'
        BY <1>3, <1>4, <2>1 DEF DInv, Settled, Seeks, Row, Owns
  <2>3. Settled(r)'  BY <1>2, <1>3, <1>5 DEF Settled, Seeks, Row
  <2> QED BY <1>2, <1>3, <2>2, <2>3 DEF DInv, Unpaid
<1> QED BY <1>8, <1>9, <1>10, OneMoves DEF Delivers

\* Writing the chat of a payment leaves its delivery alone.
LEMMA ChatColumns ==
    ASSUME IInv, NEW p \in Payment, NEW c, payment' = [payment EXCEPT ![p].chat = c]
    PROVE  \A q \in Payment : /\ payment'[q].product = payment[q].product
                              /\ payment'[q].status = payment[q].status
                              /\ payment'[q].rail = payment[q].rail
                              /\ payment'[q].delivered = payment[q].delivered
BY DEF IInv, TypeOK, Rows

LEMMA LinkChatDelivers ==
    ASSUME IInv, DInv, NEW r \in Request, LinkChat(r)
    PROVE  DInv' /\ Delivers
<1>p. PICK p \in Payment : p = req[r].pay  BY OwnRecords DEF LinkChat, At
<1> DEFINE Y == IF Row(r).product # "pro" \/ LostRace(req[r].pay, req[r].to)
                THEN Idle ELSE [req[r] EXCEPT !.at = "claim"]
<1>1. /\ req[r].at = "link" /\ req' = [req EXCEPT ![r] = Y] /\ UNCHANGED given
      /\ payment' = [payment EXCEPT ![p].chat = LinkedChat(p, req[r].to)]
      BY <1>p DEF LinkChat, At
<1>2. ~Owns(r) /\ req[r] \in Calls  BY <1>1, OwnRecords DEF Owns
<1>3. Y.at = "idle" \/ (Y.at = "claim" /\ Y.pay = p /\ payment[p].product = "pro")
      BY <1>p, <1>2 DEF Idle, Row, Calls
<1> HIDE DEF Y
<1>4. payment[p].status \in {"completed", "refunded"}  BY <1>p, <1>1 DEF DInv, Settled, Seeks, Row
<1> QED BY <1>1, <1>2, <1>3, <1>4, ChatColumns, QuietDelivers

\* A step of r that keeps what it owned; other requests keep theirs, although
\* a rotation may void what they carry.
LEMMA KeepsOwner ==
    ASSUME IInv, DInv, NEW r \in Request, req[r].at \in {"stamp", "rotate"},
           Owns(r)' <=> Owns(r), Owns(r) => req'[r].pay = req[r].pay,
           req'[r].at \notin {"link", "claim"},
           \A s \in Request : s # r =>
               /\ req'[s].at = req[s].at /\ req'[s].pay = req[s].pay
               /\ req'[s].door = req[s].door
               /\ req'[s].key = "none" <=> req[s].key = "none",
           UNCHANGED given,
           \A q \in Payment : /\ payment'[q].product = payment[q].product
                              /\ payment'[q].status = payment[q].status
                              /\ payment'[q].rail = payment[q].rail
                              /\ payment'[q].delivered = payment[q].delivered
    PROVE  DInv' /\ Delivers
<1>1. \A s \in Request : s # r => (Owns(s)' <=> Owns(s))  BY DEF Owns
<1>2. UNCHANGED Deliveries  BY <1>1, NothingMoves
<1>3. \A s \in Request : Seeks(s) => req[s].pay \in Payment
      BY OwnRecords DEF Seeks, Owns
<1>4. \A s \in Request : Seeks(s)' => /\ Seeks(s) /\ req'[s].pay = req[s].pay
                                      /\ req'[s].at = "link" <=> req[s].at = "link"
      BY <1>1 DEF Seeks
<1>5. \A s \in Request : Settled(s)'  BY <1>3, <1>4 DEF DInv, Settled, Row
<1>6. \A q \in Payment : Unpaid(q)'  BY DEF DInv, Unpaid
<1> QED BY <1>2, <1>5, <1>6 DEF DInv, Delivers

LEMMA StampChatDelivers ==
    ASSUME IInv, DInv, NEW r \in Request, StampChat(r)
    PROVE  DInv' /\ Delivers
<1>p. PICK p \in Payment : p = req[r].pay  BY OwnRecords DEF StampChat, At
<1> DEFINE Y == IF req[r].key = "none" THEN Idle ELSE [req[r] EXCEPT !.at = "send"]
<1>1. /\ req[r].at = "stamp" /\ req' = [req EXCEPT ![r] = Y] /\ UNCHANGED given
      /\ payment' = [payment EXCEPT ![p].chat = LinkedChat(p, req[r].to)]
      BY <1>p DEF StampChat, At
<1>2. req'[r] = Y /\ \A s \in Request : s # r => req'[s] = req[s]
      BY <1>1 DEF IInv, TypeOK
<1>3. req[r] \in Calls /\ req[r].door  BY <1>1 DEF IInv, TypeOK, RightRail
<1>4. /\ Owns(r)' <=> Owns(r)
      /\ Owns(r) => req'[r].pay = req[r].pay
      /\ req'[r].at \notin {"link", "claim"}
      BY <1>1, <1>2, <1>3 DEF Owns, Idle, Calls
<1> HIDE DEF Y
<1> QED BY <1>1, <1>2, <1>4, ChatColumns, KeepsOwner

LEMMA RotateDelivers ==
    ASSUME IInv, DInv, NEW r \in Request, Rotate(r)
    PROVE  DInv' /\ Delivers
<1>1. /\ req[r].at = "rotate" /\ req' = [s \in Request |-> Rotated(r, s)]
      /\ UNCHANGED <<payment, given>>
      BY DEF Rotate, At
<1>2. req'[r] = [req[r] EXCEPT !.at = "send", !.key = "current"] /\ req[r] \in Calls
      BY <1>1, OwnRecords DEF Rotated
<1>3. /\ Owns(r)' <=> Owns(r)
      /\ req'[r].pay = req[r].pay
      /\ req'[r].at \notin {"link", "claim"}
      BY <1>1, <1>2 DEF Owns, Calls
<1>4. \A s \in Request : s # r =>
         /\ req'[s].at = req[s].at /\ req'[s].pay = req[s].pay
         /\ req'[s].door = req[s].door
         /\ req'[s].key = "none" <=> req[s].key = "none"
      BY <1>1, RotatedOthers
<1> QED BY <1>1, <1>3, <1>4, KeepsOwner

\* The claim is kept until release_key_delivery.
LEMMA RotateRaisesDelivers ==
    ASSUME IInv, DInv, NEW r \in Request, RotateRaises(r)
    PROVE  DInv' /\ Delivers
<1>1. req[r].at = "rotate" /\ UNCHANGED <<payment, given>>  BY DEF RotateRaises, At
<1>2. req'[r] = Released(r) /\ req[r] \in Calls
      BY OwnRecords DEF RotateRaises, IInv, TypeOK
<1>3. /\ Owns(r)' <=> Owns(r)
      /\ Owns(r) => req'[r].pay = req[r].pay
      /\ req'[r].at \notin {"link", "claim"}
      BY <1>1, <1>2 DEF Owns, Released, Idle, Calls
<1>4. \A s \in Request : s # r =>
         /\ req'[s].at = req[s].at /\ req'[s].pay = req[s].pay
         /\ req'[s].door = req[s].door
         /\ req'[s].key = "none" <=> req[s].key = "none"
  <2>1. CASE req' = [req EXCEPT ![r] = Released(r)]  BY <2>1 DEF IInv, TypeOK
  <2>2. CASE req' = [s \in Request |-> IF s = r THEN Released(r) ELSE Rotated(r, s)]
        BY <2>2, RotatedOthers
  <2> QED BY <2>1, <2>2 DEF RotateRaises
<1> QED BY <1>1, <1>3, <1>4, KeepsOwner

\* A request ends: an owner's delivery becomes what the row then says.
LEMMA EndDelivers ==
    ASSUME IInv, DInv, NEW r \in Request, req' = [req EXCEPT ![r] = Idle],
           \A q \in Payment :
               /\ payment'[q].product = payment[q].product
               /\ payment'[q].status = payment[q].status
               /\ payment'[q].rail = payment[q].rail
               /\ ~Owns(r) \/ q # req[r].pay =>
                     given'[q] = given[q] /\ payment'[q].delivered = payment[q].delivered,
           \A q \in Payment : payment'[q].delivered => payment[q].delivered
    PROVE  DInv' /\ Delivers
<1>1. req'[r] = Idle /\ \A s \in Request : s # r => req'[s] = req[s]
      BY DEF IInv, TypeOK
<1>2. ~Owns(r)' /\ ~Seeks(r)'  BY <1>1 DEF Owns, Seeks, Idle
<1>3. DInv'
  <2>1. \A s \in Request : s # r /\ Seeks(s) => req[s].pay \in Payment
        BY OwnRecords DEF Seeks, Owns
  <2>2. \A s \in Request : s # r => (Seeks(s)' <=> Seeks(s))  BY <1>1 DEF Seeks, Owns
  <2>3. \A s \in Request : s # r => Settled(s)'
        BY <1>1, <2>1, <2>2 DEF DInv, Settled, Row
  <2>4. Settled(r)'  BY <1>2 DEF Settled
  <2> QED BY <2>3, <2>4 DEF DInv, Unpaid
<1>4. CASE ~Owns(r)
  <2>1. \A s \in Request : /\ Owns(s)' <=> Owns(s)
                           /\ Owns(s) => req'[s].pay = req[s].pay
        BY <1>1, <1>2, <1>4 DEF Owns
  <2>2. \A q \in Payment : HasOwner(q)' <=> HasOwner(q)  BY <2>1, SameOwners
  <2>3. \A q \in Payment : DeliveryOf(q)' = DeliveryOf(q)  BY <1>4, <2>2, DeliveryStays
  <2>4. UNCHANGED Deliveries  BY <2>3 DEF Deliveries
  <2> QED BY <1>3, <2>4 DEF Delivers
<1>5. CASE Owns(r)
  <2>p. PICK p \in Payment : p = req[r].pay  BY <1>5, OwnerKnows
  <2>1. \A q \in Payment : HasOwner(q)' <=> HasOwner(q) /\ q # p
        BY <1>1, <1>2, <1>5, <2>p, OwnerLeaves
  <2>2. \A q \in Payment : q # p => DeliveryOf(q)' = DeliveryOf(q)
        BY <2>p, <2>1, DeliveryStays
  <2>3. /\ DeliveryOf(p) = "out" /\ payment[p].product = "pro"
        /\ payment[p].status \in {"completed", "refunded"}
        BY <1>5, <2>p, OwnerKnows DEF Row
  <2>4. DeliveryOf(p)' \in {"given", "due", "burnt"}  BY <2>1, <2>3 DEF DeliveryOf
  <2> QED BY <1>3, <2>2, <2>3, <2>4, OneMoves DEF Delivers
<1> QED BY <1>4, <1>5

\* The claim takes a delivery that is due.
LEMMA ClaimDeliveryDelivers ==
    ASSUME IInv, DInv, NEW r \in Request, ClaimDelivery(r)
    PROVE  DInv' /\ Delivers
<1>p. PICK p \in Payment : p = req[r].pay  BY OwnRecords DEF ClaimDelivery, At
<1>0. req[r].at = "claim" /\ ~Owns(r) /\ UNCHANGED given
      BY DEF ClaimDelivery, At, Owns
<1>1. CASE ~Claimable(p)
  <2>1. req' = [req EXCEPT ![r] = Idle] /\ UNCHANGED payment
        BY <1>p, <1>1 DEF ClaimDelivery
  <2> QED BY <1>0, <2>1, EndDelivers
<1>2. CASE Claimable(p)
  <2> DEFINE X == [payment[p] EXCEPT !.delivered = TRUE]
  <2> DEFINE Y == [req[r] EXCEPT !.at = "rotate"]
  <2>1. payment' = [payment EXCEPT ![p] = X] /\ req' = [req EXCEPT ![r] = Y]
        BY <1>p, <1>2 DEF ClaimDelivery
  <2>2. /\ X.rail = payment[p].rail /\ X.status = payment[p].status
        /\ X.product = payment[p].product
        BY DEF IInv, TypeOK, Rows
  <2>3. payment'[p] = X /\ \A q \in Payment : q # p => payment'[q] = payment[q]
        BY <2>1 DEF IInv, TypeOK
  <2>4. Y.at = "rotate" /\ Y.pay = p /\ Y.door
        BY <1>p, <1>0, OwnRecords DEF IInv, RightRail, Calls
  <2>5. req'[r] = Y /\ \A s \in Request : s # r => req'[s] = req[s]
        BY <2>1 DEF IInv, TypeOK
  <2> HIDE DEF X, Y
  <2>6. Owns(r)' /\ req'[r].pay = p  BY <2>4, <2>5 DEF Owns
  <2>7. /\ payment[p].rail = "bank" /\ payment[p].product = "pro"
        /\ payment[p].status = "completed" /\ ~payment[p].delivered
        BY <1>p, <1>0, <1>2
        DEF IInv, RightRail, DInv, Settled, Seeks, Row, Claimable
  <2>8. given[p] = 0 /\ ~HasOwner(p)
        BY <2>7 DEF IInv, TypeOK, Accounted, OwnerIsMarked, HasOwner, Row
  <2>9. \A q \in Payment : HasOwner(q)' <=> HasOwner(q) \/ q = p
        BY <1>0, <2>5, <2>6, OwnerComes
  <2>10. \A q \in Payment : q # p => DeliveryOf(q)' = DeliveryOf(q)
        BY <1>0, <2>3, <2>9, DeliveryStays
  <2>11. DeliveryOf(p) = "due" /\ DeliveryOf(p)' = "out"
        BY <1>0, <2>7, <2>8, <2>9 DEF DeliveryOf, HasAccount
  <2>12. DInv'
    <3>1. \A s \in Request : s # r /\ Seeks(s) => req[s].pay \in Payment
          BY OwnRecords DEF Seeks, Owns
    <3>2. \A s \in Request : s # r => (Seeks(s)' <=> Seeks(s))
          BY <2>5 DEF Seeks, Owns
    <3>3. \A s \in Request : s # r => Settled(s)'
          BY <2>2, <2>3, <2>5, <3>1, <3>2 DEF DInv, Settled, Row
    <3>4. Settled(r)'  BY <2>2, <2>3, <2>6, <2>7 DEF Settled, Row
    <3> QED BY <2>2, <2>3, <2>7, <3>3, <3>4 DEF DInv, Unpaid
  <2> QED BY <2>10, <2>11, <2>12, OneMoves DEF Delivers
<1> QED BY <1>1, <1>2

LEMMA ReleaseDelivers ==
    ASSUME IInv, DInv, NEW r \in Request, Release(r)
    PROVE  DInv' /\ Delivers
<1>p. PICK p \in Payment : p = req[r].pay  BY OwnRecords DEF Release, At
<1>1. /\ req' = [req EXCEPT ![r] = Idle] /\ UNCHANGED given /\ req[r].at = "release"
      /\ payment' = [payment EXCEPT ![p].delivered = FALSE]
      BY <1>p DEF Release, At
<1>2. Owns(r)  BY <1>1 DEF Owns, IInv, RightRail
<1>3. \A q \in Payment :
         /\ payment'[q].product = payment[q].product
         /\ payment'[q].status = payment[q].status
         /\ payment'[q].rail = payment[q].rail
         /\ q # p => payment'[q].delivered = payment[q].delivered
         /\ payment'[q].delivered => payment[q].delivered
      BY <1>1 DEF IInv, TypeOK, Rows
<1> QED BY <1>p, <1>1, <1>2, <1>3, EndDelivers

LEMMA SendDelivers ==
    ASSUME IInv, DInv, NEW r \in Request, Send(r)
    PROVE  DInv' /\ Delivers
<1>p. PICK p \in Payment : p = req[r].pay  BY OwnRecords DEF Send, At
<1>1. /\ req' = [req EXCEPT ![r] = Idle] /\ UNCHANGED payment /\ req[r].at = "send"
      /\ given' = [given EXCEPT ![p] = IF req[r].door THEN AtMost2(@ + 1) ELSE @]
      BY <1>p DEF Send, At
<1>2. Owns(r) <=> req[r].door  BY <1>1 DEF Owns
<1>3. \A q \in Payment : ~Owns(r) \/ q # p => given'[q] = given[q]
      BY <1>1, <1>2 DEF IInv, TypeOK
<1> QED BY <1>p, <1>1, <1>3, EndDelivers

LEMMA DiesDelivers ==
    ASSUME IInv, DInv, NEW r \in Request, Dies(r)
    PROVE  DInv' /\ Delivers
BY EndDelivers DEF Dies

-----------------------------------------------------------------------------
LEMMA NextDelivers == IInv /\ DInv /\ [Next]_vars => DInv' /\ Delivers
<1> SUFFICES ASSUME IInv, DInv, [Next]_vars PROVE DInv' /\ Delivers
    OBVIOUS
<1>1. CASE \E p \in Payment :
              \/ \E product \in {"pro", "fixpack"} : OpenInvoice(p, product)
              \/ Confirm(p) \/ Refund(p)
      BY <1>1, OpenInvoiceDelivers, ConfirmDelivers, RefundDelivers
<1>2. ASSUME NEW r \in Request,
             \/ \E p \in Payment : Poll(r, p) \/ StarsReplay(r, p) \/ RotateBearer(r, p)
             \/ \E c \in Chat, p \in Payment : Link(r, c, p) \/ StarsCharge(r, c, p)
             \/ \E c \in Chat : RotateKey(r, c)
      PROVE  DInv' /\ Delivers
      BY <1>2, BeginDelivers, StarsChargeDelivers
<1>3. ASSUME NEW r \in Request, Step(r) \/ RotateRaises(r) \/ Dies(r)
      PROVE  DInv' /\ Delivers
      BY <1>3, LinkChatDelivers, StampChatDelivers, ClaimDeliveryDelivers, RotateDelivers,
         ReleaseDelivers, SendDelivers, RotateRaisesDelivers, DiesDelivers DEF Step
<1>4. CASE UNCHANGED vars
  <2>1. DInv'  BY <1>4 DEF vars, DInv, Settled, Seeks, Owns, Unpaid, Row
  <2>2. UNCHANGED Deliveries
        BY <1>4 DEF vars, Deliveries, DeliveryOf, HasOwner, Owns, HasAccount
  <2> QED BY <2>1, <2>2 DEF Delivers
<1> QED BY <1>1, <1>2, <1>3, <1>4 DEF Next

\* deliver_key_once and its callers implement KeyDelivery: a delivery that was
\* handed out, or lost with its request, is never under way again, and one is
\* given back only by the request that has it.
THEOREM ImplementsDelivery == Spec => KeepsDelivery
<1>1. Init => DInv
      BY DEF Init, DInv, Settled, Seeks, Owns, Unpaid, Idle, NoRow, Row
<1>2. Init => KD!Init
  <2> SUFFICES ASSUME Init PROVE Deliveries = [p \in Payment |-> "none"]
      BY DEF KD!Init
  <2>1. \A p \in Payment : given[p] = 0 /\ ~HasOwner(p) /\ payment[p].product = "none"
        BY DEF Init, HasOwner, Owns, Idle, NoRow
  <2>2. \A p \in Payment : DeliveryOf(p) = "none"  BY <2>1 DEF DeliveryOf
  <2> QED BY <2>2 DEF Deliveries
<1>3. IInv /\ DInv /\ [Next]_vars => DInv'  BY NextDelivers
<1>4. IInv /\ DInv /\ [Next]_vars => [KD!Next]_Deliveries
      BY NextDelivers DEF Delivers
<1> QED BY <1>1, <1>2, <1>3, <1>4, AlwaysIInv, PTL DEF Spec, KeepsDelivery, KD!Spec
=============================================================================
