----------------------------- MODULE Receiving ------------------------------
(***************************************************************************)
(* One purchase order once it is in the hands of the supplier: track and   *)
(* receive, while the ingestion replaces its lines or deletes it.          *)
(*                                                                         *)
(* Every operation locks the order's row for its whole transaction, and an *)
(* upsert of the order writes that row before its lines: steps are whole   *)
(* handlers. A client sends its receipt over and over while it has no      *)
(* answer it trusts, perhaps corrected. Dates, rejected units and notes of *)
(* a receipt decide nothing but a refusal; a receipt of rejected units     *)
(* accepts none. Of the stages, those before the end are one, and closed   *)
(* and cancelled too.                                                      *)
(***************************************************************************)
EXTENDS Integers, FiniteSetsExt

CONSTANTS
    OrderLines,       \* line numbers
    Items,            \* Alegra ids of the products
    Clients,          \* each with the id of the receipt it records
    MaxQuantity,      \* bound on the units of a line
    MaxOrderEdits,    \* bound on the edits of the order in Alegra
    NoOrderLine, NoReceipt

OrderLine == [item : Items, quantity : 0 .. MaxQuantity]
Receipt == [line : OrderLines, item : Items, accepted : 0 .. MaxQuantity]
Stages == {"underway", "closed"}

ASSUME ReceivingAssumption ==
    /\ IsFiniteSet(Clients)
    /\ MaxQuantity \in Nat /\ MaxOrderEdits \in Nat
    /\ NoOrderLine \notin OrderLine /\ NoReceipt \notin Receipt

VARIABLES
    orderLine,   \* purchase_order_lines, and the order's is_deleted
    tracking,    \* the purchase_order_tracking row
    receipt,     \* purchase_receipts
    answer,      \* the last answer each client got
    most,        \* history: the most units ever asked of an item on a line
    edits

receivingVars == <<orderLine, tracking, receipt, answer, most, edits>>

ReceivingInit ==
    /\ orderLine \in [present : {TRUE}, rows : [OrderLines -> OrderLine]]
    /\ tracking = [stage |-> "underway", noted |-> FALSE, edited |-> FALSE]
    /\ receipt = [c \in Clients |-> NoReceipt]
    /\ answer = [c \in Clients |-> "none"]
    /\ most = [l \in OrderLines |-> [i \in Items |->
                 IF orderLine.rows[l].item = i THEN orderLine.rows[l].quantity ELSE 0]]
    /\ edits = 0

----------------------------------------------------------------------------
(* detail                                                                  *)

\* Mutant of Received: the item of the receipt is not compared.
ReceivedOfLine(l) == {c \in Clients : receipt[c] # NoReceipt /\ receipt[c].line = l}

\* The receipts that match line l as it is now: its number and its item.
Received(l) ==
    {c \in Clients : /\ receipt[c] # NoReceipt
                     /\ receipt[c].line = l
                     /\ receipt[c].item = orderLine.rows[l].item}

Accepted(S) == MapThenSumSet(LAMBDA c : receipt[c].accepted, S)

Existing == {l \in OrderLines : orderLine.rows[l] # NoOrderLine}

Complete ==
    /\ Existing # {}
    /\ \A l \in Existing : Accepted(Received(l)) >= orderLine.rows[l].quantity

----------------------------------------------------------------------------
\* The ingestion brings an edit made in Alegra, or its deletion or return.
EditOrder ==
    /\ edits < MaxOrderEdits
    /\ edits' = edits + 1
    /\ \/ orderLine' = [orderLine EXCEPT !.present = ~ @]
       \/ \E l \in OrderLines, row \in OrderLine \cup {NoOrderLine} :
             orderLine' = [orderLine EXCEPT !.rows[l] = row]
    /\ most' = [l \in OrderLines |-> [i \in Items |->
                  LET row == orderLine'.rows[l] IN
                  IF row # NoOrderLine /\ row.item = i /\ row.quantity > most[l][i]
                  THEN row.quantity ELSE most[l][i]]]
    /\ tracking' = [tracking EXCEPT !.edited = TRUE]
    /\ UNCHANGED <<receipt, answer>>

\* track.  tracking.edited is history: an edit of the order since this row was written.
Track(stage, noted) ==
    /\ orderLine.present
    /\ stage = "closed" => Complete \/ noted
    /\ tracking' = [stage |-> stage, noted |-> noted, edited |-> FALSE]
    /\ UNCHANGED <<orderLine, receipt, answer, most, edits>>

Answer(c, text) == answer' = [answer EXCEPT ![c] = text]

\* The id of the receipt was recorded by an earlier request.
Known(c) == receipt[c] # NoReceipt

\* It says the same: it is the answer.
Repeats(c, l, units) == receipt[c].line = l /\ receipt[c].accepted = units

\* The checks of a new receipt.
Acceptable(l, units) ==
    /\ tracking.stage # "closed"
    /\ l \in Existing
    /\ units + Accepted(Received(l)) <= orderLine.rows[l].quantity

\* receive
Receive(c, l, units) ==
    /\ \/ ~ orderLine.present /\ Answer(c, "missing") /\ receipt' = receipt
       \/ orderLine.present /\ Known(c) /\ Repeats(c, l, units)
          /\ Answer(c, "recorded") /\ receipt' = receipt
       \/ orderLine.present /\ Known(c) /\ ~ Repeats(c, l, units)
          /\ Answer(c, "another") /\ receipt' = receipt
       \/ /\ orderLine.present /\ ~ Known(c) /\ ~ Acceptable(l, units)
          /\ Answer(c, "refused") /\ receipt' = receipt
       \/ /\ orderLine.present /\ ~ Known(c) /\ Acceptable(l, units)
          /\ receipt' = [receipt EXCEPT ![c] =
                [line |-> l, item |-> orderLine.rows[l].item, accepted |-> units]]
          /\ Answer(c, "recorded") \/ Answer(c, "none")   \* the answer may be lost
    /\ UNCHANGED <<orderLine, tracking, most, edits>>

ReceivingNext ==
    \/ EditOrder
    \/ \E stage \in Stages, noted \in BOOLEAN : Track(stage, noted)
    \/ \E c \in Clients, l \in OrderLines, units \in 0 .. MaxQuantity : Receive(c, l, units)

ReceivingSpec == ReceivingInit /\ [][ReceivingNext]_receivingVars

----------------------------------------------------------------------------
ReceivingTypeOK ==
    /\ orderLine \in [present : BOOLEAN, rows : [OrderLines -> OrderLine \cup {NoOrderLine}]]
    /\ tracking \in [stage : Stages, noted : BOOLEAN, edited : BOOLEAN]
    /\ receipt \in [Clients -> Receipt \cup {NoReceipt}]
    /\ answer \in [Clients -> {"none", "recorded", "another", "refused", "missing"}]
    /\ most \in [OrderLines -> [Items -> 0 .. MaxQuantity]]
    /\ edits \in 0 .. MaxOrderEdits

\* However receipts arrive, are repeated and interleave with edits of the order, the units
\* accepted of an item on a line never exceed the most that the order has asked of it
\* (receive, under the lock of the order's row).
NeverMoreThanAsked ==
    \A l \in OrderLines, i \in Items :
        Accepted({c \in Clients : /\ receipt[c] # NoReceipt
                                  /\ receipt[c].line = l /\ receipt[c].item = i}) <= most[l][i]

\* A client whose receipt was refused has recorded nothing: a retry of a recorded receipt is
\* answered with it even when the order was closed or edited meanwhile (receive).
RefusedMeansNothing ==
    \A c \in Clients : answer[c] = "refused" => receipt[c] = NoReceipt

\* An order closed or cancelled without a note had everything it asks for, and still has
\* unless Alegra edited it since: units of another item that the line asked for before do
\* not stand for it (detail, track).
NothingPendingUnexplained ==
    tracking.stage = "closed" /\ ~ tracking.noted /\ ~ tracking.edited =>
        \A l \in Existing :
            Accepted({c \in Clients : /\ receipt[c] # NoReceipt /\ receipt[c].line = l
                                      /\ receipt[c].item = orderLine.rows[l].item})
            >= orderLine.rows[l].quantity

\* Receipts mean what they say to the client, to the order and to the supplier.
ReceiptsAreKept == NeverMoreThanAsked /\ RefusedMeansNothing /\ NothingPendingUnexplained
=============================================================================
