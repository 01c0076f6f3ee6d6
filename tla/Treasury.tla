------------------------------ MODULE Treasury -----------------------------
(***************************************************************************)
(* Cash: certified balances, manual entries and the four-week projection,  *)
(* against what really happens to the money.  A purchase order is billed   *)
(* in parts; every bill and every invoice of a customer is paid once, and  *)
(* Alegra tells of a payment with two webhooks, one for the payment and    *)
(* one for the document.                                                   *)
(*                                                                         *)
(* moved is the reality the tables record: the day each movement of money  *)
(* happened.  People are taken to certify what the bank shows, and to post *)
(* a planned movement on the day it happens; the order of everything else  *)
(* is free.  Every amount of one entry, bill or order is a constant.       *)
(***************************************************************************)
EXTENDS Integers, FiniteSetsExt

CONSTANTS
    Incomes, Outgoings,   \* manual entries, by direction
    Bills,                \* bills of the one purchase order
    Invoices,             \* to customers, due like the bills
    Amount,               \* of every entry and document
    OrderTotal,           \* of the purchase order
    OrderDue,             \* the day the order and the documents are due
    WeekDays, Weeks,      \* 7 and 4 in the code
    Cash,                 \* in the bank at the close of day 0
    LastDate,             \* bound on the days
    NoBalance

ASSUME TreasuryAssumption ==
    /\ IsFiniteSet(Incomes) /\ IsFiniteSet(Outgoings) /\ IsFiniteSet(Bills) /\ IsFiniteSet(Invoices)
    /\ Incomes \cap Outgoings = {} /\ Bills \cap Invoices = {}
    /\ (Incomes \cup Outgoings) \cap (Bills \cup Invoices) = {}
    /\ \A m \in Incomes \cup Outgoings \cup Bills \cup Invoices : Amount[m] \in Int
    /\ OrderTotal \in Int /\ OrderDue \in Int /\ Cash \in Int /\ NoBalance \notin Int
    /\ WeekDays \in Nat \ {0} /\ Weeks \in Nat \ {0} /\ LastDate \in Nat

Entries == Incomes \cup Outgoings
Papers == Bills \cup Invoices
Inwards == Incomes \cup Invoices
Dates == 1 .. LastDate
Never == 0

VARIABLES
    date,        \* business_today()
    moved,       \* the day each entry or document really moved money
    balance,     \* treasury_balances: the certified amount of each day
    late,        \* history: the days whose balance was certified after their close
    entry,       \* treasury_entries
    purchase,       \* the purchase_orders row: none, open or closed
    paper,       \* the purchase_bills and sales_invoices rows: none, open or paid
    payment      \* the documents whose payments row the ingestion has written

treasuryVars == <<date, moved, balance, late, entry, purchase, paper, payment>>

NoEntry == [stage |-> "none", day |-> Never]

TreasuryInit ==
    /\ date = 1
    /\ moved = [m \in Entries \cup Papers |-> Never]
    /\ balance = [d \in Dates |-> NoBalance]
    /\ late = {}
    /\ entry = [e \in Entries |-> NoEntry]
    /\ purchase = "none"
    /\ paper = [b \in Papers |-> "none"]
    /\ payment = {}

Worth(S) == MapThenSumSet(LAMBDA m : Amount[m], S)

\* What the bank shows at the close of day d.
Happened(d) == {m \in Entries \cup Papers : moved[m] \in 1 .. d}
Bank(d) == Cash + Worth(Happened(d) \cap Inwards) - Worth(Happened(d) \ Inwards)

----------------------------------------------------------------------------
(* The world and the ingestion.                                            *)

NextDay ==
    /\ date < LastDate
    /\ date' = date + 1
    /\ UNCHANGED <<moved, balance, late, entry, purchase, paper, payment>>

\* A movement nobody planned, to be recorded later as posted, and the payment of a document.
Move(m) ==
    /\ moved[m] = Never
    /\ m \in Entries => entry[m] = NoEntry
    /\ m \in Papers => paper[m] = "open"
    /\ moved' = [moved EXCEPT ![m] = date]
    /\ UNCHANGED <<date, balance, late, entry, purchase, paper, payment>>

\* The order is written, billed and closed.
WriteOrder ==
    /\ \/ purchase = "none" /\ purchase' = "open"
       \/ purchase = "open" /\ purchase' = "closed"
    /\ UNCHANGED <<date, moved, balance, late, entry, paper, payment>>

WriteDocument(b) ==
    /\ b \in Bills => purchase # "none"
    /\ \/ paper[b] = "none" /\ paper' = [paper EXCEPT ![b] = "open"]
       \/ moved[b] # Never /\ paper' = [paper EXCEPT ![b] = "paid"]
    /\ UNCHANGED <<date, moved, balance, late, entry, purchase, payment>>

WritePayment(b) ==
    /\ moved[b] # Never
    /\ payment' = payment \cup {b}
    /\ UNCHANGED <<date, moved, balance, late, entry, purchase, paper>>

----------------------------------------------------------------------------
(* balance, entry and post_entry                                           *)

CertifyBalance(d) ==
    /\ d <= date
    /\ balance' = [balance EXCEPT ![d] = Bank(d)]
    /\ late' = IF d < date THEN late \cup {d} ELSE late \ {d}
    /\ UNCHANGED <<date, moved, entry, purchase, paper, payment>>

\* A planned movement of any day, or one that happened.  A known id changes nothing.
RecordEntry(e, stage, d) ==
    /\ entry[e] = NoEntry
    /\ stage = "posted" => d <= date /\ d = moved[e] /\ d # Never
    /\ stage = "planned" => moved[e] = Never
    /\ entry' = [entry EXCEPT ![e] = [stage |-> stage, day |-> d]]
    /\ UNCHANGED <<date, moved, balance, late, purchase, paper, payment>>

PostedOn(e) == date

PostEntry(e) ==
    /\ entry[e].stage = "planned"
    /\ moved' = [moved EXCEPT ![e] = date]
    /\ entry' = [entry EXCEPT ![e] = [stage |-> "posted", day |-> PostedOn(e)]]
    /\ UNCHANGED <<date, balance, late, purchase, paper, payment>>

----------------------------------------------------------------------------
(* projection, in the order it computes                                    *)

Certified == {d \in 1 .. date : balance[d] # NoBalance}
Baseline == Max(Certified)

\* Mutant of Since: movements of the baseline's day are added to it.
SinceBaseline(d) == d >= Baseline /\ d <= date

Since(d) == d > Baseline /\ d <= date

Actual ==
    LET posted == {e \in Entries : entry[e].stage = "posted" /\ Since(entry[e].day)}
        paid == {b \in payment : Since(moved[b])}
    IN  balance[Baseline] - Worth(paid \cap Bills) + Worth(paid \cap Invoices)
                          + Worth(posted \cap Incomes) - Worth(posted \cap Outgoings)

InWeek(w, due) ==
    LET when == IF due > date THEN due ELSE date IN
    when \in date + (w - 1) * WeekDays .. date + w * WeekDays - 1

Planned(S, w) == {e \in S : entry[e].stage = "planned" /\ InWeek(w, entry[e].day)}

Open(S) == {b \in S : paper[b] = "open"}
Payables(w) == IF InWeek(w, OrderDue) THEN Worth(Open(Bills)) ELSE 0
Receivables(w) == IF InWeek(w, OrderDue) THEN Worth(Open(Invoices)) ELSE 0

\* What is left of an open order after the bills linked to it, never below zero.
Commitment ==
    LET billed == Worth({b \in Bills : paper[b] # "none"}) IN
    IF purchase = "open" /\ OrderTotal > billed THEN OrderTotal - billed ELSE 0

Outgoing(w) == Payables(w) + (IF InWeek(w, OrderDue) THEN Commitment ELSE 0) + Worth(Planned(Outgoings, w))

\* The balances of the last week.
Conservative == Actual - MapThenSumSet(Outgoing, 1 .. Weeks)
Expected == Conservative + MapThenSumSet(LAMBDA w : Receivables(w) + Worth(Planned(Incomes, w)), 1 .. Weeks)

TreasuryNext ==
    \/ NextDay
    \/ \E m \in Entries \cup Papers : Move(m)
    \/ WriteOrder
    \/ \E b \in Papers : WriteDocument(b) \/ WritePayment(b)
    \/ \E d \in Dates : CertifyBalance(d)
    \/ \E e \in Entries, stage \in {"planned", "posted"}, d \in Dates : RecordEntry(e, stage, d)
    \/ \E e \in Entries : PostEntry(e)

TreasurySpec == TreasuryInit /\ [][TreasuryNext]_treasuryVars

----------------------------------------------------------------------------
\* Everything that moved is on the tables.
CaughtUp ==
    /\ \A e \in Entries : moved[e] # Never => entry[e].stage = "posted"
    /\ \A b \in Papers : moved[b] # Never => b \in payment /\ paper[b] = "paid"

\* The baseline was certified after the close of its day.
Closed == Certified # {} /\ Baseline \in late

\* When the tables have caught up, the reconstructed balance is what the bank shows,
\* whatever was certified when, posted late or ingested out of order (projection).
ReconstructedIsTrue == CaughtUp /\ Closed => Actual = Bank(date)

Horizon == date + Weeks * WeekDays - 1
Promised == {e \in Entries : entry[e].stage = "planned" /\ entry[e].day <= Horizon}

\* Money that must move is counted once along its whole way: an order, then its bills, then
\* their payments; an invoice, then its payment; a plan, overdue or not, then its posting
\* (projection).
PromisesCountOnce ==
    CaughtUp /\ Closed /\ OrderDue <= Horizon =>
        LET unpaid == Open(Bills)
            owed == IF purchase = "open"
                    THEN LET paid == Worth({b \in Bills : paper[b] = "paid"}) IN
                         Max({OrderTotal - paid, Worth(unpaid)})
                    ELSE Worth(unpaid)
        IN  /\ Conservative = Bank(date) - owed - Worth(Promised \cap Outgoings)
            /\ Expected = Conservative + Worth(Open(Invoices)) + Worth(Promised \cap Incomes)

\* The two balances that the projection shows are those of the world.
CashIsTrue == ReconstructedIsTrue /\ PromisesCountOnce
=============================================================================
