----------------------------- MODULE CostLedger -----------------------------
(***************************************************************************)
(* The allocation of historical cost to sales: FIFO layers of one product  *)
(* (no step of the allocation looks at two), the lines that consume them,  *)
(* and the rows of the runs.                                               *)
(*                                                                         *)
(* A run commits its row, waits for the advisory lock of the tenant, and   *)
(* rebuilds the ledger in one transaction; another run may supersede the   *)
(* row meanwhile.  The lines come in the order of their dates, invoices    *)
(* before credit notes, so any sequence of the two may come.               *)
(*                                                                         *)
(* A run computes with decimals and the columns round what it stores.      *)
(* Amounts are integers of a thousandth of a cent, fine enough to tell the *)
(* two apart; an average is cut to that unit, quantities are whole.        *)
(***************************************************************************)
EXTENDS Integers, Sequences, FiniteSets

CONSTANTS
    AllocationRuns,
    SourceLayers,   \* [opened, source, id, quantity, cost]: opening balances and receipts
    SaleQuantities, \* quantities of a sales line, negative on a credit note
    MaxLines,       \* bound on the lines of a run
    NoRun, NoLayer, NoSale

ASSUME LayersAssumption ==
    /\ IsFiniteSet(SourceLayers)
    /\ \A l \in SourceLayers : l.quantity \in Nat \ {0} /\ l.cost \in Nat /\ l.opened \in Nat /\ l.id \in Nat
    /\ SaleQuantities \subseteq Int \ {0}
    /\ MaxLines \in Nat
    /\ NoRun \notin AllocationRuns /\ NoLayer \notin SourceLayers
    /\ NoSale \notin [quantity : SaleQuantities, required : Int, cogs : Int, next : Nat,
                     segments : Seq([quantity : Int, amount : Int])]

VARIABLES
    sources,    \* opening layers and purchase lines in the tables now
    status,     \* sales_cost_allocation_runs.status
    at,         \* where each run is: out, waiting for the lock, inside
    layers,     \* the layers in memory, in the order they are consumed
    current,    \* the sale being allocated
    lines,      \* the summaries of the run, with their allocation rows
    history,    \* quantity and cost consumed so far: the basis of returns
    ledger      \* the committed ledger: whose run, its layers and lines as stored

costVars == <<sources, status, at, layers, current, lines, history, ledger>>

NoHistory == [quantity |-> 0, cost |-> 0]

CostInit ==
    /\ sources \in SUBSET SourceLayers
    /\ status = [r \in AllocationRuns |-> "none"]
    /\ at = [r \in AllocationRuns |-> "out"]
    /\ layers = <<>>
    /\ current = NoSale
    /\ lines = <<>>
    /\ history = NoHistory
    /\ ledger = [run |-> NoRun, layers |-> <<>>, lines |-> <<>>]

Unlocked == \A r \in AllocationRuns : at[r] # "inside"

----------------------------------------------------------------------------
(* The rows of the runs and the transaction of one.                        *)

\* The mart refresh brings purchases under the same lock; an import of the opening has none.
Receive(l) ==
    /\ Unlocked \/ l.source = "opening"
    /\ l \notin sources
    /\ sources' = sources \cup {l}
    /\ UNCHANGED <<status, at, layers, current, lines, history, ledger>>

HasOpening == \E l \in sources : l.source = "opening"

\* The runs that a new one declares failed.
Superseded == {r \in AllocationRuns : status[r] = "running"}

StartRun(r) ==
    /\ status[r] = "none"
    /\ HasOpening
    /\ status' = [q \in AllocationRuns |-> IF q = r THEN "running"
                                           ELSE IF q \in Superseded THEN "failed" ELSE status[q]]
    /\ at' = [at EXCEPT ![r] = "waiting"]
    /\ UNCHANGED <<sources, layers, current, lines, history, ledger>>

\* Mutant of Earlier: the order of insertion instead of the day of the layer.
EarlierById(a, b) == a.id < b.id

\* By day, the opening balance before the receipts of that day, then by document.
Earlier(a, b) ==
    \/ a.opened < b.opened
    \/ a.opened = b.opened /\ a.source = "opening" /\ b.source # "opening"
    \/ a.opened = b.opened /\ (a.source = "opening" <=> b.source = "opening") /\ a.id < b.id

Fifo(set) ==
    {s \in [1 .. Cardinality(set) -> set] :
        \A i, j \in DOMAIN s : i < j => s[i] # s[j] /\ ~Earlier(s[j], s[i])}

Fresh(l) == [of |-> l, cost |-> l.cost, quantity |-> l.quantity, remaining |-> l.quantity, taken |-> 0]

\* The ledger is emptied and its layers made again from the sources.
BeginLedger(r) ==
    /\ at[r] = "waiting"
    /\ Unlocked
    /\ at' = [at EXCEPT ![r] = "inside"]
    /\ \E s \in Fifo(sources) : layers' = [i \in 1 .. Len(s) |-> Fresh(s[i])]
    /\ current' = NoSale /\ lines' = <<>> /\ history' = NoHistory
    /\ UNCHANGED <<sources, status, ledger>>

Working == \E r \in AllocationRuns : at[r] = "inside"

----------------------------------------------------------------------------
(* One line of sale.                                                       *)

\* The last digit of an amount and of a unit cost in their columns.
Cent == 1000
Grain == 10

\* Half away from zero, as ROUND_HALF_UP and the columns do.
Nearest(x, unit) ==
    IF x >= 0 THEN ((x + unit \div 2) \div unit) * unit ELSE -(((unit \div 2 - x) \div unit) * unit)

Cents(x) == Nearest(x, Cent)

Summary(quantity, costed, cogs, segments, state) ==
    [quantity |-> quantity, costed |-> costed, cogs |-> cogs, segments |-> segments, status |-> state]

\* A line whose product has no dimension.
UnknownProduct ==
    /\ Working /\ current = NoSale /\ Len(lines) < MaxLines
    /\ \E q \in SaleQuantities :
          lines' = Append(lines, Summary(q, 0, 0, <<[quantity |-> q, amount |-> 0]>>, "unavailable"))
    /\ UNCHANGED <<sources, status, at, layers, current, history, ledger>>

TakeSale ==
    /\ Working /\ current = NoSale /\ Len(lines) < MaxLines
    /\ \E q \in {n \in SaleQuantities : n > 0} :
          current' = [quantity |-> q, required |-> q, cogs |-> 0, next |-> 1, segments |-> <<>>]
    /\ UNCHANGED <<sources, status, at, layers, lines, history, ledger>>

Portion(layer) == IF layer.remaining < current.required THEN layer.remaining ELSE current.required

\* One iteration of _allocate_positive; a layer without remainder is passed by.
ConsumeLayer ==
    /\ Working /\ current # NoSale
    /\ current.required > 0 /\ current.next <= Len(layers)
    /\ LET i == current.next
           q == Portion(layers[i])
       IN  IF layers[i].remaining <= 0
           THEN /\ current' = [current EXCEPT !.next = @ + 1]
                /\ UNCHANGED layers
           ELSE /\ layers' = [layers EXCEPT ![i].remaining = @ - q, ![i].taken = @ + q]
                /\ current' = [current EXCEPT !.required = @ - q, !.next = @ + 1,
                      !.cogs = @ + q * layers[i].cost,
                      !.segments = Append(@, [quantity |-> q, amount |-> q * layers[i].cost])]
    /\ UNCHANGED <<sources, status, at, lines, history, ledger>>

Amounts(segments) ==
    LET sum[n \in 0 .. Len(segments)] == IF n = 0 THEN 0 ELSE sum[n - 1] + segments[n].amount
    IN  sum[Len(segments)]

\* Mutant of Rounded: the last segment takes the cost of the whole line.
RoundedWhole(segments, cogs) ==
    IF segments = <<>> THEN segments ELSE [segments EXCEPT ![Len(segments)].amount = Cents(cogs)]

\* The last segment takes the difference to the rounded cost of the line; the others keep
\* theirs unrounded.
Rounded(segments, cogs) ==
    IF segments = <<>> THEN segments
    ELSE [segments EXCEPT ![Len(segments)].amount = @ + Cents(cogs) - Amounts(segments)]

Uncovered(q) == IF q = 0 THEN <<>> ELSE <<[quantity |-> q, amount |-> 0]>>

StatusOf(costed, missing) ==
    IF missing = 0 THEN "costed" ELSE IF costed # 0 THEN "partial" ELSE "unavailable"

FinishSale ==
    /\ Working /\ current # NoSale
    /\ current.required = 0 \/ current.next > Len(layers)
    /\ LET costed == current.quantity - current.required IN
          /\ lines' = Append(lines, Summary(current.quantity, costed, current.cogs,
                Rounded(current.segments, current.cogs) \o Uncovered(current.required),
                StatusOf(costed, current.required)))
          /\ history' = [quantity |-> history.quantity + costed, cost |-> history.cost + current.cogs]
    /\ current' = NoSale
    /\ UNCHANGED <<sources, status, at, layers, ledger>>

Value(seq) ==
    LET sum[n \in 0 .. Len(seq)] == IF n = 0 THEN 0 ELSE sum[n - 1] + seq[n].remaining * seq[n].cost
    IN  sum[Len(seq)]

Remaining(seq) ==
    LET sum[n \in 0 .. Len(seq)] == IF n = 0 THEN 0 ELSE sum[n - 1] + seq[n].remaining
    IN  sum[Len(seq)]

HasBasis == history.quantity > 0 \/ Remaining(layers) > 0

\* What was consumed so far costs on average; before any sale, what is in stock.
AverageCost ==
    IF history.quantity > 0 THEN history.cost \div history.quantity
                            ELSE Value(layers) \div Remaining(layers)

\* A return opens a layer of its own behind all others.
ReturnLayer(q, cost) ==
    Append(layers, [of |-> NoLayer, cost |-> cost, quantity |-> q, remaining |-> q, taken |-> 0])

TakeCreditNote ==
    /\ Working /\ current = NoSale /\ Len(lines) < MaxLines
    /\ \E q \in {n \in SaleQuantities : n < 0} :
          IF HasBasis
          THEN LET cogs == q * AverageCost IN
               /\ layers' = ReturnLayer(-q, AverageCost)
               /\ lines' = Append(lines, Summary(q, q, cogs,
                              <<[quantity |-> q, amount |-> Cents(cogs)]>>, "estimated"))
          ELSE /\ lines' = Append(lines, Summary(q, 0, 0, Uncovered(q), "unavailable"))
               /\ UNCHANGED layers
    /\ UNCHANGED <<sources, status, at, current, history, ledger>>

----------------------------------------------------------------------------
(* The end of a run.                                                       *)

Exceptions == {n \in DOMAIN lines : lines[n].status \in {"partial", "unavailable"}}

\* The layer of a return is inserted with its average; of the others only the balance is written.
StoredLayer(l) == IF l.of = NoLayer THEN [l EXCEPT !.cost = Nearest(@, Grain)] ELSE l

StoredRow(s) == [s EXCEPT !.amount = Cents(@)]

\* The cost of the line and each of its rows, every one rounded on its own.
StoredLine(n) ==
    [n EXCEPT !.cogs = Cents(@), !.segments = [i \in DOMAIN n.segments |-> StoredRow(n.segments[i])]]

\* Layers, returns, allocation rows, the costs of the facts and the row of the run.
CommitRun(r) ==
    /\ at[r] = "inside" /\ current = NoSale
    /\ ledger' = [run |-> r, layers |-> [i \in DOMAIN layers |-> StoredLayer(layers[i])],
                             lines |-> [n \in DOMAIN lines |-> StoredLine(lines[n])]]
    /\ status' = [status EXCEPT ![r] = IF Exceptions = {} THEN "succeeded"
                                                          ELSE "succeeded_with_exceptions"]
    /\ at' = [at EXCEPT ![r] = "out"]
    /\ layers' = <<>> /\ lines' = <<>> /\ history' = NoHistory
    /\ UNCHANGED <<sources, current>>

\* An error, no active warehouse among them: rolled back, and the row says so.
FailRun(r) ==
    /\ at[r] # "out"
    /\ status' = [status EXCEPT ![r] = "failed"]
    /\ at' = [at EXCEPT ![r] = "out"]
    /\ IF at[r] = "inside" THEN current' = NoSale /\ layers' = <<>> /\ lines' = <<>> /\ history' = NoHistory
                           ELSE UNCHANGED <<current, layers, lines, history>>
    /\ UNCHANGED <<sources, ledger>>

\* The process dies: the transaction is gone, the row stays as it was.
DieInRun(r) ==
    /\ at[r] # "out"
    /\ at' = [at EXCEPT ![r] = "out"]
    /\ IF at[r] = "inside" THEN current' = NoSale /\ layers' = <<>> /\ lines' = <<>> /\ history' = NoHistory
                           ELSE UNCHANGED <<current, layers, lines, history>>
    /\ UNCHANGED <<sources, status, ledger>>

CostNext ==
    \/ \E l \in SourceLayers : Receive(l)
    \/ \E r \in AllocationRuns : StartRun(r) \/ BeginLedger(r) \/ CommitRun(r) \/ FailRun(r) \/ DieInRun(r)
    \/ UnknownProduct \/ TakeSale \/ ConsumeLayer \/ FinishSale \/ TakeCreditNote

CostSpec == CostInit /\ [][CostNext]_costVars

----------------------------------------------------------------------------
Layer == [of : SourceLayers \cup {NoLayer}, cost : Int, quantity : Nat, remaining : Int, taken : Int]
Segment == [quantity : Int, amount : Int]
Line == [quantity : SaleQuantities, costed : Int, cogs : Int, segments : Seq(Segment),
         status : {"costed", "estimated", "partial", "unavailable"}]
Sale == [quantity : SaleQuantities, required : Int, cogs : Int, next : Nat, segments : Seq(Segment)]

\* Type correctness of the ledger and of the rows of its runs.
CostTypeOK ==
    /\ sources \in SUBSET SourceLayers
    /\ status \in [AllocationRuns -> {"none", "running", "failed", "succeeded", "succeeded_with_exceptions"}]
    /\ at \in [AllocationRuns -> {"out", "waiting", "inside"}]
    /\ layers \in Seq(Layer)
    /\ current \in Sale \cup {NoSale}
    /\ lines \in Seq(Line)
    /\ history \in [quantity : Int, cost : Int]
    /\ ledger \in [run : AllocationRuns \cup {NoRun}, layers : Seq(Layer), lines : Seq(Line)]

\* No layer gives more than it holds: what sales took of it and what remains are its
\* quantity, at every moment of the loop and in the committed ledger.
LayersBalance ==
    \A seq \in {layers, ledger.layers} : \A i \in DOMAIN seq :
        seq[i].remaining >= 0 /\ seq[i].taken >= 0 /\ seq[i].remaining + seq[i].taken = seq[i].quantity

\* First in, first out: a layer is touched only when all that are older are used up, and
\* the layers stand in the order of their days; returns count as newest.
FirstInFirstOut ==
    \A seq \in {layers, ledger.layers} : \A i, j \in DOMAIN seq : i < j =>
        /\ seq[j].taken > 0 => seq[i].remaining = 0
        /\ seq[i].of # NoLayer /\ seq[j].of # NoLayer => seq[i].of.opened <= seq[j].of.opened

Total(seq, F(_)) ==
    LET sum[n \in 0 .. Len(seq)] == IF n = 0 THEN 0 ELSE sum[n - 1] + F(seq[n])
    IN  sum[Len(seq)]

\* x and y differ by at most half of d.
Within(x, y, d) == 2 * (x - y) <= d /\ 2 * (y - x) <= d

\* No cost appears or vanishes but by rounding: what opening balances and purchases cost is
\* in the stored layers that are left or in the stored cost of the sales, give or take half
\* a cent for each line and half the last digit of a unit cost for each unit in a returned layer.
CostIsConserved ==
    LET Worth(l) == IF l.of = NoLayer THEN 0 ELSE l.quantity * l.cost
        Left(l) == l.remaining * l.cost
        Returned(l) == IF l.of = NoLayer THEN l.remaining ELSE 0
        Cogs(n) == n.cogs
    IN  Within(Total(ledger.layers, Worth), Total(ledger.layers, Left) + Total(ledger.lines, Cogs),
               Cent * Len(ledger.lines) + Grain * Total(ledger.layers, Returned))

\* The stored rows of a line explain it: their quantities are the line's, their amounts its
\* stored cost give or take half a cent for each row, and only a line covered in full is
\* called costed.
RowsExplainLines ==
    \A n \in DOMAIN ledger.lines :
        LET line == ledger.lines[n]
            Quantity(s) == s.quantity
        IN  /\ Total(line.segments, Quantity) = line.quantity
            /\ Within(Amounts(line.segments), line.cogs, Cent * Len(line.segments))
            /\ line.status \in {"costed", "estimated"} => line.costed = line.quantity

\* The ledger is the work of a run that is on record as succeeded, also when a later run
\* declared it superseded while it worked, failed after it, or died.
LedgerHasItsRun ==
    ledger.run # NoRun => status[ledger.run] =
        IF \E n \in DOMAIN ledger.lines : ledger.lines[n].status \in {"partial", "unavailable"}
        THEN "succeeded_with_exceptions" ELSE "succeeded"

\* Layers are consumed in order and never beyond what they hold.
LayersAreConsumed == CostTypeOK /\ LayersBalance /\ FirstInFirstOut

\* What is committed adds up, as far as columns of cents can: costs, the rows of each line,
\* and the run they belong to.
CostsAddUp == CostIsConserved /\ RowsExplainLines /\ LedgerHasItsRun
=============================================================================
