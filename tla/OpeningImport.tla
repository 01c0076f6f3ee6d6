---------------------------- MODULE OpeningImport ---------------------------
(***************************************************************************)
(* The import of the certified opening inventory of one cutoff date.       *)
(*                                                                         *)
(* A report is matched row by row against the products of the mart, then   *)
(* its run is registered in one transaction and its rows, movements and    *)
(* layers are written in a second one.  Nothing locks the cutoff date: two *)
(* constraints, on the hash of the file and on the line a movement comes   *)
(* from, are all that keeps two imports apart.  The mart may refresh its   *)
(* products at any moment.                                                 *)
(***************************************************************************)
EXTENDS Integers, FiniteSets

CONSTANTS
    Importers,      \* processes of import-opening-inventory
    Reports,        \* files, known by their SHA-256
    ReportRows,     \* rows of each: [number, reference, name, quantity, cost]
    CatalogueRows,  \* products: [key, reference, name], normalised
    Blank           \* an empty cell

ASSUME ReportsAssumption ==
    /\ IsFiniteSet(CatalogueRows)
    /\ \A f \in Reports : \A a, b \in ReportRows[f] : a.number = b.number => a = b
    /\ \A f \in Reports : \A a \in ReportRows[f] : a.quantity \in Int

VARIABLES
    catalogue,  \* the products of dim_product
    run,        \* inventory_cost_import_runs, one row per file
    import,     \* each process: where it is, whether it found a row, the products it read
    balances,   \* inventory_cost_opening_balances of each file, classified
    loads,      \* how often the layers of each file were inserted
    basis,      \* history: the products that the balances of each file were matched with
    together    \* history: the files of imports that were under way at once, in pairs

openingVars == <<catalogue, run, import, balances, loads, basis, together>>

\* What dim_product may hold: one row for each key.
Catalogues == {c \in SUBSET CatalogueRows : \A p, q \in c : p.key = q.key => p = q}

Away == [pc |-> "away", file |-> Blank, exists |-> FALSE, products |-> {}]

OpeningInit ==
    /\ catalogue \in Catalogues
    /\ run = [f \in Reports |-> "none"]
    /\ import = [i \in Importers |-> Away]
    /\ balances = [f \in Reports |-> {}]
    /\ loads = [f \in Reports |-> 0]
    /\ basis = [f \in Reports |-> {}]
    /\ together = {}

----------------------------------------------------------------------------
(* What a row of the report becomes.                                       *)

ByReference(row, products) == {p \in products : row.reference # Blank /\ p.reference = row.reference}
ByName(row, products) == {p \in products : p.name = row.name}

\* The reference decides as soon as a product has it; otherwise the name does.
Candidates(row, products) ==
    IF ByReference(row, products) # {} THEN ByReference(row, products) ELSE ByName(row, products)

Class(row, matched) ==
    CASE ~matched /\ row.quantity < 0 -> "negative_unmatched"
      [] ~matched /\ row.quantity = 0 -> "reference_unmatched"
      [] ~matched /\ row.quantity > 0 -> "unmatched"
      [] matched /\ row.quantity < 0 -> "negative_exception"
      [] matched /\ row.quantity = 0 -> "reference_only"
      [] matched /\ row.quantity > 0 -> IF row.cost = Blank THEN "unpriced_exception"
                                                             ELSE "opening_layer"

Classified(row, products) ==
    LET matched == Cardinality(Candidates(row, products)) = 1
        class == Class(row, matched)
    IN  [number |-> row.number, products |-> IF matched THEN Candidates(row, products) ELSE {},
         class |-> class, quantity |-> IF class = "opening_layer" THEN row.quantity ELSE 0]

Matched(f, products) == {Classified(row, products) : row \in ReportRows[f]}

\* A refresh of the mart brings, changes or marks deleted products.
RefreshProducts ==
    /\ catalogue' \in Catalogues
    /\ UNCHANGED <<run, import, balances, loads, basis, together>>

----------------------------------------------------------------------------
(* import_xlsx; a dry run stops before it looks at any run.                *)

Finished == {"succeeded", "succeeded_with_exceptions"}

\* Mutant of Conflict: an opening with exceptions does not count.
ConflictIfClean == \E f \in Reports : run[f] = "succeeded"

Conflict == \E f \in Reports : run[f] \in Finished

\* The run of the same file that is the answer to a repeated import.
Answered(f) == run[f] \notin {"none", "failed"}

UnderWay(k) == import[k].pc # "away"

\* The file is matched with the products; a run of it that has not failed is its answer, and
\* another successful file refuses it: in both cases nothing is left to do.
Look(i, f) ==
    /\ ~UnderWay(i)
    /\ ~Answered(f)
    /\ ~Conflict
    /\ import' = [import EXCEPT ![i] = [pc |-> "register", file |-> f, exists |-> run[f] = "failed",
                                        products |-> catalogue]]
    /\ together' = together \cup {{f, import[k].file} : k \in {k \in Importers : UnderWay(k)}}
    /\ UNCHANGED <<catalogue, run, balances, loads, basis>>

\* The row of a new file is inserted, that of a failed one is used again.
Register(i) ==
    /\ import[i].pc = "register"
    /\ LET f == import[i].file IN
       \/ /\ import[i].exists \/ run[f] = "none"
          /\ run' = [run EXCEPT ![f] = "running"]
          /\ import' = [import EXCEPT ![i].pc = "write"]
       \/ \* the unique constraint on tenant, cutoff date and hash: the import raises
          /\ ~import[i].exists /\ run[f] # "none"
          /\ import' = [import EXCEPT ![i] = Away]
          /\ UNCHANGED run
    /\ UNCHANGED <<catalogue, balances, loads, basis, together>>

\* The unique constraints on the row of a run and on the source line of a movement.
Loadable(f) == loads[f] = 0

Outcome(rows) ==
    IF \A row \in rows : row.class = "opening_layer" THEN "succeeded" ELSE "succeeded_with_exceptions"

WriteOpening(i) ==
    /\ import[i].pc = "write"
    /\ LET f == import[i].file
           rows == Matched(f, import[i].products)
       IN  /\ Loadable(f)
           /\ balances' = [balances EXCEPT ![f] = rows]
           /\ basis' = [basis EXCEPT ![f] = import[i].products]
           /\ loads' = [loads EXCEPT ![f] = @ + 1]
           /\ run' = [run EXCEPT ![f] = Outcome(rows)]
    /\ import' = [import EXCEPT ![i] = Away]
    /\ UNCHANGED <<catalogue, together>>

\* Any error while writing, a violated constraint among them: rolled back, then marked.
FailImport(i) ==
    /\ import[i].pc = "write"
    /\ run' = [run EXCEPT ![import[i].file] = "failed"]
    /\ import' = [import EXCEPT ![i] = Away]
    /\ UNCHANGED <<catalogue, balances, loads, basis, together>>

\* The process dies; a registered run stays running for good.
DieImporting(i) ==
    /\ UnderWay(i)
    /\ import' = [import EXCEPT ![i] = Away]
    /\ UNCHANGED <<catalogue, run, balances, loads, basis, together>>

OpeningNext ==
    \/ RefreshProducts
    \/ \E i \in Importers, f \in Reports : Look(i, f)
    \/ \E i \in Importers : Register(i) \/ WriteOpening(i) \/ FailImport(i) \/ DieImporting(i)

OpeningSpec == OpeningInit /\ [][OpeningNext]_openingVars

----------------------------------------------------------------------------
\* No file opens the inventory twice, however its import is repeated, in a row or at once.
FileOpensOnce == \A f \in Reports : loads[f] <= 1

\* A run on record as successful, which is what a repeated import is answered with and what
\* refuses another file, has its layers, and says whether all rows became one.  Layers without
\* such a run there are only where two imports of that same file were under way at once.
RecordIsTrue ==
    \A f \in Reports :
        /\ run[f] \in Finished => loads[f] > 0 /\ run[f] = Outcome(balances[f])
        /\ loads[f] > 0 /\ {f} \notin together => run[f] \in Finished

\* A second file opens the cutoff date only past the import of the first: the two were under
\* way at once, or two imports of one of them were.  Whatever ran together before, died or
\* failed, an import that ended refuses every other file that comes after it.
SecondOpeningIsARace ==
    \A f, g \in Reports :
        f # g /\ loads[f] > 0 /\ loads[g] > 0 =>
            {f, g} \in together \/ {f} \in together \/ {g} \in together

\* Every row of an imported report is kept, and what it opens is certain by the products that
\* were there when it was matched: a positive quantity with a cost, of the one product that
\* its reference names or, where no product has that reference, its name; a row without layer
\* opens nothing.
BalancesAreCertain ==
    \A f \in Reports :
        /\ loads[f] = 0 => balances[f] = {}
        /\ loads[f] > 0 => \A row \in ReportRows[f] : \E kept \in balances[f] : kept.number = row.number
        /\ \A kept \in balances[f] : \E row \in ReportRows[f] :
              /\ row.number = kept.number
              /\ kept.class # "opening_layer" => kept.quantity = 0
              /\ kept.class = "opening_layer" =>
                    /\ kept.quantity = row.quantity /\ row.quantity > 0 /\ row.cost # Blank
                    /\ \E p \in kept.products : kept.products = {p} /\ \A q \in basis[f] \ {p} :
                          IF p.reference = row.reference /\ row.reference # Blank
                          THEN q.reference # row.reference
                          ELSE /\ p.name = row.name /\ q.name # row.name
                               /\ row.reference # Blank => q.reference # row.reference

\* What is on record of a cutoff date is so, what it opens is certain, and only imports that
\* overlap can open it twice.
OpeningIsCertain == FileOpensOnce /\ RecordIsTrue /\ SecondOpeningIsARace /\ BalancesAreCertain

\* Another successful load of a cutoff date is rejected: it never has two opening balances.
OneOpening == Cardinality({f \in Reports : loads[f] > 0}) <= 1
=============================================================================
