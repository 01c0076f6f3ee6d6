----------------------------- MODULE CostProofs -----------------------------
(***************************************************************************)
(* Proofs about where the cost of goods comes from: the opening inventory  *)
(* that files bring, and the ledger that divides it among the sales.       *)
(***************************************************************************)
EXTENDS OpeningImport, CostLedger, Sums

-----------------------------------------------------------------------------
(* The opening inventory of a cutoff date is on record as it is, what it   *)
(* opens is certain, and only imports that overlap open it twice, for any  *)
(* files, products and processes.                                          *)
(*                                                                         *)
(* The property is not inductive: WriteOpening adds a second balance       *)
(* unless what Look saw still holds.  OverlapInv says when it may not: an  *)
(* import under way whose cutoff date has been opened meanwhile ran beside *)
(* that other import, or beside one of its own file.                       *)

States == {"none", "running", "failed"} \cup Finished

ImportRecord == [pc : {"away", "register", "write"}, file : Reports \cup {Blank}, exists : BOOLEAN,
                 products : SUBSET CatalogueRows]

ImportTypes ==
    /\ catalogue \subseteq CatalogueRows
    /\ import \in [Importers -> ImportRecord]
    /\ \A i \in Importers : UnderWay(i) => import[i].file \in Reports
    /\ run \in [Reports -> States]
    /\ DOMAIN balances = Reports
    /\ loads \in [Reports -> {0, 1}]
    /\ basis \in [Reports -> SUBSET CatalogueRows]

\* What is kept of a file is its rows, matched with the products its import read.
RowsInv == \A f \in Reports : balances[f] = IF loads[f] = 0 THEN {} ELSE Matched(f, basis[f])

\* Imports of the two files, or two of one of them, were under way at once.
Raced(f, g) == {f, g} \in together \/ {f} \in together \/ {g} \in together

OverlapInv ==
    /\ \A i, k \in Importers :
          i # k /\ UnderWay(i) /\ UnderWay(k) => {import[i].file, import[k].file} \in together
    /\ \A f \in Reports : run[f] \in Finished => loads[f] = 1 /\ run[f] = Outcome(balances[f])
    /\ \A f \in Reports : loads[f] = 1 /\ {f} \notin together =>
          run[f] \in Finished /\ \A i \in Importers : UnderWay(i) => import[i].file # f
    /\ \A i \in Importers, f \in Reports :
          UnderWay(i) /\ loads[f] = 1 /\ f # import[i].file => Raced(f, import[i].file)
    /\ \A f, g \in Reports : f # g /\ loads[f] = 1 /\ loads[g] = 1 => Raced(f, g)

OpeningInv == ImportTypes /\ RowsInv /\ OverlapInv

----------------------------------------------------------------------------
LEMMA OpeningInitially == OpeningInit => OpeningInv
  BY DEF OpeningInit, OpeningInv, ImportTypes, RowsInv, OverlapInv, Away, States, Finished,
       ImportRecord, UnderWay, Catalogues

\* A row that opens a layer is priced, positive and matched to one product.
LEMMA LayersAreCertain ==
  ASSUME NEW products \in SUBSET CatalogueRows,
         NEW f \in Reports, NEW row \in ReportRows[f],
         Classified(row, products).class = "opening_layer"
  PROVE  /\ row.quantity > 0 /\ row.cost # Blank
         /\ Classified(row, products).quantity = row.quantity
         /\ \E p : /\ Classified(row, products).products = {p}
                   /\ Candidates(row, products) = {p}
  <1>1. IsFiniteSet(Candidates(row, products))
    <2>1. Candidates(row, products) \subseteq CatalogueRows
      BY DEF Candidates, ByReference, ByName
    <2> QED  BY <2>1, ReportsAssumption, FS_Subset
  <1>2. row.quantity \in Int
    BY ReportsAssumption
  <1>3. Class(row, Cardinality(Candidates(row, products)) = 1) = "opening_layer"
    BY DEF Classified
  <1>4. /\ Cardinality(Candidates(row, products)) = 1
        /\ row.quantity > 0
        /\ row.cost # Blank
    <2>1. CASE Cardinality(Candidates(row, products)) = 1
      BY <2>1, <1>2, <1>3 DEF Class
    <2>2. CASE ~ (Cardinality(Candidates(row, products)) = 1)
      BY <2>2, <1>2, <1>3 DEF Class
    <2> QED  BY <2>1, <2>2
  <1>5. \E p : Candidates(row, products) = {p}
    BY <1>1, <1>4, FS_Singleton
  <1> QED  BY <1>3, <1>4, <1>5 DEF Classified

----------------------------------------------------------------------------
\* When Look finds no successful run, what is loaded was loaded in a race of its own file.
LEMMA LookPreserves ==
  ASSUME OpeningInv, NEW i \in Importers, NEW f \in Reports, Look(i, f)
  PROVE  OpeningInv'
  <1> USE DEF OpeningInv
  <1> DEFINE new == [pc |-> "register", file |-> f, exists |-> run[f] = "failed",
                     products |-> catalogue]
  <1>0. /\ new \in ImportRecord /\ new.pc # "away" /\ new.file = f
        /\ import' = [import EXCEPT ![i] = new]
        /\ UNCHANGED <<catalogue, run, balances, loads, basis>>
        /\ together \subseteq together'
        /\ \A k \in Importers : UnderWay(k) => {f, import[k].file} \in together'
        /\ ~ UnderWay(i)
    BY DEF Look, ImportTypes, ImportRecord
  <1> HIDE DEF new
  <1>1. ImportTypes'
    BY <1>0 DEF ImportTypes, UnderWay
  <1>2. RowsInv'
    BY <1>0 DEF RowsInv
  <1>3. OverlapInv'
    <2>1. \A g \in Reports : loads[g] = 1 => {g} \in together /\ run[g] \notin Finished
      BY DEF Look, Conflict, OverlapInv
    <2>2. \A k \in Importers : UnderWay(k)' => IF k = i THEN import'[k].file = f
                                              ELSE UnderWay(k) /\ import'[k].file = import[k].file
      BY <1>0 DEF ImportTypes, UnderWay
    <2>3. \A j, k \in Importers :
            j # k /\ UnderWay(j)' /\ UnderWay(k)' => {import'[j].file, import'[k].file} \in together'
      <3> SUFFICES ASSUME NEW j \in Importers, NEW k \in Importers, j # k, UnderWay(j)', UnderWay(k)'
                   PROVE  {import'[j].file, import'[k].file} \in together'
        OBVIOUS
      <3>1. CASE j = i
        BY <1>0, <2>2, <3>1
      <3>2. CASE k = i
        <4>1. {import'[j].file, f} = {f, import[j].file}
          BY <2>2, <3>2
        <4> QED  BY <1>0, <2>2, <3>2, <4>1
      <3>3. CASE j # i /\ k # i
        BY <1>0, <2>2, <3>3 DEF OverlapInv
      <3> QED  BY <3>1, <3>2, <3>3
    <2>4. \A g \in Reports : loads'[g] = 1 => {g} \in together'
      BY <1>0, <2>1
    <2> QED  BY <1>0, <2>1, <2>3, <2>4 DEF OverlapInv, Raced
  <1> QED  BY <1>1, <1>2, <1>3

LEMMA RegisterPreserves ==
  ASSUME OpeningInv, NEW i \in Importers, Register(i)
  PROVE  OpeningInv'
  <1> USE DEF OpeningInv
  <1> DEFINE f == import[i].file
  <1>0. /\ import[i].pc = "register" /\ UnderWay(i) /\ f \in Reports
        /\ UNCHANGED <<catalogue, balances, loads, basis, together>>
        /\ run' = [run EXCEPT ![f] = "running"] \/ run' = run
    BY DEF Register, ImportTypes, UnderWay
  <1>a. \/ import' = [import EXCEPT ![i].pc = "write"]
        \/ import' = [import EXCEPT ![i] = Away]
    BY DEF Register
  <1>b. \A k \in Importers : UnderWay(k)' => UnderWay(k) /\ import'[k].file = import[k].file
    BY <1>0, <1>a DEF ImportTypes, ImportRecord, Away, UnderWay
  <1>1. ImportTypes'
    <2>1. import' \in [Importers -> ImportRecord]
      <3>1. [import[i] EXCEPT !.pc = "write"] \in ImportRecord
        BY <1>0 DEF ImportTypes, ImportRecord
      <3>2. Away \in ImportRecord
        BY DEF Away, ImportRecord
      <3> QED  BY <1>a, <3>1, <3>2 DEF ImportTypes
    <2>2. run' \in [Reports -> States]
      BY <1>0 DEF ImportTypes, States
    <2>3. \A k \in Importers : UnderWay(k)' => import'[k].file \in Reports
      BY <1>b DEF ImportTypes
    <2> QED  BY <1>0, <2>1, <2>2, <2>3 DEF ImportTypes
  <1>2. RowsInv'
    BY <1>0 DEF RowsInv
  <1>3. OverlapInv'
    BY <1>0, <1>b DEF OverlapInv, Raced, ImportTypes, Finished
  <1> QED  BY <1>1, <1>2, <1>3

\* The file was not loaded; whatever else is, was loaded in a race.
LEMMA WriteOpeningPreserves ==
  ASSUME OpeningInv, NEW i \in Importers, WriteOpening(i)
  PROVE  OpeningInv'
  <1> USE DEF OpeningInv
  <1> DEFINE f == import[i].file
             rows == Matched(f, import[i].products)
  <1>0. /\ UnderWay(i) /\ f \in Reports /\ loads[f] = 0
        /\ Outcome(rows) \in Finished /\ import[i].products \subseteq CatalogueRows
        /\ UNCHANGED <<catalogue, together>>
    BY DEF WriteOpening, Loadable, ImportTypes, ImportRecord, Outcome, Finished, UnderWay
  <1>a. /\ import' = [import EXCEPT ![i] = Away]
        /\ Away \in ImportRecord /\ Away.pc = "away"
    BY DEF WriteOpening, ImportRecord, Away
  <1>b. /\ loads' = [loads EXCEPT ![f] = 1]
        /\ balances' = [balances EXCEPT ![f] = rows]
        /\ basis' = [basis EXCEPT ![f] = import[i].products]
        /\ run' = [run EXCEPT ![f] = Outcome(rows)]
    BY <1>0 DEF WriteOpening, ImportTypes
  <1>c. \A k \in Importers : UnderWay(k)' =>
            k # i /\ UnderWay(k) /\ import'[k].file = import[k].file
    BY <1>a DEF ImportTypes, UnderWay
  <1>1. ImportTypes'
    BY <1>0, <1>a, <1>b, <1>c DEF ImportTypes, States
  <1>2. RowsInv'
    <2> SUFFICES ASSUME NEW g \in Reports
                 PROVE  balances'[g] = IF loads'[g] = 0 THEN {} ELSE Matched(g, basis'[g])
      BY DEF RowsInv
    <2>1. CASE g = f
      BY <1>0, <1>b, <2>1 DEF ImportTypes
    <2>2. CASE g # f
      BY <1>0, <1>b, <2>2 DEF ImportTypes, RowsInv
    <2> QED  BY <2>1, <2>2
  <1> HIDE DEF rows
  <1>3. OverlapInv'
    <2>1. \A j, k \in Importers :
            j # k /\ UnderWay(j)' /\ UnderWay(k)' => {import'[j].file, import'[k].file} \in together'
      BY <1>0, <1>c DEF OverlapInv
    <2>2. \A g \in Reports : run'[g] \in Finished => loads'[g] = 1 /\ run'[g] = Outcome(balances'[g])
      <3> SUFFICES ASSUME NEW g \in Reports, run'[g] \in Finished
                   PROVE  loads'[g] = 1 /\ run'[g] = Outcome(balances'[g])
        OBVIOUS
      <3>1. CASE g = f
        BY <1>0, <1>b, <3>1 DEF ImportTypes
      <3>2. CASE g # f
        <4>1. run'[g] = run[g] /\ loads'[g] = loads[g] /\ balances'[g] = balances[g]
          BY <1>b, <3>2 DEF ImportTypes
        <4> QED  BY <4>1 DEF OverlapInv
      <3> QED  BY <3>1, <3>2
    <2>3. \A g \in Reports : loads'[g] = 1 /\ {g} \notin together' =>
            run'[g] \in Finished /\ \A k \in Importers : UnderWay(k)' => import'[k].file # g
      <3> SUFFICES ASSUME NEW g \in Reports, loads'[g] = 1, {g} \notin together'
                   PROVE  run'[g] \in Finished /\ \A k \in Importers : UnderWay(k)' => import'[k].file # g
        OBVIOUS
      <3>1. CASE g = f
        <4>1. \A k \in Importers : UnderWay(k)' => import[k].file # f
          <5> SUFFICES ASSUME NEW k \in Importers, UnderWay(k)', import[k].file = f
                       PROVE  FALSE
            OBVIOUS
          <5>1. {f, import[k].file} \in together
            BY <1>0, <1>c DEF OverlapInv
          <5>2. {f, import[k].file} = {f}
            OBVIOUS
          <5> QED  BY <1>0, <3>1, <5>1, <5>2
        <4> QED  BY <1>0, <1>b, <1>c, <3>1, <4>1 DEF ImportTypes
      <3>2. CASE g # f
        BY <1>0, <1>b, <1>c, <3>2 DEF OverlapInv, ImportTypes
      <3> QED  BY <3>1, <3>2
    <2>4. \A k \in Importers, g \in Reports :
            UnderWay(k)' /\ loads'[g] = 1 /\ g # import'[k].file => Raced(g, import[k].file)'
      <3> SUFFICES ASSUME NEW k \in Importers, NEW g \in Reports,
                          UnderWay(k)', loads'[g] = 1, g # import[k].file
                   PROVE  Raced(g, import[k].file)
        BY <1>0, <1>c DEF Raced
      <3>1. CASE g = f
        BY <1>0, <1>c, <3>1 DEF OverlapInv, Raced
      <3>2. CASE g # f
        BY <1>b, <1>c, <3>2 DEF OverlapInv, ImportTypes
      <3> QED  BY <3>1, <3>2
    <2>5. \A g, h \in Reports : g # h /\ loads'[g] = 1 /\ loads'[h] = 1 => Raced(g, h)'
      <3>1. \A g \in Reports : g # f /\ loads[g] = 1 => Raced(g, f)
        BY <1>0 DEF OverlapInv
      <3>2. \A g : Raced(g, f) => Raced(f, g)
        <4>1. \A g : {g, f} = {f, g}
          OBVIOUS
        <4> QED  BY <4>1 DEF Raced
      <3>3. \A g, h \in Reports : g # h /\ loads'[g] = 1 /\ loads'[h] = 1 => Raced(g, h)
        BY <1>b, <3>1, <3>2 DEF OverlapInv, ImportTypes
      <3> QED  BY <1>0, <3>3 DEF Raced
    <2> QED  BY <2>1, <2>2, <2>3, <2>4, <2>5 DEF OverlapInv
  <1> QED  BY <1>1, <1>2, <1>3

\* The run of an import under way is not the only record of what is loaded.
LEMMA FailImportPreserves ==
  ASSUME OpeningInv, NEW i \in Importers, FailImport(i) \/ DieImporting(i)
  PROVE  OpeningInv'
  <1> USE DEF OpeningInv
  <1>0. UnderWay(i) /\ import[i].file \in Reports
    BY DEF FailImport, DieImporting, ImportTypes, UnderWay
  <1>a. /\ import' = [import EXCEPT ![i] = Away]
        /\ Away \in ImportRecord /\ Away.pc = "away"
    BY DEF FailImport, DieImporting, Away, ImportRecord
  <1>b. /\ run' = [run EXCEPT ![import[i].file] = "failed"] \/ run' = run
        /\ UNCHANGED <<catalogue, balances, loads, basis, together>>
    BY DEF FailImport, DieImporting
  <1>c. \A k \in Importers : UnderWay(k)' => UnderWay(k) /\ import'[k].file = import[k].file
    BY <1>a DEF ImportTypes, UnderWay
  <1>1. ImportTypes'
    BY <1>0, <1>a, <1>b, <1>c DEF ImportTypes, States
  <1>2. RowsInv'
    BY <1>b DEF RowsInv
  <1>3. OverlapInv'
    BY <1>0, <1>b, <1>c DEF OverlapInv, Raced, ImportTypes, Finished
  <1> QED  BY <1>1, <1>2, <1>3

LEMMA OpeningStays == OpeningInv /\ [OpeningNext]_openingVars => OpeningInv'
  <1> SUFFICES ASSUME OpeningInv, [OpeningNext]_openingVars
               PROVE  OpeningInv'
    OBVIOUS
  <1>1. CASE UNCHANGED openingVars
    BY <1>1 DEF openingVars, OpeningInv, ImportTypes, RowsInv, OverlapInv, Raced, UnderWay
  <1>2. CASE RefreshProducts
    BY <1>2 DEF RefreshProducts, Catalogues, OpeningInv, ImportTypes, RowsInv, OverlapInv, Raced, UnderWay
  <1>3. ASSUME NEW i \in Importers, NEW f \in Reports, Look(i, f)
        PROVE  OpeningInv'
    BY <1>3, LookPreserves
  <1>4. ASSUME NEW i \in Importers, Register(i)
        PROVE  OpeningInv'
    BY <1>4, RegisterPreserves
  <1>5. ASSUME NEW i \in Importers, WriteOpening(i)
        PROVE  OpeningInv'
    BY <1>5, WriteOpeningPreserves
  <1>6. ASSUME NEW i \in Importers, FailImport(i) \/ DieImporting(i)
        PROVE  OpeningInv'
    BY <1>6, FailImportPreserves
  <1> QED  BY <1>1, <1>2, <1>3, <1>4, <1>5, <1>6 DEF OpeningNext

----------------------------------------------------------------------------
LEMMA InvariantIsOnRecord == OpeningInv => FileOpensOnce /\ RecordIsTrue /\ SecondOpeningIsARace
  <1> SUFFICES ASSUME OpeningInv
               PROVE  FileOpensOnce /\ RecordIsTrue /\ SecondOpeningIsARace
    OBVIOUS
  <1>1. \A f \in Reports : loads[f] \in {0, 1}
    BY DEF OpeningInv, ImportTypes
  <1>2. FileOpensOnce
    BY <1>1 DEF FileOpensOnce
  <1>3. RecordIsTrue
    BY <1>1 DEF RecordIsTrue, OpeningInv, OverlapInv
  <1>4. SecondOpeningIsARace
    BY <1>1 DEF SecondOpeningIsARace, OpeningInv, OverlapInv, Raced
  <1> QED  BY <1>2, <1>3, <1>4

\* The balances that are kept are all rows, classified, and a layer is certain.
LEMMA InvariantIsCertain == OpeningInv => BalancesAreCertain
  <1> SUFFICES ASSUME OpeningInv, NEW f \in Reports
               PROVE  /\ loads[f] = 0 => balances[f] = {}
                      /\ loads[f] > 0 => \A row \in ReportRows[f] :
                                            \E kept \in balances[f] : kept.number = row.number
                      /\ \A kept \in balances[f] : \E row \in ReportRows[f] :
                            /\ row.number = kept.number
                            /\ kept.class # "opening_layer" => kept.quantity = 0
                            /\ kept.class = "opening_layer" =>
                                  /\ kept.quantity = row.quantity /\ row.quantity > 0
                                  /\ row.cost # Blank
                                  /\ \E p \in kept.products :
                                        /\ kept.products = {p}
                                        /\ \A q \in basis[f] \ {p} :
                                            IF p.reference = row.reference /\ row.reference # Blank
                                            THEN q.reference # row.reference
                                            ELSE /\ p.name = row.name /\ q.name # row.name
                                                 /\ row.reference # Blank =>
                                                       q.reference # row.reference
    BY DEF BalancesAreCertain
  <1> DEFINE products == basis[f]
  <1>1. balances[f] = IF loads[f] = 0 THEN {} ELSE Matched(f, products)
    BY DEF OpeningInv, RowsInv
  <1>2. loads[f] \in {0, 1} /\ products \in SUBSET CatalogueRows
    BY DEF OpeningInv, ImportTypes
  <1> HIDE DEF products
  <1>3. ASSUME NEW row \in ReportRows[f]
        PROVE  /\ Classified(row, products).number = row.number
               /\ Classified(row, products).class # "opening_layer" =>
                      Classified(row, products).quantity = 0
    BY DEF Classified
  <1>4. loads[f] > 0 => \A row \in ReportRows[f] :
            Classified(row, products) \in balances[f] /\ Classified(row, products).number = row.number
    BY <1>1, <1>2, <1>3 DEF Matched
  <1>5. ASSUME NEW kept \in balances[f]
        PROVE  \E row \in ReportRows[f] : kept = Classified(row, products)
    BY <1>1, <1>5 DEF Matched
  <1>6. ASSUME NEW row \in ReportRows[f], NEW p, Candidates(row, products) = {p},
               NEW q \in products \ {p}
        PROVE  IF p.reference = row.reference /\ row.reference # Blank
               THEN q.reference # row.reference
               ELSE /\ p.name = row.name /\ q.name # row.name
                    /\ row.reference # Blank => q.reference # row.reference
    BY <1>6 DEF Candidates, ByReference, ByName
  <1>7. ASSUME NEW row \in ReportRows[f], Classified(row, products).class = "opening_layer"
        PROVE  /\ Classified(row, products).quantity = row.quantity /\ row.quantity > 0
               /\ row.cost # Blank
               /\ \E p : Classified(row, products).products = {p} /\ Candidates(row, products) = {p}
    BY <1>2, <1>7, LayersAreCertain
  <1>8. loads[f] = 0 => balances[f] = {}
    BY <1>1
  <1> HIDE DEF OpeningInv
  <1>9. \A kept \in balances[f] : \E row \in ReportRows[f] :
            /\ row.number = kept.number
            /\ kept.class # "opening_layer" => kept.quantity = 0
            /\ kept.class = "opening_layer" =>
                  /\ kept.quantity = row.quantity /\ row.quantity > 0
                  /\ row.cost # Blank
                  /\ \E p \in kept.products :
                        /\ kept.products = {p}
                        /\ \A q \in products \ {p} :
                            IF p.reference = row.reference /\ row.reference # Blank
                            THEN q.reference # row.reference
                            ELSE /\ p.name = row.name /\ q.name # row.name
                                 /\ row.reference # Blank => q.reference # row.reference
    BY <1>3, <1>5, <1>6, <1>7
  <1> QED  BY <1>4, <1>8, <1>9 DEF products

----------------------------------------------------------------------------
\* However often and however many at once imports of one cutoff date are run, whatever dies or
\* fails and however the products change: no file opens the inventory twice, a second file
\* opens it only through imports that overlap, the runs on record are true of what is loaded,
\* and every layer is of a certain product, quantity and cost (import_xlsx, _classify_row).
THEOREM OpeningStaysCertain == OpeningSpec => []OpeningIsCertain
  <1>1. OpeningSpec => []OpeningInv
    BY OpeningInitially, OpeningStays, PTL DEF OpeningSpec
  <1>2. OpeningInv => OpeningIsCertain
    BY InvariantIsOnRecord, InvariantIsCertain DEF OpeningIsCertain
  <1> QED  BY <1>1, <1>2, PTL

-----------------------------------------------------------------------------
(* The sums of the ledger, as sums over positions.                         *)

Positions(seq) == 1 .. Len(seq)
AmountsOf(seq) == [i \in Positions(seq) |-> seq[i].amount]
QuantitiesOf(seq) == [i \in Positions(seq) |-> seq[i].quantity]
CogsOf(seq) == [i \in Positions(seq) |-> seq[i].cogs]
RemainingOf(seq) == [i \in Positions(seq) |-> seq[i].remaining]
LeftOf(seq) == [i \in Positions(seq) |-> seq[i].remaining * seq[i].cost]
WorthOf(seq) == [i \in Positions(seq) |-> IF seq[i].of = NoLayer THEN 0
                                          ELSE seq[i].quantity * seq[i].cost]
ReturnedOf(seq) == [i \in Positions(seq) |-> IF seq[i].of = NoLayer THEN seq[i].remaining ELSE 0]

LEMMA AmountsIs ==
    ASSUME NEW seq \in Seq(Segment)
    PROVE  Amounts(seq) = SumOver(AmountsOf(seq), Positions(seq)) /\ Amounts(seq) \in Int
<1> DEFINE w == AmountsOf(seq)
           n == Len(seq)
           g == CHOOSE f : f = [k \in 0 .. n |-> IF k = 0 THEN 0 ELSE f[k - 1] + seq[k].amount]
<1>1. n \in Nat
  OBVIOUS
<1>2. ASSUME NEW k \in 1 .. n PROVE w[k] = seq[k].amount /\ w[k] \in Int
  <2>1. seq[k] \in Segment
    OBVIOUS
  <2> QED  BY <2>1 DEF AmountsOf, Positions, Segment
<1>3. Amounts(seq) = g[n]
  BY DEF Amounts
<1>4. ASSUME NEW f
      PROVE  RunningTotal(f, w, n) <=>
                f = [k \in 0 .. n |-> IF k = 0 THEN 0 ELSE f[k - 1] + seq[k].amount]
  BY <1>1, <1>2 DEF RunningTotal
<1> HIDE DEF w
<1>5. RunningTotal(g, w, n)
  BY <1>1, <1>2, <1>4, RunsExist
<1> HIDE DEF g
<1>6. g[n] = SumOver(w, 1 .. n)
  BY <1>1, <1>2, <1>5, RunsIs
<1>7. SumOver(w, 1 .. n) \in Int
  BY <1>1, <1>2, SumPositions
<1> QED  BY <1>3, <1>6, <1>7 DEF Positions, w

LEMMA RemainingIs ==
    ASSUME NEW seq \in Seq(Layer)
    PROVE  Remaining(seq) = SumOver(RemainingOf(seq), Positions(seq)) /\ Remaining(seq) \in Int
<1> DEFINE w == RemainingOf(seq)
           n == Len(seq)
           g == CHOOSE f : f = [k \in 0 .. n |-> IF k = 0 THEN 0 ELSE f[k - 1] + seq[k].remaining]
<1>1. n \in Nat
  OBVIOUS
<1>2. ASSUME NEW k \in 1 .. n PROVE w[k] = seq[k].remaining /\ w[k] \in Int
  <2>1. seq[k] \in Layer
    OBVIOUS
  <2> QED  BY <2>1 DEF RemainingOf, Positions, Layer
<1>3. Remaining(seq) = g[n]
  BY DEF Remaining
<1>4. ASSUME NEW f
      PROVE  RunningTotal(f, w, n) <=>
                f = [k \in 0 .. n |-> IF k = 0 THEN 0 ELSE f[k - 1] + seq[k].remaining]
  BY <1>1, <1>2 DEF RunningTotal
<1> HIDE DEF w
<1>5. RunningTotal(g, w, n)
  BY <1>1, <1>2, <1>4, RunsExist
<1> HIDE DEF g
<1>6. g[n] = SumOver(w, 1 .. n)
  BY <1>1, <1>2, <1>5, RunsIs
<1>7. SumOver(w, 1 .. n) \in Int
  BY <1>1, <1>2, SumPositions
<1> QED  BY <1>3, <1>6, <1>7 DEF Positions, w

LEMMA ValueIs ==
    ASSUME NEW seq \in Seq(Layer)
    PROVE  Value(seq) = SumOver(LeftOf(seq), Positions(seq)) /\ Value(seq) \in Int
<1> DEFINE w == LeftOf(seq)
           n == Len(seq)
           g == CHOOSE f : f = [k \in 0 .. n |-> IF k = 0 THEN 0 ELSE f[k - 1] + seq[k].remaining * seq[k].cost]
<1>1. n \in Nat
  OBVIOUS
<1>2. ASSUME NEW k \in 1 .. n PROVE w[k] = seq[k].remaining * seq[k].cost /\ w[k] \in Int
  <2>1. seq[k] \in Layer
    OBVIOUS
  <2> QED  BY <2>1 DEF LeftOf, Positions, Layer
<1>3. Value(seq) = g[n]
  BY DEF Value
<1>4. ASSUME NEW f
      PROVE  RunningTotal(f, w, n) <=>
                f = [k \in 0 .. n |-> IF k = 0 THEN 0 ELSE f[k - 1] + seq[k].remaining * seq[k].cost]
  BY <1>1, <1>2 DEF RunningTotal
<1> HIDE DEF w
<1>5. RunningTotal(g, w, n)
  BY <1>1, <1>2, <1>4, RunsExist
<1> HIDE DEF g
<1>6. g[n] = SumOver(w, 1 .. n)
  BY <1>1, <1>2, <1>5, RunsIs
<1>7. SumOver(w, 1 .. n) \in Int
  BY <1>1, <1>2, SumPositions
<1> QED  BY <1>3, <1>6, <1>7 DEF Positions, w

\* The costs of a run, over positions: in memory nothing is lost,
Conserved(made, sold, open) ==
    SumOver(WorthOf(made), Positions(made))
      = SumOver(LeftOf(made), Positions(made)) + SumOver(CogsOf(sold), Positions(sold)) + open

\* in the columns no more than the rounding of each row.
Kept(made, sold) ==
    Within(SumOver(WorthOf(made), Positions(made)),
           SumOver(LeftOf(made), Positions(made)) + SumOver(CogsOf(sold), Positions(sold)),
           Cent * Len(sold) + Grain * SumOver(ReturnedOf(made), Positions(made)))

LEMMA WorthIs ==
    ASSUME NEW seq \in Seq(Layer)
    PROVE  Total(seq, LAMBDA x : IF x.of = NoLayer THEN 0 ELSE x.quantity * x.cost) = SumOver(WorthOf(seq), Positions(seq)) /\ SumOver(WorthOf(seq), Positions(seq)) \in Int
<1> DEFINE w == WorthOf(seq)
           n == Len(seq)
           g == CHOOSE f : f = [k \in 0 .. n |-> IF k = 0 THEN 0 ELSE f[k - 1] + (IF seq[k].of = NoLayer THEN 0 ELSE seq[k].quantity * seq[k].cost)]
<1>1. n \in Nat
  OBVIOUS
<1>2. ASSUME NEW k \in 1 .. n PROVE w[k] = (IF seq[k].of = NoLayer THEN 0 ELSE seq[k].quantity * seq[k].cost) /\ w[k] \in Int
  <2>1. seq[k] \in Layer
    OBVIOUS
  <2> QED  BY <2>1 DEF WorthOf, Positions, Layer
<1>3. Total(seq, LAMBDA x : IF x.of = NoLayer THEN 0 ELSE x.quantity * x.cost) = g[n]
  BY DEF Total
<1>4. ASSUME NEW f
      PROVE  RunningTotal(f, w, n) <=>
                f = [k \in 0 .. n |-> IF k = 0 THEN 0 ELSE f[k - 1] + (IF seq[k].of = NoLayer THEN 0 ELSE seq[k].quantity * seq[k].cost)]
  BY <1>1, <1>2 DEF RunningTotal
<1> HIDE DEF w
<1>5. RunningTotal(g, w, n)
  BY <1>1, <1>2, <1>4, RunsExist
<1> HIDE DEF g
<1>6. g[n] = SumOver(w, 1 .. n)
  BY <1>1, <1>2, <1>5, RunsIs
<1>7. SumOver(w, 1 .. n) \in Int
  BY <1>1, <1>2, SumPositions
<1> QED  BY <1>3, <1>6, <1>7 DEF Positions, w

LEMMA LeftIs ==
    ASSUME NEW seq \in Seq(Layer)
    PROVE  Total(seq, LAMBDA x : x.remaining * x.cost) = SumOver(LeftOf(seq), Positions(seq)) /\ SumOver(LeftOf(seq), Positions(seq)) \in Int
<1> DEFINE w == LeftOf(seq)
           n == Len(seq)
           g == CHOOSE f : f = [k \in 0 .. n |-> IF k = 0 THEN 0 ELSE f[k - 1] + seq[k].remaining * seq[k].cost]
<1>1. n \in Nat
  OBVIOUS
<1>2. ASSUME NEW k \in 1 .. n PROVE w[k] = seq[k].remaining * seq[k].cost /\ w[k] \in Int
  <2>1. seq[k] \in Layer
    OBVIOUS
  <2> QED  BY <2>1 DEF LeftOf, Positions, Layer
<1>3. Total(seq, LAMBDA x : x.remaining * x.cost) = g[n]
  BY DEF Total
<1>4. ASSUME NEW f
      PROVE  RunningTotal(f, w, n) <=>
                f = [k \in 0 .. n |-> IF k = 0 THEN 0 ELSE f[k - 1] + seq[k].remaining * seq[k].cost]
  BY <1>1, <1>2 DEF RunningTotal
<1> HIDE DEF w
<1>5. RunningTotal(g, w, n)
  BY <1>1, <1>2, <1>4, RunsExist
<1> HIDE DEF g
<1>6. g[n] = SumOver(w, 1 .. n)
  BY <1>1, <1>2, <1>5, RunsIs
<1>7. SumOver(w, 1 .. n) \in Int
  BY <1>1, <1>2, SumPositions
<1> QED  BY <1>3, <1>6, <1>7 DEF Positions, w

LEMMA ReturnedIs ==
    ASSUME NEW seq \in Seq(Layer)
    PROVE  Total(seq, LAMBDA x : IF x.of = NoLayer THEN x.remaining ELSE 0) = SumOver(ReturnedOf(seq), Positions(seq)) /\ SumOver(ReturnedOf(seq), Positions(seq)) \in Int
<1> DEFINE w == ReturnedOf(seq)
           n == Len(seq)
           g == CHOOSE f : f = [k \in 0 .. n |-> IF k = 0 THEN 0 ELSE f[k - 1] + (IF seq[k].of = NoLayer THEN seq[k].remaining ELSE 0)]
<1>1. n \in Nat
  OBVIOUS
<1>2. ASSUME NEW k \in 1 .. n PROVE w[k] = (IF seq[k].of = NoLayer THEN seq[k].remaining ELSE 0) /\ w[k] \in Int
  <2>1. seq[k] \in Layer
    OBVIOUS
  <2> QED  BY <2>1 DEF ReturnedOf, Positions, Layer
<1>3. Total(seq, LAMBDA x : IF x.of = NoLayer THEN x.remaining ELSE 0) = g[n]
  BY DEF Total
<1>4. ASSUME NEW f
      PROVE  RunningTotal(f, w, n) <=>
                f = [k \in 0 .. n |-> IF k = 0 THEN 0 ELSE f[k - 1] + (IF seq[k].of = NoLayer THEN seq[k].remaining ELSE 0)]
  BY <1>1, <1>2 DEF RunningTotal
<1> HIDE DEF w
<1>5. RunningTotal(g, w, n)
  BY <1>1, <1>2, <1>4, RunsExist
<1> HIDE DEF g
<1>6. g[n] = SumOver(w, 1 .. n)
  BY <1>1, <1>2, <1>5, RunsIs
<1>7. SumOver(w, 1 .. n) \in Int
  BY <1>1, <1>2, SumPositions
<1> QED  BY <1>3, <1>6, <1>7 DEF Positions, w

LEMMA CogsIs ==
    ASSUME NEW seq \in Seq(Line)
    PROVE  Total(seq, LAMBDA x : x.cogs) = SumOver(CogsOf(seq), Positions(seq)) /\ SumOver(CogsOf(seq), Positions(seq)) \in Int
<1> DEFINE w == CogsOf(seq)
           n == Len(seq)
           g == CHOOSE f : f = [k \in 0 .. n |-> IF k = 0 THEN 0 ELSE f[k - 1] + seq[k].cogs]
<1>1. n \in Nat
  OBVIOUS
<1>2. ASSUME NEW k \in 1 .. n PROVE w[k] = seq[k].cogs /\ w[k] \in Int
  <2>1. seq[k] \in Line
    OBVIOUS
  <2> QED  BY <2>1 DEF CogsOf, Positions, Line
<1>3. Total(seq, LAMBDA x : x.cogs) = g[n]
  BY DEF Total
<1>4. ASSUME NEW f
      PROVE  RunningTotal(f, w, n) <=>
                f = [k \in 0 .. n |-> IF k = 0 THEN 0 ELSE f[k - 1] + seq[k].cogs]
  BY <1>1, <1>2 DEF RunningTotal
<1> HIDE DEF w
<1>5. RunningTotal(g, w, n)
  BY <1>1, <1>2, <1>4, RunsExist
<1> HIDE DEF g
<1>6. g[n] = SumOver(w, 1 .. n)
  BY <1>1, <1>2, <1>5, RunsIs
<1>7. SumOver(w, 1 .. n) \in Int
  BY <1>1, <1>2, SumPositions
<1> QED  BY <1>3, <1>6, <1>7 DEF Positions, w

LEMMA QuantityIs ==
    ASSUME NEW seq \in Seq(Segment)
    PROVE  Total(seq, LAMBDA x : x.quantity) = SumOver(QuantitiesOf(seq), Positions(seq)) /\ SumOver(QuantitiesOf(seq), Positions(seq)) \in Int
<1> DEFINE w == QuantitiesOf(seq)
           n == Len(seq)
           g == CHOOSE f : f = [k \in 0 .. n |-> IF k = 0 THEN 0 ELSE f[k - 1] + seq[k].quantity]
<1>1. n \in Nat
  OBVIOUS
<1>2. ASSUME NEW k \in 1 .. n PROVE w[k] = seq[k].quantity /\ w[k] \in Int
  <2>1. seq[k] \in Segment
    OBVIOUS
  <2> QED  BY <2>1 DEF QuantitiesOf, Positions, Segment
<1>3. Total(seq, LAMBDA x : x.quantity) = g[n]
  BY DEF Total
<1>4. ASSUME NEW f
      PROVE  RunningTotal(f, w, n) <=>
                f = [k \in 0 .. n |-> IF k = 0 THEN 0 ELSE f[k - 1] + seq[k].quantity]
  BY <1>1, <1>2 DEF RunningTotal
<1> HIDE DEF w
<1>5. RunningTotal(g, w, n)
  BY <1>1, <1>2, <1>4, RunsExist
<1> HIDE DEF g
<1>6. g[n] = SumOver(w, 1 .. n)
  BY <1>1, <1>2, <1>5, RunsIs
<1>7. SumOver(w, 1 .. n) \in Int
  BY <1>1, <1>2, SumPositions
<1> QED  BY <1>3, <1>6, <1>7 DEF Positions, w

LEMMA KeptIs ==
    ASSUME CostTypeOK
    PROVE  CostIsConserved <=> Kept(ledger.layers, ledger.lines)
<1>1. ledger.layers \in Seq(Layer) /\ ledger.lines \in Seq(Line)
  BY DEF CostTypeOK
<1> DEFINE Worth(l) == IF l.of = NoLayer THEN 0 ELSE l.quantity * l.cost
           Left(l) == l.remaining * l.cost
           Returned(l) == IF l.of = NoLayer THEN l.remaining ELSE 0
           Cogs(n) == n.cogs
<1>2. Total(ledger.layers, Worth) = SumOver(WorthOf(ledger.layers), Positions(ledger.layers))
  BY <1>1, WorthIs
<1>3. Total(ledger.layers, Left) = SumOver(LeftOf(ledger.layers), Positions(ledger.layers))
  BY <1>1, LeftIs
<1>4. Total(ledger.layers, Returned) = SumOver(ReturnedOf(ledger.layers), Positions(ledger.layers))
  BY <1>1, ReturnedIs
<1>5. Total(ledger.lines, Cogs) = SumOver(CogsOf(ledger.lines), Positions(ledger.lines))
  BY <1>1, CogsIs
<1>6. CostIsConserved <=>
        Within(Total(ledger.layers, Worth), Total(ledger.layers, Left) + Total(ledger.lines, Cogs),
               Cent * Len(ledger.lines) + Grain * Total(ledger.layers, Returned))
  BY DEF CostIsConserved
<1> HIDE DEF Worth, Left, Returned, Cogs
<1> QED  BY <1>2, <1>3, <1>4, <1>5, <1>6 DEF Kept

-----------------------------------------------------------------------------
(* What the steps do to the sums.                                          *)

\* Rounding moves an amount by half a unit at most.
LEMMA CentsIs ==
    ASSUME NEW x \in Int
    PROVE  Cents(x) \in Int /\ 2 * (Cents(x) - x) <= Cent /\ 2 * (x - Cents(x)) <= Cent
BY DEF Cents, Nearest, Cent

LEMMA GrainIs ==
    ASSUME NEW x \in Int
    PROVE  /\ Nearest(x, Grain) \in Int
           /\ 2 * (Nearest(x, Grain) - x) <= Grain /\ 2 * (x - Nearest(x, Grain)) <= Grain
BY DEF Nearest, Grain

\* A sequence and one more: each sum grows by what the last brings.
LEMMA AppendSegment ==
    ASSUME NEW seq \in Seq(Segment), NEW s \in Segment
    PROVE  /\ Append(seq, s) \in Seq(Segment)
           /\ Amounts(Append(seq, s)) = Amounts(seq) + s.amount
           /\ SumOver(QuantitiesOf(Append(seq, s)), Positions(Append(seq, s)))
                = SumOver(QuantitiesOf(seq), Positions(seq)) + s.quantity
<1> DEFINE n == Len(seq)
           t == Append(seq, s)
<1>1. n \in Nat /\ t \in Seq(Segment) /\ Len(t) = n + 1 /\ t[n + 1] = s
      /\ \A k \in 1 .. n : t[k] = seq[k]
  OBVIOUS
<1>2. s.amount \in Int /\ s.quantity \in Int
      /\ \A k \in 1 .. n : seq[k].amount \in Int /\ seq[k].quantity \in Int
  <2>1. \A k \in 1 .. n : seq[k] \in Segment
    OBVIOUS
  <2> QED  BY <2>1 DEF Segment
<1> HIDE DEF n, t
<1>3. Positions(t) = 1 .. n + 1 /\ Positions(seq) = 1 .. n
  BY <1>1 DEF Positions, n
<1>4. SumOver(AmountsOf(t), 1 .. n + 1) = SumOver(AmountsOf(seq), 1 .. n) + AmountsOf(t)[n + 1]
  <2>1. \A k \in 1 .. n : AmountsOf(seq)[k] \in Int /\ AmountsOf(t)[k] = AmountsOf(seq)[k]
    BY <1>1, <1>2, <1>3 DEF AmountsOf
  <2>2. AmountsOf(t)[n + 1] \in Int
    BY <1>1, <1>2, <1>3 DEF AmountsOf
  <2> QED  BY <1>1, <2>1, <2>2, SumAppend
<1>5. SumOver(QuantitiesOf(t), 1 .. n + 1) = SumOver(QuantitiesOf(seq), 1 .. n) + QuantitiesOf(t)[n + 1]
  <2>1. \A k \in 1 .. n : QuantitiesOf(seq)[k] \in Int /\ QuantitiesOf(t)[k] = QuantitiesOf(seq)[k]
    BY <1>1, <1>2, <1>3 DEF QuantitiesOf
  <2>2. QuantitiesOf(t)[n + 1] \in Int
    BY <1>1, <1>2, <1>3 DEF QuantitiesOf
  <2> QED  BY <1>1, <2>1, <2>2, SumAppend
<1>6. AmountsOf(t)[n + 1] = s.amount /\ QuantitiesOf(t)[n + 1] = s.quantity
  BY <1>1, <1>3 DEF AmountsOf, QuantitiesOf
<1>7. Amounts(t) = SumOver(AmountsOf(t), Positions(t))
  BY <1>1, AmountsIs
<1>8. Amounts(seq) = SumOver(AmountsOf(seq), Positions(seq))
  BY AmountsIs
<1>9. Amounts(t) = Amounts(seq) + s.amount
      /\ SumOver(QuantitiesOf(t), Positions(t)) = SumOver(QuantitiesOf(seq), Positions(seq)) + s.quantity
  BY <1>3, <1>4, <1>5, <1>6, <1>7, <1>8
<1> QED  BY <1>1, <1>9 DEF t

LEMMA NoSegment ==
    /\ <<>> \in Seq(Segment) /\ Amounts(<<>>) = 0
    /\ SumOver(QuantitiesOf(<<>>), Positions(<<>>)) = 0
<1>1. <<>> \in Seq(Segment) /\ Positions(<<>>) = {}
  BY DEF Positions
<1> QED  BY <1>1, AmountsIs, SumEmpty

\* Rounding changes the last amount to what makes the sum whole cents.
LEMMA RoundedIs ==
    ASSUME NEW seq \in Seq(Segment), NEW cogs \in Int
    PROVE  /\ Rounded(seq, cogs) \in Seq(Segment)
           /\ (seq = <<>> => cogs = 0) => Amounts(Rounded(seq, cogs)) = Cents(cogs)
           /\ SumOver(QuantitiesOf(Rounded(seq, cogs)), Positions(Rounded(seq, cogs)))
                = SumOver(QuantitiesOf(seq), Positions(seq))
<1>1. CASE seq = <<>>
  <2>1. Rounded(seq, cogs) = <<>>
    BY <1>1 DEF Rounded
  <2>2. cogs = 0 => Cents(cogs) = 0
    BY <1>1 DEF Cents, Nearest, Cent
  <2> QED  BY <1>1, <2>1, <2>2, NoSegment
<1>2. CASE seq # <<>>
  <2> DEFINE n == Len(seq)
             t == Rounded(seq, cogs)
             a == seq[n].amount + Cents(cogs) - Amounts(seq)
  <2>1. n \in Nat \ {0} /\ n \in 1 .. n /\ \A k \in 1 .. n : seq[k] \in Segment
    BY <1>2
  <2>2. a \in Int
    <3>1. seq[n].amount \in Int
      BY <2>1 DEF Segment
    <3>2. Amounts(seq) \in Int
      BY AmountsIs
    <3>3. Cents(cogs) \in Int
      BY CentsIs
    <3> QED  BY <3>1, <3>2, <3>3
  <2>3. PICK b \in Int : b = a
    BY <2>2
  <2>4. t = [seq EXCEPT ![n].amount = b]
    BY <1>2, <2>3 DEF Rounded
  <2> HIDE DEF a, t
  <2>5. /\ t \in Seq(Segment) /\ Len(t) = n
        /\ t[n].amount = b /\ t[n].quantity = seq[n].quantity
        /\ \A k \in 1 .. n : k # n => t[k] = seq[k]
    <3>1. PICK y : y = [seq[n] EXCEPT !.amount = b]
      OBVIOUS
    <3>2. y \in Segment /\ y.amount = b /\ y.quantity = seq[n].quantity
      <4>1. PICK x \in Segment : x = seq[n]
        BY <2>1
      <4> QED  BY <3>1, <4>1 DEF Segment
    <3>3. t = [seq EXCEPT ![n] = y]
      BY <2>1, <2>4, <3>1
    <3> QED  BY <2>1, <3>2, <3>3
  <2>6. \A k \in 1 .. n : /\ seq[k].amount \in Int /\ seq[k].quantity \in Int
                          /\ t[k].amount \in Int /\ t[k].quantity = seq[k].quantity
    BY <2>1, <2>5 DEF Segment
  <2>7. /\ \A k \in 1 .. n : AmountsOf(seq)[k] = seq[k].amount /\ AmountsOf(t)[k] = t[k].amount
        /\ \A k \in 1 .. n : /\ QuantitiesOf(seq)[k] = seq[k].quantity
                             /\ QuantitiesOf(t)[k] = t[k].quantity
        /\ Positions(seq) = 1 .. n /\ Positions(t) = 1 .. n
    BY <2>5 DEF AmountsOf, QuantitiesOf, Positions
  <2>8. IsFiniteSet(1 .. n)
    BY <2>1, FS_Interval
  <2>9. SumOver(AmountsOf(t), 1 .. n)
          = SumOver(AmountsOf(seq), 1 .. n) + AmountsOf(t)[n] - AmountsOf(seq)[n]
    <3>1. \A k \in 1 .. n : AmountsOf(seq)[k] \in Int
      BY <2>6, <2>7
    <3>2. AmountsOf(t)[n] \in Int
      BY <2>1, <2>6, <2>7
    <3>3. \A k \in 1 .. n : k # n => AmountsOf(t)[k] = AmountsOf(seq)[k]
      BY <2>5, <2>7
    <3>4. n \in 1 .. n
      BY <2>1
    <3> DEFINE v == AmountsOf(seq)
               w == AmountsOf(t)
               S == 1 .. n
    <3> HIDE DEF v, w, S
    <3>5. SumOver(w, S) = SumOver(v, S) + w[n] - v[n]
      <4>1. IsFiniteSet(S) /\ n \in S /\ (\A x \in S : v[x] \in Int) /\ w[n] \in Int
            /\ (\A x \in S : x # n => w[x] = v[x])
        BY <2>8, <3>1, <3>2, <3>3, <3>4 DEF v, w, S
      <4> HIDE DEF n
      <4> QED  BY <4>1, SumChange
    <3> QED  BY <3>5 DEF v, w, S
  <2>10. SumOver(QuantitiesOf(t), 1 .. n) = SumOver(QuantitiesOf(seq), 1 .. n)
    <3>1. \A k \in 1 .. n : QuantitiesOf(t)[k] = QuantitiesOf(seq)[k]
      BY <2>6, <2>7
    <3> HIDE DEF n
    <3> QED  BY <2>8, <3>1, SumSame
  <2>11. Amounts(t) = SumOver(AmountsOf(t), 1 .. n)
    BY <2>5, <2>7, AmountsIs
  <2>12. Amounts(seq) = SumOver(AmountsOf(seq), 1 .. n) /\ Amounts(seq) \in Int
    BY <2>7, AmountsIs
  <2>13. Amounts(t) = Cents(cogs)
    <3>1. Cents(cogs) \in Int /\ AmountsOf(seq)[n] = seq[n].amount /\ AmountsOf(t)[n] = b
          /\ seq[n].amount \in Int
      BY <2>1, <2>5, <2>6, <2>7, CentsIs
    <3> QED  BY <2>3, <2>9, <2>11, <2>12, <3>1 DEF a
  <2> QED  BY <2>5, <2>7, <2>10, <2>13 DEF t
<1> QED  BY <1>1, <1>2

-----------------------------------------------------------------------------
(* Layers are consumed in order, never beyond what they hold.              *)

\* While a sale is short of its quantity, the layers behind it are used up; what it has
\* of them and what it lacks are its quantity.
SaleTakesInOrder ==
    current # NoSale =>
        /\ current.required >= 0
        /\ current.next > 0
        /\ current.required > 0 => \A i \in DOMAIN layers : i < current.next => layers[i].remaining = 0

LayersInv == LayersAreConsumed /\ SaleTakesInOrder

\* The properties of one sequence of layers.
Balanced(seq) ==
    \A i \in DOMAIN seq :
        seq[i].remaining >= 0 /\ seq[i].taken >= 0 /\ seq[i].remaining + seq[i].taken = seq[i].quantity

Ordered(seq) ==
    \A i, j \in DOMAIN seq : i < j =>
        /\ seq[j].taken > 0 => seq[i].remaining = 0
        /\ seq[i].of # NoLayer /\ seq[j].of # NoLayer => seq[i].of.opened <= seq[j].of.opened

LEMMA LayersInvIs ==
    LayersInv <=> CostTypeOK /\ Balanced(layers) /\ Balanced(ledger.layers)
                  /\ Ordered(layers) /\ Ordered(ledger.layers) /\ SaleTakesInOrder
BY DEF LayersInv, LayersAreConsumed, LayersBalance, FirstInFirstOut, Balanced, Ordered

LEMMA LayersInitially == CostInit => LayersInv
<1> SUFFICES ASSUME CostInit PROVE LayersInv
  OBVIOUS
<1>1. CostTypeOK
  BY DEF CostInit, CostTypeOK, NoHistory
<1>2. layers = <<>> /\ ledger.layers = <<>> /\ current = NoSale
  BY DEF CostInit
<1> QED  BY <1>1, <1>2, LayersInvIs DEF Balanced, Ordered, SaleTakesInOrder

\* The rows and the lock: layers and sale stay.
LEMMA QuietKeepsLayers ==
    ASSUME LayersInv, CostTypeOK', UNCHANGED <<layers, current, ledger>>
    PROVE  LayersInv'
BY DEF LayersInv, LayersAreConsumed, LayersBalance, FirstInFirstOut, SaleTakesInOrder

\* The end of a run.
LEMMA ResetKeepsLayers ==
    ASSUME LayersInv, CostTypeOK', layers' = <<>>, current' = NoSale,
           Balanced(ledger'.layers), Ordered(ledger'.layers)
    PROVE  LayersInv'
BY DEF LayersInv, LayersAreConsumed, LayersBalance, FirstInFirstOut, SaleTakesInOrder, Balanced, Ordered

\* Storing a layer rounds the cost of a return and nothing else.
LEMMA StoredLayers ==
    ASSUME NEW seq \in Seq(Layer), NEW t, t = [i \in DOMAIN seq |-> StoredLayer(seq[i])]
    PROVE  /\ t \in Seq(Layer) /\ Len(t) = Len(seq) /\ DOMAIN t = DOMAIN seq
           /\ \A i \in DOMAIN seq :
                 /\ t[i].of = seq[i].of /\ t[i].quantity = seq[i].quantity
                 /\ t[i].remaining = seq[i].remaining /\ t[i].taken = seq[i].taken
                 /\ t[i].cost = IF seq[i].of = NoLayer THEN Nearest(seq[i].cost, Grain) ELSE seq[i].cost
<1>1. ASSUME NEW l \in Layer
      PROVE  /\ StoredLayer(l) \in Layer
             /\ StoredLayer(l).of = l.of /\ StoredLayer(l).quantity = l.quantity
             /\ StoredLayer(l).remaining = l.remaining /\ StoredLayer(l).taken = l.taken
             /\ StoredLayer(l).cost = IF l.of = NoLayer THEN Nearest(l.cost, Grain) ELSE l.cost
  <2>1. CASE l.of = NoLayer
    <3>1. PICK c \in Int : c = Nearest(l.cost, Grain)
      <4>1. l.cost \in Int
        BY DEF Layer
      <4> QED  BY <4>1, GrainIs
    <3>2. StoredLayer(l) = [l EXCEPT !.cost = c]
      BY <2>1, <3>1 DEF StoredLayer
    <3> QED  BY <2>1, <3>1, <3>2 DEF Layer
  <2>2. CASE l.of # NoLayer
    BY <2>2 DEF StoredLayer
  <2> QED  BY <2>1, <2>2
<1>2. \A i \in DOMAIN seq : seq[i] \in Layer /\ t[i] = StoredLayer(seq[i])
  OBVIOUS
<1>3. DOMAIN seq = 1 .. Len(seq) /\ Len(seq) \in Nat
  OBVIOUS
<1>4. \A i \in 1 .. Len(seq) : t[i] \in Layer
  BY <1>1, <1>2, <1>3
<1>5. t \in Seq(Layer) /\ Len(t) = Len(seq)
  <2>1. PICK n \in Nat : n = Len(seq)
    BY <1>3
  <2>2. t \in [1 .. n -> Layer]
    BY <1>3, <1>4, <2>1
  <2> QED  BY <2>1, <2>2
<1> QED  BY <1>1, <1>2, <1>5

LEMMA StoredInOrder ==
    ASSUME NEW seq \in Seq(Layer), NEW t, t = [i \in DOMAIN seq |-> StoredLayer(seq[i])],
           Balanced(seq), Ordered(seq)
    PROVE  Balanced(t) /\ Ordered(t)
<1>1. /\ DOMAIN t = DOMAIN seq
      /\ \A i \in DOMAIN seq :
            /\ t[i].of = seq[i].of /\ t[i].quantity = seq[i].quantity
            /\ t[i].remaining = seq[i].remaining /\ t[i].taken = seq[i].taken
  BY StoredLayers
<1>2. Balanced(t)
  BY <1>1 DEF Balanced
<1>3. Ordered(t)
  BY <1>1 DEF Ordered
<1> QED  BY <1>2, <1>3

\* Storing a line rounds its cost and the amount of each of its rows.
LEMMA StoredRows ==
    ASSUME NEW seq \in Seq(Segment), NEW t, t = [i \in DOMAIN seq |-> StoredRow(seq[i])]
    PROVE  /\ t \in Seq(Segment) /\ Len(t) = Len(seq) /\ DOMAIN t = DOMAIN seq
           /\ \A i \in DOMAIN seq : t[i].quantity = seq[i].quantity /\ t[i].amount = Cents(seq[i].amount)
<1>1. ASSUME NEW x \in Segment
      PROVE  /\ StoredRow(x) \in Segment
             /\ StoredRow(x).quantity = x.quantity /\ StoredRow(x).amount = Cents(x.amount)
  <2>1. PICK c \in Int : c = Cents(x.amount)
    <3>1. x.amount \in Int
      BY DEF Segment
    <3> QED  BY <3>1, CentsIs
  <2>2. StoredRow(x) = [x EXCEPT !.amount = c]
    BY <2>1 DEF StoredRow
  <2> QED  BY <2>1, <2>2 DEF Segment
<1>2. \A i \in DOMAIN seq : seq[i] \in Segment /\ t[i] = StoredRow(seq[i])
  OBVIOUS
<1>3. DOMAIN seq = 1 .. Len(seq) /\ Len(seq) \in Nat
  OBVIOUS
<1>4. t \in Seq(Segment) /\ Len(t) = Len(seq)
  <2>1. PICK n \in Nat : n = Len(seq)
    BY <1>3
  <2>2. t \in [1 .. n -> Segment]
    BY <1>1, <1>2, <1>3, <2>1
  <2> QED  BY <2>1, <2>2
<1> QED  BY <1>1, <1>2, <1>4

LEMMA StoredLineIs ==
    ASSUME NEW line \in Line
    PROVE  /\ StoredLine(line) \in Line
           /\ StoredLine(line).quantity = line.quantity /\ StoredLine(line).costed = line.costed
           /\ StoredLine(line).status = line.status
           /\ StoredLine(line).cogs = Cents(line.cogs)
           /\ StoredLine(line).segments = [i \in DOMAIN line.segments |-> StoredRow(line.segments[i])]
<1>1. line.segments \in Seq(Segment) /\ line.cogs \in Int
  BY DEF Line
<1>2. PICK c \in Int : c = Cents(line.cogs)
  BY <1>1, CentsIs
<1>3. PICK rows : rows = [i \in DOMAIN line.segments |-> StoredRow(line.segments[i])]
  OBVIOUS
<1>4. rows \in Seq(Segment)
  BY <1>1, <1>3, StoredRows
<1>5. StoredLine(line) = [line EXCEPT !.cogs = c, !.segments = rows]
  BY <1>2, <1>3 DEF StoredLine
<1> QED  BY <1>2, <1>3, <1>4, <1>5 DEF Line

LEMMA StoredLines ==
    ASSUME NEW seq \in Seq(Line), NEW t, t = [n \in DOMAIN seq |-> StoredLine(seq[n])]
    PROVE  /\ t \in Seq(Line) /\ Len(t) = Len(seq) /\ DOMAIN t = DOMAIN seq
           /\ \A n \in DOMAIN seq : t[n] = StoredLine(seq[n])
<1>1. \A i \in DOMAIN seq : seq[i] \in Line /\ t[i] = StoredLine(seq[i])
  OBVIOUS
<1>2. \A i \in DOMAIN seq : t[i] \in Line
  BY <1>1, StoredLineIs
<1>3. DOMAIN seq = 1 .. Len(seq) /\ Len(seq) \in Nat
  OBVIOUS
<1>4. t \in Seq(Line) /\ Len(t) = Len(seq)
  <2>1. PICK n \in Nat : n = Len(seq)
    BY <1>3
  <2>2. t \in [1 .. n -> Line]
    BY <1>2, <1>3, <2>1
  <2> QED  BY <2>1, <2>2
<1> QED  BY <1>1, <1>4

LEMMA RowsKeepType ==
    ASSUME CostTypeOK, NEW r \in AllocationRuns,
           StartRun(r) \/ CommitRun(r) \/ FailRun(r) \/ DieInRun(r)
    PROVE  CostTypeOK'
<1> USE DEF CostTypeOK
<1>2. CASE StartRun(r)
  <2>1. status' \in [AllocationRuns -> {"none", "running", "failed", "succeeded", "succeeded_with_exceptions"}]
    BY <1>2 DEF StartRun
  <2>2. at' \in [AllocationRuns -> {"out", "waiting", "inside"}]
    BY <1>2 DEF StartRun
  <2> QED  BY <1>2, <2>1, <2>2 DEF StartRun
<1>3. CASE CommitRun(r)
  <2>1. ledger' \in [run : AllocationRuns \cup {NoRun}, layers : Seq(Layer), lines : Seq(Line)]
    <3>1. PICK made, sold : /\ made = [i \in DOMAIN layers |-> StoredLayer(layers[i])]
                            /\ sold = [n \in DOMAIN lines |-> StoredLine(lines[n])]
      OBVIOUS
    <3>2. ledger' = [run |-> r, layers |-> made, lines |-> sold]
      BY <1>3, <3>1 DEF CommitRun
    <3>3. made \in Seq(Layer) /\ sold \in Seq(Line)
      BY <3>1, StoredLayers, StoredLines
    <3> HIDE DEF CostTypeOK
    <3> QED  BY <3>2, <3>3
  <2>2. status' \in [AllocationRuns -> {"none", "running", "failed", "succeeded", "succeeded_with_exceptions"}]
    <3>1. PICK v \in {"succeeded", "succeeded_with_exceptions"} : status' = [status EXCEPT ![r] = v]
      BY <1>3 DEF CommitRun
    <3> QED  BY <3>1
  <2>3. at' \in [AllocationRuns -> {"out", "waiting", "inside"}] /\ history' \in [quantity : Int, cost : Int]
    BY <1>3 DEF CommitRun, NoHistory
  <2> QED  BY <1>3, <2>1, <2>2, <2>3 DEF CommitRun
<1>4. CASE FailRun(r)
  <2>1. at' \in [AllocationRuns -> {"out", "waiting", "inside"}]
    BY <1>4 DEF FailRun
  <2>2. status' \in [AllocationRuns -> {"none", "running", "failed", "succeeded", "succeeded_with_exceptions"}]
    BY <1>4 DEF FailRun
  <2>3. history' \in [quantity : Int, cost : Int] /\ layers' \in Seq(Layer) /\ lines' \in Seq(Line)
    <3>1. CASE at[r] = "inside"
      <4>1. history' = [quantity |-> 0, cost |-> 0] /\ layers' = <<>> /\ lines' = <<>>
        BY <1>4, <3>1 DEF FailRun, NoHistory
      <4> QED  BY <4>1
    <3>2. CASE at[r] # "inside"
      BY <1>4, <3>2 DEF FailRun
    <3> QED  BY <3>1, <3>2
  <2> QED  BY <1>4, <2>1, <2>2, <2>3 DEF FailRun
<1>5. CASE DieInRun(r)
  <2>1. at' \in [AllocationRuns -> {"out", "waiting", "inside"}]
    BY <1>5 DEF DieInRun
  <2>2. status' \in [AllocationRuns -> {"none", "running", "failed", "succeeded", "succeeded_with_exceptions"}]
    BY <1>5 DEF DieInRun
  <2>3. history' \in [quantity : Int, cost : Int] /\ layers' \in Seq(Layer) /\ lines' \in Seq(Line)
    <3>1. CASE at[r] = "inside"
      <4>1. history' = [quantity |-> 0, cost |-> 0] /\ layers' = <<>> /\ lines' = <<>>
        BY <1>5, <3>1 DEF DieInRun, NoHistory
      <4> QED  BY <4>1
    <3>2. CASE at[r] # "inside"
      BY <1>5, <3>2 DEF DieInRun
    <3> QED  BY <3>1, <3>2
  <2> QED  BY <1>5, <2>1, <2>2, <2>3 DEF DieInRun
<1> QED  BY <1>2, <1>3, <1>4, <1>5

\* The layers of a run are those of its sources, oldest first.
LEMMA BeginsInOrder ==
    ASSUME sources \in SUBSET SourceLayers, NEW s \in Fifo(sources),
           NEW seq, seq = [i \in 1 .. Len(s) |-> Fresh(s[i])]
    PROVE  seq \in Seq(Layer) /\ Balanced(seq) /\ Ordered(seq)
<1>1. Cardinality(sources) \in Nat
  BY LayersAssumption, FS_Subset, FS_CardinalityType
<1>2. s \in Seq(SourceLayers) /\ \A i, j \in DOMAIN s : i < j => ~Earlier(s[j], s[i])
  BY <1>1 DEF Fifo
<1>3. seq \in Seq(Layer)
  BY <1>2, LayersAssumption DEF Fresh, Layer
<1>4. DOMAIN seq = DOMAIN s /\ \A i \in DOMAIN seq : seq[i] = Fresh(s[i]) /\ s[i] \in SourceLayers
  BY <1>2
<1>5. Balanced(seq)
  BY <1>4, LayersAssumption DEF Balanced, Fresh
<1>6. Ordered(seq)
  BY <1>2, <1>4, LayersAssumption DEF Ordered, Fresh, Earlier
<1> QED  BY <1>3, <1>5, <1>6

LEMMA BeginLedgerKeepsLayers ==
    ASSUME LayersInv, NEW r \in AllocationRuns, BeginLedger(r)
    PROVE  LayersInv'
<1>1. PICK s \in Fifo(sources) : layers' = [i \in 1 .. Len(s) |-> Fresh(s[i])]
  BY DEF BeginLedger
<1>2. layers' \in Seq(Layer) /\ Balanced(layers') /\ Ordered(layers')
  BY <1>1, BeginsInOrder DEF LayersInv, LayersAreConsumed, CostTypeOK
<1>3. CostTypeOK'
  <2>1. at' \in [AllocationRuns -> {"out", "waiting", "inside"}] /\ history' \in [quantity : Int, cost : Int]
        /\ lines' \in Seq(Line)
    BY DEF LayersInv, LayersAreConsumed, CostTypeOK, BeginLedger, NoHistory
  <2> QED  BY <1>2, <2>1 DEF LayersInv, LayersAreConsumed, CostTypeOK, BeginLedger
<1>4. current' = NoSale /\ ledger' = ledger
  BY DEF BeginLedger
<1>5. Balanced(ledger.layers)' /\ Ordered(ledger.layers)'
  BY <1>4, LayersInvIs DEF Balanced, Ordered
<1>6. Balanced(layers)' /\ Ordered(layers)'
  BY <1>2 DEF Balanced, Ordered
<1>7. SaleTakesInOrder'
  BY <1>4 DEF SaleTakesInOrder
<1> QED  BY <1>3, <1>5, <1>6, <1>7, LayersInvIs, PTL

LEMMA RowsKeepLayers ==
    ASSUME LayersInv, NEW r \in AllocationRuns,
           StartRun(r) \/ CommitRun(r) \/ FailRun(r) \/ DieInRun(r)
    PROVE  LayersInv'
<1>1. CostTypeOK'
  BY RowsKeepType DEF LayersInv, LayersAreConsumed
<1>2. \/ UNCHANGED <<layers, current, ledger>>
      \/ layers' = <<>> /\ current' = NoSale /\ ledger' = ledger
      \/ layers' = <<>> /\ current' = NoSale
         /\ ledger'.layers = [i \in DOMAIN layers |-> StoredLayer(layers[i])]
  BY DEF StartRun, CommitRun, FailRun, DieInRun
<1>3. /\ layers \in Seq(Layer) /\ Balanced(layers) /\ Ordered(layers)
      /\ Balanced(ledger.layers) /\ Ordered(ledger.layers)
  BY LayersInvIs DEF CostTypeOK
<1>4. PICK made : made = [i \in DOMAIN layers |-> StoredLayer(layers[i])]
  OBVIOUS
<1>5. Balanced(made) /\ Ordered(made)
  BY <1>3, <1>4, StoredInOrder
<1> QED  BY <1>1, <1>2, <1>3, <1>4, <1>5, QuietKeepsLayers, ResetKeepsLayers

\* A line is appended without touching a layer.
LEMMA LineKeepsLayers ==
    ASSUME LayersInv, UnknownProduct \/ TakeSale
    PROVE  LayersInv'
<1> USE DEF LayersInv, LayersAreConsumed
<1>1. CASE UnknownProduct
  <2>1. PICK q \in SaleQuantities :
            lines' = Append(lines, Summary(q, 0, 0, <<[quantity |-> q, amount |-> 0]>>, "unavailable"))
    BY <1>1 DEF UnknownProduct
  <2>2. q \in Int
    BY LayersAssumption
  <2>3. Summary(q, 0, 0, <<[quantity |-> q, amount |-> 0]>>, "unavailable") \in Line
    BY <2>2 DEF Summary, Line, Segment
  <2>4. CostTypeOK'
    BY <1>1, <2>1, <2>3 DEF UnknownProduct, CostTypeOK
  <2> QED  BY <1>1, <2>4, QuietKeepsLayers DEF UnknownProduct
<1>2. CASE TakeSale
  <2>1. PICK q \in SaleQuantities : q > 0 /\ current' =
            [quantity |-> q, required |-> q, cogs |-> 0, next |-> 1, segments |-> <<>>]
    BY <1>2 DEF TakeSale
  <2>2. q \in Int
    BY LayersAssumption
  <2>3. current' \in Sale
    BY <2>1, <2>2 DEF Sale
  <2>4. CostTypeOK'
    BY <1>2, <2>3 DEF TakeSale, CostTypeOK
  <2>5. SaleTakesInOrder'
    BY <2>1, <2>2, <2>4 DEF SaleTakesInOrder, CostTypeOK
  <2> QED  BY <1>2, <2>4, <2>5 DEF TakeSale, LayersBalance, FirstInFirstOut
<1> QED  BY <1>1, <1>2

LEMMA ConsumeKeepsLayers ==
    ASSUME LayersInv, ConsumeLayer
    PROVE  LayersInv'
<1> DEFINE i == current.next
           q == Portion(layers[i])
           L == layers[i]
<1>1. /\ CostTypeOK /\ Balanced(layers) /\ Ordered(layers) /\ SaleTakesInOrder
      /\ Balanced(ledger.layers) /\ Ordered(ledger.layers)
  BY LayersInvIs
<1>2. current \in Sale /\ layers \in Seq(Layer)
  BY <1>1 DEF ConsumeLayer, CostTypeOK
<1>3. i \in DOMAIN layers /\ L \in Layer /\ current.required > 0 /\ current.required \in Int
      /\ i \in Nat \ {0}
  <2>1. i \in Nat /\ i > 0 /\ i <= Len(layers) /\ current.required > 0 /\ current.required \in Int
    BY <1>1, <1>2 DEF ConsumeLayer, SaleTakesInOrder, Sale
  <2> QED  BY <1>2, <2>1
<1>4. \A j \in DOMAIN layers : j < i => layers[j].remaining = 0
  BY <1>1, <1>3 DEF SaleTakesInOrder, ConsumeLayer
<1>5. CASE L.remaining <= 0
  <2>1. L.remaining = 0
    BY <1>1, <1>3, <1>5 DEF Balanced, Layer
  <2>2. current' = [current EXCEPT !.next = @ + 1] /\ layers' = layers
    BY <1>5 DEF ConsumeLayer
  <2>3. current' \in Sale
    BY <1>2, <2>2 DEF Sale
  <2>4. CostTypeOK'
    BY <1>1, <2>2, <2>3 DEF ConsumeLayer, CostTypeOK
  <2>5. current'.next = i + 1 /\ current'.required = current.required
    BY <1>2, <2>2 DEF Sale
  <2>6. SaleTakesInOrder'
    <3>1. ASSUME NEW j \in DOMAIN layers, j < i + 1 PROVE layers[j].remaining = 0
      <4>1. j \in Nat /\ (j < i \/ j = i)
        BY <1>2, <1>3, <3>1
      <4> QED  BY <1>4, <2>1, <4>1
    <3> QED  BY <1>3, <2>2, <2>5, <3>1 DEF SaleTakesInOrder
  <2> QED  BY <1>1, <2>2, <2>4, <2>6 DEF ConsumeLayer, LayersInv, LayersAreConsumed, LayersBalance,
                                        FirstInFirstOut, Balanced, Ordered
<1>6. CASE ~(L.remaining <= 0)
  <2>1. /\ layers' = [layers EXCEPT ![i].remaining = @ - q, ![i].taken = @ + q]
        /\ current' = [current EXCEPT !.required = @ - q, !.next = @ + 1,
                      !.cogs = @ + q * L.cost,
                      !.segments = Append(@, [quantity |-> q, amount |-> q * L.cost])]
    BY <1>6 DEF ConsumeLayer
  <2>2. q \in Int /\ q > 0 /\ q <= L.remaining /\ q <= current.required
        /\ (q < current.required => q = L.remaining) /\ L.cost \in Int /\ L.remaining \in Int
    BY <1>3, <1>6 DEF Portion, Layer
  <2>3. /\ layers' \in Seq(Layer) /\ DOMAIN layers' = DOMAIN layers
        /\ \A j \in DOMAIN layers : j # i => layers'[j] = layers[j]
        /\ layers'[i].of = L.of /\ layers'[i].quantity = L.quantity
        /\ layers'[i].remaining = L.remaining - q /\ layers'[i].taken = L.taken + q
    <3> HIDE DEF q, L
    <3>0. L.taken \in Int
      BY <1>3 DEF Layer
    <3>1. PICK m \in Int, n \in Int : m = L.remaining - q /\ n = L.taken + q
      BY <2>2, <3>0
    <3>2. PICK y : y = [L EXCEPT !.remaining = m, !.taken = n]
      OBVIOUS
    <3>3. y \in Layer /\ y.of = L.of /\ y.quantity = L.quantity
          /\ y.remaining = m /\ y.taken = n
      <4>1. L \in Layer
        BY <1>3
      <4>2. y \in Layer
        BY <3>2, <4>1 DEF Layer
      <4> QED  BY <3>2, <4>1, <4>2 DEF Layer
    <3>4. layers' = [layers EXCEPT ![i].remaining = m, ![i].taken = n]
      BY <2>1, <3>1 DEF L
    <3>5. layers' = [layers EXCEPT ![i] = y]
      BY <1>2, <1>3, <3>2, <3>4 DEF L
    <3>6. layers'[i] = y
      BY <1>2, <1>3, <3>5
    <3> QED  BY <1>2, <1>3, <3>1, <3>3, <3>5, <3>6
  <2>4. current' \in Sale /\ current'.next = i + 1 /\ current'.required = current.required - q
    <3> HIDE DEF q, L
    <3>1. PICK p \in Int : p = current.cogs + q * L.cost
      BY <1>2, <2>2 DEF Sale
    <3>2. PICK m \in Int, n \in Nat : m = current.required - q /\ n = i + 1
      BY <1>3, <2>2
    <3>3. PICK s : s = Append(current.segments, [quantity |-> q, amount |-> q * L.cost])
      OBVIOUS
    <3>4. current' = [current EXCEPT !.required = m, !.next = n, !.cogs = p, !.segments = s]
      BY <2>1, <3>1, <3>2, <3>3 DEF L
    <3>5. s \in Seq(Segment)
      BY <1>2, <2>2, <3>3 DEF Sale, Segment
    <3>6. current' \in Sale /\ current'.required = m /\ current'.next = n
      <4>1. PICK c \in Sale : c = current
        BY <1>2
      <4>2. current' = [c EXCEPT !.required = m, !.next = n, !.cogs = p, !.segments = s]
        BY <3>4, <4>1
      <4>3. current' \in Sale
        BY <3>5, <4>2 DEF Sale
      <4> QED  BY <4>2, <4>3 DEF Sale
    <3> QED  BY <3>2, <3>6
  <2>5. CostTypeOK'
    BY <1>1, <2>3, <2>4 DEF ConsumeLayer, CostTypeOK
  <2>6. Balanced(layers)'
    <3>1. L.remaining >= 0 /\ L.taken >= 0 /\ L.remaining + L.taken = L.quantity
      BY <1>1, <1>3 DEF Balanced
    <3>2. L.taken \in Int /\ L.quantity \in Int
      BY <1>3 DEF Layer
    <3> HIDE DEF q, L
    <3>3. L.remaining - q >= 0 /\ L.taken + q >= 0 /\ (L.remaining - q) + (L.taken + q) = L.quantity
      BY <2>2, <3>1, <3>2
    <3> QED  BY <1>1, <2>3, <3>3 DEF Balanced
  <2>7. Ordered(layers)'
    <3>1. ASSUME NEW a \in DOMAIN layers, NEW b \in DOMAIN layers, a < b, layers'[b].taken > 0
          PROVE  layers'[a].remaining = 0
      <4>1. a \in Nat /\ b \in Nat
        BY <1>2
      <4>2. CASE b = i
        BY <1>3, <1>4, <2>3, <3>1, <4>1, <4>2
      <4>3. CASE b # i
        <5>1. layers[a].remaining = 0
          BY <1>1, <2>3, <3>1, <4>3 DEF Ordered
        <5>2. a # i
          BY <1>6, <5>1
        <5> QED  BY <2>3, <5>1, <5>2
      <4> QED  BY <4>2, <4>3
    <3>2. \A a \in DOMAIN layers : layers'[a].of = layers[a].of
      BY <2>3
    <3> QED  BY <1>1, <2>3, <3>1, <3>2 DEF Ordered
  <2>8. SaleTakesInOrder'
    <3>1. current'.required >= 0 /\ current'.next > 0
      BY <1>3, <2>2, <2>4
    <3>2. ASSUME current'.required > 0, NEW j \in DOMAIN layers, j < i + 1
          PROVE  layers'[j].remaining = 0
      <4>1. q = L.remaining
        BY <1>3, <2>2, <2>4, <3>2
      <4>2. j \in Nat /\ (j < i \/ j = i)
        BY <1>2, <1>3, <3>2
      <4> QED  BY <1>4, <2>2, <2>3, <4>1, <4>2
    <3> QED  BY <2>3, <2>4, <3>1, <3>2 DEF SaleTakesInOrder
  <2>9. Balanced(ledger.layers)' /\ Ordered(ledger.layers)'
    BY <1>1 DEF ConsumeLayer, Balanced, Ordered
  <2> QED  BY <2>5, <2>6, <2>7, <2>8, <2>9, LayersInvIs, PTL
<1> QED  BY <1>5, <1>6

\* The allocation rows of a line that is covered as far as it goes.
LEMMA RowsOfLine ==
    ASSUME NEW seq \in Seq(Segment), NEW q \in Int
    PROVE  /\ seq \o Uncovered(q) \in Seq(Segment)
           /\ Amounts(seq \o Uncovered(q)) = Amounts(seq)
           /\ SumOver(QuantitiesOf(seq \o Uncovered(q)), Positions(seq \o Uncovered(q)))
                = SumOver(QuantitiesOf(seq), Positions(seq)) + q
<1>1. Amounts(seq) \in Int
  BY AmountsIs
<1>2. SumOver(QuantitiesOf(seq), Positions(seq)) \in Int
  BY QuantityIs
<1>3. CASE q = 0
  <2>1. seq \o Uncovered(q) = seq
    BY <1>3 DEF Uncovered
  <2>2. PICK n \in Int : n = SumOver(QuantitiesOf(seq), Positions(seq))
    BY <1>2
  <2>3. n = n + q
    BY <1>3
  <2> QED  BY <2>1, <2>2, <2>3
<1>4. CASE q # 0
  <2>0. [quantity |-> q, amount |-> 0] \in Segment
    BY DEF Segment
  <2>1. PICK s \in Segment : s = [quantity |-> q, amount |-> 0] /\ s.quantity = q /\ s.amount = 0
    BY <2>0
  <2>2. seq \o Uncovered(q) = Append(seq, s)
    BY <1>4, <2>1 DEF Uncovered
  <2> QED  BY <1>1, <1>2, <2>1, <2>2, AppendSegment
<1> QED  BY <1>3, <1>4

LEMMA FinishKeepsLayers ==
    ASSUME LayersInv, FinishSale
    PROVE  LayersInv'
<1>1. CostTypeOK /\ current \in Sale
  BY DEF LayersInv, LayersAreConsumed, CostTypeOK, FinishSale
<1>2. PICK c \in Sale : c = current
  BY <1>1
<1>3. PICK costed \in Int : costed = c.quantity - c.required
  <2>1. c.quantity \in Int /\ c.required \in Int
    BY LayersAssumption DEF Sale
  <2> QED  BY <2>1
<1>4. PICK rows \in Seq(Segment) : rows = Rounded(c.segments, c.cogs) \o Uncovered(c.required)
  BY <1>2, RoundedIs, RowsOfLine DEF Sale
<1>5. PICK state \in {"costed", "partial", "unavailable"} : state = StatusOf(costed, c.required)
  BY DEF StatusOf
<1>6. /\ lines' = Append(lines, Summary(c.quantity, costed, c.cogs, rows, state))
      /\ history' = [quantity |-> history.quantity + costed, cost |-> history.cost + c.cogs]
      /\ current' = NoSale
      /\ UNCHANGED <<sources, status, at, layers, ledger>>
  BY <1>2, <1>3, <1>4, <1>5 DEF FinishSale
<1>7. Summary(c.quantity, costed, c.cogs, rows, state) \in Line
  BY DEF Summary, Line, Sale
<1>8. history' \in [quantity : Int, cost : Int]
  <2>1. history.quantity + costed \in Int /\ history.cost + c.cogs \in Int
    BY <1>1 DEF CostTypeOK, Sale
  <2> QED  BY <1>6, <2>1
<1>9. CostTypeOK'
  <2>1. lines' \in Seq(Line)
    BY <1>1, <1>6, <1>7 DEF CostTypeOK
  <2> QED  BY <1>1, <1>6, <1>8, <2>1 DEF CostTypeOK
<1> QED  BY <1>6, <1>9 DEF LayersInv, LayersAreConsumed, LayersBalance, FirstInFirstOut, SaleTakesInOrder

\* With a basis, the average is an integer of the unit.
LEMMA AverageIs ==
    ASSUME CostTypeOK, HasBasis
    PROVE  AverageCost \in Int
<1>1. layers \in Seq(Layer) /\ history.quantity \in Int /\ history.cost \in Int
  BY DEF CostTypeOK
<1>2. Value(layers) \in Int /\ Remaining(layers) \in Int
  BY <1>1, ValueIs, RemainingIs
<1>3. CASE history.quantity > 0
  BY <1>1, <1>3 DEF AverageCost
<1>4. CASE ~(history.quantity > 0)
  BY <1>1, <1>2, <1>4 DEF AverageCost, HasBasis
<1> QED  BY <1>3, <1>4

LEMMA ReturnKeepsLayers ==
    ASSUME LayersInv, TakeCreditNote
    PROVE  LayersInv'
<1>1. CostTypeOK
  BY DEF LayersInv, LayersAreConsumed
<1>2. PICK q \in {n \in SaleQuantities : n < 0} :
          IF HasBasis
          THEN LET cogs == q * AverageCost IN
               /\ layers' = ReturnLayer(-q, AverageCost)
               /\ lines' = Append(lines, Summary(q, q, cogs,
                              <<[quantity |-> q, amount |-> Cents(cogs)]>>, "estimated"))
          ELSE /\ lines' = Append(lines, Summary(q, 0, 0, Uncovered(q), "unavailable"))
               /\ UNCHANGED layers
  BY DEF TakeCreditNote
<1>3. q \in Int /\ q < 0 /\ q \in SaleQuantities
  BY LayersAssumption
<1>4. UNCHANGED <<sources, status, at, current, history, ledger>> /\ current = NoSale
  BY DEF TakeCreditNote
<1>5. CASE HasBasis
  <2>1. PICK avg \in Int : avg = AverageCost
    BY <1>1, <1>5, AverageIs
  <2>2. PICK cogs \in Int : cogs = q * avg
    BY <1>3
  <2>3. PICK amount \in Int : amount = Cents(cogs)
    BY CentsIs
  <2>4. PICK l : l = [of |-> NoLayer, cost |-> avg, quantity |-> -q, remaining |-> -q, taken |-> 0]
    OBVIOUS
  <2>5. layers' = Append(layers, l)
        /\ lines' = Append(lines, Summary(q, q, cogs, <<[quantity |-> q, amount |-> amount]>>, "estimated"))
    BY <1>2, <1>5, <2>1, <2>2, <2>3, <2>4 DEF ReturnLayer
  <2>6. l \in Layer
    BY <1>3, <2>4 DEF Layer
  <2>7. Summary(q, q, cogs, <<[quantity |-> q, amount |-> amount]>>, "estimated") \in Line
    BY <1>3 DEF Summary, Line, Segment
  <2>8. layers \in Seq(Layer) /\ Balanced(layers) /\ Ordered(layers)
        /\ Balanced(ledger.layers) /\ Ordered(ledger.layers)
    BY LayersInvIs DEF CostTypeOK
  <2>9. CostTypeOK'
    <3>1. layers' \in Seq(Layer)
      BY <2>5, <2>6, <2>8
    <3>2. lines' \in Seq(Line)
      BY <1>1, <2>5, <2>7 DEF CostTypeOK
    <3> QED  BY <1>1, <1>4, <3>1, <3>2 DEF CostTypeOK
  <2> DEFINE n == Len(layers)
  <2>10. /\ n \in Nat /\ DOMAIN layers = 1 .. n /\ DOMAIN layers' = 1 .. n + 1
         /\ layers'[n + 1] = l /\ \A i \in 1 .. n : layers'[i] = layers[i]
    BY <2>5, <2>8
  <2> HIDE DEF n
  <2>11. \A i \in 1 .. n + 1 : i \in 1 .. n \/ i = n + 1
    BY <2>10
  <2>12. l.taken = 0 /\ l.remaining = -q /\ l.quantity = -q /\ l.of = NoLayer
    BY <2>4
  <2>13. Balanced(layers')
    BY <1>3, <2>8, <2>10, <2>11, <2>12 DEF Balanced
  <2>14. Ordered(layers')
    <3>1. SUFFICES ASSUME NEW i \in 1 .. n + 1, NEW j \in 1 .. n + 1, i < j
                   PROVE  /\ layers'[j].taken > 0 => layers'[i].remaining = 0
                          /\ layers'[i].of # NoLayer /\ layers'[j].of # NoLayer
                               => layers'[i].of.opened <= layers'[j].of.opened
      BY <2>10 DEF Ordered
    <3>2. CASE j = n + 1
      BY <2>10, <2>12, <3>2
    <3>3. CASE j \in 1 .. n
      <4>1. i \in 1 .. n
        BY <2>10, <3>1, <3>3
      <4> QED  BY <2>8, <2>10, <3>1, <3>3, <4>1 DEF Ordered
    <3> QED  BY <2>11, <3>2, <3>3
  <2>15. Balanced(layers)' /\ Ordered(layers)' /\ Balanced(ledger.layers)' /\ Ordered(ledger.layers)'
    BY <1>4, <2>8, <2>13, <2>14 DEF Balanced, Ordered
  <2>16. SaleTakesInOrder'
    BY <1>4 DEF SaleTakesInOrder
  <2> QED  BY <2>9, <2>15, <2>16, LayersInvIs, PTL
<1>6. CASE ~HasBasis
  <2>1. Uncovered(q) \in Seq(Segment)
    <3>1. [quantity |-> q, amount |-> 0] \in Segment
      BY <1>3 DEF Segment
    <3>2. Uncovered(q) = <<[quantity |-> q, amount |-> 0]>>
      BY <1>3 DEF Uncovered
    <3> QED  BY <3>1, <3>2
  <2>2. PICK row \in Line : row = Summary(q, 0, 0, Uncovered(q), "unavailable")
    <3>1. Summary(q, 0, 0, Uncovered(q), "unavailable") \in Line
      BY <1>3, <2>1 DEF Summary, Line
    <3> QED  BY <3>1
  <2>3. CostTypeOK'
    <3>1. lines' = Append(lines, row) /\ lines \in Seq(Line)
      BY <1>1, <1>2, <1>6, <2>2 DEF CostTypeOK
    <3> QED  BY <1>1, <1>2, <1>4, <1>6, <3>1 DEF CostTypeOK
  <2> QED  BY <1>2, <1>4, <1>6, <2>3, QuietKeepsLayers
<1> QED  BY <1>5, <1>6

LEMMA LayersStay == LayersInv /\ [CostNext]_costVars => LayersInv'
<1> SUFFICES ASSUME LayersInv, [CostNext]_costVars PROVE LayersInv'
  OBVIOUS
<1>1. CASE UNCHANGED costVars
  BY <1>1 DEF costVars, LayersInv, LayersAreConsumed, CostTypeOK, LayersBalance, FirstInFirstOut,
              SaleTakesInOrder
<1>2. ASSUME NEW l \in SourceLayers, Receive(l) PROVE LayersInv'
  <2>1. CostTypeOK'
    BY <1>2 DEF Receive, LayersInv, LayersAreConsumed, CostTypeOK
  <2> QED  BY <1>2, <2>1, QuietKeepsLayers DEF Receive
<1>3. ASSUME NEW r \in AllocationRuns, StartRun(r) \/ CommitRun(r) \/ FailRun(r) \/ DieInRun(r)
      PROVE  LayersInv'
  BY <1>3, RowsKeepLayers
<1>4. ASSUME NEW r \in AllocationRuns, BeginLedger(r) PROVE LayersInv'
  BY <1>4, BeginLedgerKeepsLayers
<1>5. ASSUME UnknownProduct \/ TakeSale PROVE LayersInv'
  BY <1>5, LineKeepsLayers
<1>6. ASSUME ConsumeLayer \/ FinishSale \/ TakeCreditNote PROVE LayersInv'
  BY <1>6, ConsumeKeepsLayers, FinishKeepsLayers, ReturnKeepsLayers
<1> QED  BY <1>1, <1>2, <1>3, <1>4, <1>5, <1>6 DEF CostNext

\* Whatever sales, credit notes, runs and failures come: no layer gives more than it holds,
\* and none is touched before all older ones are used up.
THEOREM LayersAlwaysConsumed == CostSpec => []LayersAreConsumed
<1>1. CostInit => LayersInv
  BY LayersInitially
<1>2. LayersInv /\ [CostNext]_costVars => LayersInv'
  BY LayersStay
<1>3. LayersInv => LayersAreConsumed
  BY DEF LayersInv
<1> QED  BY <1>1, <1>2, <1>3, PTL DEF CostSpec

-----------------------------------------------------------------------------
\* A layer behind the others adds its worth and what is left of it.
LEMMA AppendLayer ==
    ASSUME NEW seq \in Seq(Layer), NEW l \in Layer, l.of = NoLayer
    PROVE  /\ SumOver(WorthOf(Append(seq, l)), Positions(Append(seq, l)))
                = SumOver(WorthOf(seq), Positions(seq))
           /\ SumOver(LeftOf(Append(seq, l)), Positions(Append(seq, l)))
                = SumOver(LeftOf(seq), Positions(seq)) + l.remaining * l.cost
<1> DEFINE n == Len(seq)
           t == Append(seq, l)
<1>1. n \in Nat /\ Len(t) = n + 1 /\ t[n + 1] = l /\ \A k \in 1 .. n : t[k] = seq[k]
  OBVIOUS
<1>2. \A k \in 1 .. n : seq[k] \in Layer
  OBVIOUS
<1> HIDE DEF n, t
<1>3. Positions(t) = 1 .. n + 1 /\ Positions(seq) = 1 .. n
  BY <1>1 DEF Positions, n
<1>4. SumOver(WorthOf(t), 1 .. n + 1) = SumOver(WorthOf(seq), 1 .. n) + WorthOf(t)[n + 1]
      /\ SumOver(WorthOf(seq), 1 .. n) \in Int
  <2>1. \A k \in 1 .. n : WorthOf(seq)[k] \in Int
    BY <1>2, <1>3 DEF WorthOf, Layer
  <2>2. \A k \in 1 .. n : WorthOf(t)[k] = WorthOf(seq)[k]
    BY <1>1, <1>3 DEF WorthOf
  <2>3. WorthOf(t)[n + 1] \in Int
    BY <1>1, <1>3 DEF WorthOf
  <2> QED  BY <1>1, <2>1, <2>2, <2>3, SumAppend
<1>5. SumOver(LeftOf(t), 1 .. n + 1) = SumOver(LeftOf(seq), 1 .. n) + LeftOf(t)[n + 1]
  <2>1. \A k \in 1 .. n : LeftOf(seq)[k] \in Int
    BY <1>2, <1>3 DEF LeftOf, Layer
  <2>2. \A k \in 1 .. n : LeftOf(t)[k] = LeftOf(seq)[k]
    BY <1>1, <1>3 DEF LeftOf
  <2>3. LeftOf(t)[n + 1] \in Int
    BY <1>1, <1>3 DEF LeftOf, Layer
  <2> QED  BY <1>1, <2>1, <2>2, <2>3, SumAppend
<1>6. WorthOf(t)[n + 1] = 0 /\ LeftOf(t)[n + 1] = l.remaining * l.cost
  BY <1>1, <1>3 DEF WorthOf, LeftOf
<1>7. /\ SumOver(WorthOf(t), Positions(t)) = SumOver(WorthOf(seq), Positions(seq))
      /\ SumOver(LeftOf(t), Positions(t)) = SumOver(LeftOf(seq), Positions(seq)) + l.remaining * l.cost
  BY <1>3, <1>4, <1>5, <1>6
<1> QED  BY <1>7 DEF t

\* One more line adds its cost.
LEMMA AppendLine ==
    ASSUME NEW seq \in Seq(Line), NEW row \in Line
    PROVE  SumOver(CogsOf(Append(seq, row)), Positions(Append(seq, row)))
                = SumOver(CogsOf(seq), Positions(seq)) + row.cogs
<1> DEFINE n == Len(seq)
           t == Append(seq, row)
<1>1. n \in Nat /\ Len(t) = n + 1 /\ t[n + 1] = row /\ \A k \in 1 .. n : t[k] = seq[k]
  OBVIOUS
<1>2. \A k \in 1 .. n : seq[k] \in Line
  OBVIOUS
<1> HIDE DEF n, t
<1>3. Positions(t) = 1 .. n + 1 /\ Positions(seq) = 1 .. n
  BY <1>1 DEF Positions, n
<1>4. \A k \in 1 .. n : CogsOf(seq)[k] \in Int
  BY <1>2, <1>3 DEF CogsOf, Line
<1>5. \A k \in 1 .. n : CogsOf(t)[k] = CogsOf(seq)[k]
  BY <1>1, <1>3 DEF CogsOf
<1>6. CogsOf(t)[n + 1] = row.cogs /\ row.cogs \in Int
  BY <1>1, <1>3 DEF CogsOf, Line
<1>7. SumOver(CogsOf(t), 1 .. n + 1) = SumOver(CogsOf(seq), 1 .. n) + CogsOf(t)[n + 1]
  BY <1>1, <1>4, <1>5, <1>6, SumAppend
<1>8. SumOver(CogsOf(t), Positions(t)) = SumOver(CogsOf(seq), Positions(seq)) + row.cogs
  BY <1>3, <1>6, <1>7
<1> QED  BY <1>8 DEF t

\* A portion out of one layer takes its cost from what is left; the worth stays.
LEMMA TakePortion ==
    ASSUME NEW seq \in Seq(Layer), NEW t \in Seq(Layer), NEW i \in DOMAIN seq, NEW q \in Int,
           DOMAIN t = DOMAIN seq, \A j \in DOMAIN seq : j # i => t[j] = seq[j],
           t[i].of = seq[i].of, t[i].cost = seq[i].cost, t[i].quantity = seq[i].quantity,
           t[i].remaining = seq[i].remaining - q
    PROVE  /\ SumOver(WorthOf(t), Positions(t)) = SumOver(WorthOf(seq), Positions(seq))
           /\ SumOver(LeftOf(t), Positions(t))
                = SumOver(LeftOf(seq), Positions(seq)) - q * seq[i].cost
<1> DEFINE n == Len(seq)
<1>1. n \in Nat /\ DOMAIN seq = 1 .. n /\ Positions(seq) = 1 .. n /\ Positions(t) = 1 .. n
      /\ i \in 1 .. n
  BY DEF Positions
<1>2. \A k \in 1 .. n : seq[k] \in Layer
  OBVIOUS
<1> HIDE DEF n
<1>3. IsFiniteSet(1 .. n)
  BY <1>1, FS_Interval
<1>4. SumOver(WorthOf(t), 1 .. n) = SumOver(WorthOf(seq), 1 .. n)
  <2>1. \A k \in 1 .. n : WorthOf(t)[k] = WorthOf(seq)[k]
    BY <1>1 DEF WorthOf
  <2> QED  BY <1>3, <2>1, SumSame
<1>5. SumOver(LeftOf(t), 1 .. n) = SumOver(LeftOf(seq), 1 .. n) + LeftOf(t)[i] - LeftOf(seq)[i]
  <2>1. \A k \in 1 .. n : LeftOf(seq)[k] \in Int
    BY <1>1, <1>2 DEF LeftOf, Layer
  <2>2. LeftOf(t)[i] \in Int
    <3>1. t[i] \in Layer
      OBVIOUS
    <3>2. LeftOf(t)[i] = t[i].remaining * t[i].cost
      BY <1>1 DEF LeftOf
    <3>3. t[i].remaining \in Int /\ t[i].cost \in Int
      BY <3>1 DEF Layer
    <3> QED  BY <3>2, <3>3
  <2>3. \A k \in 1 .. n : k # i => LeftOf(t)[k] = LeftOf(seq)[k]
    BY <1>1 DEF LeftOf
  <2> DEFINE v == LeftOf(seq)
             w == LeftOf(t)
             S == 1 .. n
  <2>4. IsFiniteSet(S) /\ i \in S /\ (\A x \in S : v[x] \in Int) /\ w[i] \in Int
        /\ (\A x \in S : x # i => w[x] = v[x])
    BY <1>1, <1>3, <2>1, <2>2, <2>3
  <2>5. PICK a : a = i
    OBVIOUS
  <2> HIDE DEF v, w, S
  <2>6. a \in S /\ w[a] \in Int /\ (\A x \in S : x # a => w[x] = v[x])
    BY <2>4, <2>5
  <2>7. SumOver(w, S) = SumOver(v, S) + w[i] - v[i]
    <3>1. SumOver(w, S) = SumOver(v, S) + w[a] - v[a]
      BY <2>4, <2>6, SumChange
    <3> QED  BY <2>5, <3>1
  <2> QED  BY <2>7 DEF v, w, S
<1>6. LeftOf(t)[i] = (seq[i].remaining - q) * seq[i].cost
      /\ LeftOf(seq)[i] = seq[i].remaining * seq[i].cost
  BY <1>1 DEF LeftOf
<1>7. seq[i].remaining \in Int /\ seq[i].cost \in Int
  BY <1>1, <1>2 DEF Layer
<1>8. (seq[i].remaining - q) * seq[i].cost = seq[i].remaining * seq[i].cost - q * seq[i].cost
  BY <1>7
<1>9. SumOver(LeftOf(seq), 1 .. n) \in Int
  BY <1>1, LeftIs
<1>10. PICK a \in Int, b \in Int : a = seq[i].remaining * seq[i].cost /\ b = q * seq[i].cost
  BY <1>7
<1>11. SumOver(LeftOf(t), 1 .. n) = SumOver(LeftOf(seq), 1 .. n) - b
  BY <1>5, <1>6, <1>8, <1>9, <1>10
<1> QED  BY <1>1, <1>4, <1>10, <1>11

-----------------------------------------------------------------------------
(* The lines of a run add up, and so does what it commits.                 *)

Explained(line) ==
    /\ SumOver(QuantitiesOf(line.segments), Positions(line.segments)) = line.quantity
    /\ Amounts(line.segments) = Cents(line.cogs)
    /\ line.status \in {"costed", "estimated"} => line.costed = line.quantity

\* The same of a line as it is stored.
Shown(line) ==
    /\ SumOver(QuantitiesOf(line.segments), Positions(line.segments)) = line.quantity
    /\ Within(Amounts(line.segments), line.cogs, Cent * Len(line.segments))
    /\ line.status \in {"costed", "estimated"} => line.costed = line.quantity

OpenCogs == IF current = NoSale THEN 0 ELSE current.cogs

\* What the open sale took so far, and what it still asks for.
SaleAddsUp ==
    current # NoSale =>
        /\ SumOver(QuantitiesOf(current.segments), Positions(current.segments)) + current.required
             = current.quantity
        /\ Amounts(current.segments) = current.cogs

\* The run of the ledger is over: no later run, failure or death touches its row.
RunIsOver == ledger.run # NoRun => ledger.run \in AllocationRuns /\ at[ledger.run] = "out"

LedgerInv ==
    /\ LayersInv
    /\ Conserved(layers, lines, OpenCogs)
    /\ Kept(ledger.layers, ledger.lines)
    /\ \A n \in DOMAIN lines : Explained(lines[n])
    /\ \A n \in DOMAIN ledger.lines : Shown(ledger.lines[n])
    /\ SaleAddsUp
    /\ RunIsOver
    /\ LedgerHasItsRun

LEMMA ShownIs ==
    ASSUME CostTypeOK
    PROVE  RowsExplainLines <=> \A n \in DOMAIN ledger.lines : Shown(ledger.lines[n])
<1> SUFFICES ASSUME NEW n \in DOMAIN ledger.lines
             PROVE  Total(ledger.lines[n].segments, LAMBDA x : x.quantity)
                      = SumOver(QuantitiesOf(ledger.lines[n].segments), Positions(ledger.lines[n].segments))
  BY DEF RowsExplainLines, Shown
<1>1. ledger.lines \in Seq(Line)
  BY DEF CostTypeOK
<1>2. ledger.lines[n].segments \in Seq(Segment)
  <2>1. ledger.lines[n] \in Line
    BY <1>1
  <2> QED  BY <2>1 DEF Line
<1> QED  BY <1>2, QuantityIs

LEMMA LedgerInvIsEnough == LedgerInv => CostsAddUp
<1> SUFFICES ASSUME LedgerInv PROVE CostsAddUp
  OBVIOUS
<1>1. CostTypeOK
  BY DEF LedgerInv, LayersInv, LayersAreConsumed
<1> QED  BY <1>1, KeptIs, ShownIs DEF LedgerInv, CostsAddUp

LEMMA NothingYet == Conserved(<<>>, <<>>, 0)
<1>1. Positions(<<>>) = {}
  BY DEF Positions
<1>2. /\ SumOver(WorthOf(<<>>), {}) = 0
      /\ SumOver(LeftOf(<<>>), {}) = 0
      /\ SumOver(CogsOf(<<>>), {}) = 0
  BY SumEmpty
<1> QED  BY <1>1, <1>2 DEF Conserved

LEMMA NothingKept == Kept(<<>>, <<>>)
<1>1. Positions(<<>>) = {} /\ Len(<<>>) = 0
  BY DEF Positions
<1>2. /\ SumOver(WorthOf(<<>>), {}) = 0
      /\ SumOver(LeftOf(<<>>), {}) = 0
      /\ SumOver(CogsOf(<<>>), {}) = 0
      /\ SumOver(ReturnedOf(<<>>), {}) = 0
  BY SumEmpty
<1>3. Kept(<<>>, <<>>) <=> Within(0, 0 + 0, Cent * 0 + Grain * 0)
  BY <1>1, <1>2 DEF Kept
<1>4. Within(0, 0 + 0, Cent * 0 + Grain * 0)
  BY DEF Within, Cent, Grain
<1> QED  BY <1>3, <1>4

\* Stored, a ledger keeps its costs give or take the rounding: what is worth does not move,
\* what is left moves by the returns, the cost of the sales by the lines.
LEMMA StoredKeepsCosts ==
    ASSUME NEW made \in Seq(Layer), NEW sold \in Seq(Line), Balanced(made), Conserved(made, sold, 0),
           NEW t, t = [i \in DOMAIN made |-> StoredLayer(made[i])],
           NEW u, u = [n \in DOMAIN sold |-> StoredLine(sold[n])]
    PROVE  Kept(t, u)
<1>1. /\ t \in Seq(Layer) /\ Len(t) = Len(made)
      /\ \A i \in DOMAIN made :
            /\ t[i].of = made[i].of /\ t[i].quantity = made[i].quantity
            /\ t[i].remaining = made[i].remaining
            /\ t[i].cost = IF made[i].of = NoLayer THEN Nearest(made[i].cost, Grain) ELSE made[i].cost
  BY StoredLayers
<1>2. /\ u \in Seq(Line) /\ Len(u) = Len(sold)
      /\ \A n \in DOMAIN sold : u[n].cogs = Cents(sold[n].cogs)
  <2>1. u \in Seq(Line) /\ Len(u) = Len(sold) /\ \A n \in DOMAIN sold : u[n] = StoredLine(sold[n])
    BY StoredLines
  <2>2. ASSUME NEW n \in DOMAIN sold PROVE StoredLine(sold[n]).cogs = Cents(sold[n].cogs)
    <3>1. sold[n] \in Line
      OBVIOUS
    <3> QED  BY <3>1, StoredLineIs
  <2> QED  BY <2>1, <2>2
<1>3. PICK m \in Nat : m = Len(made) /\ DOMAIN made = 1 .. m /\ Positions(made) = 1 .. m /\ Positions(t) = 1 .. m
  <2>1. Len(made) \in Nat /\ DOMAIN made = 1 .. Len(made)
    OBVIOUS
  <2>2. Len(t) = Len(made)
    BY <1>1
  <2>3. Positions(made) = 1 .. Len(made) /\ Positions(t) = 1 .. Len(made)
    BY <2>2 DEF Positions
  <2> QED  BY <2>1, <2>3
<1>4. PICK k \in Nat : k = Len(sold) /\ DOMAIN sold = 1 .. k /\ Positions(sold) = 1 .. k /\ Positions(u) = 1 .. k
  <2>1. Len(sold) \in Nat /\ DOMAIN sold = 1 .. Len(sold)
    OBVIOUS
  <2>2. Positions(sold) = 1 .. Len(sold) /\ Positions(u) = 1 .. Len(sold)
    BY <1>2 DEF Positions
  <2> QED  BY <2>1, <2>2
<1>5. IsFiniteSet(1 .. m)
  BY FS_Interval
<1>6. \A i \in 1 .. m : made[i] \in Layer /\ made[i].remaining >= 0
  BY <1>3 DEF Balanced
<1>7. SumOver(WorthOf(t), 1 .. m) = SumOver(WorthOf(made), 1 .. m)
  <2>1. \A i \in 1 .. m : WorthOf(t)[i] = WorthOf(made)[i]
    <3> SUFFICES ASSUME NEW i \in 1 .. m PROVE WorthOf(t)[i] = WorthOf(made)[i]
      OBVIOUS
    <3>1. CASE made[i].of = NoLayer
      BY <1>1, <1>3, <3>1 DEF WorthOf
    <3>2. CASE made[i].of # NoLayer
      BY <1>1, <1>3, <3>2 DEF WorthOf
    <3> QED  BY <3>1, <3>2
  <2> QED  BY <1>5, <2>1, SumSame
<1>8. SumOver(ReturnedOf(t), 1 .. m) = SumOver(ReturnedOf(made), 1 .. m)
  <2>1. \A i \in 1 .. m : ReturnedOf(t)[i] = ReturnedOf(made)[i]
    BY <1>1, <1>3 DEF ReturnedOf
  <2> QED  BY <1>5, <2>1, SumSame
<1>9. /\ 2 * (SumOver(LeftOf(t), 1 .. m) - SumOver(LeftOf(made), 1 .. m))
            <= Grain * SumOver(ReturnedOf(t), 1 .. m)
      /\ 2 * (SumOver(LeftOf(made), 1 .. m) - SumOver(LeftOf(t), 1 .. m))
            <= Grain * SumOver(ReturnedOf(t), 1 .. m)
  <2> DEFINE v == LeftOf(t)
             w == LeftOf(made)
             r == ReturnedOf(t)
  <2>1. ASSUME NEW i \in 1 .. m
        PROVE  /\ v[i] \in Int /\ w[i] \in Int /\ r[i] \in Int
               /\ 2 * (v[i] - w[i]) <= Grain * r[i] /\ 2 * (w[i] - v[i]) <= Grain * r[i]
    <3>1. PICK a \in Nat : a = made[i].remaining
      <4>1. made[i] \in Layer /\ made[i].remaining >= 0
        BY <1>6
      <4>2. made[i].remaining \in Int
        BY <4>1 DEF Layer
      <4> QED  BY <4>1, <4>2
    <3>2. PICK c \in Int : c = made[i].cost
      BY <1>6 DEF Layer
    <3>3. PICK d \in Int : d = t[i].cost
      BY <1>1, <1>3 DEF Layer
    <3>4. v[i] = a * d /\ w[i] = a * c /\ r[i] = IF made[i].of = NoLayer THEN a ELSE 0
      BY <1>1, <1>3, <3>1, <3>2, <3>3 DEF LeftOf, ReturnedOf
    <3> HIDE DEF v, w, r
    <3>5. CASE made[i].of = NoLayer
      <4>1. 2 * (d - c) <= 10 /\ 2 * (c - d) <= 10
        BY <1>1, <1>3, <3>2, <3>3, <3>5, GrainIs DEF Grain
      <4>2. \A x, y \in Nat : x * y \in Nat
        OBVIOUS
      <4>3. a * (10 - 2 * (d - c)) \in Nat /\ a * (10 - 2 * (c - d)) \in Nat
        <5>1. 10 - 2 * (d - c) \in Nat /\ 10 - 2 * (c - d) \in Nat
          BY <4>1
        <5> QED  BY <4>2, <5>1
      <4>4. /\ a * (10 - 2 * (d - c)) = 10 * a - 2 * (a * d - a * c)
            /\ a * (10 - 2 * (c - d)) = 10 * a - 2 * (a * c - a * d)
            /\ a * d \in Int /\ a * c \in Int
        OBVIOUS
      <4>5. 2 * (a * d - a * c) <= 10 * a /\ 2 * (a * c - a * d) <= 10 * a
        BY <4>3, <4>4
      <4>6. v[i] = a * d /\ w[i] = a * c /\ r[i] = a /\ Grain * r[i] = 10 * a
        BY <3>4, <3>5 DEF Grain
      <4>7. PICK x \in Int, y \in Int : x = a * d /\ y = a * c
        BY <4>4
      <4>8. v[i] = x /\ w[i] = y /\ r[i] = a /\ 2 * (x - y) <= 10 * a /\ 2 * (y - x) <= 10 * a
        BY <4>5, <4>6, <4>7
      <4> QED  BY <4>6, <4>8
    <3>6. CASE made[i].of # NoLayer
      <4>1. d = c
        BY <1>1, <1>3, <3>2, <3>3, <3>6
      <4>2. a * c \in Int /\ 2 * (a * c - a * c) = 0
        OBVIOUS
      <4>3. v[i] = a * c /\ w[i] = a * c /\ r[i] = 0 /\ Grain * r[i] = 0
        BY <3>4, <3>6, <4>1 DEF Grain
      <4> QED  BY <4>2, <4>3
    <3> QED  BY <3>5, <3>6
  <2> HIDE DEF v, w, r
  <2>2. \A i \in 1 .. m : v[i] \in Int /\ w[i] \in Int /\ r[i] \in Int
    BY <2>1
  <2>3. \A i \in 1 .. m : 2 * (v[i] - w[i]) <= Grain * r[i] /\ 2 * (w[i] - v[i]) <= Grain * r[i]
    BY <2>1
  <2>4. Grain \in Int
    BY DEF Grain
  <2>5. /\ 2 * (SumOver(v, 1 .. m) - SumOver(w, 1 .. m)) <= Grain * SumOver(r, 1 .. m)
        /\ 2 * (SumOver(w, 1 .. m) - SumOver(v, 1 .. m)) <= Grain * SumOver(r, 1 .. m)
    BY <1>5, <2>2, <2>3, <2>4, SumClose
  <2> QED  BY <2>5 DEF v, w, r
<1>10. /\ 2 * (SumOver(CogsOf(u), 1 .. k) - SumOver(CogsOf(sold), 1 .. k)) <= Cent * k
       /\ 2 * (SumOver(CogsOf(sold), 1 .. k) - SumOver(CogsOf(u), 1 .. k)) <= Cent * k
  <2> DEFINE v == CogsOf(u)
             w == CogsOf(sold)
  <2>1. ASSUME NEW n \in 1 .. k
        PROVE  /\ v[n] \in Int /\ w[n] \in Int
               /\ 2 * (v[n] - w[n]) <= Cent /\ 2 * (w[n] - v[n]) <= Cent
    <3>1. sold[n] \in Line
      BY <1>4
    <3>2. PICK c \in Int : c = sold[n].cogs
      BY <3>1 DEF Line
    <3>3. v[n] = Cents(c) /\ w[n] = c
      BY <1>2, <1>4, <3>2 DEF CogsOf
    <3> QED  BY <3>3, CentsIs
  <2> HIDE DEF v, w
  <2>2. \A n \in 1 .. k : v[n] \in Int /\ w[n] \in Int
    BY <2>1
  <2>3. \A n \in 1 .. k : 2 * (v[n] - w[n]) <= Cent /\ 2 * (w[n] - v[n]) <= Cent
    BY <2>1
  <2>4. Cent \in Nat
    BY DEF Cent
  <2>5. /\ 2 * (SumOver(v, 1 .. k) - SumOver(w, 1 .. k)) <= Cent * k
        /\ 2 * (SumOver(w, 1 .. k) - SumOver(v, 1 .. k)) <= Cent * k
    BY <2>2, <2>3, <2>4, SumCloseEach
  <2> QED  BY <2>5 DEF v, w
<1>11. PICK a \in Int, b \in Int, c \in Int, d \in Int, e \in Int, f \in Int :
           /\ a = SumOver(WorthOf(made), 1 .. m)
           /\ b = SumOver(LeftOf(made), 1 .. m) /\ c = SumOver(LeftOf(t), 1 .. m)
           /\ d = SumOver(CogsOf(sold), 1 .. k) /\ e = SumOver(CogsOf(u), 1 .. k)
           /\ f = SumOver(ReturnedOf(t), 1 .. m)
  BY <1>1, <1>2, <1>3, <1>4, WorthIs, LeftIs, CogsIs, ReturnedIs
<1>12. a = b + d
  BY <1>3, <1>4, <1>11 DEF Conserved
<1>13. PICK g \in Int, h \in Int : g = Cent * k /\ h = Grain * f
  BY DEF Cent, Grain
<1>14. 2 * (c - b) <= h /\ 2 * (b - c) <= h /\ 2 * (e - d) <= g /\ 2 * (d - e) <= g
  BY <1>9, <1>10, <1>11, <1>13
<1>15. Within(a, c + e, g + h)
  BY <1>12, <1>14 DEF Within
<1> QED  BY <1>2, <1>3, <1>4, <1>7, <1>11, <1>13, <1>15 DEF Kept

\* Stored, a line that its rows explain is shown by them.
LEMMA StoredIsShown ==
    ASSUME NEW line \in Line, Explained(line)
    PROVE  Shown(StoredLine(line))
<1>1. PICK seq \in Seq(Segment) : seq = line.segments
  BY DEF Line
<1>2. PICK t \in Seq(Segment) : t = [i \in DOMAIN seq |-> StoredRow(seq[i])]
  BY StoredRows
<1>3. /\ Len(t) = Len(seq)
      /\ \A i \in DOMAIN seq : t[i].quantity = seq[i].quantity /\ t[i].amount = Cents(seq[i].amount)
  BY <1>2, StoredRows
<1>4. PICK n \in Nat : n = Len(seq) /\ DOMAIN seq = 1 .. n /\ Positions(seq) = 1 .. n /\ Positions(t) = 1 .. n
  BY <1>3 DEF Positions
<1>5. IsFiniteSet(1 .. n)
  BY FS_Interval
<1>6. SumOver(QuantitiesOf(t), 1 .. n) = SumOver(QuantitiesOf(seq), 1 .. n)
  <2>1. \A i \in 1 .. n : QuantitiesOf(t)[i] = QuantitiesOf(seq)[i]
    BY <1>3, <1>4 DEF QuantitiesOf
  <2> QED  BY <1>5, <2>1, SumSame
<1>7. Amounts(seq) = SumOver(AmountsOf(seq), 1 .. n) /\ Amounts(t) = SumOver(AmountsOf(t), 1 .. n)
      /\ Amounts(seq) \in Int /\ Amounts(t) \in Int
  BY <1>4, AmountsIs
<1>8. 2 * (Amounts(t) - Amounts(seq)) <= Cent * n /\ 2 * (Amounts(seq) - Amounts(t)) <= Cent * n
  <2> DEFINE v == AmountsOf(t)
             w == AmountsOf(seq)
  <2>1. ASSUME NEW i \in 1 .. n
        PROVE  /\ v[i] \in Int /\ w[i] \in Int
               /\ 2 * (v[i] - w[i]) <= Cent /\ 2 * (w[i] - v[i]) <= Cent
    <3>1. seq[i] \in Segment
      BY <1>4
    <3>2. PICK c \in Int : c = seq[i].amount
      BY <3>1 DEF Segment
    <3>3. v[i] = Cents(c) /\ w[i] = c
      BY <1>3, <1>4, <3>2 DEF AmountsOf
    <3> QED  BY <3>3, CentsIs
  <2> HIDE DEF v, w
  <2>2. \A i \in 1 .. n : v[i] \in Int /\ w[i] \in Int
    BY <2>1
  <2>3. \A i \in 1 .. n : 2 * (v[i] - w[i]) <= Cent /\ 2 * (w[i] - v[i]) <= Cent
    BY <2>1
  <2>4. Cent \in Nat
    BY DEF Cent
  <2>5. /\ 2 * (SumOver(v, 1 .. n) - SumOver(w, 1 .. n)) <= Cent * n
        /\ 2 * (SumOver(w, 1 .. n) - SumOver(v, 1 .. n)) <= Cent * n
    BY <2>2, <2>3, <2>4, SumCloseEach
  <2> QED  BY <1>7, <2>5 DEF v, w
<1>9. /\ StoredLine(line).quantity = line.quantity /\ StoredLine(line).costed = line.costed
      /\ StoredLine(line).status = line.status
      /\ StoredLine(line).cogs = Cents(line.cogs) /\ StoredLine(line).segments = t
  BY <1>1, <1>2, StoredLineIs
<1>10. Amounts(seq) = Cents(line.cogs)
       /\ SumOver(QuantitiesOf(seq), 1 .. n) = line.quantity
       /\ (line.status \in {"costed", "estimated"} => line.costed = line.quantity)
  BY <1>1, <1>4 DEF Explained
<1>11. Within(Amounts(t), Cents(line.cogs), Cent * n)
  BY <1>8, <1>10 DEF Within
<1> QED  BY <1>3, <1>4, <1>6, <1>9, <1>10, <1>11 DEF Shown

LEMMA LedgerInitially == CostInit => LedgerInv
<1> SUFFICES ASSUME CostInit PROVE LedgerInv
  OBVIOUS
<1>1. layers = <<>> /\ lines = <<>> /\ current = NoSale /\ ledger = [run |-> NoRun, layers |-> <<>>, lines |-> <<>>]
  BY DEF CostInit
<1>2. Conserved(layers, lines, OpenCogs) /\ Kept(ledger.layers, ledger.lines)
  BY <1>1, NothingYet, NothingKept DEF OpenCogs
<1> QED  BY <1>1, <1>2, LayersInitially DEF LedgerInv, SaleAddsUp, RunIsOver, LedgerHasItsRun

\* Nothing of the ledger, the lines and the sale moves.
LEMMA RowsKeepSums ==
    ASSUME LedgerInv, LayersInv', UNCHANGED <<layers, current, lines, ledger>>, RunIsOver', LedgerHasItsRun'
    PROVE  LedgerInv'
BY DEF LedgerInv, SaleAddsUp, OpenCogs

\* Everything in memory is dropped.
LEMMA DropKeepsSums ==
    ASSUME LedgerInv, LayersInv', layers' = <<>>, lines' = <<>>, current' = NoSale,
           Kept(ledger'.layers, ledger'.lines),
           \A n \in DOMAIN ledger'.lines : Shown(ledger'.lines[n]),
           RunIsOver', LedgerHasItsRun'
    PROVE  LedgerInv'
<1>1. Conserved(layers', lines', OpenCogs')
  BY NothingYet DEF OpenCogs
<1>2. \A n \in DOMAIN lines' : Explained(lines'[n])
  OBVIOUS
<1>3. Conserved(layers, lines, OpenCogs)' /\ Kept(ledger.layers, ledger.lines)'
  BY <1>1 DEF Conserved, Kept
<1>4. SaleAddsUp'
  BY DEF SaleAddsUp
<1> QED  BY <1>2, <1>3, <1>4 DEF LedgerInv

\* A run cannot touch the row of the run whose ledger stands.
LEMMA RunsKeepSums ==
    ASSUME LedgerInv, LayersInv', NEW r \in AllocationRuns,
           StartRun(r) \/ CommitRun(r) \/ FailRun(r) \/ DieInRun(r)
    PROVE  LedgerInv'
<1>1. /\ CostTypeOK /\ RunIsOver /\ LedgerHasItsRun
      /\ status \in [AllocationRuns -> {"none", "running", "failed", "succeeded", "succeeded_with_exceptions"}]
      /\ at \in [AllocationRuns -> {"out", "waiting", "inside"}]
  BY DEF LedgerInv, LayersInv, LayersAreConsumed, CostTypeOK
<1>2. CASE StartRun(r)
  <2>1. ledger' = ledger /\ status[r] = "none" /\ at' = [at EXCEPT ![r] = "waiting"]
    BY <1>2 DEF StartRun
  <2>2. \A q \in AllocationRuns : status[q] \in {"succeeded", "succeeded_with_exceptions"}
            => q # r /\ status'[q] = status[q]
    BY <1>2, <2>1 DEF StartRun, Superseded
  <2>3. RunIsOver' /\ LedgerHasItsRun'
    BY <1>1, <2>1, <2>2 DEF RunIsOver, LedgerHasItsRun
  <2> QED  BY <1>2, <2>3, RowsKeepSums DEF StartRun
<1>3. CASE CommitRun(r)
  <2>1. PICK made, sold : /\ made = [i \in DOMAIN layers |-> StoredLayer(layers[i])]
                          /\ sold = [n \in DOMAIN lines |-> StoredLine(lines[n])]
    OBVIOUS
  <2>2. /\ current = NoSale
        /\ ledger' = [run |-> r, layers |-> made, lines |-> sold]
        /\ status' = [status EXCEPT ![r] = IF Exceptions = {} THEN "succeeded"
                                                          ELSE "succeeded_with_exceptions"]
        /\ at' = [at EXCEPT ![r] = "out"]
        /\ layers' = <<>> /\ lines' = <<>> /\ current' = current
    BY <1>3, <2>1 DEF CommitRun
  <2>3. ledger'.run = r /\ ledger'.lines = sold /\ ledger'.layers = made
    BY <2>2
  <2>4. /\ layers \in Seq(Layer) /\ lines \in Seq(Line) /\ Balanced(layers)
        /\ Conserved(layers, lines, 0) /\ \A n \in DOMAIN lines : Explained(lines[n])
    BY <1>1, <2>2, LayersInvIs DEF LedgerInv, CostTypeOK, OpenCogs
  <2>5. DOMAIN sold = DOMAIN lines /\ \A n \in DOMAIN lines :
            lines[n] \in Line /\ sold[n] = StoredLine(lines[n]) /\ sold[n].status = lines[n].status
    <3>1. DOMAIN sold = DOMAIN lines /\ \A n \in DOMAIN lines : sold[n] = StoredLine(lines[n])
      BY <2>1
    <3>2. ASSUME NEW n \in DOMAIN lines
          PROVE  lines[n] \in Line /\ StoredLine(lines[n]).status = lines[n].status
      <4>1. lines[n] \in Line
        BY <2>4
      <4> QED  BY <4>1, StoredLineIs
    <3> QED  BY <3>1, <3>2
  <2>6. RunIsOver'
    BY <1>1, <2>2, <2>3 DEF RunIsOver
  <2>7. (\E n \in DOMAIN sold : sold[n].status \in {"partial", "unavailable"}) <=> Exceptions # {}
    BY <2>5 DEF Exceptions
  <2>8. status'[r] = IF Exceptions = {} THEN "succeeded" ELSE "succeeded_with_exceptions"
    BY <1>1, <2>2
  <2>9. LedgerHasItsRun'
    BY <2>3, <2>7, <2>8 DEF LedgerHasItsRun
  <2>10. Kept(ledger'.layers, ledger'.lines)
    BY <2>1, <2>3, <2>4, StoredKeepsCosts
  <2>11. \A n \in DOMAIN ledger'.lines : Shown(ledger'.lines[n])
    BY <2>3, <2>4, <2>5, StoredIsShown
  <2> QED  BY <2>2, <2>6, <2>9, <2>10, <2>11, DropKeepsSums
<1>4. CASE FailRun(r) \/ DieInRun(r)
  <2>1. /\ at[r] # "out" /\ ledger' = ledger /\ at' = [at EXCEPT ![r] = "out"]
        /\ status' = [status EXCEPT ![r] = "failed"] \/ status' = status
        /\ \/ layers' = <<>> /\ lines' = <<>> /\ current' = NoSale
           \/ UNCHANGED <<current, layers, lines>>
    BY <1>4 DEF FailRun, DieInRun
  <2>2. ledger.run # NoRun => ledger.run \in AllocationRuns /\ ledger.run # r
            /\ at'[ledger.run] = "out" /\ status'[ledger.run] = status[ledger.run]
    BY <1>1, <2>1 DEF RunIsOver
  <2>3. RunIsOver' /\ LedgerHasItsRun'
    BY <1>1, <2>1, <2>2 DEF RunIsOver, LedgerHasItsRun
  <2>4. Kept(ledger'.layers, ledger'.lines) /\ \A n \in DOMAIN ledger'.lines : Shown(ledger'.lines[n])
    BY <2>1 DEF LedgerInv
  <2> QED  BY <2>1, <2>3, <2>4, RowsKeepSums, DropKeepsSums
<1> QED  BY <1>2, <1>3, <1>4

\* A run begins with layers that are whole: what they are worth is what is left.
LEMMA BeginKeepsSums ==
    ASSUME LedgerInv, LayersInv', NEW r \in AllocationRuns, BeginLedger(r)
    PROVE  LedgerInv'
<1>1. PICK s \in Fifo(sources) : layers' = [i \in 1 .. Len(s) |-> Fresh(s[i])]
  BY DEF BeginLedger
<1>2. sources \in SUBSET SourceLayers /\ at \in [AllocationRuns -> {"out", "waiting", "inside"}]
  BY DEF LedgerInv, LayersInv, LayersAreConsumed, CostTypeOK
<1>3. /\ at[r] = "waiting" /\ at' = [at EXCEPT ![r] = "inside"]
      /\ current' = NoSale /\ lines' = <<>> /\ UNCHANGED <<sources, status, ledger>>
  BY DEF BeginLedger
<1> DEFINE n == Len(s)
           t == [i \in 1 .. n |-> Fresh(s[i])]
<1>4. n \in Nat /\ \A i \in 1 .. n : s[i] \in SourceLayers
  <2>1. Cardinality(sources) \in Nat
    BY <1>2, LayersAssumption, FS_Subset, FS_CardinalityType
  <2> QED  BY <1>2, <2>1 DEF Fifo
<1>5. Positions(t) = 1 .. n /\ Positions(<<>>) = {}
  BY <1>4 DEF Positions
<1>6. \A i \in 1 .. n : WorthOf(t)[i] = LeftOf(t)[i] /\ LeftOf(t)[i] \in Int
  <2>1. \A i \in 1 .. n : /\ t[i].of = s[i] /\ t[i].quantity = s[i].quantity
                          /\ t[i].cost = s[i].cost /\ t[i].remaining = s[i].quantity
    BY DEF Fresh
  <2>2. \A i \in 1 .. n : s[i].quantity \in Nat /\ s[i].cost \in Nat /\ s[i] # NoLayer
    BY <1>4, LayersAssumption
  <2> HIDE DEF t
  <2> QED  BY <1>5, <2>1, <2>2 DEF WorthOf, LeftOf
<1> HIDE DEF n, t
<1>7. IsFiniteSet(1 .. n)
  BY <1>4, FS_Interval
<1>8. SumOver(WorthOf(t), 1 .. n) = SumOver(LeftOf(t), 1 .. n)
  BY <1>6, <1>7, SumSame
<1>9. SumOver(LeftOf(t), 1 .. n) \in Int
  BY <1>6, <1>7, SumTakeOut
<1>10. SumOver(CogsOf(<<>>), {}) = 0
  BY SumEmpty
<1>11. Conserved(t, <<>>, 0)
  <2>1. Conserved(t, <<>>, 0) <=> SumOver(WorthOf(t), 1 .. n)
          = SumOver(LeftOf(t), 1 .. n) + SumOver(CogsOf(<<>>), {}) + 0
    BY <1>5 DEF Conserved
  <2>2. PICK a \in Int : a = SumOver(LeftOf(t), 1 .. n)
    BY <1>9
  <2>3. a = a + 0 + 0
    OBVIOUS
  <2> QED  BY <1>8, <1>10, <2>1, <2>2, <2>3
<1>12. Conserved(layers, lines, OpenCogs)'
  BY <1>1, <1>3, <1>11 DEF OpenCogs, n, t
<1>13. RunIsOver'
  BY <1>2, <1>3 DEF LedgerInv, RunIsOver
<1>14. LedgerHasItsRun' /\ SaleAddsUp'
  BY <1>3 DEF LedgerInv, LedgerHasItsRun, SaleAddsUp
<1> QED  BY <1>3, <1>12, <1>13, <1>14 DEF LedgerInv

\* The sums of what is open are integers.
LEMMA SumsAreIntegers ==
    ASSUME CostTypeOK
    PROVE  /\ SumOver(WorthOf(layers), Positions(layers)) \in Int
           /\ SumOver(LeftOf(layers), Positions(layers)) \in Int
           /\ SumOver(CogsOf(lines), Positions(lines)) \in Int
BY WorthIs, LeftIs, CogsIs DEF CostTypeOK

\* One more line, and what changed with it.
LEMMA LineKeepsSums ==
    ASSUME LedgerInv, LayersInv', UNCHANGED <<status, at, ledger>>,
           NEW row \in Line, lines' = Append(lines, row), Explained(row), current' = NoSale,
           SumOver(WorthOf(layers'), Positions(layers')) = SumOver(WorthOf(layers), Positions(layers)),
           SumOver(LeftOf(layers'), Positions(layers')) + row.cogs
             = SumOver(LeftOf(layers), Positions(layers)) + OpenCogs,
           SumOver(LeftOf(layers'), Positions(layers')) \in Int, OpenCogs \in Int
    PROVE  LedgerInv'
<1>1. CostTypeOK /\ lines \in Seq(Line) /\ row.cogs \in Int
  BY DEF LedgerInv, LayersInv, LayersAreConsumed, CostTypeOK, Line
<1>2. SumOver(CogsOf(lines'), Positions(lines')) = SumOver(CogsOf(lines), Positions(lines)) + row.cogs
  BY <1>1, AppendLine
<1>3. PICK w \in Int, a \in Int, b \in Int, c \in Int :
          /\ w = SumOver(WorthOf(layers), Positions(layers))
          /\ a = SumOver(LeftOf(layers), Positions(layers))
          /\ b = SumOver(LeftOf(layers'), Positions(layers'))
          /\ c = SumOver(CogsOf(lines), Positions(lines))
  BY <1>1, SumsAreIntegers
<1>4. w = a + c + OpenCogs
  BY <1>3 DEF LedgerInv, Conserved
<1>5. w = b + (c + row.cogs) + 0
  <2>1. b + row.cogs = a + OpenCogs
    BY <1>3
  <2>2. PICK d \in Int, o \in Int : d = row.cogs /\ o = OpenCogs
    BY <1>1
  <2>3. w = a + c + o /\ b + d = a + o
    BY <1>4, <2>1, <2>2
  <2>4. w = b + (c + d) + 0
    BY <2>3
  <2> QED  BY <2>2, <2>4
<1>6. OpenCogs' = 0
  BY DEF OpenCogs
<1>7. Conserved(layers', lines', 0)
  BY <1>2, <1>3, <1>5 DEF Conserved
<1>8. Conserved(layers, lines, OpenCogs)'
  BY <1>6, <1>7 DEF Conserved
<1>9. ASSUME NEW n \in DOMAIN lines' PROVE Explained(lines'[n])
  <2>1. (n \in DOMAIN lines /\ lines'[n] = lines[n]) \/ lines'[n] = row
    BY <1>1
  <2> QED  BY <2>1 DEF LedgerInv
<1>10. SaleAddsUp'
  BY DEF SaleAddsUp
<1>11. RunIsOver' /\ LedgerHasItsRun'
  BY DEF LedgerInv, RunIsOver, LedgerHasItsRun
<1> QED  BY <1>8, <1>9, <1>10, <1>11 DEF LedgerInv

LEMMA OneRow ==
    ASSUME NEW q \in Int, NEW p \in Int
    PROVE  LET rows == <<[quantity |-> q, amount |-> p]>> IN
           /\ rows \in Seq(Segment) /\ Amounts(rows) = p
           /\ SumOver(QuantitiesOf(rows), Positions(rows)) = q
<1>1. [quantity |-> q, amount |-> p] \in Segment
  BY DEF Segment
<1>2. PICK s \in Segment : s = [quantity |-> q, amount |-> p] /\ s.quantity = q /\ s.amount = p
  BY <1>1
<1>3. <<s>> = Append(<<>>, s)
  OBVIOUS
<1>4. Append(<<>>, s) \in Seq(Segment) /\ Amounts(Append(<<>>, s)) = 0 + p
  BY <1>2, NoSegment, AppendSegment
<1>5. SumOver(QuantitiesOf(Append(<<>>, s)), Positions(Append(<<>>, s))) = 0 + q
  BY <1>2, NoSegment, AppendSegment
<1> QED  BY <1>2, <1>3, <1>4, <1>5

LEMMA UnknownKeepsSums ==
    ASSUME LedgerInv, LayersInv', UnknownProduct
    PROVE  LedgerInv'
<1>1. CostTypeOK
  BY DEF LedgerInv, LayersInv, LayersAreConsumed
<1>2. PICK q \in SaleQuantities :
          lines' = Append(lines, Summary(q, 0, 0, <<[quantity |-> q, amount |-> 0]>>, "unavailable"))
  BY DEF UnknownProduct
<1>3. q \in Int
  BY LayersAssumption
<1>4. PICK rows \in Seq(Segment) : /\ rows = <<[quantity |-> q, amount |-> 0]>>
                                   /\ Amounts(rows) = 0
                                   /\ SumOver(QuantitiesOf(rows), Positions(rows)) = q
  <2>1. PICK z \in Int : z = 0
    OBVIOUS
  <2>2. LET rows == <<[quantity |-> q, amount |-> z]>> IN
        /\ rows \in Seq(Segment) /\ Amounts(rows) = z
        /\ SumOver(QuantitiesOf(rows), Positions(rows)) = q
    BY <1>3, OneRow
  <2> QED  BY <2>1, <2>2
<1>5. Summary(q, 0, 0, rows, "unavailable") \in Line
  BY DEF Summary, Line
<1>6. PICK row \in Line : row = Summary(q, 0, 0, rows, "unavailable")
  BY <1>5
<1>7. Explained(row) /\ row.cogs = 0
  BY <1>4, <1>6 DEF Explained, Summary, Cents, Nearest, Cent
<1>8. current = NoSale /\ UNCHANGED <<status, at, layers, current, ledger>> /\ OpenCogs = 0
  BY DEF UnknownProduct, OpenCogs
<1>9. lines' = Append(lines, row)
  BY <1>2, <1>4, <1>6
<1>10. SumOver(LeftOf(layers), Positions(layers)) \in Int
  BY <1>1, SumsAreIntegers
<1> QED  BY <1>7, <1>8, <1>9, <1>10, LineKeepsSums

LEMMA TakeKeepsSums ==
    ASSUME LedgerInv, LayersInv', TakeSale
    PROVE  LedgerInv'
<1>1. PICK q \in SaleQuantities : q > 0 /\ current' =
          [quantity |-> q, required |-> q, cogs |-> 0, next |-> 1, segments |-> <<>>]
  BY DEF TakeSale
<1>2. current = NoSale /\ UNCHANGED <<status, at, layers, lines, ledger>> /\ q \in Int
  BY LayersAssumption DEF TakeSale
<1>3. current'.cogs = 0 /\ current'.segments = <<>> /\ current'.required = q /\ current'.quantity = q
  BY <1>1
<1>4. OpenCogs = 0 /\ OpenCogs' = 0
  BY <1>2, <1>3 DEF OpenCogs
<1>5. Conserved(layers, lines, OpenCogs)'
  BY <1>2, <1>4 DEF LedgerInv, Conserved
<1>6. SaleAddsUp'
  <2>1. SumOver(QuantitiesOf(<<>>), Positions(<<>>)) + q = q /\ Amounts(<<>>) = 0
    BY <1>2, NoSegment
  <2> QED  BY <1>3, <2>1 DEF SaleAddsUp
<1> QED  BY <1>2, <1>5, <1>6 DEF LedgerInv, RunIsOver, LedgerHasItsRun, Conserved

LEMMA FinishKeepsSums ==
    ASSUME LedgerInv, LayersInv', FinishSale
    PROVE  LedgerInv'
<1>1. CostTypeOK /\ current \in Sale /\ current # NoSale /\ SaleAddsUp
  BY DEF LedgerInv, LayersInv, LayersAreConsumed, CostTypeOK, FinishSale
<1>2. PICK c \in Sale : c = current
  BY <1>1
<1>3. c.quantity \in Int /\ c.required \in Int /\ c.cogs \in Int /\ c.segments \in Seq(Segment)
  BY LayersAssumption DEF Sale
<1>4. PICK costed \in Int : costed = c.quantity - c.required
  BY <1>3
<1>5. c.segments = <<>> => c.cogs = 0
  BY <1>1, <1>2, NoSegment DEF SaleAddsUp
<1>6. PICK cut \in Seq(Segment) : /\ cut = Rounded(c.segments, c.cogs)
                                  /\ Amounts(cut) = Cents(c.cogs)
                                  /\ SumOver(QuantitiesOf(cut), Positions(cut))
                                       = SumOver(QuantitiesOf(c.segments), Positions(c.segments))
  BY <1>3, <1>5, RoundedIs
<1>7. PICK rows \in Seq(Segment) : /\ rows = cut \o Uncovered(c.required)
                                   /\ Amounts(rows) = Cents(c.cogs)
                                   /\ SumOver(QuantitiesOf(rows), Positions(rows)) = c.quantity
  <2>1. SumOver(QuantitiesOf(c.segments), Positions(c.segments)) + c.required = c.quantity
    BY <1>1, <1>2 DEF SaleAddsUp
  <2>2. PICK rows : rows = cut \o Uncovered(c.required)
    OBVIOUS
  <2>3. /\ rows \in Seq(Segment) /\ Amounts(rows) = Amounts(cut)
        /\ SumOver(QuantitiesOf(rows), Positions(rows))
             = SumOver(QuantitiesOf(cut), Positions(cut)) + c.required
    BY <1>3, <2>2, RowsOfLine
  <2> QED  BY <1>6, <2>1, <2>2, <2>3
<1>8. PICK state \in {"costed", "partial", "unavailable"} :
          state = StatusOf(costed, c.required) /\ (state = "costed" => c.required = 0)
  BY DEF StatusOf
<1>9. /\ lines' = Append(lines, Summary(c.quantity, costed, c.cogs, rows, state))
      /\ current' = NoSale
      /\ UNCHANGED <<sources, status, at, layers, ledger>>
  BY <1>2, <1>4, <1>6, <1>7, <1>8 DEF FinishSale
<1>10. Summary(c.quantity, costed, c.cogs, rows, state) \in Line
  BY DEF Summary, Line, Sale
<1>11. PICK row \in Line : row = Summary(c.quantity, costed, c.cogs, rows, state)
  BY <1>10
<1>12. row.cogs = c.cogs
  BY <1>11 DEF Summary
<1>13. Explained(row)
  <2>1. state = "costed" => costed = c.quantity
    BY <1>3, <1>4, <1>8
  <2>2. state # "estimated"
    BY <1>8
  <2> QED  BY <1>7, <1>11, <2>1, <2>2 DEF Explained, Summary
<1>14. OpenCogs = c.cogs
  BY <1>1, <1>2 DEF OpenCogs
<1>15. SumOver(LeftOf(layers), Positions(layers)) \in Int
  BY <1>1, SumsAreIntegers
<1> QED  BY <1>3, <1>9, <1>11, <1>12, <1>13, <1>14, <1>15, LineKeepsSums

LEMMA ReturnKeepsSums ==
    ASSUME LedgerInv, LayersInv', TakeCreditNote
    PROVE  LedgerInv'
<1>1. CostTypeOK
  BY DEF LedgerInv, LayersInv, LayersAreConsumed
<1>2. PICK q \in {n \in SaleQuantities : n < 0} :
          IF HasBasis
          THEN LET cogs == q * AverageCost IN
               /\ layers' = ReturnLayer(-q, AverageCost)
               /\ lines' = Append(lines, Summary(q, q, cogs,
                              <<[quantity |-> q, amount |-> Cents(cogs)]>>, "estimated"))
          ELSE /\ lines' = Append(lines, Summary(q, 0, 0, Uncovered(q), "unavailable"))
               /\ UNCHANGED layers
  BY DEF TakeCreditNote
<1>3. q \in Int /\ q < 0 /\ q \in SaleQuantities
  BY LayersAssumption
<1>4. UNCHANGED <<sources, status, at, current, history, ledger>> /\ current = NoSale /\ OpenCogs = 0
  BY DEF TakeCreditNote, OpenCogs
<1>5. SumOver(LeftOf(layers), Positions(layers)) \in Int
  BY <1>1, SumsAreIntegers
<1>6. CASE HasBasis
  <2>1. PICK avg \in Int : avg = AverageCost
    BY <1>1, <1>6, AverageIs
  <2>2. PICK cogs \in Int : cogs = q * avg
    BY <1>3
  <2>3. PICK p \in Int : p = Cents(cogs)
    BY CentsIs
  <2>4. PICK l : l = [of |-> NoLayer, cost |-> avg, quantity |-> -q, remaining |-> -q, taken |-> 0]
    OBVIOUS
  <2>5. layers' = Append(layers, l)
        /\ lines' = Append(lines, Summary(q, q, cogs, <<[quantity |-> q, amount |-> p]>>, "estimated"))
    BY <1>2, <1>6, <2>1, <2>2, <2>3, <2>4 DEF ReturnLayer
  <2>6. l \in Layer /\ l.of = NoLayer /\ l.remaining = -q /\ l.cost = avg
    BY <1>3, <2>4 DEF Layer
  <2>7. PICK rows : rows = <<[quantity |-> q, amount |-> p]>>
    OBVIOUS
  <2>8. /\ rows \in Seq(Segment) /\ Amounts(rows) = p
        /\ SumOver(QuantitiesOf(rows), Positions(rows)) = q
    BY <1>3, <2>7, OneRow
  <2>9. Summary(q, q, cogs, rows, "estimated") \in Line
    BY <1>3, <2>8 DEF Summary, Line
  <2>10. PICK row \in Line : row = Summary(q, q, cogs, rows, "estimated")
    BY <2>9
  <2>11. Explained(row) /\ row.cogs = cogs
    BY <2>3, <2>8, <2>10 DEF Explained, Summary
  <2>12. /\ SumOver(WorthOf(layers'), Positions(layers')) = SumOver(WorthOf(layers), Positions(layers))
         /\ SumOver(LeftOf(layers'), Positions(layers'))
              = SumOver(LeftOf(layers), Positions(layers)) + l.remaining * l.cost
    BY <1>1, <2>5, <2>6, AppendLayer DEF CostTypeOK
  <2>13. l.remaining * l.cost = -cogs
    BY <1>3, <2>2, <2>6
  <2>14. SumOver(LeftOf(layers'), Positions(layers')) + row.cogs
           = SumOver(LeftOf(layers), Positions(layers)) + OpenCogs
         /\ SumOver(LeftOf(layers'), Positions(layers')) \in Int
    <3>1. PICK a \in Int : a = SumOver(LeftOf(layers), Positions(layers))
      BY <1>5
    <3>2. SumOver(LeftOf(layers'), Positions(layers')) = a + (-cogs)
      BY <2>12, <2>13, <3>1
    <3>3. a + (-cogs) + cogs = a + 0 /\ a + (-cogs) \in Int
      OBVIOUS
    <3> QED  BY <1>4, <2>11, <3>1, <3>2, <3>3
  <2>15. lines' = Append(lines, row) /\ current' = NoSale /\ UNCHANGED <<status, at, ledger>>
         /\ OpenCogs \in Int
    BY <1>4, <2>5, <2>7, <2>10
  <2> QED  BY <2>11, <2>12, <2>14, <2>15, LineKeepsSums
<1>7. CASE ~HasBasis
  <2>1. PICK z \in Int : z = 0
    OBVIOUS
  <2>2. PICK rows : rows = <<[quantity |-> q, amount |-> z]>>
    OBVIOUS
  <2>3. /\ rows \in Seq(Segment) /\ Amounts(rows) = z
        /\ SumOver(QuantitiesOf(rows), Positions(rows)) = q
    BY <1>3, <2>2, OneRow
  <2>4. rows = Uncovered(q)
    BY <1>3, <2>1, <2>2 DEF Uncovered
  <2>5. Summary(q, 0, 0, rows, "unavailable") \in Line
    BY <1>3, <2>3 DEF Summary, Line
  <2>6. PICK row \in Line : row = Summary(q, 0, 0, rows, "unavailable")
    BY <2>5
  <2>7. Explained(row) /\ row.cogs = 0
    BY <2>1, <2>3, <2>6 DEF Explained, Summary, Cents, Nearest, Cent
  <2>8. lines' = Append(lines, row) /\ layers' = layers
    BY <1>2, <1>7, <2>4, <2>6
  <2> QED  BY <1>4, <1>5, <2>7, <2>8, LineKeepsSums
<1> QED  BY <1>6, <1>7

LEMMA ConsumeKeepsSums ==
    ASSUME LedgerInv, LayersInv', ConsumeLayer
    PROVE  LedgerInv'
<1>1. CostTypeOK /\ current \in Sale /\ current # NoSale /\ layers \in Seq(Layer) /\ SaleAddsUp
      /\ lines \in Seq(Line) /\ SaleTakesInOrder
  BY DEF LedgerInv, LayersInv, LayersAreConsumed, CostTypeOK, ConsumeLayer
<1>2. PICK c \in Sale : c = current
  BY <1>1
<1>3. c.quantity \in Int /\ c.required \in Int /\ c.cogs \in Int /\ c.segments \in Seq(Segment)
      /\ c.next \in Nat
  BY LayersAssumption DEF Sale
<1>4. PICK i \in Nat : i = c.next
  BY <1>3
<1>5. i \in DOMAIN layers
  <2>1. i > 0 /\ i <= Len(layers)
    BY <1>1, <1>2, <1>4 DEF SaleTakesInOrder, ConsumeLayer
  <2> QED  BY <1>1, <2>1
<1>6. PICK L \in Layer : L = layers[i]
  BY <1>1, <1>5
<1>7. UNCHANGED <<sources, status, at, lines, history, ledger>>
  BY DEF ConsumeLayer
<1>8. RunIsOver' /\ LedgerHasItsRun'
  BY <1>7 DEF LedgerInv, RunIsOver, LedgerHasItsRun
<1>9. OpenCogs = c.cogs
  BY <1>1, <1>2 DEF OpenCogs
<1>10. CASE L.remaining <= 0
  <2>1. current' = [c EXCEPT !.next = @ + 1] /\ layers' = layers
    BY <1>2, <1>4, <1>6, <1>10 DEF ConsumeLayer
  <2>2. /\ current'.cogs = c.cogs /\ current'.segments = c.segments
        /\ current'.quantity = c.quantity /\ current'.required = c.required
    BY <2>1 DEF Sale
  <2>3. current' # NoSale
    <3>1. current' \in Sale
      BY <2>1 DEF Sale
    <3> QED  BY <3>1, LayersAssumption DEF Sale, Segment
  <2>4. OpenCogs' = OpenCogs
    BY <1>9, <2>2, <2>3 DEF OpenCogs
  <2>5. Conserved(layers, lines, OpenCogs)'
    BY <1>7, <2>1, <2>4 DEF LedgerInv, Conserved
  <2>6. SaleAddsUp'
    BY <1>1, <1>2, <2>2 DEF SaleAddsUp
  <2> QED  BY <1>7, <1>8, <2>5, <2>6 DEF LedgerInv, Conserved
<1>11. CASE ~(L.remaining <= 0)
  <2>1. L.remaining \in Int /\ L.cost \in Int /\ L.taken \in Int
    BY DEF Layer
  <2>2. PICK q \in Int : q = Portion(L)
    BY <1>2, <1>3, <2>1 DEF Portion
  <2>3. PICK p \in Int : p = q * L.cost
    BY <2>1
  <2>4. PICK m \in Int, n \in Int : m = L.remaining - q /\ n = L.taken + q
    BY <2>1
  <2>5. PICK rows : rows = Append(c.segments, [quantity |-> q, amount |-> p])
    OBVIOUS
  <2>6. PICK o \in Int, g \in Int, k \in Nat : o = c.required - q /\ g = c.cogs + p /\ k = c.next + 1
    BY <1>3
  <2>7. /\ layers' = [layers EXCEPT ![i].remaining = m, ![i].taken = n]
        /\ current' = [c EXCEPT !.required = o, !.next = k, !.cogs = g, !.segments = rows]
    BY <1>2, <1>4, <1>6, <1>11, <2>2, <2>3, <2>4, <2>5, <2>6 DEF ConsumeLayer
  <2>8. PICK s \in Segment : s = [quantity |-> q, amount |-> p] /\ s.quantity = q /\ s.amount = p
    <3>1. [quantity |-> q, amount |-> p] \in Segment
      BY DEF Segment
    <3> QED  BY <3>1
  <2>9. /\ rows \in Seq(Segment) /\ Amounts(rows) = Amounts(c.segments) + p
        /\ SumOver(QuantitiesOf(rows), Positions(rows))
             = SumOver(QuantitiesOf(c.segments), Positions(c.segments)) + q
    BY <1>3, <2>5, <2>8, AppendSegment
  <2>10. /\ current'.cogs = g /\ current'.segments = rows
         /\ current'.quantity = c.quantity /\ current'.required = o
    BY <2>7 DEF Sale
  <2>11. current' # NoSale
    <3>1. current' \in Sale
      BY <2>7, <2>9 DEF Sale
    <3> QED  BY <3>1, LayersAssumption DEF Sale, Segment
  <2>12. OpenCogs' = c.cogs + p
    BY <2>6, <2>10, <2>11 DEF OpenCogs
  <2>13. SaleAddsUp'
    <3>1. Amounts(c.segments) = c.cogs
          /\ SumOver(QuantitiesOf(c.segments), Positions(c.segments)) + c.required = c.quantity
      BY <1>1, <1>2 DEF SaleAddsUp
    <3>2. PICK b \in Int : b = SumOver(QuantitiesOf(c.segments), Positions(c.segments))
      BY <1>3, QuantityIs
    <3>3. SumOver(QuantitiesOf(rows), Positions(rows)) + o = c.quantity
      BY <1>3, <2>6, <2>9, <3>1, <3>2
    <3>4. Amounts(rows) = g
      BY <2>6, <2>9, <3>1
    <3> QED  BY <2>10, <3>3, <3>4 DEF SaleAddsUp
  <2>14. PICK t \in Seq(Layer) : t = layers'
    BY DEF LayersInv, LayersAreConsumed, CostTypeOK
  <2>15. /\ DOMAIN t = DOMAIN layers /\ \A j \in DOMAIN layers : j # i => t[j] = layers[j]
         /\ t[i].of = L.of /\ t[i].cost = L.cost /\ t[i].quantity = L.quantity
         /\ t[i].remaining = L.remaining - q
    <3>1. PICK y : y = [L EXCEPT !.remaining = m, !.taken = n]
      OBVIOUS
    <3>2. y.of = L.of /\ y.cost = L.cost /\ y.quantity = L.quantity /\ y.remaining = m
      BY <3>1 DEF Layer
    <3>3. t = [layers EXCEPT ![i] = y]
      BY <1>1, <1>5, <1>6, <2>7, <2>14, <3>1
    <3> QED  BY <1>1, <1>5, <2>4, <3>2, <3>3
  <2>16. /\ SumOver(WorthOf(t), Positions(t)) = SumOver(WorthOf(layers), Positions(layers))
         /\ SumOver(LeftOf(t), Positions(t)) = SumOver(LeftOf(layers), Positions(layers)) - p
    BY <1>1, <1>5, <1>6, <2>3, <2>15, TakePortion
  <2>17. PICK w \in Int, a \in Int, d \in Int :
             /\ w = SumOver(WorthOf(layers), Positions(layers))
             /\ a = SumOver(LeftOf(layers), Positions(layers))
             /\ d = SumOver(CogsOf(lines), Positions(lines))
    BY <1>1, SumsAreIntegers
  <2>18. w = a + d + c.cogs
    BY <1>9, <2>17 DEF LedgerInv, Conserved
  <2>19. w = (a - p) + d + (c.cogs + p)
    BY <1>3, <2>18
  <2>20. Conserved(layers', lines', OpenCogs')
    BY <1>7, <2>12, <2>14, <2>16, <2>17, <2>19 DEF Conserved
  <2>21. Conserved(layers, lines, OpenCogs)'
    BY <2>20 DEF Conserved
  <2> QED  BY <1>7, <1>8, <2>13, <2>21 DEF LedgerInv, Conserved
<1> QED  BY <1>10, <1>11

LEMMA LedgerStays == LedgerInv /\ [CostNext]_costVars => LedgerInv'
<1> SUFFICES ASSUME LedgerInv, [CostNext]_costVars PROVE LedgerInv'
  OBVIOUS
<1>1. LayersInv'
  BY LayersStay DEF LedgerInv
<1>2. CASE UNCHANGED costVars
  BY <1>1, <1>2, RowsKeepSums DEF costVars, LedgerInv, RunIsOver, LedgerHasItsRun
<1>3. ASSUME NEW l \in SourceLayers, Receive(l) PROVE LedgerInv'
  BY <1>1, <1>3, RowsKeepSums DEF Receive, LedgerInv, RunIsOver, LedgerHasItsRun
<1>4. ASSUME NEW r \in AllocationRuns, StartRun(r) \/ CommitRun(r) \/ FailRun(r) \/ DieInRun(r)
      PROVE  LedgerInv'
  BY <1>1, <1>4, RunsKeepSums
<1>5. ASSUME NEW r \in AllocationRuns, BeginLedger(r) PROVE LedgerInv'
  BY <1>1, <1>5, BeginKeepsSums
<1>6. ASSUME UnknownProduct \/ TakeSale \/ ConsumeLayer \/ FinishSale \/ TakeCreditNote PROVE LedgerInv'
  BY <1>1, <1>6, UnknownKeepsSums, TakeKeepsSums, ConsumeKeepsSums, FinishKeepsSums, ReturnKeepsSums
<1> QED  BY <1>2, <1>3, <1>4, <1>5, <1>6 DEF CostNext

\* Whatever is committed adds up as its columns keep it, for any layers, quantities and number
\* of lines: the cost of the sources, give or take half a cent for each line and the rounding of
\* the returns; the rows of each line, give or take half a cent for each row, since every one
\* is rounded on its own; and the run on record.
THEOREM LedgerAlwaysAddsUp == CostSpec => []CostsAddUp
<1>1. CostInit => LedgerInv
  BY LedgerInitially
<1>2. LedgerInv /\ [CostNext]_costVars => LedgerInv'
  BY LedgerStays
<1>3. LedgerInv => CostsAddUp
  BY LedgerInvIsEnough
<1> QED  BY <1>1, <1>2, <1>3, PTL DEF CostSpec
=============================================================================
