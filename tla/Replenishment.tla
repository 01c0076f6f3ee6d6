---------------------------- MODULE Replenishment ---------------------------
(***************************************************************************)
(* How a purchase plan is prepared: the line that each product gets, the   *)
(* greedy division of the weekly budget with freight by supplier, the      *)
(* summary, the lines that are persisted, and the totals that approve_plan *)
(* computes from them.                                                     *)
(*                                                                         *)
(* Amounts are integers, so that the rounding of stored numbers is left    *)
(* out.  What comes out of the forecast and the warehouse is the input of  *)
(* a product; the ranking of candidates depends on margins that decide     *)
(* nothing else, so they are taken in any order.                           *)
(***************************************************************************)
EXTENDS Integers, FiniteSetsExt

CONSTANTS
    Goods,          \* product keys
    Sellers,        \* supplier keys
    NoSeller,       \* the product has no supplier options
    Inputs,         \* what a product may bring to _recommend
    Policies,       \* freight: shipping cost and free-shipping threshold
    NoThreshold,    \* no free shipping was agreed
    Budgets         \* weekly budgets

ASSUME ReplenishmentAssumption ==
    /\ Budgets \subseteq Nat
    /\ NoSeller \notin Sellers
    /\ IsFiniteSet(Goods) /\ IsFiniteSet(Sellers)
    /\ \A p \in Policies : p.shipping \in Nat /\ p.threshold \in Nat \cup {NoThreshold}
    /\ \A i \in Inputs :
          /\ i.stock \in Int /\ i.cost \in Int
          /\ i.transit \in Nat /\ i.target \in Nat /\ i.minimum \in Nat /\ i.pack \in Nat \ {0}
          /\ i.seller \in Sellers \cup {NoSeller}
          /\ i.active \in BOOLEAN /\ i.sold \in BOOLEAN /\ i.demand \in BOOLEAN

VARIABLES
    input,       \* of each product
    policy,      \* supplier_replenishment_policies
    budget,
    blocked,     \* the data quality is not enough for a plan
    decision,    \* of each line, none while the budget has not reached it
    spent,       \* the running total of the greedy loop
    supplied,    \* supplier_goods
    saved        \* the plan was persisted with a recommended value

planVars == <<input, policy, budget, blocked, decision, spent, supplied, saved>>

NotSaved == -1

----------------------------------------------------------------------------
(* The line of one product.                                                *)

Position(i) == Max({i.stock, 0}) + i.transit
Base(i) == Max({i.target - Position(i), 0})

RoundUp(q, pack) == ((q + pack - 1) \div pack) * pack

Wanted(i) == IF Base(i) > 0 THEN RoundUp(Max({Base(i), i.minimum}), i.pack) ELSE 0

Verdict(i) ==
    IF ~ i.active THEN "no_reorder"
    ELSE IF i.stock < 0 THEN "reconcile"
    ELSE IF ~ i.sold /\ i.stock > 0 THEN "no_reorder"
    ELSE IF Wanted(i) <= 0 THEN "covered"
    ELSE IF i.cost <= 0 THEN "review_cost"
    ELSE "candidate"

Quantity(p) == IF input[p].active THEN Wanted(input[p]) ELSE 0
Value(p) == Quantity(p) * input[p].cost
Critical(p) == input[p].stock <= 0 /\ input[p].demand

PlanInit ==
    /\ input \in [Goods -> Inputs]
    /\ policy \in [Sellers -> Policies]
    /\ budget \in Budgets
    /\ blocked \in BOOLEAN
    /\ decision = [p \in Goods |-> Verdict(input[p])]
    /\ spent = 0
    /\ supplied = [s \in Sellers |-> 0]
    /\ saved = NotSaved

----------------------------------------------------------------------------
(* The budget.                                                             *)

Freight(goods, s) ==
    IF goods <= 0 \/ (policy[s].threshold # NoThreshold /\ goods >= policy[s].threshold)
    THEN 0 ELSE policy[s].shipping

\* Mutant of Increment: freight is charged once and never given back.
IncrementSticky(p, s) ==
    Value(p) + IF supplied[s] = 0 THEN Freight(Value(p), s) ELSE 0

\* What line p adds to the plan, with the freight of its supplier before and after.
Increment(p, s) == Value(p) + Freight(supplied[s] + Value(p), s) - Freight(supplied[s], s)

\* One candidate of the greedy loop.
Allot(p) ==
    LET s == input[p].seller IN
    /\ decision[p] = "candidate"
    /\ \/ /\ blocked
          /\ decision' = [decision EXCEPT ![p] = "blocked_data"]
          /\ UNCHANGED <<spent, supplied>>
       \/ /\ ~ blocked /\ s = NoSeller
          /\ decision' = [decision EXCEPT ![p] = "review_supplier"]
          /\ UNCHANGED <<spent, supplied>>
       \/ /\ ~ blocked /\ s # NoSeller /\ spent + Increment(p, s) <= budget
          /\ decision' = [decision EXCEPT ![p] = IF Critical(p) THEN "buy_now" ELSE "buy_weekly"]
          /\ spent' = spent + Increment(p, s)
          /\ supplied' = [supplied EXCEPT ![s] = @ + Value(p)]
       \/ /\ ~ blocked /\ s # NoSeller /\ spent + Increment(p, s) > budget
          /\ decision' = [decision EXCEPT ![p] = "deferred_budget"]
          /\ UNCHANGED <<spent, supplied>>
    /\ UNCHANGED <<input, policy, budget, blocked, saved>>

----------------------------------------------------------------------------
(* _supplier_orders, _summary and _persist_plan                            *)

Bought == {p \in Goods : decision[p] \in {"buy_now", "buy_weekly"}}
OrderGoods(s) == MapThenSumSet(Value, {p \in Bought : input[p].seller = s})
GoodsValue == MapThenSumSet(OrderGoods, Sellers)
FreightValue == MapThenSumSet(LAMBDA s : Freight(OrderGoods(s), s), Sellers)
RecommendedValue == GoodsValue + FreightValue

Persist ==
    /\ saved = NotSaved
    /\ \A p \in Goods : decision[p] # "candidate"
    /\ saved' = RecommendedValue
    /\ UNCHANGED <<input, policy, budget, blocked, decision, spent, supplied>>

PlanNext == (\E p \in Goods : Allot(p)) \/ Persist

PlanSpec == PlanInit /\ [][PlanNext]_planVars

\* The least quantity a supplier sells that covers what is missing.
LeastOrder(i) ==
    Min({q \in 0 .. i.target + i.minimum + i.pack :
            q % i.pack = 0 /\ q >= i.minimum /\ Max({i.stock, 0}) + i.transit + q >= i.target})

----------------------------------------------------------------------------
\* The running total of the loop is the value that the summary recomputes and saves, goods
\* and freight by supplier, and never exceeds the budget, although a line may make the freight
\* of all the others free; over stale data nothing is bought (_recommend, _summary).
BudgetAddsUp ==
    /\ spent = RecommendedValue
    /\ spent <= budget
    /\ \A s \in Sellers : supplied[s] = OrderGoods(s)
    /\ saved \in {NotSaved, spent}
    /\ blocked => spent = 0

\* What is bought is the least multiple of the pack that reaches the minimum and the target,
\* and no product waits for a certain stock, a cost or a supplier (_recommend).
OrdersAreLeast ==
    \A p \in Bought :
        /\ Quantity(p) = LeastOrder(input[p])
        /\ input[p].stock >= 0 /\ input[p].cost > 0 /\ input[p].seller # NoSeller

\* A plan spends what it says and asks for what can be bought.
PlanIsSound == BudgetAddsUp /\ OrdersAreLeast
=============================================================================
