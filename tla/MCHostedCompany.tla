-------------------------- MODULE MCHostedCompany -----------------------------
(* Canonical documents for TLC: lines that are plain, partial, discounted in *)
(* the several ways of an ERP, zero or negative; totals that agree with them *)
(* or not; each type of document with each kind of buyer and reference.      *)
EXTENDS HostedCompany, FiniteSets, TLC

\* A line with a quantity in thousandths and a price in hundred-thousandths,
\* and one with both as the e-CF writes them.
Fine(qty, price, amount, disc, ind) ==
  [qty |-> qty, price |-> price, amount |-> amount, disc |-> disc, ind |-> ind,
   rate |-> None, tax |-> None, ret |-> [k \in Tax |-> None]]

L(qty, price, amount, disc, ind) == Fine(10 * qty, 10 * price, amount, disc, ind)

\* One of 3.33; three at 1.1111 without the amount; 1.00 without the price.
Goods == {L(100, 33300, 333, 0, None), L(300, 11111, 0, 0, None), L(300, 0, 100, 0, None)}

\* Discounts of 0.50: net amount, net amount and price, both missing, a line.
Discounts == {L(200, 10000, 150, 50, None), L(200, 7500, 150, 50, None),
              L(200, 10000, 0, 50, None), L(100, -5000, -50, 0, None),
              L(0, 0, -400, 0, None)}

Odd == {L(100, 0, 0, 0, None), L(200, 5000, 300, 0, None), L(150, 6667, 100, 0, 4),
           L(0, 5000, 0, 0, 2), L(100, 10000, 100, 0, 0)}

\* More decimals than the e-CF has: 1.125 at 2.00, a quantity that rounds to
\* none, a discount of half a cent.
Finer == {Fine(1125, 200000, 225, 0, None), Fine(4, 300000, 40, 0, None),
          Fine(1000, -500, 0, 0, None)}

Lines == Goods \cup Discounts \cup Odd \cup Finer

Sequences3 ==
  {<<a>> : a \in Lines} \cup {<<a, b>> : a, b \in Lines}
    \cup {<<a, b, c>> : a \in {L(100, 33300, 333, 0, None), L(100, 0, 0, 0, None)},
                        b, c \in Lines}

Base ==
  [tipo |-> 31, ref |-> "empty", code |-> None, rnc |-> "rnc", xid |-> "empty", rate |-> None,
   lines |-> <<L(100, 33300, 333, 0, None)>>, total |-> 393, subtotal |-> 333, itbis |-> 60,
   exento |-> None, gravado |-> None, buckets |-> <<>>, retention |-> None]

\* All lines, in pesos and at 1.2345 and 0.3333 pesos.
ByLines ==
  {[Base EXCEPT !.lines = ls, !.tipo = k[1], !.rate = k[2],
                !.ref = IF k[1] = 34 THEN "E31" ELSE "empty", !.code = IF k[1] = 34 THEN 1 ELSE None,
                !.retention = IF k[1] = 47 THEN [ITBIS |-> 0, ISR |-> 10] ELSE None] :
     ls \in Sequences3,
     k \in {<<32, None>>, <<32, 12345>>, <<34, None>>, <<34, 3333>>, <<46, 25417>>, <<47, None>>,
            <<47, 3333>>}}

\* Retentions over one to five lines.
ByRetention ==
  {[Base EXCEPT !.lines = ls, !.rate = r, !.tipo = t, !.retention = [ITBIS |-> a, ISR |-> b],
                !.ref = IF t = 33 THEN "B01" ELSE "empty", !.code = IF t = 33 THEN 3 ELSE None] :
     ls \in {<<a, b>> : a, b \in Goods}
              \cup {<<a, b, L(200, 10000, 150, 50, None)>> : a, b \in Goods}
              \cup {[n \in 1 .. 5 |-> L(100, 10000, 100, 0, None)]},
     r \in {None, 12345}, t \in {31, 33, 41, 47}, a \in {0, 2, 60, 61}, b \in {None, 0, 7}}

\* Totals: buckets at 18 and 16 per cent, exempt amounts, both and neither.
B(base, tax) == [base |-> base, tax |-> tax]

ByTotals ==
  {[Base EXCEPT !.lines = ls, !.rate = r, !.tipo = k[1], !.ref = k[2], !.code = k[3],
                !.buckets = b, !.exento = e, !.gravado = g, !.itbis = x, !.subtotal = s,
                !.total = s + x] :
     ls \in {<<L(100, 33300, 333, 0, None)>>,
             <<L(100, 33300, 333, 0, None), L(300, 0, 100, 0, None)>>,
             <<L(300, 11111, 0, 0, None), L(150, 6667, 100, 0, 4)>>},
     r \in {None, 12345, 25417},
     k \in {<<32, "empty", None>>, <<34, "E31", 1>>, <<34, "B13", 1>>, <<33, "9:6", 2>>},
     b \in {<<>>, (18 :> B(333, 60)), (16 :> B(433, 69)), (18 :> B(333, 60)) @@ (0 :> B(100, 0))},
     e \in {None, 100}, g \in {None, 333}, x \in {0, 60}, s \in {333, 433}}

\* Who buys, and what is modified.
Retained(t) == IF t = 41 THEN [ITBIS |-> 10, ISR |-> None] ELSE None

Types == {31, 32, 33, 34, 41, 43, 44, 45, 46, 47}

ByBuyers ==
  {[Base EXCEPT !.tipo = t, !.rnc = n, !.xid = x, !.total = y, !.retention = Retained(t),
                !.ref = IF t \in {33, 34} THEN f ELSE "empty",
                !.code = IF t \in {33, 34} THEN 1 ELSE None] :
     t \in Types, n \in {"empty", "rnc", "short", "mixed", "alpha"}, x \in {"empty", "blank", "id"},
     f \in {"E31", "E43", "9:6"}, y \in {393, 600}}

ByReferences ==
  {[Base EXCEPT !.tipo = t, !.ref = f, !.code = c, !.retention = Retained(t)] :
     t \in Types, f \in {"empty", "blank", "E31", "E43", "9:6", "10:17"}, c \in {None, 1, 4}}

\* Where a tolerance ends: a taxed amount less than the difference settled
\* against it, a price worked out for 1,300 units, a discount half a cent more
\* than its item, five thousandths at 12.00 and four at 100.00, 2,000 units at
\* 0.00005, a discount of half a cent on an item five cents off, lines worth
\* nothing at a total that is not, a total below its ITBIS, and buckets without
\* the amount they make up.
Corners ==
  {[Base EXCEPT !.tipo = t, !.rate = 10000, !.lines = <<L(100, 1, 0, 0, None)>>,
                !.buckets = (18 :> B(2, 0)), !.exento = 5, !.itbis = 0, !.total = 7,
                !.retention = IF t = 41 THEN [ITBIS |-> 0, ISR |-> None] ELSE None] : t \in {32, 41}}
  \cup {[Base EXCEPT !.lines = <<l>>] :
           l \in {L(130000, 0, 19, 0, None), L(100, 99950, 5, 1000, None), Fine(5, 1200000, 6, 0, None),
                 Fine(4, 10000000, 4, 2, None), Fine(2000000, 5, 0, 0, None)}}
  \cup {[Base EXCEPT !.lines = <<L(100000, 20, 205, 13, None), Fine(1000, -500, 0, 0, None)>>],
        [Base EXCEPT !.lines = <<L(100, 0, 0, 0, None)>>, !.itbis = 0, !.total = 0],
        [Base EXCEPT !.tipo = 32, !.total = 59]}
  \cup {[Base EXCEPT !.tipo = 32, !.buckets = (18 :> B(100, 18)), !.itbis = 18, !.total = x] :
           x \in {18, 118}}

Threads == Permutations(Thread)

Small == ByLines \cup ByRetention \cup ByTotals \cup ByBuyers \cup ByReferences \cup Corners
=============================================================================
