------------------------ MODULE HostedCompanyProofs ------------------------
(***************************************************************************)
(* The invoice a company issues: what CanonicalInvoice writes, for any set *)
(* of documents, and that a hosted company is made of its parts.           *)
(*                                                                         *)
(* InvoiceInv says what is known at each step of the building; Billed,     *)
(* Retained, Additive and Tallied add what a sum over the lines or the     *)
(* items comes to.  A sum is not an operator of the proofs but a function, *)
(* the partial sums, that is said to exist: a step adds to it, or changes  *)
(* it from one item on.  Where the model has the sum as a recursive        *)
(* function the two are shown equal, by least counterexample.              *)
(***************************************************************************)
EXTENDS HostedCompany, SequenceTheorems, WellFoundedInduction, TLAPS

-----------------------------------------------------------------------------
(* Money. *)

\* Rounded is the nearest integer.
LEMMA RoundedNear ==
  ASSUME NEW a \in Nat, NEW b \in Nat \ {0}
  PROVE  /\ Rounded(a, b) \in Nat
         /\ 2 * (b * Rounded(a, b)) <= 2 * a + b
         /\ 2 * a < 2 * (b * Rounded(a, b)) + b
<1> DEFINE n == 2 * a + b
           m == 2 * b
           q == n \div m
<1>1. n \in Nat /\ m \in Nat /\ m > 0
  OBVIOUS
<1>2. \A x \in Nat, y \in Nat \ {0} : x \div y \in Nat /\ y * (x \div y) <= x /\ x < y * (x \div y) + y
  OBVIOUS
<1>3. q \in Nat /\ m * q <= n /\ n < m * q + m
  <2> HIDE DEF n, m
  <2> QED BY <1>1, <1>2
<1>4. m * q = 2 * (b * q)
  BY <1>3
<1>5. Rounded(a, b) = q
  BY DEF Rounded
<1> QED BY <1>3, <1>4, <1>5

LEMMA RoundedNat == ASSUME NEW a \in Nat, NEW b \in Nat \ {0} PROVE Rounded(a, b) \in Nat
BY RoundedNear

LEMMA RoundedInt ==
  ASSUME NEW a \in Int, NEW b \in Nat \ {0}
  PROVE  Rounded(a, b) \in Int
BY DEF Rounded

LEMMA Max0Nat == ASSUME NEW x \in Int PROVE Max0(x) \in Nat /\ Max0(x) >= x
BY DEF Max0

LEMMA RoundedNeg ==
  ASSUME NEW a \in Int, a < 0, NEW b \in Nat \ {0}
  PROVE  Rounded(a, b) = -Rounded(-a, b)
BY DEF Rounded

LEMMA PricedNat ==
  ASSUME NEW p \in Nat, NEW q \in Nat
  PROVE  Priced(p, q) \in Nat
<1>1. p * q \in Nat
  OBVIOUS
<1> QED BY <1>1, RoundedNear DEF Priced

LEMMA PricedInt ==
  ASSUME NEW p \in Int, NEW q \in Int
  PROVE  Priced(p, q) \in Int
<1>1. p * q \in Int
  OBVIOUS
<1> QED BY <1>1, RoundedInt DEF Priced

LEMMA AtRateNat ==
  ASSUME NEW x \in Nat, NEW r \in Nat
  PROVE  AtRate(x, r) \in Nat
<1>1. x * r \in Nat
  OBVIOUS
<1> QED BY <1>1, RoundedNear DEF AtRate

LEMMA AbsNat == ASSUME NEW x \in Int PROVE Abs(x) \in Nat
BY DEF Abs

-----------------------------------------------------------------------------
(* Types. *)

\* How far the builder is, and what it holds by then.
Stage ==
  /\ inv \in Invoices
  /\ step \notin {"validate", "refused"} => Valid
  /\ step \in {"validate", "refused"} => items = <<>>
  /\ step = "lines" => items \in Seq(Item)
  /\ step = "convert" =>
       /\ items # <<>> /\ i <= Len(items) + 1
       /\ \A n \in DOMAIN items : items[n] \in (IF n < i THEN ItemWritten ELSE Item)
  /\ step \in {"prorate", "write", "done"} =>
       items # <<>> /\ items \in Seq(ItemWritten) /\ i <= Len(items) + 1
  /\ step \in {"validate", "refused", "lines", "convert"} =>
       assigned = Zero
  /\ step \notin {"write", "done"} => read = [monto |-> 0, ret |-> Zero]

Typed == TypeOK /\ Stage

\* What is assumed of a document, and what has been checked.
LEMMA Documents ==
  ASSUME inv \in Invoices
  PROVE  /\ None \notin Int /\ None \notin Nat /\ 0 # None
         /\ inv.lines \in Seq(Line)
         /\ inv.rate \in Int \cup {None}
         /\ inv.total \in Int /\ inv.subtotal \in Int /\ inv.itbis \in Int
         /\ inv.exento \in Nat \cup {None} /\ inv.gravado \in Nat \cup {None}
         /\ Or0(inv.exento) \in Nat /\ Or0(inv.gravado) \in Nat
         /\ \A r \in DOMAIN inv.buckets : inv.buckets[r].base \in Nat /\ inv.buckets[r].tax \in Nat
         /\ inv.retention # None => inv.retention \in [Tax -> Nat \cup {None}]
<1>1. /\ None \notin Int
      /\ inv.lines \in Seq(Line) /\ inv.rate \in Int \cup {None}
      /\ {inv.total, inv.subtotal, inv.itbis} \subseteq Int
      /\ {inv.exento, inv.gravado} \subseteq Nat \cup {None}
      /\ \A r \in DOMAIN inv.buckets : {inv.buckets[r].base, inv.buckets[r].tax} \subseteq Nat
      /\ inv.retention # None => inv.retention \in [Tax -> Nat \cup {None}]
  BY InvoiceAssumption
<1> QED BY <1>1 DEF Or0

LEMMA RateNat ==
  ASSUME inv \in Invoices, Valid
  PROVE  Rate \in Nat \ {0}
BY Documents, SMT DEF Valid, Foreign, Rate

\* A line that has been checked.
GoodLine == {l \in Line : l.qty >= 0 /\ l.disc >= 0}

LEMMA LinesChecked ==
  ASSUME inv \in Invoices, Valid
  PROVE  Len(inv.lines) \in Nat /\ \A n \in DOMAIN inv.lines : inv.lines[n] \in GoodLine
<1>1. inv.lines \in Seq(Line)
  BY Documents
<1>2. \A n \in DOMAIN inv.lines : inv.lines[n].qty >= 0 /\ inv.lines[n].disc >= 0
  BY SMT DEF Valid, GoodLines
<1>3. \A n \in DOMAIN inv.lines : inv.lines[n] \in Line
  BY <1>1
<1> QED BY <1>1, <1>2, <1>3 DEF GoodLine

LEMMA LineFacts ==
  ASSUME NEW l \in GoodLine
  PROVE  /\ l.qty \in Nat /\ l.disc \in Nat /\ l.price \in Int /\ l.amount \in Int
         /\ Qty(l) \in Nat \ {0} /\ Price(l) \in Int
         /\ l.ret \in [Tax -> Nat \cup {None}]
<1>1. /\ l.qty \in Nat /\ l.disc \in Nat /\ l.price \in Int /\ l.amount \in Int
      /\ l.ret \in [Tax -> Nat \cup {None}]
  BY DEF GoodLine, Line
<1>2. Qty(l) \in Nat \ {0} /\ Price(l) \in Int
  BY <1>1 DEF Qty, Price
<1> QED BY <1>1, <1>2

LEMMA ProductFacts ==
  ASSUME NEW l \in GoodLine
  PROVE  /\ Product(l) \in Int /\ Discount(l) \in Nat
         /\ Price(l) >= 0 => Product(l) \in Nat
<1>1. l.amount \in Int /\ Qty(l) \in Nat \ {0} /\ Price(l) \in Int
  BY LineFacts
<1>2. Price(l) * Qty(l) \in Int /\ (Price(l) >= 0 => Price(l) * Qty(l) \in Nat)
  <2>1. \A p \in Int, q \in Nat : p * q \in Int /\ (p >= 0 => p * q \in Nat)
    OBVIOUS
  <2> QED BY <1>1, <2>1
<1>3. Unit \in Nat \ {0}
  BY DEF Unit
<1>4. Product(l) \in Int /\ (Price(l) >= 0 => Product(l) \in Nat)
  BY <1>2, <1>3, RoundedInt, RoundedNear DEF Product
<1>5. Abs(l.amount) * Unit \in Nat /\ Abs(Price(l) * Qty(l)) \in Nat
  BY <1>1, <1>2, AbsNat DEF Unit
<1> QED BY <1>4, <1>5 DEF Discount

LEMMA SafeFacts ==
  ASSUME NEW l \in GoodLine
  PROVE  SafePrice(l) \in Nat /\ SafeAmount(l) \in Nat /\ SafeQty(l) \in Nat
<1>1. l.amount \in Int /\ Qty(l) \in Nat \ {0} /\ Price(l) \in Int
  BY LineFacts
<1>2. SafeQty(l) \in Nat
  BY <1>1, RoundedNear DEF SafeQty
<1>3. SafeAmount(l) \in Nat
  BY <1>1, ProductFacts, Max0Nat DEF SafeAmount
<1>4. Max0(Rounded(Price(l), 10)) \in Nat
  <2>1. Rounded(Price(l), 10) \in Int
    BY <1>1, RoundedInt
  <2> QED BY <2>1, Max0Nat
<1>5. ASSUME l.amount > 0 PROVE Rounded(l.amount * 100000, Qty(l)) \in Nat
  <2>1. PICK a \in Nat : a = l.amount * 100000
    BY <1>1, <1>5
  <2> QED BY <1>1, <2>1, RoundedNat
<1> QED BY <1>2, <1>3, <1>4, <1>5 DEF SafePrice

\* The three fields an item's discount decides.
LEMMA DiscountedType ==
  ASSUME NEW price \in Nat, NEW qty \in Nat, NEW amount \in Nat, NEW d \in Nat
  PROVE  Discounted(price, qty, amount, d) \in [price : Nat, disc : Nat, monto : Nat]
<1> DEFINE net == Rounded(price * qty - d * 10000, 10000)
           gross2 == 100 * Rounded((amount + d) * 100, qty)
           gross4 == Rounded((amount + d) * 10000, qty)
<1>1. net \in Int
  <2>1. price * qty - d * 10000 \in Int
    OBVIOUS
  <2> QED BY <2>1, RoundedInt
<1>2. qty > 0 => gross2 \in Nat
  <2>1. (amount + d) * 100 \in Nat
    OBVIOUS
  <2>2. qty > 0 => Rounded((amount + d) * 100, qty) \in Nat
    BY <2>1, RoundedNear
  <2> QED BY <2>2
<1>3. qty > 0 => gross4 \in Nat
  <2>1. (amount + d) * 10000 \in Nat
    OBVIOUS
  <2> QED BY <2>1, RoundedNear
<1>4. Max0(net) \in Nat
  BY <1>1, Max0Nat
<1> HIDE DEF net, gross2, gross4
<1>5. \/ Discounted(price, qty, amount, d)
           \in {[price |-> price, disc |-> d, monto |-> Max0(net)],
                [price |-> price, disc |-> 0, monto |-> amount]}
      \/ /\ qty > 0
         /\ Discounted(price, qty, amount, d)
              \in {[price |-> gross2, disc |-> d, monto |-> amount],
                   [price |-> gross4, disc |-> d, monto |-> amount]}
  BY SMT DEF Discounted, net, gross2, gross4
<1> QED BY <1>2, <1>3, <1>4, <1>5

LEMMA PlainType ==
  ASSUME NEW price \in Nat, NEW qty \in Nat, NEW amount \in Nat
  PROVE  Plain(price, qty, amount) \in [price : Nat, disc : Nat, monto : Nat]
<1>1. Priced(price, qty) \in Nat
  BY PricedNat
<1> QED BY <1>1 DEF Plain

LEMMA FoldedType ==
  ASSUME NEW item \in Item, NEW d \in Nat
  PROVE  /\ Folded(item, d) \in Item
         /\ Folded(item, d).ret = item.ret /\ Folded(item, d).explicit = item.explicit
         /\ Folded(item, d).price = item.price /\ Folded(item, d).qty = item.qty
         /\ Folded(item, d).disc = Rounded(item.disc * Unit + d, Unit)
         /\ Folded(item, d).monto = Max0(Rounded(item.monto * Unit - d, Unit))
<1>1. item.monto * Unit - d \in Int /\ item.disc * Unit + d \in Nat /\ Unit \in Nat \ {0}
  BY DEF Item, Unit
<1>2. Rounded(item.monto * Unit - d, Unit) \in Int /\ Rounded(item.disc * Unit + d, Unit) \in Nat
  BY <1>1, RoundedInt, RoundedNear
<1>3. Max0(Rounded(item.monto * Unit - d, Unit)) \in Nat
  BY <1>2, Max0Nat
<1> QED BY <1>2, <1>3 DEF Folded, Item

LEMMA IndicadorType ==
  ASSUME NEW l \in GoodLine
  PROVE  Indicador(l) \in 0 .. 4 /\ Explicit(l) \in BOOLEAN
BY DEF Indicador, Explicit

LEMMA NewItemType ==
  ASSUME NEW l \in GoodLine
  PROVE  NewItem(l) \in Item /\ NewItem(l).ret = l.ret
<1> DEFINE f == IF l.disc > 0
                THEN Discounted(SafePrice(l), SafeQty(l), SafeAmount(l), l.disc)
                ELSE Plain(SafePrice(l), SafeQty(l), SafeAmount(l))
<1>1. f \in [price : Nat, disc : Nat, monto : Nat]
  BY LineFacts, SafeFacts, DiscountedType, PlainType
<1>2. NewItem(l)
        = [qty |-> SafeQty(l), price |-> f.price, disc |-> f.disc, monto |-> f.monto,
           ind |-> Indicador(l), explicit |-> Explicit(l), ret |-> l.ret]
  BY DEF NewItem
<1> HIDE DEF f
<1> QED BY <1>1, <1>2, LineFacts, SafeFacts, IndicadorType DEF Item

\* A line is folded into the last item, dropped, or made an item of.
LEMMA TakenInCases ==
  ASSUME items \in Seq(Item), NEW l \in GoodLine
  PROVE  /\ TakenIn(l) \in Seq(Item)
         /\ \/ /\ Negative(l) /\ items # <<>>
               /\ Len(TakenIn(l)) = Len(items) /\ Len(items) \in DOMAIN items
               /\ \A n \in DOMAIN items :
                    TakenIn(l)[n] = IF n = Len(items) THEN Folded(items[n], Discount(l)) ELSE items[n]
            \/ /\ ~(Negative(l) /\ items # <<>>)
               /\ Worthless(l) /\ TakenIn(l) = items
            \/ /\ ~(Negative(l) /\ items # <<>>)
               /\ ~Worthless(l) /\ TakenIn(l) = Append(items, NewItem(l))
<1> DEFINE last == Len(items)
           folded == [items EXCEPT ![last] = Folded(@, Discount(l))]
<1>1. CASE Negative(l) /\ items # <<>>
  <2>1. last \in DOMAIN items /\ items[last] \in Item
    BY <1>1, EmptySeq, LenProperties
  <2>2. Folded(items[last], Discount(l)) \in Item
    BY <2>1, ProductFacts, FoldedType
  <2>3. TakenIn(l) = folded
    BY <1>1 DEF TakenIn
  <2>4. folded \in Seq(Item) /\ Len(folded) = last
    BY <2>1, <2>2, ExceptSeq
  <2>5. \A n \in DOMAIN items :
          folded[n] = IF n = last THEN Folded(items[n], Discount(l)) ELSE items[n]
    BY <2>1
  <2> HIDE DEF folded
  <2> QED BY <1>1, <2>1, <2>3, <2>4, <2>5
<1>2. CASE ~(Negative(l) /\ items # <<>>) /\ Worthless(l)
  BY <1>2 DEF TakenIn
<1>3. CASE ~(Negative(l) /\ items # <<>>) /\ ~Worthless(l)
  <2>1. TakenIn(l) = Append(items, NewItem(l))
    BY <1>3 DEF TakenIn
  <2> QED BY <1>3, <2>1, NewItemType, AppendProperties
<1> QED BY <1>1, <1>2, <1>3

LEMMA EffectiveType ==
  ASSUME NEW item \in Item
  PROVE  EffectiveIndicador(item) \in 0 .. 4
<1>1. DefaultIndicador \in 0 .. 4
  BY DEF DefaultIndicador
<1>2. item.ind \in 0 .. 4
  BY DEF Item
<1> QED BY <1>1, <1>2 DEF EffectiveIndicador

LEMMA InPesosType ==
  ASSUME NEW item \in Item, NEW r \in Nat, Rate = r
  PROVE  InPesos(item) \in [price : Nat, disc : Nat, monto : Nat]
<1> DEFINE s == ShownDiscount(item)
           d == AtRate(s, r)
           whole == AtRate(item.monto, r)
           unit == AtRate(item.price, r)
           m == Max0(Priced(unit, item.qty) - d)
<1>1. item.qty \in Nat /\ item.price \in Nat /\ item.disc \in Nat /\ item.monto \in Nat
  BY DEF Item
<1>2. s \in Nat
  BY <1>1 DEF ShownDiscount
<1>3. d \in Nat /\ whole \in Nat /\ unit \in Nat
  BY <1>1, <1>2, AtRateNat
<1>4. m \in Nat
  <2> HIDE DEF d, unit
  <2>1. Priced(unit, item.qty) \in Nat
    BY <1>1, <1>3, PricedNat
  <2> QED BY <1>3, <2>1, Max0Nat
<1>5. InPesos(item) \in {[price |-> item.price, disc |-> s, monto |-> item.monto],
                         [price |-> whole * 100, disc |-> 0, monto |-> whole],
                         [price |-> unit, disc |-> d, monto |-> m]}
  BY DEF InPesos
<1> HIDE DEF s, d, whole, unit, m
<1> QED BY <1>1, <1>2, <1>3, <1>4, <1>5

LEMMA ConvertedType ==
  ASSUME inv \in Invoices, Valid, NEW item \in Item
  PROVE  /\ Converted(item) \in ItemWritten
         /\ Converted(item).monto = InPesos(item).monto
         /\ Converted(item).price = InPesos(item).price
         /\ Converted(item).disc = InPesos(item).disc
         /\ Converted(item).qty = item.qty
         /\ Converted(item).otra = item.monto
         /\ Converted(item).explicit = item.explicit
         /\ Converted(item).ret = [k \in Tax |-> IF item.ret[k] = None THEN None ELSE AtRate(item.ret[k], Rate)]
<1>1. Rate \in Nat
  BY RateNat
<1>2. InPesos(item) \in [price : Nat, disc : Nat, monto : Nat]
  BY <1>1, InPesosType
<1> DEFINE ret == [k \in Tax |-> IF item.ret[k] = None THEN None ELSE AtRate(item.ret[k], Rate)]
           p == InPesos(item)
           e == EffectiveIndicador(item)
<1>3. ret \in [Tax -> Int \cup {None}]
  <2>1. item.ret \in [Tax -> Nat \cup {None}]
    BY DEF Item
  <2>2. \A k \in Tax : item.ret[k] # None => AtRate(item.ret[k], Rate) \in Nat
    BY <2>1, <1>1, AtRateNat
  <2> QED BY <2>2
<1>4. e \in 0 .. 4
  BY EffectiveType
<1>5. Converted(item) = [qty |-> item.qty, price |-> p.price, disc |-> p.disc, monto |-> p.monto,
                         otra |-> item.monto, ind |-> e, explicit |-> item.explicit, ret |-> ret]
  BY DEF Converted
<1>6. item.qty \in Nat /\ item.monto \in Nat /\ item.explicit \in BOOLEAN
  BY DEF Item
<1> HIDE DEF ret, p, e
<1>7. p \in [price : Nat, disc : Nat, monto : Nat] /\ p = InPesos(item)
  BY <1>2 DEF p
<1>8. ret = [k \in Tax |-> IF item.ret[k] = None THEN None ELSE AtRate(item.ret[k], Rate)]
  BY DEF ret
<1> QED BY <1>3, <1>4, <1>5, <1>6, <1>7, <1>8 DEF ItemWritten

-----------------------------------------------------------------------------
(* Totals. *)

Amounts == [Slot -> Int \cup {None}]

\* What the taxed amounts come to.
Taxable(base) == Or0(base[1]) + Or0(base[2]) + Or0(base[3])

LEMMA Or0Int == ASSUME NEW x \in Int \cup {None} PROVE Or0(x) \in Int
BY DEF Or0

LEMMA TaxableInt == ASSUME NEW base \in Amounts PROVE Taxable(base) \in Int
<1>1. base[1] \in Int \cup {None} /\ base[2] \in Int \cup {None} /\ base[3] \in Int \cup {None}
  BY DEF Amounts, Slot
<1>2. Or0(base[1]) \in Int /\ Or0(base[2]) \in Int /\ Or0(base[3]) \in Int
  BY <1>1, Or0Int
<1> QED BY <1>2 DEF Taxable

LEMMA TaxOfType == ASSUME NEW base \in Amounts PROVE TaxOf(base) \in Amounts
<1>1. ASSUME NEW s \in Slot, base[s] # None PROVE Rounded(base[s] * RateOf[s], 100) \in Int
  <2>1. base[s] \in Int
    BY <1>1 DEF Amounts
  <2>2. RateOf[s] \in Int
    BY DEF RateOf, Slot
  <2>3. base[s] * RateOf[s] \in Int
    BY <2>1, <2>2
  <2> QED BY <2>3, RoundedInt
<1> QED BY <1>1 DEF TaxOf, Amounts

LEMMA SummedFacts ==
  ASSUME NEW base \in Amounts, NEW tax \in Amounts, NEW exento \in Int
  PROVE  LET t == Summed(base, tax, exento)
         IN /\ t.gravado = Taxable(base) /\ t.exento = exento /\ t.itbis = Taxable(tax)
            /\ t.gravado \in Int /\ t.itbis \in Int
            /\ t.total = t.gravado + t.exento + t.itbis
<1>1. Taxable(base) \in Int /\ Taxable(tax) \in Int
  BY TaxableInt
<1> QED BY <1>1 DEF Summed, Taxable

LEMMA ShownNat ==
  ASSUME TypeOK, NEW c \in {"dop", "otra"}
  PROVE  ShownItems(c) \in Nat /\ \A s \in 0 .. 4 : sum[s][c] \in Nat
<1>1. \A s \in 0 .. 4 : sum[s][c] \in Nat
  BY DEF TypeOK
<1>2. 1 \in 0 .. 4 /\ 2 \in 0 .. 4 /\ 3 \in 0 .. 4 /\ 4 \in 0 .. 4
  OBVIOUS
<1> QED BY <1>1, <1>2 DEF ShownItems

\* What settling leaves: no difference, or one of more than ten cents.
LEMMA SettledFacts ==
  ASSUME NEW base \in [Slot -> Nat \cup {None}], NEW exento \in Nat, ShownItems("dop") \in Nat,
         None \notin Int, inv.buckets = <<>> => base[1] # None
  PROVE  LET s == Settled(base, exento)
             rest == ShownItems("dop") - (Taxable(s.base) + s.exento)
         IN /\ s.base \in Amounts /\ s.exento \in Int
            /\ Taxable(s.base) + s.exento >= 0
            /\ rest = 0 \/ Abs(rest) > 10 \/ Taxable(s.base) + s.exento = 0
<1> DEFINE shown == ShownItems("dop")
           diff == shown - (Taxable(base) + exento)
           first == FirstSlot(base)
           added == [s \in Slot |-> IF s \in first THEN base[s] + diff ELSE base[s]]
<1>1. /\ base[1] \in Nat \cup {None} /\ base[2] \in Nat \cup {None} /\ base[3] \in Nat \cup {None}
      /\ base \in Amounts
  BY DEF Slot, Amounts
<1>2. Or0(base[1]) \in Nat /\ Or0(base[2]) \in Nat /\ Or0(base[3]) \in Nat
  BY <1>1 DEF Or0
<1>3. Taxable(base) \in Nat /\ diff \in Int /\ shown \in Nat
  BY <1>2 DEF Taxable
<1>4. Settled(base, exento) =
        IF Abs(diff) > 10 THEN [base |-> base, exento |-> exento]
        ELSE [base |-> added, exento |-> IF first = {} /\ exento > 0 THEN exento + diff ELSE exento]
  BY DEF Settled, Taxable
<1>5. \/ first = {1} /\ base[1] \in Nat
      \/ first = {2} /\ base[2] \in Nat
      \/ first = {3} /\ base[3] \in Nat
      \/ first = {} /\ Taxable(base) = 0
  <2>1. CASE inv.buckets = <<>>
    BY <2>1, <1>1 DEF FirstSlot
  <2>2. CASE inv.buckets # <<>>
    <3>1. first = {s \in Slot : Or0(base[s]) > 0 /\ \A r \in Slot : r < s => Or0(base[r]) = 0}
      BY <2>2 DEF FirstSlot
    <3>2. Slot = {1, 2, 3}
      BY DEF Slot
    <3>3. CASE Or0(base[1]) > 0
      <4>1. base[1] \in Nat
        BY <3>3, <1>1 DEF Or0
      <4>2. first = {1}
        BY <3>1, <3>2, <3>3, <1>2
      <4> QED BY <4>1, <4>2
    <3>4. CASE Or0(base[1]) = 0 /\ Or0(base[2]) > 0
      <4>1. base[2] \in Nat
        BY <3>4, <1>1 DEF Or0
      <4>2. first = {2}
        BY <3>1, <3>2, <3>4, <1>2
      <4> QED BY <4>1, <4>2
    <3>5. CASE Or0(base[1]) = 0 /\ Or0(base[2]) = 0 /\ Or0(base[3]) > 0
      <4>1. base[3] \in Nat
        BY <3>5, <1>1 DEF Or0
      <4>2. first = {3}
        BY <3>1, <3>2, <3>5, <1>2
      <4> QED BY <4>1, <4>2
    <3>6. CASE Or0(base[1]) = 0 /\ Or0(base[2]) = 0 /\ Or0(base[3]) = 0
      <4>1. first = {}
        BY <3>1, <3>2, <3>6
      <4> QED BY <4>1, <3>6 DEF Taxable
    <3> QED BY <3>3, <3>4, <3>5, <3>6, <1>2
  <2> QED BY <2>1, <2>2
<1>6. /\ added[1] = (IF 1 \in first THEN base[1] + diff ELSE base[1])
      /\ added[2] = (IF 2 \in first THEN base[2] + diff ELSE base[2])
      /\ added[3] = (IF 3 \in first THEN base[3] + diff ELSE base[3])
  BY DEF Slot
<1> HIDE DEF diff, first, added, shown
<1>7. CASE Abs(diff) > 10
  <2>1. /\ Settled(base, exento).base = base /\ Settled(base, exento).exento = exento
        /\ diff = shown - (Taxable(base) + exento)
    BY <1>4, <1>7 DEF diff
  <2> QED BY <2>1, <1>1, <1>3, <1>7 DEF shown
<1>8. CASE ~(Abs(diff) > 10) /\ first # {}
  <2>1. /\ Settled(base, exento).base = added /\ Settled(base, exento).exento = exento
        /\ diff = shown - (Taxable(base) + exento)
    BY <1>4, <1>8 DEF diff
  <2>2. added \in Amounts
    BY <1>1, <1>3, <1>5, <1>8 DEF added, Amounts, Slot
  <2>3. Taxable(added) = Taxable(base) + diff
    <3>1. CASE first = {1} /\ base[1] \in Nat
      BY SMTT(30), <3>1, <1>1, <1>2, <1>3, <1>6 DEF Taxable, Or0
    <3>2. CASE first = {2} /\ base[2] \in Nat
      BY SMTT(30), <3>2, <1>1, <1>2, <1>3, <1>6 DEF Taxable, Or0
    <3>3. CASE first = {3} /\ base[3] \in Nat
      BY SMTT(30), <3>3, <1>1, <1>2, <1>3, <1>6 DEF Taxable, Or0
    <3> QED BY <3>1, <3>2, <3>3, <1>5, <1>8
  <2> QED BY <2>1, <2>2, <2>3, <1>3 DEF shown
<1>9. CASE ~(Abs(diff) > 10) /\ first = {}
  <2>1. /\ Settled(base, exento).base = added
        /\ Settled(base, exento).exento = IF exento > 0 THEN exento + diff ELSE exento
        /\ diff = shown - (Taxable(base) + exento)
    BY <1>4, <1>9 DEF diff
  <2>2. added = base
    BY <1>9 DEF added
  <2>3. Taxable(base) = 0
    BY <1>5, <1>9
  <2> QED BY <2>1, <2>2, <2>3, <1>1, <1>3 DEF shown
<1> QED BY <1>7, <1>8, <1>9

\* The amounts the document is taken to have, in pesos.
TotalsHold(t) ==
  LET rest == ShownItems("dop") - (t.gravado + t.exento)
  IN /\ Foreign =>
          /\ t.gravado \in Int /\ t.exento \in Int /\ t.itbis \in Int
          /\ t.gravado + t.exento >= 0
          /\ t.total = t.gravado + t.exento + t.itbis
          /\ rest = 0 \/ (Abs(rest) > 10 /\ ~FromLines) \/ t.gravado + t.exento = 0
     /\ ~Foreign /\ inv.tipo = 32 =>
          t.total = inv.total /\ t.itbis = IF PurelyExempt THEN 0 ELSE inv.itbis

\* An indicator no item has comes to nothing.
UnusedIsZero ==
  \A s \in 0 .. 4 : (\A n \in DOMAIN items : items[n].ind # s) => sum[s].dop = 0

LEMMA FromErpHolds ==
  ASSUME TypeOK, inv \in Invoices, Foreign, ~FromLines,
         NEW base \in [Slot -> Nat \cup {None}], NEW tax, NEW exento \in Nat, Rate \in Nat,
         inv.buckets = <<>> => base[1] # None
  PROVE  TotalsHold(FromErp(base, tax, exento).dop)
<1> DEFINE b == [k \in Slot |-> IF base[k] = None THEN None ELSE AtRate(base[k], Rate)]
           e == AtRate(exento, Rate)
           s == Settled(b, e)
           t == Summed(s.base, TaxOf(s.base), s.exento)
<1>1. None \notin Int
  BY Documents
<1>2. b \in [Slot -> Nat \cup {None}]
  <2>1. \A k \in Slot : base[k] # None => AtRate(base[k], Rate) \in Nat
    BY AtRateNat
  <2> QED BY <2>1
<1>3. e \in Nat
  BY AtRateNat
<1>4. inv.buckets = <<>> => b[1] # None
  <2>1. 1 \in Slot
    BY DEF Slot
  <2>2. base[1] # None => AtRate(base[1], Rate) \in Nat
    BY <2>1, AtRateNat
  <2> QED BY <2>1, <2>2, <1>1
<1>5. ShownItems("dop") \in Nat
  BY ShownNat
<1>6. FromErp(base, tax, exento).dop = t
  BY DEF FromErp
<1> HIDE DEF b, e
<1>7. LET rest == ShownItems("dop") - (Taxable(s.base) + s.exento)
      IN /\ s.base \in Amounts /\ s.exento \in Int
         /\ Taxable(s.base) + s.exento >= 0
         /\ rest = 0 \/ Abs(rest) > 10 \/ Taxable(s.base) + s.exento = 0
  BY <1>1, <1>2, <1>3, <1>4, <1>5, SettledFacts
<1> HIDE DEF s
<1>8. /\ t.gravado = Taxable(s.base) /\ t.exento = s.exento
      /\ t.gravado \in Int /\ t.itbis \in Int
      /\ t.total = t.gravado + t.exento + t.itbis
  BY <1>7, TaxOfType, SummedFacts
<1> HIDE DEF t
<1> QED BY <1>6, <1>7, <1>8 DEF TotalsHold

LEMMA FromItemsHolds ==
  ASSUME TypeOK, inv \in Invoices, Foreign, UnusedIsZero
  PROVE  TotalsHold(FromItems.dop)
<1> DEFINE b == [s \in Slot |-> IF \E n \in DOMAIN items : items[n].ind = s
                                THEN sum[s]["dop"] ELSE None]
           t == Summed(b, TaxOf(b), sum[4]["dop"])
<1>1. None \notin Int
  BY Documents
<1>2. /\ \A s \in 0 .. 4 : sum[s]["dop"] \in Nat
      /\ 1 \in 0 .. 4 /\ 2 \in 0 .. 4 /\ 3 \in 0 .. 4 /\ 4 \in 0 .. 4
  BY ShownNat
<1>3. b \in Amounts
  BY <1>2 DEF Amounts, Slot
<1>4. \A s \in Slot : Or0(b[s]) = sum[s]["dop"]
  <2> SUFFICES ASSUME NEW s \in Slot PROVE Or0(b[s]) = sum[s]["dop"]
    OBVIOUS
  <2>1. s \in 0 .. 4
    BY DEF Slot
  <2>2. CASE \E n \in DOMAIN items : items[n].ind = s
    BY <2>1, <2>2, <1>1, <1>2 DEF Or0
  <2>3. CASE ~\E n \in DOMAIN items : items[n].ind = s
    BY <2>1, <2>3 DEF Or0, UnusedIsZero
  <2> QED BY <2>2, <2>3
<1>5. Taxable(b) + sum[4]["dop"] = ShownItems("dop")
  <2>1. 1 \in Slot /\ 2 \in Slot /\ 3 \in Slot
    BY DEF Slot
  <2> HIDE DEF b
  <2> QED BY <1>4, <2>1, <1>2 DEF Taxable, ShownItems
<1>6. FromItems.dop = t
  BY DEF FromItems
<1> HIDE DEF b
<1>7. /\ t.gravado = Taxable(b) /\ t.exento = sum[4]["dop"]
      /\ t.gravado \in Int /\ t.itbis \in Int
      /\ t.total = t.gravado + t.exento + t.itbis
  BY <1>2, <1>3, TaxOfType, SummedFacts
<1>8. ShownItems("dop") \in Nat
  BY ShownNat
<1> HIDE DEF t
<1> QED BY <1>2, <1>5, <1>6, <1>7, <1>8 DEF TotalsHold

LEMMA OneAmountFacts ==
  ASSUME NEW x \in Int
  PROVE  LET t == OneAmount(x)
         IN /\ t.gravado \in Int /\ t.exento \in Int /\ t.itbis = 0 /\ t.total = x
            /\ t.gravado + t.exento = x
BY DEF OneAmount

LEMMA BucketType ==
  ASSUME inv \in Invoices, NEW f \in {"base", "tax"}
  PROVE  Bucket(f) \in [Slot -> Nat \cup {None}]
<1>1. \A r \in DOMAIN inv.buckets : inv.buckets[r][f] \in Nat
  BY Documents
<1> QED BY <1>1 DEF Bucket

LEMMA TotalsFacts ==
  ASSUME TypeOK, inv \in Invoices, Valid, UnusedIsZero
  PROVE  TotalsHold(Totals.dop)
<1>1. CASE ~Foreign
  <2>1. inv.tipo = 32 => Totals.dop = OwnTotals
    BY <1>1 DEF Totals
  <2>2. inv.tipo = 32 => OwnTotals.total = inv.total
                         /\ OwnTotals.itbis = IF PurelyExempt THEN 0 ELSE inv.itbis
    BY DEF OwnTotals
  <2> QED BY <1>1, <2>1, <2>2 DEF TotalsHold
<1>2. CASE Foreign /\ inv.tipo \in {43, 44, 46, 47}
  <2>1. Totals.dop = OneAmount(ShownItems("dop"))
    BY <1>2 DEF Totals
  <2>2. ShownItems("dop") \in Nat
    BY ShownNat
  <2> QED BY <1>2, <2>1, <2>2, OneAmountFacts DEF TotalsHold
<1>3. CASE Foreign /\ inv.tipo \notin {43, 44, 46, 47}
  <2>1. Rate \in Nat
    BY RateNat
  <2>2. CASE ~FromLines /\ inv.buckets # <<>> /\ ~PurelyExempt
    <3>1. Totals = FromErp(Bucket("base"), Bucket("tax"), Or0(inv.exento))
      BY <1>3, <2>2 DEF Totals
    <3> QED BY <1>3, <2>1, <2>2, <3>1, FromErpHolds, BucketType, Documents
  <2>3. CASE /\ ~(~FromLines /\ inv.buckets # <<>> /\ ~PurelyExempt)
             /\ ~FromLines /\ ~PurelyExempt /\ Or0(inv.exento) > 0 /\ Or0(inv.gravado) > 0
    <3>1. Totals = FromErp(Only(1, inv.gravado), Only(1, inv.itbis), inv.exento)
      BY <1>3, <2>3 DEF Totals
    <3>2. /\ None \notin Int /\ inv.exento \in Nat \cup {None} /\ inv.gravado \in Nat \cup {None}
          /\ inv.gravado # None /\ inv.exento # None
      BY <2>3, Documents DEF Or0
    <3>3. Only(1, inv.gravado) \in [Slot -> Nat \cup {None}] /\ Only(1, inv.gravado)[1] # None
      BY <3>2 DEF Only, NoSlots, Slot
    <3> QED BY <1>3, <2>1, <2>3, <3>1, <3>2, <3>3, FromErpHolds
  <2>4. CASE /\ ~(~FromLines /\ inv.buckets # <<>> /\ ~PurelyExempt)
             /\ ~(~FromLines /\ ~PurelyExempt /\ Or0(inv.exento) > 0 /\ Or0(inv.gravado) > 0)
    <3>1. Totals = FromItems
      BY <1>3, <2>4 DEF Totals
    <3> QED BY <1>3, <3>1, FromItemsHolds
  <2> QED BY <2>2, <2>3, <2>4
<1> QED BY <1>1, <1>2, <1>3

-----------------------------------------------------------------------------
(* The document stays as it came, and so does all that is read from it. *)

LEMMA SameDocument ==
  ASSUME inv' = inv
  PROVE  /\ Valid' <=> Valid
         /\ Foreign' <=> Foreign
         /\ Rate' = Rate
         /\ PurelyExempt' <=> PurelyExempt
         /\ Withheld' = Withheld
         /\ Reference' = Reference
         /\ HasReference' <=> HasReference
         /\ Buyer' = Buyer
<1>1. (Debit' <=> Debit) /\ (Foreign' <=> Foreign) /\ Rate' = Rate /\ Reference' = Reference
  BY SMT DEF Debit, Foreign, Rate, Reference
<1>2. /\ ModifiesGastosMenores' <=> ModifiesGastosMenores
      /\ ModifiesExport' <=> ModifiesExport
  BY <1>1, SMT DEF ModifiesGastosMenores, ModifiesExport
<1>3. PurelyExempt' <=> PurelyExempt
  BY <1>1, <1>2, SMT DEF PurelyExempt, Taxed
<1>4. Withheld' = Withheld
  BY <1>1, SMT DEF Withheld
<1>5. (GoodLines' <=> GoodLines) /\ (GoodReference' <=> GoodReference) /\ (GoodBuyer' <=> GoodBuyer)
  <2>1. GoodLines' <=> GoodLines
    BY SMT DEF GoodLines
  <2>2. GoodReference' <=> GoodReference
    BY <1>1, SMT DEF GoodReference, Debit
  <2>3. GoodBuyer' <=> GoodBuyer
    BY <1>1, SMT DEF GoodBuyer
  <2> QED BY <2>1, <2>2, <2>3
<1>6. Valid' <=> Valid
  BY <1>1, <1>5, SMT DEF Valid
<1>7. HasReference' <=> HasReference
  BY <1>1, SMT DEF HasReference, Debit
<1>8. Buyer' = Buyer
  BY SMT DEF Buyer, ModifiesGastosMenores, ModifiesExport, Debit, Reference
<1> QED BY <1>1, <1>3, <1>4, <1>6, <1>7, <1>8

LEMMA WithheldType ==
  ASSUME inv \in Invoices, Valid
  PROVE  Withheld \in [Tax -> Nat \cup {None}] \cup {None}
<1> DEFINE pesos(x) == IF x = None THEN None ELSE AtRate(x, Rate)
<1>1. Rate \in Nat
  BY RateNat
<1>2. ASSUME inv.retention # None PROVE [k \in Tax |-> pesos(inv.retention[k])] \in [Tax -> Nat \cup {None}]
  <2>1. inv.retention \in [Tax -> Nat \cup {None}]
    BY <1>2, Documents
  <2>2. ASSUME NEW k \in Tax PROVE pesos(inv.retention[k]) \in Nat \cup {None}
    BY <2>1, <1>1, AtRateNat
  <2> QED BY <2>2
<1>3. [k \in Tax |-> IF k = "ISR" /\ inv.tipo = 41 THEN None ELSE 0] \in [Tax -> Nat \cup {None}]
  OBVIOUS
<1> QED BY <1>2, <1>3 DEF Withheld

\* withheld is the document's retention, or the whole converted ITBIS.
WithheldHolds ==
  /\ withheld = None <=> Withheld = None
  /\ withheld # None =>
       \A k \in Tax : withheld[k] = Withheld[k] \/ (Foreign /\ withheld[k] = totals.dop.itbis)

\* The sums are of the items converted so far.
Unused ==
  \A s \in 0 .. 4 :
    (\A n \in DOMAIN items : (step = "convert" => n < i) => items[n].ind # s) => sum[s].dop = 0

InvoiceInv ==
  /\ TypeOK
  /\ Stage
  /\ step \in {"validate", "refused", "lines"} => \A s \in 0 .. 4 : sum[s].dop = 0
  /\ step = "convert" => Unused /\ withheld = Withheld
  /\ step \in {"prorate", "write", "done"} =>
       Unused /\ TotalsHold(totals.dop) /\ WithheldHolds

LEMMA InvoiceInvInit == Init => InvoiceInv
BY DEF Init, InvoiceInv, TypeOK, Stage, Zero, Tax

LEMMA InvoiceInvValidate == ASSUME InvoiceInv, Validate PROVE InvoiceInv'
<1>1. inv' = inv /\ (Valid' <=> Valid)
  BY SameDocument DEF Validate
<1>2. step' \in {"lines", "refused"} /\ (step' = "lines" => Valid) /\ i' = 1
  BY DEF Validate, Goto
<1>3. items' = <<>> /\ items' \in Seq(Item)
  BY EmptySeq DEF Validate, InvoiceInv, Stage
<1>4. TypeOK' /\ Stage'
  BY <1>1, <1>2, <1>3 DEF Validate, InvoiceInv, TypeOK, Stage, Item, ItemWritten
<1> QED BY <1>2, <1>4 DEF Validate, InvoiceInv

LEMMA InvoiceInvTakeLine == ASSUME InvoiceInv, TakeLine PROVE InvoiceInv'
<1>1. inv' = inv /\ (Valid' <=> Valid)
  BY SameDocument DEF TakeLine
<1>2. items \in Seq(Item) /\ Valid /\ inv \in Invoices /\ i \in Nat \ {0} /\ i <= Len(inv.lines)
  BY DEF InvoiceInv, Stage, TypeOK, TakeLine
<1>3. inv.lines[i] \in GoodLine
  <2>1. i \in DOMAIN inv.lines
    BY <1>2, Documents
  <2> QED BY <1>2, <2>1, LinesChecked
<1>4. items' \in Seq(Item)
  BY <1>2, <1>3, TakenInCases DEF TakeLine
<1>5. items' \in Seq(Item \cup ItemWritten)
  BY <1>4, SeqMonotonic
<1>6. TypeOK'
  <2>1. i' \in Nat \ {0} /\ step' = step
    BY <1>2 DEF TakeLine
  <2>2. TypeOK /\ sum' = sum /\ withheld' = withheld /\ assigned' = assigned /\ read' = read
    BY DEF TakeLine, InvoiceInv
  <2> QED BY <1>5, <2>1, <2>2 DEF TypeOK
<1>7. Stage'
  BY <1>1, <1>4 DEF TakeLine, InvoiceInv, Stage
<1> QED BY <1>6, <1>7 DEF TakeLine, InvoiceInv

LEMMA GeneralItemType == ASSUME inv \in Invoices, Valid PROVE GeneralItem \in Item
<1>1. inv.total \in Nat /\ inv.subtotal \in Nat /\ inv.itbis \in Nat
  <2>1. inv.total >= 0 /\ inv.subtotal >= 0 /\ inv.itbis >= 0
    BY SMT DEF Valid
  <2> QED BY <2>1, Documents
<1>2. FallbackTotal \in Nat
  <2>1. Max0(inv.total - inv.itbis) \in Nat
    BY <1>1, Max0Nat
  <2> QED BY <1>1, <2>1 DEF FallbackTotal
<1>3. FallbackTotal * 100 \in Nat
  BY <1>2
<1> HIDE DEF FallbackTotal
<1> QED BY <1>2, <1>3 DEF GeneralItem, Item

LEMMA InvoiceInvEndLines == ASSUME InvoiceInv, EndLines PROVE InvoiceInv'
<1>1. inv' = inv /\ (Valid' <=> Valid) /\ Withheld' = Withheld
  BY SameDocument DEF EndLines
<1>2. items \in Seq(Item) /\ Valid /\ inv \in Invoices
  BY DEF InvoiceInv, Stage, EndLines
<1>3. items' \in Seq(Item) /\ items' # <<>>
  <2>1. CASE items = <<>>
    <3>1. items' = <<GeneralItem>>
      BY <2>1 DEF EndLines
    <3> QED BY <1>2, <3>1, GeneralItemType
  <2>2. CASE items # <<>>
    BY <2>2, <1>2 DEF EndLines
  <2> QED BY <2>1, <2>2
<1>4. Len(items') \in Nat /\ \A n \in DOMAIN items' : items'[n] \in Item /\ ~(n < 1)
  BY <1>3
<1>5. items' \in Seq(Item \cup ItemWritten)
  BY <1>3, SeqMonotonic
<1>6. withheld' \in [Tax -> Int \cup {None}] \cup {None}
  <2>1. [Tax -> Nat \cup {None}] \subseteq [Tax -> Int \cup {None}]
    OBVIOUS
  <2> QED BY <1>2, <2>1, WithheldType DEF EndLines
<1>7. step' = "convert" /\ i' = 1
  BY DEF EndLines, Goto
<1>8. TypeOK'
  <2>1. TypeOK /\ sum' = sum /\ assigned' = assigned /\ read' = read
    BY DEF EndLines, InvoiceInv
  <2> QED BY SMTT(30), <1>5, <1>6, <1>7, <2>1 DEF TypeOK
<1>9. Stage'
  BY <1>1, <1>2, <1>3, <1>4, <1>7 DEF EndLines, InvoiceInv, Stage
<1>10. Unused'
  BY DEF EndLines, InvoiceInv, Unused
<1> QED BY <1>1, <1>7, <1>8, <1>9, <1>10 DEF EndLines, InvoiceInv

LEMMA InvoiceInvConvertItem == ASSUME InvoiceInv, ConvertItem PROVE InvoiceInv'
<1> DEFINE c == Converted(items[i])
<1>1. inv' = inv /\ (Valid' <=> Valid) /\ Withheld' = Withheld
  BY SameDocument DEF ConvertItem
<1>2. /\ items \in Seq(Item \cup ItemWritten) /\ Valid /\ inv \in Invoices
      /\ i \in 1 .. Len(items) /\ Len(items) \in Nat
      /\ \A n \in DOMAIN items : items[n] \in (IF n < i THEN ItemWritten ELSE Item)
  BY DEF InvoiceInv, Stage, TypeOK, ConvertItem
<1>3. c \in ItemWritten
  <2>1. items[i] \in Item
    BY <1>2
  <2> QED BY <1>2, <2>1, ConvertedType
<1> HIDE DEF c
<1>4. items' = [items EXCEPT ![i] = c]
  BY DEF ConvertItem, c
<1>5. /\ items' \in Seq(Item \cup ItemWritten) /\ Len(items') = Len(items)
      /\ \A n \in 1 .. Len(items) : items'[n] = IF n = i THEN c ELSE items[n]
  BY <1>2, <1>3, <1>4, ExceptSeq
<1>6. \A n \in DOMAIN items' : items'[n] \in (IF n < i + 1 THEN ItemWritten ELSE Item)
  BY <1>2, <1>3, <1>5
<1>7. c.ind \in 0 .. 4 /\ c.monto \in Nat /\ c.otra \in Nat
  BY <1>3 DEF ItemWritten
<1>8. sum' = [sum EXCEPT ![c.ind] = [dop |-> @.dop + c.monto, otra |-> @.otra + c.otra]]
  BY DEF ConvertItem, c
<1>9. sum' \in [0 .. 4 -> [dop : Nat, otra : Nat]]
  <2>1. sum \in [0 .. 4 -> [dop : Nat, otra : Nat]]
    BY DEF InvoiceInv, TypeOK
  <2>2. [dop |-> sum[c.ind].dop + c.monto, otra |-> sum[c.ind].otra + c.otra] \in [dop : Nat, otra : Nat]
    BY <2>1, <1>7
  <2> QED BY <2>1, <2>2, <1>8
<1>10. i' = i + 1 /\ step' = "convert" /\ step = "convert"
  BY DEF ConvertItem
<1>11. TypeOK'
  <2>1. TypeOK /\ withheld' = withheld /\ assigned' = assigned /\ read' = read
    BY DEF ConvertItem, InvoiceInv
  <2>2. i' \in Nat \ {0}
    BY <1>2, <1>10
  <2> QED BY <1>5, <1>9, <1>10, <2>1, <2>2 DEF TypeOK
<1>12. Stage'
  <2>1. items' # <<>> /\ i' <= Len(items') + 1
    BY <1>2, <1>5, <1>10
  <2> QED BY <1>1, <1>2, <1>6, <1>10, <2>1 DEF ConvertItem, InvoiceInv, Stage
<1>13. Unused'
  <2> SUFFICES ASSUME NEW s \in 0 .. 4,
                      \A n \in DOMAIN items' : n < i + 1 => items'[n].ind # s
               PROVE  sum'[s].dop = 0
    BY <1>10 DEF Unused
  <2>1. \A n \in DOMAIN items : n < i => items[n].ind # s
    BY <1>2, <1>5
  <2>2. sum[s].dop = 0
    BY <2>1, <1>10 DEF InvoiceInv, Unused
  <2>3. items'[i].ind # s /\ items'[i] = c
    BY <1>2, <1>5
  <2>4. sum'[s] = sum[s]
    BY <1>7, <1>8, <2>3 DEF InvoiceInv, TypeOK
  <2> QED BY <2>2, <2>4
<1>14. withheld' = Withheld'
  BY <1>1, <1>10 DEF ConvertItem, InvoiceInv
<1> QED BY <1>10, <1>11, <1>12, <1>13, <1>14 DEF InvoiceInv

\* The totals hold as long as the sums and the kinds of the items do.
LEMMA TotalsHoldOn ==
  ASSUME inv' = inv, sum' = sum, totals'.dop = totals.dop, FromLines' => FromLines,
         TotalsHold(totals.dop)
  PROVE  TotalsHold(totals.dop)'
<1>1. ShownItems("dop")' = ShownItems("dop")
  BY DEF ShownItems
<1>2. (PurelyExempt' <=> PurelyExempt) /\ (Foreign' <=> Foreign)
  BY SameDocument
<1> QED BY <1>1, <1>2, SMT DEF TotalsHold, Foreign, PurelyExempt, ModifiesGastosMenores, Debit,
                                Reference, Taxed

LEMMA InvoiceInvTakeTotals == ASSUME InvoiceInv, TakeTotals PROVE InvoiceInv'
<1>1. inv' = inv /\ (Valid' <=> Valid) /\ Withheld' = Withheld
  BY SameDocument DEF TakeTotals
<1>2. /\ items \in Seq(Item \cup ItemWritten) /\ Valid /\ inv \in Invoices
      /\ items # <<>> /\ items' = items /\ sum' = sum
      /\ i \in Nat /\ i > Len(items) /\ Len(items) \in Nat
      /\ \A n \in DOMAIN items : n < i /\ items[n] \in ItemWritten
      /\ TypeOK /\ None \notin Int
  <2>1. /\ items \in Seq(Item \cup ItemWritten) /\ Valid /\ inv \in Invoices
        /\ items # <<>> /\ items' = items /\ sum' = sum
        /\ i \in Nat /\ i > Len(items) /\ TypeOK
        /\ \A n \in DOMAIN items : items[n] \in (IF n < i THEN ItemWritten ELSE Item)
    BY DEF InvoiceInv, Stage, TypeOK, TakeTotals
  <2> QED BY <2>1, Documents
<1>3. items \in Seq(ItemWritten)
  BY <1>2
<1>4. UnusedIsZero
  BY <1>2 DEF InvoiceInv, Unused, UnusedIsZero, TakeTotals
<1>5. TotalsHold(Totals.dop)
  BY <1>2, <1>4, TotalsFacts
<1>6. totals' = Totals /\ i' = 1 /\ step' = "prorate"
  BY DEF TakeTotals, Goto
<1>7. TotalsHold(totals.dop)'
  <2>1. TotalsHold(totals'.dop)
    BY <1>5, <1>6
  <2>2. ShownItems("dop")' = ShownItems("dop")
    BY <1>2 DEF ShownItems
  <2>3. FromLines' <=> FromLines
    BY <1>2 DEF FromLines
  <2> QED BY <1>1, <2>1, <2>2, <2>3, SMT
        DEF TotalsHold, Foreign, PurelyExempt, ModifiesGastosMenores, Debit, Reference, Taxed,
            FromLines
<1>8. withheld = Withheld /\ Withheld \in [Tax -> Nat \cup {None}] \cup {None}
  BY <1>2, WithheldType DEF TakeTotals, InvoiceInv
<1>9. /\ withheld' \in [Tax -> Int \cup {None}] \cup {None}
      /\ withheld' = None <=> Withheld = None
      /\ withheld' # None =>
           \A k \in Tax : withheld'[k] = Withheld[k] \/ (Foreign /\ withheld'[k] = totals'.dop.itbis)
  <2>1. CASE ~WithheldInFull
    <3>1. [Tax -> Nat \cup {None}] \subseteq [Tax -> Int \cup {None}]
      OBVIOUS
    <3>2. withheld' = withheld
      BY <2>1 DEF TakeTotals
    <3> QED BY <1>8, <3>1, <3>2
  <2>2. CASE WithheldInFull
    <3> DEFINE x == totals'.dop.itbis
    <3>1. withheld' = [withheld EXCEPT !["ITBIS"] = x]
      BY <2>2 DEF TakeTotals
    <3>2. Foreign /\ inv.tipo = 41 /\ inv.retention # None
      BY <2>2 DEF WithheldInFull
    <3>3. x \in Int
      BY <1>5, <1>6, <3>2 DEF TotalsHold
    <3> HIDE DEF x
    <3>4. None \notin [Tax -> Int \cup {None}]
      BY InvoiceAssumption
    <3>5. Withheld # None
      <4>1. inv.retention \in [Tax -> Nat \cup {None}] /\ Rate \in Nat
        BY <1>2, <3>2, Documents, RateNat
      <4>2. ASSUME NEW k \in Tax, inv.retention[k] # None
            PROVE  AtRate(inv.retention[k], Rate) \in Nat
        BY <4>1, <4>2, AtRateNat
      <4>3. Withheld = [k \in Tax |-> IF inv.retention[k] = None THEN None
                                      ELSE AtRate(inv.retention[k], Rate)]
        BY <3>2 DEF Withheld
      <4>4. Withheld \in [Tax -> Int \cup {None}]
        BY <4>2, <4>3
      <4> QED BY <3>4, <4>4
    <3>6. withheld \in [Tax -> Int \cup {None}]
      BY <1>8, <3>5
    <3>7. /\ withheld' \in [Tax -> Int \cup {None}]
          /\ \A k \in Tax : withheld'[k] = (IF k = "ITBIS" THEN x ELSE withheld[k])
      BY <3>1, <3>3, <3>6
    <3> QED BY <1>8, <3>2, <3>4, <3>5, <3>7 DEF x
  <2> QED BY <2>1, <2>2
<1>10. WithheldHolds'
  BY <1>1, <1>9, SMT DEF WithheldHolds, Foreign
<1>11. TypeOK'
  <2>1. assigned' = assigned /\ read' = read
    BY DEF TakeTotals
  <2> QED BY SMTT(30), <1>2, <1>6, <1>9, <2>1 DEF TypeOK
<1>12. Stage'
  BY <1>1, <1>2, <1>3, <1>6 DEF TakeTotals, InvoiceInv, Stage
<1>13. Unused'
  BY <1>2, <1>4, <1>6 DEF Unused, UnusedIsZero
<1> QED BY <1>6, <1>7, <1>10, <1>11, <1>12, <1>13 DEF InvoiceInv

LEMMA AllItemsNat == ASSUME TypeOK PROVE AllItems \in Nat
<1>1. 0 \in 0 .. 4 /\ ShownItems("dop") \in Nat /\ \A s \in 0 .. 4 : sum[s]["dop"] \in Nat
  BY ShownNat
<1> QED BY <1>1 DEF AllItems

LEMMA WithheldInt ==
  ASSUME TypeOK, withheld # None, NEW k \in Tax
  PROVE  Or0(withheld[k]) \in Int
<1>1. withheld[k] \in Int \cup {None}
  BY DEF TypeOK
<1> QED BY <1>1, Or0Int

LEMMA InShare ==
  ASSUME InvoiceInv, ShareItem \/ WriteItem
  PROVE  /\ items \in Seq(ItemWritten) /\ i \in 1 .. Len(items) /\ Len(items) \in Nat
         /\ items[i] \in ItemWritten /\ items[i].monto \in Nat
<1>1. step \in {"prorate", "write"} /\ i <= Len(items)
  BY DEF ShareItem, WriteItem
<1>2. items \in Seq(ItemWritten) /\ i \in Nat \ {0}
  BY <1>1 DEF InvoiceInv, Stage, TypeOK
<1>3. Len(items) \in Nat /\ i \in 1 .. Len(items)
  BY <1>1, <1>2
<1>4. items[i] \in ItemWritten
  BY <1>2, <1>3
<1>5. \A x \in ItemWritten : x.monto \in Nat
  BY DEF ItemWritten
<1> QED BY <1>2, <1>3, <1>4, <1>5

LEMMA ShareType ==
  ASSUME InvoiceInv, ShareItem, NEW k \in Tax
  PROVE  Share(k) \in Int
<1>1. Or0(withheld[k]) \in Int /\ AllItems \in Nat /\ assigned[k] \in Int
  BY WithheldInt, AllItemsNat DEF InvoiceInv, ShareItem, TypeOK
<1>2. items[i].monto \in Nat
  BY InShare
<1>3. CASE i = Len(items)
  <2>1. Or0(withheld[k]) - assigned[k] \in Int
    BY <1>1
  <2> QED BY <1>3, <2>1, Max0Nat DEF Share
<1>4. CASE i # Len(items) /\ AllItems = 0
  BY <1>4 DEF Share
<1>5. CASE i # Len(items) /\ AllItems # 0
  <2>1. Or0(withheld[k]) * items[i].monto \in Int
    BY <1>1, <1>2
  <2>2. Rounded(Or0(withheld[k]) * items[i].monto, AllItems) \in Int
    BY <1>1, <1>5, <2>1, RoundedInt
  <2> QED BY <1>5, <2>2 DEF Share
<1> QED BY <1>3, <1>4, <1>5

\* What sharing a retention out leaves of the items.
LEMMA ShareItemFacts ==
  ASSUME InvoiceInv, ShareItem
  PROVE  /\ items' \in Seq(ItemWritten) /\ Len(items') = Len(items) /\ i \in 1 .. Len(items)
         /\ items \in Seq(ItemWritten) /\ Len(items) \in Nat
         /\ \A n \in 1 .. Len(items) :
              /\ items'[n].ind = items[n].ind /\ items'[n].explicit = items[n].explicit
              /\ items'[n].monto = items[n].monto /\ items'[n].qty = items[n].qty
              /\ items'[n].price = items[n].price /\ items'[n].disc = items[n].disc
              /\ items'[n].ret = IF n = i THEN [k \in Tax |-> Share(k)] ELSE items[n].ret
<1> DEFINE ret == [k \in Tax |-> Share(k)]
           x == [items[i] EXCEPT !.ret = ret]
<1>1. items \in Seq(ItemWritten) /\ i \in 1 .. Len(items) /\ items[i] \in ItemWritten
      /\ Len(items) \in Nat
  BY InShare
<1>2. ret \in [Tax -> Int \cup {None}]
  BY ShareType
<1>3. items' = [items EXCEPT ![i] = x]
  BY DEF ShareItem
<1> HIDE DEF ret
<1>4. /\ x \in ItemWritten /\ x.ret = ret
      /\ x.ind = items[i].ind /\ x.explicit = items[i].explicit /\ x.monto = items[i].monto
      /\ x.qty = items[i].qty /\ x.price = items[i].price /\ x.disc = items[i].disc
  BY <1>1, <1>2 DEF ItemWritten
<1> HIDE DEF x
<1>5. /\ items' \in Seq(ItemWritten) /\ Len(items') = Len(items)
      /\ \A n \in 1 .. Len(items) : items'[n] = IF n = i THEN x ELSE items[n]
  BY <1>1, <1>3, <1>4, ExceptSeq
<1>6. \A n \in 1 .. Len(items) :
        /\ items'[n].ind = items[n].ind /\ items'[n].explicit = items[n].explicit
        /\ items'[n].monto = items[n].monto /\ items'[n].qty = items[n].qty
        /\ items'[n].price = items[n].price /\ items'[n].disc = items[n].disc
        /\ items'[n].ret = IF n = i THEN ret ELSE items[n].ret
  BY <1>4, <1>5
<1> QED BY <1>1, <1>5, <1>6 DEF ret

LEMMA InvoiceInvShareItem == ASSUME InvoiceInv, ShareItem PROVE InvoiceInv'
<1>1. inv' = inv /\ (Valid' <=> Valid) /\ Withheld' = Withheld
  BY SameDocument DEF ShareItem
<1>2. /\ items' \in Seq(ItemWritten) /\ Len(items') = Len(items) /\ i \in 1 .. Len(items)
      /\ items \in Seq(ItemWritten) /\ Len(items) \in Nat
      /\ \A n \in 1 .. Len(items) :
           items'[n].ind = items[n].ind /\ items'[n].explicit = items[n].explicit
  BY ShareItemFacts
<1>3. step = "prorate" /\ step' = step /\ i' = i + 1
  BY DEF ShareItem
<1>4. assigned' \in [Tax -> Int]
  <2>1. \A k \in Tax : assigned[k] \in Int /\ assigned[k] + Share(k) \in Int
    BY SMTT(30), ShareType DEF InvoiceInv, TypeOK
  <2> QED BY <2>1 DEF ShareItem, InvoiceInv, TypeOK
<1>5. TypeOK'
  <2>1. TypeOK /\ sum' = sum /\ withheld' = withheld /\ read' = read
    BY DEF ShareItem, InvoiceInv
  <2>2. items' \in Seq(Item \cup ItemWritten)
    BY <1>2, SeqMonotonic
  <2>3. i' \in Nat \ {0}
    BY <1>2, <1>3
  <2> QED BY <1>3, <1>4, <2>1, <2>2, <2>3 DEF TypeOK
<1>6. Stage'
  <2>1. items' # <<>> /\ i' <= Len(items') + 1
    BY <1>2, <1>3
  <2> QED BY <1>1, <1>2, <1>3, <2>1 DEF ShareItem, InvoiceInv, Stage
<1>7. Unused'
  BY <1>2, <1>3 DEF ShareItem, InvoiceInv, Unused
<1>8. FromLines' => FromLines
  BY <1>2 DEF FromLines
<1>9. TotalsHold(totals.dop)'
  BY <1>3, <1>8, TotalsHoldOn DEF ShareItem, InvoiceInv
<1>10. WithheldHolds'
  BY <1>1, <1>3, SMT DEF ShareItem, InvoiceInv, WithheldHolds, Foreign
<1> QED BY <1>3, <1>5, <1>6, <1>7, <1>9, <1>10 DEF InvoiceInv

LEMMA ShownRetentionInt ==
  ASSUME inv \in Invoices, NEW item \in ItemWritten, NEW k \in Tax
  PROVE  ShownRetention(item, k) \in Int
<1>1. item.ret \in [Tax -> Int \cup {None}]
  BY DEF ItemWritten
<1>2. Or0(item.ret[k]) \in Int
  BY <1>1, Or0Int
<1> QED BY <1>2 DEF ShownRetention

\* Steps that leave the items and their totals alone.
LEMMA InvoiceInvOther ==
  ASSUME InvoiceInv, WriteItem \/ EndShares \/ Finish \/ UNCHANGED vars
  PROVE  InvoiceInv'
<1>1. inv' = inv /\ (Valid' <=> Valid) /\ Withheld' = Withheld
  BY SameDocument DEF WriteItem, EndShares, Finish, vars
<1>2. /\ items' = items /\ sum' = sum /\ totals' = totals /\ withheld' = withheld
      /\ assigned' = assigned
  BY DEF WriteItem, EndShares, Finish, vars
<1>3. \/ step' = step /\ UNCHANGED <<i, read>>
      \/ step = "write" /\ step' = "write" /\ i <= Len(items) /\ i' = i + 1
      \/ step = "prorate" /\ step' = "write" /\ i' = 1 /\ read' = read
      \/ step = "write" /\ step' = "done" /\ i' = 1 /\ read' = read
  BY DEF WriteItem, EndShares, Finish, vars, Goto
<1>4. read' \in [monto : Nat, ret : [Tax -> Int]]
  <2>1. CASE WriteItem
    <3>1. /\ items[i] \in ItemWritten /\ items[i].monto \in Nat /\ inv \in Invoices
          /\ read.monto \in Nat /\ read.ret \in [Tax -> Int]
      BY <2>1, InShare DEF InvoiceInv, Stage, TypeOK
    <3>2. \A k \in Tax : read.ret[k] + ShownRetention(items[i], k) \in Int
      BY <3>1, ShownRetentionInt
    <3>3. read' = [monto |-> read.monto + items[i].monto,
                   ret |-> [k \in Tax |-> read.ret[k] + ShownRetention(items[i], k)]]
      BY <2>1 DEF WriteItem
    <3> QED BY <3>1, <3>2, <3>3
  <2>2. CASE ~WriteItem
    BY <2>2 DEF EndShares, Finish, vars, InvoiceInv, TypeOK
  <2> QED BY <2>1, <2>2
<1>5. TypeOK'
  <2>1. TypeOK
    BY DEF InvoiceInv
  <2>2. i' \in Nat \ {0}
    <3>1. i \in Nat \ {0}
      BY <2>1 DEF TypeOK
    <3> QED BY <1>3, <3>1
  <2>3. step' \in {"validate", "refused", "lines", "convert", "prorate", "write", "done"}
    <3>1. step \in {"validate", "refused", "lines", "convert", "prorate", "write", "done"}
      BY <2>1 DEF TypeOK
    <3> QED BY <1>3, <3>1
  <2> QED BY <1>2, <1>4, <2>1, <2>2, <2>3 DEF TypeOK
<1>6. Stage'
  <2>1. /\ items \in Seq(Item \cup ItemWritten) /\ i \in Nat \ {0} /\ Len(items) \in Nat /\ Stage
    BY DEF InvoiceInv, TypeOK
  <2>2. items # <<>> => 1 <= Len(items) + 1
    BY <2>1
  <2> QED BY <1>1, <1>2, <1>3, <2>1, <2>2 DEF Stage
<1>7. FromLines' => FromLines
  BY <1>2 DEF FromLines
<1>8. TotalsHold(totals.dop) => TotalsHold(totals.dop)'
  BY <1>1, <1>2, <1>7, TotalsHoldOn
<1>9. WithheldHolds => WithheldHolds'
  BY <1>1, <1>2, SMT DEF WithheldHolds, Foreign
<1>10. (step = "convert" => Unused) /\ (step \in {"prorate", "write", "done"} => Unused)
  BY DEF InvoiceInv
<1>11. step' \in {"convert", "prorate", "write", "done"} => Unused'
  BY <1>2, <1>3, <1>10 DEF Unused
<1> QED BY <1>1, <1>2, <1>3, <1>5, <1>6, <1>8, <1>9, <1>11 DEF InvoiceInv

\* What is built at each step of the way is what the next one takes it to be.
LEMMA InvoiceInvHolds == Spec => []InvoiceInv
<1>1. InvoiceInv /\ [Next]_vars => InvoiceInv'
  BY InvoiceInvValidate, InvoiceInvTakeLine, InvoiceInvEndLines, InvoiceInvConvertItem, InvoiceInvTakeTotals,
     InvoiceInvShareItem, InvoiceInvOther DEF Next
<1> QED BY <1>1, InvoiceInvInit, PTL DEF Spec

\* The builder's variables keep their types, whatever the ERP sends.
THEOREM InvoiceTyping == Spec => []TypeOK
<1>1. InvoiceInv => TypeOK
  BY DEF InvoiceInv
<1> QED BY <1>1, InvoiceInvHolds, PTL

-----------------------------------------------------------------------------
(* What is required is written. *)

LEMMA BuyerIsWritten ==
  ASSUME inv \in Invoices, Valid
  PROVE  /\ inv.tipo \in {31, 41, 45} => Buyer = "rnc"
         /\ inv.tipo = 32 /\ AtRate(inv.total, Rate) >= Threshold /\ inv.xid # "blank"
              => Buyer # None
<1>1. GoodBuyer
  BY SMT DEF Valid
<1>2. inv.rnc \in {"empty", "rnc", "short", "mixed", "alpha"} /\ inv.xid \in {"empty", "blank", "id"}
  BY InvoiceAssumption
<1>3. CASE inv.tipo \in {31, 41, 45}
  <2>1. inv.rnc \in {"rnc", "mixed"}
    BY <1>1, <1>3, SMT DEF GoodBuyer
  <2>2. ~ModifiesGastosMenores
    BY <1>3, SMT DEF ModifiesGastosMenores, Debit
  <2>3. Buyer = "rnc"
    BY <1>3, <2>1, <2>2, SMT DEF Buyer
  <2> QED BY <1>3, <2>3
<1>4. CASE inv.tipo = 32 /\ AtRate(inv.total, Rate) >= Threshold /\ inv.xid # "blank"
  <2>1. (inv.rnc # "empty" \/ inv.xid # "empty") /\ inv.rnc # "short"
    BY <1>1, <1>4, SMT DEF GoodBuyer
  <2>2. ~ModifiesGastosMenores /\ ~ModifiesExport
    BY <1>4, SMT DEF ModifiesGastosMenores, ModifiesExport, Debit
  <2>3. Buyer \in {"rnc", "foreign"}
    BY <1>2, <1>4, <2>1, <2>2, SMT DEF Buyer
  <2>4. None \notin {"rnc", "foreign"}
    BY InvoiceAssumption
  <2> QED BY <1>4, <2>3, <2>4
<1> QED BY <1>3, <1>4

LEMMA ReferenceIsWritten ==
  ASSUME Valid, inv.ref \notin {"empty", "blank"}
  PROVE  HasReference
<1>1. GoodReference
  BY SMT DEF Valid
<1>2. Reference # "empty"
  BY SMT DEF Reference
<1> QED BY <1>1, <1>2, SMT DEF GoodReference, HasReference, Debit

LEMMA RetentionIsWritten ==
  ASSUME inv \in Invoices, Valid, inv.tipo \in {41, 47}
  PROVE  Withheld # None
<1> DEFINE pesos(x) == IF x = None THEN None ELSE AtRate(x, Rate)
<1>1. /\ inv.retention # None /\ inv.retention \in [Tax -> Nat \cup {None}] /\ Rate \in Nat
  <2>1. inv.retention # None
    BY SMT DEF Valid
  <2> QED BY <2>1, Documents, RateNat
<1>2. ASSUME NEW k \in Tax PROVE pesos(inv.retention[k]) \in Int \cup {None}
  BY SMTT(30), <1>1, AtRateNat
<1>3. Withheld = [k \in Tax |-> pesos(inv.retention[k])]
  BY <1>1 DEF Withheld
<1>4. Withheld \in [Tax -> Int \cup {None}]
  BY <1>2, <1>3
<1> QED BY <1>4, InvoiceAssumption

\* What submit requires of a document the e-CF that is sent carries, for every
\* document: the checks of DocumentsController::submit and the conditions under
\* which buildXmlFromCanonical writes an element agree.
THEOREM RequiredReachesTheEcf == Spec => []RequiredIsWritten
<1>1. InvoiceInv => RequiredIsWritten
  <2> SUFFICES ASSUME InvoiceInv, Done PROVE RequiredIsWritten
    BY DEF RequiredIsWritten
  <2>1. inv \in Invoices /\ Valid /\ WithheldHolds
    BY DEF Done, InvoiceInv, Stage
  <2>2. inv.tipo \in {41, 47} => withheld # None
    BY <2>1, RetentionIsWritten DEF WithheldHolds
  <2> QED BY <2>1, <2>2, BuyerIsWritten, ReferenceIsWritten DEF RequiredIsWritten
<1> QED BY <1>1, InvoiceInvHolds, PTL

-----------------------------------------------------------------------------
(* The summary of a small E32. *)

\* What a summary r tells, next to the totals of the e-CF.
Repeats(r) ==
  /\ r.total = totals.dop.total
  /\ Foreign \/ ErpAddsUp =>
       /\ r.itbis = totals.dop.itbis
       /\ ~CountedTwice /\ ~BelowZero => r.gravado + r.exento + r.itbis = r.total

LEMMA SlotsInt ==
  ASSUME inv \in Invoices, NEW f \in {"base", "tax"}
  PROVE  Taxable(Bucket(f)) \in Int
<1>1. Bucket(f) \in Amounts
  BY BucketType DEF Amounts
<1> QED BY <1>1, TaxableInt

LEMMA RfceRepeats ==
  ASSUME InvoiceInv, step = "write", IsRfce
  PROVE  Repeats(RfceTotals)
<1> DEFINE t == totals.dop
           bases == Taxable(Bucket("base"))
           taxes == Taxable(Bucket("tax"))
           own == ~Foreign /\ (inv.buckets # <<>> \/ inv.gravado # None \/ inv.exento # None)
           r == RfceTotals
<1>1. /\ inv \in Invoices /\ Valid /\ inv.tipo = 32 /\ TotalsHold(t)
      /\ None \notin Int /\ inv.total \in Int /\ inv.itbis \in Int
      /\ inv.gravado \in Nat \cup {None} /\ inv.exento \in Nat \cup {None}
      /\ Or0(inv.exento) \in Nat /\ Or0(inv.gravado) \in Nat
  <2>1. inv \in Invoices /\ Valid /\ inv.tipo = 32 /\ TotalsHold(t)
    BY DEF InvoiceInv, Stage, IsRfce
  <2> QED BY <2>1, Documents
<1>2. bases \in Int /\ taxes \in Int
  BY <1>1, SlotsInt
<1>3. inv.itbis >= 0
  BY <1>1, SMT DEF Valid
<1>4. CASE Foreign
  <2>1. /\ r.itbis = t.itbis /\ r.total = t.total
        /\ r.gravado = IF t.itbis > 0 THEN Max0(t.total - t.itbis) ELSE 0
        /\ r.exento = IF t.itbis > 0 THEN 0 ELSE t.total
    BY <1>4, SMT DEF RfceTotals, Foreign
  <2>2. /\ t.itbis \in Int /\ t.gravado \in Int /\ t.exento \in Int
        /\ t.gravado + t.exento >= 0 /\ t.total = t.gravado + t.exento + t.itbis
    BY <1>1, <1>4 DEF TotalsHold
  <2> HIDE DEF r
  <2>3. t.itbis >= 0 => r.gravado + r.exento + r.itbis = r.total
    BY <2>1, <2>2 DEF Max0
  <2> QED BY <2>1, <2>2, <2>3 DEF Repeats, BelowZero, r
<1>7. ~Foreign => t.total = inv.total /\ t.itbis = inv.itbis
  <2>1. ~Foreign => t.total = inv.total /\ t.itbis = IF PurelyExempt THEN 0 ELSE inv.itbis
    BY <1>1 DEF TotalsHold
  <2>2. PurelyExempt => inv.itbis = 0
    BY <1>1 DEF PurelyExempt, ModifiesGastosMenores, Debit
  <2> QED BY <2>1, <2>2
<1>5. CASE ~Foreign /\ ~own
  <2>1. /\ r.itbis = t.itbis /\ r.total = t.total
        /\ r.gravado = IF t.itbis > 0 THEN Max0(t.total - t.itbis) ELSE 0
        /\ r.exento = IF t.itbis > 0 THEN 0 ELSE t.total
    BY <1>5 DEF RfceTotals
  <2>2. ErpAddsUp => t.total >= t.itbis
    BY <1>5, <1>7 DEF ErpAddsUp
  <2>3. t.itbis \in Int /\ t.itbis >= 0 /\ t.total \in Int
    BY <1>1, <1>3, <1>5, <1>7
  <2> HIDE DEF r
  <2>4. ErpAddsUp => r.gravado + r.exento + r.itbis = r.total
    BY <2>1, <2>2, <2>3 DEF Max0
  <2> QED BY <1>5, <2>1, <2>4 DEF Repeats, r
<1>6. CASE ~Foreign /\ own
  <2>1. t.total = inv.total
    BY <1>6, <1>7
  <2>3. t.itbis = inv.itbis
    BY <1>6, <1>7
  <2>4. /\ Slots([base |-> Bucket("base")], "base") = bases
        /\ Slots([tax |-> Bucket("tax")], "tax") = taxes
        /\ Slots([base |-> Bucket("base"), tax |-> Bucket("tax")], "base") = bases
        /\ Slots([base |-> Bucket("base"), tax |-> Bucket("tax")], "tax") = taxes
    BY DEF Slots, Taxable
  <2>5. CASE inv.buckets # <<>>
    <3>1. /\ r.gravado = (IF Or0(inv.gravado) = 0 THEN bases ELSE inv.gravado)
          /\ r.exento = Or0(inv.exento)
          /\ r.itbis = (IF inv.itbis > 0 THEN inv.itbis ELSE taxes)
          /\ r.total = t.total
      BY <1>6, <2>4, <2>5 DEF RfceTotals
    <3>2. ErpAddsUp => /\ inv.itbis = taxes
                       /\ inv.total = (IF Or0(inv.gravado) = 0 THEN bases ELSE inv.gravado)
                                        + Or0(inv.exento) + inv.itbis
      BY <2>4, <2>5 DEF ErpAddsUp
    <3> HIDE DEF bases, taxes, r
    <3>3. ErpAddsUp => r.itbis = t.itbis
      BY <1>1, <1>2, <1>3, <2>3, <3>1, <3>2
    <3>4. ErpAddsUp => r.gravado + r.exento + r.itbis = r.total
      BY <1>1, <1>2, <1>3, <2>1, <2>3, <3>1, <3>2, <3>3
    <3> QED BY <1>6, <3>1, <3>3, <3>4 DEF Repeats, r
  <2>6. CASE inv.buckets = <<>>
    <3>1. /\ r.itbis = (IF inv.itbis > 0 THEN inv.itbis ELSE t.itbis) /\ r.total = t.total
          /\ r.gravado = IF t.itbis > 0 THEN Max0(t.total - t.itbis) ELSE Or0(inv.gravado)
          /\ r.exento = IF t.itbis > 0 THEN Or0(inv.exento) ELSE t.total
      BY <1>6, <2>6 DEF RfceTotals
    <3>2. r.itbis = t.itbis
      BY <2>3, <3>1
    <3>3. ErpAddsUp => t.total >= t.itbis
      BY <2>1, <2>3 DEF ErpAddsUp
    <3>4. ~CountedTwice => IF t.itbis > 0 THEN Or0(inv.exento) = 0 ELSE Or0(inv.gravado) = 0
      BY <1>1, <1>6, <2>6 DEF CountedTwice
    <3> HIDE DEF r
    <3>5. ErpAddsUp /\ ~CountedTwice => r.gravado + r.exento + r.itbis = r.total
      BY <1>1, <1>3, <2>1, <2>3, <3>1, <3>2, <3>3, <3>4 DEF Max0
    <3> QED BY <1>6, <3>1, <3>2, <3>5 DEF Repeats, r
  <2> QED BY <2>5, <2>6
<1> QED BY <1>4, <1>5, <1>6

\* The summary sent in place of a small E32 tells DGII what the e-CF that is
\* kept tells (RfceTotals is buildRfceXml, Totals buildXmlFromCanonical).
THEOREM SummaryTellsTheSame == Spec => []RfceRepeatsEcf
<1>1. Init => RfceRepeatsEcf
  BY DEF Init, RfceRepeatsEcf, Done
<1>2. ASSUME InvoiceInv, RfceRepeatsEcf, [Next]_vars PROVE RfceRepeatsEcf'
  <2>1. CASE Finish
    <3>1. CASE IsRfce
      <4>1. Repeats(RfceTotals)
        BY <1>2, <2>1, <3>1, RfceRepeats DEF Finish
      <4>2. rfce' = RfceTotals /\ inv' = inv /\ totals' = totals
        BY <2>1, <3>1 DEF Finish
      <4>3. /\ Foreign' <=> Foreign
            /\ ErpAddsUp' <=> ErpAddsUp
            /\ BelowZero' <=> BelowZero
            /\ CountedTwice' <=> CountedTwice
        BY <4>2, SMT DEF Foreign, ErpAddsUp, Slots, Bucket, BelowZero, CountedTwice
      <4> QED BY <4>1, <4>2, <4>3, SMT DEF Repeats, RfceRepeatsEcf, Foreign, ErpAddsUp, BelowZero,
                                           CountedTwice, Slots, Bucket
    <3>2. CASE ~IsRfce
      BY <2>1, <3>2 DEF Finish, RfceRepeatsEcf
    <3> QED BY <3>1, <3>2
  <2>2. CASE UNCHANGED vars
    BY <1>2, <2>2, SMT DEF vars, RfceRepeatsEcf, Done, Foreign, ErpAddsUp, Slots, Bucket, BelowZero,
                               CountedTwice
  <2>3. CASE ~Finish /\ Next
    <3>1. step' # "done"
      BY <2>3 DEF Next, Validate, TakeLine, EndLines, ConvertItem, TakeTotals, ShareItem, EndShares,
                  WriteItem, Goto
    <3> QED BY <3>1 DEF RfceRepeatsEcf, Done
  <2> QED BY <1>2, <2>1, <2>2, <2>3
<1> QED BY <1>1, <1>2, InvoiceInvHolds, PTL DEF Spec

-----------------------------------------------------------------------------
(* What the items bill.  A sum over the items is witnessed by its partial  *)
(* sums: p[m] is what the first m items come to.                           *)

Running(p, n) ==
  /\ p \in [Nat -> Nat] /\ p[0] = 0
  /\ \A m \in 1 .. n : p[m] = p[m - 1] + items[m].monto /\ p[m] <= p[n]

Billed ==
  /\ step = "convert" => \E p : Running(p, i - 1) /\ AllItems = p[i - 1]
  /\ step \in {"prorate", "write", "done"} =>
       \E p : /\ Running(p, Len(items)) /\ AllItems = p[Len(items)]
              /\ step = "write" => read.monto = p[i - 1]
              /\ step = "done" => read.monto = p[Len(items)]

LEMMA BilledEndLines == ASSUME InvoiceInv, EndLines PROVE Billed'
<1> DEFINE p == [m \in Nat |-> 0]
<1>1. step' = "convert" /\ i' = 1 /\ sum' = sum /\ \A s \in 0 .. 4 : sum[s].dop = 0
  BY DEF EndLines, Goto, InvoiceInv
<1>2. AllItems' = 0
  <2>1. sum'[0].dop = 0 /\ sum'[1].dop = 0 /\ sum'[2].dop = 0 /\ sum'[3].dop = 0 /\ sum'[4].dop = 0
    BY <1>1
  <2> QED BY <2>1 DEF AllItems, ShownItems
<1>3. Running(p, 0)' /\ AllItems' = p[0]
  BY <1>2 DEF Running
<1> HIDE DEF p
<1>4. i' - 1 = 0
  BY <1>1
<1> QED BY <1>1, <1>3, <1>4 DEF Billed

LEMMA BilledConvertItem == ASSUME InvoiceInv, Billed, ConvertItem PROVE Billed'
<1> DEFINE c == Converted(items[i])
<1>1. /\ step = "convert" /\ step' = "convert" /\ i' = i + 1
      /\ items' = [items EXCEPT ![i] = c]
      /\ sum' = [sum EXCEPT ![c.ind] = [dop |-> @.dop + c.monto, otra |-> @.otra + c.otra]]
  BY DEF ConvertItem
<1>2. /\ items \in Seq(Item \cup ItemWritten) /\ i \in 1 .. Len(items) /\ Len(items) \in Nat
      /\ items[i] \in Item /\ inv \in Invoices /\ Valid
      /\ sum \in [0 .. 4 -> [dop : Nat, otra : Nat]]
  <2>1. /\ items \in Seq(Item \cup ItemWritten) /\ i \in Nat \ {0} /\ i <= Len(items)
        /\ \A n \in DOMAIN items : items[n] \in (IF n < i THEN ItemWritten ELSE Item)
    BY DEF InvoiceInv, Stage, TypeOK, ConvertItem
  <2>2. /\ inv \in Invoices /\ Valid
        /\ sum \in [0 .. 4 -> [dop : Nat, otra : Nat]]
    BY DEF InvoiceInv, Stage, TypeOK, ConvertItem
  <2>3. Len(items) \in Nat /\ i \in DOMAIN items /\ ~(i < i)
    BY <2>1
  <2> QED BY <2>1, <2>2, <2>3
<1>3. c \in ItemWritten
  BY <1>2, ConvertedType
<1> HIDE DEF c
<1>4. c.ind \in 0 .. 4 /\ c.monto \in Nat
  BY <1>3 DEF ItemWritten
<1>5. \A n \in 1 .. Len(items) : items'[n] = IF n = i THEN c ELSE items[n]
  BY SMTT(30), <1>1, <1>2
<1>6. AllItems \in Nat /\ AllItems' = AllItems + c.monto
  <2>1. \A s \in 0 .. 4 : sum[s].dop \in Nat
    BY <1>2
  <2>2. \A s \in 0 .. 4 : sum'[s].dop = IF s = c.ind THEN sum[s].dop + c.monto ELSE sum[s].dop
    BY <1>1, <1>2, <1>4
  <2>3. /\ 0 \in 0 .. 4 /\ 1 \in 0 .. 4 /\ 2 \in 0 .. 4 /\ 3 \in 0 .. 4 /\ 4 \in 0 .. 4
        /\ c.ind \in {0, 1, 2, 3, 4}
    BY <1>4
  <2>4. /\ AllItems = sum[1].dop + sum[2].dop + sum[3].dop + sum[4].dop + sum[0].dop
        /\ AllItems' = sum'[1].dop + sum'[2].dop + sum'[3].dop + sum'[4].dop + sum'[0].dop
    BY DEF AllItems, ShownItems
  <2> QED BY <1>4, <2>1, <2>2, <2>3, <2>4
<1>7. PICK p : Running(p, i - 1) /\ AllItems = p[i - 1]
  BY <1>1 DEF Billed
<1>8. p \in [Nat -> Nat] /\ i - 1 \in Nat /\ i \in Nat /\ p[i - 1] \in Nat
      /\ p[i - 1] + c.monto \in Nat
  <2>1. p \in [Nat -> Nat]
    BY <1>7 DEF Running
  <2>2. i - 1 \in Nat /\ i \in Nat
    BY <1>2
  <2>3. p[i - 1] \in Nat
    BY <2>1, <2>2
  <2> QED BY <1>4, <2>1, <2>2, <2>3
<1>9. PICK q \in [Nat -> Nat] : \A m \in Nat : q[m] = IF m = i THEN p[i - 1] + c.monto ELSE p[m]
  <2> DEFINE r == [p EXCEPT ![i] = p[i - 1] + c.monto]
  <2>1. r \in [Nat -> Nat] /\ \A m \in Nat : r[m] = IF m = i THEN p[i - 1] + c.monto ELSE p[m]
    BY <1>8
  <2> HIDE DEF r
  <2> QED BY <2>1
<1>10. ASSUME NEW m \in 1 .. i PROVE q[m] = q[m - 1] + items'[m].monto /\ q[m] <= q[i]
  <2>1. CASE m = i
    <3>1. q[i] = p[i - 1] + c.monto /\ q[i - 1] = p[i - 1] /\ items'[i] = c
      <4>1. i - 1 # i
        BY <1>8
      <4> QED BY <1>2, <1>5, <1>8, <1>9, <4>1
    <3> QED BY <2>1, <3>1, <1>8
  <2>2. CASE m < i
    <3>1. m \in 1 .. i - 1 /\ m \in Nat /\ m - 1 \in Nat /\ m # i /\ m - 1 # i /\ m \in 1 .. Len(items)
      <4>1. m \in Nat /\ 1 <= m /\ m < i /\ i \in Nat /\ i <= Len(items) /\ Len(items) \in Nat
        BY <1>2, <1>8, <2>2
      <4> QED BY SMTT(30), <4>1
    <3>2. q[m] = p[m] /\ q[m - 1] = p[m - 1] /\ items'[m] = items[m]
      BY <1>5, <1>9, <3>1
    <3>3. p[m] = p[m - 1] + items[m].monto /\ p[m] <= p[i - 1]
      BY <1>7, <3>1 DEF Running
    <3>4. p[m] \in Nat /\ p[i - 1] \in Nat /\ i \in Nat /\ q[i] = p[i - 1] + c.monto
      BY <1>2, <1>8, <1>9, <3>1
    <3> QED BY <1>4, <3>2, <3>3, <3>4
  <2> QED BY <1>2, <2>1, <2>2
<1>11. q[0] = 0 /\ i' - 1 = i
  BY <1>1, <1>2, <1>7, <1>8, <1>9 DEF Running
<1>12. Running(q, i - 1)'
  <2>1. \A m \in 1 .. i' - 1 : q[m] = q[m - 1] + items'[m].monto /\ q[m] <= q[i' - 1]
    BY <1>10, <1>11
  <2> QED BY <1>9, <1>11, <2>1 DEF Running
<1>13. AllItems' = q[i' - 1]
  BY <1>6, <1>7, <1>8, <1>9, <1>11
<1> QED BY <1>1, <1>12, <1>13 DEF Billed

LEMMA BilledTakeTotals == ASSUME InvoiceInv, Billed, TakeTotals PROVE Billed'
<1>1. /\ step = "convert" /\ step' = "prorate" /\ i > Len(items) /\ items' = items /\ sum' = sum
  BY DEF TakeTotals, Goto
<1>2. i \in Nat /\ Len(items) \in Nat /\ i <= Len(items) + 1
  BY <1>1 DEF InvoiceInv, Stage, TypeOK
<1>3. i - 1 = Len(items)
  BY <1>1, <1>2
<1>4. PICK p : Running(p, Len(items)) /\ AllItems = p[Len(items)]
  BY <1>1, <1>3 DEF Billed
<1>5. Running(p, Len(items))' /\ AllItems' = p[Len(items')]
  BY <1>1, <1>4 DEF Running, AllItems, ShownItems
<1> QED BY <1>1, <1>5 DEF Billed

LEMMA BilledShareItem == ASSUME InvoiceInv, Billed, ShareItem PROVE Billed'
<1>1. step = "prorate" /\ step' = step /\ sum' = sum
  BY DEF ShareItem
<1>2. PICK p : Running(p, Len(items)) /\ AllItems = p[Len(items)]
  BY <1>1 DEF Billed
<1>3. /\ Len(items') = Len(items)
      /\ \A n \in 1 .. Len(items) : items'[n].monto = items[n].monto
  BY ShareItemFacts
<1>4. Running(p, Len(items))' /\ AllItems' = p[Len(items')]
  BY <1>1, <1>2, <1>3 DEF Running, AllItems, ShownItems
<1> QED BY <1>1, <1>4 DEF Billed

LEMMA BilledWriteItem == ASSUME InvoiceInv, Billed, WriteItem PROVE Billed'
<1>1. /\ step = "write" /\ step' = step /\ sum' = sum /\ items' = items /\ i' = i + 1
      /\ read'.monto = read.monto + items[i].monto
  BY DEF WriteItem
<1>2. PICK p : Running(p, Len(items)) /\ AllItems = p[Len(items)] /\ read.monto = p[i - 1]
  BY <1>1 DEF Billed
<1>3. i \in 1 .. Len(items) /\ i' - 1 = i
  BY <1>1, InShare
<1>4. read'.monto = p[i' - 1]
  BY <1>1, <1>2, <1>3 DEF Running
<1>5. Running(p, Len(items))' /\ AllItems' = p[Len(items')]
  BY <1>1, <1>2 DEF Running, AllItems, ShownItems
<1> QED BY <1>1, <1>4, <1>5 DEF Billed

LEMMA BilledOther ==
  ASSUME InvoiceInv, Billed, EndShares \/ Finish \/ UNCHANGED vars
  PROVE  Billed'
<1>1. items' = items /\ sum' = sum /\ AllItems' = AllItems /\ read' = read
  BY DEF EndShares, Finish, vars, AllItems, ShownItems
<1>2. CASE EndShares
  <2>1. step = "prorate" /\ step' = "write" /\ i' = 1
    BY <1>2 DEF EndShares, Goto
  <2>2. PICK p : Running(p, Len(items)) /\ AllItems = p[Len(items)]
    BY <2>1 DEF Billed
  <2>3. read'.monto = p[i' - 1]
    <3>1. read.monto = 0
      BY <2>1 DEF InvoiceInv, Stage
    <3>2. p[0] = 0 /\ i' - 1 = 0
      BY <2>1, <2>2 DEF Running
    <3> QED BY <1>1, <3>1, <3>2
  <2>4. Running(p, Len(items))' /\ AllItems' = p[Len(items')]
    BY <1>1, <2>2 DEF Running
  <2> QED BY <2>1, <2>3, <2>4 DEF Billed
<1>3. CASE Finish
  <2>1. step = "write" /\ step' = "done" /\ i > Len(items)
    BY <1>3 DEF Finish, Goto
  <2>2. PICK p : Running(p, Len(items)) /\ AllItems = p[Len(items)] /\ read.monto = p[i - 1]
    BY <2>1 DEF Billed
  <2>3. i - 1 = Len(items)
    <3>1. i \in Nat /\ Len(items) \in Nat /\ i <= Len(items) + 1
      BY <2>1 DEF InvoiceInv, Stage, TypeOK
    <3> QED BY <2>1, <3>1
  <2>4. Running(p, Len(items))' /\ AllItems' = p[Len(items')] /\ read'.monto = p[Len(items')]
    BY <1>1, <2>2, <2>3 DEF Running
  <2> QED BY <2>1, <2>4 DEF Billed
<1>4. CASE UNCHANGED vars
  BY <1>4 DEF vars, Billed, Running, AllItems, ShownItems
<1> QED BY <1>2, <1>3, <1>4

LEMMA BilledHolds == Spec => []Billed
<1>1. Init => Billed
  BY DEF Init, Billed
<1>2. InvoiceInv /\ Billed /\ [Next]_vars => Billed'
  <2> SUFFICES ASSUME InvoiceInv, Billed, [Next]_vars PROVE Billed'
    OBVIOUS
  <2>1. CASE Validate \/ TakeLine
    <3>1. step' \in {"lines", "refused"}
      BY <2>1 DEF Validate, TakeLine, Goto
    <3> QED BY <3>1 DEF Billed
  <2> QED BY <2>1, BilledEndLines, BilledConvertItem, BilledTakeTotals, BilledShareItem,
             BilledWriteItem, BilledOther DEF Next
<1> QED BY <1>1, <1>2, InvoiceInvHolds, PTL DEF Spec

\* In a foreign currency what the items bill is what the totals say, for any
\* lines, rate and ERP totals, or off by more than is ever settled.
THEOREM TotalsOfTheItems == Spec => []ItemsMatchTotals
<1>1. InvoiceInv /\ Billed => ItemsMatchTotals
  <2> SUFFICES ASSUME InvoiceInv, Billed, Done, Foreign, totals.dop.gravado + totals.dop.exento > 0
               PROVE  ItemsMatchTotals
    BY DEF ItemsMatchTotals
  <2>1. TotalsHold(totals.dop) /\ TypeOK /\ read.monto = AllItems
    BY DEF InvoiceInv, Billed, Done
  <2>2. AllItems = ShownItems("dop") + sum[0].dop /\ ShownItems("dop") \in Nat /\ sum[0].dop \in Nat
    <3>1. 0 \in 0 .. 4 /\ sum[0]["dop"] \in Nat /\ ShownItems("dop") \in Nat
      BY <2>1, ShownNat
    <3> QED BY <3>1 DEF AllItems
  <2> DEFINE due == totals.dop.gravado + totals.dop.exento
  <2>3. /\ due \in Int /\ due > 0
        /\ \/ ShownItems("dop") - due = 0
           \/ Abs(ShownItems("dop") - due) > 10 /\ ~FromLines
    BY <2>1 DEF TotalsHold
  <2> HIDE DEF due
  <2>4. read.monto - sum[0].dop - due = ShownItems("dop") - due
    BY <2>1, <2>2, <2>3
  <2> QED BY <2>3, <2>4 DEF ItemsMatchTotals, due
<1> QED BY <1>1, InvoiceInvHolds, BilledHolds, PTL

-----------------------------------------------------------------------------
(* Retentions. *)

LEMMA Scaled ==
  ASSUME NEW a \in Nat, NEW b \in Nat, NEW c \in Nat, a <= b
  PROVE  c * a <= c * b
OBVIOUS

LEMMA Cancelled ==
  ASSUME NEW a \in Int, NEW b \in Int, NEW c \in Nat \ {0}, c * a <= c * b
  PROVE  a <= b
<1> SUFFICES ASSUME a > b PROVE FALSE
  OBVIOUS
<1>1. a - b \in Nat /\ a - b >= 1
  OBVIOUS
<1>2. c * (a - b) >= c
  BY <1>1
<1>3. c * (a - b) = c * a - c * b
  OBVIOUS
<1> QED BY <1>2, <1>3

\* After n items that come to P of the All, what has been assigned of W is at
\* most its part, and half a cent for each.
InPart(A, W, P, n, All) ==
  /\ A \in Nat
  /\ 2 * (All * A) <= 2 * (W * P) + n * All
  /\ All = 0 => A = 0

LEMMA NoPart == ASSUME NEW W \in Int, NEW All \in Nat PROVE InPart(0, W, 0, 0, All)
BY DEF InPart

LEMMA OneMorePart ==
  ASSUME NEW A, NEW W \in Nat, NEW P \in Nat, NEW n \in Nat, NEW All \in Nat, NEW m \in Nat,
         InPart(A, W, P, n, All),
         NEW R, R = IF All = 0 THEN 0 ELSE Rounded(W * m, All)
  PROVE  InPart(A + R, W, P + m, n + 1, All)
<1>1. A \in Nat /\ 2 * (All * A) <= 2 * (W * P) + n * All /\ (All = 0 => A = 0)
  BY DEF InPart
<1>2. W * m \in Nat
  OBVIOUS
<1>3. R \in Nat /\ 2 * (All * R) <= 2 * (W * m) + All /\ (All = 0 => R = 0)
  <2>1. CASE All = 0
    BY <2>1, <1>2
  <2>2. CASE All # 0
    BY <2>2, <1>2, RoundedNear
  <2> QED BY <2>1, <2>2
<1>4. /\ All * (A + R) = All * A + All * R
      /\ W * (P + m) = W * P + W * m
      /\ (n + 1) * All = n * All + All
  BY <1>1, <1>3
<1>5. 2 * (All * (A + R)) <= 2 * (W * (P + m)) + (n + 1) * All
  <2>1. /\ All * A \in Nat /\ All * R \in Nat /\ W * P \in Nat /\ W * m \in Nat /\ n * All \in Nat
    BY <1>1, <1>3
  <2> QED BY <2>1, <1>1, <1>3, <1>4
<1> QED BY <1>1, <1>3, <1>5 DEF InPart

\* The last item takes the rest.
LEMMA LastPart ==
  ASSUME NEW A, NEW W \in Nat, NEW P \in Nat, NEW n \in Nat, NEW All \in Nat, P <= All,
         InPart(A, W, P, n, All), NEW B, B = A + Max0(W - A)
  PROVE  B - W \in 0 .. (n + 1) \div 2
<1>1. A \in Nat /\ 2 * (All * A) <= 2 * (W * P) + n * All /\ (All = 0 => A = 0)
  BY DEF InPart
<1>2. CASE A <= W
  BY <1>1, <1>2 DEF Max0
<1>3. CASE A > W
  <2>1. All \in Nat \ {0}
    BY <1>1, <1>3
  <2>2. W * P <= W * All
    BY Scaled
  <2>3. All * (2 * A) <= All * (2 * W + n)
    <3>1. All * (2 * A) = 2 * (All * A) /\ All * (2 * W + n) = 2 * (W * All) + n * All
      BY <1>1
    <3>2. All * A \in Nat /\ W * P \in Nat /\ W * All \in Nat /\ n * All \in Nat
      BY <1>1
    <3> QED BY <1>1, <2>2, <3>1, <3>2
  <2>4. 2 * A <= 2 * W + n
    <3>1. 2 * A \in Int /\ 2 * W + n \in Int
      BY <1>1
    <3> QED BY <2>1, <2>3, <3>1, Cancelled
  <2> QED BY <1>1, <1>3, <2>4 DEF Max0
<1> QED BY <1>1, <1>2, <1>3

LEMMA AtRateZero == ASSUME NEW r \in Nat PROVE AtRate(0, r) = 0
<1>1. 0 * r = 0
  OBVIOUS
<1>2. Rounded(0, 10000) = 0
  BY DEF Rounded
<1> QED BY <1>1, <1>2 DEF AtRate

\* No line states a retention, and so no item does.
Unasked == \A n \in DOMAIN inv.lines, k \in Tax : Or0(inv.lines[n].ret[k]) = 0
NoneYet == \A n \in DOMAIN items, k \in Tax : Or0(items[n].ret[k]) = 0

\* q[m] is what the first m items bear of the tax k.
Borne(k, q, n) ==
  /\ q \in [Nat -> Int] /\ q[0] = 0
  /\ \A m \in 1 .. n : q[m] = q[m - 1] + Or0(items[m].ret[k])

\* The retention of k is shared out as far as item i, and the last item's share
\* makes up the whole.
SharedSoFar(k) ==
  \E p, q :
    /\ Running(p, Len(items)) /\ AllItems = p[Len(items)]
    /\ Borne(k, q, i - 1)
    /\ IF i <= Len(items)
       THEN q[i - 1] = assigned[k]
            /\ InPart(assigned[k], Or0(withheld[k]), p[i - 1], i - 1, AllItems)
       ELSE q[i - 1] - Or0(withheld[k]) \in 0 .. Len(items) \div 2

ReadSoFar(k) ==
  \E q :
    /\ Borne(k, q, Len(items))
    /\ q[Len(items)] - Or0(withheld[k]) \in 0 .. Len(items) \div 2
    /\ ~(inv.tipo = 47 /\ k = "ITBIS") =>
         /\ step = "write" => read.ret[k] = q[i - 1]
         /\ step = "done" => read.ret[k] = q[Len(items)]

Retained ==
  /\ Unasked /\ (step \in {"lines", "convert"} \/ (step = "prorate" /\ i = 1)) => NoneYet
  /\ step = "prorate" /\ withheld # None =>
       \A k \in Tax : Or0(withheld[k]) >= 0 => SharedSoFar(k)
  /\ step \in {"write", "done"} /\ Unasked /\ withheld # None =>
       \A k \in Tax : Or0(withheld[k]) >= 0 => ReadSoFar(k)

LEMMA RetainedValidate == ASSUME InvoiceInv, Validate PROVE Retained'
<1>1. items' = <<>> /\ step' \in {"lines", "refused"}
  BY DEF InvoiceInv, Stage, Validate, Goto
<1> QED BY <1>1 DEF Retained, NoneYet

LEMMA RetainedTakeLine == ASSUME InvoiceInv, Retained, TakeLine PROVE Retained'
<1>1. /\ step = "lines" /\ step' = "lines" /\ items' = TakenIn(inv.lines[i]) /\ inv' = inv
  BY DEF TakeLine
<1>2. items \in Seq(Item) /\ Valid /\ inv \in Invoices /\ i \in DOMAIN inv.lines /\ Len(items) \in Nat
  <2>1. items \in Seq(Item) /\ Valid /\ inv \in Invoices /\ i \in Nat \ {0} /\ i <= Len(inv.lines)
    BY DEF InvoiceInv, Stage, TypeOK, TakeLine
  <2> QED BY <2>1, Documents
<1> DEFINE l == inv.lines[i]
<1>3. l \in GoodLine
  BY <1>2, LinesChecked
<1>4. ASSUME Unasked PROVE NoneYet'
  <2>1. NoneYet /\ \A k \in Tax : Or0(l.ret[k]) = 0
    BY <1>1, <1>2, <1>4 DEF Retained, Unasked
  <2> HIDE DEF l
  <2>2. TakenIn(l) = items' /\ TakenIn(l) \in Seq(Item)
    BY <1>1, <1>2, <1>3, TakenInCases DEF l
  <2>3. CASE /\ Len(TakenIn(l)) = Len(items) /\ Len(items) \in DOMAIN items
             /\ \A n \in DOMAIN items :
                  TakenIn(l)[n] = IF n = Len(items) THEN Folded(items[n], Discount(l)) ELSE items[n]
    <3>1. Folded(items[Len(items)], Discount(l)).ret = items[Len(items)].ret
      <4>1. items[Len(items)] \in Item /\ Discount(l) \in Nat
        BY <1>2, <1>3, <2>3, ProductFacts
      <4> QED BY <4>1, FoldedType
    <3>2. \A n \in DOMAIN items' : n \in DOMAIN items /\ items'[n].ret = items[n].ret
      BY <1>2, <2>2, <2>3, <3>1
    <3> QED BY <2>1, <3>2 DEF NoneYet
  <2>4. CASE TakenIn(l) = items
    BY <2>1, <2>2, <2>4 DEF NoneYet
  <2>5. CASE TakenIn(l) = Append(items, NewItem(l))
    <3>1. \A n \in DOMAIN items' : items'[n].ret = l.ret \/ (n \in DOMAIN items /\ items'[n].ret = items[n].ret)
      <4>1. NewItem(l) \in Item /\ NewItem(l).ret = l.ret
        BY <1>3, NewItemType
      <4> QED BY <1>2, <2>2, <2>5, <4>1
    <3> QED BY <2>1, <3>1 DEF NoneYet
  <2> QED BY <1>2, <1>3, <2>3, <2>4, <2>5, TakenInCases
<1>5. Unasked' <=> Unasked
  BY <1>1 DEF Unasked
<1> QED BY <1>1, <1>4, <1>5 DEF Retained

LEMMA RetainedEndLines == ASSUME InvoiceInv, Retained, EndLines PROVE Retained'
<1>1. /\ step = "lines" /\ step' = "convert" /\ inv' = inv
      /\ items' = IF items = <<>> THEN <<GeneralItem>> ELSE items
  BY DEF EndLines, Goto
<1>2. Unasked' <=> Unasked
  BY <1>1 DEF Unasked
<1>3. ASSUME Unasked PROVE NoneYet'
  <2>1. NoneYet
    BY <1>1, <1>3 DEF Retained
  <2>2. CASE items = <<>>
    <3>1. \A k \in Tax : Or0(GeneralItem.ret[k]) = 0
      BY DEF GeneralItem, Or0
    <3>2. \A n \in DOMAIN items' : items'[n] = GeneralItem
      BY <1>1, <2>2
    <3> QED BY <3>1, <3>2 DEF NoneYet
  <2>3. CASE items # <<>>
    BY <1>1, <2>1, <2>3 DEF NoneYet
  <2> QED BY <2>2, <2>3
<1> QED BY <1>1, <1>2, <1>3 DEF Retained

LEMMA RetainedConvertItem == ASSUME InvoiceInv, Retained, ConvertItem PROVE Retained'
<1> DEFINE c == Converted(items[i])
<1>1. /\ step = "convert" /\ step' = "convert" /\ inv' = inv
      /\ items' = [items EXCEPT ![i] = c]
  BY DEF ConvertItem
<1>2. /\ i \in DOMAIN items /\ items[i] \in Item /\ inv \in Invoices /\ Valid
  <2>1. /\ items \in Seq(Item \cup ItemWritten) /\ i \in Nat \ {0} /\ i <= Len(items)
        /\ \A n \in DOMAIN items : items[n] \in (IF n < i THEN ItemWritten ELSE Item)
        /\ inv \in Invoices /\ Valid
    BY DEF InvoiceInv, Stage, TypeOK, ConvertItem
  <2>2. i \in DOMAIN items /\ ~(i < i)
    BY <2>1
  <2> QED BY <2>1, <2>2
<1>3. Unasked' <=> Unasked
  BY <1>1 DEF Unasked
<1>4. ASSUME Unasked PROVE NoneYet'
  <2>1. NoneYet
    BY <1>1, <1>4 DEF Retained
  <2>2. ASSUME NEW k \in Tax PROVE Or0(c.ret[k]) = 0
    <3>1. c.ret[k] = IF items[i].ret[k] = None THEN None ELSE AtRate(items[i].ret[k], Rate)
      BY <1>2, ConvertedType
    <3>2. Or0(items[i].ret[k]) = 0
      BY <1>2, <2>1 DEF NoneYet
    <3>3. items[i].ret[k] = None \/ items[i].ret[k] = 0
      BY <3>2 DEF Or0
    <3>4. AtRate(0, Rate) = 0
      BY <1>2, RateNat, AtRateZero
    <3> HIDE DEF c
    <3> QED BY <3>1, <3>3, <3>4 DEF Or0
  <2> HIDE DEF c
  <2>3. \A n \in DOMAIN items' : n \in DOMAIN items /\ items'[n] = IF n = i THEN c ELSE items[n]
    BY <1>1, <1>2
  <2> QED BY <2>1, <2>2, <2>3 DEF NoneYet
<1> QED BY <1>1, <1>3, <1>4 DEF Retained

LEMMA RetainedTakeTotals == ASSUME InvoiceInv, InvoiceInv', Billed', Retained, TakeTotals PROVE Retained'
<1>1. /\ step = "convert" /\ step' = "prorate" /\ i' = 1 /\ items' = items /\ inv' = inv
      /\ sum' = sum /\ assigned' = assigned
  BY DEF TakeTotals, Goto
<1>2. Unasked' <=> Unasked
  BY <1>1 DEF Unasked
<1>3. Unasked => NoneYet'
  BY <1>1 DEF Retained, NoneYet
<1>4. ASSUME NEW k \in Tax, withheld' # None, Or0(withheld'[k]) >= 0 PROVE SharedSoFar(k)'
  <2>1. PICK p : Running(p, Len(items))' /\ AllItems' = p[Len(items')]
    BY <1>1 DEF Billed
  <2>2. PICK q : q = [m \in Nat |-> 0]
    OBVIOUS
  <2>3. assigned'[k] = 0
    BY <1>1 DEF InvoiceInv, Stage, Zero
  <2>4. i' - 1 = 0 /\ q[0] = 0 /\ p[0] = 0
    BY <1>1, <2>1, <2>2 DEF Running
  <2>5. Len(items') \in Nat /\ i' <= Len(items')
    <3>1. items' # <<>> /\ items' \in Seq(ItemWritten)
      BY <1>1 DEF InvoiceInv, Stage
    <3> QED BY <1>1, <3>1
  <2>6. Borne(k, q, i - 1)'
    BY <2>2, <2>4 DEF Borne
  <2>7. InPart(assigned'[k], Or0(withheld'[k]), p[i' - 1], i' - 1, AllItems')
    <3>1. Or0(withheld'[k]) \in Int /\ AllItems' \in Nat
      <4>1. withheld'[k] \in Int \cup {None}
        BY <1>4 DEF InvoiceInv, TypeOK
      <4>2. (AllItems \in Nat)'
        BY AllItemsNat, PTL DEF InvoiceInv
      <4> QED BY <4>1, <4>2, Or0Int
    <3> QED BY <2>3, <2>4, <3>1, NoPart
  <2> QED BY <2>1, <2>3, <2>4, <2>5, <2>6, <2>7 DEF SharedSoFar, Running, Borne
<1> QED BY <1>1, <1>2, <1>3, <1>4 DEF Retained

LEMMA RetainedShareItem == ASSUME InvoiceInv, Billed, Retained, ShareItem PROVE Retained'
<1>1. /\ step = "prorate" /\ step' = "prorate" /\ i' = i + 1 /\ inv' = inv /\ sum' = sum
      /\ withheld' = withheld /\ withheld # None /\ AllItems' = AllItems
  BY DEF ShareItem, AllItems, ShownItems
<1>2. /\ i \in 1 .. Len(items) /\ Len(items) \in Nat /\ Len(items') = Len(items)
      /\ i \in Nat /\ i - 1 \in Nat /\ i' # 1 /\ i' - 1 = i
      /\ \A n \in 1 .. Len(items) :
           /\ items'[n].monto = items[n].monto
           /\ items'[n].ret = IF n = i THEN [k \in Tax |-> Share(k)] ELSE items[n].ret
  BY <1>1, ShareItemFacts
<1>3. items[i].monto \in Nat /\ AllItems \in Nat
  BY InShare, AllItemsNat DEF InvoiceInv
<1>4. ASSUME NEW k \in Tax, Or0(withheld[k]) >= 0 PROVE SharedSoFar(k)'
  <2>1. PICK p, q : /\ Running(p, Len(items)) /\ AllItems = p[Len(items)]
                    /\ Borne(k, q, i - 1)
                    /\ q[i - 1] = assigned[k]
                    /\ InPart(assigned[k], Or0(withheld[k]), p[i - 1], i - 1, AllItems)
    BY <1>1, <1>2, <1>4 DEF Retained, SharedSoFar
  <2>2. Share(k) \in Int /\ assigned[k] \in Nat /\ Or0(withheld[k]) \in Nat
    <3>1. Share(k) \in Int /\ Or0(withheld[k]) \in Int
      BY <1>1, ShareType, WithheldInt DEF InvoiceInv
    <3> QED BY <1>4, <2>1, <3>1 DEF InPart
  <2>3. /\ p \in [Nat -> Nat] /\ p[i - 1] \in Nat /\ p[i] = p[i - 1] + items[i].monto
        /\ p[i - 1] <= AllItems
    <3>1. p \in [Nat -> Nat] /\ p[i] = p[i - 1] + items[i].monto /\ p[i] <= AllItems
      BY <1>2, <2>1 DEF Running
    <3>2. p[i - 1] \in Nat
      BY <1>2, <3>1
    <3> QED BY <1>3, <3>1, <3>2
  <2>4. q \in [Nat -> Int] /\ q[0] = 0 /\ \A m \in 1 .. i - 1 : q[m] = q[m - 1] + Or0(items[m].ret[k])
    BY <2>1 DEF Borne
  <2>5. PICK r \in [Nat -> Int] : \A m \in Nat : r[m] = IF m = i THEN assigned[k] + Share(k) ELSE q[m]
    <3> DEFINE t == [q EXCEPT ![i] = assigned[k] + Share(k)]
    <3>1. t \in [Nat -> Int] /\ \A m \in Nat : t[m] = IF m = i THEN assigned[k] + Share(k) ELSE q[m]
      BY <1>2, <2>2, <2>4
    <3> HIDE DEF t
    <3> QED BY <3>1
  <2>6. r[0] = 0 /\ r[i] = assigned[k] + Share(k) /\ r[i - 1] = assigned[k]
    <3>1. 0 # i /\ i - 1 # i
      BY <1>2
    <3> QED BY <1>2, <2>1, <2>4, <2>5, <3>1
  <2>7. ASSUME NEW m \in 1 .. i PROVE r[m] = r[m - 1] + Or0(items'[m].ret[k])
    <3>1. CASE m = i
      <4>1. items'[i].ret[k] = Share(k)
        BY <1>2
      <4>2. Or0(Share(k)) = Share(k)
        <5>1. None \notin Int
          BY Documents DEF InvoiceInv, Stage
        <5> QED BY <2>2, <5>1 DEF Or0
      <4> QED BY <2>6, <3>1, <4>1, <4>2
    <3>2. CASE m # i
      <4>1. m \in 1 .. i - 1 /\ m \in Nat /\ m - 1 \in Nat /\ m - 1 # i /\ m \in 1 .. Len(items)
        BY <1>2, <3>2
      <4>2. items'[m].ret = items[m].ret
        BY <1>2, <3>2, <4>1
      <4> QED BY <2>4, <2>5, <3>2, <4>1, <4>2
    <3> QED BY <3>1, <3>2
  <2>8. Borne(k, r, i - 1)'
    BY <1>2, <2>5, <2>6, <2>7 DEF Borne
  <2>9. Running(p, Len(items))' /\ AllItems' = p[Len(items')]
    BY <1>1, <1>2, <2>1 DEF Running
  <2>10. CASE i = Len(items)
    <3>1. Share(k) = Max0(Or0(withheld[k]) - assigned[k])
      BY <2>10 DEF Share
    <3>2. r[i] - Or0(withheld[k]) \in 0 .. (i - 1 + 1) \div 2
      <4>1. Or0(withheld[k]) \in Nat /\ p[i - 1] \in Nat /\ i - 1 \in Nat /\ AllItems \in Nat
            /\ p[i - 1] <= AllItems
        BY <1>2, <1>3, <2>2, <2>3
      <4>2. r[i] = assigned[k] + Max0(Or0(withheld[k]) - assigned[k])
        BY <2>6, <3>1
      <4> QED BY <2>1, <4>1, <4>2, LastPart
    <3>3. i - 1 + 1 = Len(items') /\ ~(i' <= Len(items'))
      BY <1>1, <1>2, <2>10
    <3>4. r[i' - 1] - Or0(withheld'[k]) \in 0 .. Len(items') \div 2
      BY <1>1, <1>2, <3>2, <3>3
    <3> QED BY <2>8, <2>9, <3>3, <3>4 DEF SharedSoFar, Running, Borne
  <2>11. CASE i # Len(items)
    <3>1. Share(k) = IF AllItems = 0 THEN 0 ELSE Rounded(Or0(withheld[k]) * items[i].monto, AllItems)
      BY <2>11 DEF Share
    <3>2. InPart(assigned[k] + Share(k), Or0(withheld[k]), p[i - 1] + items[i].monto, i - 1 + 1, AllItems)
      <4>1. Or0(withheld[k]) \in Nat /\ p[i - 1] \in Nat /\ i - 1 \in Nat /\ AllItems \in Nat
            /\ items[i].monto \in Nat
        BY <1>2, <1>3, <2>2, <2>3
      <4> QED BY <2>1, <3>1, <4>1, OneMorePart
    <3>3. assigned'[k] = assigned[k] + Share(k)
      BY <2>11 DEF ShareItem
    <3>4. i' - 1 = i /\ i - 1 + 1 = i
      BY <1>2
    <3>5. /\ r[i' - 1] = assigned'[k]
          /\ InPart(assigned'[k], Or0(withheld'[k]), p[i' - 1], i' - 1, AllItems')
      BY <1>1, <2>3, <2>6, <3>2, <3>3, <3>4
    <3>6. i' <= Len(items')
      BY <1>1, <1>2, <2>11
    <3> QED BY <2>8, <2>9, <3>5, <3>6 DEF SharedSoFar, Running, Borne
  <2> QED BY <2>10, <2>11
<1> QED BY <1>1, <1>2, <1>4 DEF Retained

LEMMA RetainedEndShares == ASSUME InvoiceInv, Retained, EndShares PROVE Retained'
<1>1. /\ step = "prorate" /\ step' = "write" /\ i' = 1 /\ items' = items /\ inv' = inv
      /\ withheld' = withheld /\ read' = read /\ i' - 1 = 0
      /\ i > Len(items) \/ withheld = None \/ (i = 1 /\ LinesWithhold)
  BY DEF EndShares, Goto
<1>2. Unasked' <=> Unasked
  BY <1>1 DEF Unasked
<1>3. ASSUME Unasked, withheld # None, NEW k \in Tax, Or0(withheld[k]) >= 0
      PROVE  ReadSoFar(k)'
  <2>1. ~(i = 1 /\ LinesWithhold)
    <3> SUFFICES ASSUME i = 1 PROVE ~LinesWithhold
      OBVIOUS
    <3>1. NoneYet
      BY <1>1, <1>3 DEF Retained
    <3>2. \A n \in DOMAIN items, t \in Tax : items[n].ret[t] = None \/ items[n].ret[t] = 0
      BY <3>1 DEF NoneYet, Or0
    <3> QED BY <3>2 DEF LinesWithhold
  <2>2. i - 1 = Len(items) /\ ~(i <= Len(items))
    <3>1. i > Len(items)
      BY <1>1, <1>3, <2>1
    <3>2. i \in Nat /\ Len(items) \in Nat /\ i <= Len(items) + 1
      BY <1>1 DEF InvoiceInv, Stage, TypeOK
    <3> QED BY <3>1, <3>2
  <2>3. PICK q : /\ Borne(k, q, Len(items))
                 /\ q[Len(items)] - Or0(withheld[k]) \in 0 .. Len(items) \div 2
    BY <1>1, <1>3, <2>2 DEF Retained, SharedSoFar
  <2>4. read.ret[k] = 0 /\ q[0] = 0
    BY <1>1, <2>3 DEF InvoiceInv, Stage, Zero, Borne
  <2>5. Borne(k, q, Len(items))'
    BY <1>1, <2>3 DEF Borne
  <2> QED BY <1>1, <2>3, <2>4, <2>5 DEF ReadSoFar, Borne
<1> QED BY <1>1, <1>2, <1>3 DEF Retained

LEMMA RetainedWriteItem == ASSUME InvoiceInv, Retained, WriteItem PROVE Retained'
<1>1. /\ step = "write" /\ step' = "write" /\ i' = i + 1 /\ items' = items /\ inv' = inv
      /\ withheld' = withheld
      /\ read' = [monto |-> read.monto + items[i].monto,
                  ret |-> [k \in Tax |-> read.ret[k] + ShownRetention(items[i], k)]]
  BY DEF WriteItem
<1>2. i \in 1 .. Len(items) /\ i' - 1 = i
  BY <1>1, InShare
<1>3. Unasked' <=> Unasked
  BY <1>1 DEF Unasked
<1>4. ASSUME Unasked, withheld # None, NEW k \in Tax, Or0(withheld[k]) >= 0
      PROVE  ReadSoFar(k)'
  <2>1. PICK q : /\ Borne(k, q, Len(items))
                 /\ q[Len(items)] - Or0(withheld[k]) \in 0 .. Len(items) \div 2
                 /\ ~(inv.tipo = 47 /\ k = "ITBIS") => read.ret[k] = q[i - 1]
    BY <1>1, <1>4 DEF Retained, ReadSoFar
  <2>2. q[i] = q[i - 1] + Or0(items[i].ret[k])
    BY <1>2, <2>1 DEF Borne
  <2>3. ASSUME ~(inv.tipo = 47 /\ k = "ITBIS") PROVE read'.ret[k] = q[i' - 1]
    <3>1. ShownRetention(items[i], k) = Or0(items[i].ret[k])
      BY <1>4, <2>3 DEF ShownRetention
    <3> QED BY <1>1, <1>2, <2>1, <2>2, <2>3, <3>1
  <2>4. Borne(k, q, Len(items))'
    BY <1>1, <2>1 DEF Borne
  <2> QED BY <1>1, <2>1, <2>3, <2>4 DEF ReadSoFar, Borne
<1> QED BY <1>1, <1>3, <1>4 DEF Retained

LEMMA RetainedFinish == ASSUME InvoiceInv, Retained, Finish PROVE Retained'
<1>1. /\ step = "write" /\ step' = "done" /\ i > Len(items) /\ items' = items /\ inv' = inv
      /\ withheld' = withheld /\ read' = read
  BY DEF Finish, Goto
<1>2. i - 1 = Len(items)
  <2>1. i \in Nat /\ Len(items) \in Nat /\ i <= Len(items) + 1
    BY <1>1 DEF InvoiceInv, Stage, TypeOK
  <2> QED BY <1>1, <2>1
<1>3. Unasked' <=> Unasked
  BY <1>1 DEF Unasked
<1>4. ASSUME Unasked, withheld # None, NEW k \in Tax, Or0(withheld[k]) >= 0
      PROVE  ReadSoFar(k)'
  <2>1. PICK q : /\ Borne(k, q, Len(items))
                 /\ q[Len(items)] - Or0(withheld[k]) \in 0 .. Len(items) \div 2
                 /\ ~(inv.tipo = 47 /\ k = "ITBIS") => read.ret[k] = q[Len(items)]
    BY <1>1, <1>2, <1>4 DEF Retained, ReadSoFar
  <2>2. Borne(k, q, Len(items))'
    BY <1>1, <2>1 DEF Borne
  <2> QED BY <1>1, <2>1, <2>2 DEF ReadSoFar, Borne
<1> QED BY <1>1, <1>3, <1>4 DEF Retained

LEMMA RetainedHolds == Spec => []Retained
<1>1. Init => Retained
  BY DEF Init, Retained, Goto
<1>2. InvoiceInv /\ InvoiceInv' /\ Billed /\ Billed' /\ Retained /\ [Next]_vars => Retained'
  <2> SUFFICES ASSUME InvoiceInv, InvoiceInv', Billed, Billed', Retained, [Next]_vars PROVE Retained'
    OBVIOUS
  <2>1. CASE UNCHANGED vars
    <3>1. /\ items' = items /\ step' = step /\ i' = i /\ inv' = inv /\ withheld' = withheld
          /\ assigned' = assigned /\ read' = read /\ AllItems' = AllItems
      BY <2>1 DEF vars, AllItems, ShownItems
    <3>2. \A k \in Tax : SharedSoFar(k) => SharedSoFar(k)'
      BY ZenonT(30), <3>1 DEF SharedSoFar, Borne, Running
    <3>3. \A k \in Tax : ReadSoFar(k) => ReadSoFar(k)'
      BY <3>1 DEF ReadSoFar, Borne
    <3>4. (Unasked' <=> Unasked) /\ (NoneYet' <=> NoneYet)
      BY <3>1 DEF Unasked, NoneYet
    <3> QED BY <3>1, <3>2, <3>3, <3>4 DEF Retained
  <2> QED BY <2>1, RetainedValidate, RetainedTakeLine, RetainedEndLines, RetainedConvertItem,
             RetainedTakeTotals, RetainedShareItem, RetainedEndShares, RetainedWriteItem,
             RetainedFinish DEF Next
<1> QED BY <1>1, <1>2, InvoiceInvHolds, BilledHolds, PTL DEF Spec

\* A document's retention reaches its items to the last cent, for any number of
\* them and whatever each bills.
THEOREM RetentionReachesTheItems == Spec => []RetentionIsShared
<1>1. InvoiceInv /\ Retained => RetentionIsShared
  <2> SUFFICES ASSUME InvoiceInv, Retained, Done, withheld # None, ~BelowZero, Unasked,
                      NEW k \in IF inv.tipo = 47 THEN {"ISR"} ELSE Tax
               PROVE  read.ret[k] - Or0(withheld[k]) \in 0 .. Len(items) \div 2
    BY DEF RetentionIsShared, Unasked
  <2>1. k \in Tax /\ ~(inv.tipo = 47 /\ k = "ITBIS")
    BY DEF Tax
  <2>2. Or0(withheld[k]) >= 0
    <3>1. WithheldHolds /\ TypeOK /\ inv \in Invoices /\ Valid /\ TotalsHold(totals.dop)
      BY DEF InvoiceInv, Stage, Done
    <3>2. Withheld # None /\ Withheld \in [Tax -> Nat \cup {None}]
      BY <3>1, WithheldType DEF WithheldHolds
    <3>3. withheld[k] \in Nat \cup {None} \/ (Foreign /\ withheld[k] = totals.dop.itbis)
      BY <2>1, <3>1, <3>2 DEF WithheldHolds
    <3>4. CASE withheld[k] \in Nat \cup {None}
      BY <3>4 DEF Or0
    <3>5. CASE Foreign /\ withheld[k] = totals.dop.itbis
      <4>1. totals.dop.itbis \in Int
        BY <3>1, <3>5 DEF TotalsHold
      <4>2. totals.dop.itbis >= 0
        BY <4>1 DEF BelowZero
      <4> QED BY <3>5, <4>1, <4>2 DEF Or0
    <3> QED BY <3>3, <3>4, <3>5
  <2>3. PICK q : /\ q[Len(items)] - Or0(withheld[k]) \in 0 .. Len(items) \div 2
                 /\ read.ret[k] = q[Len(items)]
    BY <2>1, <2>2 DEF Retained, ReadSoFar, Done
  <2> QED BY <2>3
<1> QED BY <1>1, InvoiceInvHolds, RetainedHolds, PTL

-----------------------------------------------------------------------------
(* Items that add up. *)

\* The product of price and quantity, discount d taken off, is the amount.
Near(price, qty, d, amount) == Abs(Max0(Priced(price, qty) - d) - amount) <= 5

Right(x) == Near(x.price, x.qty, x.disc, x.monto)

\* A price worked out to four decimals gives the amount back, up to five cents.
LEMMA PriceGivesBack ==
  ASSUME NEW amount \in Nat, NEW qty \in Nat \ {0}, qty <= 100000, NEW m, m = 10 * qty
  PROVE  Abs(Priced(Rounded(amount * 100000, m), qty) - amount) <= 5
<1> DEFINE a == amount * 100000
           p == Rounded(a, m)
           r == Rounded(p * qty, 10000)
<1>1. a \in Nat /\ m \in Nat \ {0}
  OBVIOUS
<1>2. p \in Nat /\ 2 * (m * p) <= 2 * a + m /\ 2 * a < 2 * (m * p) + m
  <2> HIDE DEF a
  <2> QED BY <1>1, RoundedNear
<1>3. p * qty \in Nat /\ m * p = 10 * (p * qty)
  <2> HIDE DEF p
  <2>1. \A x \in Nat, y \in Nat : x * y \in Nat /\ (10 * y) * x = 10 * (x * y)
    OBVIOUS
  <2> QED BY <1>2, <2>1
<1>4. r \in Nat /\ 20000 * r <= 2 * (p * qty) + 10000 /\ 2 * (p * qty) < 20000 * r + 10000
  <2> DEFINE n == p * qty
  <2> HIDE DEF p
  <2>1. n \in Nat
    BY <1>3
  <2> HIDE DEF n
  <2>2. 10000 \in Nat \ {0}
    OBVIOUS
  <2>3. Rounded(n, 10000) \in Nat /\ 2 * (10000 * Rounded(n, 10000)) <= 2 * n + 10000
        /\ 2 * n < 2 * (10000 * Rounded(n, 10000)) + 10000
    BY <2>1, <2>2, RoundedNear
  <2>4. r = Rounded(n, 10000)
    BY DEF n
  <2> QED BY <2>3, <2>4 DEF n
<1>5. 20000 * r <= 20000 * amount + 110000 /\ 20000 * amount < 20000 * r + 110000
  <2> DEFINE n == p * qty
  <2>1. 2 * n <= 20000 * amount + qty /\ 20000 * amount < 2 * n + qty /\ n \in Nat
    <3>1. 2 * a = 200000 * amount
      OBVIOUS
    <3>2. 2 * (10 * n) <= 200000 * amount + 10 * qty /\ 200000 * amount < 2 * (10 * n) + 10 * qty
      <4> HIDE DEF p, a
      <4> QED BY <1>2, <1>3, <3>1
    <3>3. n \in Nat
      BY <1>3
    <3> HIDE DEF n
    <3> QED BY <3>2, <3>3
  <2>2. r \in Nat /\ 20000 * r <= 2 * n + 10000 /\ 2 * n < 20000 * r + 10000
    BY <1>4
  <2> HIDE DEF n, r
  <2> QED BY <2>1, <2>2
<1>6. Abs(r - amount) <= 5
  <2>1. r \in Nat
    BY <1>4
  <2> HIDE DEF r
  <2> QED BY <1>5, <2>1 DEF Abs
<1> QED BY <1>6 DEF Priced

\* Nothing of an exact line is lost when its price and quantity are rounded.
LEMMA ExactFacts ==
  ASSUME NEW l \in GoodLine, Exact(l)
  PROVE  /\ Qty(l) = 10 * SafeQty(l) /\ SafeQty(l) \in Nat \ {0}
         /\ Price(l) > 0 => Product(l) = Priced(Rounded(Price(l), 10), SafeQty(l))
<1>1. Qty(l) \in Nat \ {0} /\ Price(l) \in Int /\ Qty(l) % 10 = 0 /\ Price(l) % 10 = 0
  BY LineFacts DEF Exact
<1>2. PICK q \in Nat \ {0} : Qty(l) = 10 * q
  <2>1. Qty(l) = 10 * (Qty(l) \div 10) /\ Qty(l) \div 10 \in Nat \ {0}
    BY <1>1
  <2> QED BY <2>1
<1>3. SafeQty(l) = q
  BY <1>2 DEF SafeQty, Rounded
<1>4. ASSUME Price(l) > 0 PROVE Product(l) = Priced(Rounded(Price(l), 10), SafeQty(l))
  <2>1. PICK p \in Nat : Price(l) = 10 * p
    <3>1. Price(l) = 10 * (Price(l) \div 10) /\ Price(l) \div 10 \in Nat
      BY <1>1, <1>4
    <3> QED BY <3>1
  <2>2. Rounded(Price(l), 10) = p
    BY <2>1 DEF Rounded
  <2>3. p * q \in Nat /\ Price(l) * Qty(l) = 100 * (p * q)
    <3>1. \A x \in Nat, y \in Nat : x * y \in Nat /\ (10 * x) * (10 * y) = 100 * (x * y)
      OBVIOUS
    <3> QED BY <1>2, <2>1, <3>1
  <2>4. \A n \in Nat : Rounded(100 * n, 1000000) = Rounded(n, 10000)
    BY DEF Rounded
  <2> QED BY <1>3, <2>2, <2>3, <2>4 DEF Product, Priced, Unit
<1> QED BY <1>2, <1>3, <1>4

\* Taking whole cents off before rounding or after it comes to the same, where
\* something is left, and to nothing or less where not.
LEMMA NetOfDiscount ==
  ASSUME NEW n \in Nat, NEW d \in Nat, NEW r, r = Rounded(n, 10000),
         NEW net, net = Rounded(n - d * 10000, 10000)
  PROVE  /\ r \in Nat /\ net \in Int
         /\ Max0(net) = Max0(r - d)
         /\ net = r - d \/ (net <= 0 /\ r - d <= 0 /\ net - (r - d) \in -1 .. 1)
<1>1. r = (2 * n + 10000) \div 20000
  BY DEF Rounded
<1>2. CASE n >= d * 10000
  <2>1. net = (2 * (n - d * 10000) + 10000) \div 20000
    BY <1>2 DEF Rounded
  <2>2. 2 * (n - d * 10000) + 10000 = 2 * n + 10000 - d * 20000
    OBVIOUS
  <2>3. net = r - d
    BY <1>1, <2>1, <2>2
  <2> QED BY <1>1, <2>3
<1>3. CASE n < d * 10000
  <2>1. net = -((10000 - 2 * (n - d * 10000)) \div 20000)
    BY <1>3 DEF Rounded
  <2>2. 10000 - 2 * (n - d * 10000) = 10000 + d * 20000 - 2 * n
    OBVIOUS
  <2>3. net = -((10000 + d * 20000 - 2 * n) \div 20000)
    BY <2>1, <2>2
  <2>4. r \in Nat /\ net \in Int /\ net <= 0 /\ r - d <= 0 /\ net - (r - d) \in -1 .. 1
    BY <1>1, <1>3, <2>3
  <2> QED BY <2>4 DEF Max0
<1> QED BY <1>2, <1>3

\* The price and the amount an item is made of go together.
LEMMA PriceMeetsAmount ==
  ASSUME NEW l \in GoodLine, Fits(l), ~Worthless(l),
         NEW p, p = SafePrice(l), NEW a, a = SafeAmount(l), NEW q, q = SafeQty(l)
  PROVE  /\ p \in Nat /\ a \in Nat /\ q \in Nat \ {0} /\ Priced(p, q) \in Nat
         /\ \/ Abs(Priced(p, q) - a) <= 5
            \/ Abs(Priced(p, q) - l.disc - a) <= 4
<1>1. l.amount \in Int /\ Price(l) \in Int /\ Qty(l) \in Nat \ {0}
  BY LineFacts
<1>2. p \in Nat /\ a \in Nat
  BY SafeFacts
<1>3. /\ Qty(l) = 10 * q /\ q \in Nat \ {0}
      /\ Price(l) > 0 => Product(l) = Priced(Rounded(Price(l), 10), q)
  BY ExactFacts DEF Fits
<1>4. Priced(p, q) \in Nat
  BY <1>2, <1>3, PricedNat
<1>5. Price(l) > 0 => p = Rounded(Price(l), 10)
  <2>1. Price(l) > 0 => Rounded(Price(l), 10) \in Nat
    BY <1>1, RoundedNear
  <2> QED BY <1>1, <2>1 DEF SafePrice, Max0
<1>6. CASE l.amount <= 0 /\ Price(l) > 0
  <2>1. a = Priced(p, q)
    BY <1>3, <1>5, <1>6 DEF SafeAmount
  <2> QED BY <1>2, <1>3, <1>4, <2>1 DEF Abs
<1>7. CASE l.amount > 0 /\ Price(l) <= 0
  <2>1. a = l.amount /\ q <= 100000
    BY <1>1, <1>3, <1>7 DEF SafeAmount, Max0, Fits
  <2>2. p = Rounded(a * 100000, Qty(l))
    BY <1>7, <2>1 DEF SafePrice
  <2>3. Abs(Priced(Rounded(a * 100000, Qty(l)), q) - a) <= 5
    BY <1>2, <1>3, <2>1, PriceGivesBack
  <2> QED BY <1>2, <1>3, <1>4, <2>2, <2>3
<1>8. CASE l.amount > 0 /\ Price(l) > 0
  <2>1. a = l.amount
    BY <1>1, <1>8 DEF SafeAmount, Max0
  <2>2. Abs(Product(l) - l.disc - l.amount) <= 4 \/ Abs(Product(l) - l.amount) <= 5
    BY <1>1, <1>8 DEF Fits
  <2> QED BY <1>2, <1>3, <1>4, <1>5, <1>8, <2>1, <2>2
<1> QED BY <1>1, <1>6, <1>7, <1>8 DEF Worthless

LEMMA DiscountedIsNear ==
  ASSUME NEW price \in Nat, NEW qty \in Nat \ {0}, NEW amount \in Nat, NEW d \in Nat,
         \/ Abs(Priced(price, qty) - amount) <= 5
         \/ Abs(Priced(price, qty) - d - amount) <= 4,
         NEW f, f = Discounted(price, qty, amount, d)
  PROVE  Near(f.price, qty, f.disc, f.monto)
<1> DEFINE net == Rounded(price * qty - d * 10000, 10000)
           fits(p) == Abs(Priced(p, qty) - d - amount) <= 1
           gross2 == 100 * Rounded((amount + d) * 100, qty)
           gross4 == Rounded((amount + d) * 10000, qty)
           r == Priced(price, qty)
<1>1. /\ r \in Nat /\ net \in Int
      /\ Max0(net) = Max0(r - d)
      /\ net = r - d \/ (net <= 0 /\ r - d <= 0 /\ net - (r - d) \in -1 .. 1)
  <2>1. price * qty \in Nat /\ r = Rounded(price * qty, 10000)
    BY DEF Priced
  <2> QED BY <2>1, NetOfDiscount
<1>2. gross2 \in Int /\ gross4 \in Int
  <2>1. (amount + d) * 100 \in Int /\ (amount + d) * 10000 \in Int
    OBVIOUS
  <2>2. Rounded((amount + d) * 100, qty) \in Int /\ gross4 \in Int
    BY <2>1, RoundedInt
  <2> QED BY <2>2
<1> HIDE DEF net, gross2, gross4, r
<1>3. ASSUME NEW g \in Int, fits(g) PROVE Near(g, qty, d, amount)
  <2>1. Priced(g, qty) \in Int
    BY PricedInt
  <2> QED BY <1>3, <2>1 DEF Near, Abs, Max0
<1>4. CASE (amount = 0 /\ price > 0) \/ Abs(amount - net) <= 5
  <2>1. f = [price |-> price, disc |-> d, monto |-> Max0(net)]
    BY <1>4 DEF Discounted, net
  <2>2. Abs(Max0(r - d) - Max0(r - d)) <= 5
    BY <1>1 DEF Abs, Max0
  <2> QED BY <1>1, <2>1, <2>2 DEF Near, r
<1>5. CASE /\ ~((amount = 0 /\ price > 0) \/ Abs(amount - net) <= 5)
           /\ qty > 0 /\ Abs(Priced(price, qty) - amount) <= 5 /\ (fits(gross2) \/ fits(gross4))
  <2>1. f = [price |-> IF fits(gross2) THEN gross2 ELSE gross4, disc |-> d, monto |-> amount]
    BY <1>5, SMT DEF Discounted, net, gross2, gross4
  <2> HIDE DEF fits
  <2>2. CASE fits(gross2)
    BY <1>2, <1>3, <2>1, <2>2
  <2>3. CASE ~fits(gross2)
    BY <1>2, <1>3, <1>5, <2>1, <2>3
  <2> QED BY <2>2, <2>3
<1>6. CASE /\ ~((amount = 0 /\ price > 0) \/ Abs(amount - net) <= 5)
           /\ ~(qty > 0 /\ Abs(Priced(price, qty) - amount) <= 5 /\ (fits(gross2) \/ fits(gross4)))
  <2>1. f = [price |-> price, disc |-> 0, monto |-> amount]
    BY <1>6, SMT DEF Discounted, net, gross2, gross4
  <2>2. ~(Abs(r - d - amount) <= 4)
    BY <1>1, <1>6 DEF Abs
  <2>3. Abs(r - amount) <= 5
    BY <2>2 DEF r
  <2>4. Abs(Max0(r - 0) - amount) <= 5
    BY <1>1, <2>3 DEF Max0
  <2> QED BY <2>1, <2>4 DEF Near, r
<1> QED BY <1>4, <1>5, <1>6

LEMMA PlainIsNear ==
  ASSUME NEW price \in Nat, NEW qty \in Nat \ {0}, NEW amount \in Nat,
         Abs(Priced(price, qty) - amount) <= 5 \/ Abs(Priced(price, qty) - 0 - amount) <= 4,
         NEW f, f = Plain(price, qty, amount)
  PROVE  f.disc = 0 /\ Near(f.price, qty, f.disc, f.monto)
<1> DEFINE r == Priced(price, qty)
<1>1. r \in Nat
  BY PricedNat
<1>2. f.price = price /\ f.disc = 0 /\ f.monto \in {r, amount}
  BY DEF Plain
<1> HIDE DEF r
<1>3. Abs(Max0(r - 0) - r) <= 5 /\ Abs(Max0(r - 0) - amount) <= 5
  BY <1>1 DEF Abs, Max0, r
<1> QED BY <1>2, <1>3 DEF Near, r

\* The item made of a line adds up, and has a discount only if the line has.
LEMMA NewItemIsRight ==
  ASSUME NEW l \in GoodLine, Fits(l), ~Worthless(l)
  PROVE  Right(NewItem(l)) /\ (l.disc = 0 => NewItem(l).disc = 0)
<1>1. PICK p, a, q : p = SafePrice(l) /\ a = SafeAmount(l) /\ q = SafeQty(l)
  OBVIOUS
<1>2. /\ p \in Nat /\ a \in Nat /\ q \in Nat \ {0}
      /\ \/ Abs(Priced(p, q) - a) <= 5
         \/ Abs(Priced(p, q) - l.disc - a) <= 4
  BY <1>1, PriceMeetsAmount
<1>3. l.disc \in Nat
  BY LineFacts
<1>4. PICK f : f = IF l.disc > 0 THEN Discounted(p, q, a, l.disc) ELSE Plain(p, q, a)
  OBVIOUS
<1>5. Near(f.price, q, f.disc, f.monto) /\ (l.disc = 0 => f.disc = 0)
  <2>1. CASE l.disc > 0
    BY <1>2, <1>3, <1>4, <2>1, DiscountedIsNear
  <2>2. CASE l.disc = 0
    <3>1. f = Plain(p, q, a)
      BY <1>4, <2>2
    <3>2. Abs(Priced(p, q) - a) <= 5 \/ Abs(Priced(p, q) - 0 - a) <= 4
      BY <1>2, <2>2
    <3> QED BY <1>2, <1>3, <3>1, <3>2, PlainIsNear
  <2> QED BY <1>3, <2>1, <2>2
<1>6. /\ NewItem(l).price = f.price /\ NewItem(l).qty = q /\ NewItem(l).disc = f.disc
      /\ NewItem(l).monto = f.monto
  BY <1>1, <1>4 DEF NewItem
<1> QED BY <1>5, <1>6 DEF Right

LEMMA FoldedIsRight ==
  ASSUME NEW x \in Item, NEW d \in Nat, d % Unit = 0, Right(x)
  PROVE  Right(Folded(x, d))
<1> DEFINE r == Priced(x.price, x.qty)
<1>1. x.disc \in Nat /\ x.monto \in Nat /\ r \in Nat
  <2>1. x.disc \in Nat /\ x.monto \in Nat /\ x.price \in Nat /\ x.qty \in Nat
    BY DEF Item
  <2> QED BY <2>1, PricedNat
<1>2. Abs(Max0(r - x.disc) - x.monto) <= 5
  BY DEF Right, Near
<1> HIDE DEF r
<1>3. PICK c \in Nat : d = c * 1000000
  <2>1. d = (d \div 1000000) * 1000000 /\ d \div 1000000 \in Nat
    BY DEF Unit
  <2> QED BY <2>1
<1>4. /\ Rounded(x.disc * Unit + d, Unit) = x.disc + c
      /\ Rounded(x.monto * Unit - d, Unit) = x.monto - c
  BY <1>1, <1>3 DEF Rounded, Unit
<1>5. Abs(Max0(r - (x.disc + c)) - Max0(x.monto - c)) <= 5
  BY <1>1, <1>2 DEF Abs, Max0
<1> QED BY <1>4, <1>5, FoldedType DEF Right, Near, r

LEMMA ConvertedIsRight ==
  ASSUME inv \in Invoices, Valid, NEW x \in Item, Right(x),
         inv.tipo \in {43, 47} => x.disc = 0
  PROVE  /\ Right(Converted(x))
         /\ inv.tipo \in {43, 47} => Converted(x).disc = 0
<1> DEFINE d == AtRate(ShownDiscount(x), Rate)
           whole == AtRate(x.monto, Rate)
           unit == AtRate(x.price, Rate)
<1>1. x.disc \in Nat /\ x.monto \in Nat /\ x.price \in Nat /\ x.qty \in Nat /\ Rate \in Nat
  BY RateNat DEF Item
<1>2. ShownDiscount(x) = x.disc
  BY DEF ShownDiscount
<1>3. d \in Nat /\ whole \in Nat /\ unit \in Nat /\ (inv.tipo \in {43, 47} => d = 0)
  BY ZenonT(30), <1>1, <1>2, AtRateNat, AtRateZero
<1>4. /\ Converted(x).price = InPesos(x).price /\ Converted(x).disc = InPesos(x).disc
      /\ Converted(x).monto = InPesos(x).monto /\ Converted(x).qty = x.qty
  BY ConvertedType
<1> HIDE DEF d, whole, unit
<1>5. CASE ~Foreign
  BY <1>2, <1>4, <1>5 DEF InPesos, Right
<1>6. CASE Foreign /\ x.qty = 100 /\ d = 0
  <2>1. InPesos(x) = [price |-> whole * 100, disc |-> 0, monto |-> whole]
    BY <1>6 DEF InPesos, d, whole
  <2>2. Priced(whole * 100, 100) = whole
    BY <1>3 DEF Priced, Rounded
  <2>3. Abs(Max0(whole - 0) - whole) <= 5
    BY <1>3 DEF Abs, Max0
  <2> QED BY <1>4, <1>6, <2>1, <2>2, <2>3 DEF Right, Near
<1>7. CASE Foreign /\ ~(x.qty = 100 /\ d = 0)
  <2>1. InPesos(x) = [price |-> unit, disc |-> d, monto |-> Max0(Priced(unit, x.qty) - d)]
    BY <1>7 DEF InPesos, d, unit
  <2>2. Priced(unit, x.qty) \in Nat
    BY <1>1, <1>3, PricedNat
  <2>3. \A m \in Nat : Abs(m - m) <= 5
    BY DEF Abs
  <2>4. Max0(Priced(unit, x.qty) - d) \in Nat
    BY <1>3, <2>2, Max0Nat
  <2> QED BY <1>3, <1>4, <2>1, <2>3, <2>4 DEF Right, Near
<1> QED BY <1>5, <1>6, <1>7

\* Lines that add up make items that add up.
Summing == ~HidesDiscount /\ \A n \in DOMAIN inv.lines : Fits(inv.lines[n])

Additive ==
  Summing /\ step # "refused" =>
    \A n \in DOMAIN items : Right(items[n]) /\ (inv.tipo \in {43, 47} => items[n].disc = 0)

LEMMA SameSumming == ASSUME inv' = inv PROVE Summing' <=> Summing
BY DEF Summing, HidesDiscount

LEMMA AdditiveTakeLine == ASSUME InvoiceInv, Additive, TakeLine PROVE Additive'
<1> SUFFICES ASSUME Summing PROVE Additive'
  BY SameSumming DEF TakeLine, Additive
<1>1. /\ step = "lines" /\ items' = TakenIn(inv.lines[i]) /\ inv' = inv
  BY DEF TakeLine
<1>2. items \in Seq(Item) /\ Valid /\ inv \in Invoices /\ i \in DOMAIN inv.lines /\ Len(items) \in Nat
  <2>1. items \in Seq(Item) /\ Valid /\ inv \in Invoices /\ i \in Nat \ {0} /\ i <= Len(inv.lines)
    BY DEF InvoiceInv, Stage, TypeOK, TakeLine
  <2> QED BY <2>1, Documents
<1>3. PICK l : l = inv.lines[i]
  OBVIOUS
<1>4. l \in GoodLine /\ Fits(l) /\ (inv.tipo \in {43, 47} => ~Negative(l) /\ l.disc = 0)
  <2>1. l \in GoodLine
    BY <1>2, <1>3, LinesChecked
  <2>2. l.disc \in Nat
    BY <2>1, LineFacts
  <2> QED BY <1>2, <1>3, <2>1, <2>2 DEF Summing, HidesDiscount
<1>5. \A n \in DOMAIN items : Right(items[n]) /\ (inv.tipo \in {43, 47} => items[n].disc = 0)
  BY <1>1 DEF Additive
<1>6. items' = TakenIn(l)
  BY <1>1, <1>3
<1>7. CASE /\ Negative(l)
           /\ Len(TakenIn(l)) = Len(items) /\ Len(items) \in DOMAIN items
           /\ \A n \in DOMAIN items :
                TakenIn(l)[n] = IF n = Len(items) THEN Folded(items[n], Discount(l)) ELSE items[n]
  <2>1. Right(Folded(items[Len(items)], Discount(l)))
    <3>1. items[Len(items)] \in Item /\ Discount(l) \in Nat /\ Right(items[Len(items)])
      BY <1>2, <1>4, <1>5, <1>7, ProductFacts
    <3>2. Discount(l) % Unit = 0
      BY <1>4, <1>7 DEF Fits, Exact
    <3> QED BY <3>1, <3>2, FoldedIsRight
  <2>2. items' \in Seq(Item)
    BY <1>2, <1>4, <1>6, TakenInCases
  <2>3. \A n \in DOMAIN items' : n \in DOMAIN items
    BY <1>2, <1>6, <1>7, <2>2
  <2>4. \A n \in DOMAIN items' : Right(items'[n])
    BY <1>5, <1>6, <1>7, <2>1, <2>3
  <2> QED BY <1>1, <1>4, <1>7, <2>4 DEF Additive
<1>8. CASE TakenIn(l) = items
  BY <1>1, <1>5, <1>6, <1>8 DEF Additive
<1>9. CASE /\ ~Worthless(l)
           /\ TakenIn(l) = Append(items, NewItem(l))
  <2>1. Right(NewItem(l)) /\ (inv.tipo \in {43, 47} => NewItem(l).disc = 0)
    BY <1>4, <1>9, NewItemIsRight
  <2>2. \A n \in DOMAIN items' : items'[n] = NewItem(l) \/ (n \in DOMAIN items /\ items'[n] = items[n])
    <3>1. NewItem(l) \in Item
      BY <1>4, NewItemType
    <3> QED BY <1>2, <1>6, <1>9, <3>1
  <2> QED BY <1>1, <1>5, <2>1, <2>2 DEF Additive
<1> QED BY <1>2, <1>4, <1>7, <1>8, <1>9, TakenInCases

LEMMA AdditiveEndLines == ASSUME InvoiceInv, Additive, EndLines PROVE Additive'
<1> SUFFICES ASSUME Summing PROVE Additive'
  BY SameSumming DEF EndLines, Additive
<1>1. /\ step = "lines" /\ inv' = inv /\ items' = IF items = <<>> THEN <<GeneralItem>> ELSE items
      /\ inv \in Invoices /\ Valid
  BY DEF EndLines, InvoiceInv, Stage
<1>2. CASE items = <<>>
  <2>1. \A n \in DOMAIN items' : items'[n] = GeneralItem
    BY <1>1, <1>2
  <2>2. FallbackTotal \in Nat
    <3>1. GeneralItem \in Item /\ GeneralItem.monto = FallbackTotal
      BY <1>1, GeneralItemType DEF GeneralItem
    <3> QED BY <3>1 DEF Item
  <2>3. \A t \in Nat : Near(t * 100, 100, 0, t)
    BY DEF Near, Priced, Rounded, Abs, Max0
  <2>4. Right(GeneralItem) /\ GeneralItem.disc = 0
    <3>1. Near(FallbackTotal * 100, 100, 0, FallbackTotal)
      BY <2>2, <2>3
    <3> QED BY <3>1 DEF Right, GeneralItem
  <2> QED BY <2>1, <2>4 DEF Additive
<1>3. CASE items # <<>>
  BY <1>1, <1>3 DEF Additive
<1> QED BY <1>2, <1>3

LEMMA AdditiveConvertItem == ASSUME InvoiceInv, Additive, ConvertItem PROVE Additive'
<1> SUFFICES ASSUME Summing PROVE Additive'
  BY SameSumming DEF ConvertItem, Additive
<1>1. PICK c : c = Converted(items[i])
  OBVIOUS
<1>2. /\ step = "convert" /\ inv' = inv /\ items' = [items EXCEPT ![i] = c]
  BY <1>1 DEF ConvertItem
<1>3. i \in DOMAIN items /\ items[i] \in Item /\ inv \in Invoices /\ Valid
  <2>1. /\ items \in Seq(Item \cup ItemWritten) /\ i \in Nat \ {0} /\ i <= Len(items)
        /\ \A n \in DOMAIN items : items[n] \in (IF n < i THEN ItemWritten ELSE Item)
        /\ inv \in Invoices /\ Valid
    BY DEF InvoiceInv, Stage, TypeOK, ConvertItem
  <2>2. i \in DOMAIN items /\ ~(i < i)
    BY <2>1
  <2> QED BY <2>1, <2>2
<1>4. \A n \in DOMAIN items : Right(items[n]) /\ (inv.tipo \in {43, 47} => items[n].disc = 0)
  BY <1>2 DEF Additive
<1>5. Right(c) /\ (inv.tipo \in {43, 47} => c.disc = 0)
  BY <1>1, <1>3, <1>4, ConvertedIsRight
<1>6. \A n \in DOMAIN items' : n \in DOMAIN items /\ items'[n] = IF n = i THEN c ELSE items[n]
  BY <1>2, <1>3
<1> QED BY <1>2, <1>4, <1>5, <1>6 DEF Additive

LEMMA AdditiveShareItem == ASSUME InvoiceInv, Additive, ShareItem PROVE Additive'
<1> SUFFICES ASSUME Summing PROVE Additive'
  BY SameSumming DEF ShareItem, Additive
<1>1. step = "prorate" /\ inv' = inv
  BY DEF ShareItem
<1>2. \A n \in DOMAIN items' :
        /\ n \in DOMAIN items
        /\ items'[n].monto = items[n].monto /\ items'[n].qty = items[n].qty
        /\ items'[n].price = items[n].price /\ items'[n].disc = items[n].disc
  <2>1. DOMAIN items' = 1 .. Len(items) /\ DOMAIN items = 1 .. Len(items)
    BY ShareItemFacts
  <2> QED BY <2>1, ShareItemFacts
<1>3. \A n \in DOMAIN items : Right(items[n]) /\ (inv.tipo \in {43, 47} => items[n].disc = 0)
  BY <1>1 DEF Additive
<1> QED BY <1>1, <1>2, <1>3 DEF Additive, Right

LEMMA AdditiveHolds == Spec => []Additive
<1>1. Init => Additive
  BY DEF Init, Additive
<1>2. InvoiceInv /\ Additive /\ [Next]_vars => Additive'
  <2> SUFFICES ASSUME InvoiceInv, Additive, [Next]_vars PROVE Additive'
    OBVIOUS
  <2>1. CASE Validate
    <3>1. items' = <<>>
      BY <2>1 DEF InvoiceInv, Stage, Validate
    <3> QED BY <3>1 DEF Additive
  <2>2. CASE TakeTotals \/ EndShares \/ WriteItem \/ Finish \/ UNCHANGED vars
    <3>1. items' = items /\ inv' = inv /\ (step' = "refused" <=> step = "refused")
      BY <2>2 DEF TakeTotals, EndShares, WriteItem, Finish, vars, Goto
    <3> QED BY <3>1, SameSumming DEF Additive
  <2> QED BY <2>1, <2>2, AdditiveTakeLine, AdditiveEndLines, AdditiveConvertItem, AdditiveShareItem
          DEF Next
<1> QED BY <1>1, <1>2, InvoiceInvHolds, PTL DEF Spec

\* Every item's price, quantity and discount give its amount, whatever way the
\* ERP sent the line and at any rate of exchange.
THEOREM EveryItemAddsUp == Spec => []ItemsAddUp
<1>1. Additive => ItemsAddUp
  BY DEF Additive, Summing, Done, ItemsAddUp, Right, Near
<1> QED BY <1>1, AdditiveHolds, PTL

-----------------------------------------------------------------------------
(* What the lines are worth. *)

\* A set of naturals has a least one, without which there is no first number at
\* which two sums differ.
LEMMA LeastNatural ==
  ASSUME NEW S, S \subseteq Nat, S # {}
  PROVE  \E x \in S : \A y \in S : x <= y
<1>1. PICK x \in S : \A y \in S : ~(<<y, x>> \in OpToRel(<, Nat))
  BY NatLessThanWellFounded, WFMin
<1>2. ASSUME NEW y \in S PROVE x <= y
  <2>1. ~(<<y, x>> \in OpToRel(<, Nat))
    BY <1>1
  <2>2. <<y, x>> \in Nat \X Nat /\ <<y, x>>[1] = y /\ <<y, x>>[2] = x
    OBVIOUS
  <2> QED BY <2>1, <2>2 DEF OpToRel
<1> QED BY <1>2

Nothing == [all |-> 0, last |-> 0]
Sums == [all : Int, last : Int]

LEMMA SumsAre ==
  /\ Nothing \in Sums /\ Nothing.all = 0 /\ Nothing.last = 0
  /\ \A b \in Sums : b.all \in Int /\ b.last \in Int
  /\ \A b \in Sums, c \in Sums : b.all = c.all /\ b.last = c.last => b = c
BY DEF Sums, Nothing

\* v[n] is what the first n lines come to.
Valued(v, n) ==
  /\ v \in [Nat -> Sums] /\ v[0] = Nothing
  /\ \A m \in 1 .. n : v[m] = Added(v[m - 1], inv.lines[m])

\* Balance is the sums it is written as.
LEMMA BalanceIs ==
  ASSUME Len(inv.lines) \in Nat, NEW v, Valued(v, Len(inv.lines))
  PROVE  \A n \in 0 .. Len(inv.lines) : Balance[n] = v[n]
<1> DEFINE N == Len(inv.lines)
           Sum(w) == [n \in 0 .. N |-> IF n = 0 THEN [all |-> 0, last |-> 0]
                                       ELSE Added(w[n - 1], inv.lines[n])]
           u == CHOOSE w : w = Sum(w)
<1>1. /\ v[0] = [all |-> 0, last |-> 0] /\ N \in Nat
      /\ \A n \in 1 .. N : v[n] = Added(v[n - 1], inv.lines[n])
  BY DEF Valued, Nothing
<1>2. u = Sum(u)
  <2>1. [n \in 0 .. N |-> v[n]] = Sum([n \in 0 .. N |-> v[n]])
    <3> DEFINE t == [n \in 0 .. N |-> v[n]]
    <3>1. ASSUME NEW n \in 0 .. N
          PROVE  t[n] = IF n = 0 THEN [all |-> 0, last |-> 0] ELSE Added(t[n - 1], inv.lines[n])
      <4>1. t[n] = v[n]
        OBVIOUS
      <4>2. n # 0 => n \in 1 .. N /\ t[n - 1] = v[n - 1]
        BY <1>1
      <4> HIDE DEF t
      <4> QED BY <1>1, <4>1, <4>2
    <3> QED BY <3>1
  <2> QED BY <2>1
<1>3. Balance = u
  BY DEF Balance
<1> HIDE DEF u
<1>4. \A n \in 0 .. N : u[n] = IF n = 0 THEN [all |-> 0, last |-> 0] ELSE Added(u[n - 1], inv.lines[n])
  BY <1>1, <1>2
<1> DEFINE Off == {n \in 0 .. N : u[n] # v[n]}
<1>5. Off = {}
  <2> SUFFICES ASSUME Off # {} PROVE FALSE
    OBVIOUS
  <2>1. PICK x \in Off : \A y \in Off : x <= y
    <3>1. Off \subseteq Nat
      BY <1>1
    <3> QED BY <3>1, LeastNatural
  <2>2. x # 0
    BY <1>1, <1>4, <2>1
  <2>3. x \in 1 .. N /\ x - 1 \in 0 .. N /\ ~(x <= x - 1)
    BY <1>1, <2>1, <2>2
  <2>4. u[x - 1] = v[x - 1]
    BY <2>1, <2>3
  <2> QED BY <1>1, <1>4, <2>1, <2>3, <2>4
<1> QED BY <1>1, <1>3, <1>5

\* A discount line is worth what it takes off, rounded.
LEMMA WorthFacts ==
  ASSUME NEW l \in GoodLine
  PROVE  /\ Worth(l) \in Int
         /\ Rounded(Discount(l), Unit) \in Nat
         /\ Negative(l) => Worth(l) = -Rounded(Discount(l), Unit)
<1>1. l.amount \in Int /\ l.disc \in Nat /\ Product(l) \in Int /\ Discount(l) \in Nat
  BY LineFacts, ProductFacts
<1>2. Unit \in Nat \ {0}
  BY DEF Unit
<1>3. Rounded(Discount(l), Unit) \in Nat
  BY <1>1, <1>2, RoundedNear
<1>4. Worth(l) \in Int /\ (Negative(l) => Worth(l) = -Rounded(Discount(l), Unit))
  BY <1>1, <1>3 DEF Worth
<1> QED BY <1>3, <1>4

LEMMA AddedFacts ==
  ASSUME NEW l \in GoodLine, NEW b \in Sums
  PROVE  /\ Added(b, l) \in Sums /\ Added(b, l).all = b.all + Worth(l)
         /\ Added(b, l).last = IF Negative(l) \/ Worthless(l) THEN b.last + Worth(l) ELSE Worth(l)
<1>1. PICK w \in Int : w = Worth(l)
  BY WorthFacts
<1> QED BY <1>1 DEF Added, Sums

\* A line that leaves no item is worth nothing.
LEMMA DroppedLine ==
  ASSUME NEW l \in GoodLine, Worthless(l)
  PROVE  Worth(l) <= 0 /\ (~Negative(l) /\ l.disc = 0 => Worth(l) = 0)
<1>1. /\ l.amount \in Int /\ l.disc \in Nat /\ Price(l) \in Int /\ Qty(l) \in Nat \ {0}
  BY LineFacts
<1>2. CASE Negative(l)
  <2>1. \A x \in Nat : -x <= 0
    OBVIOUS
  <2> QED BY <1>2, <2>1, WorthFacts
<1>3. CASE ~Negative(l)
  <2>1. l.amount = 0 /\ Price(l) = 0
    BY <1>1, <1>3 DEF Negative, Worthless
  <2>2. Product(l) = 0
    <3>1. 0 * Qty(l) = 0
      BY <1>1
    <3> QED BY <2>1, <3>1 DEF Product, Rounded, Unit
  <2> QED BY <1>1, <1>3, <2>1, <2>2 DEF Worth
<1> QED BY <1>2, <1>3

\* The amount of an item is not cut.
LEMMA DiscountedIsBilled ==
  ASSUME NEW price \in Nat, NEW qty \in Nat, NEW amount \in Nat, NEW d \in Nat,
         NEW f, f = Discounted(price, qty, amount, d)
  PROVE  f.monto >= amount - 5 /\ (amount > 0 => f.monto <= amount + 5)
<1> DEFINE net == Rounded(price * qty - d * 10000, 10000)
           gross2 == 100 * Rounded((amount + d) * 100, qty)
           gross4 == Rounded((amount + d) * 10000, qty)
<1>1. net \in Int
  <2>1. price * qty - d * 10000 \in Int
    OBVIOUS
  <2> QED BY <2>1, RoundedInt
<1> HIDE DEF net, gross2, gross4
<1>2. CASE (amount = 0 /\ price > 0) \/ Abs(amount - net) <= 5
  <2>1. f.monto = Max0(net)
    BY <1>2, SMT DEF Discounted, net, gross2, gross4
  <2> QED BY <1>1, <1>2, <2>1 DEF Abs, Max0
<1>3. CASE ~((amount = 0 /\ price > 0) \/ Abs(amount - net) <= 5)
  <2>1. f.monto = amount
    BY <1>3, SMT DEF Discounted, net, gross2, gross4
  <2> QED BY <2>1
<1> QED BY <1>2, <1>3

LEMMA PlainIsBilled ==
  ASSUME NEW price \in Nat, NEW qty \in Nat, NEW amount \in Nat,
         NEW f, f = Plain(price, qty, amount)
  PROVE  /\ f.monto >= amount - 5
         /\ amount > 0 \/ Priced(price, qty) <= 5 => f.monto <= amount + 5
<1> DEFINE r == Priced(price, qty)
<1>1. r \in Nat
  BY PricedNat
<1>2. f.monto = IF (amount = 0 /\ price > 0) \/ Abs(amount - r) <= 5 THEN r ELSE amount
  BY DEF Plain
<1> HIDE DEF r
<1>3. f.monto >= amount - 5 /\ (amount > 0 \/ r <= 5 => f.monto <= amount + 5)
  BY <1>1, <1>2 DEF Abs
<1> QED BY <1>3 DEF r

\* Rounding price and quantity does not make money of a line that comes to less
\* than half a cent.
LEMMA RoundedToNothing ==
  ASSUME NEW l \in GoodLine, Price(l) > 0, Product(l) = 0
  PROVE  Priced(Rounded(Price(l), 10), SafeQty(l)) <= 5
<1>1. PICK P \in Nat, Q \in Nat : P = Price(l) /\ Q = Qty(l)
  BY LineFacts
<1>2. PICK p \in Nat, q \in Nat : p = Rounded(P, 10) /\ q = Rounded(Q, 10)
  BY RoundedNat
<1>3. 5 * p <= P /\ 5 * q <= Q
  BY <1>2 DEF Rounded
<1>4. 25 * (p * q) <= P * Q
  <2>1. \A a \in Nat, b \in Nat, c \in Nat : a <= b => a * c <= b * c
    OBVIOUS
  <2>2. (5 * p) * (5 * q) <= P * (5 * q)
    BY <1>3, <2>1
  <2>3. (5 * q) * P <= Q * P
    BY <1>3, <2>1
  <2>4. P * (5 * q) = (5 * q) * P /\ Q * P = P * Q /\ (5 * p) * (5 * q) = 25 * (p * q)
    OBVIOUS
  <2> DEFINE x == p * q
             y == P * Q
             z == (5 * q) * P
  <2>5. x \in Nat /\ y \in Nat /\ z \in Nat
    OBVIOUS
  <2>6. 25 * x <= z /\ z <= y
    BY <2>2, <2>3, <2>4
  <2> HIDE DEF x, y, z
  <2>7. 25 * x <= y
    BY <2>5, <2>6
  <2> QED BY <2>7 DEF x, y
<1>5. P * Q \in Nat /\ p * q \in Nat /\ Rounded(P * Q, 1000000) = 0
  BY <1>1 DEF Product, Unit
<1>6. \A n \in Nat : Rounded(n, 1000000) = 0 => n < 500000
  BY DEF Rounded
<1>7. \A m \in Nat : 25 * m < 500000 => Rounded(m, 10000) <= 5
  BY DEF Rounded
<1>8. 25 * (p * q) < 500000
  <2> DEFINE x == p * q
             y == P * Q
  <2>1. x \in Nat /\ y \in Nat /\ 25 * x <= y /\ y < 500000
    BY <1>4, <1>5, <1>6
  <2> HIDE DEF x, y
  <2>2. 25 * x < 500000
    BY <2>1
  <2> QED BY <2>2 DEF x
<1>9. Rounded(p * q, 10000) <= 5
  BY <1>5, <1>7, <1>8
<1> QED BY <1>1, <1>2, <1>9 DEF Priced, SafeQty

LEMMA ItemIsBilled ==
  ASSUME NEW l \in GoodLine, ~Worthless(l)
  PROVE  /\ NewItem(l).monto >= Worth(l) - 5
         /\ ~Negative(l) /\ (l.disc = 0 \/ l.amount > 0) => NewItem(l).monto <= Worth(l) + 5
<1>1. PICK p, a, q : p = SafePrice(l) /\ a = SafeAmount(l) /\ q = SafeQty(l)
  OBVIOUS
<1>2. l.amount \in Int /\ Price(l) \in Int /\ l.disc \in Nat /\ Worth(l) \in Int
  BY LineFacts, WorthFacts
<1>3. p \in Nat /\ a \in Nat /\ q \in Nat
  BY <1>1, SafeFacts
<1>4. PICK f : f = IF l.disc > 0 THEN Discounted(p, q, a, l.disc) ELSE Plain(p, q, a)
  OBVIOUS
<1>5. NewItem(l).monto = f.monto
  BY <1>1, <1>4 DEF NewItem
<1>6. /\ f.monto >= a - 5
      /\ a > 0 \/ (l.disc = 0 /\ Priced(p, q) <= 5) => f.monto <= a + 5
  <2>1. CASE l.disc > 0
    <3>1. f = Discounted(p, q, a, l.disc)
      BY <1>4, <2>1
    <3>2. f.monto >= a - 5 /\ (a > 0 => f.monto <= a + 5)
      BY <1>2, <1>3, <3>1, DiscountedIsBilled
    <3> QED BY <1>2, <2>1, <3>2
  <2>2. CASE l.disc = 0
    <3>1. f = Plain(p, q, a)
      BY <1>4, <2>2
    <3> QED BY <1>2, <1>3, <2>2, <3>1, PlainIsBilled
  <2> QED BY <1>2, <2>1, <2>2
<1>7. f.monto \in Nat
  <2>1. NewItem(l) \in Item
    BY NewItemType
  <2> QED BY <1>5, <2>1 DEF Item
<1>8. CASE Negative(l)
  <2>1. Worth(l) <= 0
    <3>1. \A x \in Nat : -x <= 0
      OBVIOUS
    <3> QED BY <1>8, <3>1, WorthFacts
  <2> QED BY <1>2, <1>5, <1>7, <1>8, <2>1
<1>9. CASE ~Negative(l) /\ l.amount > 0
  <2>1. Worth(l) = a /\ a > 0
    BY <1>1, <1>2, <1>9 DEF Worth, SafeAmount, Max0
  <2> QED BY <1>3, <1>5, <1>6, <1>7, <2>1
<1>10. CASE ~Negative(l) /\ ~(l.amount > 0)
  <2>1. l.amount = 0 /\ Price(l) > 0
    BY <1>2, <1>10 DEF Negative, Worthless
  <2>2. a = Product(l) /\ Worth(l) = a - l.disc
    BY <1>1, <1>10, <2>1 DEF SafeAmount, Worth
  <2>3. p = Rounded(Price(l), 10)
    <3>1. Price(l) \in Nat /\ 10 \in Nat \ {0}
      BY <1>2, <2>1
    <3>2. Rounded(Price(l), 10) \in Nat
      BY <3>1, RoundedNat
    <3> QED BY <1>1, <2>1, <3>2 DEF SafePrice, Max0
  <2>4. a = 0 => Priced(p, q) <= 5
    BY <1>1, <2>1, <2>2, <2>3, RoundedToNothing
  <2> QED BY <1>2, <1>3, <1>5, <1>6, <1>7, <1>10, <2>2, <2>4
<1> QED BY <1>8, <1>9, <1>10

LEMMA RoundedLess ==
  ASSUME NEW m \in Nat, NEW x \in Nat
  PROVE  /\ Rounded(m * Unit - x, Unit) \in Int
         /\ Rounded(m * Unit - x, Unit) >= m - Rounded(x, Unit) - 1
         /\ Rounded(m * Unit - x, Unit) <= m - Rounded(x, Unit) + 1
BY DEF Rounded, Unit

\* A discount leaves an item what it leaves of its worth, to a cent.
LEMMA FoldedIsBilled ==
  ASSUME NEW item \in Item, NEW d \in Nat, NEW c, c = Rounded(d, Unit),
         NEW b, b = Folded(item, d).monto
  PROVE  b \in Nat /\ b >= item.monto - c - 1 /\ (b = 0 \/ b <= item.monto - c + 1)
<1> DEFINE r == Rounded(item.monto * Unit - d, Unit)
<1>1. item.monto \in Nat /\ b = Max0(r) /\ c \in Nat
  <2>1. Unit \in Nat \ {0}
    BY DEF Unit
  <2>2. c \in Nat
    BY <2>1, RoundedNat
  <2>3. item.monto \in Nat /\ b = Max0(r)
    BY FoldedType DEF Item
  <2> QED BY <2>2, <2>3
<1>2. r \in Int /\ r >= item.monto - c - 1 /\ r <= item.monto - c + 1
  BY <1>1, RoundedLess
<1> HIDE DEF r
<1> QED BY <1>1, <1>2 DEF Max0

\* g[m] is what the first m items bill in the ERP's own currency.
Billing(m) == IF step = "convert" /\ m < i THEN items[m].otra ELSE items[m].monto

Owns(g, n) ==
  /\ g \in [Nat -> Int] /\ g[0] = 0
  /\ \A m \in 1 .. n : g[m] = g[m - 1] + Billing(m)

AllOtra == ShownItems("otra") + sum[0].otra

\* What is billed of n lines worth w is b.
Covers(b, w, n) == b >= w - 5 * n

NoMore(b, w, n) == b <= w + 5 * n

\* The discounts of the first n lines fit.
Meets(v, n) ==
  /\ \A m \in 0 .. n : v[m].last >= 0
  /\ \A m \in 1 .. n :
       LET l == inv.lines[m] IN Negative(l) \/ l.disc = 0 \/ l.amount > 0

\* No more is billed than the first n lines come to, nor, without the last item,
\* than those before its own.
Held(g, v, n) ==
  /\ NoMore(g[Len(items)], v[n].all, n)
  /\ IF items = <<>>
     THEN v[n] = Nothing /\ \A m \in 1 .. n : Worthless(inv.lines[m])
     ELSE NoMore(g[Len(items) - 1], v[n].all - v[n].last, n)

Settles(b, v) ==
  LET n == Len(inv.lines)
  IN /\ Covers(b, v[n].all, n)
     /\ Meets(v, n) /\ (\E m \in 1 .. n : ~Worthless(inv.lines[m])) => NoMore(b, v[n].all, n)

Tallied ==
  /\ step \in {"validate", "lines"} => AllOtra = 0
  /\ step = "lines" =>
       /\ i - 1 <= Len(inv.lines)
       /\ \E v, g : /\ Valued(v, i - 1) /\ Owns(g, Len(items))
                    /\ Covers(g[Len(items)], v[i - 1].all, i - 1)
                    /\ Meets(v, i - 1) => Held(g, v, i - 1)
  /\ step = "convert" =>
       \E v, g : /\ Valued(v, Len(inv.lines)) /\ Owns(g, Len(items))
                 /\ AllOtra = g[i - 1]
                 /\ Settles(g[Len(items)], v)
  /\ step \in {"prorate", "write", "done"} =>
       \E v : Valued(v, Len(inv.lines)) /\ Settles(AllOtra, v)

LEMMA SameLines ==
  ASSUME inv' = inv
  PROVE  /\ \A v, n : Valued(v, n)' <=> Valued(v, n)
         /\ \A v, n : Meets(v, n)' <=> Meets(v, n)
         /\ \A b, v : Settles(b, v)' <=> Settles(b, v)
<1>1. \A v, n : Valued(v, n)' <=> Valued(v, n)
  BY DEF Valued
<1>2. \A v, n : Meets(v, n)' <=> Meets(v, n)
  BY DEF Meets
<1>3. \A b, v : Settles(b, v)' <=> Settles(b, v)
  BY DEF Settles, Meets, Covers, NoMore
<1> QED BY <1>1, <1>2, <1>3

LEMMA MoreValued ==
  ASSUME NEW n \in Nat \ {0}, NEW v, Valued(v, n - 1), inv.lines[n] \in GoodLine
  PROVE  \E u : /\ Valued(u, n) /\ u[n] = Added(v[n - 1], inv.lines[n])
                /\ \A m \in 0 .. n - 1 : u[m] = v[m]
<1>1. /\ v \in [Nat -> Sums] /\ v[0] = Nothing /\ n - 1 \in Nat
      /\ \A m \in 1 .. n - 1 : v[m] = Added(v[m - 1], inv.lines[m])
  BY DEF Valued
<1> DEFINE w == Added(v[n - 1], inv.lines[n])
           t == [v EXCEPT ![n] = w]
<1>2. w \in Sums
  BY <1>1, AddedFacts
<1> HIDE DEF w
<1>3. t \in [Nat -> Sums] /\ \A m \in Nat : t[m] = IF m = n THEN w ELSE v[m]
  BY <1>1, <1>2
<1> HIDE DEF t
<1>4. t[0] = Nothing /\ t[n] = w /\ \A m \in 0 .. n - 1 : t[m] = v[m]
  <2>1. 0 # n /\ \A m \in 0 .. n - 1 : m \in Nat /\ m # n
    OBVIOUS
  <2> QED BY <1>1, <1>3, <2>1
<1>5. ASSUME NEW m \in 1 .. n PROVE t[m] = Added(t[m - 1], inv.lines[m])
  <2>1. m - 1 \in 0 .. n - 1 /\ (m # n => m \in 1 .. n - 1 /\ m \in 0 .. n - 1)
    OBVIOUS
  <2> QED BY <1>1, <1>4, <2>1 DEF w
<1>6. Valued(t, n)
  BY <1>3, <1>4, <1>5 DEF Valued
<1> QED BY <1>4, <1>6 DEF w

LEMMA TalliedValidate == ASSUME InvoiceInv, Tallied, Validate PROVE Tallied'
<1>1. /\ step = "validate" /\ step' \in {"lines", "refused"} /\ i' = 1 /\ inv' = inv
      /\ items' = <<>> /\ sum' = sum /\ AllOtra' = AllOtra
  BY DEF InvoiceInv, Stage, Validate, Goto, AllOtra, ShownItems
<1>2. PICK v, g : v = [m \in Nat |-> Nothing] /\ g = [m \in Nat |-> 0]
  OBVIOUS
<1>3. i' - 1 = 0 /\ Len(items') = 0 /\ v[0] = Nothing /\ g[0] = 0
  BY <1>1, <1>2
<1>4. Valued(v, i - 1)' /\ Owns(g, Len(items))'
  BY <1>2, <1>3 DEF Valued, Owns, Nothing
<1>5. Len(inv.lines) \in Nat
  <2>1. inv \in Invoices
    BY DEF InvoiceInv, Stage
  <2> QED BY <2>1, Documents, LenProperties
<1>6. i' - 1 <= Len(inv'.lines) /\ AllOtra' = 0
  BY <1>1, <1>3, <1>5 DEF Tallied
<1>7. Covers(g[Len(items')], v[i' - 1].all, i' - 1) /\ Held(g, v, i - 1)'
  BY <1>1, <1>3 DEF Covers, NoMore, Held, Nothing
<1>8. step' # "convert" /\ step' \notin {"prorate", "write", "done"}
  BY <1>1
<1>9. \E x, h : /\ Valued(x, i - 1)' /\ Owns(h, Len(items))'
                /\ Covers(h[Len(items)], x[i - 1].all, i - 1)'
                /\ Meets(x, i - 1)' => Held(h, x, i - 1)'
  BY <1>4, <1>7 DEF Covers
<1> QED BY <1>6, <1>8, <1>9 DEF Tallied

\* What one more line adds to what the lines come to.
LEMMA MoreSlack ==
  ASSUME NEW n \in Nat \ {0}, NEW p, p = n - 1, NEW b \in Int, NEW w \in Int
  PROVE  NoMore(b, w, p) => NoMore(b, w, n)
BY DEF NoMore

LEMMA LineSums ==
  ASSUME NEW l \in GoodLine, NEW w \in Sums, NEW q, q = Added(w, l)
  PROVE  /\ w.all \in Int /\ w.last \in Int /\ Worth(l) \in Int
         /\ q.all = w.all + Worth(l)
         /\ q.last = IF Negative(l) \/ Worthless(l) THEN w.last + Worth(l) ELSE Worth(l)
BY WorthFacts, AddedFacts, SumsAre

LEMMA MeetsBefore ==
  ASSUME NEW n \in Nat \ {0}, NEW p, p = n - 1, NEW v, NEW u, \A m \in 0 .. p : u[m] = v[m],
         Meets(u, n), NEW l, l = inv.lines[n]
  PROVE  Meets(v, p) /\ u[n].last >= 0 /\ (Negative(l) \/ l.disc = 0 \/ l.amount > 0)
<1>1. n \in 1 .. n /\ n \in 0 .. n /\ \A m \in 0 .. p : m \in 0 .. n
  OBVIOUS
<1>2. \A m \in 1 .. p : m \in 1 .. n
  OBVIOUS
<1> QED BY <1>1, <1>2 DEF Meets

\* What it adds to what is billed: folded into an item after the first k cents,
LEMMA LineIsFolded ==
  ASSUME NEW l \in GoodLine, Negative(l), NEW n \in Nat \ {0}, NEW p, p = n - 1,
         NEW w \in Sums, NEW q, q = Added(w, l),
         NEW k \in Int, NEW x \in Item, NEW b, b = k + x.monto, Covers(b, w.all, p),
         NEW e, e = k + Folded(x, Discount(l)).monto
  PROVE  /\ Covers(e, q.all, n)
         /\ NoMore(b, w.all, p) /\ NoMore(k, w.all - w.last, p) /\ q.last >= 0
              => NoMore(e, q.all, n) /\ NoMore(k, q.all - q.last, n)
<1> DEFINE A == w.all
           Z == w.last
           c == Rounded(Discount(l), Unit)
           had == x.monto
           left == Folded(x, Discount(l)).monto
<1>1. A \in Int /\ Z \in Int /\ c \in Nat /\ q.all = A - c /\ q.last = Z - c
  <2>1. /\ A \in Int /\ Z \in Int /\ Worth(l) \in Int
        /\ q.all = A + Worth(l) /\ q.last = Z + Worth(l)
    BY LineSums
  <2>2. c \in Nat /\ Worth(l) = -c
    BY WorthFacts
  <2> HIDE DEF A, Z, c
  <2> QED BY <2>1, <2>2
<1>2. had \in Nat /\ left \in Nat /\ left >= had - c - 1 /\ (left = 0 \/ left <= had - c + 1)
  <2>1. had \in Nat /\ Discount(l) \in Nat
    BY ProductFacts DEF Item
  <2> QED BY <2>1, FoldedIsBilled
<1>3. b = k + had /\ e = k + left /\ Covers(b, A, p)
  OBVIOUS
<1>4. NoMore(b, w.all, p) /\ NoMore(k, w.all - w.last, p) => NoMore(b, A, p) /\ NoMore(k, A - Z, p)
  OBVIOUS
<1> HIDE DEF A, Z, c, had, left
<1> QED BY <1>1, <1>2, <1>3, <1>4 DEF Covers, NoMore

\* dropped,
LEMMA LineIsDropped ==
  ASSUME NEW l \in GoodLine, Worthless(l), NEW n \in Nat \ {0}, NEW p, p = n - 1,
         NEW w \in Sums, NEW q, q = Added(w, l), NEW b \in Int, Covers(b, w.all, p)
  PROVE  /\ Covers(b, q.all, n)
         /\ /\ NoMore(b, w.all, p) /\ q.last >= 0 /\ (Negative(l) \/ l.disc = 0 \/ l.amount > 0)
            /\ (Negative(l) => w = Nothing)
            => NoMore(b, q.all, n) /\ q = w
<1> DEFINE A == w.all
           Z == w.last
           W == Worth(l)
<1>1. A \in Int /\ Z \in Int /\ W \in Int /\ q.all = A + W /\ q.last = Z + W
  BY LineSums
<1>2. W <= 0 /\ (~Negative(l) /\ l.disc = 0 => W = 0)
  BY DroppedLine
<1>3. Covers(b, A, p) /\ (NoMore(b, w.all, p) => NoMore(b, A, p)) /\ (w = Nothing => Z = 0)
  BY SumsAre
<1>4. ~(l.amount > 0)
  <2>1. l.amount \in Int
    BY LineFacts
  <2> QED BY <2>1 DEF Worthless
<1>5. q \in Sums /\ (q.all = A /\ q.last = Z => q = w)
  BY AddedFacts, SumsAre
<1> HIDE DEF A, Z, W
<1>6. Covers(b, q.all, n)
  BY <1>1, <1>2, <1>3 DEF Covers
<1>7. ASSUME NoMore(b, w.all, p), q.last >= 0, Negative(l) \/ l.disc = 0 \/ l.amount > 0,
             Negative(l) => w = Nothing
      PROVE  NoMore(b, q.all, n) /\ q = w
  <2>1. W = 0
    BY <1>1, <1>2, <1>3, <1>4, <1>7
  <2>2. q.all = A /\ q.last = Z
    BY <1>1, <2>1
  <2>3. q = w
    BY <1>5, <2>2
  <2>4. w.all \in Int
    BY SumsAre
  <2> QED BY <1>7, <2>3, <2>4, MoreSlack
<1> QED BY <1>6, <1>7

\* or billed as an item.
LEMMA LineIsBilled ==
  ASSUME NEW l \in GoodLine, ~Worthless(l), NEW n \in Nat \ {0}, NEW p, p = n - 1,
         NEW w \in Sums, NEW q, q = Added(w, l), NEW k \in Int, Covers(k, w.all, p),
         NEW e, e = k + NewItem(l).monto
  PROVE  /\ Covers(e, q.all, n)
         /\ /\ NoMore(k, w.all, p) /\ q.last >= 0 /\ (Negative(l) \/ l.disc = 0 \/ l.amount > 0)
            /\ (Negative(l) => w = Nothing)
            => NoMore(e, q.all, n) /\ NoMore(k, q.all - q.last, n)
<1> DEFINE A == w.all
           Z == w.last
           W == Worth(l)
           b == NewItem(l).monto
<1>1. /\ A \in Int /\ Z \in Int /\ W \in Int /\ q.all = A + W
      /\ q.last = IF Negative(l) THEN Z + W ELSE W
  BY LineSums
<1>2. /\ b \in Nat /\ b >= W - 5
      /\ ~Negative(l) /\ (l.disc = 0 \/ l.amount > 0) => b <= W + 5
  <2>1. b \in Nat
    BY NewItemType DEF Item
  <2> QED BY <2>1, ItemIsBilled
<1>3. /\ Covers(k, A, p) /\ (NoMore(k, w.all, p) => NoMore(k, A, p)) /\ (w = Nothing => Z = 0)
      /\ e = k + b
  BY SumsAre
<1>4. Negative(l) => W < 0
  <2> SUFFICES ASSUME Negative(l) PROVE W < 0
    OBVIOUS
  <2>1. l.amount \in Int /\ l.amount # 0
    <3>1. l.amount \in Int /\ Price(l) \in Int
      BY LineFacts
    <3> QED BY <3>1 DEF Negative, Worthless
  <2>2. Discount(l) = Abs(l.amount) * Unit /\ Abs(l.amount) \in Nat /\ Abs(l.amount) > 0
    BY <2>1 DEF Discount, Abs
  <2>3. Rounded(Discount(l), Unit) = Abs(l.amount)
    <3>1. \A x \in Nat : Rounded(x * Unit, Unit) = x
      BY DEF Rounded, Unit
    <3> QED BY <2>2, <3>1
  <2>4. W = -Abs(l.amount)
    BY <2>3, WorthFacts
  <2> HIDE DEF W
  <2> QED BY <2>2, <2>4
<1> HIDE DEF A, Z, W, b
<1>5. Covers(e, q.all, n)
  BY <1>1, <1>2, <1>3 DEF Covers
<1>6. ASSUME NoMore(k, w.all, p), q.last >= 0, Negative(l) \/ l.disc = 0 \/ l.amount > 0,
             Negative(l) => w = Nothing
      PROVE  NoMore(e, q.all, n) /\ NoMore(k, q.all - q.last, n)
  <2>1. ~Negative(l)
    BY <1>1, <1>3, <1>4, <1>6
  <2>2. b <= W + 5 /\ q.last = W /\ NoMore(k, A, p)
    BY <1>1, <1>2, <1>3, <1>6, <2>1
  <2>3. e <= (A + W) + 5 * n /\ k <= A + 5 * n
    BY <1>1, <1>2, <1>3, <2>2 DEF NoMore
  <2>4. q.all = A + W /\ q.all - q.last = A
    BY <1>1, <2>2
  <2> QED BY <2>3, <2>4 DEF NoMore
<1> QED BY <1>5, <1>6

LEMMA TalliedTakeLine == ASSUME InvoiceInv, Tallied, TakeLine PROVE Tallied'
<1>1. /\ step = "lines" /\ step' = "lines" /\ i' = i + 1 /\ i <= Len(inv.lines)
      /\ items' = TakenIn(inv.lines[i]) /\ inv' = inv /\ sum' = sum /\ AllOtra' = AllOtra
  BY DEF TakeLine, AllOtra, ShownItems
<1>2. /\ items \in Seq(Item) /\ Valid /\ inv \in Invoices /\ i \in DOMAIN inv.lines
      /\ Len(items) \in Nat /\ i \in Nat \ {0} /\ Len(inv.lines) \in Nat
  <2>1. items \in Seq(Item) /\ Valid /\ inv \in Invoices /\ i \in Nat \ {0} /\ i <= Len(inv.lines)
    BY DEF InvoiceInv, Stage, TypeOK, TakeLine
  <2> QED BY <1>1, <2>1, Documents
<1>3. PICK n \in Nat \ {0}, p \in Nat : n = i /\ p = i - 1
  BY <1>2
<1>4. PICK l \in GoodLine : l = inv.lines[n]
  BY <1>2, <1>3, LinesChecked
<1>5. PICK v, g : /\ Valued(v, p) /\ Owns(g, Len(items)) /\ Covers(g[Len(items)], v[p].all, p)
                  /\ Meets(v, p) => Held(g, v, p)
  BY <1>1, <1>3 DEF Tallied
<1>6. PICK u : /\ Valued(u, n) /\ u[n] = Added(v[p], l) /\ \A m \in 0 .. p : u[m] = v[m]
  <2>1. p = n - 1 /\ inv.lines[n] \in GoodLine
    BY <1>3, <1>4
  <2>2. Valued(v, n - 1)
    BY <1>5, <2>1
  <2> QED BY <1>4, <2>1, <2>2, MoreValued
<1>7. v[p] \in Sums /\ p = n - 1
  BY <1>3, <1>5 DEF Valued
<1>8. /\ g \in [Nat -> Int] /\ g[0] = 0 /\ g[Len(items)] \in Int
      /\ \A m \in 1 .. Len(items) : g[m] = g[m - 1] + items[m].monto
  <2>1. \A m \in 1 .. Len(items) : Billing(m) = items[m].monto
    BY <1>1 DEF Billing
  <2> QED BY <1>2, <1>5, <2>1 DEF Owns
<1>9. items' \in Seq(Item) /\ items' = TakenIn(l)
  BY <1>1, <1>2, <1>3, <1>4, TakenInCases
<1>10. \A h \in [Nat -> Int] :
         h[0] = 0 /\ (\A m \in 1 .. Len(items') : h[m] = h[m - 1] + items'[m].monto)
           => Owns(h, Len(items))'
  BY <1>1 DEF Owns, Billing
<1>11. Meets(u, n) => /\ Held(g, v, p) /\ u[n].last >= 0
                      /\ Negative(l) \/ l.disc = 0 \/ l.amount > 0
  BY <1>4, <1>5, <1>6, <1>7, MeetsBefore
\* The partial sums, once the line is in.
<1>12. SUFFICES \E h : /\ Owns(h, Len(items))'
                       /\ Covers(h[Len(items')], u[n].all, n)
                       /\ Meets(u, n) => Held(h, u, n)'
  <2>1. PICK h : /\ Owns(h, Len(items))'
                 /\ Covers(h[Len(items')], u[n].all, n)
                 /\ Meets(u, n) => Held(h, u, n)'
    BY <1>12
  <2>2. AllOtra' = 0 /\ i' - 1 = n /\ i' - 1 <= Len(inv'.lines)
    BY <1>1, <1>2, <1>3 DEF Tallied
  <2>3. Valued(u, n)' /\ (Meets(u, n)' <=> Meets(u, n))
    BY <1>1, <1>6, SameLines
  <2> QED BY <1>1, <2>1, <2>2, <2>3 DEF Tallied
<1>13. CASE /\ Negative(l) /\ items # <<>>
            /\ Len(TakenIn(l)) = Len(items) /\ Len(items) \in DOMAIN items
            /\ \A m \in DOMAIN items :
                 TakenIn(l)[m] = IF m = Len(items) THEN Folded(items[m], Discount(l)) ELSE items[m]
  <2> DEFINE L == Len(items)
             b == Folded(items[L], Discount(l)).monto
             k == g[L - 1]
  <2>1. L \in Nat \ {0} /\ L - 1 \in Nat /\ L \in 1 .. L /\ items[L] \in Item
    BY <1>2, <1>13
  <2>2. b \in Nat
    <3>1. Discount(l) \in Nat
      BY ProductFacts
    <3> QED BY <2>1, <3>1, FoldedType DEF Item
  <2>3. k \in Int /\ g[L] = k + items[L].monto
    BY <1>8, <2>1
  <2> PICK h : h = [g EXCEPT ![L] = k + b]
    OBVIOUS
  <2>4. /\ h \in [Nat -> Int] /\ h[L] = k + b
        /\ \A m \in Nat : m # L => h[m] = g[m]
    <3> HIDE DEF k, b
    <3>1. k + b \in Int
      BY <2>2, <2>3
    <3> QED BY <1>8, <2>1, <3>1
  <2>5. h[0] = 0 /\ h[L - 1] = k
    <3>1. 0 # L /\ L - 1 # L
      BY <2>1
    <3> QED BY <1>8, <2>1, <2>4, <3>1
  <2>6. Len(items') = L /\ items' # <<>>
    BY <1>9, <1>13, <2>1
  <2>7. ASSUME NEW m \in 1 .. Len(items') PROVE h[m] = h[m - 1] + items'[m].monto
    <3>1. m \in 1 .. L /\ m \in Nat /\ m - 1 \in Nat /\ m - 1 # L /\ m \in DOMAIN items
      BY <1>13, <2>1, <2>6
    <3>2. CASE m = L
      <4>1. items'[m].monto = b
        BY <1>9, <1>13, <3>1, <3>2
      <4> QED BY <2>4, <2>5, <3>2, <4>1
    <3>3. CASE m # L
      <4>1. items'[m] = items[m] /\ h[m] = g[m] /\ h[m - 1] = g[m - 1]
        BY <1>9, <1>13, <2>4, <3>1, <3>3
      <4> QED BY <1>8, <3>1, <4>1
    <3> QED BY <3>2, <3>3
  <2>8. Owns(h, Len(items))'
    BY <1>10, <2>4, <2>5, <2>7
  <2>9. /\ Covers(h[L], u[n].all, n)
        /\ NoMore(g[L], v[p].all, p) /\ NoMore(k, v[p].all - v[p].last, p) /\ u[n].last >= 0
             => NoMore(h[L], u[n].all, n) /\ NoMore(k, u[n].all - u[n].last, n)
    <3>1. Negative(l) /\ u[n] = Added(v[p], l) /\ Covers(g[L], v[p].all, p)
      BY <1>5, <1>6, <1>13
    <3>2. h[L] = k + Folded(items[L], Discount(l)).monto
      BY <2>4
    <3> HIDE DEF L, k
    <3> QED BY <1>7, <2>1, <2>3, <3>1, <3>2, LineIsFolded
  <2>10. ASSUME Meets(u, n) PROVE Held(h, u, n)'
    <3>1. NoMore(g[L], v[p].all, p) /\ NoMore(k, v[p].all - v[p].last, p) /\ u[n].last >= 0
      BY <1>11, <1>13, <2>10 DEF Held
    <3>2. NoMore(h[Len(items')], u[n].all, n) /\ NoMore(h[Len(items') - 1], u[n].all - u[n].last, n)
      BY <2>5, <2>6, <2>9, <3>1
    <3> QED BY <2>6, <3>2 DEF Held, NoMore
  <2> QED BY <2>6, <2>8, <2>9, <2>10
<1>14. CASE ~(Negative(l) /\ items # <<>>) /\ Worthless(l) /\ TakenIn(l) = items
  <2>1. Owns(g, Len(items))'
    BY <1>8, <1>9, <1>10, <1>14
  <2>2. /\ Covers(g[Len(items)], u[n].all, n)
        /\ /\ NoMore(g[Len(items)], v[p].all, p) /\ u[n].last >= 0
           /\ Negative(l) \/ l.disc = 0 \/ l.amount > 0
           /\ (Negative(l) => v[p] = Nothing)
           => NoMore(g[Len(items)], u[n].all, n) /\ u[n] = v[p]
    BY <1>5, <1>6, <1>7, <1>8, <1>14, LineIsDropped
  <2>3. ASSUME Meets(u, n) PROVE Held(g, u, n)'
    <3>1. /\ Held(g, v, p) /\ u[n].last >= 0 /\ (Negative(l) \/ l.disc = 0 \/ l.amount > 0)
      BY <1>11, <2>3
    <3>2. NoMore(g[Len(items)], v[p].all, p) /\ (Negative(l) => v[p] = Nothing)
      BY <1>14, <3>1 DEF Held
    <3>3. NoMore(g[Len(items)], u[n].all, n) /\ u[n] = v[p]
      BY <2>2, <3>1, <3>2
    <3>4. CASE items # <<>>
      <4>1. NoMore(g[Len(items) - 1], v[p].all - v[p].last, p)
        BY <3>1, <3>4 DEF Held
      <4>2. g[Len(items) - 1] \in Int /\ v[p].all - v[p].last \in Int
        <5>1. Len(items) - 1 \in Nat /\ v[p].all \in Int /\ v[p].last \in Int
          BY <1>2, <1>7, <3>4, SumsAre
        <5> QED BY <1>8, <5>1
      <4>3. NoMore(g[Len(items) - 1], v[p].all - v[p].last, n)
        BY <1>7, <4>1, <4>2, MoreSlack
      <4> QED BY <1>9, <1>14, <3>3, <3>4, <4>3 DEF Held, NoMore
    <3>5. CASE items = <<>>
      <4>1. v[p] = Nothing /\ \A m \in 1 .. p : Worthless(inv.lines[m])
        BY <3>1, <3>5 DEF Held
      <4>2. \A m \in 1 .. n : m = n \/ m \in 1 .. p
        BY <1>7
      <4>3. \A m \in 1 .. n : Worthless(inv.lines[m])
        BY <1>4, <1>14, <4>1, <4>2
      <4>4. \A m \in 1 .. n : Worthless(inv'.lines[m])
        BY <1>1, <4>3
      <4> QED BY <1>9, <1>14, <3>3, <3>5, <4>1, <4>4 DEF Held, NoMore
    <3> QED BY <3>4, <3>5
  <2> QED BY <1>9, <1>14, <2>1, <2>2, <2>3
<1>15. CASE ~(Negative(l) /\ items # <<>>) /\ ~Worthless(l) /\ TakenIn(l) = Append(items, NewItem(l))
  <2> DEFINE L == Len(items)
             b == NewItem(l).monto
             k == g[L]
  <2>1. L \in Nat /\ L + 1 \in Nat /\ L # L + 1 /\ 0 # L + 1
    BY <1>2
  <2>2. b \in Nat
    BY NewItemType DEF Item
  <2>3. /\ Len(items') = L + 1 /\ items'[L + 1] = NewItem(l)
        /\ \A m \in 1 .. L : items'[m] = items[m]
    <3>1. NewItem(l) \in Item /\ items' = Append(items, NewItem(l))
      BY <1>9, <1>15, NewItemType
    <3> QED BY <1>2, <3>1, AppendProperties
  <2> PICK h : h = [g EXCEPT ![L + 1] = k + b]
    OBVIOUS
  <2>4. /\ h \in [Nat -> Int] /\ h[L + 1] = k + b
        /\ \A m \in Nat : m # L + 1 => h[m] = g[m]
    <3> HIDE DEF k, b
    <3>1. k \in Int /\ k + b \in Int
      BY <1>8, <2>2 DEF k
    <3> QED BY <1>8, <2>1, <3>1
  <2>5. h[0] = 0 /\ h[L] = k
    BY <1>8, <2>1, <2>4
  <2>6. /\ \A m \in 1 .. Len(items') : h[m] = h[m - 1] + items'[m].monto
    <3> SUFFICES ASSUME NEW m \in 1 .. L + 1 PROVE h[m] = h[m - 1] + items'[m].monto
      BY <2>3
    <3>1. /\ m \in Nat /\ m - 1 \in Nat /\ m - 1 # L + 1
          /\ m # L + 1 => m \in 1 .. L
          /\ m = L + 1 => m - 1 = L
      BY <2>1
    <3>2. CASE m = L + 1
      BY <2>3, <2>4, <2>5, <3>1, <3>2
    <3>3. CASE m # L + 1
      <4>1. items'[m] = items[m] /\ h[m] = g[m] /\ h[m - 1] = g[m - 1]
        BY <2>3, <2>4, <3>1, <3>3
      <4> QED BY <1>8, <3>1, <3>3, <4>1
    <3> QED BY <3>2, <3>3
  <2>7. Owns(h, Len(items))'
    BY <1>10, <2>4, <2>5, <2>6
  <2>8. Len(items') - 1 = L /\ items' # <<>> /\ k \in Int
    BY <1>8, <2>1, <2>3
  <2>9. /\ Covers(h[L + 1], u[n].all, n)
        /\ /\ NoMore(k, v[p].all, p) /\ u[n].last >= 0
           /\ Negative(l) \/ l.disc = 0 \/ l.amount > 0
           /\ (Negative(l) => v[p] = Nothing)
           => NoMore(h[L + 1], u[n].all, n) /\ NoMore(k, u[n].all - u[n].last, n)
    <3>1. ~Worthless(l) /\ u[n] = Added(v[p], l) /\ Covers(k, v[p].all, p)
      BY <1>5, <1>6, <1>15
    <3>2. h[L + 1] = k + NewItem(l).monto
      BY <2>4
    <3> HIDE DEF L, k
    <3> QED BY <1>7, <2>8, <3>1, <3>2, LineIsBilled
  <2>10. ASSUME Meets(u, n) PROVE Held(h, u, n)'
    <3>1. /\ Held(g, v, p) /\ u[n].last >= 0 /\ (Negative(l) \/ l.disc = 0 \/ l.amount > 0)
      BY <1>11, <2>10
    <3>2. NoMore(k, v[p].all, p) /\ (Negative(l) => v[p] = Nothing)
      BY <1>15, <3>1 DEF Held
    <3>3. NoMore(h[Len(items')], u[n].all, n) /\ NoMore(h[Len(items') - 1], u[n].all - u[n].last, n)
      BY <2>3, <2>5, <2>8, <2>9, <3>1, <3>2
    <3> QED BY <2>8, <3>3 DEF Held, NoMore
  <2> QED BY <2>3, <2>7, <2>9, <2>10
<1> QED BY <1>2, <1>13, <1>14, <1>15, TakenInCases

LEMMA TalliedEndLines == ASSUME InvoiceInv, Tallied, EndLines PROVE Tallied'
<1>1. /\ step = "lines" /\ step' = "convert" /\ i' = 1 /\ inv' = inv /\ sum' = sum
      /\ items' = IF items = <<>> THEN <<GeneralItem>> ELSE items
      /\ AllOtra' = AllOtra /\ AllOtra = 0
  BY DEF EndLines, Goto, AllOtra, ShownItems, Tallied
<1>2. /\ items \in Seq(Item) /\ Valid /\ inv \in Invoices /\ Len(inv.lines) \in Nat
      /\ i - 1 = Len(inv.lines) /\ Len(items) \in Nat
  <2>1. items \in Seq(Item) /\ Valid /\ inv \in Invoices /\ i \in Nat /\ i > Len(inv.lines)
        /\ i - 1 <= Len(inv.lines)
    BY DEF InvoiceInv, Stage, TypeOK, EndLines, Tallied
  <2>2. Len(inv.lines) \in Nat
    BY <2>1, Documents, LenProperties
  <2> QED BY <2>1, <2>2
<1>3. PICK v, g : /\ Valued(v, Len(inv.lines)) /\ Owns(g, Len(items))
                  /\ Covers(g[Len(items)], v[Len(inv.lines)].all, Len(inv.lines))
                  /\ Meets(v, Len(inv.lines)) => Held(g, v, Len(inv.lines))
  BY <1>1, <1>2 DEF Tallied
<1>4. g \in [Nat -> Int] /\ g[0] = 0 /\ \A m \in 1 .. Len(items) : g[m] = g[m - 1] + items[m].monto
  <2>1. \A m \in 1 .. Len(items) : Billing(m) = items[m].monto
    BY <1>1 DEF Billing
  <2> QED BY <1>3, <2>1 DEF Owns
<1>5. Valued(v, Len(inv.lines))'
  BY <1>1, <1>3 DEF Valued
<1>6. SUFFICES \E h : /\ Owns(h, Len(items))' /\ h[0] = 0
                      /\ Settles(h[Len(items')], v)
  <2>1. PICK h : /\ Owns(h, Len(items))' /\ h[0] = 0
                 /\ Settles(h[Len(items')], v)
    BY <1>6
  <2>2. AllOtra' = h[i' - 1]
    BY <1>1, <2>1
  <2>3. Settles(h[Len(items)], v)'
    BY <1>1, <2>1 DEF Settles, Meets, Covers, NoMore
  <2> QED BY <1>1, <1>5, <2>1, <2>2, <2>3 DEF Tallied
<1>7. \A h \in [Nat -> Int] :
        h[0] = 0 /\ (\A m \in 1 .. Len(items') : h[m] = h[m - 1] + items'[m].monto)
          => Owns(h, Len(items))'
  <2>1. \A m \in 1 .. Len(items') : ~(m < i')
    BY <1>1
  <2> QED BY <2>1 DEF Owns, Billing
<1>8. CASE items # <<>>
  <2>1. Owns(g, Len(items))'
    BY <1>1, <1>4, <1>7, <1>8
  <2>2. Settles(g[Len(items)], v)
    BY <1>3 DEF Settles, Held
  <2> QED BY <1>1, <1>4, <1>8, <2>1, <2>2
<1>9. CASE items = <<>>
  <2>1. Len(items) = 0 /\ Len(items') = 1 /\ items'[1] = GeneralItem
    BY <1>1, <1>9
  <2>2. PICK b \in Nat : b = GeneralItem.monto
    <3>1. GeneralItem \in Item
      BY <1>2, GeneralItemType
    <3> QED BY <3>1 DEF Item
  <2>3. PICK h : h = [m \in Nat |-> IF m = 1 THEN b ELSE 0]
    OBVIOUS
  <2>4. h \in [Nat -> Int] /\ h[0] = 0 /\ h[1] = b
    BY <2>2, <2>3
  <2>5. \A m \in 1 .. 1 : h[m] = h[m - 1] + items'[m].monto
    BY <2>1, <2>2, <2>4
  <2>6. Owns(h, Len(items))'
    BY <1>7, <2>1, <2>4, <2>5
  <2>7. v[Len(inv.lines)].all \in Int
    BY <1>2, <1>3, SumsAre DEF Valued
  <2>8. Covers(h[1], v[Len(inv.lines)].all, Len(inv.lines))
    <3>1. Covers(0, v[Len(inv.lines)].all, Len(inv.lines))
      BY <1>3, <1>4, <2>1
    <3>2. b \in Nat
      BY <2>2
    <3> QED BY <1>2, <2>4, <2>7, <3>1, <3>2 DEF Covers
  <2>9. Meets(v, Len(inv.lines)) => \A m \in 1 .. Len(inv.lines) : Worthless(inv.lines[m])
    BY <1>3, <1>9 DEF Held
  <2> QED BY <2>1, <2>4, <2>6, <2>8, <2>9 DEF Settles
<1> QED BY <1>8, <1>9

LEMMA TalliedConvertItem == ASSUME InvoiceInv, Tallied, ConvertItem PROVE Tallied'
<1>1. PICK c : c = Converted(items[i])
  OBVIOUS
<1>2. /\ step = "convert" /\ step' = "convert" /\ i' = i + 1 /\ inv' = inv
      /\ items' = [items EXCEPT ![i] = c]
      /\ sum' = [sum EXCEPT ![c.ind] = [dop |-> @.dop + c.monto, otra |-> @.otra + c.otra]]
  BY <1>1 DEF ConvertItem
<1>3. /\ i \in 1 .. Len(items) /\ Len(items) \in Nat /\ items[i] \in Item
      /\ inv \in Invoices /\ Valid /\ sum \in [0 .. 4 -> [dop : Nat, otra : Nat]]
      /\ items \in Seq(Item \cup ItemWritten) /\ i \in Nat
  <2>1. /\ items \in Seq(Item \cup ItemWritten) /\ i \in Nat \ {0} /\ i <= Len(items)
        /\ \A n \in DOMAIN items : items[n] \in (IF n < i THEN ItemWritten ELSE Item)
        /\ inv \in Invoices /\ Valid /\ sum \in [0 .. 4 -> [dop : Nat, otra : Nat]]
    BY DEF InvoiceInv, Stage, TypeOK, ConvertItem
  <2>2. i \in DOMAIN items /\ ~(i < i) /\ Len(items) \in Nat /\ i \in 1 .. Len(items)
    BY <2>1
  <2> QED BY <2>1, <2>2
<1>4. c.ind \in 0 .. 4 /\ c.otra \in Nat /\ c.otra = items[i].monto
  <2>1. c \in ItemWritten /\ c.otra = items[i].monto
    BY <1>1, <1>3, ConvertedType
  <2> QED BY <2>1 DEF ItemWritten
<1>5. Len(items') = Len(items) /\ \A n \in 1 .. Len(items) : items'[n] = IF n = i THEN c ELSE items[n]
  BY SMTT(30), <1>2, <1>3
<1>6. AllOtra' = AllOtra + c.otra
  <2>1. \A s \in 0 .. 4 : sum[s].otra \in Nat
    BY <1>3
  <2>2. \A s \in 0 .. 4 : sum'[s].otra = IF s = c.ind THEN sum[s].otra + c.otra ELSE sum[s].otra
    BY <1>2, <1>3, <1>4
  <2>3. /\ 0 \in 0 .. 4 /\ 1 \in 0 .. 4 /\ 2 \in 0 .. 4 /\ 3 \in 0 .. 4 /\ 4 \in 0 .. 4
        /\ c.ind \in {0, 1, 2, 3, 4}
    BY <1>4
  <2>4. /\ AllOtra = sum[1].otra + sum[2].otra + sum[3].otra + sum[4].otra + sum[0].otra
        /\ AllOtra' = sum'[1].otra + sum'[2].otra + sum'[3].otra + sum'[4].otra + sum'[0].otra
    BY DEF AllOtra, ShownItems
  <2> QED BY <1>4, <2>1, <2>2, <2>3, <2>4
<1>7. PICK v, g : /\ Valued(v, Len(inv.lines)) /\ Owns(g, Len(items))
                  /\ AllOtra = g[i - 1]
                  /\ Settles(g[Len(items)], v)
  BY <1>2 DEF Tallied
<1>8. \A m \in 1 .. Len(items) : Billing(m)' = Billing(m)
  <2> SUFFICES ASSUME NEW m \in 1 .. Len(items) PROVE Billing(m)' = Billing(m)
    OBVIOUS
  <2>1. CASE m < i
    <3>1. m < i + 1 /\ m # i
      BY <1>3, <2>1
    <3> QED BY <1>2, <1>5, <2>1, <3>1 DEF Billing
  <2>2. CASE m = i
    <3>1. m < i + 1 /\ ~(m < i)
      BY <1>3, <2>2
    <3> QED BY <1>2, <1>4, <1>5, <2>2, <3>1 DEF Billing
  <2>3. CASE m > i
    <3>1. ~(m < i + 1) /\ ~(m < i) /\ m # i
      BY <1>3, <2>3
    <3> QED BY <1>2, <1>5, <2>3, <3>1 DEF Billing
  <2> QED BY <1>3, <2>1, <2>2, <2>3
<1>9. Owns(g, Len(items))'
  BY <1>5, <1>7, <1>8 DEF Owns
<1>10. AllOtra' = g[i' - 1]
  <2>1. g[i] = g[i - 1] + Billing(i) /\ i' - 1 = i
    BY <1>2, <1>3, <1>7 DEF Owns
  <2>2. Billing(i) = c.otra
    BY <1>3, <1>4 DEF Billing
  <2> QED BY <1>6, <1>7, <2>1, <2>2
<1>11. Valued(v, Len(inv.lines))' /\ Settles(g[Len(items)], v)'
  BY <1>2, <1>5, <1>7 DEF Valued, Settles, Meets, Covers, NoMore
<1> QED BY <1>2, <1>9, <1>10, <1>11 DEF Tallied

LEMMA TalliedTakeTotals == ASSUME InvoiceInv, Tallied, TakeTotals PROVE Tallied'
<1>1. step = "convert" /\ step' = "prorate" /\ inv' = inv /\ AllOtra' = AllOtra
  BY DEF TakeTotals, Goto, AllOtra, ShownItems
<1>2. i - 1 = Len(items)
  <2>1. i \in Nat /\ Len(items) \in Nat /\ i <= Len(items) + 1 /\ i > Len(items)
    BY DEF InvoiceInv, Stage, TypeOK, TakeTotals
  <2> QED BY <2>1
<1>3. PICK v : Valued(v, Len(inv.lines)) /\ Settles(AllOtra, v)
  BY <1>1, <1>2 DEF Tallied
<1>4. Valued(v, Len(inv.lines))' /\ Settles(AllOtra, v)'
  BY <1>1, <1>3 DEF Valued, Settles, Meets, Covers, NoMore
<1> QED BY <1>1, <1>4 DEF Tallied

LEMMA TalliedOther ==
  ASSUME InvoiceInv, Tallied, ShareItem \/ EndShares \/ WriteItem \/ Finish
  PROVE  Tallied'
<1>1. /\ step \in {"prorate", "write"} /\ step' \in {"prorate", "write", "done"} /\ inv' = inv
      /\ AllOtra' = AllOtra
  BY DEF ShareItem, EndShares, WriteItem, Finish, Goto, AllOtra, ShownItems
<1>2. PICK v : Valued(v, Len(inv.lines)) /\ Settles(AllOtra, v)
  BY <1>1 DEF Tallied
<1>3. Valued(v, Len(inv.lines))' /\ Settles(AllOtra, v)'
  BY <1>1, <1>2 DEF Valued, Settles, Meets, Covers, NoMore
<1> QED BY <1>1, <1>3 DEF Tallied

LEMMA TalliedHolds == Spec => []Tallied
<1>1. Init => Tallied
  <2> SUFFICES ASSUME Init PROVE Tallied
    OBVIOUS
  <2>1. step = "validate" /\ \A s \in 0 .. 4 : sum[s].otra = 0
    BY DEF Init
  <2>2. AllOtra = 0
    <3>1. sum[0].otra = 0 /\ sum[1].otra = 0 /\ sum[2].otra = 0 /\ sum[3].otra = 0 /\ sum[4].otra = 0
      BY <2>1
    <3> QED BY <3>1 DEF AllOtra, ShownItems
  <2> QED BY <2>1, <2>2 DEF Tallied
<1>2. InvoiceInv /\ Tallied /\ [Next]_vars => Tallied'
  <2> SUFFICES ASSUME InvoiceInv, Tallied, [Next]_vars PROVE Tallied'
    OBVIOUS
  <2>1. CASE UNCHANGED vars
    <3>1. /\ step' = step /\ i' = i /\ items' = items /\ inv' = inv /\ AllOtra' = AllOtra
      BY <2>1 DEF vars, AllOtra, ShownItems
    <3>2. /\ \A v, n : Valued(v, n)' <=> Valued(v, n)
          /\ \A v, n : Meets(v, n)' <=> Meets(v, n)
          /\ \A b, v : Settles(b, v)' <=> Settles(b, v)
      BY <3>1, SameLines
    <3>3. /\ \A g, n : Owns(g, n)' <=> Owns(g, n)
          /\ \A g, v, n : Held(g, v, n)' <=> Held(g, v, n)
      BY <3>1 DEF Owns, Billing, Held, NoMore
    <3>4. PICK n, N, M : n = i - 1 /\ N = Len(inv.lines) /\ M = Len(items)
      OBVIOUS
    <3>5. n = i' - 1 /\ N = Len(inv'.lines) /\ M = Len(items')
      BY <3>1, <3>4
    <3>6. ASSUME step = "lines"
          PROVE  \E v, g : /\ Valued(v, n)' /\ Owns(g, M)' /\ Covers(g[M], v[n].all, n)
                           /\ Meets(v, n)' => Held(g, v, n)'
      <4>1. PICK v, g : /\ Valued(v, n) /\ Owns(g, M) /\ Covers(g[M], v[n].all, n)
                        /\ Meets(v, n) => Held(g, v, n)
        BY <3>4, <3>6 DEF Tallied
      <4> QED BY <3>2, <3>3, <4>1
    <3>7. ASSUME step = "convert"
          PROVE  \E v, g : Valued(v, N)' /\ Owns(g, M)' /\ AllOtra' = g[n] /\ Settles(g[M], v)'
      <4>1. PICK v, g : Valued(v, N) /\ Owns(g, M) /\ AllOtra = g[n] /\ Settles(g[M], v)
        BY <3>4, <3>7 DEF Tallied
      <4> QED BY <3>1, <3>2, <3>3, <4>1
    <3>8. ASSUME step \in {"prorate", "write", "done"}
          PROVE  \E v : Valued(v, N)' /\ Settles(AllOtra, v)'
      <4>1. PICK v, b : Valued(v, N) /\ b = AllOtra /\ Settles(b, v)
        BY <3>4, <3>8 DEF Tallied
      <4>2. Valued(v, N)' /\ b = AllOtra' /\ Settles(b, v)'
        BY <3>1, <3>2, <4>1
      <4> QED BY <4>2
    <3>9. /\ step \in {"validate", "lines"} => AllOtra = 0
          /\ step = "lines" => n <= N
      BY <3>4 DEF Tallied
    <3> QED BY <3>1, <3>5, <3>6, <3>7, <3>8, <3>9 DEF Tallied
  <2> QED BY <2>1, TalliedValidate, TalliedTakeLine, TalliedEndLines, TalliedConvertItem,
             TalliedTakeTotals, TalliedOther DEF Next
<1> QED BY <1>1, <1>2, InvoiceInvHolds, PTL DEF Spec

\* The e-CF bills what the ERP's lines come to, and takes off what their
\* discounts do: never less, and no more where each discount fits its item.
THEOREM NoLineIsLost == Spec => []LinesAreBilled
<1>1. InvoiceInv /\ Tallied => LinesAreBilled
  <2> SUFFICES ASSUME InvoiceInv, Tallied, Done PROVE LinesAreBilled
    BY DEF LinesAreBilled
  <2>1. PICK v : Valued(v, Len(inv.lines)) /\ Settles(AllOtra, v)
    BY DEF Tallied, Done
  <2>2. inv.lines \in Seq(Line) /\ Len(inv.lines) \in Nat /\ DOMAIN inv.lines = 1 .. Len(inv.lines)
    <3>1. inv \in Invoices
      BY DEF InvoiceInv, Stage
    <3> QED BY <3>1, Documents, LenProperties
  <2>3. \A n \in 0 .. Len(inv.lines) : Balance[n] = v[n]
    BY <2>1, <2>2, BalanceIs
  <2>4. LinesWorth = v[Len(inv.lines)].all
    BY <2>2, <2>3 DEF LinesWorth
  <2>5. DiscountsFit => Meets(v, Len(inv.lines))
    BY <2>2, <2>3 DEF DiscountsFit, Meets
  <2> QED BY <2>1, <2>2, <2>4, <2>5 DEF LinesAreBilled, Settles, Covers, NoMore, AllOtra
<1> QED BY <1>1, InvoiceInvHolds, TalliedHolds, PTL

-----------------------------------------------------------------------------
(* The whole company. *)

\* What the company does is, seen from each of its parts, what the part does by
\* itself: every theorem about a part is one about the company.
THEOREM EveryPartIsItself == CompanySpec => Spec /\ PeerSpec /\ DirectSpec
<1>1. CompanyInit => Init /\ PeerInit /\ DirectInit
  BY DEF CompanyInit
<1>2. [CompanyNext]_<<vars, peerVars, directVars>>
        => [Next]_vars /\ [PeerNext]_peerVars /\ [DirectNext]_directVars
  <2> SUFFICES ASSUME [CompanyNext]_<<vars, peerVars, directVars>>
      PROVE  [Next]_vars /\ [PeerNext]_peerVars /\ [DirectNext]_directVars
    OBVIOUS
  <2>1. CASE Next /\ UNCHANGED <<peerVars, directVars>>
    BY <2>1
  <2>2. CASE UNCHANGED <<vars, directVars>> /\ (DoorNext \/ SignerNext \/ PeerTick)
    BY <2>2 DEF PeerNext
  <2>3. CASE UNCHANGED <<vars, peerVars>> /\ DirectStep
    BY <2>3 DEF DirectNext
  <2>4. CASE UNCHANGED vars /\ Restart
    BY <2>4 DEF Restart, PeerNext, DirectNext
  <2>5. CASE UNCHANGED <<vars, peerVars, directVars>>
    BY <2>5
  <2> QED BY <2>1, <2>2, <2>3, <2>4, <2>5 DEF CompanyNext
<1> QED BY <1>1, <1>2, PTL DEF CompanySpec, Spec, PeerSpec, DirectSpec
=============================================================================
