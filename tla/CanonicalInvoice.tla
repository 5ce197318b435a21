--------------------------- MODULE CanonicalInvoice ---------------------------
(***************************************************************************)
(* From the canonical invoice an ERP posts to the e-CF the service signs:  *)
(* the checks of DocumentsController::submit, then buildXmlFromCanonical,  *)
(* loop by loop, and the RFCE summary sent in place of a small E32.        *)
(*                                                                         *)
(* inv is the canonical document.  Kept of it: what decides an amount, the *)
(* presence of an element or a refusal.  A buyer's id is "empty" or        *)
(*   "rnc"    nine or eleven digits and no letter     "short"  other digits *)
(*   "mixed"  nine or eleven digits among letters     "alpha"  other text   *)
(* a foreign id is "empty", "blank" or "id"; a reference is "empty",       *)
(* "blank" or its kind: the three characters an NCF starts with or, of one *)
(* sent without its letter, "9:5" (nine digits, a 5 first) or "10:16".     *)
(*                                                                         *)
(* Texts, dates and the order of the XML's elements are left out.          *)
(***************************************************************************)
EXTENDS Money, Sequences

CONSTANTS
  Invoices,     \* the canonical documents explored
  MaxLines,     \* 1000
  Threshold,    \* 250,000.00 in cents
  None

Tax == {"ITBIS", "ISR"}

\* A quantity may have three decimals and a price five, one more than the e-CF
\* writes of either; an amount and a discount are cents.
Line == [qty : Int, price : Int, amount : Int, disc : Int,
         ind : Int \cup {None}, rate : Int \cup {None}, tax : Int \cup {None},
         ret : [Tax -> Nat \cup {None}]]

\* submit refuses a negative subtotal, ITBIS, total, quantity or discount (Valid).
\* That the amounts by rate, the exempt and the taxed amount and the retentions
\* are none is what it takes the ERP's word for.  A retention states its ITBIS,
\* which the DTO has as a plain double.
ASSUME InvoiceAssumption ==
  /\ MaxLines \in Nat \ {0} /\ Threshold \in Nat
  /\ None \notin Int \cup {"rnc", "foreign"} \cup [Tax -> Int \cup {None}]
  /\ \A v \in Invoices :
       /\ v.rnc \in {"empty", "rnc", "short", "mixed", "alpha"}
       /\ v.xid \in {"empty", "blank", "id"}
       /\ v.lines \in Seq(Line)
       /\ v.rate \in Int \cup {None}
       /\ {v.total, v.subtotal, v.itbis} \subseteq Int
       /\ {v.exento, v.gravado} \subseteq Nat \cup {None}
       /\ \A r \in DOMAIN v.buckets : {v.buckets[r].base, v.buckets[r].tax} \subseteq Nat
       /\ v.retention # None =>
            /\ v.retention \in [Tax -> Nat \cup {None}]
            /\ v.retention["ITBIS"] # None

VARIABLES
  inv,       \* the canonical document
  step,      \* the loop the builder is in
  i,         \* its index
  items,     \* processedItems
  sum,       \* sum[k]: what the items of indicator k come to, in both currencies
  totals,    \* <Totales>, and <OtraMoneda>
  withheld,  \* effectiveRetention
  assigned,  \* assignedItbis, assignedIsr
  read,      \* what the items written so far add up to, for who reads them
  rfce       \* <Totales> of the RFCE

vars == <<inv, step, i, items, sum, totals, withheld, assigned, read, rfce>>

Or0(x) == IF x = None THEN 0 ELSE x

Zero == [k \in Tax |-> 0]

Init ==
  /\ inv \in Invoices
  /\ step = "validate"
  /\ i = 1
  /\ items = <<>>
  /\ sum = [k \in 0 .. 4 |-> [dop |-> 0, otra |-> 0]]
  /\ totals = None
  /\ withheld = None
  /\ assigned = Zero
  /\ read = [monto |-> 0, ret |-> Zero]
  /\ rfce = None

Goto(s) == step' = s /\ i' = 1
-----------------------------------------------------------------------------
(* What kind of document it is. *)

Debit == inv.tipo \in {33, 34}

\* normalizeNcfReference.
Reference ==
  CASE inv.ref \in {"9:1", "10:01"} -> "B01"
    [] inv.ref = "9:6"              -> "B16"
    [] inv.ref = "9:7"              -> "B17"
    [] inv.ref = "10:16"            -> "B16"
    [] inv.ref = "10:17"            -> "B17"
    [] inv.ref = "blank"            -> "empty"
    [] OTHER                        -> inv.ref

ModifiesGastosMenores == Debit /\ Reference \in {"E43", "B13"}
ModifiesExport        == Debit /\ Reference \in {"E46", "B16"}

Taxed(l) ==
  \/ l.ind # None /\ l.ind \in 1 .. 3
  \/ l.rate # None /\ l.rate \in {18, 16}
  \/ l.tax # None /\ l.tax > 0

PurelyExempt ==
  \/ ModifiesGastosMenores
  \/ /\ \A n \in DOMAIN inv.lines : ~Taxed(inv.lines[n])
     /\ \A r \in DOMAIN inv.buckets : inv.buckets[r].base = 0
     /\ Or0(inv.exento) > 0 /\ Or0(inv.gravado) = 0 /\ inv.itbis = 0

Foreign == inv.rate # None
Rate == IF Foreign THEN inv.rate ELSE 10000

DefaultIndicador ==
  IF inv.tipo \in {43, 44, 47} THEN 4
  ELSE IF inv.tipo = 46 \/ ModifiesExport THEN 3
  ELSE IF PurelyExempt THEN 4
  ELSE IF DOMAIN inv.buckets = {16} /\ inv.buckets[16].base > 0 THEN 2
  ELSE 1

\* <RNCComprador> or <IdentificadorExtranjero>, if the e-CF has one.
Buyer ==
  LET maybeForeign == inv.tipo \in {32, 33, 34, 44}
  IN IF inv.tipo = 43 \/ ModifiesGastosMenores THEN None
     ELSE IF inv.tipo = 47
     THEN IF inv.xid = "id" \/ inv.rnc # "empty" THEN "foreign" ELSE None
     ELSE IF inv.tipo = 46
     THEN IF inv.xid # "id" /\ inv.rnc = "rnc" THEN "rnc" ELSE "foreign"
     ELSE IF maybeForeign /\ (inv.xid = "id" \/ inv.rnc \in {"mixed", "alpha"})
     THEN "foreign"
     ELSE IF inv.rnc = "empty"
     THEN IF ModifiesExport THEN "foreign" ELSE None
     ELSE IF inv.rnc \in {"rnc", "mixed"} \/ inv.tipo \in {31, 41, 45} THEN "rnc" ELSE None

HasReference ==
  Reference # "empty" /\ (Debit \/ (inv.code # None /\ inv.code = 4))
-----------------------------------------------------------------------------
(* DocumentsController::submit, before a number is allocated. *)

GoodLines ==
  /\ Len(inv.lines) \in 1 .. MaxLines
  /\ inv.lines[1].amount >= 0 /\ inv.lines[1].price >= 0
  /\ \A n \in DOMAIN inv.lines : inv.lines[n].qty >= 0 /\ inv.lines[n].disc >= 0
  /\ \/ \E n \in DOMAIN inv.lines : inv.lines[n].amount # 0 \/ inv.lines[n].price # 0
     \/ inv.total <= 0

GoodReference ==
  IF Debit THEN inv.ref # "empty" /\ inv.code # None
           ELSE inv.ref # "empty" => inv.code # None /\ inv.code = 4

\* Fault: the buyer of a large E32 is not asked for.
AnyBuyer ==
  CASE inv.tipo \in {31, 45, 41} -> inv.rnc \in {"rnc", "mixed"}
    [] OTHER                     -> TRUE

GoodBuyer ==
  CASE inv.tipo \in {31, 45, 41} -> inv.rnc \in {"rnc", "mixed"}
    [] inv.tipo = 32 /\ AtRate(inv.total, Rate) >= Threshold ->
         /\ inv.rnc # "empty" \/ inv.xid # "empty"
         /\ inv.rnc # "short"
    [] OTHER -> TRUE

Valid ==
  /\ Foreign => inv.rate > 0 /\ inv.rate < 10000000
  /\ GoodLines
  /\ inv.subtotal >= 0 /\ inv.itbis >= 0 /\ inv.total >= 0
  /\ GoodReference
  /\ GoodBuyer
  /\ inv.tipo \in {41, 47} => inv.retention # None
  /\ DOMAIN inv.buckets \subseteq {18, 16, 0}

Validate ==
  /\ step = "validate"
  /\ IF Valid THEN Goto("lines") ELSE Goto("refused")
  /\ UNCHANGED <<inv, items, sum, totals, withheld, assigned, read, rfce>>
-----------------------------------------------------------------------------
(* normalizeCanonicalLines. *)

\* A line without a quantity counts once, at its amount if it has no price.
Qty(l) == IF l.qty > 0 THEN l.qty ELSE 1000
Price(l) == IF l.qty > 0 \/ l.price # 0 THEN l.price ELSE l.amount * 1000

Negative(l)  == l.amount < 0 \/ Price(l) < 0
Worthless(l) == l.amount <= 0 /\ Price(l) <= 0

\* What price and quantity come to before they are rounded, in cents.
Product(l) == Rounded(Price(l) * Qty(l), Unit)

\* What a negative line takes off, in millionths of a cent.
Discount(l) == IF l.amount # 0 THEN Abs(l.amount) * Unit ELSE Abs(Price(l) * Qty(l))

\* Fault: no limit to what a discount takes off its item.
FoldedBelowZero(item, d) ==
  [item EXCEPT !.disc = Rounded(@ * Unit + d, Unit), !.monto = Rounded(@ * Unit - d, Unit)]

\* A negative line is a discount on the item before it.
Folded(item, d) ==
  [item EXCEPT !.disc = Rounded(@ * Unit + d, Unit), !.monto = Max0(Rounded(@ * Unit - d, Unit))]

Indicador(l) ==
  IF l.ind # None /\ l.ind \in 0 .. 4 THEN l.ind
  ELSE IF l.rate # None THEN (IF l.rate = 16 THEN 2 ELSE IF l.rate = 0 THEN 4 ELSE 1)
  ELSE IF l.tax # None /\ l.tax <= 0 THEN 4
  ELSE 1

Explicit(l) == (l.ind # None /\ l.ind \in 0 .. 4) \/ l.rate # None \/ l.tax # None

\* Fault: a discount is taken off an amount that is net of it already.
DiscountedTwice(price, qty, amount, d) == [price |-> price, disc |-> d, monto |-> Max0(amount - d)]

\* Price, discount and amount of an item with a discount of its own.  The
\* amount may come gross of it, or net with the gross price, or net with a net
\* price; then the gross price is worked out, to cents or else finer.
Discounted(price, qty, amount, d) ==
  LET net == Rounded(price * qty - d * 10000, 10000)
      fits(p) == Abs(Priced(p, qty) - d - amount) <= 1
      gross2 == 100 * Rounded((amount + d) * 100, qty)
      gross4 == Rounded((amount + d) * 10000, qty)
  IN IF (amount = 0 /\ price > 0) \/ Abs(amount - net) <= 5
     THEN [price |-> price, disc |-> d, monto |-> Max0(net)]
     ELSE IF qty > 0 /\ Abs(Priced(price, qty) - amount) <= 5 /\ (fits(gross2) \/ fits(gross4))
     THEN [price |-> IF fits(gross2) THEN gross2 ELSE gross4, disc |-> d, monto |-> amount]
     ELSE [price |-> price, disc |-> 0, monto |-> amount]

Plain(price, qty, amount) ==
  LET product == Priced(price, qty)
  IN [price |-> price, disc |-> 0,
      monto |-> IF (amount = 0 /\ price > 0) \/ Abs(amount - product) <= 5
                THEN product ELSE amount]

\* Fault: the price of a line sent without one is not worked out.
GivenPrice(l) == Max0(Rounded(Price(l), 10))

\* Price and amount, one worked out of the other where it is missing, and the
\* quantity: to the decimals the e-CF writes.
SafePrice(l) ==
  IF l.amount > 0 /\ Price(l) <= 0 THEN Rounded(l.amount * 100000, Qty(l))
                                   ELSE Max0(Rounded(Price(l), 10))
SafeAmount(l) == IF l.amount <= 0 /\ Price(l) > 0 THEN Product(l) ELSE Max0(l.amount)
SafeQty(l) == Rounded(Qty(l), 10)

NewItem(l) ==
  LET f == IF l.disc > 0 THEN Discounted(SafePrice(l), SafeQty(l), SafeAmount(l), l.disc)
                         ELSE Plain(SafePrice(l), SafeQty(l), SafeAmount(l))
  IN [qty |-> SafeQty(l), price |-> f.price, disc |-> f.disc, monto |-> f.monto,
      ind |-> Indicador(l), explicit |-> Explicit(l), ret |-> l.ret]

\* The items once line l has been taken in: a discount is folded into the last
\* item, and a line worth nothing is dropped.
TakenIn(l) ==
  IF Negative(l) /\ items # <<>>
  THEN [items EXCEPT ![Len(items)] = Folded(@, Discount(l))]
  ELSE IF Worthless(l) THEN items
  ELSE Append(items, NewItem(l))

TakeLine ==
  /\ step = "lines" /\ i <= Len(inv.lines)
  /\ items' = TakenIn(inv.lines[i])
  /\ i' = i + 1
  /\ UNCHANGED <<inv, step, sum, totals, withheld, assigned, read, rfce>>

\* What the single "Item General" of an invoice without items costs.
FallbackTotal ==
  IF inv.tipo \in {43, 44, 46, 47} \/ ModifiesExport THEN inv.total
  ELSE IF inv.subtotal > 0 THEN inv.subtotal ELSE Max0(inv.total - inv.itbis)

GeneralItem ==
  [qty |-> 100, price |-> FallbackTotal * 100, disc |-> 0, monto |-> FallbackTotal,
   ind |-> 1, explicit |-> FALSE, ret |-> [k \in Tax |-> None]]

\* effectiveRetention, in pesos.
Withheld ==
  LET pesos(x) == IF x = None THEN None ELSE AtRate(x, Rate)
  IN IF inv.tipo \notin {31, 33, 34, 41, 47} THEN None
     ELSE IF inv.retention # None THEN [k \in Tax |-> pesos(inv.retention[k])]
     ELSE IF inv.tipo \in {41, 47}
     THEN [k \in Tax |-> IF k = "ISR" /\ inv.tipo = 41 THEN None ELSE 0]
     ELSE None

EndLines ==
  /\ step = "lines" /\ i > Len(inv.lines)
  /\ items' = IF items = <<>> THEN <<GeneralItem>> ELSE items
  /\ withheld' = Withheld
  /\ Goto("convert")
  /\ UNCHANGED <<inv, sum, totals, assigned, read, rfce>>
-----------------------------------------------------------------------------
(* Items in pesos, and the sums of each kind of item. *)

EffectiveIndicador(item) ==
  IF inv.tipo \in {43, 44, 47} \/ ModifiesGastosMenores THEN 4
  ELSE IF inv.tipo = 46 \/ ModifiesExport
  THEN (IF item.explicit /\ item.ind = 0 THEN 0 ELSE 3)
  ELSE IF PurelyExempt THEN 4
  ELSE IF item.explicit THEN item.ind ELSE DefaultIndicador

\* Discounts are not shown on E43 and E47.
ShownDiscount(item) == IF inv.tipo \in {43, 47} THEN 0 ELSE item.disc

InPesos(item) ==
  LET d == AtRate(ShownDiscount(item), Rate)
      whole == AtRate(item.monto, Rate)
      unit == AtRate(item.price, Rate)
  IN IF ~Foreign
     THEN [price |-> item.price, disc |-> ShownDiscount(item), monto |-> item.monto]
     ELSE IF item.qty = 100 /\ d = 0
     THEN [price |-> whole * 100, disc |-> 0, monto |-> whole]
     ELSE [price |-> unit, disc |-> d, monto |-> Max0(Priced(unit, item.qty) - d)]

\* The item as written: its peso amounts, and its own amount aside.
Converted(item) ==
  LET p == InPesos(item)
  IN [qty |-> item.qty, price |-> p.price, disc |-> p.disc, monto |-> p.monto,
      otra |-> item.monto, ind |-> EffectiveIndicador(item), explicit |-> item.explicit,
      ret |-> [k \in Tax |-> IF item.ret[k] = None THEN None ELSE AtRate(item.ret[k], Rate)]]

ConvertItem ==
  /\ step = "convert" /\ i <= Len(items)
  /\ LET c == Converted(items[i])
     IN /\ items' = [items EXCEPT ![i] = c]
        /\ sum' = [sum EXCEPT ![c.ind] = [dop |-> @.dop + c.monto, otra |-> @.otra + c.otra]]
  /\ i' = i + 1
  /\ UNCHANGED <<inv, step, totals, withheld, assigned, read, rfce>>

ShownItems(c) == sum[1][c] + sum[2][c] + sum[3][c] + sum[4][c]
AllItems == ShownItems("dop") + sum[0].dop
-----------------------------------------------------------------------------
(* <Totales> and <OtraMoneda>.  A slot is 1, 2 or 3: ITBIS at 18, 16, 0%.   *)

Slot == 1 .. 3
RateOf == <<18, 16, 0>>

Slots(t, f) == Or0(t[f][1]) + Or0(t[f][2]) + Or0(t[f][3])

NoSlots == [s \in Slot |-> None]

Only(s, x) == [NoSlots EXCEPT ![s] = x]

\* E43, E44, E46 and E47 have one amount, exempt or taxed at 0%.
OneAmount(t) ==
  IF inv.tipo = 46
  THEN [gravado |-> t, base |-> IF t > 0 THEN Only(3, t) ELSE NoSlots,
        tax |-> IF t > 0 THEN Only(3, 0) ELSE NoSlots, exento |-> 0, itbis |-> 0, total |-> t]
  ELSE [gravado |-> 0, base |-> NoSlots, tax |-> NoSlots, exento |-> t, itbis |-> 0, total |-> t]

Bucket(f) ==
  [s \in Slot |-> IF RateOf[s] \in DOMAIN inv.buckets THEN inv.buckets[RateOf[s]][f] ELSE None]

\* In pesos the totals are the ERP's own.
OwnTotals ==
  LET exento == IF ModifiesGastosMenores
                THEN IF inv.total > 0 THEN inv.total
                     ELSE IF inv.exento # None THEN inv.exento ELSE inv.subtotal
                ELSE Or0(inv.exento)
      gravado == IF PurelyExempt THEN 0
                 ELSE IF inv.gravado # None THEN inv.gravado ELSE Max0(inv.subtotal - exento)
      slot == IF ModifiesExport THEN 3 ELSE 1
      buckets == inv.buckets # <<>> /\ ~PurelyExempt
  IN [gravado |-> gravado, exento |-> exento, total |-> inv.total,
      base |-> IF buckets THEN Bucket("base")
               ELSE IF gravado > 0 THEN Only(slot, gravado) ELSE NoSlots,
      tax |-> IF buckets THEN Bucket("tax")
              ELSE IF gravado > 0 THEN Only(slot, IF slot = 3 THEN 0 ELSE inv.itbis) ELSE NoSlots,
      itbis |-> IF PurelyExempt THEN 0 ELSE inv.itbis]

TaxOf(base) ==
  [s \in Slot |-> IF base[s] = None THEN None ELSE Rounded(base[s] * RateOf[s], 100)]

Summed(base, tax, exento) ==
  LET g == Or0(base[1]) + Or0(base[2]) + Or0(base[3])
      t == Or0(tax[1]) + Or0(tax[2]) + Or0(tax[3])
  IN [gravado |-> g, base |-> base, tax |-> tax, exento |-> exento, itbis |-> t,
      total |-> g + exento + t]

\* The slot a small difference goes to: that of the only amount when the ERP
\* sent no buckets, or else the first that is not empty.
FirstSlot(base) ==
  IF inv.buckets = <<>> THEN {1}
  ELSE {s \in Slot : Or0(base[s]) > 0 /\ \A r \in Slot : r < s => Or0(base[r]) = 0}

\* Fault: what the items exceed the totals by is taken off once more.
SettledAgainst(base, exento) ==
  LET diff == ShownItems("dop") - (Or0(base[1]) + Or0(base[2]) + Or0(base[3]) + exento)
      first == FirstSlot(base)
  IN IF Abs(diff) > 10 THEN [base |-> base, exento |-> exento]
     ELSE [base |-> [s \in Slot |-> IF s \in first THEN base[s] - diff ELSE base[s]],
           exento |-> exento]

\* A difference of up to ten cents between the items and the converted totals
\* goes to the first slot that is not empty, or else to the exempt amount.
Settled(base, exento) ==
  LET diff == ShownItems("dop") - (Or0(base[1]) + Or0(base[2]) + Or0(base[3]) + exento)
      first == FirstSlot(base)
  IN IF Abs(diff) > 10 THEN [base |-> base, exento |-> exento]
     ELSE [base |-> [s \in Slot |-> IF s \in first THEN base[s] + diff ELSE base[s]],
           exento |-> IF first = {} /\ exento > 0 THEN exento + diff ELSE exento]

\* The ERP's buckets or its two amounts, converted and settled.
FromErp(base, tax, exento) ==
  LET s == Settled([k \in Slot |-> IF base[k] = None THEN None ELSE AtRate(base[k], Rate)],
                   AtRate(exento, Rate))
  IN [dop |-> Summed(s.base, TaxOf(s.base), s.exento), otra |-> Summed(base, tax, exento)]

FromItems ==
  LET base(c) == [s \in Slot |-> IF \E n \in DOMAIN items : items[n].ind = s
                                 THEN sum[s][c] ELSE None]
      side(c) == Summed(base(c), TaxOf(base(c)), sum[4][c])
  IN [dop |-> side("dop"), otra |-> side("otra")]

FromLines == \E n \in DOMAIN items : items[n].explicit

Totals ==
  CASE ~Foreign -> [dop  |-> IF inv.tipo \in {43, 44, 46, 47} THEN OneAmount(inv.total)
                             ELSE OwnTotals,
                    otra |-> None]
    [] Foreign /\ inv.tipo \in {43, 44, 46, 47} ->
         [dop |-> OneAmount(ShownItems("dop")), otra |-> OneAmount(ShownItems("otra"))]
    [] Foreign /\ inv.tipo \notin {43, 44, 46, 47} ->
         IF ~FromLines /\ inv.buckets # <<>> /\ ~PurelyExempt
         THEN FromErp(Bucket("base"), Bucket("tax"), Or0(inv.exento))
         ELSE IF ~FromLines /\ ~PurelyExempt /\ Or0(inv.exento) > 0 /\ Or0(inv.gravado) > 0
         THEN FromErp(Only(1, inv.gravado), Only(1, inv.itbis), inv.exento)
         ELSE FromItems

\* A purchase in foreign currency whose whole ITBIS is withheld: it stays so in
\* pesos.
WithheldInFull ==
  /\ Foreign /\ inv.tipo = 41
  /\ inv.retention # None /\ Abs(inv.retention["ITBIS"] - inv.itbis) <= 2

TakeTotals ==
  /\ step = "convert" /\ i > Len(items)
  /\ totals' = Totals
  /\ withheld' = IF WithheldInFull THEN [withheld EXCEPT !["ITBIS"] = totals'.dop.itbis]
                                   ELSE withheld
  /\ Goto("prorate")
  /\ UNCHANGED <<inv, items, sum, assigned, read, rfce>>
-----------------------------------------------------------------------------
(* The document's retention shared out to its items. *)

LinesWithhold ==
  \E n \in DOMAIN items, k \in Tax : items[n].ret[k] # None /\ items[n].ret[k] > 0

\* Fault: the last item takes its share like the others.
ShareOfAny(k) ==
  IF AllItems = 0 THEN 0 ELSE Rounded(Or0(withheld[k]) * items[i].monto, AllItems)

\* What the i-th item bears of the tax k: its share, and the last one the rest.
Share(k) ==
  IF i = Len(items) THEN Max0(Or0(withheld[k]) - assigned[k])
  ELSE IF AllItems = 0 THEN 0
  ELSE Rounded(Or0(withheld[k]) * items[i].monto, AllItems)

ShareItem ==
  /\ step = "prorate" /\ i <= Len(items)
  /\ withheld # None
  /\ i > 1 \/ ~LinesWithhold
  /\ items' = [items EXCEPT ![i].ret = [k \in Tax |-> Share(k)]]
  /\ assigned' = IF i = Len(items) THEN assigned
                 ELSE [k \in Tax |-> assigned[k] + Share(k)]
  /\ i' = i + 1
  /\ UNCHANGED <<inv, step, sum, totals, withheld, read, rfce>>

EndShares ==
  /\ step = "prorate"
  /\ i > Len(items) \/ withheld = None \/ (i = 1 /\ LinesWithhold)
  /\ Goto("write")
  /\ UNCHANGED <<inv, items, sum, totals, withheld, assigned, read, rfce>>
-----------------------------------------------------------------------------
(* <DetallesItems>, and the RFCE. *)

\* appendLineRetencion: what an item shows of the tax k.
ShownRetention(item, k) ==
  IF withheld = None \/ (inv.tipo = 47 /\ k = "ITBIS") THEN 0 ELSE Or0(item.ret[k])

WriteItem ==
  /\ step = "write" /\ i <= Len(items)
  /\ read' = [monto |-> read.monto + items[i].monto,
              ret |-> [k \in Tax |-> read.ret[k] + ShownRetention(items[i], k)]]
  /\ i' = i + 1
  /\ UNCHANGED <<inv, step, items, sum, totals, withheld, assigned, rfce>>

\* signAndSend: an E32 below the threshold goes as a summary.
IsRfce == inv.tipo = 32 /\ totals.dop.total < Threshold

\* Fault: the summary takes the ERP's total for the document's.
RfceOfErp ==
  [gravado |-> Or0(inv.gravado), exento |-> Or0(inv.exento), itbis |-> inv.itbis,
   total |-> inv.total]

\* buildRfceXml, of the document's total and ITBIS and the ERP's totals.
RfceTotals ==
  LET t == totals.dop
      rest == [gravado |-> IF t.itbis > 0 THEN Max0(t.total - t.itbis) ELSE 0,
               exento  |-> IF t.itbis > 0 THEN 0 ELSE t.total]
      buckets == [base |-> Bucket("base"), tax |-> Bucket("tax")]
      own == ~Foreign /\ (inv.buckets # <<>> \/ inv.gravado # None \/ inv.exento # None)
  IN IF ~own
     THEN [gravado |-> rest.gravado, exento |-> rest.exento, itbis |-> t.itbis,
           total |-> t.total]
     ELSE IF inv.buckets # <<>>
     THEN [gravado |-> IF Or0(inv.gravado) = 0 THEN Slots(buckets, "base") ELSE inv.gravado,
           exento |-> Or0(inv.exento),
           itbis |-> IF inv.itbis > 0 THEN inv.itbis ELSE Slots(buckets, "tax"),
           total |-> t.total]
     ELSE [gravado |-> IF t.itbis > 0 THEN rest.gravado ELSE Or0(inv.gravado),
           exento |-> IF t.itbis > 0 THEN Or0(inv.exento) ELSE t.total,
           itbis |-> IF inv.itbis > 0 THEN inv.itbis ELSE t.itbis,
           total |-> t.total]

Finish ==
  /\ step = "write" /\ i > Len(items)
  /\ rfce' = IF IsRfce THEN RfceTotals ELSE None
  /\ Goto("done")
  /\ UNCHANGED <<inv, items, sum, totals, withheld, assigned, read>>
-----------------------------------------------------------------------------
Next ==
  \/ Validate
  \/ TakeLine \/ EndLines
  \/ ConvertItem \/ TakeTotals
  \/ ShareItem \/ EndShares
  \/ WriteItem \/ Finish

Spec == Init /\ [][Next]_vars
-----------------------------------------------------------------------------
Item == [qty : Nat, price : Nat, disc : Nat, monto : Nat, ind : 0 .. 4, explicit : BOOLEAN,
         ret : [Tax -> Nat \cup {None}]]

ItemWritten ==
  [qty : Nat, price : Nat, disc : Nat, monto : Nat, otra : Nat, ind : 0 .. 4,
   explicit : BOOLEAN, ret : [Tax -> Int \cup {None}]]

\* A retention taken from the converted ITBIS may be below zero (BelowZero).
TypeOK ==
  /\ step \in {"validate", "refused", "lines", "convert", "prorate", "write", "done"}
  /\ i \in Nat \ {0}
  /\ items \in Seq(Item \cup ItemWritten)
  /\ sum \in [0 .. 4 -> [dop : Nat, otra : Nat]]
  /\ withheld \in [Tax -> Int \cup {None}] \cup {None}
  /\ assigned \in [Tax -> Int]
  /\ read \in [monto : Nat, ret : [Tax -> Int]]

Done == step = "done"

\* What the ERP's line is worth, net of its discounts, in cents.
Worth(l) ==
  IF Negative(l) THEN -Rounded(Discount(l), Unit)
  ELSE IF l.amount > 0 THEN l.amount
  ELSE Product(l) - l.disc

\* What the lines come to, all of them and those of the last item.
Added(b, l) ==
  [all |-> b.all + Worth(l),
   last |-> IF Negative(l) \/ Worthless(l) THEN b.last + Worth(l) ELSE Worth(l)]

Balance ==
  LET upTo[n \in 0 .. Len(inv.lines)] ==
        IF n = 0 THEN [all |-> 0, last |-> 0] ELSE Added(upTo[n - 1], inv.lines[n])
  IN upTo

LinesWorth == Balance[Len(inv.lines)].all

\* Each discount meets an item that is worth as much, and each line with a
\* discount of its own states its amount.
DiscountsFit ==
  /\ \A n \in 0 .. Len(inv.lines) : Balance[n].last >= 0
  /\ \A n \in DOMAIN inv.lines :
       LET l == inv.lines[n] IN Negative(l) \/ l.disc = 0 \/ l.amount > 0

\* No line is lost or cut between the ERP and the e-CF, and no discount: what
\* the items bill is what the lines come to, but for the five cents a line may
\* be rounded by (normalizeCanonicalLines).  It is never less.  It may be more
\* in three cases, which DiscountsFit leaves out: a discount line after nothing
\* but lines that were dropped, which meets no item; one of more than its item,
\* which stops at zero; and a line with a discount and no amount, whose amount
\* is worked out first and then taken to be net.  Lines all worth nothing are
\* replaced by one item at the document's total.
LinesAreBilled ==
  Done =>
    LET billed == ShownItems("otra") + sum[0].otra
        slack == 5 * Len(inv.lines)
    IN /\ billed >= LinesWorth - slack
       /\ DiscountsFit /\ (\E n \in DOMAIN inv.lines : ~Worthless(inv.lines[n]))
            => billed <= LinesWorth + slack

\* The e-CF can write the line: a quantity of two decimals, a price of four and
\* a discount of whole cents.
Exact(l) ==
  /\ Qty(l) % 10 = 0 /\ Price(l) % 10 = 0
  /\ Negative(l) => Discount(l) % Unit = 0

\* The ERP's line adds up: with its discount in the amount, in both, or missing
\* a part that the rest gives.  A price that is worked out has four decimals:
\* from some thousand units on, it is off by more than the five cents.
Fits(l) ==
  /\ Exact(l)
  /\ l.amount > 0 /\ Price(l) <= 0 => Qty(l) <= 1000000
  /\ \/ l.amount <= 0 \/ Price(l) <= 0
     \/ Abs(Product(l) - l.disc - l.amount) <= 4
     \/ Abs(Product(l) - l.amount) <= 5

\* E43 and E47 show no discount, yet their amounts are net of it.
HidesDiscount ==
  inv.tipo \in {43, 47} /\ \E n \in DOMAIN inv.lines :
                            Negative(inv.lines[n]) \/ inv.lines[n].disc > 0

\* Each item of the e-CF adds up: CantidadItem * PrecioUnitarioItem -
\* DescuentoMonto is MontoItem, in pesos as in the foreign currency, whatever
\* way the ERP sent its discount and whatever lines were folded into the item.
\* That takes lines the e-CF can write: normalizeCanonicalLines rounds a third
\* decimal of a quantity, or a fifth of a price, and keeps the amount.
ItemsAddUp ==
  Done /\ ~HidesDiscount /\ (\A n \in DOMAIN inv.lines : Fits(inv.lines[n])) =>
    \A n \in DOMAIN items :
      LET x == items[n]
          net == Priced(x.price, x.qty) - x.disc
      IN Abs(Max0(net) - x.monto) <= 5

\* The difference settled against a taxed amount of a few cents may be more
\* than the amount: its ITBIS, and an ITBIS withheld in full, are below zero.
BelowZero == totals.dop.itbis < 0

\* A retention stated for the document is shared out to the last cent: what its
\* items show is not less than it, and not more than half a cent per item above.
RetentionIsShared ==
  Done /\ withheld # None /\ ~BelowZero
    /\ (\A n \in DOMAIN inv.lines, k \in Tax : Or0(inv.lines[n].ret[k]) = 0)
    => \A k \in IF inv.tipo = 47 THEN {"ISR"} ELSE Tax :
         read.ret[k] - Or0(withheld[k]) \in 0 .. Len(items) \div 2

\* In a foreign currency the items come to the taxed and exempt totals, or are
\* off by more than the ten cents that are settled: rounding each item and each
\* total at the rate of exchange leaves no small difference behind.
ItemsMatchTotals ==
  Done /\ Foreign /\ totals.dop.gravado + totals.dop.exento > 0 =>
    LET diff == read.monto - sum[0].dop - (totals.dop.gravado + totals.dop.exento)
    IN diff = 0 \/ (Abs(diff) > 10 /\ ~FromLines)

\* The ERP's buckets, where it sends them, come to its ITBIS and its total.
ErpAddsUp ==
  LET bases == Slots([base |-> Bucket("base")], "base")
      taxes == Slots([tax |-> Bucket("tax")], "tax")
      gravado == IF Or0(inv.gravado) = 0 THEN bases ELSE inv.gravado
  IN /\ inv.total >= inv.itbis
     /\ inv.buckets # <<>> =>
          inv.itbis = taxes /\ inv.total = gravado + Or0(inv.exento) + inv.itbis

\* buildRfceXml, in pesos and without buckets: the taxed amount is all that is
\* not ITBIS, and the exempt one is added to it; without ITBIS, the exempt
\* amount is all there is, and the taxed one is added to it.
CountedTwice ==
  /\ ~Foreign /\ inv.buckets = <<>>
  /\ IF totals.dop.itbis > 0 THEN Or0(inv.exento) > 0 ELSE Or0(inv.gravado) > 0

\* The summary of a small E32 tells what its e-CF tells: always the same total,
\* the same ITBIS, and amounts that come to that total unless one of them is
\* counted twice (buildRfceXml works from the document and from the ERP's
\* totals, buildXmlFromCanonical from the lines).
RfceRepeatsEcf ==
  Done /\ rfce # None =>
    /\ rfce.total = totals.dop.total
    /\ Foreign \/ ErpAddsUp =>
         /\ rfce.itbis = totals.dop.itbis
         /\ ~CountedTwice /\ ~BelowZero
              => rfce.gravado + rfce.exento + rfce.itbis = rfce.total

\* What submit requires, the e-CF carries: a buyer's RNC on E31, E41 and E45,
\* some identification on a large E32, the document an E33 or E34 modifies (or
\* replaces, with code 4).  A blank id or reference passes as one.
RequiredIsWritten ==
  Done =>
    /\ inv.tipo \in {31, 41, 45} => Buyer = "rnc"
    /\ inv.tipo = 32 /\ AtRate(inv.total, Rate) >= Threshold /\ inv.xid # "blank"
         => Buyer # None
    /\ inv.ref \notin {"empty", "blank"} => HasReference
    /\ inv.tipo \in {41, 47} => withheld # None
=============================================================================
