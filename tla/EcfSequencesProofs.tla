------------------------- MODULE EcfSequencesProofs -------------------------
(***************************************************************************)
(* EcfSequences for every set of scopes, rows, ranges and callers.         *)
(*                                                                         *)
(* releaseUnusedEncf finds the row to step back by scope, not by the row   *)
(* the number came from, so the argument needs to know which rows a        *)
(* caller's scope can select while it holds a number (HolderRow).  It also *)
(* needs that no row stands at the bare part of a scope (PrefixFree);      *)
(* without it NoDoubleIssue is false, as the run sequences_collide shows.  *)
(***************************************************************************)
EXTENDS EcfSequences, TLAPS

\* No scope has a scope of its own before its ':'.
PrefixFree == \A s \in Scope : Bare[s] = None

\* While c holds a number, the row it came from stands at c's scope or at its
\* alternative, and no other row can take c's scope.
HolderRow ==
  \A c \in Caller : Holding(c) =>
    /\ scopeOf[held[c].row] \in {want[c], Alt[want[c]]}
    /\ \A q \in Row : scopeOf[q] = want[c] => q = held[c].row

IndInv ==
  /\ TypeOK
  /\ OneRowPerScope
  /\ HolderRow
  /\ WithinAuthorisedRange
  /\ CounterCoversIssued
  /\ NoDoubleIssue

\* What Give's arithmetic returns: a number above the counter, inside the range,
\* and it becomes the counter.
LEMMA NextNumberFacts ==
  ASSUME NEW a \in Nat, NEW d \in Nat \ {0}, NEW h \in Nat, HasNumber(a, d, h)
  PROVE  /\ NextNumber(a, d) \in Nat
         /\ NextNumber(a, d) > a
         /\ NextNumber(a, d) \in d .. h
  BY DEF HasNumber, NextNumber, Lifted

\* What a release does to a counter that covers every number issued: it stays a
\* number, and covers every number other than the one given back.
LEMMA SteppedBackFacts ==
  ASSUME NEW a \in Nat, NEW n \in Nat
  PROVE  /\ n # 0 => SteppedBack(a, n) \in Nat
         /\ \A m \in Nat : m <= a /\ m # n => m <= SteppedBack(a, n)
  BY DEF SteppedBack

\* A caller's SELECTs only ever name scopes.
LEMMA ScopesFacts ==
  ASSUME NEW s \in Scope
  PROVE  /\ Alt[s] \in Scope \cup {None}
         /\ Alt[s] # None => Alt[s] \in Scope /\ Alt[s] # s /\ Alt[Alt[s]] = s
         /\ None \notin Scope
  BY ScopeAssumption

-----------------------------------------------------------------------------
\* A caller c that draws a number for scope s from row r, which ends up at s with
\* every other row elsewhere.
LEMMA GiveKeepsIndInv ==
  ASSUME IndInv, NEW c \in Caller, NEW s \in Scope, NEW r \in Row,
         pc[c] # "holding", Usable(r), Give(c, s, r),
         scopeOf[r] \in {s, Alt[s]},
         scopeOf' = [scopeOf EXCEPT ![r] = s],
         \A q \in Row : scopeOf[q] = s => q = r,
         expired' = expired, used' = used
  PROVE  IndInv'
<1> DEFINE n == NextNumber(actual[r], Desde[r])
<1>1. /\ TypeOK /\ OneRowPerScope /\ HolderRow /\ WithinAuthorisedRange
      /\ CounterCoversIssued /\ NoDoubleIssue
  BY DEF IndInv
<1>2. /\ n \in Nat /\ n > actual[r] /\ n \in Desde[r] .. Hasta[r]
  BY <1>1, NextNumberFacts, RangeAssumption DEF TypeOK, Usable
<1> HIDE DEF n
<1>3. /\ actual' = [actual EXCEPT ![r] = n]
      /\ held' = [held EXCEPT ![c] = [row |-> r, num |-> n]]
      /\ want' = [want EXCEPT ![c] = s]
      /\ pc' = [pc EXCEPT ![c] = "holding"]
  BY DEF Give, n
<1>4. [row |-> r, num |-> n] \in Number
  BY <1>2 DEF Number
<1>5. TypeOK'
  BY <1>1, <1>2, <1>3, <1>4 DEF TypeOK
<1>6. OneRowPerScope'
  BY <1>1 DEF TypeOK, OneRowPerScope
<1>7. ASSUME NEW d \in Caller, Holding(d)', d # c
      PROVE  /\ Holding(d) /\ held'[d] = held[d] /\ want'[d] = want[d]
             /\ held[d] \in Number
  BY <1>1, <1>3, <1>7 DEF TypeOK, Holding
<1>8. held'[c] = [row |-> r, num |-> n] /\ want'[c] = s
  BY <1>1, <1>3 DEF TypeOK
<1>9. HolderRow'
  <2> SUFFICES ASSUME NEW d \in Caller, Holding(d)'
               PROVE  /\ scopeOf'[held'[d].row] \in {want'[d], Alt[want'[d]]}
                      /\ \A q \in Row : scopeOf'[q] = want'[d] => q = held'[d].row
    BY DEF HolderRow
  <2>1. CASE d = c
    BY <2>1, <1>1, <1>8 DEF TypeOK
  <2>2. CASE d # c
    <3> DEFINE w == want[d]
               p == held[d].row
    <3>1. /\ w \in Scope /\ p \in Row
          /\ scopeOf[p] \in {w, Alt[w]}
          /\ \A q \in Row : scopeOf[q] = w => q = p
      BY <1>1, <1>7, <2>2 DEF HolderRow, TypeOK, Holding, Number
    <3>2. held'[d] = held[d] /\ want'[d] = w
      BY <1>7, <2>2
    <3>3. p = r => s \in {w, Alt[w]}
      <4>1. scopeOf[r] \in Scope /\ None \notin Scope
        BY <1>1, ScopesFacts DEF TypeOK
      <4>2. scopeOf[r] = Alt[s] => Alt[scopeOf[r]] = s
        BY <4>1, ScopesFacts
      <4>3. scopeOf[r] = Alt[w] => Alt[scopeOf[r]] = w
        BY <4>1, <3>1, ScopesFacts
      <4>4. QED
        BY <4>2, <4>3, <3>1
    <3>4. s = w => p = r
      BY <3>1, <1>1 DEF OneRowPerScope, TypeOK
    <3>5. /\ scopeOf'[p] \in {w, Alt[w]}
          /\ \A q \in Row : scopeOf'[q] = w => q = p
      BY <3>1, <3>3, <3>4, <1>1 DEF TypeOK
    <3>6. QED
      BY <3>2, <3>5
  <2>3. QED
    BY <2>1, <2>2
<1>10. WithinAuthorisedRange'
  BY <1>1, <1>2, <1>7, <1>8 DEF WithinAuthorisedRange
<1>11. CounterCoversIssued'
  <2>1. \A q \in Row : actual[q] <= actual'[q]
    BY <1>1, <1>2, <1>3 DEF TypeOK
  <2>2. actual'[r] = n /\ n \in Nat
    BY <1>1, <1>2, <1>3 DEF TypeOK
  <2>3. actual' \in [Row -> Nat] /\ actual \in [Row -> Nat]
    BY <1>1, <1>5 DEF TypeOK
  <2>4. ASSUME NEW m \in used' PROVE m.num <= actual'[m.row]
    <3>1. m \in Number /\ m.num <= actual[m.row]
      BY <1>1, <2>4 DEF CounterCoversIssued, TypeOK
    <3>2. QED
      BY <3>1, <2>1, <2>3 DEF Number
  <2>5. ASSUME NEW d \in Caller, Holding(d)' PROVE held'[d].num <= actual'[held'[d].row]
    <3>1. CASE d = c
      BY <3>1, <1>8, <2>2
    <3>2. CASE d # c
      <4>1. held[d] \in Number /\ held[d].num <= actual[held[d].row] /\ held'[d] = held[d]
        BY <1>1, <1>7, <2>5, <3>2 DEF CounterCoversIssued
      <4>2. QED
        BY <4>1, <2>1, <2>3 DEF Number
    <3>3. QED
      BY <3>1, <3>2
  <2>6. QED
    BY <2>4, <2>5 DEF CounterCoversIssued
<1>12. NoDoubleIssue'
  <2>1. [row |-> r, num |-> n] \notin used
    BY <1>1, <1>2 DEF CounterCoversIssued, TypeOK
  <2>2. ASSUME NEW d \in Caller, Holding(d), d # c
        PROVE  held[d] # [row |-> r, num |-> n]
    BY <2>2, <1>1, <1>2 DEF CounterCoversIssued, TypeOK
  <2>3. QED
    BY <2>1, <2>2, <1>1, <1>7, <1>8 DEF NoDoubleIssue
<1>13. QED
  BY <1>5, <1>6, <1>9, <1>10, <1>11, <1>12 DEF IndInv

\* A caller that stops holding its number, the rows keeping their scopes.
LEMMA SettledKeepsHolders ==
  ASSUME IndInv, NEW c \in Caller, Settled(c)
  PROVE  /\ held[c] \in Number /\ want[c] \in Scope /\ Holding(c)
         /\ ~Holding(c)'
         /\ scopeOf' = scopeOf /\ expired' = expired
         /\ pc' \in [Caller -> {"idle", "alternate", "holding"}]
         /\ want' \in [Caller -> Scope \cup {None}]
         /\ held' \in [Caller -> Number \cup {None}]
         /\ \A d \in Caller : pc'[d] # "idle" =>
              d # c /\ pc'[d] = pc[d] /\ held'[d] = held[d] /\ want'[d] = want[d]
         /\ OneRowPerScope' /\ HolderRow'
<1>1. TypeOK /\ OneRowPerScope /\ HolderRow
  BY DEF IndInv
<1>2. /\ pc[c] = "holding" /\ held[c] \in Number /\ want[c] \in Scope
      /\ pc' = [pc EXCEPT ![c] = "idle"]
      /\ want' = [want EXCEPT ![c] = None]
      /\ held' = [held EXCEPT ![c] = None]
      /\ scopeOf' = scopeOf /\ expired' = expired
  BY <1>1 DEF Settled, TypeOK
<1>3. \A d \in Caller : pc'[d] # "idle" =>
        d # c /\ pc'[d] = pc[d] /\ held'[d] = held[d] /\ want'[d] = want[d]
  BY <1>1, <1>2 DEF TypeOK
<1>4. /\ pc' \in [Caller -> {"idle", "alternate", "holding"}]
      /\ want' \in [Caller -> Scope \cup {None}]
      /\ held' \in [Caller -> Number \cup {None}]
      /\ Holding(c) /\ ~Holding(c)'
  BY <1>1, <1>2 DEF TypeOK, Holding
<1>5. OneRowPerScope' /\ HolderRow'
  BY <1>1, <1>2, <1>3 DEF OneRowPerScope, HolderRow, Holding
<1>6. QED
  BY <1>2, <1>3, <1>4, <1>5

LEMMA InitIndInv == Init => IndInv
<1> SUFFICES ASSUME Init PROVE IndInv
  OBVIOUS
<1>1. TypeOK
  BY ScopeAssumption, RangeAssumption DEF Init, TypeOK
<1>2. \A c \in Caller : ~Holding(c)
  BY DEF Init, Holding
<1>3. used = {} /\ OneRowPerScope
  BY DEF Init
<1>4. QED
  BY <1>1, <1>2, <1>3
  DEF IndInv, HolderRow, WithinAuthorisedRange, CounterCoversIssued, NoDoubleIssue

LEMMA GetNextEncfKeeps ==
  ASSUME IndInv, NEW c \in Caller, NEW s \in Scope, GetNextEncf(c, s)
  PROVE  IndInv'
<1>1. PICK r \in Row : scopeOf[r] = s /\ Usable(r) /\ Give(c, s, r)
  BY DEF GetNextEncf
<1>2. pc[c] # "holding" /\ expired' = expired /\ used' = used /\ scopeOf' = scopeOf
  BY DEF GetNextEncf
<1>3. TypeOK /\ OneRowPerScope
  BY DEF IndInv
<1>4. scopeOf' = [scopeOf EXCEPT ![r] = s]
  BY <1>1, <1>2, <1>3 DEF TypeOK
<1>5. \A q \in Row : scopeOf[q] = s => q = r
  BY <1>1, <1>3 DEF OneRowPerScope
<1>6. QED
  BY <1>1, <1>2, <1>4, <1>5, GiveKeepsIndInv

LEMMA TakeAlternateKeeps ==
  ASSUME IndInv, NEW c \in Caller, TakeAlternate(c)
  PROVE  IndInv'
<1>1. PICK r \in Row : /\ scopeOf[r] = Alt[want[c]] /\ Usable(r) /\ Give(c, want[c], r)
                       /\ scopeOf' = [scopeOf EXCEPT ![r] = want[c]]
  BY DEF TakeAlternate
<1>2. /\ pc[c] # "holding" /\ expired' = expired /\ used' = used
      /\ \A q \in Row : scopeOf[q] = want[c] => q = r
  BY DEF TakeAlternate
<1>3. want[c] \in Scope
  BY DEF IndInv, TypeOK, TakeAlternate
<1>4. QED
  BY <1>1, <1>2, <1>3, GiveKeepsIndInv

\* Steps that touch neither the rows' counters and scopes nor what is held.
LEMMA IdleStepsKeep ==
  ASSUME IndInv,
         scopeOf' = scopeOf, actual' = actual, held' = held, used' = used,
         expired' \in [Row -> BOOLEAN],
         \A c \in Caller : Holding(c)' => Holding(c) /\ want'[c] = want[c],
         pc' \in [Caller -> {"idle", "alternate", "holding"}],
         want' \in [Caller -> Scope \cup {None}],
         \A c \in Caller : pc'[c] # "idle" => want'[c] \in Scope
  PROVE  IndInv'
<1>1. TypeOK'
  BY DEF IndInv, TypeOK, Holding
<1>2. OneRowPerScope' /\ HolderRow'
  BY DEF IndInv, OneRowPerScope, HolderRow
<1>3. WithinAuthorisedRange' /\ CounterCoversIssued' /\ NoDoubleIssue'
  BY DEF IndInv, WithinAuthorisedRange, CounterCoversIssued, NoDoubleIssue
<1>4. QED
  BY <1>1, <1>2, <1>3 DEF IndInv

LEMMA OwnRowMissingKeeps ==
  ASSUME IndInv, NEW c \in Caller, NEW s \in Scope, OwnRowMissing(c, s)
  PROVE  IndInv'
<1>1. TypeOK
  BY DEF IndInv
<1>2. /\ pc[c] = "idle"
      /\ want' = [want EXCEPT ![c] = s] /\ pc' = [pc EXCEPT ![c] = "alternate"]
      /\ scopeOf' = scopeOf /\ actual' = actual /\ held' = held /\ used' = used
      /\ expired' = expired
  BY DEF OwnRowMissing
<1>3. /\ \A d \in Caller : Holding(d)' => Holding(d) /\ want'[d] = want[d]
      /\ pc' \in [Caller -> {"idle", "alternate", "holding"}]
      /\ want' \in [Caller -> Scope \cup {None}]
      /\ \A d \in Caller : pc'[d] # "idle" => want'[d] \in Scope
      /\ expired' \in [Row -> BOOLEAN]
  BY <1>1, <1>2 DEF TypeOK, Holding
<1>4. QED
  BY <1>2, <1>3, IdleStepsKeep

LEMMA AlternateFailsKeeps ==
  ASSUME IndInv, NEW c \in Caller, AlternateFails(c)
  PROVE  IndInv'
<1>1. TypeOK
  BY DEF IndInv
<1>2. /\ pc[c] = "alternate"
      /\ want' = [want EXCEPT ![c] = None] /\ pc' = [pc EXCEPT ![c] = "idle"]
      /\ scopeOf' = scopeOf /\ actual' = actual /\ held' = held /\ used' = used
      /\ expired' = expired
  BY DEF AlternateFails
<1>3. /\ \A d \in Caller : Holding(d)' => Holding(d) /\ want'[d] = want[d]
      /\ pc' \in [Caller -> {"idle", "alternate", "holding"}]
      /\ want' \in [Caller -> Scope \cup {None}]
      /\ \A d \in Caller : pc'[d] # "idle" => want'[d] \in Scope
      /\ expired' \in [Row -> BOOLEAN]
  BY <1>1, <1>2 DEF TypeOK, Holding
<1>4. QED
  BY <1>2, <1>3, IdleStepsKeep

LEMMA ExpireKeeps ==
  ASSUME IndInv, NEW r \in Row, Expire(r)
  PROVE  IndInv'
<1>1. TypeOK
  BY DEF IndInv
<1>2. /\ pc' = pc /\ want' = want
      /\ scopeOf' = scopeOf /\ actual' = actual /\ held' = held /\ used' = used
      /\ expired' \in [Row -> BOOLEAN]
  BY <1>1 DEF Expire, TypeOK
<1>3. /\ \A d \in Caller : Holding(d)' => Holding(d) /\ want'[d] = want[d]
      /\ \A d \in Caller : pc'[d] # "idle" => want'[d] \in Scope
  BY <1>1, <1>2 DEF TypeOK, Holding
<1>4. QED
  BY <1>1, <1>2, <1>3, IdleStepsKeep DEF TypeOK

\* The document that carries the number is stored: the number moves from the
\* caller's hands to used.
LEMMA StoreDocumentKeeps ==
  ASSUME IndInv, NEW c \in Caller, StoreDocument(c)
  PROVE  IndInv'
<1>1. Settled(c) /\ used' = used \cup {held[c]} /\ actual' = actual
  BY DEF StoreDocument
<1>2. /\ TypeOK /\ WithinAuthorisedRange /\ CounterCoversIssued /\ NoDoubleIssue
  BY DEF IndInv
<1>3. TypeOK'
  BY <1>1, <1>2, SettledKeepsHolders DEF TypeOK
<1>4. \A d \in Caller : Holding(d)' => d # c /\ Holding(d) /\ held'[d] = held[d]
  BY <1>1, SettledKeepsHolders DEF Holding
<1>5. WithinAuthorisedRange'
  BY <1>1, <1>2, <1>4, SettledKeepsHolders DEF WithinAuthorisedRange
<1>6. CounterCoversIssued'
  BY <1>1, <1>2, <1>4, SettledKeepsHolders DEF CounterCoversIssued
<1>7. NoDoubleIssue'
  BY <1>1, <1>2, <1>4, SettledKeepsHolders DEF NoDoubleIssue
<1>8. QED
  BY <1>1, <1>3, <1>5, <1>6, <1>7, SettledKeepsHolders DEF IndInv

\* The number is lost with its caller.
LEMMA LoseNumberKeeps ==
  ASSUME IndInv, NEW c \in Caller, LoseNumber(c)
  PROVE  IndInv'
<1>1. Settled(c) /\ used' = used /\ actual' = actual
  BY DEF LoseNumber
<1>2. /\ TypeOK /\ WithinAuthorisedRange /\ CounterCoversIssued /\ NoDoubleIssue
  BY DEF IndInv
<1>3. TypeOK'
  BY <1>1, <1>2, SettledKeepsHolders DEF TypeOK
<1>4. \A d \in Caller : Holding(d)' => d # c /\ Holding(d) /\ held'[d] = held[d]
  BY <1>1, SettledKeepsHolders DEF Holding
<1>5. WithinAuthorisedRange' /\ CounterCoversIssued' /\ NoDoubleIssue'
  BY <1>1, <1>2, <1>4
  DEF WithinAuthorisedRange, CounterCoversIssued, NoDoubleIssue
<1>6. QED
  BY <1>1, <1>3, <1>5, SettledKeepsHolders DEF IndInv

\* The number is given back.  With PrefixFree and HolderRow the UPDATE selects
\* at most the row the number came from; on it every other number that is out
\* lies strictly below the one given back whenever the counter steps.
LEMMA ReleaseUnusedEncfKeeps ==
  ASSUME PrefixFree, IndInv, NEW c \in Caller, ReleaseUnusedEncf(c)
  PROVE  IndInv'
<1> DEFINE r == held[c].row
           n == held[c].num
<1>1. /\ Settled(c) /\ used' = used
      /\ actual' = [q \in Row |-> IF q \in ReleaseRows(want[c])
                                  THEN SteppedBack(actual[q], n) ELSE actual[q]]
  BY DEF ReleaseUnusedEncf
<1>2. /\ TypeOK /\ HolderRow /\ WithinAuthorisedRange /\ CounterCoversIssued
      /\ NoDoubleIssue
  BY DEF IndInv
<1>3. /\ held[c] \in Number /\ want[c] \in Scope /\ Holding(c)
      /\ r \in Row /\ n \in Nat
  BY <1>1, SettledKeepsHolders DEF Number
<1>4. n # 0
  BY <1>2, <1>3, RangeAssumption DEF WithinAuthorisedRange
<1>5. \A q \in Row : q \in ReleaseRows(want[c]) => q = r
  BY <1>2, <1>3, ScopesFacts DEF ReleaseRows, PrefixFree, HolderRow, TypeOK
<1>6. /\ actual' \in [Row -> Nat]
      /\ \A q \in Row : q # r => actual'[q] = actual[q]
      /\ \A m \in Nat : m <= actual[r] /\ m # n => m <= actual'[r]
  <2>1. \A q \in Row : SteppedBack(actual[q], n) \in Nat
    BY <1>2, <1>3, <1>4, SteppedBackFacts DEF TypeOK
  <2>2. \A m \in Nat : m <= actual[r] /\ m # n => m <= SteppedBack(actual[r], n)
    BY <1>2, <1>3, SteppedBackFacts DEF TypeOK
  <2>3. QED
    BY <1>1, <1>2, <1>3, <1>5, <2>1, <2>2 DEF TypeOK
<1>7. \A d \in Caller : Holding(d)' => d # c /\ Holding(d) /\ held'[d] = held[d]
  BY <1>1, SettledKeepsHolders DEF Holding
<1>8. TypeOK'
  BY <1>1, <1>2, <1>6, SettledKeepsHolders DEF TypeOK
<1>9. WithinAuthorisedRange' /\ NoDoubleIssue'
  BY <1>1, <1>2, <1>7 DEF WithinAuthorisedRange, NoDoubleIssue
<1>10. CounterCoversIssued'
  <2>1. ASSUME NEW m \in Number, m # held[c], m.num <= actual[m.row]
        PROVE  m.num <= actual'[m.row]
    <3>1. m.row \in Row /\ m.num \in Nat /\ (m.row = r => m.num # n)
      BY <1>3, <2>1 DEF Number
    <3>2. QED
      BY <1>6, <2>1, <3>1
  <2>2. \A m \in used : m \in Number /\ m # held[c] /\ m.num <= actual[m.row]
    BY <1>2, <1>3 DEF NoDoubleIssue, CounterCoversIssued, TypeOK
  <2>3. \A d \in Caller : Holding(d) /\ d # c =>
          held[d] \in Number /\ held[d] # held[c] /\ held[d].num <= actual[held[d].row]
    BY <1>2, <1>3 DEF NoDoubleIssue, CounterCoversIssued, TypeOK, Holding
  <2>4. QED
    BY <1>1, <1>7, <2>1, <2>2, <2>3 DEF CounterCoversIssued
<1>11. QED
  BY <1>1, <1>8, <1>9, <1>10, SettledKeepsHolders DEF IndInv

LEMMA StutterKeeps ==
  ASSUME IndInv, UNCHANGED vars
  PROVE  IndInv'
BY DEF IndInv, vars, TypeOK, OneRowPerScope, HolderRow, Holding,
       WithinAuthorisedRange, CounterCoversIssued, NoDoubleIssue

LEMMA NextIndInv ==
  ASSUME PrefixFree, IndInv, [Next]_vars
  PROVE  IndInv'
<1>1. CASE \E c \in Caller, s \in Scope : GetNextEncf(c, s) \/ OwnRowMissing(c, s)
  BY <1>1, GetNextEncfKeeps, OwnRowMissingKeeps
<1>2. CASE \E c \in Caller : TakeAlternate(c) \/ AlternateFails(c)
  BY <1>2, TakeAlternateKeeps, AlternateFailsKeeps
<1>3. CASE \E c \in Caller : StoreDocument(c) \/ LoseNumber(c)
  BY <1>3, StoreDocumentKeeps, LoseNumberKeeps
<1>4. CASE \E c \in Caller : ReleaseUnusedEncf(c)
  BY <1>4, ReleaseUnusedEncfKeeps
<1>5. CASE \E r \in Row : Expire(r)
  BY <1>5, ExpireKeeps
<1>6. CASE UNCHANGED vars
  BY <1>6, StutterKeeps
<1>7. QED
  BY <1>1, <1>2, <1>3, <1>4, <1>5, <1>6 DEF Next

-----------------------------------------------------------------------------
\* Every reachable state satisfies the inductive invariant: type correctness and
\* all that follows.  getNextEncf, releaseUnusedEncf, a stored document and a
\* lost number, in any order and by any number of threads.
THEOREM InvariantHolds ==
  ASSUME PrefixFree
  PROVE  Spec => []IndInv
<1>1. Init => IndInv
  BY InitIndInv
<1>2. IndInv /\ [Next]_vars => IndInv'
  BY NextIndInv
<1>3. QED
  BY <1>1, <1>2, PTL DEF Spec

\* Counters, held numbers and stored numbers keep their types; a counter never
\* goes below zero (releaseUnusedEncf steps it back).
THEOREM SequenceTyping ==
  ASSUME PrefixFree
  PROVE  Spec => []TypeOK
<1>1. IndInv => TypeOK
  BY DEF IndInv
<1>2. QED
  BY <1>1, InvariantHolds, PTL

\* No fiscal number is ever in two hands, for any number of scopes, rows and
\* request threads (getNextEncf against releaseUnusedEncf).
THEOREM NumbersAreIssuedOnce ==
  ASSUME PrefixFree
  PROVE  Spec => []NoDoubleIssue
<1>1. IndInv => NoDoubleIssue
  BY DEF IndInv
<1>2. QED
  BY <1>1, InvariantHolds, PTL

\* Every number given out lies in the range DGII authorised for its row
\* (getNextEncf's lift and exhaustion checks).
THEOREM NumbersAreAuthorised ==
  ASSUME PrefixFree
  PROVE  Spec => []WithinAuthorisedRange
<1>1. IndInv => WithinAuthorisedRange
  BY DEF IndInv
<1>2. QED
  BY <1>1, InvariantHolds, PTL

\* The row's counter covers every number given out, whatever was given back in
\* between, so that the next number is a new one (releaseUnusedEncf).
THEOREM CounterIsNeverBehind ==
  ASSUME PrefixFree
  PROVE  Spec => []CounterCoversIssued
<1>1. IndInv => CounterCoversIssued
  BY DEF IndInv
<1>2. QED
  BY <1>1, InvariantHolds, PTL
=============================================================================
