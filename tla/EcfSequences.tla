---------------------------- MODULE EcfSequences ----------------------------
(***************************************************************************)
(* eNCF allocation (EcfSequenceManager): rows of ecf_sequences, one per    *)
(* sequence scope and document type, from which request threads draw       *)
(* fiscal numbers and to which they give back the ones they did not use.   *)
(*                                                                         *)
(* A scope is "default-tenant" or "<tenant>:<ambiente>".  Each             *)
(* SELECT .. FOR UPDATE .. COMMIT of getNextEncf that finds its row is one *)
(* step: the lock it holds serialises everything that touches the row.  A  *)
(* SELECT that finds nothing locks nothing, so the fallback SELECT on the  *)
(* alternative scope is a later step, and other transactions may come in   *)
(* between.                                                                *)
(***************************************************************************)
EXTENDS SequenceRow, FiniteSets

CONSTANTS
  Scope,     \* the scope strings callers ask for
  None,      \* "there is none"
  Alt,       \* PreCertificacion <-> TestEcf, Certificacion <-> CertEcf
  Bare,      \* the part of a scope before its ':'
  Row,       \* ids of the rows of ecf_sequences (one document type)
  Desde,     \* rango_desde of each row
  Hasta,     \* rango_hasta of each row
  Loaded,    \* values of secuencia_actual a row may have been loaded with
  Caller     \* request threads

ASSUME ScopeAssumption ==
  /\ None \notin Scope
  /\ Alt \in [Scope -> Scope \cup {None}]
  /\ Bare \in [Scope -> Scope \cup {None}]
  \* the four suffixes are paired, and a pair is read both ways
  /\ \A s \in Scope : Alt[s] # None => Alt[s] # s /\ Alt[Alt[s]] = s

ASSUME RangeAssumption ==
  /\ Desde \in [Row -> Nat \ {0}]
  /\ Hasta \in [Row -> Nat]
  /\ Loaded \subseteq Nat

VARIABLES
  scopeOf,   \* tenant_id of each row
  actual,    \* secuencia_actual of each row
  expired,   \* fecha_vencimiento is missing or past
  pc,        \* where each caller is
  want,      \* the scope each caller asked for
  held,      \* the number each caller was given and has not settled
  used       \* numbers that a document row carries

vars == <<scopeOf, actual, expired, pc, want, held, used>>

Number == [row : Row, num : Nat]

TypeOK ==
  /\ scopeOf \in [Row -> Scope]
  /\ actual \in [Row -> Nat]
  /\ expired \in [Row -> BOOLEAN]
  /\ pc \in [Caller -> {"idle", "alternate", "holding"}]
  /\ want \in [Caller -> Scope \cup {None}]
  /\ held \in [Caller -> Number \cup {None}]
  /\ used \subseteq Number
  /\ \A c \in Caller : pc[c] = "holding" => held[c] \in Number
  /\ \A c \in Caller : pc[c] # "idle" => want[c] \in Scope

\* uq_ecf_sequences (tenant_id, tipo_comprobante): a scope has at most one row.
OneRowPerScope ==
  \A r, q \in Row : scopeOf[r] = scopeOf[q] => r = q

Init ==
  /\ scopeOf \in [Row -> Scope]
  /\ OneRowPerScope
  /\ actual \in [Row -> Loaded]
  /\ expired = [r \in Row |-> FALSE]
  /\ pc = [c \in Caller |-> "idle"]
  /\ want = [c \in Caller |-> None]
  /\ held = [c \in Caller |-> None]
  /\ used = {}
-----------------------------------------------------------------------------
\* The checks getNextEncf makes on a row it has found; failing one throws, and
\* the transaction rolls back.
Usable(r) ==
  /\ ~expired[r]
  /\ HasNumber(actual[r], Desde[r], Hasta[r])

Give(c, s, r) ==
  /\ actual' = [actual EXCEPT ![r] = NextNumber(actual[r], Desde[r])]
  /\ held' = [held EXCEPT ![c] = [row |-> r, num |-> NextNumber(actual[r], Desde[r])]]
  /\ want' = [want EXCEPT ![c] = s]
  /\ pc' = [pc EXCEPT ![c] = "holding"]

\* getNextEncf, the scope has its own row.
GetNextEncf(c, s) ==
  /\ pc[c] = "idle"
  /\ \E r \in Row : /\ scopeOf[r] = s
                    /\ Usable(r)
                    /\ Give(c, s, r)
  /\ UNCHANGED <<scopeOf, expired, used>>

\* getNextEncf, the first SELECT finds nothing and an alternative exists.
OwnRowMissing(c, s) ==
  /\ pc[c] = "idle"
  /\ \A r \in Row : scopeOf[r] # s
  /\ Alt[s] # None
  /\ want' = [want EXCEPT ![c] = s]
  /\ pc' = [pc EXCEPT ![c] = "alternate"]
  /\ UNCHANGED <<scopeOf, actual, expired, held, used>>

\* getNextEncf, the second SELECT: the alternative scope's row is renamed to
\* the caller's scope and drawn from, in one transaction.
TakeAlternate(c) ==
  /\ pc[c] = "alternate"
  /\ \A q \in Row : scopeOf[q] # want[c]
  /\ \E r \in Row : /\ scopeOf[r] = Alt[want[c]]
                    /\ Usable(r)
                    /\ Give(c, want[c], r)
                    /\ scopeOf' = [scopeOf EXCEPT ![r] = want[c]]
  /\ UNCHANGED <<expired, used>>

\* getNextEncf, the second SELECT: nothing there, nothing usable there, or the
\* rename breaks the unique index.  The exception rolls everything back.
AlternateFails(c) ==
  /\ pc[c] = "alternate"
  /\ \/ \E q \in Row : scopeOf[q] = want[c]
     \/ \A r \in Row : scopeOf[r] = Alt[want[c]] => ~Usable(r)
  /\ pc' = [pc EXCEPT ![c] = "idle"]
  /\ want' = [want EXCEPT ![c] = None]
  /\ UNCHANGED <<scopeOf, actual, expired, held, used>>

\* Fault: the caller goes on as if it held the number.
StillHolding(c) ==
  /\ pc[c] = "holding"
  /\ held' = [held EXCEPT ![c] = None]
  /\ UNCHANGED <<scopeOf, expired, pc, want>>

\* Leaves the caller with no number.
Settled(c) ==
  /\ pc[c] = "holding"
  /\ pc' = [pc EXCEPT ![c] = "idle"]
  /\ want' = [want EXCEPT ![c] = None]
  /\ held' = [held EXCEPT ![c] = None]
  /\ UNCHANGED <<scopeOf, expired>>

\* The document row that carries the number is committed.
StoreDocument(c) ==
  /\ Settled(c)
  /\ used' = used \cup {held[c]}
  /\ UNCHANGED actual

\* The rows releaseUnusedEncf's UPDATE looks at: the caller's scope, and what
\* stands before the scope's ':'.
ReleaseRows(s) == {r \in Row : scopeOf[r] \in {s, Bare[s]}}

\* releaseUnusedEncf.  It is given the eNCF's number, not the row it came from.
ReleaseUnusedEncf(c) ==
  /\ Settled(c)
  /\ actual' = [r \in Row |-> IF r \in ReleaseRows(want[c])
                              THEN SteppedBack(actual[r], held[c].num)
                              ELSE actual[r]]
  /\ UNCHANGED used

\* The thread dies before the document is stored, or the release fails, which
\* it does silently: the number stays given out and nobody carries it.
LoseNumber(c) ==
  /\ Settled(c)
  /\ UNCHANGED <<actual, used>>

\* fecha_vencimiento goes by.
Expire(r) ==
  /\ ~expired[r]
  /\ expired' = [expired EXCEPT ![r] = TRUE]
  /\ UNCHANGED <<scopeOf, actual, pc, want, held, used>>

Next ==
  \/ \E c \in Caller, s \in Scope : GetNextEncf(c, s) \/ OwnRowMissing(c, s)
  \/ \E c \in Caller : \/ TakeAlternate(c)
                       \/ AlternateFails(c)
                       \/ StoreDocument(c)
                       \/ ReleaseUnusedEncf(c)
                       \/ LoseNumber(c)
  \/ \E r \in Row : Expire(r)

Spec == Init /\ [][Next]_vars
-----------------------------------------------------------------------------
Holding(c) == pc[c] = "holding"

\* No fiscal number of a range is in two hands: two requests never hold the
\* same number, and none holds a number a stored document already carries.
\* The release of an unused number, which steps the counter back, is what could
\* break it.
NoDoubleIssue ==
  /\ \A c, d \in Caller :
       Holding(c) /\ Holding(d) /\ held[c] = held[d] => c = d
  /\ \A c \in Caller : Holding(c) => held[c] \notin used

\* A number once carried by a document or in a request's hands lies in the range
\* DGII authorised, whatever counter the row was loaded with and however often
\* it was stepped back.
WithinAuthorisedRange ==
  LET InRange(n) == n.num \in Desde[n.row] .. Hasta[n.row]
  IN /\ \A n \in used : InRange(n)
     /\ \A c \in Caller : Holding(c) => InRange(held[c])

\* Stepping the counter back never uncovers a number that is out: the next
\* getNextEncf hands out a number above every one held or stored.
CounterCoversIssued ==
  /\ \A n \in used : n.num <= actual[n.row]
  /\ \A c \in Caller : Holding(c) => held[c].num <= actual[held[c].row]
=============================================================================
