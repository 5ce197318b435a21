------------------------- MODULE EcfDocumentsProofs -------------------------
(***************************************************************************)
(* EcfDocuments for any number of invoices, contents, threads and numbers, *)
(* with late uploads, answers without an estado and any overlap of         *)
(* requests: a fiscal number never serves two invoices, and an acceptance  *)
(* on record is DGII's for that number and invoice.                        *)
(*                                                                         *)
(* The invariant says where a number can be: in rows, at DGII, on the wire *)
(* and in copies of one invoice, at or below the counter; and, until it is *)
(* stored, nowhere but with the thread that drew it, which alone may give  *)
(* it back.                                                                *)
(***************************************************************************)
EXTENDS EcfDocuments, TLAPS

Job == [txn : Txn, edit : Edit]

Step == {"idle", "allocate", "insert", "releaseLost", "releaseFailed",
         "refetch", "reallocate", "saveReissue", "query", "saveQueried",
         "saveContent", "sign", "send", "wait", "consult", "saveOutcome"}

\* Steps at which a thread has no copy of a row, and at which it holds a number
\* that is not stored.
Empty == {"idle", "allocate", "refetch"}
Unstored == {"insert", "saveReissue", "releaseLost", "releaseFailed"}

Carries(w) ==
  /\ pc[w] # "idle" => job[w] \in Job
  /\ pc[w] \in Empty => copy[w] = None
  /\ pc[w] \notin Empty => copy[w] \in Row

Reads(g) == rpc[g] # "idle" => rcopy[g] \in Row /\ rtxn[g] \in Txn

Typed ==
  /\ TypeOK
  /\ \A w \in Worker : Carries(w)
  /\ \A g \in Reader : Reads(g)

\* The number n is put down to t, but for the threads of POST.
Kept(n, t) ==
  \/ docs[t] # None /\ docs[t].encf = n
  \/ dgii[n] # None /\ dgii[n].txn = t
  \/ \E m \in wire : m.encf = n /\ m.txn = t
  \/ \E g \in Reader : rpc[g] # "idle" /\ rcopy[g].encf = n /\ rtxn[g] = t
  \/ batch[t] # None /\ batch[t].encf = n

Has(w, n, t) == copy[w] # None /\ copy[w].encf = n /\ job[w].txn = t

Known(w, n, t) == Kept(n, t) \/ Has(w, n, t)

Below(n, t) == Claims(n, t) => n <= seq

\* A number that is not stored is with one thread only.
Alone(w) ==
  pc[w] \in Unstored =>
    \A n \in Encf, t \in Txn :
      copy[w].encf = n => ~Kept(n, t) /\ \A v \in Worker \ {w} : ~Has(v, n, t)

Numbered ==
  /\ \A n \in Encf, t \in Txn : Below(n, t)
  /\ EncfBelongsToOneInvoice
  /\ \A w \in Worker : Alone(w)

DocInv == Typed /\ Numbered

LEMMA ClaimsAre ==
  \A n, t : Claims(n, t) <=> Kept(n, t) \/ \E w \in Worker : Has(w, n, t)
BY DEF Claims, Kept, Has

\* A step of thread w that draws no number and gives none back.
LEMMA WorkerKeeps ==
  ASSUME DocInv, NEW w \in Worker, NEW s \in Step, NEW r \in Row \cup {None},
         pc' = [pc EXCEPT ![w] = s], copy' = [copy EXCEPT ![w] = r],
         s \in Empty => r = None, s \notin Empty => r \in Row,
         job' \in [Worker -> Job \cup {None}], s # "idle" => job'[w] \in Job,
         \A v \in Worker \ {w} : job'[v] = job[v],
         answer' \in [Worker -> {"trackId", "Aceptado", "Rechazado", "error", None}],
         docs' \in [Txn -> Row \cup {None}], wire' \subseteq Message,
         seq' = seq, dgii' = dgii, aged' = aged, UNCHANGED readerVars, UNCHANGED pollVars,
         \A t \in Txn : docs'[t] # None => Known(w, docs'[t].encf, t),
         \A m \in wire' : Known(w, m.encf, m.txn),
         r # None => Known(w, r.encf, job'[w].txn),
         s \in Unstored => pc[w] \in Unstored /\ r = copy[w] /\ docs' = docs /\ wire' = wire
  PROVE  DocInv'
<1>t. /\ TypeOK /\ (\A v \in Worker : Carries(v)) /\ (\A g \in Reader : Reads(g))
      /\ (\A n \in Encf, t \in Txn : Below(n, t)) /\ EncfBelongsToOneInvoice
      /\ \A v \in Worker : Alone(v)
  BY DEF DocInv, Typed, Numbered
<1>p. /\ \A v \in Worker : pc'[v] = IF v = w THEN s ELSE pc[v]
      /\ \A v \in Worker : copy'[v] = IF v = w THEN r ELSE copy[v]
  BY <1>t DEF TypeOK
<1>1. TypeOK'
  BY <1>t DEF TypeOK, Step, Job, readerVars, pollVars
<1>2. ASSUME NEW v \in Worker PROVE Carries(v)'
  BY <1>t, <1>p DEF Carries
<1>3. ASSUME NEW g \in Reader PROVE Reads(g)'
  BY <1>t DEF Reads, readerVars
<1>4. ASSUME NEW n \in Encf, NEW t \in Txn, Kept(n, t)' PROVE Known(w, n, t)
  <2>1. CASE docs'[t] # None /\ docs'[t].encf = n
    BY <2>1
  <2>2. CASE \E m \in wire' : m.encf = n /\ m.txn = t
    BY <2>2
  <2>3. CASE \/ dgii'[n] # None /\ dgii'[n].txn = t
             \/ \E g \in Reader : rpc'[g] # "idle" /\ rcopy'[g].encf = n /\ rtxn'[g] = t
             \/ batch'[t] # None /\ batch'[t].encf = n
    BY <2>3 DEF Known, Kept, readerVars, pollVars
  <2> QED BY <1>4, <2>1, <2>2, <2>3 DEF Kept
<1>5. ASSUME NEW n \in Encf, NEW t \in Txn, NEW v \in Worker, Has(v, n, t)'
      PROVE  IF v = w THEN Known(w, n, t) ELSE Has(v, n, t)
  BY <1>5, <1>p DEF Has
<1>6. ASSUME NEW n \in Encf, NEW t \in Txn, Claims(n, t)' PROVE Claims(n, t)
  <2>1. Kept(n, t)' \/ \E v \in Worker : Has(v, n, t)'
    BY <1>6 DEF Claims, Kept, Has
  <2> QED BY <1>4, <1>5, <2>1, ClaimsAre DEF Known
<1>7. \A n \in Encf, t \in Txn : Below(n, t)'
  BY <1>6, <1>t DEF Below
<1>8. EncfBelongsToOneInvoice'
  BY <1>6, <1>t DEF EncfBelongsToOneInvoice
<1>9. ASSUME NEW v \in Worker PROVE Alone(v)'
  <2> SUFFICES ASSUME pc'[v] \in Unstored, NEW n \in Encf, NEW t \in Txn, copy'[v].encf = n
      PROVE  ~Kept(n, t)' /\ \A u \in Worker \ {v} : ~Has(u, n, t)'
    BY DEF Alone
  <2>1. pc[v] \in Unstored /\ copy'[v] = copy[v]
    BY <1>p
  <2>2. ~Kept(n, t) /\ \A u \in Worker \ {v} : ~Has(u, n, t)
    BY <1>t, <2>1 DEF Alone
  <2>3. CASE v # w
    BY <1>4, <1>5, <2>1, <2>2, <2>3 DEF Known
  <2>4. CASE v = w
    <3>1. docs' = docs /\ wire' = wire
      BY <1>p, <2>4
    <3>2. Kept(n, t)' => Kept(n, t)
      BY <3>1 DEF Kept, readerVars, pollVars
    <3> QED BY <1>5, <2>2, <2>4, <3>2
  <2> QED BY <2>3, <2>4
<1> QED BY <1>1, <1>2, <1>3, <1>7, <1>8, <1>9 DEF DocInv, Typed, Numbered
-----------------------------------------------------------------------------
(* What is known before a step of w, and what its parts write.             *)

LEMMA Before ==
  ASSUME DocInv, NEW w \in Worker
  PROVE  /\ \A t \in Txn : docs[t] # None => docs[t] \in Row /\ Known(w, docs[t].encf, t)
         /\ \A m \in wire : Known(w, m.encf, m.txn)
         /\ pc[w] # "idle" => job[w] \in Job
         /\ pc[w] \notin Empty =>
              /\ copy[w] \in Row /\ job[w].txn \in Txn
              /\ Known(w, copy[w].encf, job[w].txn)
         /\ docs \in [Txn -> Row \cup {None}] /\ wire \subseteq Message
         /\ job \in [Worker -> Job \cup {None}]
         /\ answer \in [Worker -> {"trackId", "Aceptado", "Rechazado", "error", None}]
<1>1. TypeOK /\ Carries(w)
  BY DEF DocInv, Typed
<1>2. \A t \in Txn : docs[t] # None => docs[t] \in Row /\ Known(w, docs[t].encf, t)
  BY <1>1 DEF TypeOK, Known, Kept
<1>3. \A m \in wire : Known(w, m.encf, m.txn)
  BY DEF Known, Kept
<1>4. pc[w] \notin Empty => copy[w] \in Row /\ job[w] \in Job /\ copy[w] # None
  BY <1>1, DocumentAssumption DEF Carries, Empty
<1>5. pc[w] \notin Empty => job[w].txn \in Txn /\ Known(w, copy[w].encf, job[w].txn)
  BY <1>4 DEF Known, Has, Job
<1> QED BY <1>1, <1>2, <1>3, <1>4, <1>5 DEF TypeOK, Job, Carries

LEMMA DisownedKnown ==
  ASSUME DocInv, NEW w \in Worker, wire' = Disowned(w)
  PROVE  wire' \subseteq Message /\ \A m \in wire' : Known(w, m.encf, m.txn)
<1> SUFFICES ASSUME NEW x \in wire' PROVE x \in Message /\ Known(w, x.encf, x.txn)
  OBVIOUS
<1>1. PICK m \in wire : x = [m EXCEPT !.from = IF @ = w THEN None ELSE @]
  BY DEF Disowned
<1>2. m \in Message /\ Known(w, m.encf, m.txn)
  BY Before DEF DocInv, Typed, TypeOK
<1>3. x \in Message /\ x.encf = m.encf /\ x.txn = m.txn
  BY <1>1, <1>2 DEF Message
<1> QED BY <1>2, <1>3

\* A save of w's own copy, or of one with the number of the row.
LEMMA UpdateKnown ==
  ASSUME DocInv, NEW w \in Worker, NEW t \in Txn, NEW row \in Row,
         Known(w, row.encf, t), Update(t, row)
  PROVE  /\ docs' \in [Txn -> Row \cup {None}]
         /\ \A u \in Txn : docs'[u] # None => Known(w, docs'[u].encf, u)
<1> DEFINE saved == [row EXCEPT !.fresh = TRUE]
<1>1. saved \in Row /\ saved.encf = row.encf
  BY DEF Row
<1>2. docs' = [docs EXCEPT ![t] = saved]
  BY DEF Update
<1> HIDE DEF saved
<1> QED BY <1>1, <1>2, Before

LEMMA RowEdits ==
  ASSUME NEW row \in Row
  PROVE  /\ \A st \in State : /\ [row EXCEPT !.st = st] \in Row
                              /\ [row EXCEPT !.st = st].encf = row.encf
         /\ \A e \in Edit : WithContent(row, e) \in Row /\ WithContent(row, e).encf = row.encf
         /\ row.encf \in Encf
BY DEF Row, WithContent, State, NeverTransmittedStates

\* w goes on, with a copy whose number is known to be its invoice's.
LEMMA GoesOn ==
  ASSUME DocInv, NEW w \in Worker, pc[w] # "idle", NEW s \in Step \ Empty, NEW r \in Row,
         pc' = [pc EXCEPT ![w] = s], copy' = [copy EXCEPT ![w] = r],
         Known(w, r.encf, job[w].txn), job' = job,
         answer' \in [Worker -> {"trackId", "Aceptado", "Rechazado", "error", None}],
         docs' \in [Txn -> Row \cup {None}], wire' \subseteq Message,
         seq' = seq, dgii' = dgii, aged' = aged, UNCHANGED readerVars, UNCHANGED pollVars,
         \A t \in Txn : docs'[t] # None => Known(w, docs'[t].encf, t),
         \A m \in wire' : Known(w, m.encf, m.txn),
         s \in Unstored => pc[w] \in Unstored /\ r = copy[w] /\ docs' = docs /\ wire' = wire
  PROVE  DocInv'
<1>1. job' \in [Worker -> Job \cup {None}] /\ job'[w] \in Job
  BY Before
<1> QED BY <1>1, WorkerKeeps

\* w is done with its request.
LEMMA Returns ==
  ASSUME DocInv, NEW w \in Worker, Return(w),
         docs' \in [Txn -> Row \cup {None}], wire' \subseteq Message,
         seq' = seq, dgii' = dgii, aged' = aged, UNCHANGED readerVars, UNCHANGED pollVars,
         \A t \in Txn : docs'[t] # None => Known(w, docs'[t].encf, t),
         \A m \in wire' : Known(w, m.encf, m.txn)
  PROVE  DocInv'
<1>1. /\ job' \in [Worker -> Job \cup {None}]
      /\ \A v \in Worker \ {w} : job'[v] = job[v]
      /\ answer' \in [Worker -> {"trackId", "Aceptado", "Rechazado", "error", None}]
  BY Before DEF Return
<1>2. pc' = [pc EXCEPT ![w] = "idle"] /\ copy' = [copy EXCEPT ![w] = None]
  BY DEF Return
<1>3. "idle" \in Step /\ "idle" \in Empty /\ "idle" \notin Unstored
  BY DEF Step, Empty, Unstored
<1> QED BY <1>1, <1>2, <1>3, WorkerKeeps
-----------------------------------------------------------------------------
(* POST.                                                                   *)

\* What submit, or the loser of an insert race, does with the row it found.
LEMMA ExistingKeeps ==
  ASSUME DocInv, NEW w \in Worker, NEW t \in Txn, NEW e \in Edit, docs[t] # None,
         HandleExisting(w, docs[t], e), job' \in [Worker -> Job \cup {None}],
         job'[w] \in Job, job'[w].txn = t, \A v \in Worker \ {w} : job'[v] = job[v],
         UNCHANGED <<dbVars, dgiiVars, aged, readerVars, pollVars>>
  PROVE  DocInv'
<1>1. /\ docs' = docs /\ seq' = seq /\ wire' = wire /\ dgii' = dgii /\ aged' = aged
      /\ UNCHANGED readerVars /\ UNCHANGED pollVars /\ answer' = answer
  BY DEF dbVars, dgiiVars, HandleExisting, Goto
<1>2. docs[t] \in Row /\ Known(w, docs[t].encf, t)
  BY Before
<1>3. PICK s \in {"saveContent", "query", "reallocate"}, r \in {WithContent(docs[t], e), docs[t]} :
        pc' = [pc EXCEPT ![w] = s] /\ copy' = [copy EXCEPT ![w] = r]
  BY DEF HandleExisting, Goto
<1>4. r \in Row /\ r.encf = docs[t].encf
  BY <1>2, RowEdits
<1>5. s \in Step /\ s \notin Empty /\ s \notin Unstored
  BY DEF Step, Empty, Unstored
<1>6. /\ docs' \in [Txn -> Row \cup {None}] /\ wire' \subseteq Message
      /\ answer' \in [Worker -> {"trackId", "Aceptado", "Rechazado", "error", None}]
      /\ \A u \in Txn : docs'[u] # None => Known(w, docs'[u].encf, u)
      /\ \A m \in wire' : Known(w, m.encf, m.txn)
  BY <1>1, Before
<1>7. Known(w, r.encf, job'[w].txn)
  BY <1>2, <1>4
<1> QED BY <1>1, <1>3, <1>4, <1>5, <1>6, <1>7, WorkerKeeps

LEMMA SubmitKeeps ==
  ASSUME DocInv, NEW w \in Worker, NEW t \in Txn, NEW e \in Edit, Submit(w, t, e)
  PROVE  DocInv'
<1>1. /\ job' = [job EXCEPT ![w] = [txn |-> t, edit |-> e]]
      /\ UNCHANGED <<dbVars, dgiiVars, aged, readerVars, pollVars>>
  BY DEF Submit
<1>2. /\ job' \in [Worker -> Job \cup {None}] /\ job'[w] \in Job /\ job'[w].txn = t
      /\ \A v \in Worker \ {w} : job'[v] = job[v]
  BY <1>1, Before DEF Job
<1>3. CASE docs[t] # None
  <2>1. HandleExisting(w, docs[t], e)
    BY <1>3 DEF Submit
  <2> QED BY <1>1, <1>2, <1>3, <2>1, ExistingKeeps
<1>4. CASE docs[t] = None
  <2>1. /\ docs' = docs /\ seq' = seq /\ wire' = wire /\ dgii' = dgii /\ aged' = aged
        /\ UNCHANGED readerVars /\ UNCHANGED pollVars /\ answer' = answer
        /\ pc' = [pc EXCEPT ![w] = "allocate"] /\ copy' = [copy EXCEPT ![w] = None]
    BY <1>1, <1>4 DEF dbVars, dgiiVars, Goto, Submit
  <2>2. "allocate" \in Step /\ "allocate" \in Empty /\ "allocate" \notin Unstored
    BY DEF Step, Empty, Unstored
  <2> QED BY <1>2, <2>1, <2>2, Before, WorkerKeeps
<1> QED BY <1>3, <1>4

\* The steps at which w has a copy.
LEMMA HasCopy ==
  ASSUME DocInv, NEW w \in Worker, pc[w] \notin Empty
  PROVE  /\ pc[w] # "idle" /\ copy[w] \in Row /\ job[w] \in Job /\ job[w].txn \in Txn
         /\ job[w].edit \in Edit /\ Known(w, copy[w].encf, job[w].txn)
BY Before DEF Empty, Job

LEMMA SaveAndGo ==
  ASSUME DocInv, NEW w \in Worker, pc[w] \notin Empty, NEW row \in Row,
         row.encf = copy[w].encf, NEW r \in Row, r.encf = copy[w].encf,
         docs' = docs \/ Update(job[w].txn, row),
         NEW s \in Step \ (Empty \cup Unstored), Goto(w, s, r),
         UNCHANGED <<seq, dgiiVars, aged, job, readerVars, pollVars>>
  PROVE  DocInv'
<1>1. /\ seq' = seq /\ wire' = wire /\ dgii' = dgii /\ aged' = aged
      /\ UNCHANGED readerVars /\ UNCHANGED pollVars /\ answer' = answer /\ job' = job
      /\ pc' = [pc EXCEPT ![w] = s] /\ copy' = [copy EXCEPT ![w] = r]
  BY DEF dgiiVars, Goto
<1>2. /\ docs' \in [Txn -> Row \cup {None}]
      /\ \A u \in Txn : docs'[u] # None => Known(w, docs'[u].encf, u)
  <2>1. CASE docs' = docs
    BY <2>1, Before
  <2>2. CASE Update(job[w].txn, row)
    BY <2>2, HasCopy, UpdateKnown
  <2> QED BY <2>1, <2>2
<1>3. Known(w, r.encf, job[w].txn) /\ pc[w] # "idle"
  BY HasCopy
<1>4. /\ wire' \subseteq Message /\ \A m \in wire' : Known(w, m.encf, m.txn)
      /\ answer' \in [Worker -> {"trackId", "Aceptado", "Rechazado", "error", None}]
  BY <1>1, Before
<1> QED BY <1>1, <1>2, <1>3, <1>4, GoesOn

LEMMA SaveAndReturn ==
  ASSUME DocInv, NEW w \in Worker, pc[w] \notin Empty, NEW row \in Row,
         row.encf = copy[w].encf, Update(job[w].txn, row), Return(w),
         UNCHANGED <<seq, dgiiVars, aged, readerVars, pollVars>>
  PROVE  DocInv'
<1>1. /\ seq' = seq /\ wire' = wire /\ dgii' = dgii /\ aged' = aged
      /\ UNCHANGED readerVars /\ UNCHANGED pollVars
  BY DEF dgiiVars
<1>2. /\ docs' \in [Txn -> Row \cup {None}]
      /\ \A u \in Txn : docs'[u] # None => Known(w, docs'[u].encf, u)
  BY HasCopy, UpdateKnown
<1> QED BY <1>1, <1>2, Before, Returns

LEMMA InsertKeeps ==
  ASSUME DocInv, NEW w \in Worker, Insert(w) PROVE DocInv'
<1>1. /\ pc[w] = "insert"
      /\ UNCHANGED <<seq, dgiiVars, aged, job, readerVars, pollVars>>
  BY DEF Insert
<1>2. pc[w] \notin Empty /\ pc[w] \in Unstored
  BY <1>1 DEF Empty, Unstored
<1>3. CASE docs' = [docs EXCEPT ![job[w].txn] = copy[w]] /\ Goto(w, "sign", copy[w])
  <2>1. /\ seq' = seq /\ wire' = wire /\ dgii' = dgii /\ aged' = aged
        /\ UNCHANGED readerVars /\ UNCHANGED pollVars /\ answer' = answer /\ job' = job
        /\ pc' = [pc EXCEPT ![w] = "sign"] /\ copy' = [copy EXCEPT ![w] = copy[w]]
    BY <1>1, <1>3 DEF dgiiVars, Goto
  <2>2. /\ docs' \in [Txn -> Row \cup {None}]
        /\ \A u \in Txn : docs'[u] # None => Known(w, docs'[u].encf, u)
    BY <1>2, <1>3, HasCopy, Before
  <2>3. "sign" \in Step \ Empty /\ "sign" \notin Unstored
    BY DEF Step, Empty, Unstored
  <2> QED BY <1>2, <2>1, <2>2, <2>3, HasCopy, Before, GoesOn
<1>4. CASE docs' = docs /\ \E s \in {"releaseLost", "releaseFailed"} : Goto(w, s, copy[w])
  <2>1. PICK s \in {"releaseLost", "releaseFailed"} : Goto(w, s, copy[w])
    BY <1>4
  <2>2. /\ seq' = seq /\ wire' = wire /\ dgii' = dgii /\ aged' = aged
        /\ UNCHANGED readerVars /\ UNCHANGED pollVars /\ answer' = answer /\ job' = job
        /\ pc' = [pc EXCEPT ![w] = s] /\ copy' = [copy EXCEPT ![w] = copy[w]]
    BY <1>1, <2>1 DEF dgiiVars, Goto
  <2>3. s \in Step \ Empty
    BY DEF Step, Empty
  <2> QED BY <1>2, <1>4, <2>2, <2>3, HasCopy, Before, GoesOn
<1> QED BY <1>3, <1>4 DEF Insert

LEMMA SaveReissueKeeps ==
  ASSUME DocInv, NEW w \in Worker, SaveReissue(w) PROVE DocInv'
<1>1. /\ pc[w] = "saveReissue"
      /\ UNCHANGED <<seq, dgiiVars, aged, job, readerVars, pollVars>>
  BY DEF SaveReissue
<1>2. pc[w] \notin Empty /\ pc[w] \in Unstored
  BY <1>1 DEF Empty, Unstored
<1>3. CASE Update(job[w].txn, copy[w]) /\ Goto(w, "sign", copy[w])
  <2>1. "sign" \in Step \ (Empty \cup Unstored)
    BY DEF Step, Empty, Unstored
  <2> QED BY <1>1, <1>2, <1>3, <2>1, HasCopy, SaveAndGo
<1>4. CASE docs' = docs /\ Goto(w, "releaseFailed", copy[w])
  <2>1. /\ seq' = seq /\ wire' = wire /\ dgii' = dgii /\ aged' = aged
        /\ UNCHANGED readerVars /\ UNCHANGED pollVars /\ answer' = answer /\ job' = job
        /\ pc' = [pc EXCEPT ![w] = "releaseFailed"] /\ copy' = [copy EXCEPT ![w] = copy[w]]
    BY <1>1, <1>4 DEF dgiiVars, Goto
  <2>2. "releaseFailed" \in Step \ Empty
    BY DEF Step, Empty
  <2> QED BY <1>2, <1>4, <2>1, <2>2, HasCopy, Before, GoesOn
<1> QED BY <1>3, <1>4 DEF SaveReissue

LEMMA RefetchKeeps ==
  ASSUME DocInv, NEW w \in Worker, Refetch(w) PROVE DocInv'
<1> DEFINE t == job[w].txn
<1>1. /\ pc[w] = "refetch"
      /\ UNCHANGED <<dbVars, dgiiVars, aged, readerVars, pollVars>>
  BY DEF Refetch
<1>2. job[w] \in Job /\ t \in Txn /\ job[w].edit \in Edit
  BY <1>1, Before DEF Job
<1>3. CASE docs[t] # None /\ HandleExisting(w, docs[t], job[w].edit) /\ job' = job
  BY <1>1, <1>2, <1>3, Before, ExistingKeeps
<1>4. CASE Return(w)
  <2>1. /\ docs' = docs /\ seq' = seq /\ wire' = wire /\ dgii' = dgii /\ aged' = aged
        /\ UNCHANGED readerVars /\ UNCHANGED pollVars
    BY <1>1 DEF dbVars, dgiiVars
  <2> QED BY <1>4, <2>1, Before, Returns
<1> QED BY <1>3, <1>4 DEF Refetch

LEMMA StateOfIsState == \A estado : StateOf(estado) \in State
BY DEF StateOf, State, PollableStates

LEMMA QueryStatusKeeps ==
  ASSUME DocInv, NEW w \in Worker, QueryStatus(w) PROVE DocInv'
<1>1. /\ pc[w] = "query" /\ UNCHANGED <<dbVars, dgiiVars, aged, job, readerVars, pollVars>>
  BY DEF QueryStatus
<1>2. pc[w] \notin Empty /\ copy[w] \in Row /\ job[w].edit \in Edit
  BY <1>1, HasCopy DEF Empty
<1>3. PICK s \in {"saveQueried", "saveContent"}, r \in Row :
        r.encf = copy[w].encf /\ Goto(w, s, r)
  <2>1. CASE \E estado \in Estados(copy[w].encf), k \in Tracks(copy[w]) :
               Goto(w, "saveQueried", [copy[w] EXCEPT !.track = k, !.sent = TRUE,
                                                      !.st = StateOf(estado)])
    <3>1. PICK estado \in Estados(copy[w].encf), k \in Tracks(copy[w]) :
            Goto(w, "saveQueried", [copy[w] EXCEPT !.track = k, !.sent = TRUE,
                                                   !.st = StateOf(estado)])
      BY <2>1
    <3> DEFINE r == [copy[w] EXCEPT !.track = k, !.sent = TRUE, !.st = StateOf(estado)]
    <3>2. k \in Encf \cup {None}
      BY <1>2 DEF Tracks, Row
    <3>3. r \in Row /\ r.encf = copy[w].encf
      BY <1>2, <3>2, StateOfIsState DEF Row
    <3> QED BY <3>1, <3>3
  <2>2. CASE Goto(w, "saveContent", WithContent(copy[w], job[w].edit))
    BY <1>2, <2>2, RowEdits
  <2> QED BY <2>1, <2>2 DEF QueryStatus
<1>4. s \in Step \ (Empty \cup Unstored)
  BY DEF Step, Empty, Unstored
<1>5. docs' = docs /\ UNCHANGED <<seq, dgiiVars, aged, job, readerVars, pollVars>>
  BY <1>1 DEF dbVars
<1> QED BY <1>2, <1>3, <1>4, <1>5, SaveAndGo

LEMMA SavesKeep ==
  ASSUME DocInv, NEW w \in Worker, SaveQueried(w) \/ SaveOutcome(w) \/ SaveContent(w)
  PROVE  DocInv'
<1>1. pc[w] \notin Empty
  BY DEF SaveQueried, SaveOutcome, SaveContent, Empty
<1>2. CASE SaveQueried(w) \/ SaveOutcome(w)
  BY <1>1, <1>2, HasCopy, SaveAndReturn DEF SaveQueried, SaveOutcome
<1>3. CASE SaveContent(w)
  <2>1. "sign" \in Step \ (Empty \cup Unstored)
    BY DEF Step, Empty, Unstored
  <2> QED BY <1>1, <1>3, <2>1, HasCopy, SaveAndGo DEF SaveContent
<1> QED BY <1>2, <1>3

LEMMA SignKeeps ==
  ASSUME DocInv, NEW w \in Worker, Sign(w) PROVE DocInv'
<1>1. /\ pc[w] = "sign" /\ UNCHANGED <<seq, dgiiVars, aged, readerVars, pollVars>>
  BY DEF Sign
<1>2. pc[w] \notin Empty /\ copy[w] \in Row
  BY <1>1, HasCopy DEF Empty
<1>3. CASE \E f \in SignFailure : /\ Update(job[w].txn, [copy[w] EXCEPT !.st = f])
                                  /\ Return(w)
  <2>1. PICK f \in SignFailure : /\ Update(job[w].txn, [copy[w] EXCEPT !.st = f])
                                 /\ Return(w)
    BY <1>3
  <2>2. f \in State
    BY DocumentAssumption DEF State
  <2> QED BY <1>1, <1>2, <2>1, <2>2, RowEdits, SaveAndReturn
<1>4. CASE LET ready == [copy[w] EXCEPT !.st = "AwaitingTransmission"]
           IN Update(job[w].txn, ready) /\ Goto(w, "send", ready) /\ job' = job
  <2>1. "AwaitingTransmission" \in State /\ "send" \in Step \ (Empty \cup Unstored)
    BY DEF State, PollableStates, Step, Empty, Unstored
  <2> QED BY <1>1, <1>2, <1>4, <2>1, RowEdits, SaveAndGo
<1> QED BY <1>3, <1>4 DEF Sign

LEMMA SendKeeps ==
  ASSUME DocInv, NEW w \in Worker, Send(w) PROVE DocInv'
<1> DEFINE m0 == [encf |-> copy[w].encf, txn |-> job[w].txn, edit |-> copy[w].edit, from |-> w]
<1>1. /\ pc[w] = "send" /\ wire' = wire \cup {m0}
      /\ docs' = docs /\ seq' = seq /\ dgii' = dgii /\ aged' = aged /\ job' = job
      /\ UNCHANGED readerVars /\ UNCHANGED pollVars /\ answer' = answer
      /\ pc' = [pc EXCEPT ![w] = "wait"] /\ copy' = [copy EXCEPT ![w] = copy[w]]
  BY DEF Send, Goto, dbVars
<1>2. pc[w] \notin Empty
  BY <1>1 DEF Empty
<1>3. /\ copy[w] \in Row /\ job[w].txn \in Txn /\ pc[w] # "idle"
      /\ Known(w, copy[w].encf, job[w].txn)
  BY <1>2, HasCopy
<1>4. m0 \in Message /\ m0.encf = copy[w].encf /\ m0.txn = job[w].txn
  BY <1>3 DEF Message, Row
<1> HIDE DEF m0
<1>5. wire' \subseteq Message /\ \A m \in wire' : Known(w, m.encf, m.txn)
  BY <1>1, <1>3, <1>4, Before
<1>6. "wait" \in Step \ Empty /\ "wait" \notin Unstored
  BY DEF Step, Empty, Unstored
<1> QED BY <1>1, <1>3, <1>5, <1>6, Before, GoesOn

LEMMA OutcomeIsRow ==
  ASSUME NEW row \in Row, NEW a PROVE Outcome(row, a) \in Row /\ Outcome(row, a).encf = row.encf
BY DEF Outcome, Row, State, PollableStates

\* The steps that end the wait for DGII's answer.
LEMMA AnswerKeeps ==
  ASSUME DocInv, NEW w \in Worker, TakeAnswer(w) \/ SendUncertain(w) PROVE DocInv'
<1>1. pc[w] = "wait" /\ pc[w] \notin Empty
  BY DEF TakeAnswer, SendUncertain, Empty
<1>2. /\ copy[w] \in Row /\ pc[w] # "idle" /\ Known(w, copy[w].encf, job[w].txn)
  BY <1>1, HasCopy
<1>3. /\ docs' = docs /\ seq' = seq /\ dgii' = dgii /\ aged' = aged /\ job' = job
      /\ UNCHANGED readerVars /\ UNCHANGED pollVars /\ answer' = [answer EXCEPT ![w] = None]
  BY DEF TakeAnswer, SendUncertain, dbVars, dgiiVars
<1>4. PICK s \in {"consult", "saveOutcome"} : pc' = [pc EXCEPT ![w] = s]
  BY DEF TakeAnswer, SendUncertain
<1>5. PICK r \in Row : r.encf = copy[w].encf /\ copy' = [copy EXCEPT ![w] = r]
  <2>1. CASE TakeAnswer(w)
    <3>1. copy' = [copy EXCEPT ![w] = Outcome(copy[w], answer[w])]
      BY <2>1 DEF TakeAnswer
    <3> QED BY <1>2, <3>1, OutcomeIsRow
  <2>2. CASE SendUncertain(w)
    <3>1. copy' = [copy EXCEPT ![w] = [copy[w] EXCEPT !.st = "Uncertain"]]
      BY <2>2 DEF SendUncertain
    <3>2. "Uncertain" \in State
      BY DEF State, PollableStates
    <3> QED BY <1>2, <3>1, <3>2, RowEdits
  <2> QED BY <2>1, <2>2
<1>6. wire' \subseteq Message /\ \A m \in wire' : Known(w, m.encf, m.txn)
  BY Before, DisownedKnown DEF TakeAnswer, SendUncertain, dgiiVars
<1>7. answer' \in [Worker -> {"trackId", "Aceptado", "Rechazado", "error", None}]
  BY <1>3, Before
<1>8. s \in Step \ Empty /\ s \notin Unstored
  BY DEF Step, Empty, Unstored
<1> QED BY <1>2, <1>3, <1>4, <1>5, <1>6, <1>7, <1>8, Before, GoesOn

LEMMA ConsultKeeps ==
  ASSUME DocInv, NEW w \in Worker, Consult(w) PROVE DocInv'
<1>1. /\ pc[w] = "consult" /\ UNCHANGED <<dbVars, dgiiVars, aged, job, readerVars, pollVars>>
  BY DEF Consult
<1>2. pc[w] \notin Empty /\ copy[w] \in Row
  BY <1>1, HasCopy DEF Empty
<1>3. PICK r \in Row : r.encf = copy[w].encf /\ Goto(w, "saveOutcome", r)
  BY <1>2, RowEdits, StateOfIsState DEF Consult
<1>4. "saveOutcome" \in Step \ (Empty \cup Unstored)
  BY DEF Step, Empty, Unstored
<1>5. docs' = docs /\ UNCHANGED <<seq, dgiiVars, aged, job, readerVars, pollVars>>
  BY <1>1 DEF dbVars
<1> QED BY <1>2, <1>3, <1>4, <1>5, SaveAndGo

LEMMA AbortKeeps ==
  ASSUME DocInv, NEW w \in Worker, Abort(w) PROVE DocInv'
<1>1. /\ docs' = docs /\ seq' = seq /\ dgii' = dgii /\ aged' = aged
      /\ UNCHANGED readerVars /\ UNCHANGED pollVars /\ Return(w) /\ wire' = Disowned(w)
  BY DEF Abort, dbVars
<1> QED BY <1>1, Before, DisownedKnown, Returns

LEMMA CounterBounds ==
  ASSUME TypeOK PROVE seq \in Nat /\ MaxEncf \in Nat /\ seq <= MaxEncf
<1>1. seq \in 0 .. MaxEncf
  BY DEF TypeOK
<1>2. MaxEncf \in Nat
  BY DocumentAssumption
<1> QED BY <1>1, <1>2

\* The number drawn is above the counter, so nobody has it.
LEMMA AllocateKeeps ==
  ASSUME DocInv, NEW w \in Worker, Allocate(w) PROVE DocInv'
<1> DEFINE n0 == seq + 1
<1>t. /\ TypeOK /\ (\A v \in Worker : Carries(v)) /\ (\A g \in Reader : Reads(g))
      /\ (\A n \in Encf, t \in Txn : Below(n, t)) /\ EncfBelongsToOneInvoice
      /\ \A v \in Worker : Alone(v)
  BY DEF DocInv, Typed, Numbered
<1>1. seq \in Nat /\ MaxEncf \in Nat /\ seq <= MaxEncf
  BY <1>t, CounterBounds
<1>2. seq' = n0 /\ n0 \in Encf
  BY <1>1 DEF Allocate, HasNumber, NextNumber, Lifted, Encf
<1>3. /\ pc[w] \in {"allocate", "reallocate"}
      /\ docs' = docs /\ wire' = wire /\ dgii' = dgii /\ aged' = aged /\ job' = job
      /\ UNCHANGED readerVars /\ UNCHANGED pollVars /\ answer' = answer
  BY DEF Allocate, Goto, dgiiVars
<1>4. job[w] \in Job /\ job[w].edit \in Edit
  BY <1>3, Before DEF Job
<1>5. PICK s \in {"insert", "saveReissue"}, r \in Row :
        r.encf = n0 /\ pc' = [pc EXCEPT ![w] = s] /\ copy' = [copy EXCEPT ![w] = r]
  <2>1. CASE pc[w] = "allocate"
    <3>1. Goto(w, "insert", NewRow(n0, job[w].edit))
      BY <1>2, <2>1 DEF Allocate
    <3>2. NewRow(n0, job[w].edit) \in Row /\ NewRow(n0, job[w].edit).encf = n0
      BY <1>2, <1>4 DEF NewRow, Row, State, NeverTransmittedStates
    <3> QED BY <3>1, <3>2 DEF Goto
  <2>2. CASE pc[w] = "reallocate"
    <3> DEFINE base == [copy[w] EXCEPT !.encf = n0, !.track = None, !.sent = FALSE]
    <3>1. copy[w] \in Row
      BY <2>2, HasCopy DEF Empty
    <3>2. base \in Row /\ base.encf = n0
      BY <1>2, <3>1 DEF Row
    <3>3. Goto(w, "saveReissue", WithContent(base, job[w].edit))
      BY <1>2, <2>2 DEF Allocate, ReissuedRow
    <3> HIDE DEF base
    <3> QED BY <1>4, <3>2, <3>3, RowEdits DEF Goto
  <2> QED BY <1>3, <2>1, <2>2
<1>6. /\ \A v \in Worker : pc'[v] = IF v = w THEN s ELSE pc[v]
      /\ \A v \in Worker : copy'[v] = IF v = w THEN r ELSE copy[v]
      /\ s \in Step /\ s \notin Empty
  BY <1>t, <1>5 DEF TypeOK, Step, Empty
<1>7. TypeOK'
  <2>1. pc' \in [Worker -> Step] /\ copy' \in [Worker -> Row \cup {None}]
    BY <1>t, <1>5, <1>6 DEF TypeOK, Step
  <2>2. seq' \in 0 .. MaxEncf
    BY <1>1, <1>2 DEF Encf
  <2> QED BY <1>t, <1>3, <2>1, <2>2 DEF TypeOK, Step, readerVars, pollVars
<1>8. ASSUME NEW v \in Worker PROVE Carries(v)'
  BY <1>t, <1>3, <1>4, <1>6 DEF Carries, Empty
<1>9. ASSUME NEW g \in Reader PROVE Reads(g)'
  BY <1>t, <1>3 DEF Reads, readerVars
<1>10. \A n \in Encf, t \in Txn : Kept(n, t)' => Kept(n, t)
  BY <1>3 DEF Kept, readerVars, pollVars
<1>11. ASSUME NEW n \in Encf, NEW t \in Txn, NEW v \in Worker, Has(v, n, t)'
       PROVE  IF v = w THEN n = n0 /\ t = job[w].txn ELSE Has(v, n, t)
  BY <1>3, <1>5, <1>6, <1>11 DEF Has
<1>12. ASSUME NEW n \in Encf, NEW t \in Txn, Claims(n, t)'
       PROVE  (n = n0 /\ t = job[w].txn) \/ (Claims(n, t) /\ n <= seq)
  <2>1. Kept(n, t)' \/ \E v \in Worker : Has(v, n, t)'
    BY <1>12 DEF Claims, Kept, Has
  <2> QED BY <1>t, <1>10, <1>11, <2>1, ClaimsAre DEF Below
<1>13. \A n \in Encf, t \in Txn : Below(n, t)'
  <2>1. ASSUME NEW n \in Encf, NEW t \in Txn, Claims(n, t)' PROVE n <= seq'
    BY <1>1, <1>2, <1>12, <2>1 DEF Encf
  <2> QED BY <2>1 DEF Below
<1>14. EncfBelongsToOneInvoice'
  <2> SUFFICES ASSUME NEW n \in Encf, NEW t \in Txn, NEW u \in Txn, Claims(n, t)', Claims(n, u)'
      PROVE  t = u
    BY DEF EncfBelongsToOneInvoice
  <2>1. n0 > seq
    BY <1>1
  <2>2. CASE n = n0
    <3>1. ~(n <= seq)
      BY <1>1, <2>2
    <3> QED BY <1>12, <3>1
  <2>3. CASE n # n0
    BY <1>t, <1>12, <2>3 DEF EncfBelongsToOneInvoice
  <2> QED BY <2>2, <2>3
<1>15. ASSUME NEW v \in Worker PROVE Alone(v)'
  <2> SUFFICES ASSUME pc'[v] \in Unstored, NEW n \in Encf, NEW t \in Txn, copy'[v].encf = n
      PROVE  ~Kept(n, t)' /\ \A u \in Worker \ {v} : ~Has(u, n, t)'
    BY DEF Alone
  <2>1. CASE v = w
    <3>1. n = n0 /\ ~(n <= seq)
      BY <1>1, <1>5, <1>6, <2>1
    <3>2. ~Claims(n, t)
      BY <1>t, <3>1 DEF Below
    <3> QED BY <1>10, <1>11, <2>1, <3>2, ClaimsAre
  <2>2. CASE v # w
    <3>1. pc[v] \in Unstored /\ copy[v].encf = n
      BY <1>6, <2>2
    <3>2. copy[v] \in Row /\ job[v].txn \in Txn /\ Has(v, n, job[v].txn)
      BY <3>1, HasCopy, DocumentAssumption DEF Has, Unstored, Empty
    <3>3. n <= seq
      BY <1>t, <3>2, ClaimsAre DEF Below
    <3>4. n # n0
      BY <1>1, <3>3 DEF Encf
    <3> QED BY <1>t, <1>10, <1>11, <3>1, <3>4 DEF Alone
  <2> QED BY <2>1, <2>2
<1> QED BY <1>7, <1>8, <1>9, <1>13, <1>14, <1>15 DEF DocInv, Typed, Numbered

\* The number given back is with nobody else, so every other is below it when
\* the counter steps back.
LEMMA ReleaseKeeps ==
  ASSUME DocInv, NEW w \in Worker, ReleaseNumber(w) PROVE DocInv'
<1> DEFINE n0 == copy[w].encf
<1>t. /\ TypeOK /\ (\A v \in Worker : Carries(v)) /\ (\A g \in Reader : Reads(g))
      /\ (\A n \in Encf, t \in Txn : Below(n, t)) /\ EncfBelongsToOneInvoice
      /\ \A v \in Worker : Alone(v)
  BY DEF DocInv, Typed, Numbered
<1>1. /\ pc[w] \in Unstored /\ pc[w] \notin Empty
      /\ docs' = docs /\ wire' = wire /\ dgii' = dgii /\ aged' = aged
      /\ UNCHANGED readerVars /\ UNCHANGED pollVars
      /\ seq' = SteppedBack(seq, n0)
  BY DEF ReleaseNumber, dgiiVars, Unstored, Empty
<1>2. n0 \in Encf
  BY <1>1, HasCopy, RowEdits
<1>3. n0 \in Nat \ {0} /\ seq \in Nat /\ seq <= MaxEncf /\ MaxEncf \in Nat
  BY <1>t, <1>2, CounterBounds DEF Encf
<1>4. PICK s \in Empty \cap Step : /\ pc' = [pc EXCEPT ![w] = s]
                                   /\ copy' = [copy EXCEPT ![w] = None]
                                   /\ job' = job \/ (s = "idle" /\ job' = [job EXCEPT ![w] = None])
  <2>1. "idle" \in Empty \cap Step /\ "refetch" \in Empty \cap Step
    BY DEF Empty, Step
  <2> QED BY <2>1 DEF ReleaseNumber, Goto, Return
<1>5. /\ \A v \in Worker : pc'[v] = IF v = w THEN s ELSE pc[v]
      /\ \A v \in Worker : copy'[v] = IF v = w THEN None ELSE copy[v]
      /\ \A v \in Worker \ {w} : job'[v] = job[v]
      /\ s # "idle" => job'[w] = job[w]
  BY <1>t, <1>4 DEF TypeOK
<1>6. TypeOK'
  <2>1. /\ pc' \in [Worker -> Step] /\ copy' \in [Worker -> Row \cup {None}]
        /\ job' \in [Worker -> Job \cup {None}]
    BY <1>t, <1>4 DEF TypeOK, Step, Job
  <2>2. answer' \in [Worker -> {"trackId", "Aceptado", "Rechazado", "error", None}]
    BY <1>t DEF ReleaseNumber, Goto, Return, TypeOK
  <2>3. seq' \in 0 .. MaxEncf
    BY <1>1, <1>3 DEF SteppedBack
  <2> QED BY <1>t, <1>1, <2>1, <2>2, <2>3 DEF TypeOK, Step, Job, readerVars, pollVars
<1>7. ASSUME NEW v \in Worker PROVE Carries(v)'
  <2>1. CASE v = w
    <3>1. job[w] \in Job
      BY <1>1, Before DEF Unstored
    <3> QED BY <1>4, <1>5, <2>1, <3>1 DEF Carries
  <2>2. CASE v # w
    BY <1>t, <1>5, <2>2 DEF Carries
  <2> QED BY <2>1, <2>2
<1>8. ASSUME NEW g \in Reader PROVE Reads(g)'
  BY <1>t, <1>1 DEF Reads, readerVars
<1>9. \A n \in Encf, t \in Txn : Kept(n, t)' => Kept(n, t)
  BY <1>1 DEF Kept, readerVars, pollVars
<1>10. ASSUME NEW n \in Encf, NEW t \in Txn, NEW v \in Worker, Has(v, n, t)'
       PROVE  v # w /\ Has(v, n, t)
  BY <1>5, <1>10 DEF Has
<1>11. ASSUME NEW n \in Encf, NEW t \in Txn, Claims(n, t)' PROVE Claims(n, t) /\ n # n0
  <2>1. Kept(n, t)' \/ \E v \in Worker : Has(v, n, t)'
    BY <1>11 DEF Claims, Kept, Has
  <2>2. Kept(n, t) \/ \E v \in Worker \ {w} : Has(v, n, t)
    BY <1>9, <1>10, <2>1
  <2> QED BY <1>t, <1>1, <2>2, ClaimsAre DEF Alone
<1>12. \A n \in Encf, t \in Txn : Below(n, t)'
  <2>1. ASSUME NEW n \in Encf, NEW t \in Txn, Claims(n, t)' PROVE n <= seq'
    <3>1. n <= seq /\ n # n0 /\ n \in Nat
      BY <1>t, <1>11, <2>1 DEF Below, Encf
    <3> QED BY <1>1, <1>3, <3>1 DEF SteppedBack
  <2> QED BY <2>1 DEF Below
<1>13. EncfBelongsToOneInvoice'
  BY <1>t, <1>11 DEF EncfBelongsToOneInvoice
<1>14. ASSUME NEW v \in Worker PROVE Alone(v)'
  <2> SUFFICES ASSUME pc'[v] \in Unstored, NEW n \in Encf, NEW t \in Txn, copy'[v].encf = n
      PROVE  ~Kept(n, t)' /\ \A u \in Worker \ {v} : ~Has(u, n, t)'
    BY DEF Alone
  <2>1. v # w
    BY <1>4, <1>5 DEF Empty, Unstored
  <2> QED BY <1>t, <1>5, <1>9, <1>10, <2>1 DEF Alone
<1> QED BY <1>6, <1>7, <1>8, <1>12, <1>13, <1>14 DEF DocInv, Typed, Numbered
-----------------------------------------------------------------------------
(* GET, the reconciler, DGII and time.                                     *)

\* A step of anybody else moves numbers only between places of one invoice.
LEMMA OthersKeep ==
  ASSUME DocInv, pc' = pc, copy' = copy, job' = job, seq' = seq, TypeOK',
         \A g \in Reader : Reads(g)',
         \A t \in Txn : docs'[t] # None => Kept(docs'[t].encf, t),
         \A n \in Encf : dgii'[n] # None => Kept(n, dgii'[n].txn),
         \A m \in wire' : Kept(m.encf, m.txn),
         \A g \in Reader : rpc'[g] # "idle" => Kept(rcopy'[g].encf, rtxn'[g]),
         \A t \in Txn : batch'[t] # None => Kept(batch'[t].encf, t)
  PROVE  DocInv'
<1>t. /\ (\A v \in Worker : Carries(v)) /\ (\A n \in Encf, t \in Txn : Below(n, t))
      /\ EncfBelongsToOneInvoice /\ \A v \in Worker : Alone(v)
  BY DEF DocInv, Typed, Numbered
<1>1. \A v \in Worker : Carries(v)'
  BY <1>t DEF Carries
<1>2. \A n \in Encf, t \in Txn : Kept(n, t)' => Kept(n, t)
  BY DEF Kept
<1>3. \A v \in Worker, n \in Encf, t \in Txn : Has(v, n, t)' => Has(v, n, t)
  BY DEF Has
<1>4. ASSUME NEW n \in Encf, NEW t \in Txn, Claims(n, t)' PROVE Claims(n, t)
  <2>1. Kept(n, t)' \/ \E v \in Worker : Has(v, n, t)'
    BY <1>4 DEF Claims, Kept, Has
  <2> QED BY <1>2, <1>3, <2>1, ClaimsAre
<1>5. (\A n \in Encf, t \in Txn : Below(n, t)') /\ EncfBelongsToOneInvoice'
  BY <1>t, <1>4 DEF Below, EncfBelongsToOneInvoice
<1>6. \A v \in Worker : Alone(v)'
  BY <1>t, <1>2, <1>3 DEF Alone
<1> QED BY <1>1, <1>5, <1>6 DEF DocInv, Typed, Numbered

\* Where each number is kept before the step.
LEMMA Places ==
  ASSUME DocInv
  PROVE  /\ \A t \in Txn : docs[t] # None => docs[t] \in Row /\ Kept(docs[t].encf, t)
         /\ \A n \in Encf : dgii[n] # None => Kept(n, dgii[n].txn)
         /\ \A m \in wire : m \in Message /\ Kept(m.encf, m.txn)
         /\ \A g \in Reader : rpc[g] # "idle" =>
              rcopy[g] \in Row /\ rtxn[g] \in Txn /\ Kept(rcopy[g].encf, rtxn[g])
         /\ \A t \in Txn : batch[t] # None => batch[t] \in Row /\ Kept(batch[t].encf, t)
         /\ TypeOK /\ \A g \in Reader : Reads(g)
<1>1. TypeOK /\ \A g \in Reader : Reads(g)
  BY DEF DocInv, Typed
<1> QED BY <1>1 DEF TypeOK, Reads, Kept

LEMMA DbStepKeeps ==
  ASSUME DocInv, docs' \in [Txn -> Row \cup {None}],
         \A t \in Txn : docs'[t] # None => Kept(docs'[t].encf, t),
         batch' \in [Txn -> Row \cup {None}], checked' \subseteq Txn,
         \A t \in Txn : batch'[t] # None => Kept(batch'[t].encf, t),
         UNCHANGED <<seq, dgiiVars, aged, workerVars, readerVars>>
  PROVE  DocInv'
<1>1. /\ pc' = pc /\ copy' = copy /\ job' = job /\ answer' = answer /\ seq' = seq
      /\ wire' = wire /\ dgii' = dgii /\ aged' = aged
      /\ rpc' = rpc /\ rcopy' = rcopy /\ rtxn' = rtxn
  BY DEF dgiiVars, workerVars, readerVars
<1>2. TypeOK' /\ \A g \in Reader : Reads(g)'
  BY <1>1, Places DEF TypeOK, Reads
<1> QED BY <1>1, <1>2, Places, OthersKeep

\* A step of GET: what it holds afterwards is its invoice's.
LEMMA ReaderKeeps ==
  ASSUME DocInv, NEW g \in Reader, NEW s \in {"idle", "query", "save"},
         NEW r \in Row \cup {None}, NEW t \in Txn \cup {None},
         rpc' = [rpc EXCEPT ![g] = s], rcopy' = [rcopy EXCEPT ![g] = r],
         rtxn' = [rtxn EXCEPT ![g] = t],
         s # "idle" => r \in Row /\ t \in Txn /\ Kept(r.encf, t),
         docs' \in [Txn -> Row \cup {None}],
         \A u \in Txn : docs'[u] # None => Kept(docs'[u].encf, u),
         UNCHANGED <<seq, dgiiVars, aged, workerVars, pollVars>>
  PROVE  DocInv'
<1>1. /\ pc' = pc /\ copy' = copy /\ job' = job /\ answer' = answer /\ seq' = seq
      /\ wire' = wire /\ dgii' = dgii /\ aged' = aged
      /\ batch' = batch /\ checked' = checked
  BY DEF dgiiVars, workerVars, pollVars
<1>2. /\ rpc' \in [Reader -> {"idle", "query", "save"}]
      /\ rcopy' \in [Reader -> Row \cup {None}] /\ rtxn' \in [Reader -> Txn \cup {None}]
  BY Places DEF TypeOK
<1>3. \A h \in Reader : /\ rpc'[h] = IF h = g THEN s ELSE rpc[h]
                        /\ rcopy'[h] = IF h = g THEN r ELSE rcopy[h]
                        /\ rtxn'[h] = IF h = g THEN t ELSE rtxn[h]
  BY Places DEF TypeOK
<1>4. TypeOK'
  BY <1>1, <1>2, Places DEF TypeOK
<1>5. \A h \in Reader : Reads(h)'
  BY <1>3, Places DEF Reads
<1>6. \A h \in Reader : rpc'[h] # "idle" => Kept(rcopy'[h].encf, rtxn'[h])
  BY <1>3, Places
<1> QED BY <1>1, <1>4, <1>5, <1>6, Places, OthersKeep

LEMMA ReadsKeep ==
  ASSUME DocInv, NEW g \in Reader, NEW t \in Txn,
         ReadDocument(g, t) \/ ReaderQuery(g) \/ ReaderSave(g) \/ ReaderAbort(g)
  PROVE  DocInv'
<1>1. CASE ReadDocument(g, t)
  <2>1. /\ docs' = docs /\ docs[t] # None
        /\ UNCHANGED <<seq, dgiiVars, aged, workerVars, pollVars>>
        /\ rpc' = [rpc EXCEPT ![g] = "query"] /\ rcopy' = [rcopy EXCEPT ![g] = docs[t]]
        /\ rtxn' = [rtxn EXCEPT ![g] = t]
    BY <1>1 DEF ReadDocument, dbVars
  <2>2. docs \in [Txn -> Row \cup {None}]
    BY Places DEF TypeOK
  <2> QED BY <2>1, <2>2, Places, ReaderKeeps
<1>2. CASE ReaderQuery(g)
  <2>1. /\ rpc[g] = "query" /\ docs' = docs
        /\ UNCHANGED <<seq, dgiiVars, aged, workerVars, pollVars>>
    BY <1>2 DEF ReaderQuery, dbVars
  <2>2. rcopy[g] \in Row /\ rtxn[g] \in Txn /\ Kept(rcopy[g].encf, rtxn[g])
    BY <2>1, Places
  <2>3. PICK r \in Row : r.encf = rcopy[g].encf /\ ReaderToSave(g, r)
    <3>1. CASE ReaderToSave(g, [rcopy[g] EXCEPT !.st = StateOf(Estado(rcopy[g].track))])
      BY <2>2, <3>1, RowEdits, StateOfIsState
    <3>2. CASE \E k \in Tracks(rcopy[g]) :
                 ReaderToSave(g, [rcopy[g] EXCEPT !.track = k,
                                                  !.st = StateOf(Estado(rcopy[g].encf))])
      <4>1. PICK k \in Tracks(rcopy[g]) :
              ReaderToSave(g, [rcopy[g] EXCEPT !.track = k,
                                               !.st = StateOf(Estado(rcopy[g].encf))])
        BY <3>2
      <4> DEFINE r == [rcopy[g] EXCEPT !.track = k, !.st = StateOf(Estado(rcopy[g].encf))]
      <4>2. k \in Encf \cup {None}
        BY <2>2 DEF Tracks, Row
      <4>3. r \in Row /\ r.encf = rcopy[g].encf
        BY <2>2, <4>2, StateOfIsState DEF Row
      <4> QED BY <4>1, <4>3
    <3> QED BY <1>2, <3>1, <3>2 DEF ReaderQuery
  <2>4. /\ rpc' = [rpc EXCEPT ![g] = "save"] /\ rcopy' = [rcopy EXCEPT ![g] = r]
        /\ rtxn' = [rtxn EXCEPT ![g] = rtxn[g]] /\ docs \in [Txn -> Row \cup {None}]
    BY <2>3, Places DEF ReaderToSave, TypeOK
  <2> QED BY <2>1, <2>2, <2>3, <2>4, Places, ReaderKeeps
<1>3. CASE ReaderSave(g)
  <2>1. /\ rpc[g] = "save" /\ Update(rtxn[g], rcopy[g]) /\ ReaderReturns(g)
        /\ UNCHANGED <<seq, dgiiVars, aged, workerVars, pollVars>>
    BY <1>3 DEF ReaderSave
  <2>2. rcopy[g] \in Row /\ rtxn[g] \in Txn /\ Kept(rcopy[g].encf, rtxn[g])
    BY <2>1, Places
  <2> DEFINE saved == [rcopy[g] EXCEPT !.fresh = TRUE]
  <2>3. saved \in Row /\ saved.encf = rcopy[g].encf
    BY <2>2 DEF Row
  <2>4. docs' = [docs EXCEPT ![rtxn[g]] = saved] /\ docs \in [Txn -> Row \cup {None}]
    BY <2>1, Places DEF Update, TypeOK
  <2> HIDE DEF saved
  <2>5. /\ docs' \in [Txn -> Row \cup {None}]
        /\ \A u \in Txn : docs'[u] # None => Kept(docs'[u].encf, u)
    BY <2>2, <2>3, <2>4, Places
  <2>6. /\ rpc' = [rpc EXCEPT ![g] = "idle"] /\ rcopy' = [rcopy EXCEPT ![g] = None]
        /\ rtxn' = [rtxn EXCEPT ![g] = None]
    BY <2>1 DEF ReaderReturns
  <2> QED BY <2>1, <2>5, <2>6, ReaderKeeps
<1>4. CASE ReaderAbort(g)
  <2>1. /\ docs' = docs /\ UNCHANGED <<seq, dgiiVars, aged, workerVars, pollVars>>
        /\ rpc' = [rpc EXCEPT ![g] = "idle"] /\ rcopy' = [rcopy EXCEPT ![g] = None]
        /\ rtxn' = [rtxn EXCEPT ![g] = None]
    BY <1>4 DEF ReaderAbort, ReaderReturns, dbVars
  <2>2. docs \in [Txn -> Row \cup {None}]
    BY Places DEF TypeOK
  <2> QED BY <2>1, <2>2, Places, ReaderKeeps
<1> QED BY <1>1, <1>2, <1>3, <1>4

LEMMA PollKeeps ==
  ASSUME DocInv, NEW t \in Txn, PollFetch \/ PollSave \/ PollAbort \/ PollCheck(t)
  PROVE  DocInv'
<1>t. /\ docs \in [Txn -> Row \cup {None}] /\ batch \in [Txn -> Row \cup {None}]
      /\ checked \subseteq Txn
  BY Places DEF TypeOK
<1>1. CASE PollFetch
  <2>1. /\ docs' = docs /\ UNCHANGED <<seq, dgiiVars, aged, workerVars, readerVars>>
        /\ batch' = [u \in Txn |-> IF u \in Due THEN docs[u] ELSE None] /\ checked' = {}
    BY <1>1 DEF PollFetch, dbVars
  <2> QED BY <1>t, <2>1, Places, DbStepKeeps
<1>2. CASE PollSave
  <2>1. /\ UNCHANGED <<seq, dgiiVars, aged, workerVars, readerVars>>
        /\ docs' = [u \in Txn |-> IF u \in Fetched THEN [batch[u] EXCEPT !.fresh = TRUE]
                                                   ELSE docs[u]]
        /\ batch' = [u \in Txn |-> None] /\ checked' = {}
    BY <1>2 DEF PollSave, PassOver
  <2>2. ASSUME NEW u \in Txn, u \in Fetched
        PROVE  /\ [batch[u] EXCEPT !.fresh = TRUE] \in Row
               /\ Kept([batch[u] EXCEPT !.fresh = TRUE].encf, u)
    <3>1. batch[u] \in Row /\ Kept(batch[u].encf, u)
      BY <2>2, Places DEF Fetched
    <3>2. /\ [batch[u] EXCEPT !.fresh = TRUE] \in Row
          /\ [batch[u] EXCEPT !.fresh = TRUE].encf = batch[u].encf
      BY <3>1 DEF Row
    <3> QED BY <3>1, <3>2
  <2>3. /\ docs' \in [Txn -> Row \cup {None}]
        /\ \A u \in Txn : docs'[u] # None => Kept(docs'[u].encf, u)
    BY <1>t, <2>1, <2>2, Places
  <2> QED BY <2>1, <2>3, DbStepKeeps
<1>3. CASE PollAbort
  <2>1. /\ docs' = docs /\ UNCHANGED <<seq, dgiiVars, aged, workerVars, readerVars>>
        /\ batch' = [u \in Txn |-> None] /\ checked' = {}
    BY <1>3 DEF PollAbort, PassOver, dbVars
  <2> QED BY <1>t, <2>1, Places, DbStepKeeps
<1>4. CASE PollCheck(t)
  <2>1. /\ docs' = docs /\ UNCHANGED <<seq, dgiiVars, aged, workerVars, readerVars>>
        /\ checked' = checked \cup {t} /\ t \in Fetched
    BY <1>4 DEF PollCheck, dbVars
  <2>2. batch[t] \in Row
    BY <2>1, Places DEF Fetched
  <2>3. PICK v \in Verdicts(batch[t]) : batch' = [batch EXCEPT ![t] = [batch[t] EXCEPT !.st = v]]
    BY <1>4 DEF PollCheck
  <2>4. v \in State
    BY <2>2, <2>3, StateOfIsState DEF Verdicts, State, Row
  <2>5. /\ [batch[t] EXCEPT !.st = v] \in Row
        /\ [batch[t] EXCEPT !.st = v].encf = batch[t].encf /\ Kept(batch[t].encf, t)
    BY <2>1, <2>2, <2>4, RowEdits, Places DEF Fetched
  <2>6. /\ batch' \in [Txn -> Row \cup {None}]
        /\ \A u \in Txn : batch'[u] # None => Kept(batch'[u].encf, u)
    BY <1>t, <2>3, <2>5, Places
  <2> QED BY <1>t, <2>1, <2>6, Places, DbStepKeeps
<1> QED BY <1>1, <1>2, <1>3, <1>4

\* A step of DGII, or of the wire.
LEMMA WireKeeps ==
  ASSUME DocInv, wire' \subseteq wire,
         dgii' \in [Encf -> [st : {"En Proceso", "Aceptado", "Rechazado"}, txn : Txn, edit : Edit]
                            \cup {None}],
         \A n \in Encf : dgii'[n] # None => Kept(n, dgii'[n].txn),
         answer' \in [Worker -> {"trackId", "Aceptado", "Rechazado", "error", None}],
         UNCHANGED <<dbVars, aged, pc, copy, job, readerVars, pollVars>>
  PROVE  DocInv'
<1>1. /\ pc' = pc /\ copy' = copy /\ job' = job /\ seq' = seq /\ docs' = docs /\ aged' = aged
      /\ rpc' = rpc /\ rcopy' = rcopy /\ rtxn' = rtxn /\ batch' = batch /\ checked' = checked
  BY DEF dbVars, readerVars, pollVars
<1>2. TypeOK' /\ \A g \in Reader : Reads(g)'
  BY <1>1, Places DEF TypeOK, Reads
<1> QED BY <1>1, <1>2, Places, OthersKeep

LEMMA ReceiveKeeps ==
  ASSUME DocInv, NEW m \in wire, DgiiReceives(m) PROVE DocInv'
<1>1. /\ wire' \subseteq wire
      /\ UNCHANGED <<dbVars, aged, pc, copy, job, readerVars, pollVars>>
  BY DEF DgiiReceives
<1>2. m \in Message /\ Kept(m.encf, m.txn) /\ TypeOK
  BY Places
<1>3. \A a \in {"trackId", "Aceptado", "Rechazado", "error"} :
        Answered(m, a) =>
          answer' \in [Worker -> {"trackId", "Aceptado", "Rechazado", "error", None}]
  BY ZenonT(30), <1>2 DEF Answered, TypeOK
<1>4. answer' \in [Worker -> {"trackId", "Aceptado", "Rechazado", "error", None}]
  BY <1>3 DEF DgiiReceives
<1>5. \/ dgii' = dgii
      \/ \E s \in {"En Proceso", "Aceptado", "Rechazado"} :
           dgii' = [dgii EXCEPT ![m.encf] = [st |-> s, txn |-> m.txn, edit |-> m.edit]]
  BY DEF DgiiReceives
<1>6. CASE dgii' = dgii
  BY <1>1, <1>2, <1>4, <1>6, Places, WireKeeps DEF TypeOK
<1>7. CASE \E s \in {"En Proceso", "Aceptado", "Rechazado"} :
             dgii' = [dgii EXCEPT ![m.encf] = [st |-> s, txn |-> m.txn, edit |-> m.edit]]
  <2>1. PICK s \in {"En Proceso", "Aceptado", "Rechazado"} :
          dgii' = [dgii EXCEPT ![m.encf] = [st |-> s, txn |-> m.txn, edit |-> m.edit]]
    BY <1>7
  <2> DEFINE d == [st |-> s, txn |-> m.txn, edit |-> m.edit]
             Verdict == [st : {"En Proceso", "Aceptado", "Rechazado"}, txn : Txn, edit : Edit]
  <2>2. d \in Verdict /\ d.txn = m.txn /\ m.encf \in Encf
    BY <1>2 DEF Message
  <2>3. dgii \in [Encf -> Verdict \cup {None}] /\ dgii' = [dgii EXCEPT ![m.encf] = d]
    BY <1>2, <2>1 DEF TypeOK
  <2> HIDE DEF d, Verdict
  <2>4. dgii' \in [Encf -> Verdict \cup {None}]
    BY <2>2, <2>3
  <2>5. \A n \in Encf : dgii'[n] # None => Kept(n, dgii'[n].txn)
    BY <1>2, <2>2, <2>3, Places
  <2> QED BY <1>1, <1>4, <2>4, <2>5, WireKeeps DEF Verdict
<1> QED BY <1>5, <1>6, <1>7

LEMMA DecideKeeps ==
  ASSUME DocInv, NEW n \in Encf, DgiiDecides(n) PROVE DocInv'
<1> DEFINE Verdict == [st : {"En Proceso", "Aceptado", "Rechazado"}, txn : Txn, edit : Edit]
<1>1. /\ wire' \subseteq wire /\ answer' = answer /\ dgii[n] # None
      /\ UNCHANGED <<dbVars, aged, pc, copy, job, readerVars, pollVars>>
  BY DEF DgiiDecides, workerVars
<1>2. PICK s \in {"Aceptado", "Rechazado"} : dgii' = [dgii EXCEPT ![n] = [dgii[n] EXCEPT !.st = s]]
  BY DEF DgiiDecides
<1>3. dgii \in [Encf -> Verdict \cup {None}] /\ dgii[n] \in Verdict
  BY <1>1, Places DEF TypeOK
<1>4. [dgii[n] EXCEPT !.st = s] \in Verdict /\ [dgii[n] EXCEPT !.st = s].txn = dgii[n].txn
  BY <1>3
<1>5. /\ dgii' \in [Encf -> Verdict \cup {None}]
      /\ \A k \in Encf : dgii'[k] # None => Kept(k, dgii'[k].txn)
  BY <1>1, <1>2, <1>3, <1>4, Places
<1>6. answer' \in [Worker -> {"trackId", "Aceptado", "Rechazado", "error", None}]
  BY <1>1, Places DEF TypeOK
<1> QED BY <1>1, <1>5, <1>6, WireKeeps

LEMMA LostKeeps ==
  ASSUME DocInv, NEW m \in wire, UploadLost(m) PROVE DocInv'
<1>1. /\ wire' \subseteq wire /\ answer' = answer /\ dgii' = dgii
      /\ UNCHANGED <<dbVars, aged, pc, copy, job, readerVars, pollVars>>
  BY DEF UploadLost, workerVars
<1> QED BY <1>1, Places, WireKeeps DEF TypeOK

LEMMA TimeKeeps ==
  ASSUME DocInv, NEW t \in Txn, NEW n \in Encf, TwoMinutesPass(t) \/ WindowCloses(n)
  PROVE  DocInv'
<1>1. CASE TwoMinutesPass(t)
  <2>1. /\ UNCHANGED <<seq, dgiiVars, aged, workerVars, readerVars>>
        /\ batch' = batch /\ checked' = checked /\ docs[t] # None
        /\ docs' = [docs EXCEPT ![t] = [docs[t] EXCEPT !.fresh = FALSE]]
    BY <1>1 DEF TwoMinutesPass, pollVars
  <2>2. docs[t] \in Row
    BY <2>1, Places
  <2>3. /\ [docs[t] EXCEPT !.fresh = FALSE] \in Row
        /\ [docs[t] EXCEPT !.fresh = FALSE].encf = docs[t].encf
    BY <2>2 DEF Row
  <2>4. /\ docs \in [Txn -> Row \cup {None}] /\ batch \in [Txn -> Row \cup {None}]
        /\ checked \subseteq Txn
    BY Places DEF TypeOK
  <2>5. /\ docs' \in [Txn -> Row \cup {None}]
        /\ \A u \in Txn : docs'[u] # None => Kept(docs'[u].encf, u)
    BY <2>1, <2>3, <2>4, Places
  <2> QED BY <2>1, <2>4, <2>5, Places, DbStepKeeps
<1>2. CASE WindowCloses(n)
  <2>1. /\ UNCHANGED <<dbVars, dgiiVars, workerVars, readerVars, pollVars>>
        /\ aged' = aged \cup {n}
    BY <1>2 DEF WindowCloses
  <2>2. TypeOK' /\ \A g \in Reader : Reads(g)'
    BY <2>1, Places DEF TypeOK, Reads, dbVars, dgiiVars, workerVars, readerVars, pollVars
  <2> QED BY <2>1, <2>2, Places, OthersKeep
          DEF dbVars, dgiiVars, workerVars, readerVars, pollVars
<1> QED BY <1>1, <1>2
-----------------------------------------------------------------------------
LEMMA DocInvHolds == Spec => []DocInv
<1>1. Init => DocInv
  <2> SUFFICES ASSUME Init PROVE DocInv
    OBVIOUS
  <2>1. MaxEncf \in Nat
    BY DocumentAssumption
  <2>2. TypeOK
    BY <2>1 DEF Init, TypeOK
  <2>3. (\A w \in Worker : Carries(w)) /\ \A g \in Reader : Reads(g)
    BY DEF Init, Carries, Reads, Empty
  <2>4. \A n \in Encf, t \in Txn : ~Claims(n, t)
    BY DEF Init, Claims
  <2>5. \A w \in Worker : Alone(w)
    BY DEF Init, Alone, Unstored
  <2> QED BY <2>2, <2>3, <2>4, <2>5 DEF DocInv, Typed, Numbered, Below, EncfBelongsToOneInvoice
<1>2. DocInv /\ [Next]_vars => DocInv'
  <2> SUFFICES ASSUME DocInv, [Next]_vars PROVE DocInv'
    OBVIOUS
  <2>1. ASSUME NEW w \in Worker, WorkerStep(w) \/ Abort(w) PROVE DocInv'
    BY <2>1, AllocateKeeps, InsertKeeps, SaveReissueKeeps, ReleaseKeeps, RefetchKeeps,
       QueryStatusKeeps, SavesKeep, SignKeeps, SendKeeps, AnswerKeeps, ConsultKeeps, AbortKeeps
       DEF WorkerStep
  <2>2. ASSUME NEW g \in Reader, ReaderQuery(g) \/ ReaderSave(g) \/ ReaderAbort(g) PROVE DocInv'
    <3>1. rtxn[g] \in Txn
      BY <2>2, Places DEF ReaderQuery, ReaderSave, ReaderAbort
    <3> QED BY <2>2, <3>1, ReadsKeep
  <2>3. ASSUME PollFetch \/ PollSave \/ PollAbort PROVE DocInv'
    <3>1. CASE Txn # {}
      BY <2>3, <3>1, PollKeeps
    <3>2. CASE Txn = {}
      BY <2>3, <3>2 DEF PollFetch, PollSave, PollAbort, Due, Fetched
    <3> QED BY <3>1, <3>2
  <2>4. ASSUME NEW t \in Txn, PollCheck(t) \/ TwoMinutesPass(t) PROVE DocInv'
    <3>1. 1 \in Encf
      BY DocumentAssumption DEF Encf
    <3> QED BY <2>4, <3>1, PollKeeps, TimeKeeps
  <2>5. ASSUME NEW n \in Encf, DgiiDecides(n) \/ WindowCloses(n) PROVE DocInv'
    <3>1. dgii[n] # None /\ TypeOK
      BY <2>5, Places DEF DgiiDecides, WindowCloses
    <3>2. dgii[n].txn \in Txn
      BY <3>1 DEF TypeOK
    <3> QED BY <2>5, <3>2, DecideKeeps, TimeKeeps
  <2>6. CASE UNCHANGED vars
    BY <2>6, Places, OthersKeep DEF vars, TypeOK, Reads
  <2> QED BY <2>1, <2>2, <2>3, <2>4, <2>5, <2>6, SubmitKeeps, ReadsKeep, ReceiveKeeps, LostKeeps
          DEF Next
<1> QED BY <1>1, <1>2, PTL DEF Spec

\* Rows, uploads, copies and what DGII holds keep their types, whatever threads,
\* passes and uploads do (submit, GET, reconcile).
THEOREM DocumentTyping == Spec => []TypeOK
<1>1. DocInv => TypeOK
  BY DEF DocInv, Typed
<1> QED BY <1>1, DocInvHolds, PTL

\* No fiscal number ever serves two invoices, whatever requests race to insert,
\* re-issue and release, whatever is lost, late or answered without an estado
\* (getNextEncf, releaseUnusedEncf).  The unique indexes are not needed for it.
THEOREM EncfServesOneInvoice == Spec => []EncfBelongsToOneInvoice
<1>1. DocInv => EncfBelongsToOneInvoice
  BY DEF DocInv, Numbered
<1> QED BY <1>1, DocInvHolds, PTL

-----------------------------------------------------------------------------
(* Acceptance.  Whatever requests, GETs and passes overlap, each works on a *)
(* copy whose state it learnt for the copy's own number.                    *)

AcceptedBy(n, t) == dgii[n] # None /\ dgii[n].st = "Aceptado" /\ dgii[n].txn = t

\* The row r of invoice t says accepted of its number only if DGII does.
Bears(r, t) ==
  /\ r.track \in {None, r.encf}
  /\ r.st = "AcceptedByDgii" => AcceptedBy(r.encf, t)

\* Who waits for the upload m.
Awaits(m) ==
  m.from # None =>
    pc[m.from] = "wait" /\ copy[m.from].encf = m.encf /\ job[m.from].txn = m.txn

\* The answer of a send is about the number that was sent.
AnswerOf(w) ==
  answer[w] # None =>
    /\ pc[w] = "wait"
    /\ \A m \in wire : m.from # w
    /\ answer[w] = "Aceptado" => AcceptedBy(copy[w].encf, job[w].txn)

Borne ==
  /\ \A t \in Txn : docs[t] # None => Bears(docs[t], t)
  /\ \A t \in Txn : batch[t] # None => Bears(batch[t], t)
  /\ \A g \in Reader : rpc[g] # "idle" => Bears(rcopy[g], rtxn[g])
  /\ \A w \in Worker : /\ pc[w] \notin Empty => Bears(copy[w], job[w].txn)
                       /\ pc[w] = "consult" => copy[w].track = copy[w].encf
                       /\ AnswerOf(w)
  /\ \A m \in wire : Awaits(m)
  /\ \A m, x \in wire : m.from # None /\ m.from = x.from => m = x

LEMMA BearsEdits ==
  ASSUME NEW r \in Row, NEW t, Bears(r, t)
  PROVE  /\ \A b \in BOOLEAN : Bears([r EXCEPT !.fresh = b], t)
         /\ \A st \in State \ {"AcceptedByDgii"} : Bears([r EXCEPT !.st = st], t)
         /\ \A e \in Edit : Bears(WithContent(r, e), t)
BY DEF Row, Bears, WithContent

\* A verdict DGII has for a number of t is one for t.
LEMMA VerdictIsOwn ==
  ASSUME DocInv, NEW n \in Encf, NEW t \in Txn, Claims(n, t), Estado(n) = "Aceptado"
  PROVE  AcceptedBy(n, t)
<1>1. dgii[n] # None /\ dgii[n].st = "Aceptado"
  BY DEF Estado
<1>2. dgii[n].txn \in Txn /\ Claims(n, dgii[n].txn)
  BY <1>1, Places DEF TypeOK, Claims
<1>3. dgii[n].txn = t
  BY <1>2 DEF DocInv, Numbered, EncfBelongsToOneInvoice
<1> QED BY <1>1, <1>3 DEF AcceptedBy

LEMMA StateOfAccepted == \A e : StateOf(e) = "AcceptedByDgii" => e = "Aceptado"
BY DEF StateOf

\* A step of the thread w, which keeps what it does not touch.
LEMMA WorkerBears ==
  ASSUME DocInv, Borne, NEW w \in Worker, NEW s, NEW r,
         pc' = [pc EXCEPT ![w] = s], copy' = [copy EXCEPT ![w] = r],
         \A v \in Worker \ {w} : job'[v] = job[v] /\ answer'[v] = answer[v],
         answer'[w] = None,
         dgii' = dgii, UNCHANGED readerVars, UNCHANGED pollVars,
         \A t \in Txn : docs'[t] # None => Bears(docs'[t], t),
         s \notin Empty => Bears(r, job'[w].txn),
         s = "consult" => r.track = r.encf,
         \A m \in wire' : m.from = w \/ m.from = None \/ m \in wire,
         \A m \in wire' : m.from = w => s = "wait" /\ m.encf = r.encf /\ m.txn = job'[w].txn,
         \A m, x \in wire' : m.from = w /\ x.from = w => m = x,
         wire' \subseteq Message
  PROVE  Borne'
<1>t. pc \in [Worker -> Step] /\ copy \in [Worker -> Row \cup {None}]
  BY DEF DocInv, Typed, TypeOK, Step
<1>p. /\ \A v \in Worker : pc'[v] = IF v = w THEN s ELSE pc[v]
      /\ \A v \in Worker : copy'[v] = IF v = w THEN r ELSE copy[v]
      /\ w # None /\ None \notin Worker
  BY <1>t, NoneAssumption
<1>a. \A n, t : AcceptedBy(n, t)' <=> AcceptedBy(n, t)
  BY DEF AcceptedBy
<1>b. \A x, t : Bears(x, t)' <=> Bears(x, t)
  BY <1>a DEF Bears
<1>1. \A t \in Txn : docs'[t] # None => (Bears(docs[t], t))'
  BY <1>b
<1>2. \A t \in Txn : batch'[t] # None => (Bears(batch[t], t))'
  BY <1>b DEF Borne, pollVars
<1>3. \A g \in Reader : rpc'[g] # "idle" => (Bears(rcopy[g], rtxn[g]))'
  BY <1>b DEF Borne, readerVars
<1>4. ASSUME NEW v \in Worker
      PROVE  /\ pc'[v] \notin Empty => Bears(copy'[v], job'[v].txn)
             /\ pc'[v] = "consult" => copy'[v].track = copy'[v].encf
  BY <1>p DEF Borne
<1>5. ASSUME NEW v \in Worker PROVE AnswerOf(v)'
  <2>1. CASE v = w
    BY <2>1 DEF AnswerOf
  <2>2. CASE v # w
    <3>1. AnswerOf(v) /\ answer'[v] = answer[v] /\ job'[v] = job[v] /\ pc'[v] = pc[v]
          /\ copy'[v] = copy[v] /\ v # None
      BY <1>p, <2>2 DEF Borne
    <3>2. \A m \in wire' : m.from = v => m \in wire
      BY <2>2, <3>1
    <3> QED BY <1>a, <3>1, <3>2 DEF AnswerOf
  <2> QED BY <2>1, <2>2
<1>6. ASSUME NEW m \in wire' PROVE Awaits(m)'
  <2>1. CASE m.from = w
    BY <1>p, <2>1 DEF Awaits
  <2>2. CASE m.from # w /\ m.from # None
    <3>1. m \in wire /\ Awaits(m) /\ m.from \in Worker
      BY <2>2 DEF Borne, Message
    <3> QED BY <1>p, <2>2, <3>1 DEF Awaits
  <2>3. CASE m.from = None
    BY <2>3 DEF Awaits
  <2> QED BY <2>1, <2>2, <2>3
<1>7. \A m, x \in wire' : m.from # None /\ m.from = x.from => m = x
  BY <1>p DEF Borne
<1> QED BY <1>1, <1>2, <1>3, <1>4, <1>5, <1>6, <1>7, <1>b DEF Borne


\* Unless w waits nothing on the wire is waited for by w, and no answer is in.
LEMMA NothingAwaited ==
  ASSUME DocInv, Borne, NEW w \in Worker, pc[w] # "wait"
  PROVE  answer[w] = None /\ \A m \in wire : m.from # w
<1>1. w # None
  BY NoneAssumption
<1> QED BY <1>1 DEF Borne, AnswerOf, Awaits

\* The upload of a thread that gives up on it is nobody's.
LEMMA NobodyAwaits ==
  ASSUME DocInv, Borne, NEW w \in Worker, wire' = Disowned(w)
  PROVE  /\ wire' \subseteq Message
         /\ \A m \in wire' : m.from # w /\ (m.from = None \/ m \in wire)
<1>1. w # None /\ wire \subseteq Message
  BY NoneAssumption DEF DocInv, Typed, TypeOK
<1>2. ASSUME NEW x \in wire' PROVE x \in Message /\ x.from # w /\ (x.from = None \/ x \in wire)
  <2>1. PICK m \in wire : x = [m EXCEPT !.from = IF @ = w THEN None ELSE @]
    BY <1>2 DEF Disowned
  <2>2. m \in Message
    BY <1>1
  <2>3. CASE m.from = w
    BY <1>1, <2>1, <2>2, <2>3 DEF Message
  <2>4. CASE m.from # w
    <3>1. x = m
      BY <2>1, <2>2, <2>4 DEF Message
    <3> QED BY <2>2, <2>4, <3>1
  <2> QED BY <2>3, <2>4
<1> QED BY <1>2

\* w goes on, with a row it may bear, and neither sends nor waits.
LEMMA GoesBearing ==
  ASSUME DocInv, Borne, NEW w \in Worker, pc[w] # "wait", NEW s, s \notin {"wait", "consult"}, NEW r,
         Goto(w, s, r), \A v \in Worker \ {w} : job'[v] = job[v],
         UNCHANGED dgiiVars, UNCHANGED readerVars, UNCHANGED pollVars,
         \A t \in Txn : docs'[t] # None => Bears(docs'[t], t),
         s \notin Empty => Bears(r, job'[w].txn)
  PROVE  Borne'
<1>1. answer[w] = None /\ \A m \in wire : m.from # w
  BY NothingAwaited
<1>2. /\ pc' = [pc EXCEPT ![w] = s] /\ copy' = [copy EXCEPT ![w] = r] /\ answer' = answer
      /\ wire' = wire /\ dgii' = dgii
  BY DEF Goto, dgiiVars
<1>3. wire' \subseteq Message
  BY <1>2 DEF DocInv, Typed, TypeOK
<1> QED BY <1>1, <1>2, <1>3, WorkerBears

\* w is done, and has left its upload, if any, to itself.
LEMMA ReturnsBearing ==
  ASSUME DocInv, Borne, NEW w \in Worker, Return(w),
         (wire' = wire /\ pc[w] # "wait") \/ wire' = Disowned(w),
         dgii' = dgii, UNCHANGED readerVars, UNCHANGED pollVars,
         \A t \in Txn : docs'[t] # None => Bears(docs'[t], t)
  PROVE  Borne'
<1>1. /\ job \in [Worker -> Job \cup {None}]
      /\ answer \in [Worker -> {"trackId", "Aceptado", "Rechazado", "error", None}]
      /\ wire \subseteq Message
  BY Before
<1>2. /\ pc' = [pc EXCEPT ![w] = "idle"] /\ copy' = [copy EXCEPT ![w] = None]
      /\ \A v \in Worker \ {w} : job'[v] = job[v] /\ answer'[v] = answer[v]
      /\ answer'[w] = None
  BY <1>1 DEF Return
<1>3. wire' \subseteq Message /\ \A m \in wire' : m.from # w /\ (m.from = None \/ m \in wire)
  BY <1>1, NothingAwaited, NobodyAwaits
<1>4. "idle" \in Empty
  BY DEF Empty
<1> HIDE DEF Return
<1> QED BY <1>2, <1>3, <1>4, WorkerBears

\* A row that is saved.
LEMMA SavedBears ==
  ASSUME DocInv, Borne, NEW t \in Txn, NEW row \in Row, Bears(row, t), Update(t, row)
  PROVE  \A u \in Txn : docs'[u] # None => Bears(docs'[u], u)
<1>1. docs \in [Txn -> Row \cup {None}]
  BY DEF DocInv, Typed, TypeOK
<1>2. Bears([row EXCEPT !.fresh = TRUE], t)
  BY BearsEdits
<1> QED BY <1>1, <1>2 DEF Update, Borne

LEMMA CopyBears ==
  ASSUME DocInv, Borne, NEW w \in Worker, pc[w] \notin Empty
  PROVE  /\ copy[w] \in Row /\ job[w].txn \in Txn /\ job[w].edit \in Edit
         /\ Bears(copy[w], job[w].txn) /\ Claims(copy[w].encf, job[w].txn)
<1>1. /\ copy[w] \in Row /\ job[w].txn \in Txn /\ job[w].edit \in Edit
      /\ Known(w, copy[w].encf, job[w].txn)
  BY HasCopy
<1> QED BY <1>1, ClaimsAre DEF Borne, Known


LEMMA SubmitBears ==
  ASSUME DocInv, Borne, NEW w \in Worker, NEW t \in Txn, NEW e \in Edit, Submit(w, t, e)
  PROVE  Borne'
<1>1. /\ job' = [job EXCEPT ![w] = [txn |-> t, edit |-> e]] /\ pc[w] = "idle"
      /\ docs' = docs /\ UNCHANGED dgiiVars /\ UNCHANGED readerVars /\ UNCHANGED pollVars
  BY DEF Submit, dbVars
<1>2. /\ \A v \in Worker \ {w} : job'[v] = job[v]
      /\ job'[w].txn = t
  BY <1>1, Before
<1>3. \A u \in Txn : docs'[u] # None => Bears(docs'[u], u)
  BY <1>1 DEF Borne
<1>4. CASE docs[t] = None
  <2>1. Goto(w, "allocate", None) /\ "allocate" \in Empty
    BY <1>4 DEF Submit, Empty
  <2> QED BY <1>1, <1>2, <1>3, <2>1, GoesBearing
<1>5. CASE docs[t] # None
  <2>1. docs[t] \in Row /\ Bears(docs[t], t)
    BY <1>5, Before DEF Borne
  <2>2. PICK s \in {"saveContent", "query", "reallocate"}, r \in {WithContent(docs[t], e), docs[t]} :
          Goto(w, s, r)
    BY <1>5 DEF Submit, HandleExisting
  <2>3. Bears(r, t)
    BY <2>1, BearsEdits
  <2> QED BY <1>1, <1>2, <1>3, <2>2, <2>3, GoesBearing
<1> QED BY <1>4, <1>5

LEMMA AllocateBears ==
  ASSUME DocInv, Borne, NEW w \in Worker, Allocate(w) PROVE Borne'
<1>1. /\ pc[w] \in {"allocate", "reallocate"} /\ docs' = docs /\ job' = job
      /\ UNCHANGED dgiiVars /\ UNCHANGED readerVars /\ UNCHANGED pollVars
  BY DEF Allocate
<1>2. \A u \in Txn : docs'[u] # None => Bears(docs'[u], u)
  BY <1>1 DEF Borne
<1>3. CASE pc[w] = "allocate"
  <2>1. Goto(w, "insert", NewRow(seq', job[w].edit))
    BY <1>3 DEF Allocate
  <2>2. Bears(NewRow(seq', job[w].edit), job[w].txn)
    BY DEF NewRow, Bears
  <2> QED BY <1>1, <1>2, <2>1, <2>2, GoesBearing
<1>4. CASE pc[w] = "reallocate"
  <2>1. Goto(w, "saveReissue", ReissuedRow(copy[w], seq', job[w].edit))
    BY <1>4 DEF Allocate
  <2>2. copy[w] \in Row
    BY <1>4, CopyBears DEF Empty
  <2>3. Bears(ReissuedRow(copy[w], seq', job[w].edit), job[w].txn)
    BY <2>2 DEF ReissuedRow, WithContent, Bears, Row
  <2> QED BY <1>1, <1>2, <2>1, <2>3, GoesBearing
<1> QED BY <1>1, <1>3, <1>4

\* Insert, and the saves of a row that goes on.
LEMMA StoresBear ==
  ASSUME DocInv, Borne, NEW w \in Worker,
         Insert(w) \/ SaveReissue(w) \/ SaveContent(w) \/ ReleaseNumber(w) \/ Refetch(w)
           \/ SaveQueried(w) \/ SaveOutcome(w)
  PROVE  Borne'
<1>1. /\ pc[w] \in {"insert", "saveReissue", "saveContent", "releaseLost", "releaseFailed",
                    "refetch", "saveQueried", "saveOutcome"}
      /\ UNCHANGED dgiiVars /\ UNCHANGED readerVars /\ UNCHANGED pollVars
  BY DEF Insert, SaveReissue, SaveContent, ReleaseNumber, Refetch, SaveQueried, SaveOutcome
<1>2. pc[w] # "refetch" =>
        /\ copy[w] \in Row /\ job[w].txn \in Txn /\ job[w].edit \in Edit
        /\ Bears(copy[w], job[w].txn)
  BY <1>1, CopyBears DEF Empty
<1>3. docs' = docs => \A u \in Txn : docs'[u] # None => Bears(docs'[u], u)
  BY DEF Borne
<1>4. pc[w] # "refetch" /\ Update(job[w].txn, copy[w])
        => \A u \in Txn : docs'[u] # None => Bears(docs'[u], u)
  BY <1>2, SavedBears
<1>5. CASE Insert(w)
  <2>1. pc[w] = "insert" /\ job' = job
    BY <1>5 DEF Insert
  <2>2. docs \in [Txn -> Row \cup {None}]
    BY Before
  <2>3. \A u \in Txn : docs'[u] # None => Bears(docs'[u], u)
    BY <1>2, <1>3, <1>5, <2>1, <2>2 DEF Insert, Borne
  <2>4. \E s \in {"sign", "releaseLost", "releaseFailed"} : Goto(w, s, copy[w])
    BY <1>5 DEF Insert
  <2> QED BY <1>1, <1>2, <2>1, <2>3, <2>4, GoesBearing
<1>6. CASE SaveReissue(w) \/ SaveContent(w)
  <2>1. pc[w] \in {"saveReissue", "saveContent"} /\ job' = job
    BY <1>6 DEF SaveReissue, SaveContent
  <2>2. \A u \in Txn : docs'[u] # None => Bears(docs'[u], u)
    BY <1>3, <1>4, <1>6, <2>1 DEF SaveReissue, SaveContent
  <2>3. \E s \in {"sign", "releaseFailed"} : Goto(w, s, copy[w])
    BY <1>6 DEF SaveReissue, SaveContent
  <2> QED BY <1>1, <1>2, <2>1, <2>2, <2>3, GoesBearing
<1>7. CASE ReleaseNumber(w)
  <2>1. /\ docs' = docs
        /\ pc[w] \in {"releaseLost", "releaseFailed"}
        /\ (Goto(w, "refetch", None) /\ job' = job) \/ Return(w)
    BY <1>7 DEF ReleaseNumber
  <2>2. "refetch" \in Empty
    BY DEF Empty
  <2>3. CASE Return(w)
    BY <1>1, <1>3, <2>1, <2>3, ReturnsBearing DEF dgiiVars
  <2>4. CASE Goto(w, "refetch", None) /\ job' = job
    BY <1>1, <1>3, <2>1, <2>2, <2>4, GoesBearing
  <2> QED BY <2>1, <2>3, <2>4
<1>8. CASE Refetch(w)
  <2> DEFINE t == job[w].txn
  <2>1. pc[w] = "refetch" /\ docs' = docs
    BY <1>8 DEF Refetch, dbVars
  <2>2. CASE Return(w)
    BY <1>1, <1>3, <2>1, <2>2, ReturnsBearing DEF dgiiVars
  <2>3. CASE docs[t] # None /\ HandleExisting(w, docs[t], job[w].edit) /\ UNCHANGED job
    <3>1. t \in Txn /\ job[w].edit \in Edit
      BY <2>1, Before DEF Job
    <3>2. docs[t] \in Row /\ Bears(docs[t], t)
      BY <2>3, <3>1, Before DEF Borne
    <3>3. PICK s \in {"saveContent", "query", "reallocate"},
               r \in {WithContent(docs[t], job[w].edit), docs[t]} : Goto(w, s, r)
      BY <2>3 DEF HandleExisting
    <3>4. Bears(r, t)
      BY <3>1, <3>2, BearsEdits
    <3> QED BY <1>1, <1>3, <2>1, <2>3, <3>3, <3>4, GoesBearing
  <2> QED BY <1>8, <2>2, <2>3 DEF Refetch
<1>9. CASE SaveQueried(w) \/ SaveOutcome(w)
  <2>1. pc[w] \in {"saveQueried", "saveOutcome"} /\ Return(w) /\ Update(job[w].txn, copy[w])
    BY <1>9 DEF SaveQueried, SaveOutcome
  <2> QED BY <1>1, <1>4, <2>1, ReturnsBearing DEF dgiiVars
<1> QED BY <1>5, <1>6, <1>7, <1>8, <1>9


\* DGII is asked about the copy's own number.
LEMMA QueryBears ==
  ASSUME DocInv, Borne, NEW w \in Worker, QueryStatus(w) \/ Sign(w) PROVE Borne'
<1>1. /\ pc[w] \in {"query", "sign"}
      /\ UNCHANGED dgiiVars /\ UNCHANGED readerVars /\ UNCHANGED pollVars
  BY DEF QueryStatus, Sign
<1>2. /\ copy[w] \in Row /\ job[w].txn \in Txn /\ job[w].edit \in Edit
      /\ Bears(copy[w], job[w].txn) /\ Claims(copy[w].encf, job[w].txn)
  BY <1>1, CopyBears DEF Empty
<1>3. CASE QueryStatus(w)
  <2>1. /\ pc[w] = "query" /\ job' = job /\ docs' = docs
        /\ \A u \in Txn : docs'[u] # None => Bears(docs'[u], u)
    BY <1>3 DEF QueryStatus, dbVars, Borne
  <2>2. CASE Goto(w, "saveContent", WithContent(copy[w], job[w].edit))
    BY <1>1, <1>2, <2>1, <2>2, BearsEdits, GoesBearing
  <2>3. CASE \E estado \in Estados(copy[w].encf), k \in Tracks(copy[w]) :
               Goto(w, "saveQueried", [copy[w] EXCEPT !.track = k, !.sent = TRUE,
                                                      !.st = StateOf(estado)])
    <3>1. PICK estado \in Estados(copy[w].encf), k \in Tracks(copy[w]) :
            Goto(w, "saveQueried", [copy[w] EXCEPT !.track = k, !.sent = TRUE,
                                                   !.st = StateOf(estado)])
      BY <2>3
    <3> DEFINE r == [copy[w] EXCEPT !.track = k, !.sent = TRUE, !.st = StateOf(estado)]
    <3>2. k \in {None, copy[w].encf}
      BY <1>2 DEF Tracks, Bears
    <3>3. r.track = k /\ r.st = StateOf(estado) /\ r.encf = copy[w].encf
      BY <1>2 DEF Row
    <3>4. StateOf(estado) = "AcceptedByDgii" => AcceptedBy(copy[w].encf, job[w].txn)
      <4>1. StateOf(estado) = "AcceptedByDgii" => Estado(copy[w].encf) = "Aceptado"
        BY StateOfAccepted DEF Estados
      <4>2. copy[w].encf \in Encf
        BY <1>2 DEF Row
      <4> QED BY <1>2, <4>1, <4>2, VerdictIsOwn
    <3>5. Bears(r, job[w].txn)
      BY <3>2, <3>3, <3>4 DEF Bears
    <3> HIDE DEF r
    <3>6. Goto(w, "saveQueried", r)
      BY <3>1 DEF r
    <3> QED BY <1>1, <2>1, <3>5, <3>6, GoesBearing
  <2> QED BY <1>3, <2>2, <2>3 DEF QueryStatus
<1>4. CASE Sign(w)
  <2>1. pc[w] = "sign" /\ \A st \in SignFailure \cup {"AwaitingTransmission"} :
          st \in State \ {"AcceptedByDgii"}
    BY <1>4, DocumentAssumption DEF Sign, State, NeverTransmittedStates, PollableStates
  <2>2. PICK st \in SignFailure \cup {"AwaitingTransmission"} :
          /\ Update(job[w].txn, [copy[w] EXCEPT !.st = st])
          /\ Return(w) \/ (Goto(w, "send", [copy[w] EXCEPT !.st = st]) /\ job' = job)
    BY <1>4 DEF Sign
  <2>3. PICK r \in Row : r = [copy[w] EXCEPT !.st = st] /\ Bears(r, job[w].txn)
    BY <1>2, <2>1, BearsEdits, RowEdits
  <2>4. \A u \in Txn : docs'[u] # None => Bears(docs'[u], u)
    BY <1>2, <2>2, <2>3, SavedBears
  <2>5. CASE Return(w)
    BY <1>1, <2>1, <2>4, <2>5, ReturnsBearing DEF dgiiVars
  <2>6. CASE Goto(w, "send", r) /\ job' = job
    BY <1>1, <2>1, <2>3, <2>4, <2>6, GoesBearing
  <2> QED BY <2>2, <2>3, <2>5, <2>6
<1> QED BY <1>3, <1>4

LEMMA SendBears ==
  ASSUME DocInv, Borne, NEW w \in Worker, Send(w) PROVE Borne'
<1> DEFINE m0 == [encf |-> copy[w].encf, txn |-> job[w].txn, edit |-> copy[w].edit, from |-> w]
<1>1. /\ pc[w] = "send" /\ wire' = wire \cup {m0} /\ docs' = docs /\ dgii' = dgii /\ job' = job
      /\ UNCHANGED readerVars /\ UNCHANGED pollVars /\ answer' = answer
      /\ pc' = [pc EXCEPT ![w] = "wait"] /\ copy' = [copy EXCEPT ![w] = copy[w]]
  BY DEF Send, Goto, dbVars
<1>2. /\ copy[w] \in Row /\ job[w].txn \in Txn /\ Bears(copy[w], job[w].txn)
      /\ answer[w] = None /\ \A m \in wire : m.from # w
  BY <1>1, CopyBears, NothingAwaited DEF Empty
<1>3. m0 \in Message /\ m0.encf = copy[w].encf /\ m0.txn = job[w].txn /\ m0.from = w
  BY <1>2 DEF Message, Row
<1> HIDE DEF m0
<1>4. wire' \subseteq Message
  BY <1>1, <1>3, Before
<1>5. \A u \in Txn : docs'[u] # None => Bears(docs'[u], u)
  BY <1>1 DEF Borne
<1>6. /\ \A m \in wire' : m.from = w \/ m.from = None \/ m \in wire
      /\ \A m \in wire' : m.from = w => m.encf = copy[w].encf /\ m.txn = job'[w].txn
      /\ \A m, x \in wire' : m.from = w /\ x.from = w => m = x
  BY <1>1, <1>2, <1>3
<1>7. PICK s, r : /\ s = "wait" /\ r = copy[w]
                  /\ pc' = [pc EXCEPT ![w] = s] /\ copy' = [copy EXCEPT ![w] = r]
  BY <1>1
<1>8. /\ \A v \in Worker \ {w} : job'[v] = job[v] /\ answer'[v] = answer[v]
      /\ answer'[w] = None /\ dgii' = dgii /\ UNCHANGED readerVars /\ UNCHANGED pollVars
      /\ Bears(r, job'[w].txn) /\ s # "consult" /\ s = "wait"
      /\ \A m \in wire' : m.from = w => m.encf = r.encf /\ m.txn = job'[w].txn
  BY <1>1, <1>2, <1>6, <1>7
<1> QED BY ZenonT(30), <1>4, <1>5, <1>6, <1>7, <1>8, WorkerBears

\* The answer is about what was sent; a thread that gives up learns nothing.
LEMMA AnswerBears ==
  ASSUME DocInv, Borne, NEW w \in Worker, TakeAnswer(w) \/ SendUncertain(w) PROVE Borne'
<1>1. /\ pc[w] = "wait" /\ docs' = docs /\ dgii' = dgii /\ job' = job
      /\ UNCHANGED readerVars /\ UNCHANGED pollVars /\ answer' = [answer EXCEPT ![w] = None]
  BY DEF TakeAnswer, SendUncertain, dbVars, dgiiVars
<1>2. /\ copy[w] \in Row /\ job[w].txn \in Txn /\ Bears(copy[w], job[w].txn)
  BY <1>1, CopyBears DEF Empty
<1>3. /\ \A v \in Worker \ {w} : job'[v] = job[v] /\ answer'[v] = answer[v]
      /\ answer'[w] = None
  BY <1>1, Before
<1>4. \A u \in Txn : docs'[u] # None => Bears(docs'[u], u)
  BY <1>1 DEF Borne
<1>5. CASE TakeAnswer(w)
  <2>1. /\ answer[w] # None /\ wire' = wire
        /\ pc' = [pc EXCEPT ![w] = IF answer[w] = "trackId" THEN "consult" ELSE "saveOutcome"]
        /\ copy' = [copy EXCEPT ![w] = Outcome(copy[w], answer[w])]
    BY <1>5 DEF TakeAnswer, dgiiVars
  <2>2. /\ \A m \in wire : m.from # w
        /\ answer[w] = "Aceptado" => AcceptedBy(copy[w].encf, job[w].txn)
    BY <2>1 DEF Borne, AnswerOf
  <2>3. wire' \subseteq Message
    BY <2>1, Before
  <2>4. /\ Bears(Outcome(copy[w], answer[w]), job[w].txn)
        /\ answer[w] = "trackId" =>
             Outcome(copy[w], answer[w]).track = Outcome(copy[w], answer[w]).encf
    BY <1>2, <2>2 DEF Outcome, Bears, Row
  <2>5. PICK s, r : /\ pc' = [pc EXCEPT ![w] = s] /\ copy' = [copy EXCEPT ![w] = r]
                    /\ Bears(r, job'[w].txn)
                    /\ s = "consult" => r.track = r.encf
    BY <1>1, <2>1, <2>4
  <2>6. /\ \A m \in wire' : m.from = w \/ m.from = None \/ m \in wire
        /\ \A m \in wire' : m.from = w => s = "wait" /\ m.encf = r.encf /\ m.txn = job'[w].txn
        /\ \A m, x \in wire' : m.from = w /\ x.from = w => m = x
    BY <2>1, <2>2
  <2>7. dgii' = dgii /\ UNCHANGED readerVars /\ UNCHANGED pollVars
    BY <1>1
  <2> QED BY ZenonT(30), <1>3, <1>4, <2>3, <2>5, <2>6, <2>7, WorkerBears
<1>6. CASE SendUncertain(w)
  <2>1. /\ wire' = Disowned(w) /\ pc' = [pc EXCEPT ![w] = "saveOutcome"]
        /\ copy' = [copy EXCEPT ![w] = [copy[w] EXCEPT !.st = "Uncertain"]]
    BY <1>6 DEF SendUncertain
  <2>2. wire' \subseteq Message /\ \A m \in wire' : m.from # w /\ (m.from = None \/ m \in wire)
    BY <2>1, NobodyAwaits
  <2>3. Bears([copy[w] EXCEPT !.st = "Uncertain"], job[w].txn)
    BY <1>2, BearsEdits DEF State, PollableStates
  <2> QED BY <1>1, <1>3, <1>4, <2>1, <2>2, <2>3, WorkerBears
<1> QED BY <1>5, <1>6

LEMMA ConsultBears ==
  ASSUME DocInv, Borne, NEW w \in Worker, Consult(w) PROVE Borne'
<1>1. /\ pc[w] = "consult" /\ docs' = docs /\ job' = job
      /\ UNCHANGED dgiiVars /\ UNCHANGED readerVars /\ UNCHANGED pollVars
  BY DEF Consult, dbVars
<1>2. /\ copy[w] \in Row /\ job[w].txn \in Txn /\ Bears(copy[w], job[w].txn)
      /\ Claims(copy[w].encf, job[w].txn) /\ copy[w].track = copy[w].encf
      /\ copy[w].encf \in Encf
  BY <1>1, CopyBears DEF Empty, Borne, Row
<1>3. \A u \in Txn : docs'[u] # None => Bears(docs'[u], u)
  BY <1>1 DEF Borne
<1>4. CASE Goto(w, "saveOutcome", copy[w])
  BY <1>1, <1>2, <1>3, <1>4, GoesBearing
<1>5. CASE Goto(w, "saveOutcome", [copy[w] EXCEPT !.st = StateOf(Estado(copy[w].track))])
  <2> DEFINE r == [copy[w] EXCEPT !.st = StateOf(Estado(copy[w].track))]
  <2>1. r.encf = copy[w].encf /\ r.track = copy[w].track /\ r.st = StateOf(Estado(copy[w].encf))
    BY <1>2 DEF Row
  <2>2. Bears(r, job[w].txn)
    BY <1>2, <2>1, StateOfAccepted, VerdictIsOwn DEF Bears
  <2> HIDE DEF r
  <2>3. Goto(w, "saveOutcome", r)
    BY <1>5 DEF r
  <2> QED BY <1>1, <1>3, <2>2, <2>3, GoesBearing
<1> QED BY <1>4, <1>5 DEF Consult

LEMMA AbortBears ==
  ASSUME DocInv, Borne, NEW w \in Worker, Abort(w) PROVE Borne'
<1>1. /\ docs' = docs /\ dgii' = dgii /\ Return(w) /\ wire' = Disowned(w)
      /\ UNCHANGED readerVars /\ UNCHANGED pollVars
  BY DEF Abort, dbVars
<1>2. \A u \in Txn : docs'[u] # None => Bears(docs'[u], u)
  BY <1>1 DEF Borne
<1> QED BY <1>1, <1>2, ReturnsBearing


\* A step of anybody else: DGII takes nothing back.
LEMMA OthersBear ==
  ASSUME DocInv, Borne, pc' = pc, copy' = copy, job' = job, wire' \subseteq wire,
         \A n \in Encf, t \in Txn : AcceptedBy(n, t) => AcceptedBy(n, t)',
         \A t \in Txn : docs'[t] # None => docs'[t] \in Row /\ Bears(docs'[t], t),
         \A t \in Txn : batch'[t] # None => batch'[t] \in Row /\ Bears(batch'[t], t),
         \A g \in Reader : rpc'[g] # "idle" =>
           rcopy'[g] \in Row /\ rtxn'[g] \in Txn /\ Bears(rcopy'[g], rtxn'[g]),
         \A w \in Worker : AnswerOf(w)'
  PROVE  Borne'
<1>1. \A r \in Row, t \in Txn : Bears(r, t) => Bears(r, t)'
  BY DEF Bears, Row
<1>2. \A w \in Worker : pc[w] \notin Empty =>
        copy[w] \in Row /\ job[w].txn \in Txn /\ Bears(copy[w], job[w].txn)
  BY CopyBears
<1>3. \A m \in wire' : Awaits(m)'
  BY DEF Borne, Awaits
<1>4. /\ \A m, x \in wire' : m.from # None /\ m.from = x.from => m = x
      /\ \A w \in Worker : pc'[w] = "consult" => copy'[w].track = copy'[w].encf
  BY DEF Borne
<1>5. \A t \in Txn : docs'[t] # None => (Bears(docs[t], t))'
  BY <1>1
<1>6. \A t \in Txn : batch'[t] # None => (Bears(batch[t], t))'
  BY <1>1
<1>7. \A g \in Reader : rpc'[g] # "idle" => (Bears(rcopy[g], rtxn[g]))'
  BY <1>1
<1>8. \A w \in Worker : pc'[w] \notin Empty => (Bears(copy[w], job[w].txn))'
  BY <1>1, <1>2
<1> QED BY <1>3, <1>4, <1>5, <1>6, <1>7, <1>8 DEF Borne

\* A step of GET, of the reconciler, or of time.
LEMMA RowsBear ==
  ASSUME DocInv, Borne, UNCHANGED <<dgiiVars, workerVars>>,
         \A t \in Txn : docs'[t] # None => docs'[t] \in Row /\ Bears(docs'[t], t),
         \A t \in Txn : batch'[t] # None => batch'[t] \in Row /\ Bears(batch'[t], t),
         \A g \in Reader : rpc'[g] # "idle" =>
           rcopy'[g] \in Row /\ rtxn'[g] \in Txn /\ Bears(rcopy'[g], rtxn'[g])
  PROVE  Borne'
<1>1. /\ pc' = pc /\ copy' = copy /\ job' = job /\ answer' = answer
      /\ wire' = wire /\ dgii' = dgii
  BY DEF dgiiVars, workerVars
<1>2. \A n, t : AcceptedBy(n, t) <=> AcceptedBy(n, t)'
  BY <1>1 DEF AcceptedBy
<1>3. \A w \in Worker : AnswerOf(w)'
  BY <1>1, <1>2 DEF Borne, AnswerOf
<1> QED BY <1>1, <1>2, <1>3, OthersBear

\* What the rows and copies bear before the step.
LEMMA RowsBefore ==
  ASSUME DocInv, Borne
  PROVE  /\ \A t \in Txn : docs[t] # None => docs[t] \in Row /\ Bears(docs[t], t)
         /\ \A t \in Txn : batch[t] # None =>
              batch[t] \in Row /\ Bears(batch[t], t) /\ Claims(batch[t].encf, t)
         /\ \A g \in Reader : rpc[g] # "idle" =>
              /\ rcopy[g] \in Row /\ rtxn[g] \in Txn /\ Bears(rcopy[g], rtxn[g])
              /\ Claims(rcopy[g].encf, rtxn[g])
BY Places, ClaimsAre DEF Borne

\* A copy whose state is what DGII has for its number, or its track.
LEMMA LearntBears ==
  ASSUME DocInv, NEW r \in Row, NEW t \in Txn, Bears(r, t), Claims(r.encf, t),
         NEW n \in Encf, n = r.encf \/ (n = r.track /\ r.track # None), NEW k \in Tracks(r)
  PROVE  /\ [r EXCEPT !.track = k, !.st = StateOf(Estado(n))] \in Row
         /\ Bears([r EXCEPT !.track = k, !.st = StateOf(Estado(n))], t)
         /\ Bears([r EXCEPT !.st = StateOf(Estado(n))], t)
<1>1. n = r.encf /\ r.encf \in Encf /\ k \in {None, r.encf}
  BY DEF Bears, Tracks, Row, Encf
<1>2. StateOf(Estado(n)) = "AcceptedByDgii" => AcceptedBy(r.encf, t)
  BY <1>1, StateOfAccepted, VerdictIsOwn
<1> QED BY <1>1, <1>2, StateOfIsState DEF Bears, Row

LEMMA ReaderBears ==
  ASSUME DocInv, Borne, NEW g \in Reader, NEW t \in Txn,
         ReadDocument(g, t) \/ ReaderQuery(g) \/ ReaderSave(g) \/ ReaderAbort(g)
  PROVE  Borne'
<1>t. /\ rpc \in [Reader -> {"idle", "query", "save"}] /\ rcopy \in [Reader -> Row \cup {None}]
      /\ rtxn \in [Reader -> Txn \cup {None}] /\ docs \in [Txn -> Row \cup {None}]
  BY Places DEF TypeOK
<1>1. CASE ReadDocument(g, t)
  <2>1. /\ docs' = docs /\ docs[t] # None /\ UNCHANGED <<dgiiVars, workerVars>> /\ batch' = batch
        /\ rpc' = [rpc EXCEPT ![g] = "query"] /\ rcopy' = [rcopy EXCEPT ![g] = docs[t]]
        /\ rtxn' = [rtxn EXCEPT ![g] = t]
    BY <1>1 DEF ReadDocument, dbVars, pollVars
  <2> QED BY <1>t, <2>1, RowsBefore, RowsBear
<1>2. CASE ReaderQuery(g)
  <2>1. /\ rpc[g] = "query" /\ docs' = docs /\ batch' = batch /\ UNCHANGED <<dgiiVars, workerVars>>
    BY <1>2 DEF ReaderQuery, dbVars, pollVars
  <2>2. /\ rcopy[g] \in Row /\ rtxn[g] \in Txn /\ Bears(rcopy[g], rtxn[g])
        /\ Claims(rcopy[g].encf, rtxn[g])
    BY <2>1, RowsBefore
  <2>3. PICK r \in Row : ReaderToSave(g, r) /\ Bears(r, rtxn[g])
    <3>1. CASE /\ rcopy[g].track # None
               /\ ReaderToSave(g, [rcopy[g] EXCEPT !.st = StateOf(Estado(rcopy[g].track))])
      <4>1. /\ rcopy[g].track \in Encf /\ rcopy[g].track # None
            /\ rcopy[g].track \in Tracks(rcopy[g])
        BY <2>2, <3>1 DEF Row, Tracks
      <4>2. Bears([rcopy[g] EXCEPT !.st = StateOf(Estado(rcopy[g].track))], rtxn[g])
        BY <2>2, <4>1, LearntBears
      <4> QED BY <2>2, <3>1, <4>2, RowEdits, StateOfIsState
    <3>2. CASE \E k \in Tracks(rcopy[g]) :
                 ReaderToSave(g, [rcopy[g] EXCEPT !.track = k,
                                                  !.st = StateOf(Estado(rcopy[g].encf))])
      <4>1. PICK k \in Tracks(rcopy[g]) :
              ReaderToSave(g, [rcopy[g] EXCEPT !.track = k,
                                               !.st = StateOf(Estado(rcopy[g].encf))])
        BY <3>2
      <4>2. rcopy[g].encf \in Encf
        BY <2>2 DEF Row
      <4> QED BY <2>2, <4>1, <4>2, LearntBears
    <3> QED BY <1>2, <3>1, <3>2 DEF ReaderQuery
  <2>4. /\ rpc' = [rpc EXCEPT ![g] = "save"] /\ rcopy' = [rcopy EXCEPT ![g] = r] /\ rtxn' = rtxn
    BY <2>3 DEF ReaderToSave
  <2> QED BY <1>t, <2>1, <2>2, <2>3, <2>4, RowsBefore, RowsBear
<1>3. CASE ReaderSave(g)
  <2>1. /\ rpc[g] = "save" /\ Update(rtxn[g], rcopy[g]) /\ batch' = batch
        /\ UNCHANGED <<dgiiVars, workerVars>> /\ rpc' = [rpc EXCEPT ![g] = "idle"]
        /\ rcopy' = [rcopy EXCEPT ![g] = None] /\ rtxn' = [rtxn EXCEPT ![g] = None]
    BY <1>3 DEF ReaderSave, ReaderReturns, pollVars
  <2>2. /\ rcopy[g] \in Row /\ rtxn[g] \in Txn /\ Bears(rcopy[g], rtxn[g])
    BY <2>1, RowsBefore
  <2>3. PICK saved \in Row : saved = [rcopy[g] EXCEPT !.fresh = TRUE] /\ Bears(saved, rtxn[g])
    <3>1. [rcopy[g] EXCEPT !.fresh = TRUE] \in Row
      BY <2>2 DEF Row
    <3> QED BY <2>2, <3>1, BearsEdits
  <2>4. docs' = [docs EXCEPT ![rtxn[g]] = saved]
    BY <2>1, <2>3 DEF Update
  <2> QED BY <1>t, <2>1, <2>2, <2>3, <2>4, RowsBefore, RowsBear
<1>4. CASE ReaderAbort(g)
  <2>1. /\ docs' = docs /\ batch' = batch /\ UNCHANGED <<dgiiVars, workerVars>>
        /\ rpc' = [rpc EXCEPT ![g] = "idle"] /\ rcopy' = [rcopy EXCEPT ![g] = None]
        /\ rtxn' = [rtxn EXCEPT ![g] = None]
    BY <1>4 DEF ReaderAbort, ReaderReturns, dbVars, pollVars
  <2> QED BY <1>t, <2>1, RowsBefore, RowsBear
<1> QED BY <1>1, <1>2, <1>3, <1>4


LEMMA PollBears ==
  ASSUME DocInv, Borne, NEW t \in Txn,
         PollFetch \/ PollSave \/ PollAbort \/ PollCheck(t) \/ TwoMinutesPass(t)
  PROVE  Borne'
<1>t. docs \in [Txn -> Row \cup {None}] /\ batch \in [Txn -> Row \cup {None}]
  BY Places DEF TypeOK
<1>r. rpc' = rpc /\ rcopy' = rcopy /\ rtxn' = rtxn /\ UNCHANGED <<dgiiVars, workerVars>>
  BY DEF PollFetch, PollSave, PollAbort, PollCheck, TwoMinutesPass, readerVars
<1>1. CASE PollFetch
  <2>1. docs' = docs /\ batch' = [u \in Txn |-> IF u \in Due THEN docs[u] ELSE None]
    BY <1>1 DEF PollFetch, dbVars
  <2> QED BY <1>r, <2>1, RowsBefore, RowsBear
<1>2. CASE PollSave
  <2>1. /\ docs' = [u \in Txn |-> IF u \in Fetched THEN [batch[u] EXCEPT !.fresh = TRUE]
                                                   ELSE docs[u]]
        /\ batch' = [u \in Txn |-> None]
    BY <1>2 DEF PollSave, PassOver
  <2>2. ASSUME NEW u \in Txn, u \in Fetched
        PROVE  /\ [batch[u] EXCEPT !.fresh = TRUE] \in Row
               /\ Bears([batch[u] EXCEPT !.fresh = TRUE], u)
    <3>1. batch[u] \in Row /\ Bears(batch[u], u)
      BY <2>2, RowsBefore DEF Fetched
    <3>2. [batch[u] EXCEPT !.fresh = TRUE] \in Row
      BY <3>1 DEF Row
    <3> QED BY <3>1, <3>2, BearsEdits
  <2> QED BY <1>r, <2>1, <2>2, RowsBefore, RowsBear
<1>3. CASE PollAbort
  <2>1. docs' = docs /\ batch' = [u \in Txn |-> None]
    BY <1>3 DEF PollAbort, PassOver, dbVars
  <2> QED BY <1>r, <2>1, RowsBefore, RowsBear
<1>4. CASE PollCheck(t)
  <2>1. docs' = docs /\ batch[t] # None
    BY <1>4 DEF PollCheck, Fetched, dbVars
  <2>2. batch[t] \in Row /\ Bears(batch[t], t) /\ Claims(batch[t].encf, t)
    BY <2>1, RowsBefore
  <2>3. PICK v \in Verdicts(batch[t]) : batch' = [batch EXCEPT ![t] = [batch[t] EXCEPT !.st = v]]
    BY <1>4 DEF PollCheck
  <2>4. [batch[t] EXCEPT !.st = v] \in Row /\ Bears([batch[t] EXCEPT !.st = v], t)
    <3>1. CASE v = "RequiresManualReview"
      <4>1. v \in State \ {"AcceptedByDgii"}
        BY <3>1 DEF State
      <4> QED BY <2>2, <4>1, BearsEdits, RowEdits
    <3>2. CASE v = batch[t].st
      <4>1. [batch[t] EXCEPT !.st = v] = batch[t]
        BY <2>2, <3>2 DEF Row
      <4> QED BY <2>2, <4>1
    <3>3. ASSUME NEW n \in Encf, v = StateOf(Estado(n)),
                 n = batch[t].encf \/ (n = batch[t].track /\ batch[t].track # None)
          PROVE  [batch[t] EXCEPT !.st = v] \in Row /\ Bears([batch[t] EXCEPT !.st = v], t)
      <4>1. PICK k : k \in Tracks(batch[t])
        BY DEF Tracks
      <4>2. Bears([batch[t] EXCEPT !.st = v], t)
        BY <2>2, <3>3, <4>1, LearntBears
      <4> QED BY <2>2, <3>3, <4>2, RowEdits, StateOfIsState
    <3>4. /\ batch[t].encf \in Encf
          /\ batch[t].track # None => batch[t].track \in Encf
      BY <2>2 DEF Row
    <3> QED BY <2>3, <3>1, <3>2, <3>3, <3>4 DEF Verdicts
  <2> QED BY <1>t, <1>r, <2>1, <2>3, <2>4, RowsBefore, RowsBear
<1>5. CASE TwoMinutesPass(t)
  <2>1. batch' = batch /\ docs[t] # None /\ docs' = [docs EXCEPT ![t] = [docs[t] EXCEPT !.fresh = FALSE]]
    BY <1>5 DEF TwoMinutesPass, pollVars
  <2>2. docs[t] \in Row /\ Bears(docs[t], t)
    BY <2>1, RowsBefore
  <2>3. [docs[t] EXCEPT !.fresh = FALSE] \in Row /\ Bears([docs[t] EXCEPT !.fresh = FALSE], t)
    <3>1. [docs[t] EXCEPT !.fresh = FALSE] \in Row
      BY <2>2 DEF Row
    <3> QED BY <2>2, <3>1, BearsEdits
  <2> QED BY <1>t, <1>r, <2>1, <2>3, RowsBefore, RowsBear
<1> QED BY <1>1, <1>2, <1>3, <1>4, <1>5

\* DGII decides once, and answers what it was sent.
LEMMA DgiiBears ==
  ASSUME DocInv, Borne,
         \/ \E m \in wire : DgiiReceives(m) \/ UploadLost(m)
         \/ \E n \in Encf : DgiiDecides(n) \/ WindowCloses(n)
  PROVE  Borne'
<1>1. /\ pc' = pc /\ copy' = copy /\ job' = job /\ docs' = docs /\ batch' = batch
      /\ rpc' = rpc /\ rcopy' = rcopy /\ rtxn' = rtxn /\ wire' \subseteq wire
  BY DEF DgiiReceives, UploadLost, DgiiDecides, WindowCloses, workerVars, dbVars, dgiiVars,
         readerVars, pollVars
<1>t. /\ wire \subseteq Message
      /\ dgii \in [Encf -> [st : {"En Proceso", "Aceptado", "Rechazado"}, txn : Txn, edit : Edit]
                           \cup {None}]
      /\ answer \in [Worker -> {"trackId", "Aceptado", "Rechazado", "error", None}]
  BY Places DEF TypeOK
<1>2. \A n \in Encf, u \in Txn : AcceptedBy(n, u) => AcceptedBy(n, u)'
  <2>1. ASSUME NEW m \in wire, DgiiReceives(m)
        PROVE  dgii' = dgii \/ (dgii[m.encf] = None /\ \E x : dgii' = [dgii EXCEPT ![m.encf] = x])
    BY <2>1 DEF DgiiReceives
  <2>2. ASSUME NEW m \in wire, DgiiReceives(m)
        PROVE  \A n \in Encf, u \in Txn : AcceptedBy(n, u) => AcceptedBy(n, u)'
    BY <1>t, <2>1, <2>2 DEF AcceptedBy
  <2>3. ASSUME NEW k \in Encf, DgiiDecides(k)
        PROVE  \A n \in Encf, u \in Txn : AcceptedBy(n, u) => AcceptedBy(n, u)'
    <3>1. dgii[k].st = "En Proceso" /\ \E s \in {"Aceptado", "Rechazado"} :
            dgii' = [dgii EXCEPT ![k] = [dgii[k] EXCEPT !.st = s]]
      BY <2>3 DEF DgiiDecides
    <3> QED BY <1>t, <3>1 DEF AcceptedBy
  <2>4. ASSUME dgii' = dgii PROVE \A n \in Encf, u \in Txn : AcceptedBy(n, u) => AcceptedBy(n, u)'
    BY <2>4 DEF AcceptedBy
  <2> QED BY <2>2, <2>3, <2>4 DEF UploadLost, WindowCloses, dgiiVars
<1>3. ASSUME NEW w \in Worker, answer'[w] = answer[w] PROVE AnswerOf(w)'
  <2>1. AnswerOf(w)
    BY DEF Borne
  <2>2. answer[w] # None => pc[w] = "wait" /\ copy[w] \in Row /\ job[w].txn \in Txn
    BY <2>1, CopyBears DEF AnswerOf, Empty
  <2>3. copy[w] \in Row => copy[w].encf \in Encf
    BY DEF Row
  <2> QED BY <1>1, <1>2, <1>3, <2>1, <2>2, <2>3 DEF AnswerOf
<1>4. ASSUME NEW w \in Worker PROVE AnswerOf(w)'
  <2>1. CASE \E m \in wire : UploadLost(m)
    BY <1>3, <2>1 DEF UploadLost, workerVars
  <2>2. CASE \E n \in Encf : DgiiDecides(n) \/ WindowCloses(n)
    BY <1>3, <2>2 DEF DgiiDecides, WindowCloses, workerVars
  <2>3. ASSUME NEW m \in wire, DgiiReceives(m) PROVE AnswerOf(w)'
    <3>1. m \in Message /\ m.from \in Worker \cup {None} /\ m.encf \in Encf /\ wire' = wire \ {m}
      BY <1>t, <2>3 DEF Message, DgiiReceives
    <3>2. CASE m.from # w
      <4>1. answer'[w] = answer[w]
        BY <1>t, <2>3, <3>1, <3>2 DEF DgiiReceives, Answered
      <4> QED BY <1>3, <4>1
    <3>3. CASE m.from = w
      <4>1. /\ pc[w] = "wait" /\ copy[w].encf = m.encf /\ job[w].txn = m.txn
            /\ w # None /\ \A x \in wire : x.from = w => x = m
        BY <3>3, NoneAssumption DEF Borne, Awaits
      <4>2. \A x \in wire' : x.from # w
        BY <3>1, <4>1
      <4>3. answer'[w] = "Aceptado" => AcceptedBy(m.encf, m.txn)'
        <5>1. PICK a \in {"trackId", "Aceptado", "Rechazado", "error"} :
                /\ Answered(m, a)
                /\ a = "Aceptado" =>
                     dgii' = [dgii EXCEPT ![m.encf] = [st |-> a, txn |-> m.txn, edit |-> m.edit]]
          BY <2>3 DEF DgiiReceives
        <5>2. answer'[w] = a
          BY <1>t, <3>3, <4>1, <5>1 DEF Answered
        <5>3. CASE a = "Aceptado"
          <6> DEFINE d == [st |-> a, txn |-> m.txn, edit |-> m.edit]
          <6>1. dgii'[m.encf] = d
            BY <1>t, <3>1, <5>1, <5>3
          <6>2. d # None
            <7>1. m.txn \in Txn /\ m.edit \in Edit
              BY <3>1 DEF Message
            <7>2. d \in [st : {"En Proceso", "Aceptado", "Rechazado"}, txn : Txn, edit : Edit]
              BY <5>3, <7>1
            <7> HIDE DEF d
            <7> QED BY <7>2, NoneAssumption
          <6> QED BY <5>3, <6>1, <6>2 DEF AcceptedBy
        <5> QED BY <5>2, <5>3
      <4> QED BY <1>1, <4>1, <4>2, <4>3 DEF AnswerOf
    <3> QED BY <3>2, <3>3
  <2> QED BY <2>1, <2>2, <2>3
<1> QED BY <1>1, <1>2, <1>4, RowsBefore, OthersBear

LEMMA BorneHolds == Spec => []Borne
<1>1. Init => Borne
  BY DEF Init, Borne, AnswerOf, Empty
<1>2. DocInv /\ Borne /\ [Next]_vars => Borne'
  <2> SUFFICES ASSUME DocInv, Borne, [Next]_vars PROVE Borne'
    OBVIOUS
  <2>1. ASSUME NEW w \in Worker, WorkerStep(w) \/ Abort(w) PROVE Borne'
    BY <2>1, AllocateBears, StoresBear, QueryBears, SendBears, AnswerBears, ConsultBears, AbortBears
       DEF WorkerStep
  <2>2. ASSUME NEW g \in Reader, ReaderQuery(g) \/ ReaderSave(g) \/ ReaderAbort(g) PROVE Borne'
    <3>1. rtxn[g] \in Txn
      BY <2>2, Places DEF ReaderQuery, ReaderSave, ReaderAbort
    <3> QED BY <2>2, <3>1, ReaderBears
  <2>3. ASSUME PollFetch \/ PollSave \/ PollAbort PROVE Borne'
    <3>1. CASE Txn # {}
      BY <2>3, <3>1, PollBears
    <3>2. CASE Txn = {}
      BY <2>3, <3>2 DEF PollFetch, PollSave, PollAbort, Due, Fetched
    <3> QED BY <3>1, <3>2
  <2>4. CASE UNCHANGED vars
    <3>1. UNCHANGED <<dgiiVars, workerVars>> /\ docs' = docs /\ batch' = batch
          /\ rpc' = rpc /\ rcopy' = rcopy /\ rtxn' = rtxn
      BY <2>4 DEF vars, dgiiVars, workerVars
    <3> QED BY <3>1, RowsBefore, RowsBear
  <2> QED BY <2>1, <2>2, <2>3, <2>4, SubmitBears, ReaderBears, PollBears, DgiiBears DEF Next
<1> QED BY <1>1, <1>2, DocInvHolds, PTL DEF Spec

\* A row is called accepted only for a number DGII accepted, and accepted for
\* that row's invoice, whatever requests, GETs and passes overlap and however
\* late an upload is: each writes over a row it read earlier what it learnt for
\* the number in its own copy (reconcileUncertain, GET by TxnId, reconcile).
THEOREM AcceptedNumberIsDgiis == Spec => []AcceptedNumberIsAtDgii
<1>1. Borne => AcceptedNumberIsAtDgii
  BY DEF Borne, Bears, AcceptedBy, AcceptedNumberIsAtDgii
<1> QED BY <1>1, BorneHolds, PTL
=============================================================================
