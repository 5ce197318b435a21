------------------------- MODULE FiscalPromiseProofs -------------------------
(***************************************************************************)
(* What EcfDocuments promises once requests for one invoice do not overlap *)
(* and an upload does not outlive the two-minute wait, for any number of   *)
(* invoices, contents, threads and numbers, whatever crashes or is lost:   *)
(* it implements FiscalNumbers.                                            *)
(*                                                                         *)
(* The invariant is stated invoice by invoice, in terms of its row, of     *)
(* what DGII holds of it and of its uploads: a step on one invoice then    *)
(* leaves the others' part alone.                                          *)
(***************************************************************************)
EXTENDS EcfDocumentsProofs

\* A request, or a GET, is at work on the invoice t.
On(w, t) == pc[w] # "idle" /\ job[w].txn = t
Gets(g, t) == rpc[g] # "idle" /\ rtxn[g] = t

\* Requests for one invoice follow each other; GET asks DGII about an invoice
\* while no request, and no pass of the reconciler, is at work on it.  Nothing in
\* the code sees to it: the runs documents_loser, documents_overwritten and
\* documents_unlisted show what happens otherwise.
OneAtATime ==
  \A t \in Txn :
    /\ \A w, v \in Worker : On(w, t) /\ On(v, t) => w = v
    /\ \A g \in Reader : Gets(g, t) =>
         /\ batch[t] = None
         /\ \A w \in Worker : ~On(w, t)
         /\ \A h \in Reader : Gets(h, t) => h = g

Verdict == [st : {"En Proceso", "Aceptado", "Rechazado"}, txn : Txn, edit : Edit]

\* What DGII holds of t, by number, and t's uploads in flight.
Held(t) == [n \in Encf |-> IF dgii[n] # None /\ dgii[n].txn = t THEN dgii[n] ELSE None]
Uploads(t) == {m \in wire : m.txn = t}

Doubtful == {"Uncertain", "AwaitingTransmission"}

\* The steps from the save before a send to the save after it.
Sends == {"send", "wait", "consult", "saveOutcome"}

(* In what follows d is an invoice's row, H what DGII holds of the invoice  *)
(* and U its uploads; r is a row that may be saved.                         *)

Is(d, S) == d # None /\ d.st \in S

Same(r, d) == d # None /\ r.encf = d.encf /\ r.edit = d.edit

Untouched(n, H, U) == H[n] = None /\ \A m \in U : m.encf # n

\* The row says of its number no more than what DGII and the wire bear out.
Sound(r, H, U) ==
  /\ r.track \in {None, r.encf}
  /\ H[r.encf] # None => H[r.encf].edit = r.edit
  /\ \A m \in U : m.edit = r.edit
  /\ r.st = "AcceptedByDgii" => H[r.encf] # None /\ H[r.encf].st = "Aceptado"
  /\ r.st = "RejectedByDgii" => U = {} /\ (H[r.encf] # None => H[r.encf].st = "Rechazado")
  /\ r.st \in NeverTransmittedStates => Untouched(r.encf, H, U)

\* Only the row's number can be on its way; the invoice's other numbers are
\* earlier ones that DGII rejected.
Numbers(n, H, U) ==
  /\ \A k \in Encf : H[k] # None /\ k # n => k < n /\ H[k].st = "Rechazado"
  /\ \A m \in U : m.encf = n /\ H[n] = None
  /\ \A m, x \in U : m = x

Recorded(d, H, U) ==
  /\ d = None => U = {} /\ \A k \in Encf : H[k] = None
  /\ d # None => /\ Sound(d, H, U) /\ Numbers(d.encf, H, U)
                 /\ ~d.fresh => U = {}

\* A thread at step s with the copy r and the answer a.
Phase(s, r, a, d, H, U) ==
  /\ s = "insert" => r.st = "SequenceAllocated" /\ r.track = None /\ r.fresh
  /\ s = "reallocate" => Is(d, {"RejectedByDgii"})
  /\ s = "saveReissue" => /\ Is(d, {"RejectedByDgii"}) /\ r.encf > d.encf
                          /\ r.st = "SequenceAllocated" /\ r.track = None
  /\ s = "query" => Is(d, Doubtful) /\ ~d.fresh /\ r = d
  /\ s = "saveQueried" => Is(d, Doubtful) /\ ~d.fresh /\ Same(r, d) /\ Sound(r, H, U)
  /\ s = "saveContent" => /\ Is(d, NeverTransmittedStates \cup Doubtful)
                          /\ r.encf = d.encf /\ r.track \in {None, r.encf}
                          /\ r.st = "SequenceAllocated" /\ Untouched(r.encf, H, U)
  /\ s = "sign" => /\ Is(d, {"SequenceAllocated"}) /\ Same(r, d)
                   /\ r.st = "SequenceAllocated" /\ Sound(r, H, U)
  /\ s \in Sends => Is(d, {"AwaitingTransmission"}) /\ d.fresh /\ Same(r, d)
  /\ s \in Sends \ {"wait"} => Sound(r, H, U)
  /\ s = "send" => Untouched(r.encf, H, U)
  /\ s = "wait" =>
       /\ r.track \in {None, r.encf}
       /\ a = "error" => Untouched(r.encf, H, U)
       /\ a = "trackId" => H[r.encf] # None
       /\ a \in {"Aceptado", "Rechazado"} => H[r.encf] # None /\ H[r.encf].st = a
  /\ s = "consult" => r.track = r.encf /\ H[r.encf] # None

Polled(b, d, H, U) == b # None => Is(d, {"Signed"}) /\ Same(b, d) /\ Sound(b, H, U)

Read(r, d, H, U) == Is(d, PollableStates) /\ Same(r, d) /\ Sound(r, H, U)

\* Whose answer an upload still is.
Awaited(t) ==
  \A m \in Uploads(t) : m.from # None =>
    On(m.from, t) /\ pc[m.from] = "wait" /\ answer[m.from] = None

TxnInv(t) ==
  /\ Recorded(docs[t], Held(t), Uploads(t))
  /\ Awaited(t)
  /\ Polled(batch[t], docs[t], Held(t), Uploads(t))
  /\ \A w \in Worker : On(w, t) =>
       Phase(pc[w], copy[w], answer[w], docs[t], Held(t), Uploads(t))
  /\ \A g \in Reader : Gets(g, t) => Read(rcopy[g], docs[t], Held(t), Uploads(t))

Quiet(w) == pc[w] # "wait" => answer[w] = None

PromiseInv == (\A t \in Txn : TxnInv(t)) /\ \A w \in Worker : Quiet(w)
-----------------------------------------------------------------------------
LEMMA HeldTyped ==
  ASSUME DocInv, NEW t \in Txn
  PROVE  /\ Held(t) \in [Encf -> Verdict \cup {None}]
         /\ Uploads(t) \subseteq Message
         /\ \A n \in Encf : Held(t)[n] # None => dgii[n] = Held(t)[n] /\ Held(t)[n].txn = t
         /\ \A n \in Encf : Claims(n, t) => dgii[n] = Held(t)[n]
<1>1. TypeOK /\ EncfBelongsToOneInvoice
  BY DEF DocInv, Typed, Numbered
<1>2. dgii \in [Encf -> Verdict \cup {None}] /\ wire \subseteq Message
  BY <1>1 DEF TypeOK, Verdict
<1>3. Held(t) \in [Encf -> Verdict \cup {None}] /\ Uploads(t) \subseteq Message
  BY <1>2 DEF Held, Uploads
<1>4. ASSUME NEW n \in Encf, Claims(n, t), dgii[n] # None PROVE dgii[n].txn = t
  <2>1. dgii[n].txn \in Txn /\ Claims(n, dgii[n].txn)
    BY <1>2, <1>4 DEF Verdict, Claims
  <2> QED BY <1>1, <1>4, <2>1 DEF EncfBelongsToOneInvoice
<1> QED BY <1>3, <1>4 DEF Held

LEMMA Now ==
  ASSUME DocInv, PromiseInv, NEW w \in Worker, NEW t \in Txn, On(w, t)
  PROVE  /\ TxnInv(t) /\ pc[w] \in Step /\ pc[w] # "idle" /\ job[w] \in Job /\ job[w].txn = t
         /\ Phase(pc[w], copy[w], answer[w], docs[t], Held(t), Uploads(t))
         /\ docs[t] # None => docs[t] \in Row /\ docs[t].encf \in Encf
         /\ pc[w] \notin Empty => copy[w] \in Row /\ copy[w].encf \in Encf
<1>1. TxnInv(t) /\ TypeOK /\ Carries(w)
  BY DEF PromiseInv, DocInv, Typed
<1>2. docs[t] # None => docs[t] \in Row
  BY <1>1 DEF TypeOK
<1> QED BY <1>1, <1>2, RowEdits DEF TxnInv, On, TypeOK, Step, Carries

\* A step of w on t leaves the invariant standing elsewhere, and on t once its
\* parts do that speak of w, of the row and of the uploads.
LEMMA WorkerMoves ==
  ASSUME DocInv, PromiseInv, OneAtATime, NEW w \in Worker, NEW t \in Txn, On(w, t),
         NEW s \in Step, pc' = [pc EXCEPT ![w] = s],
         \A v \in Worker \ {w} : copy'[v] = copy[v] /\ job'[v] = job[v] /\ answer'[v] = answer[v],
         s # "idle" => job'[w] = job[w], s # "wait" => answer'[w] = None,
         \A u \in Txn \ {t} : docs'[u] = docs[u] /\ Uploads(u)' = Uploads(u),
         dgii' = dgii, UNCHANGED readerVars, UNCHANGED pollVars,
         Recorded(docs'[t], Held(t), Uploads(t)'),
         Polled(batch[t], docs'[t], Held(t), Uploads(t)'),
         s # "idle" => Phase(s, copy'[w], answer'[w], docs'[t], Held(t), Uploads(t)'),
         \A m \in Uploads(t)' : m.from # None => m.from = w /\ s = "wait" /\ answer'[w] = None
  PROVE  PromiseInv'
<1>1. /\ rpc' = rpc /\ rcopy' = rcopy /\ rtxn' = rtxn /\ batch' = batch
      /\ \A u : Held(u)' = Held(u)
  BY DEF readerVars, pollVars, Held
<1>2. \A v \in Worker : pc'[v] = IF v = w THEN s ELSE pc[v]
  BY DEF DocInv, Typed, TypeOK
<1>3. job[w].txn = t /\ pc[w] # "idle"
  BY DEF On
<1>4. \A v \in Worker \ {w}, u \in Txn : (On(v, u)' <=> On(v, u)) /\ ~On(v, t)
  BY <1>2 DEF On, OneAtATime
<1>5. \A g \in Reader, u \in Txn : (Gets(g, u)' <=> Gets(g, u)) /\ ~Gets(g, t)
  BY <1>1 DEF Gets, OneAtATime
<1>6. \A u \in Txn : On(w, u)' => u = t /\ s # "idle"
  BY <1>2, <1>3 DEF On
<1>7. ASSUME NEW u \in Txn, u # t PROVE TxnInv(u)'
  <2>1. TxnInv(u) /\ docs'[u] = docs[u] /\ Uploads(u)' = Uploads(u) /\ ~On(w, u)
    BY <1>3, <1>7 DEF PromiseInv, On
  <2>2. Uploads(u) \subseteq Message
    BY HeldTyped
  <2>3. Awaited(u)'
    <3> SUFFICES ASSUME NEW m \in Uploads(u), m.from # None
        PROVE  On(m.from, u)' /\ pc'[m.from] = "wait" /\ answer'[m.from] = None
      BY <2>1 DEF Awaited
    <3>1. On(m.from, u) /\ pc[m.from] = "wait" /\ answer[m.from] = None
      BY <2>1 DEF TxnInv, Awaited
    <3>2. m.from \in Worker \ {w}
      BY <2>1, <2>2, <3>1 DEF Message
    <3> QED BY <1>2, <1>4, <3>1, <3>2
  <2>4. \A v \in Worker : On(v, u)' =>
          Phase(pc'[v], copy'[v], answer'[v], docs'[u], Held(u)', Uploads(u)')
    BY <1>1, <1>2, <1>4, <1>6, <1>7, <2>1 DEF TxnInv
  <2>5. \A g \in Reader : Gets(g, u)' => Read(rcopy'[g], docs'[u], Held(u)', Uploads(u)')
    BY <1>1, <1>5, <2>1 DEF TxnInv
  <2>6. /\ Recorded(docs'[u], Held(u)', Uploads(u)')
        /\ Polled(batch'[u], docs'[u], Held(u)', Uploads(u)')
    BY <1>1, <2>1 DEF TxnInv
  <2> QED BY <2>3, <2>4, <2>5, <2>6 DEF TxnInv
<1>8. TxnInv(t)'
  <2>1. Awaited(t)'
    <3> SUFFICES ASSUME NEW m \in Uploads(t)', m.from # None
        PROVE  On(m.from, t)' /\ pc'[m.from] = "wait" /\ answer'[m.from] = None
      BY DEF Awaited
    <3>1. m.from = w /\ s = "wait" /\ answer'[w] = None
      OBVIOUS
    <3> QED BY <1>2, <1>3, <3>1 DEF On
  <2>2. \A v \in Worker : On(v, t)' =>
          Phase(pc'[v], copy'[v], answer'[v], docs'[t], Held(t)', Uploads(t)')
    BY <1>1, <1>2, <1>4, <1>6
  <2>3. \A g \in Reader : ~Gets(g, t)'
    BY <1>5
  <2> QED BY <1>1, <2>1, <2>2, <2>3 DEF TxnInv
<1>9. \A v \in Worker : Quiet(v)'
  BY <1>2 DEF PromiseInv, Quiet
<1> QED BY <1>7, <1>8, <1>9 DEF PromiseInv

\* A step of w between two transactions: it touches nothing but its own state.
LEMMA ThinkMoves ==
  ASSUME DocInv, PromiseInv, OneAtATime, NEW w \in Worker, NEW t \in Txn, On(w, t),
         NEW s \in Step, pc' = [pc EXCEPT ![w] = s],
         \A v \in Worker \ {w} : copy'[v] = copy[v] /\ job'[v] = job[v] /\ answer'[v] = answer[v],
         s # "idle" => job'[w] = job[w], s # "wait" => answer'[w] = None,
         docs' = docs, wire' = wire, dgii' = dgii, UNCHANGED readerVars, UNCHANGED pollVars,
         pc[w] # "wait" \/ answer[w] # None,
         s # "idle" => Phase(s, copy'[w], answer'[w], docs[t], Held(t), Uploads(t))
  PROVE  PromiseInv'
<1>1. \A u : Uploads(u)' = Uploads(u)
  BY DEF Uploads
<1>2. TxnInv(t)
  BY DEF PromiseInv
<1>3. \A m \in Uploads(t) : m.from = None
  <2> SUFFICES ASSUME NEW m \in Uploads(t), m.from # None PROVE FALSE
    OBVIOUS
  <2>1. On(m.from, t) /\ pc[m.from] = "wait" /\ answer[m.from] = None /\ m.from \in Worker
    BY <1>2, HeldTyped DEF TxnInv, Awaited, Message
  <2>2. m.from = w
    BY <2>1 DEF OneAtATime
  <2> QED BY <2>1, <2>2
<1> QED BY <1>1, <1>2, <1>3, WorkerMoves DEF TxnInv

\* w saves a row of t; no pass of the reconciler has the invoice in its batch.
LEMMA SaveMoves ==
  ASSUME DocInv, PromiseInv, OneAtATime, NEW w \in Worker, NEW t \in Txn, On(w, t),
         NEW s \in Step, pc' = [pc EXCEPT ![w] = s], pc[w] # "wait",
         \A v \in Worker \ {w} : copy'[v] = copy[v] /\ job'[v] = job[v] /\ answer'[v] = answer[v],
         s # "idle" => job'[w] = job[w], s # "wait" => answer'[w] = None,
         NEW row \in Row, docs' = [docs EXCEPT ![t] = row],
         wire' = wire, dgii' = dgii, UNCHANGED readerVars, UNCHANGED pollVars,
         ~Is(docs[t], {"Signed"}),
         Recorded(row, Held(t), Uploads(t)),
         s # "idle" => Phase(s, copy'[w], answer'[w], row, Held(t), Uploads(t))
  PROVE  PromiseInv'
<1>1. \A u : Uploads(u)' = Uploads(u)
  BY DEF Uploads
<1>2. TxnInv(t)
  BY DEF PromiseInv
<1>3. \A m \in Uploads(t) : m.from = None
  <2> SUFFICES ASSUME NEW m \in Uploads(t), m.from # None PROVE FALSE
    OBVIOUS
  <2>1. On(m.from, t) /\ pc[m.from] = "wait" /\ m.from \in Worker
    BY <1>2, HeldTyped DEF TxnInv, Awaited, Message
  <2>2. m.from = w
    BY <2>1 DEF OneAtATime
  <2> QED BY <2>1, <2>2
<1>4. docs'[t] = row /\ \A u \in Txn \ {t} : docs'[u] = docs[u]
  BY DEF DocInv, Typed, TypeOK
<1>5. batch[t] = None
  BY <1>2 DEF TxnInv, Polled
<1> QED BY ZenonT(30), <1>1, <1>3, <1>4, <1>5, WorkerMoves DEF Polled
-----------------------------------------------------------------------------
(* POST.                                                                   *)

\* What submit, or the loser of an insert race, does with the row it found.
LEMMA ExistingPhase ==
  ASSUME NEW w \in Worker, NEW d \in Row, NEW e \in Edit, NEW H, NEW U,
         HandleExisting(w, d, e), Recorded(d, H, U)
  PROVE  \E s, r :
           /\ s \in Step \ {"idle"}
           /\ pc' = [pc EXCEPT ![w] = s] /\ copy' = [copy EXCEPT ![w] = r] /\ answer' = answer
           /\ \A a : Phase(s, r, a, d, H, U)
<1>1. d # None /\ Sound(d, H, U)
  BY DocumentAssumption DEF Recorded
<1>2. CASE d.st \in NeverTransmittedStates /\ Goto(w, "saveContent", WithContent(d, e))
  <2>1. /\ WithContent(d, e).encf = d.encf /\ WithContent(d, e).track = d.track
        /\ WithContent(d, e).st = "SequenceAllocated"
    BY DEF WithContent, Row
  <2>2. \A a : Phase("saveContent", WithContent(d, e), a, d, H, U)
    BY <1>1, <1>2, <2>1 DEF Phase, Is, Sound, Sends
  <2> QED BY <1>2, <2>2 DEF Goto, Step
<1>3. CASE d.st \in {"Uncertain", "AwaitingTransmission"} /\ Goto(w, "query", d)
  <2>1. ~d.fresh
    BY <1>3 DEF HandleExisting, AnsweredAsIs
  <2>2. \A a : Phase("query", d, a, d, H, U)
    BY <1>1, <1>3, <2>1 DEF Phase, Is, Doubtful, Sends
  <2> QED BY <1>3, <2>2 DEF Goto, Step
<1>4. CASE d.st = "RejectedByDgii" /\ Goto(w, "reallocate", d)
  <2>1. \A a : Phase("reallocate", d, a, d, H, U)
    BY <1>1, <1>4 DEF Phase, Is, Sends
  <2> QED BY <1>4, <2>1 DEF Goto, Step
<1> QED BY <1>2, <1>3, <1>4 DEF HandleExisting

LEMMA SubmitPromise ==
  ASSUME DocInv, PromiseInv, NEW w \in Worker, NEW t \in Txn, NEW e \in Edit, Submit(w, t, e)
  PROVE  PromiseInv'
<1>1. /\ pc[w] = "idle" /\ job' = [job EXCEPT ![w] = [txn |-> t, edit |-> e]]
      /\ docs' = docs /\ wire' = wire /\ dgii' = dgii /\ batch' = batch
      /\ rpc' = rpc /\ rcopy' = rcopy /\ rtxn' = rtxn
  BY DEF Submit, dbVars, dgiiVars, readerVars, pollVars
<1>2. /\ \A u : Held(u)' = Held(u) /\ Uploads(u)' = Uploads(u)
      /\ \A g \in Reader, u \in Txn : Gets(g, u)' <=> Gets(g, u)
  BY <1>1 DEF Held, Uploads, Gets
<1>t. TypeOK /\ TxnInv(t)
  BY DEF DocInv, Typed, PromiseInv
<1>3. PICK s, r :
        /\ s \in Step \ {"idle"}
        /\ pc' = [pc EXCEPT ![w] = s] /\ copy' = [copy EXCEPT ![w] = r] /\ answer' = answer
        /\ \A a : Phase(s, r, a, docs[t], Held(t), Uploads(t))
  <2>1. CASE docs[t] = None
    <3>1. \A a : Phase("allocate", None, a, docs[t], Held(t), Uploads(t))
      BY DEF Phase, Sends
    <3> QED BY <2>1, <3>1 DEF Submit, Goto, Step
  <2>2. CASE docs[t] # None
    <3>1. docs[t] \in Row /\ HandleExisting(w, docs[t], e)
      BY <1>t, <2>2 DEF TypeOK, Submit
    <3> QED BY <1>t, <3>1, ExistingPhase DEF TxnInv
  <2> QED BY <2>1, <2>2
<1>4. \A v \in Worker : /\ pc'[v] = IF v = w THEN s ELSE pc[v]
                        /\ copy'[v] = IF v = w THEN r ELSE copy[v]
                        /\ v # w => job'[v] = job[v]
                        /\ v = w => job'[v].txn = t
  BY <1>1, <1>3, <1>t DEF TypeOK
<1>q. \A v \in Worker : Quiet(v)'
  BY <1>1, <1>3, <1>4 DEF PromiseInv, Quiet
<1> SUFFICES ASSUME NEW u \in Txn PROVE TxnInv(u)'
  BY <1>q DEF PromiseInv
<1>5. TxnInv(u)
  BY DEF PromiseInv
<1>6. Awaited(u)'
  <2> SUFFICES ASSUME NEW m \in Uploads(u), m.from # None
      PROVE  On(m.from, u)' /\ pc'[m.from] = "wait" /\ answer'[m.from] = None
    BY <1>2 DEF Awaited
  <2>1. /\ On(m.from, u) /\ pc[m.from] = "wait" /\ answer[m.from] = None
        /\ m.from \in Worker
    BY <1>5, HeldTyped DEF TxnInv, Awaited, Message
  <2> QED BY <1>1, <1>3, <1>4, <2>1 DEF On
<1>7. ASSUME NEW v \in Worker, On(v, u)'
      PROVE  Phase(pc'[v], copy'[v], answer'[v], docs'[u], Held(u)', Uploads(u)')
  <2>1. CASE v = w
    BY <1>1, <1>2, <1>3, <1>4, <1>7, <2>1 DEF On
  <2>2. CASE v # w
    BY <1>1, <1>2, <1>3, <1>4, <1>5, <1>7, <2>2 DEF On, TxnInv
  <2> QED BY <2>1, <2>2
<1> QED BY <1>1, <1>2, <1>5, <1>6, <1>7 DEF TxnInv

LEMMA Gone ==
  ASSUME DocInv, NEW w \in Worker, NEW s, NEW r,
         Return(w) \/ (Goto(w, s, r) /\ job' = job)
  PROVE  /\ \A v \in Worker \ {w} :
              copy'[v] = copy[v] /\ job'[v] = job[v] /\ answer'[v] = answer[v]
         /\ Return(w) => pc' = [pc EXCEPT ![w] = "idle"] /\ answer'[w] = None
         /\ Goto(w, s, r) => pc' = [pc EXCEPT ![w] = s] /\ copy'[w] = r /\ answer' = answer
BY DEF DocInv, Typed, TypeOK, Return, Goto

\* w saves row and goes on, or is done.
LEMMA SaveThen ==
  ASSUME DocInv, PromiseInv, OneAtATime, NEW w \in Worker, NEW t \in Txn, On(w, t),
         pc[w] # "wait", NEW row \in Row, docs' = [docs EXCEPT ![t] = row],
         ~Is(docs[t], {"Signed"}), Recorded(row, Held(t), Uploads(t)),
         wire' = wire, dgii' = dgii, UNCHANGED readerVars, UNCHANGED pollVars,
         \/ Return(w)
         \/ \E s \in Step \ {"idle"}, r \in Row \cup {None} :
              /\ Goto(w, s, r) /\ job' = job
              /\ Phase(s, r, answer[w], row, Held(t), Uploads(t))
  PROVE  PromiseInv'
<1>1. CASE Return(w)
  <2>1. /\ pc' = [pc EXCEPT ![w] = "idle"] /\ answer'[w] = None
        /\ \A v \in Worker \ {w} :
             copy'[v] = copy[v] /\ job'[v] = job[v] /\ answer'[v] = answer[v]
    BY <1>1, Gone
  <2> QED BY <2>1, SaveMoves DEF Step
<1>2. ASSUME NEW s \in Step \ {"idle"}, NEW r \in Row \cup {None}, Goto(w, s, r), job' = job,
             Phase(s, r, answer[w], row, Held(t), Uploads(t))
      PROVE  PromiseInv'
  <2>1. /\ pc' = [pc EXCEPT ![w] = s] /\ copy'[w] = r /\ answer' = answer /\ job' = job
        /\ answer[w] = None
        /\ \A v \in Worker \ {w} :
             copy'[v] = copy[v] /\ job'[v] = job[v] /\ answer'[v] = answer[v]
    BY <1>2, Gone DEF PromiseInv, Quiet
  <2>2. Phase(s, copy'[w], answer'[w], row, Held(t), Uploads(t))
    BY <1>2, <2>1
  <2> QED BY <2>1, <2>2, SaveMoves
<1> QED BY <1>1, <1>2

\* w goes on, or is done, without a save.
LEMMA ThinkThen ==
  ASSUME DocInv, PromiseInv, OneAtATime, NEW w \in Worker, NEW t \in Txn, On(w, t),
         pc[w] # "wait", docs' = docs,
         wire' = wire, dgii' = dgii, UNCHANGED readerVars, UNCHANGED pollVars,
         \/ Return(w)
         \/ \E s, r :
              /\ s \in Step \ {"idle"}
              /\ Goto(w, s, r) /\ job' = job
              /\ Phase(s, r, answer[w], docs[t], Held(t), Uploads(t))
  PROVE  PromiseInv'
<1>1. CASE Return(w)
  <2>1. /\ pc' = [pc EXCEPT ![w] = "idle"] /\ answer'[w] = None
        /\ \A v \in Worker \ {w} :
             copy'[v] = copy[v] /\ job'[v] = job[v] /\ answer'[v] = answer[v]
    BY <1>1, Gone
  <2> QED BY <2>1, ThinkMoves DEF Step
<1>2. ASSUME NEW s \in Step \ {"idle"}, NEW r, Goto(w, s, r), job' = job,
             Phase(s, r, answer[w], docs[t], Held(t), Uploads(t))
      PROVE  PromiseInv'
  <2>1. /\ pc' = [pc EXCEPT ![w] = s] /\ copy'[w] = r /\ answer' = answer /\ job' = job
        /\ answer[w] = None
        /\ \A v \in Worker \ {w} :
             copy'[v] = copy[v] /\ job'[v] = job[v] /\ answer'[v] = answer[v]
    BY <1>2, Gone DEF PromiseInv, Quiet
  <2>2. Phase(s, copy'[w], answer'[w], docs[t], Held(t), Uploads(t))
    BY <1>2, <2>1
  <2> QED BY <2>1, <2>2, ThinkMoves
<1> QED BY <1>1, <1>2

LEMMA AllocatePromise ==
  ASSUME DocInv, PromiseInv, OneAtATime, NEW w \in Worker, NEW t \in Txn, On(w, t), Allocate(w)
  PROVE  PromiseInv'
<1>1. /\ pc[w] \in {"allocate", "reallocate"} /\ job' = job /\ answer' = answer
      /\ docs' = docs /\ wire' = wire /\ dgii' = dgii
      /\ UNCHANGED readerVars /\ UNCHANGED pollVars
  BY DEF Allocate, Goto, dgiiVars
<1>2. CASE pc[w] = "allocate"
  <2> DEFINE r == NewRow(seq', job[w].edit)
  <2>1. pc' = [pc EXCEPT ![w] = "insert"] /\ copy' = [copy EXCEPT ![w] = r]
    BY <1>2 DEF Allocate, Goto
  <2>2. r.st = "SequenceAllocated" /\ r.track = None /\ r.fresh
    BY DEF NewRow
  <2> HIDE DEF r
  <2>3. Goto(w, "insert", r)
    BY <1>1, <2>1 DEF Goto
  <2>4. Phase("insert", r, answer[w], docs[t], Held(t), Uploads(t))
    BY <2>2 DEF Phase, Sends
  <2> QED BY <1>1, <2>3, <2>4, ThinkThen DEF Step
<1>3. CASE pc[w] = "reallocate"
  <2> DEFINE r == ReissuedRow(copy[w], seq', job[w].edit)
  <2>1. pc' = [pc EXCEPT ![w] = "saveReissue"] /\ copy' = [copy EXCEPT ![w] = r]
    BY <1>3 DEF Allocate, Goto
  <2>2. copy[w] \in Row
    BY <1>3, Now DEF Empty
  <2>3. r.st = "SequenceAllocated" /\ r.track = None /\ r.encf = seq'
    BY <2>2 DEF ReissuedRow, WithContent, Row
  <2> HIDE DEF r
  <2>4. Goto(w, "saveReissue", r)
    BY <1>1, <2>1 DEF Goto
  <2>5. Is(docs[t], {"RejectedByDgii"}) /\ docs[t] # None
    BY <1>3, Now DEF Phase, Is
  <2>6. seq' > docs[t].encf
    <3>1. docs[t].encf \in Encf /\ docs[t].encf <= seq /\ seq \in Nat
      <4>1. docs[t].encf \in Encf
        BY <2>5, Now
      <4>2. Below(docs[t].encf, t) /\ TypeOK
        BY <4>1 DEF DocInv, Numbered, Typed
      <4>3. Claims(docs[t].encf, t)
        BY <2>5 DEF Claims
      <4> QED BY <4>1, <4>2, <4>3, CounterBounds DEF Below
    <3> QED BY <3>1 DEF Allocate, NextNumber, Lifted, Encf
  <2>7. Phase("saveReissue", r, answer[w], docs[t], Held(t), Uploads(t))
    BY <2>3, <2>5, <2>6 DEF Phase, Sends
  <2> QED BY <1>1, <2>4, <2>7, ThinkThen DEF Step
<1> QED BY <1>1, <1>2, <1>3

LEMMA FreshRow ==
  ASSUME NEW r \in Row
  PROVE  LET f == [r EXCEPT !.fresh = TRUE]
         IN /\ f \in Row /\ f # None /\ f.fresh
            /\ f.encf = r.encf /\ f.edit = r.edit /\ f.track = r.track /\ f.st = r.st
            /\ \A H, U : Sound(r, H, U) => Sound(f, H, U)
<1> DEFINE f == [r EXCEPT !.fresh = TRUE]
<1>1. /\ f \in Row /\ f.fresh
      /\ f.encf = r.encf /\ f.edit = r.edit /\ f.track = r.track /\ f.st = r.st
  BY DEF Row
<1>2. f # None
  BY <1>1, DocumentAssumption
<1> HIDE DEF f
<1>3. \A H, U : Sound(r, H, U) => Sound(f, H, U)
  BY <1>1 DEF Sound
<1>4. /\ f \in Row /\ f # None /\ f.fresh
      /\ f.encf = r.encf /\ f.edit = r.edit /\ f.track = r.track /\ f.st = r.st
      /\ \A H, U : Sound(r, H, U) => Sound(f, H, U)
  BY <1>1, <1>2, <1>3
<1> QED BY <1>4 DEF f

LEMMA InsertPromise ==
  ASSUME DocInv, PromiseInv, OneAtATime, NEW w \in Worker, NEW t \in Txn, On(w, t), Insert(w)
  PROVE  PromiseInv'
<1>1. /\ pc[w] = "insert" /\ job' = job /\ wire' = wire /\ dgii' = dgii /\ job[w].txn = t
      /\ UNCHANGED readerVars /\ UNCHANGED pollVars
  BY DEF Insert, dgiiVars, On
<1>2. /\ copy[w] \in Row /\ copy[w].st = "SequenceAllocated" /\ copy[w].track = None
      /\ copy[w].fresh /\ copy[w] # None /\ copy[w].encf \in Encf
      /\ Recorded(docs[t], Held(t), Uploads(t))
  BY <1>1, Now, DocumentAssumption DEF Phase, Empty, TxnInv
<1>3. CASE /\ docs[t] = None /\ docs' = [docs EXCEPT ![t] = copy[w]]
           /\ Goto(w, "sign", copy[w])
  <2>1. Uploads(t) = {} /\ \A k \in Encf : Held(t)[k] = None
    BY <1>2, <1>3 DEF Recorded
  <2>2. Sound(copy[w], Held(t), Uploads(t)) /\ Numbers(copy[w].encf, Held(t), Uploads(t))
    BY <1>2, <2>1 DEF Sound, Numbers, Untouched
  <2>3. /\ Recorded(copy[w], Held(t), Uploads(t))
        /\ Phase("sign", copy[w], answer[w], copy[w], Held(t), Uploads(t))
    BY <1>2, <2>2 DEF Recorded, Phase, Is, Same, Sends
  <2>4. ~Is(docs[t], {"Signed"}) /\ "sign" \in Step \ {"idle"} /\ pc[w] # "wait"
    BY <1>1, <1>3 DEF Is, Step
  <2> QED BY <1>1, <1>2, <1>3, <2>3, <2>4, SaveThen
<1>4. CASE docs' = docs /\ \E s \in {"releaseLost", "releaseFailed"} : Goto(w, s, copy[w])
  <2>1. PICK s \in {"releaseLost", "releaseFailed"} : Goto(w, s, copy[w])
    BY <1>4
  <2>2. Phase(s, copy[w], answer[w], docs[t], Held(t), Uploads(t)) /\ s \in Step
    BY DEF Phase, Sends, Step
  <2> QED BY <1>1, <1>4, <2>1, <2>2, ThinkThen DEF Step
<1> QED BY <1>1, <1>3, <1>4 DEF Insert

LEMMA SaveReissuePromise ==
  ASSUME DocInv, PromiseInv, OneAtATime, NEW w \in Worker, NEW t \in Txn, On(w, t),
         SaveReissue(w)
  PROVE  PromiseInv'
<1>1. /\ pc[w] = "saveReissue" /\ job' = job /\ wire' = wire /\ dgii' = dgii /\ job[w].txn = t
      /\ UNCHANGED readerVars /\ UNCHANGED pollVars
  BY DEF SaveReissue, dgiiVars, On
<1>2. /\ copy[w] \in Row /\ copy[w].st = "SequenceAllocated" /\ copy[w].track = None
      /\ copy[w].encf \in Encf /\ docs[t].encf \in Encf /\ copy[w].encf > docs[t].encf
      /\ docs[t] # None /\ docs[t].st = "RejectedByDgii"
      /\ Recorded(docs[t], Held(t), Uploads(t))
  BY <1>1, Now DEF Phase, Empty, TxnInv, Is
<1>3. CASE Update(t, copy[w]) /\ Goto(w, "sign", copy[w])
  <2> DEFINE f == [copy[w] EXCEPT !.fresh = TRUE]
             n == copy[w].encf
  <2>1. /\ f \in Row /\ f # None /\ f.fresh
        /\ f.encf = n /\ f.edit = copy[w].edit /\ f.st = copy[w].st
        /\ \A H, U : Sound(copy[w], H, U) => Sound(f, H, U)
    BY <1>2, FreshRow
  <2>2. docs' = [docs EXCEPT ![t] = f]
    BY <1>3 DEF Update
  <2> HIDE DEF f
  <2>3. /\ Uploads(t) = {}
        /\ \A k \in Encf : Held(t)[k] # None =>
             k <= docs[t].encf /\ Held(t)[k].st = "Rechazado"
    BY <1>2 DEF Recorded, Sound, Numbers, Encf
  <2>4. \A k \in Encf : Held(t)[k] # None => k < n /\ Held(t)[k].st = "Rechazado"
    BY <1>2, <2>3 DEF Encf
  <2>5. Held(t)[n] = None
    BY <1>2, <2>4 DEF Encf
  <2>6. Sound(copy[w], Held(t), Uploads(t)) /\ Numbers(n, Held(t), Uploads(t))
    BY <1>2, <2>3, <2>4, <2>5 DEF Sound, Numbers, Untouched
  <2>7. /\ Recorded(f, Held(t), Uploads(t))
        /\ Phase("sign", copy[w], answer[w], f, Held(t), Uploads(t))
    BY <1>2, <2>1, <2>6 DEF Recorded, Phase, Is, Same, Sends
  <2>8. ~Is(docs[t], {"Signed"}) /\ "sign" \in Step \ {"idle"} /\ pc[w] # "wait"
    BY <1>1, <1>2 DEF Is, Step
  <2> QED BY <1>1, <1>2, <1>3, <2>1, <2>2, <2>7, <2>8, SaveThen
<1>4. CASE docs' = docs /\ Goto(w, "releaseFailed", copy[w])
  <2>1. Phase("releaseFailed", copy[w], answer[w], docs[t], Held(t), Uploads(t))
    BY DEF Phase, Sends
  <2> QED BY <1>1, <1>4, <2>1, ThinkThen DEF Step
<1> QED BY <1>1, <1>3, <1>4 DEF SaveReissue

LEMMA ReleasePromise ==
  ASSUME DocInv, PromiseInv, OneAtATime, NEW w \in Worker, NEW t \in Txn, On(w, t),
         ReleaseNumber(w)
  PROVE  PromiseInv'
<1>1. /\ pc[w] \in {"releaseLost", "releaseFailed"} /\ docs' = docs /\ wire' = wire
      /\ dgii' = dgii /\ UNCHANGED readerVars /\ UNCHANGED pollVars
      /\ (Goto(w, "refetch", None) /\ job' = job) \/ Return(w)
  BY DEF ReleaseNumber, dgiiVars
<1>2. Phase("refetch", None, answer[w], docs[t], Held(t), Uploads(t))
  BY DEF Phase, Sends
<1>3. CASE Goto(w, "refetch", None) /\ job' = job
  BY <1>1, <1>2, <1>3, ThinkThen DEF Step
<1>4. CASE Return(w)
  BY <1>1, <1>4, ThinkThen DEF Step
<1> QED BY <1>1, <1>3, <1>4

LEMMA RefetchPromise ==
  ASSUME DocInv, PromiseInv, OneAtATime, NEW w \in Worker, NEW t \in Txn, On(w, t),
         Refetch(w)
  PROVE  PromiseInv'
<1>1. /\ pc[w] = "refetch" /\ docs' = docs /\ wire' = wire /\ dgii' = dgii /\ job[w].txn = t
      /\ UNCHANGED readerVars /\ UNCHANGED pollVars
      /\ job[w].edit \in Edit /\ TxnInv(t)
  BY Now DEF Refetch, dbVars, dgiiVars, Job
<1>2. CASE docs[t] # None /\ HandleExisting(w, docs[t], job[w].edit) /\ job' = job
  <2>1. docs[t] \in Row /\ Recorded(docs[t], Held(t), Uploads(t))
    BY <1>1, <1>2, Now DEF TxnInv
  <2>2. PICK s, r :
          /\ s \in Step \ {"idle"}
          /\ pc' = [pc EXCEPT ![w] = s] /\ copy' = [copy EXCEPT ![w] = r] /\ answer' = answer
          /\ \A a : Phase(s, r, a, docs[t], Held(t), Uploads(t))
    BY <1>1, <1>2, <2>1, ExistingPhase
  <2>3. Goto(w, s, r)
    BY <2>2 DEF Goto
  <2> QED BY <1>1, <1>2, <2>2, <2>3, ThinkThen
<1>3. CASE Return(w)
  BY <1>1, <1>3, ThinkThen
<1> QED BY <1>1, <1>2, <1>3 DEF Refetch

\* DGII's word on a number of t is on t.
LEMMA EstadoIs ==
  ASSUME DocInv, NEW t \in Txn, NEW n \in Encf, Claims(n, t)
  PROVE  IF Held(t)[n] = None THEN Estado(n) = "No encontrado"
         ELSE /\ Estado(n) = Held(t)[n].st
              /\ Estado(n) \in {"En Proceso", "Aceptado", "Rechazado"}
<1>1. dgii[n] = Held(t)[n] /\ Held(t)[n] \in Verdict \cup {None}
  BY HeldTyped
<1>2. CASE Held(t)[n] = None
  BY <1>1, <1>2 DEF Estado
<1>3. CASE Held(t)[n] # None
  <2>1. Estado(n) = Held(t)[n].st /\ Held(t)[n] \in Verdict
    BY <1>1, <1>3 DEF Estado
  <2>2. Held(t)[n].st \in {"En Proceso", "Aceptado", "Rechazado"}
    BY <2>1 DEF Verdict
  <2> QED BY <1>3, <2>1, <2>2
<1> QED BY <1>2, <1>3

LEMMA QueryPromise ==
  ASSUME ~StrayEstado, DocInv, PromiseInv, OneAtATime,
         NEW w \in Worker, NEW t \in Txn, On(w, t), QueryStatus(w)
  PROVE  PromiseInv'
<1> DEFINE row == copy[w]
           n == row.encf
<1>1. /\ pc[w] = "query" /\ job' = job /\ docs' = docs /\ wire' = wire /\ dgii' = dgii
      /\ UNCHANGED readerVars /\ UNCHANGED pollVars
  BY DEF QueryStatus, dbVars, dgiiVars
<1>2. /\ row \in Row /\ n \in Encf /\ docs[t] # None /\ docs[t].st \in Doubtful
      /\ ~docs[t].fresh /\ row = docs[t] /\ Recorded(docs[t], Held(t), Uploads(t))
  BY <1>1, Now DEF Phase, Is, Empty, TxnInv
<1>3. Claims(n, t) /\ Sound(row, Held(t), Uploads(t)) /\ Uploads(t) = {}
  BY <1>2 DEF Claims, Recorded
<1>4. PICK estado \in Estados(n) :
        \/ /\ estado \notin NotFound
           /\ \E k \in Tracks(row) :
                Goto(w, "saveQueried", [row EXCEPT !.track = k, !.sent = TRUE,
                                                   !.st = StateOf(estado)])
        \/ /\ estado \in NotFound
           /\ Goto(w, "saveContent", WithContent(row, job[w].edit))
  BY DEF QueryStatus
<1>5. estado = Estado(n)
  BY <1>4 DEF Estados
<1>6. CASE /\ estado \notin NotFound
           /\ \E k \in Tracks(row) :
                Goto(w, "saveQueried", [row EXCEPT !.track = k, !.sent = TRUE,
                                                   !.st = StateOf(estado)])
  <2>1. PICK k \in Tracks(row) :
          Goto(w, "saveQueried", [row EXCEPT !.track = k, !.sent = TRUE, !.st = StateOf(estado)])
    BY <1>6
  <2> DEFINE r == [row EXCEPT !.track = k, !.sent = TRUE, !.st = StateOf(estado)]
  <2>2. r.encf = n /\ r.edit = row.edit /\ r.track = k /\ r.st = StateOf(estado)
    BY <1>2 DEF Row
  <2>3. k \in {None, n}
    BY <1>3 DEF Tracks, Sound
  <2>4. Held(t)[n] # None /\ Held(t)[n].st = estado
        /\ estado \in {"En Proceso", "Aceptado", "Rechazado"}
    BY <1>2, <1>3, <1>5, <1>6, EstadoIs DEF NotFound
  <2>5. /\ StateOf(estado) = "AcceptedByDgii" => estado = "Aceptado"
        /\ StateOf(estado) = "RejectedByDgii" => estado = "Rechazado"
        /\ StateOf(estado) \notin NeverTransmittedStates
    BY DEF StateOf, NeverTransmittedStates
  <2> HIDE DEF r
  <2>6. Sound(r, Held(t), Uploads(t))
    BY <1>3, <2>2, <2>3, <2>4, <2>5 DEF Sound
  <2>7. Phase("saveQueried", r, answer[w], docs[t], Held(t), Uploads(t))
    BY <1>2, <2>2, <2>6 DEF Phase, Is, Same, Sends
  <2>8. Goto(w, "saveQueried", r) /\ "saveQueried" \in Step \ {"idle"} /\ pc[w] # "wait"
    BY <1>1, <2>1 DEF r, Step
  <2> QED BY <1>1, <2>7, <2>8, ThinkThen
<1>7. CASE estado \in NotFound /\ Goto(w, "saveContent", WithContent(row, job[w].edit))
  <2> DEFINE r == WithContent(row, job[w].edit)
  <2>1. r.encf = n /\ r.track = row.track /\ r.st = "SequenceAllocated"
    BY <1>2 DEF Row, WithContent
  <2>2. Held(t)[n] = None
    BY <1>2, <1>3, <1>5, <1>7, EstadoIs DEF NotFound
  <2> HIDE DEF r
  <2>3. Phase("saveContent", r, answer[w], docs[t], Held(t), Uploads(t))
    BY <1>2, <1>3, <2>1, <2>2 DEF Phase, Is, Sound, Untouched, Sends
  <2>4. Goto(w, "saveContent", r) /\ "saveContent" \in Step \ {"idle"} /\ pc[w] # "wait"
    BY <1>1, <1>7 DEF r, Step
  <2> QED BY <1>1, <2>3, <2>4, ThinkThen
<1> QED BY <1>4, <1>6, <1>7

\* A row that keeps its number and is sound may be saved.
LEMMA SameNumber ==
  ASSUME NEW d, NEW r \in Row, NEW H, NEW U,
         d # None, Recorded(d, H, U), r.encf = d.encf, Sound(r, H, U)
  PROVE  LET f == [r EXCEPT !.fresh = TRUE]
         IN /\ Recorded(f, H, U) /\ f \in Row /\ f # None /\ f.fresh
            /\ f.encf = r.encf /\ f.edit = r.edit /\ f.st = r.st
<1> DEFINE f == [r EXCEPT !.fresh = TRUE]
<1>1. /\ f \in Row /\ f # None /\ f.fresh
      /\ f.encf = r.encf /\ f.edit = r.edit /\ f.st = r.st /\ Sound(f, H, U)
  BY FreshRow
<1> HIDE DEF f
<1>2. Recorded(f, H, U)
  BY <1>1 DEF Recorded
<1>3. /\ Recorded(f, H, U) /\ f \in Row /\ f # None /\ f.fresh
      /\ f.encf = r.encf /\ f.edit = r.edit /\ f.st = r.st
  BY <1>1, <1>2
<1> QED BY <1>3 DEF f

LEMMA SaveAndEndPromise ==
  ASSUME DocInv, PromiseInv, OneAtATime, NEW w \in Worker, NEW t \in Txn, On(w, t),
         SaveQueried(w) \/ SaveOutcome(w)
  PROVE  PromiseInv'
<1> DEFINE f == [copy[w] EXCEPT !.fresh = TRUE]
<1>1. /\ pc[w] \in {"saveQueried", "saveOutcome"} /\ Return(w) /\ wire' = wire /\ dgii' = dgii
      /\ UNCHANGED readerVars /\ UNCHANGED pollVars /\ docs' = [docs EXCEPT ![t] = f]
  BY DEF SaveQueried, SaveOutcome, dgiiVars, Update, On
<1>2. /\ copy[w] \in Row /\ docs[t] # None /\ ~Is(docs[t], {"Signed"})
      /\ Recorded(docs[t], Held(t), Uploads(t)) /\ copy[w].encf = docs[t].encf
      /\ Sound(copy[w], Held(t), Uploads(t))
  BY <1>1, Now DEF Phase, Is, Same, Empty, TxnInv, Doubtful, Sends
<1>3. f \in Row /\ Recorded(f, Held(t), Uploads(t))
  BY <1>2, SameNumber
<1> QED BY <1>1, <1>2, <1>3, SaveThen

LEMMA SaveContentPromise ==
  ASSUME DocInv, PromiseInv, OneAtATime, NEW w \in Worker, NEW t \in Txn, On(w, t),
         SaveContent(w)
  PROVE  PromiseInv'
<1> DEFINE f == [copy[w] EXCEPT !.fresh = TRUE]
<1>1. /\ pc[w] = "saveContent" /\ Goto(w, "sign", copy[w]) /\ job' = job
      /\ wire' = wire /\ dgii' = dgii
      /\ UNCHANGED readerVars /\ UNCHANGED pollVars /\ docs' = [docs EXCEPT ![t] = f]
  BY DEF SaveContent, dgiiVars, Update, On
<1>2. /\ copy[w] \in Row /\ docs[t] # None /\ ~Is(docs[t], {"Signed"})
      /\ Recorded(docs[t], Held(t), Uploads(t)) /\ copy[w].encf = docs[t].encf
      /\ copy[w].track \in {None, copy[w].encf} /\ copy[w].st = "SequenceAllocated"
      /\ Untouched(copy[w].encf, Held(t), Uploads(t))
  BY <1>1, Now DEF Phase, Is, Empty, TxnInv, Doubtful, NeverTransmittedStates
<1>3. Uploads(t) = {}
  BY <1>2 DEF Recorded, Numbers, Untouched
<1>4. Sound(copy[w], Held(t), Uploads(t))
  BY <1>2, <1>3 DEF Sound, Untouched
<1>5. /\ f \in Row /\ Recorded(f, Held(t), Uploads(t)) /\ f # None
      /\ f.encf = copy[w].encf /\ f.edit = copy[w].edit /\ f.st = copy[w].st
  BY <1>2, <1>4, SameNumber
<1> HIDE DEF f
<1>6. Phase("sign", copy[w], answer[w], f, Held(t), Uploads(t)) /\ "sign" \in Step \ {"idle"}
  BY <1>2, <1>4, <1>5 DEF Phase, Is, Same, Sends, Step
<1> QED BY <1>1, <1>2, <1>5, <1>6, SaveThen

LEMMA SignPromise ==
  ASSUME DocInv, PromiseInv, OneAtATime, NEW w \in Worker, NEW t \in Txn, On(w, t), Sign(w)
  PROVE  PromiseInv'
<1>1. /\ pc[w] = "sign" /\ wire' = wire /\ dgii' = dgii /\ job[w].txn = t
      /\ UNCHANGED readerVars /\ UNCHANGED pollVars
  BY DEF Sign, dgiiVars, On
<1>2. /\ copy[w] \in Row /\ docs[t] # None /\ ~Is(docs[t], {"Signed"})
      /\ Recorded(docs[t], Held(t), Uploads(t)) /\ copy[w].encf = docs[t].encf
      /\ copy[w].st = "SequenceAllocated" /\ Sound(copy[w], Held(t), Uploads(t))
  BY <1>1, Now DEF Phase, Is, Same, Empty, TxnInv
<1>3. Untouched(copy[w].encf, Held(t), Uploads(t))
  BY <1>2 DEF Sound, NeverTransmittedStates
<1>4. ASSUME NEW st \in SignFailure \cup {"AwaitingTransmission"}
      PROVE  LET r == [copy[w] EXCEPT !.st = st]
             IN /\ r \in Row /\ r.encf = copy[w].encf /\ r.edit = copy[w].edit /\ r.st = st
                /\ Sound(r, Held(t), Uploads(t))
  <2> DEFINE r == [copy[w] EXCEPT !.st = st]
  <2>1. /\ st \in State /\ st # "AcceptedByDgii" /\ st # "RejectedByDgii"
    BY <1>4, DocumentAssumption DEF State, PollableStates, NeverTransmittedStates
  <2>2. /\ r \in Row /\ r.encf = copy[w].encf /\ r.edit = copy[w].edit /\ r.st = st
        /\ r.track = copy[w].track
    BY <1>2, <2>1 DEF Row
  <2> HIDE DEF r
  <2>3. Sound(r, Held(t), Uploads(t))
    BY <1>2, <1>3, <2>1, <2>2 DEF Sound
  <2>4. /\ r \in Row /\ r.encf = copy[w].encf /\ r.edit = copy[w].edit /\ r.st = st
        /\ Sound(r, Held(t), Uploads(t))
    BY <2>2, <2>3
  <2> QED BY <2>4 DEF r
<1>5. ASSUME NEW st \in SignFailure, Update(t, [copy[w] EXCEPT !.st = st]), Return(w)
      PROVE  PromiseInv'
  <2> DEFINE r == [copy[w] EXCEPT !.st = st]
             f == [r EXCEPT !.fresh = TRUE]
  <2>1. r \in Row /\ r.encf = docs[t].encf /\ Sound(r, Held(t), Uploads(t))
    BY <1>2, <1>4
  <2>2. docs' = [docs EXCEPT ![t] = f]
    BY <1>5 DEF Update
  <2> HIDE DEF r
  <2>3. f \in Row /\ Recorded(f, Held(t), Uploads(t))
    BY <1>2, <2>1, SameNumber
  <2> QED BY <1>1, <1>2, <1>5, <2>2, <2>3, SaveThen
<1>6. ASSUME Update(t, [copy[w] EXCEPT !.st = "AwaitingTransmission"]), job' = job,
             Goto(w, "send", [copy[w] EXCEPT !.st = "AwaitingTransmission"])
      PROVE  PromiseInv'
  <2> DEFINE r == [copy[w] EXCEPT !.st = "AwaitingTransmission"]
             f == [r EXCEPT !.fresh = TRUE]
  <2>1. /\ r \in Row /\ r.encf = docs[t].encf /\ r.encf = copy[w].encf
        /\ r.st = "AwaitingTransmission" /\ Sound(r, Held(t), Uploads(t))
    BY <1>2, <1>4
  <2>2. docs' = [docs EXCEPT ![t] = f] /\ Goto(w, "send", r)
    BY <1>6 DEF Update
  <2> HIDE DEF r
  <2>3. /\ f \in Row /\ Recorded(f, Held(t), Uploads(t)) /\ f # None /\ f.fresh
        /\ f.encf = r.encf /\ f.edit = r.edit /\ f.st = r.st
    BY <1>2, <2>1, SameNumber
  <2> HIDE DEF f
  <2>4. Phase("send", r, answer[w], f, Held(t), Uploads(t)) /\ "send" \in Step \ {"idle"}
    BY <1>3, <2>1, <2>3 DEF Phase, Is, Same, Sends, Step
  <2> QED BY <1>1, <1>2, <1>6, <2>1, <2>2, <2>3, <2>4, SaveThen
<1> QED BY <1>1, <1>5, <1>6 DEF Sign

LEMMA SendPromise ==
  ASSUME DocInv, PromiseInv, OneAtATime, NEW w \in Worker, NEW t \in Txn, On(w, t), Send(w)
  PROVE  PromiseInv'
<1> DEFINE m0 == [encf |-> copy[w].encf, txn |-> t, edit |-> copy[w].edit, from |-> w]
<1>1. /\ pc[w] = "send" /\ Goto(w, "wait", copy[w]) /\ job' = job /\ docs' = docs
      /\ dgii' = dgii /\ wire' = wire \cup {m0}
      /\ UNCHANGED readerVars /\ UNCHANGED pollVars
  BY DEF Send, dbVars, On
<1>2. /\ m0.encf = copy[w].encf /\ m0.txn = t /\ m0.edit = copy[w].edit /\ m0.from = w
  OBVIOUS
<1> HIDE DEF m0
<1>3. /\ copy[w] \in Row /\ copy[w].encf \in Encf /\ docs[t] # None /\ docs[t].fresh
      /\ docs[t].st = "AwaitingTransmission"
      /\ Recorded(docs[t], Held(t), Uploads(t)) /\ copy[w].encf = docs[t].encf
      /\ copy[w].edit = docs[t].edit
      /\ Sound(copy[w], Held(t), Uploads(t)) /\ Untouched(copy[w].encf, Held(t), Uploads(t))
      /\ Polled(batch[t], docs[t], Held(t), Uploads(t)) /\ answer[w] = None
  BY <1>1, Now DEF Phase, Is, Same, Empty, TxnInv, Sends, PromiseInv, Quiet
<1>4. Uploads(t) = {}
  BY <1>3 DEF Recorded, Numbers, Untouched
<1>5. Uploads(t)' = {m0} /\ \A u \in Txn \ {t} : Uploads(u)' = Uploads(u)
  BY <1>1, <1>2, <1>4 DEF Uploads
<1>6. Held(t)[docs[t].encf] = None
  BY <1>3 DEF Untouched
<1>7. Sound(docs[t], Held(t), {m0}) /\ Numbers(docs[t].encf, Held(t), {m0})
  BY <1>2, <1>3, <1>6 DEF Recorded, Sound, Numbers, NeverTransmittedStates
<1>8. Recorded(docs[t], Held(t), {m0})
  BY <1>3, <1>7 DEF Recorded
<1>9. Phase("wait", copy[w], answer[w], docs[t], Held(t), {m0})
  <2>1. /\ answer[w] \notin {"trackId", "Aceptado", "Rechazado", "error"}
        /\ copy[w].track \in {None, copy[w].encf}
    BY <1>3, NoneAssumption DEF Sound
  <2> QED BY <1>3, <2>1 DEF Phase, Is, Same, Sends
<1>10. batch[t] = None
  BY <1>3 DEF Polled, Is
<1>11. /\ pc' = [pc EXCEPT ![w] = "wait"] /\ copy'[w] = copy[w] /\ answer' = answer
       /\ \A v \in Worker \ {w} :
            copy'[v] = copy[v] /\ job'[v] = job[v] /\ answer'[v] = answer[v]
  BY <1>1, Gone
<1> QED BY ZenonT(30), <1>1, <1>2, <1>3, <1>5, <1>8, <1>9, <1>10, <1>11, WorkerMoves DEF Polled, Step

LEMMA TakePromise ==
  ASSUME DocInv, PromiseInv, OneAtATime, NEW w \in Worker, NEW t \in Txn, On(w, t),
         TakeAnswer(w)
  PROVE  PromiseInv'
<1> DEFINE a == answer[w]
           r == Outcome(copy[w], a)
           s == IF a = "trackId" THEN "consult" ELSE "saveOutcome"
           n == copy[w].encf
<1>1. /\ pc[w] = "wait" /\ a # None /\ pc' = [pc EXCEPT ![w] = s] /\ job' = job
      /\ copy' = [copy EXCEPT ![w] = r] /\ answer' = [answer EXCEPT ![w] = None]
      /\ docs' = docs /\ wire' = wire /\ dgii' = dgii
      /\ UNCHANGED readerVars /\ UNCHANGED pollVars
  BY DEF TakeAnswer, dbVars, dgiiVars
<1>2. /\ a \in {"trackId", "Aceptado", "Rechazado", "error"}
      /\ copy'[w] = r /\ answer'[w] = None
      /\ \A v \in Worker \ {w} : copy'[v] = copy[v] /\ answer'[v] = answer[v]
  BY <1>1 DEF DocInv, Typed, TypeOK
<1>3. /\ copy[w] \in Row /\ n \in Encf /\ docs[t] # None /\ docs[t].fresh
      /\ docs[t].st = "AwaitingTransmission"
      /\ Recorded(docs[t], Held(t), Uploads(t)) /\ n = docs[t].encf
      /\ copy[w].edit = docs[t].edit /\ copy[w].track \in {None, n}
      /\ a = "error" => Untouched(n, Held(t), Uploads(t))
      /\ a = "trackId" => Held(t)[n] # None
      /\ a \in {"Aceptado", "Rechazado"} => Held(t)[n] # None /\ Held(t)[n].st = a
  BY <1>1, Now DEF Phase, Is, Same, Empty, TxnInv, Sends
<1>4. /\ Held(t)[n] # None => Held(t)[n].edit = copy[w].edit
      /\ \A m \in Uploads(t) : m.edit = copy[w].edit /\ m.encf = n /\ Held(t)[n] = None
  BY <1>3 DEF Recorded, Sound, Numbers
<1>5. Uploads(t) = {}
  BY <1>2, <1>3, <1>4 DEF Untouched
<1>6. /\ r.encf = n /\ r.edit = copy[w].edit
      /\ r.track \in {None, n}
      /\ a = "trackId" => r.st = "Signed" /\ r.track = n
      /\ a = "Aceptado" => r.st = "AcceptedByDgii"
      /\ a \in {"Rechazado", "error"} => r.st = "RejectedByDgii"
  BY <1>2, <1>3 DEF Outcome, Row
<1> HIDE DEF r
<1>7. Sound(r, Held(t), Uploads(t))
  BY <1>2, <1>3, <1>4, <1>5, <1>6 DEF Sound, NeverTransmittedStates, Untouched
<1>8. Phase(s, r, None, docs[t], Held(t), Uploads(t)) /\ s \in Step \ {"idle", "wait"}
  BY <1>3, <1>6, <1>7 DEF Phase, Is, Same, Sends, Step
<1> HIDE DEF s
<1> QED BY ZenonT(30), <1>1, <1>2, <1>8, ThinkMoves

LEMMA ConsultPromise ==
  ASSUME DocInv, PromiseInv, OneAtATime, NEW w \in Worker, NEW t \in Txn, On(w, t), Consult(w)
  PROVE  PromiseInv'
<1> DEFINE n == copy[w].encf
<1>1. /\ pc[w] = "consult" /\ job' = job /\ docs' = docs /\ wire' = wire /\ dgii' = dgii
      /\ UNCHANGED readerVars /\ UNCHANGED pollVars
  BY DEF Consult, dbVars, dgiiVars
<1>2. /\ copy[w] \in Row /\ n \in Encf /\ docs[t] # None /\ docs[t].fresh
      /\ docs[t].st = "AwaitingTransmission"
      /\ Recorded(docs[t], Held(t), Uploads(t)) /\ n = docs[t].encf
      /\ copy[w].edit = docs[t].edit /\ copy[w].track = n /\ Held(t)[n] # None
      /\ Sound(copy[w], Held(t), Uploads(t))
  BY <1>1, Now DEF Phase, Is, Same, Empty, TxnInv, Sends
<1>3. Uploads(t) = {}
  BY <1>2 DEF Recorded, Numbers
<1>4. Claims(n, t)
  BY <1>2 DEF Claims
<1>5. Estado(n) = Held(t)[n].st
  BY <1>2, <1>4, EstadoIs
<1>6. ASSUME NEW r, r.encf = n, r.edit = copy[w].edit, Sound(r, Held(t), Uploads(t)),
             Goto(w, "saveOutcome", r)
      PROVE  PromiseInv'
  <2>1. Phase("saveOutcome", r, answer[w], docs[t], Held(t), Uploads(t))
    BY <1>2, <1>6 DEF Phase, Is, Same, Sends
  <2> QED BY <1>1, <1>6, <2>1, ThinkThen DEF Step
<1>7. CASE Goto(w, "saveOutcome", copy[w])
  BY <1>2, <1>6, <1>7
<1>8. CASE /\ Estado(n) \in {"Aceptado", "Rechazado"}
           /\ Goto(w, "saveOutcome", [copy[w] EXCEPT !.st = StateOf(Estado(n))])
  <2> DEFINE r == [copy[w] EXCEPT !.st = StateOf(Estado(n))]
  <2>1. r.encf = n /\ r.edit = copy[w].edit /\ r.track = n /\ r.st = StateOf(Estado(n))
    BY <1>2 DEF Row
  <2>2. /\ r.st = "AcceptedByDgii" => Held(t)[n].st = "Aceptado"
        /\ r.st = "RejectedByDgii" => Held(t)[n].st = "Rechazado"
        /\ r.st \notin NeverTransmittedStates
    BY <1>5, <1>8, <2>1 DEF StateOf, NeverTransmittedStates
  <2> HIDE DEF r
  <2>3. Sound(r, Held(t), Uploads(t))
    BY <1>2, <1>3, <2>1, <2>2 DEF Sound
  <2>4. Goto(w, "saveOutcome", r)
    BY <1>8 DEF r
  <2> QED BY <1>6, <2>1, <2>3, <2>4
<1> QED BY <1>2, <1>7, <1>8 DEF Consult

LEMMA SoundWithFewer ==
  ASSUME NEW r, NEW H, NEW U, NEW V,
         \A x \in V : \E m \in U : x.encf = m.encf /\ x.edit = m.edit,
         Sound(r, H, U)
  PROVE  Sound(r, H, V)
<1>1. \A n : Untouched(n, H, U) => Untouched(n, H, V)
  BY DEF Untouched
<1>2. U = {} => V = {}
  OBVIOUS
<1>3. \A m \in V : m.edit = r.edit
  BY DEF Sound
<1> QED BY <1>1, <1>2, <1>3 DEF Sound

\* Nobody else waits for an upload of t, so none is waited for once w is gone.
LEMMA Disowns ==
  ASSUME DocInv, PromiseInv, OneAtATime, NEW w \in Worker, NEW t \in Txn, On(w, t),
         wire' = Disowned(w), docs' = docs
  PROVE  /\ \A u \in Txn \ {t} : Uploads(u)' = Uploads(u)
         /\ \A x \in Uploads(t)' :
              x.from = None /\ \E m \in Uploads(t) : x.encf = m.encf /\ x.edit = m.edit
         /\ Recorded(docs[t], Held(t), Uploads(t)')
<1> DEFINE F(m) == [m EXCEPT !.from = IF @ = w THEN None ELSE @]
<1>1. TxnInv(t) /\ wire \subseteq Message
  BY DEF PromiseInv, DocInv, Typed, TypeOK
<1>2. wire' = {F(m) : m \in wire}
  BY DEF Disowned
<1>3. ASSUME NEW m \in wire
      PROVE  /\ F(m).encf = m.encf /\ F(m).txn = m.txn /\ F(m).edit = m.edit
             /\ m.from = w => F(m).from = None
             /\ m.from # w => F(m) = m
  BY <1>1 DEF Message
<1>4. ASSUME NEW m \in wire, m.from # None
      PROVE  On(m.from, m.txn) /\ m.from \in Worker
  <2>1. m.txn \in Txn /\ m \in Uploads(m.txn) /\ m.from \in Worker
    BY <1>1, <1>4 DEF Uploads, Message
  <2>2. TxnInv(m.txn)
    BY <2>1 DEF PromiseInv
  <2> QED BY <1>4, <2>1, <2>2 DEF TxnInv, Awaited
<1> HIDE DEF F
<1>5. ASSUME NEW u \in Txn \ {t} PROVE Uploads(u)' = Uploads(u)
  <2>1. \A m \in wire : m.txn = u => F(m) = m
    BY ZenonT(30), <1>3, <1>4, NoneAssumption DEF On
  <2> QED BY <1>2, <1>3, <2>1 DEF Uploads
<1>6. ASSUME NEW x \in Uploads(t)'
      PROVE  x.from = None /\ \E m \in Uploads(t) : x = F(m) /\ x.encf = m.encf /\ x.edit = m.edit
  <2>1. PICK m \in wire : x = F(m) /\ m.txn = t
    BY <1>2, <1>3 DEF Uploads
  <2>2. m \in Uploads(t) /\ x.encf = m.encf /\ x.edit = m.edit
    BY <1>3, <2>1 DEF Uploads
  <2>3. m.from # None => m.from = w
    BY <1>4, <2>1 DEF OneAtATime
  <2>4. x.from = None
    BY <1>3, <2>1, <2>3
  <2> QED BY <2>1, <2>2, <2>4
<1>7. Recorded(docs[t], Held(t), Uploads(t)')
  <2> DEFINE d == docs[t]
             H == Held(t)
             U == Uploads(t)
             V == Uploads(t)'
  <2>1. Recorded(d, H, U) /\ \A x \in V : \E m \in U : x = F(m) /\ x.encf = m.encf /\ x.edit = m.edit
    BY <1>1, <1>6 DEF TxnInv
  <2> SUFFICES Recorded(d, H, V)
    OBVIOUS
  <2> HIDE DEF d, H, U, V
  <2>2. U = {} => V = {}
    BY <2>1
  <2>3. CASE d = None
    BY <2>1, <2>2, <2>3 DEF Recorded
  <2>4. CASE d # None
    <3>1. Sound(d, H, U) /\ Numbers(d.encf, H, U) /\ (~d.fresh => U = {})
      BY <2>1, <2>4 DEF Recorded
    <3>2. Sound(d, H, V)
      BY <2>1, <3>1, SoundWithFewer
    <3>3. Numbers(d.encf, H, V)
      BY <2>1, <3>1 DEF Numbers
    <3> QED BY <2>2, <2>4, <3>1, <3>2, <3>3 DEF Recorded
  <2> QED BY <2>3, <2>4
<1> QED BY <1>5, <1>6, <1>7

LEMMA UncertainPromise ==
  ASSUME DocInv, PromiseInv, OneAtATime, NEW w \in Worker, NEW t \in Txn, On(w, t),
         SendUncertain(w)
  PROVE  PromiseInv'
<1> DEFINE r == [copy[w] EXCEPT !.st = "Uncertain"]
           n == copy[w].encf
<1>1. /\ pc[w] = "wait" /\ pc' = [pc EXCEPT ![w] = "saveOutcome"] /\ job' = job
      /\ copy' = [copy EXCEPT ![w] = r] /\ answer' = [answer EXCEPT ![w] = None]
      /\ docs' = docs /\ wire' = Disowned(w) /\ dgii' = dgii
      /\ UNCHANGED readerVars /\ UNCHANGED pollVars
  BY DEF SendUncertain, dbVars
<1>2. /\ copy'[w] = r /\ answer'[w] = None
      /\ \A v \in Worker \ {w} : copy'[v] = copy[v] /\ answer'[v] = answer[v]
  BY <1>1 DEF DocInv, Typed, TypeOK
<1>3. /\ copy[w] \in Row /\ n \in Encf /\ docs[t] # None /\ docs[t].fresh
      /\ docs[t].st = "AwaitingTransmission" /\ n = docs[t].encf
      /\ copy[w].edit = docs[t].edit /\ copy[w].track \in {None, n}
      /\ Polled(batch[t], docs[t], Held(t), Uploads(t))
  BY <1>1, Now DEF Phase, Is, Same, Empty, TxnInv, Sends
<1>4. /\ \A u \in Txn \ {t} : Uploads(u)' = Uploads(u)
      /\ \A x \in Uploads(t)' : x.from = None
      /\ Recorded(docs[t], Held(t), Uploads(t)')
  BY <1>1, Disowns
<1>5. /\ r.encf = n /\ r.edit = copy[w].edit /\ r.track = copy[w].track /\ r.st = "Uncertain"
  BY <1>3 DEF Row
<1> HIDE DEF r
<1>6. Sound(docs[t], Held(t), Uploads(t)')
  BY <1>3, <1>4 DEF Recorded
<1>7. Sound(r, Held(t), Uploads(t)')
  BY <1>3, <1>5, <1>6 DEF Sound, NeverTransmittedStates
<1>8. Phase("saveOutcome", r, None, docs[t], Held(t), Uploads(t)')
  BY <1>3, <1>5, <1>7 DEF Phase, Is, Same, Sends
<1>9. batch[t] = None
  BY <1>3 DEF Polled, Is
<1>10. /\ Polled(batch[t], docs'[t], Held(t), Uploads(t)')
       /\ \A m \in Uploads(t)' :
            m.from # None => m.from = w /\ "saveOutcome" = "wait" /\ answer'[w] = None
       /\ Recorded(docs'[t], Held(t), Uploads(t)')
       /\ Phase("saveOutcome", copy'[w], answer'[w], docs'[t], Held(t), Uploads(t)')
  BY <1>1, <1>2, <1>4, <1>8, <1>9 DEF Polled
<1> QED BY <1>1, <1>2, <1>4, <1>10, WorkerMoves DEF Step

LEMMA AbortPromise ==
  ASSUME DocInv, PromiseInv, OneAtATime, NEW w \in Worker, NEW t \in Txn, On(w, t), Abort(w)
  PROVE  PromiseInv'
<1>1. /\ Return(w) /\ docs' = docs /\ wire' = Disowned(w) /\ dgii' = dgii
      /\ UNCHANGED readerVars /\ UNCHANGED pollVars
  BY DEF Abort, dbVars
<1>2. /\ pc' = [pc EXCEPT ![w] = "idle"] /\ answer'[w] = None
      /\ \A v \in Worker \ {w} :
           copy'[v] = copy[v] /\ job'[v] = job[v] /\ answer'[v] = answer[v]
  BY <1>1, Gone
<1>3. /\ \A u \in Txn \ {t} : Uploads(u)' = Uploads(u)
      /\ \A x \in Uploads(t)' :
           x.from = None /\ \E m \in Uploads(t) : x.encf = m.encf /\ x.edit = m.edit
      /\ Recorded(docs[t], Held(t), Uploads(t)')
  BY <1>1, Disowns
<1>4. Polled(batch[t], docs[t], Held(t), Uploads(t))
  BY DEF PromiseInv, TxnInv
<1>5. Polled(batch[t], docs[t], Held(t), Uploads(t)')
  BY <1>3, <1>4, SoundWithFewer DEF Polled
<1>6. /\ Polled(batch[t], docs'[t], Held(t), Uploads(t)')
      /\ \A m \in Uploads(t)' :
           m.from # None => m.from = w /\ "idle" = "wait" /\ answer'[w] = None
      /\ Recorded(docs'[t], Held(t), Uploads(t)')
      /\ \A u \in Txn \ {t} : docs'[u] = docs[u] /\ Uploads(u)' = Uploads(u)
  BY <1>1, <1>3, <1>5
<1> QED BY <1>1, <1>2, <1>6, WorkerMoves DEF Step

(* GET, the reconciler, DGII and time.                                     *)

\* A step that changes neither a thread of POST, nor the wire, nor DGII.
LEMMA OthersMove ==
  ASSUME DocInv, PromiseInv, UNCHANGED workerVars, wire' = wire, dgii' = dgii,
         \A u \in Txn :
           \/ docs'[u] = docs[u]
           \/ /\ Recorded(docs'[u], Held(u), Uploads(u))
              /\ \A w \in Worker : On(w, u) =>
                   Phase(pc[w], copy[w], answer[w], docs'[u], Held(u), Uploads(u)),
         \A u \in Txn : Polled(batch'[u], docs'[u], Held(u), Uploads(u)),
         \A u \in Txn, g \in Reader : Gets(g, u)' =>
           Read(rcopy'[g], docs'[u], Held(u), Uploads(u))
  PROVE  PromiseInv'
<1>1. /\ pc' = pc /\ copy' = copy /\ job' = job /\ answer' = answer
      /\ \A u : Held(u)' = Held(u) /\ Uploads(u)' = Uploads(u)
      /\ \A w, u : On(w, u)' <=> On(w, u)
  BY DEF workerVars, Held, Uploads, On
<1>2. \A w \in Worker : Quiet(w)'
  BY <1>1 DEF PromiseInv, Quiet
<1>3. ASSUME NEW u \in Txn PROVE TxnInv(u)'
  <2>1. TxnInv(u)
    BY DEF PromiseInv
  <2>2. Awaited(u)'
    BY <1>1, <2>1 DEF TxnInv, Awaited
  <2>3. /\ Recorded(docs'[u], Held(u), Uploads(u))
        /\ \A w \in Worker : On(w, u) =>
             Phase(pc[w], copy[w], answer[w], docs'[u], Held(u), Uploads(u))
    BY <2>1 DEF TxnInv
  <2> QED BY <1>1, <2>2, <2>3 DEF TxnInv
<1> QED BY <1>2, <1>3 DEF PromiseInv

\* A reader that has seen the row keeps it, or a verdict on it.
LEMMA ReadersMove ==
  ASSUME DocInv, PromiseInv, NEW g \in Reader, UNCHANGED workerVars, wire' = wire, dgii' = dgii,
         docs' = docs, batch' = batch,
         \A h \in Reader \ {g} : rpc'[h] = rpc[h] /\ rcopy'[h] = rcopy[h] /\ rtxn'[h] = rtxn[h],
         \A u \in Txn : Gets(g, u)' => Read(rcopy'[g], docs[u], Held(u), Uploads(u))
  PROVE  PromiseInv'
<1>1. \A u \in Txn, h \in Reader : Gets(h, u)' =>
        Read(rcopy'[h], docs'[u], Held(u), Uploads(u))
  BY DEF PromiseInv, TxnInv, Gets
<1>2. \A u \in Txn : Polled(batch'[u], docs'[u], Held(u), Uploads(u))
  BY DEF PromiseInv, TxnInv
<1> QED BY <1>1, <1>2, OthersMove

LEMMA ReadPromise ==
  ASSUME DocInv, PromiseInv, NEW g \in Reader, NEW t \in Txn, ReadDocument(g, t)
  PROVE  PromiseInv'
<1>1. /\ docs' = docs /\ wire' = wire /\ dgii' = dgii /\ batch' = batch
      /\ UNCHANGED workerVars /\ docs[t] # None /\ docs[t].st \in PollableStates
      /\ rpc' = [rpc EXCEPT ![g] = "query"] /\ rcopy' = [rcopy EXCEPT ![g] = docs[t]]
      /\ rtxn' = [rtxn EXCEPT ![g] = t]
  BY DEF ReadDocument, dbVars, dgiiVars, pollVars
<1>2. /\ rcopy'[g] = docs[t] /\ rtxn'[g] = t
      /\ \A h \in Reader \ {g} : rpc'[h] = rpc[h] /\ rcopy'[h] = rcopy[h] /\ rtxn'[h] = rtxn[h]
  BY <1>1 DEF DocInv, Typed, TypeOK
<1>3. Recorded(docs[t], Held(t), Uploads(t))
  BY DEF PromiseInv, TxnInv
<1>4. Read(rcopy'[g], docs[t], Held(t), Uploads(t))
  BY <1>1, <1>2, <1>3 DEF Read, Recorded, Same, Is
<1> QED BY <1>1, <1>2, <1>4, ReadersMove DEF Gets

LEMMA ReaderQueryPromise ==
  ASSUME DocInv, PromiseInv, NEW g \in Reader, ReaderQuery(g)
  PROVE  PromiseInv'
<1> DEFINE row == rcopy[g]
           n == row.encf
           t == rtxn[g]
<1>1. /\ docs' = docs /\ wire' = wire /\ dgii' = dgii /\ batch' = batch
      /\ UNCHANGED workerVars /\ rpc[g] = "query"
  BY DEF ReaderQuery, dbVars, dgiiVars, pollVars
<1>2. row \in Row /\ t \in Txn /\ n \in Encf /\ Gets(g, t)
  BY <1>1, Places, RowEdits DEF Gets
<1>3. /\ TxnInv(t) /\ Read(row, docs[t], Held(t), Uploads(t))
  BY <1>2 DEF PromiseInv, TxnInv
<1>4. /\ docs[t] # None /\ n = docs[t].encf /\ row.track \in {None, n}
      /\ Sound(row, Held(t), Uploads(t)) /\ Claims(n, t)
      /\ Is(docs[t], PollableStates) /\ Same(row, docs[t])
  BY <1>3 DEF Read, Same, Sound, Claims
<1>5. Held(t)[n] # None => Uploads(t) = {}
  BY <1>3, <1>4 DEF TxnInv, Recorded, Numbers
<1>6. PICK k \in {None, n} :
        /\ Estado(n) \notin NotFound
        /\ ReaderToSave(g, [row EXCEPT !.track = k, !.st = StateOf(Estado(n))])
  <2>1. CASE row.track # None
    <3>1. row.track = n
      BY <1>4, <2>1
    <3>2. [row EXCEPT !.st = StateOf(Estado(n))]
            = [row EXCEPT !.track = n, !.st = StateOf(Estado(n))]
      BY <1>2, <3>1 DEF Row
    <3>3. /\ Estado(n) \in {"Aceptado", "Rechazado"}
          /\ ReaderToSave(g, [row EXCEPT !.st = StateOf(Estado(n))])
      BY <2>1, <3>1 DEF ReaderQuery
    <3> QED BY <3>2, <3>3 DEF NotFound
  <2>2. CASE row.track = None
    BY <2>2 DEF ReaderQuery, Tracks
  <2> QED BY <2>1, <2>2
<1> DEFINE r == [row EXCEPT !.track = k, !.st = StateOf(Estado(n))]
<1>7. r.encf = n /\ r.edit = row.edit /\ r.track = k /\ r.st = StateOf(Estado(n))
  BY <1>2 DEF Row
<1>8. ReaderToSave(g, r)
  BY <1>6
<1> HIDE DEF r
<1>9. /\ Held(t)[n] # None
      /\ r.st = "AcceptedByDgii" => Held(t)[n].st = "Aceptado"
      /\ r.st = "RejectedByDgii" => Held(t)[n].st = "Rechazado"
      /\ r.st \notin NeverTransmittedStates
  BY <1>2, <1>4, <1>6, <1>7, EstadoIs DEF NotFound, StateOf, NeverTransmittedStates
<1>10. Sound(r, Held(t), Uploads(t))
  BY <1>4, <1>5, <1>6, <1>7, <1>9 DEF Sound
<1>11. Read(r, docs[t], Held(t), Uploads(t))
  BY <1>4, <1>7, <1>10 DEF Read, Same
<1>12. /\ rcopy'[g] = r /\ rtxn'[g] = t
       /\ \A h \in Reader \ {g} : rpc'[h] = rpc[h] /\ rcopy'[h] = rcopy[h] /\ rtxn'[h] = rtxn[h]
  BY <1>8 DEF ReaderToSave, DocInv, Typed, TypeOK
<1>13. \A u \in Txn : Gets(g, u)' => Read(rcopy'[g], docs[u], Held(u), Uploads(u))
  BY <1>11, <1>12 DEF Gets
<1> QED BY <1>1, <1>12, <1>13, ReadersMove

LEMMA ReaderEndPromise ==
  ASSUME DocInv, PromiseInv, OneAtATime, NEW g \in Reader, ReaderSave(g) \/ ReaderAbort(g)
  PROVE  PromiseInv'
<1> DEFINE row == rcopy[g]
           t == rtxn[g]
           f == [row EXCEPT !.fresh = TRUE]
<1>1. /\ wire' = wire /\ dgii' = dgii /\ batch' = batch /\ UNCHANGED workerVars
      /\ rpc[g] # "idle"
      /\ rpc' = [rpc EXCEPT ![g] = "idle"] /\ rcopy' = [rcopy EXCEPT ![g] = None]
      /\ rtxn' = [rtxn EXCEPT ![g] = None]
  BY DEF ReaderSave, ReaderAbort, dbVars, dgiiVars, pollVars, ReaderReturns
<1>2. /\ \A u \in Txn : ~Gets(g, u)'
      /\ \A h \in Reader \ {g} : rpc'[h] = rpc[h] /\ rcopy'[h] = rcopy[h] /\ rtxn'[h] = rtxn[h]
  BY <1>1 DEF Gets, DocInv, Typed, TypeOK
<1>3. CASE ReaderAbort(g)
  BY <1>1, <1>2, <1>3, ReadersMove DEF ReaderAbort, dbVars
<1>4. CASE ReaderSave(g)
  <2>1. row \in Row /\ t \in Txn /\ Gets(g, t)
    BY <1>1, Places DEF Gets
  <2>2. Read(row, docs[t], Held(t), Uploads(t)) /\ TxnInv(t)
    BY <2>1 DEF PromiseInv, TxnInv
  <2>3. docs' = [docs EXCEPT ![t] = f]
    BY <1>4 DEF ReaderSave, Update
  <2>4. Recorded(f, Held(t), Uploads(t))
    BY <2>1, <2>2, SameNumber DEF Read, Same, TxnInv
  <2>5. docs'[t] = f /\ \A u \in Txn \ {t} : docs'[u] = docs[u]
    BY <2>1, <2>3 DEF DocInv, Typed, TypeOK
  <2>6. /\ batch[t] = None /\ (\A w \in Worker : ~On(w, t))
        /\ \A h \in Reader \ {g} : ~Gets(h, t)
    BY <2>1 DEF OneAtATime
  <2>7. ASSUME NEW u \in Txn PROVE Polled(batch'[u], docs'[u], Held(u), Uploads(u))
    BY <1>1, <2>5, <2>6 DEF PromiseInv, TxnInv, Polled
  <2>8. ASSUME NEW u \in Txn, NEW h \in Reader, Gets(h, u)'
        PROVE  Read(rcopy'[h], docs'[u], Held(u), Uploads(u))
    <3>1. h # g /\ Gets(h, u) /\ rcopy'[h] = rcopy[h]
      BY <1>2, <2>8 DEF Gets
    <3> QED BY <2>5, <2>6, <3>1 DEF PromiseInv, TxnInv
  <2>9. ASSUME NEW u \in Txn
        PROVE  \/ docs'[u] = docs[u]
               \/ /\ Recorded(docs'[u], Held(u), Uploads(u))
                  /\ \A w \in Worker : On(w, u) =>
                       Phase(pc[w], copy[w], answer[w], docs'[u], Held(u), Uploads(u))
    BY <2>4, <2>5, <2>6
  <2> QED BY <1>1, <2>7, <2>8, <2>9, OthersMove
<1> QED BY <1>3, <1>4

\* A request that meets a Signed row has nothing to do with it.
LEMMA SignedPhase ==
  ASSUME NEW s \in Step \ {"idle"}, NEW r, NEW a, NEW d, NEW e, NEW H, NEW U,
         Is(d, {"Signed"}), Phase(s, r, a, d, H, U)
  PROVE  Phase(s, r, a, e, H, U)
<1>1. d # None /\ d.st = "Signed"
  BY DEF Is
<1>2. s \in {"allocate", "insert", "releaseLost", "releaseFailed", "refetch"}
  BY <1>1 DEF Phase, Is, Step, Sends, Doubtful, NeverTransmittedStates
<1> QED BY <1>2 DEF Phase, Sends

LEMMA PollPromise ==
  ASSUME DocInv, PromiseInv, OneAtATime, PollFetch \/ PollSave \/ PollAbort
  PROVE  PromiseInv'
<1>1. /\ wire' = wire /\ dgii' = dgii /\ UNCHANGED workerVars
      /\ rpc' = rpc /\ rcopy' = rcopy /\ rtxn' = rtxn
      /\ \A g \in Reader, u \in Txn : Gets(g, u)' <=> Gets(g, u)
  BY DEF PollFetch, PollSave, PollAbort, dgiiVars, readerVars, Gets
<1>2. CASE PollFetch
  <2>1. /\ docs' = docs /\ batch' = [u \in Txn |-> IF u \in Due THEN docs[u] ELSE None]
    BY <1>2 DEF PollFetch, dbVars
  <2>2. ASSUME NEW u \in Txn PROVE Polled(batch'[u], docs'[u], Held(u), Uploads(u))
    BY <2>1 DEF PromiseInv, TxnInv, Polled, Recorded, Due, Is, Same
  <2> QED BY <1>1, <2>1, <2>2, OthersMove DEF PromiseInv, TxnInv
<1>3. CASE PollAbort
  <2>1. docs' = docs /\ \A u \in Txn : batch'[u] = None
    BY <1>3 DEF PollAbort, PassOver, dbVars
  <2>2. ASSUME NEW u \in Txn PROVE Polled(batch'[u], docs'[u], Held(u), Uploads(u))
    BY <2>1 DEF Polled
  <2> QED BY <1>1, <2>1, <2>2, OthersMove DEF PromiseInv, TxnInv
<1>4. CASE PollSave
  <2>1. /\ \A u \in Txn : batch'[u] = None
        /\ docs' = [u \in Txn |-> IF u \in Fetched THEN [batch[u] EXCEPT !.fresh = TRUE]
                                                   ELSE docs[u]]
    BY <1>4 DEF PollSave, PassOver
  <2>2. ASSUME NEW u \in Txn, u \in Fetched
        PROVE  /\ Recorded(docs'[u], Held(u), Uploads(u)) /\ Is(docs[u], {"Signed"})
               /\ \A g \in Reader : ~Gets(g, u)
    <3>1. /\ batch[u] # None /\ batch[u] \in Row
          /\ Polled(batch[u], docs[u], Held(u), Uploads(u))
          /\ Recorded(docs[u], Held(u), Uploads(u))
      BY <2>2, Places DEF Fetched, PromiseInv, TxnInv
    <3>2. docs'[u] = [batch[u] EXCEPT !.fresh = TRUE]
      BY <2>1, <2>2
    <3>3. Recorded([batch[u] EXCEPT !.fresh = TRUE], Held(u), Uploads(u))
      BY <3>1, SameNumber DEF Polled, Same
    <3>4. \A g \in Reader : ~Gets(g, u)
      BY <3>1 DEF OneAtATime
    <3> QED BY <3>1, <3>2, <3>3, <3>4 DEF Polled
  <2>3. ASSUME NEW u \in Txn
        PROVE  \/ docs'[u] = docs[u]
               \/ /\ Recorded(docs'[u], Held(u), Uploads(u))
                  /\ \A w \in Worker : On(w, u) =>
                       Phase(pc[w], copy[w], answer[w], docs'[u], Held(u), Uploads(u))
    <3>1. CASE u \notin Fetched
      BY <2>1, <3>1
    <3>2. CASE u \in Fetched
      <4>1. ASSUME NEW w \in Worker, On(w, u)
            PROVE  Phase(pc[w], copy[w], answer[w], docs'[u], Held(u), Uploads(u))
        <5>1. /\ pc[w] \in Step \ {"idle"}
              /\ Phase(pc[w], copy[w], answer[w], docs[u], Held(u), Uploads(u))
          BY <4>1, Now
        <5> QED BY <2>2, <3>2, <5>1, SignedPhase
      <4> QED BY <2>2, <3>2, <4>1
    <3> QED BY <3>1, <3>2
  <2>4. \A u \in Txn : Polled(batch'[u], docs'[u], Held(u), Uploads(u))
    BY <2>1 DEF Polled
  <2>5. ASSUME NEW u \in Txn, NEW g \in Reader, Gets(g, u)'
        PROVE  Read(rcopy'[g], docs'[u], Held(u), Uploads(u))
    <3>1. Gets(g, u) /\ u \notin Fetched
      BY <1>1, <2>2, <2>5
    <3> QED BY <1>1, <2>1, <3>1 DEF PromiseInv, TxnInv
  <2> QED BY <1>1, <2>3, <2>4, <2>5, OthersMove
<1> QED BY <1>2, <1>3, <1>4

LEMMA CheckPromise ==
  ASSUME DocInv, PromiseInv, NEW t \in Txn, PollCheck(t) PROVE PromiseInv'
<1> DEFINE b == batch[t]
           n == b.encf
<1>1. /\ wire' = wire /\ dgii' = dgii /\ docs' = docs /\ UNCHANGED workerVars
      /\ rpc' = rpc /\ rcopy' = rcopy /\ rtxn' = rtxn
      /\ \A g \in Reader, u \in Txn : Gets(g, u)' <=> Gets(g, u)
      /\ b # None
  BY DEF PollCheck, dbVars, dgiiVars, readerVars, Gets, Fetched
<1>2. /\ b \in Row /\ n \in Encf /\ docs[t] # None
      /\ Is(docs[t], {"Signed"}) /\ Same(b, docs[t]) /\ Sound(b, Held(t), Uploads(t))
      /\ Recorded(docs[t], Held(t), Uploads(t)) /\ Claims(n, t)
  BY <1>1, Places, RowEdits DEF PromiseInv, TxnInv, Polled, Same, Claims
<1>3. PICK v \in Verdicts(b) : batch' = [batch EXCEPT ![t] = [b EXCEPT !.st = v]]
  BY DEF PollCheck
<1>4. /\ v \in {"RequiresManualReview", b.st, "AcceptedByDgii", "RejectedByDgii"}
      /\ v = "AcceptedByDgii" /\ v # b.st => Estado(n) = "Aceptado"
      /\ v = "RejectedByDgii" /\ v # b.st => Estado(n) = "Rechazado"
  <2>1. (IF b.track # None THEN b.track ELSE b.encf) = n
    BY <1>2 DEF Sound
  <2>2. v \in {"RequiresManualReview", b.st}
          \cup (IF Estado(n) \in {"Aceptado", "Rechazado"} THEN {StateOf(Estado(n))} ELSE {})
    BY <1>3, <2>1 DEF Verdicts
  <2> QED BY <2>2 DEF StateOf
<1> DEFINE r == [b EXCEPT !.st = v]
<1>5. r.encf = n /\ r.edit = b.edit /\ r.track = b.track /\ r.st = v
  BY <1>2 DEF Row
<1>6. batch'[t] = r /\ \A u \in Txn \ {t} : batch'[u] = batch[u]
  BY <1>3 DEF DocInv, Typed, TypeOK
<1> HIDE DEF r
<1>7. Held(t)[n] # None => Uploads(t) = {}
  BY <1>2 DEF Recorded, Numbers, Same
<1>8. Sound(r, Held(t), Uploads(t))
  <2>1. CASE v = b.st
    BY <1>2, <1>5, <2>1 DEF Sound
  <2>2. CASE v # b.st
    <3>1. /\ v = "AcceptedByDgii" => Held(t)[n] # None /\ Held(t)[n].st = "Aceptado"
          /\ v = "RejectedByDgii" => Held(t)[n] # None /\ Held(t)[n].st = "Rechazado"
          /\ v \notin NeverTransmittedStates
      BY <1>2, <1>4, <2>2, EstadoIs DEF NeverTransmittedStates
    <3> QED BY <1>2, <1>5, <1>7, <3>1 DEF Sound
  <2> QED BY <2>1, <2>2
<1>9. ASSUME NEW u \in Txn PROVE Polled(batch'[u], docs'[u], Held(u), Uploads(u))
  <2>1. CASE u = t
    BY <1>1, <1>2, <1>5, <1>6, <1>8, <2>1 DEF Polled, Same
  <2>2. CASE u # t
    BY <1>1, <1>6, <2>2 DEF PromiseInv, TxnInv
  <2> QED BY <2>1, <2>2
<1> QED BY <1>1, <1>9, OthersMove DEF PromiseInv, TxnInv

\* Two minutes after the last save nothing is on its way any more.
LEMMA TimePromise ==
  ASSUME ~LateDelivery, DocInv, PromiseInv, NEW t \in Txn, TwoMinutesPass(t)
  PROVE  PromiseInv'
<1> DEFINE d == docs[t]
           f == [d EXCEPT !.fresh = FALSE]
<1>1. /\ wire' = wire /\ dgii' = dgii /\ batch' = batch /\ UNCHANGED workerVars
      /\ rpc' = rpc /\ rcopy' = rcopy /\ rtxn' = rtxn
      /\ \A g \in Reader, u \in Txn : Gets(g, u)' <=> Gets(g, u)
      /\ d # None /\ d.fresh /\ ~Sending(t) /\ (\A m \in wire : m.txn # t)
      /\ docs' = [docs EXCEPT ![t] = f]
  BY DEF TwoMinutesPass, dgiiVars, readerVars, pollVars, Gets
<1>2. d \in Row /\ Uploads(t) = {}
  BY <1>1, Places DEF Uploads
<1>3. /\ f \in Row /\ f.encf = d.encf /\ f.edit = d.edit /\ f.track = d.track /\ f.st = d.st
  BY <1>2 DEF Row
<1>4. f # None
  BY <1>3, DocumentAssumption
<1>5. docs'[t] = f /\ \A u \in Txn \ {t} : docs'[u] = docs[u]
  BY <1>1 DEF DocInv, Typed, TypeOK
<1> HIDE DEF f
<1>6. Recorded(f, Held(t), Uploads(t))
  <2>1. Sound(d, Held(t), Uploads(t)) /\ Numbers(d.encf, Held(t), Uploads(t))
    BY <1>1 DEF PromiseInv, TxnInv, Recorded
  <2>2. Sound(f, Held(t), Uploads(t))
    BY <1>3, <2>1 DEF Sound
  <2> QED BY <1>2, <1>3, <1>4, <2>1, <2>2 DEF Recorded
<1>7. ASSUME NEW w \in Worker, On(w, t)
      PROVE  Phase(pc[w], copy[w], answer[w], f, Held(t), Uploads(t))
  <2>1. Phase(pc[w], copy[w], answer[w], d, Held(t), Uploads(t)) /\ job[w] \in Job
    BY <1>7, Now
  <2>2. pc[w] \notin Sends
    BY <1>1, <1>7, <2>1, NoneAssumption DEF Sending, On, Sends, Job
  <2> QED BY <1>1, <1>3, <1>4, <2>1, <2>2 DEF Phase, Is, Same, Sends
<1>8. ASSUME NEW u \in Txn PROVE Polled(batch'[u], docs'[u], Held(u), Uploads(u))
  BY <1>1, <1>3, <1>4, <1>5 DEF PromiseInv, TxnInv, Polled, Is, Same
<1>9. ASSUME NEW u \in Txn, NEW g \in Reader, Gets(g, u)'
      PROVE  Read(rcopy'[g], docs'[u], Held(u), Uploads(u))
  BY <1>1, <1>3, <1>4, <1>5, <1>9 DEF PromiseInv, TxnInv, Read, Is, Same
<1>10. ASSUME NEW u \in Txn
       PROVE  \/ docs'[u] = docs[u]
              \/ /\ Recorded(docs'[u], Held(u), Uploads(u))
                 /\ \A w \in Worker : On(w, u) =>
                      Phase(pc[w], copy[w], answer[w], docs'[u], Held(u), Uploads(u))
  BY <1>5, <1>6, <1>7
<1> QED BY <1>1, <1>8, <1>9, <1>10, OthersMove

\* DGII, or the wire, changes what there is of t.
LEMMA DgiiMoves ==
  ASSUME DocInv, PromiseInv, NEW t \in Txn, pc' = pc, copy' = copy, job' = job, docs' = docs,
         UNCHANGED readerVars, UNCHANGED pollVars,
         \A u \in Txn \ {t} : Held(u)' = Held(u) /\ Uploads(u)' = Uploads(u),
         \A w \in Worker : answer'[w] = answer[w] \/ (On(w, t) /\ pc[w] = "wait"),
         Uploads(t)' = {} \/ (Uploads(t)' \subseteq Uploads(t) /\ answer' = answer),
         Recorded(docs[t], Held(t)', Uploads(t)'),
         \A r : Same(r, docs[t]) /\ Sound(r, Held(t), Uploads(t))
                  => Sound(r, Held(t)', Uploads(t)'),
         \A w \in Worker : On(w, t) =>
           Phase(pc[w], copy[w], answer'[w], docs[t], Held(t)', Uploads(t)')
  PROVE  PromiseInv'
<1>1. /\ rpc' = rpc /\ rcopy' = rcopy /\ rtxn' = rtxn /\ batch' = batch
      /\ \A w, u : On(w, u)' <=> On(w, u)
      /\ \A g, u : Gets(g, u)' <=> Gets(g, u)
  BY DEF readerVars, pollVars, On, Gets
<1>2. \A w \in Worker : Quiet(w)'
  BY DEF PromiseInv, Quiet
<1>3. ASSUME NEW u \in Txn, u # t PROVE TxnInv(u)'
  <2>1. TxnInv(u) /\ Held(u)' = Held(u) /\ Uploads(u)' = Uploads(u)
    BY <1>3 DEF PromiseInv
  <2>2. \A w \in Worker : On(w, u) => answer'[w] = answer[w]
    BY <1>3 DEF On
  <2>3. \A m \in Uploads(u) : m.from # None => m.from \in Worker
    BY HeldTyped DEF Message
  <2>4. Awaited(u)'
    BY <1>1, <2>1, <2>2, <2>3 DEF TxnInv, Awaited
  <2> QED BY <1>1, <2>1, <2>2, <2>4 DEF TxnInv
<1>4. TxnInv(t)'
  <2>1. TxnInv(t)
    BY DEF PromiseInv
  <2>2. Awaited(t)'
    BY <1>1, <2>1 DEF TxnInv, Awaited
  <2>3. Polled(batch'[t], docs'[t], Held(t)', Uploads(t)')
    BY <1>1, <2>1 DEF TxnInv, Polled
  <2>4. \A g \in Reader : Gets(g, t)' => Read(rcopy'[g], docs'[t], Held(t)', Uploads(t)')
    BY <1>1, <2>1 DEF TxnInv, Read
  <2> QED BY <1>1, <2>2, <2>3, <2>4 DEF TxnInv
<1> QED BY <1>2, <1>3, <1>4 DEF PromiseInv

LEMMA LostPromise ==
  ASSUME DocInv, PromiseInv, NEW m \in wire, UploadLost(m) PROVE PromiseInv'
<1> DEFINE t == m.txn
           U == Uploads(t)
           V == Uploads(t)'
           H == Held(t)
           d == docs[t]
<1>1. /\ wire' = wire \ {m} /\ dgii' = dgii /\ docs' = docs /\ pc' = pc /\ copy' = copy
      /\ job' = job /\ answer' = answer
      /\ UNCHANGED readerVars /\ UNCHANGED pollVars
  BY DEF UploadLost, dbVars, workerVars
<1>2. t \in Txn
  BY DEF DocInv, Typed, TypeOK, Message
<1>3. /\ \A u : Held(u)' = Held(u)
      /\ \A u \in Txn \ {t} : Uploads(u)' = Uploads(u)
      /\ V \subseteq U
  BY <1>1 DEF Held, Uploads
<1>4. \A r : Sound(r, H, U) => Sound(r, H, V)
  BY <1>3, SoundWithFewer
<1>5. Recorded(d, H, U) /\ \A w \in Worker : On(w, t) => Phase(pc[w], copy[w], answer[w], d, H, U)
  BY <1>2 DEF PromiseInv, TxnInv
<1>6. \A n : Untouched(n, H, U) => Untouched(n, H, V)
  BY <1>3 DEF Untouched
<1>7. \A s, r, a : Phase(s, r, a, d, H, U) => Phase(s, r, a, d, H, V)
  BY <1>4, <1>6 DEF Phase
<1>8. Recorded(d, H, V)
  <2>1. \A n : Numbers(n, H, U) => Numbers(n, H, V)
    BY <1>3 DEF Numbers
  <2> QED BY <1>3, <1>4, <1>5, <2>1 DEF Recorded
<1> QED BY <1>1, <1>2, <1>3, <1>4, <1>5, <1>7, <1>8, DgiiMoves

\* An upload that reaches DGII was the only one of its invoice.
LEMMA ReceivedPhase ==
  ASSUME NEW s \in Step \ {"idle"}, NEW r, NEW a, NEW b, NEW d, NEW m, NEW H, NEW G,
         d # None, m.encf = d.encf, H[m.encf] = None, Recorded(d, H, {m}),
         Phase(s, r, a, d, H, {m}),
         \A x : Same(x, d) /\ Sound(x, H, {m}) => Sound(x, G, {}),
         \/ b = a
         \/ /\ b = "error" => G[m.encf] = None
            /\ b = "trackId" => G[m.encf] # None
            /\ b \in {"Aceptado", "Rechazado"} => G[m.encf] # None /\ G[m.encf].st = b
  PROVE  Phase(s, r, b, d, G, {})
<1>1. /\ Sound(d, H, {m}) /\ d.fresh
      /\ d.st # "RejectedByDgii" /\ d.st \notin NeverTransmittedStates
  BY DEF Recorded, Sound, Untouched
<1>2. \A n : n = m.encf => ~Untouched(n, H, {m})
  BY DEF Untouched
<1>3. s \notin {"reallocate", "saveReissue", "query", "saveQueried", "saveContent", "sign",
                "send", "consult"}
  BY <1>1, <1>2 DEF Phase, Is, Same, Sends, NeverTransmittedStates
<1>4. CASE s = "wait"
  <2>1. Same(r, d) /\ r.encf = m.encf /\ Is(d, {"AwaitingTransmission"})
    BY <1>4 DEF Phase, Same, Sends
  <2>2. a \notin {"error", "trackId", "Aceptado", "Rechazado"}
    BY <1>2, <1>4, <2>1 DEF Phase
  <2>3. /\ b = "error" => Untouched(r.encf, G, {})
        /\ b = "trackId" => G[r.encf] # None
        /\ b \in {"Aceptado", "Rechazado"} => G[r.encf] # None /\ G[r.encf].st = b
    BY <2>1, <2>2 DEF Untouched
  <2> QED BY <1>1, <1>4, <2>1, <2>3 DEF Phase, Sends
<1>5. CASE s = "saveOutcome"
  BY <1>1, <1>5 DEF Phase, Sends
<1>6. CASE s \in {"allocate", "insert", "releaseLost", "releaseFailed", "refetch"}
  BY <1>6 DEF Phase, Sends
<1> QED BY <1>3, <1>4, <1>5, <1>6 DEF Step

LEMMA ReceivePromise ==
  ASSUME DocInv, PromiseInv, NEW m \in wire, DgiiReceives(m) PROVE PromiseInv'
<1> DEFINE t == m.txn
           n == m.encf
           U == Uploads(t)
           H == Held(t)
           G == Held(t)'
           d == docs[t]
<1>1. /\ wire' = wire \ {m} /\ docs' = docs /\ pc' = pc /\ copy' = copy /\ job' = job
      /\ UNCHANGED readerVars /\ UNCHANGED pollVars
  BY DEF DgiiReceives, dbVars
<1>2. t \in Txn /\ n \in Encf /\ m \in Message /\ m \in U
  BY DEF DocInv, Typed, TypeOK, Message, Uploads
<1>3. TxnInv(t)
  BY <1>2 DEF PromiseInv
<1>4. /\ d # None /\ n = d.encf /\ H[n] = None /\ U = {m} /\ Recorded(d, H, {m})
  BY <1>2, <1>3 DEF TxnInv, Recorded, Numbers
<1>5. /\ Uploads(t)' = {}
      /\ \A u \in Txn \ {t} : Uploads(u)' = Uploads(u)
  BY <1>1, <1>4 DEF Uploads
<1>6. dgii[n] = None
  BY <1>2, <1>4, HeldTyped DEF Claims
<1>7. PICK a \in {"trackId", "Aceptado", "Rechazado", "error"} :
        /\ Answered(m, a)
        /\ \/ a = "error" /\ dgii' = dgii
           \/ \E s \in {"En Proceso", "Aceptado", "Rechazado"} :
                /\ dgii' = [dgii EXCEPT ![n] = [st |-> s, txn |-> t, edit |-> m.edit]]
                /\ a = "trackId" \/ a = s
  BY DEF DgiiReceives
<1>8. m.from # None => On(m.from, t) /\ pc[m.from] = "wait" /\ m.from \in Worker
  BY <1>2, <1>3 DEF TxnInv, Awaited, Message
<1>9. \A w \in Worker : answer'[w] = answer[w] \/ (On(w, t) /\ pc[w] = "wait" /\ answer'[w] = a)
  BY <1>7, <1>8 DEF Answered, DocInv, Typed, TypeOK
<1>10. /\ \A u \in Txn \ {t} : Held(u)' = Held(u)
       /\ \A k \in Encf \ {n} : G[k] = H[k]
       /\ a = "error" => G[n] = None
       /\ a # "error" => G[n] # None /\ G[n].edit = m.edit /\ (a = "trackId" \/ a = G[n].st)
  <2>1. CASE a = "error" /\ dgii' = dgii
    BY <1>2, <1>4, <2>1 DEF Held
  <2>2. CASE \E s \in {"En Proceso", "Aceptado", "Rechazado"} :
               /\ dgii' = [dgii EXCEPT ![n] = [st |-> s, txn |-> t, edit |-> m.edit]]
               /\ a = "trackId" \/ a = s
    <3>1. PICK s \in {"En Proceso", "Aceptado", "Rechazado"} :
               /\ dgii' = [dgii EXCEPT ![n] = [st |-> s, txn |-> t, edit |-> m.edit]]
               /\ a = "trackId" \/ a = s
      BY <2>2
    <3> DEFINE v == [st |-> s, txn |-> t, edit |-> m.edit]
    <3>a. m.edit \in Edit
      BY <1>2 DEF Message
    <3>b. v \in [st : {"En Proceso", "Aceptado", "Rechazado"}, txn : Txn, edit : Edit]
      BY <1>2, <3>a
    <3>2. v.txn = t /\ v.edit = m.edit /\ v.st = s /\ v # None
      BY <3>b, NoneAssumption
    <3>3. dgii' = [dgii EXCEPT ![n] = v] /\ dgii \in [Encf -> Verdict \cup {None}]
      BY <3>1 DEF DocInv, Typed, TypeOK, Verdict
    <3> HIDE DEF v
    <3>4. \A k \in Encf : dgii'[k] = IF k = n THEN v ELSE dgii[k]
      BY <3>3
    <3>5. ASSUME NEW u \in Txn \ {t} PROVE Held(u)' = Held(u)
      BY <1>6, <3>2, <3>4 DEF Held
    <3>6. \A k \in Encf \ {n} : G[k] = H[k]
      BY <3>4 DEF Held
    <3>7. G[n] = v
      BY <1>2, <3>2, <3>4 DEF Held
    <3> QED BY <3>1, <3>2, <3>5, <3>6, <3>7
  <2> QED BY <1>7, <2>1, <2>2
<1>11. \A r : Same(r, d) /\ Sound(r, H, {m}) => Sound(r, G, {})
  BY <1>4, <1>10 DEF Same, Sound, Untouched
<1>12. Recorded(d, G, {})
  <2>1. Sound(d, G, {})
    BY <1>4, <1>11 DEF Recorded, Same
  <2>2. Numbers(n, G, {})
    BY <1>4, <1>10 DEF Recorded, Numbers
  <2> QED BY <1>4, <2>1, <2>2 DEF Recorded
<1>13. ASSUME NEW w \in Worker, On(w, t)
       PROVE  Phase(pc[w], copy[w], answer'[w], d, G, {})
  <2>1. Phase(pc[w], copy[w], answer[w], d, H, {m}) /\ pc[w] \in Step \ {"idle"}
    BY <1>2, <1>4, <1>13, Now
  <2> HIDE DEF G, H, d
  <2>2. \/ answer'[w] = answer[w]
        \/ /\ answer'[w] = "error" => G[n] = None
           /\ answer'[w] = "trackId" => G[n] # None
           /\ answer'[w] \in {"Aceptado", "Rechazado"} => G[n] # None /\ G[n].st = answer'[w]
    BY <1>9, <1>10
  <2> QED BY <1>4, <1>11, <2>1, <2>2, ReceivedPhase
<1> HIDE DEF G, H, d
<1>14. /\ Recorded(d, G, Uploads(t)')
       /\ \A r : Same(r, d) /\ Sound(r, H, U) => Sound(r, G, Uploads(t)')
       /\ \A w \in Worker : On(w, t) => Phase(pc[w], copy[w], answer'[w], d, G, Uploads(t)')
  BY <1>4, <1>5, <1>11, <1>12, <1>13
<1> QED BY <1>1, <1>2, <1>5, <1>9, <1>10, <1>14, DgiiMoves DEF G, H, d

\* DGII decides only about numbers it still has in process, and only the row's
\* own can be one.
LEMMA DecidePromise ==
  ASSUME DocInv, PromiseInv, NEW n \in Encf, DgiiDecides(n) PROVE PromiseInv'
<1>2. dgii \in [Encf -> Verdict \cup {None}] /\ dgii[n] \in Verdict
  BY DEF DocInv, Typed, TypeOK, DgiiDecides, Verdict
<1>t. PICK t \in Txn : t = dgii[n].txn
  BY <1>2 DEF Verdict
<1> DEFINE U == Uploads(t)
           H == Held(t)
           G == Held(t)'
           d == docs[t]
<1>1. /\ wire' = wire /\ docs' = docs /\ pc' = pc /\ copy' = copy /\ job' = job
      /\ answer' = answer /\ UNCHANGED readerVars /\ UNCHANGED pollVars
  BY DEF DgiiDecides, dbVars, workerVars
<1>3. TxnInv(t)
  BY DEF PromiseInv
<1>4. \A u : Uploads(u)' = Uploads(u)
  BY <1>1 DEF Uploads
<1>5. H[n] = dgii[n] /\ H[n] # None /\ H[n].st = "En Proceso"
  BY <1>t DEF DgiiDecides, Held
<1>6. d # None /\ d.encf = n /\ U = {} /\ Recorded(d, H, U)
  BY <1>3, <1>5 DEF TxnInv, Recorded, Numbers
<1>7. PICK s \in {"Aceptado", "Rechazado"} : dgii' = [dgii EXCEPT ![n].st = s]
  BY DEF DgiiDecides
<1> DEFINE v == [dgii[n] EXCEPT !.st = s]
<1>8. v \in Verdict /\ v.txn = t /\ v.edit = dgii[n].edit /\ v.st = s
  BY <1>2, <1>t DEF Verdict
<1>9. v # None
  BY <1>8, NoneAssumption DEF Verdict
<1>10. \A k \in Encf : dgii'[k] = IF k = n THEN v ELSE dgii[k]
  BY <1>2, <1>7
<1> HIDE DEF v
<1>11. /\ \A u \in Txn \ {t} : Held(u)' = Held(u)
       /\ \A k \in Encf \ {n} : G[k] = H[k]
       /\ G[n] = v
  BY <1>t, <1>5, <1>8, <1>9, <1>10 DEF Held
<1>12. \A r : Same(r, d) /\ Sound(r, H, U) => Sound(r, G, U)
  <2>1. H[n] # None /\ H[n].st = "En Proceso" /\ G[n].edit = H[n].edit /\ U = {} /\ d.encf = n
    BY <1>5, <1>6, <1>8, <1>11
  <2> HIDE DEF G, H, d, U
  <2> QED BY <2>1 DEF Same, Sound, Untouched
<1>13. Recorded(d, G, U)
  <2>1. Sound(d, G, U)
    BY <1>6, <1>12 DEF Recorded, Same
  <2>2. Numbers(n, G, U)
    BY <1>6, <1>11 DEF Recorded, Numbers
  <2> QED BY <1>6, <2>1, <2>2 DEF Recorded
<1>14. ASSUME NEW w \in Worker, On(w, t)
       PROVE  Phase(pc[w], copy[w], answer[w], d, G, U)
  <2>1. Phase(pc[w], copy[w], answer[w], d, H, U)
    BY <1>3, <1>14 DEF TxnInv
  <2> HIDE DEF G, H, d, U
  <2>2. \A k : k = n => ~Untouched(k, H, U)
    BY <1>5 DEF Untouched
  <2>3. \A r : Same(r, d) /\ Sound(r, H, U) => Sound(r, G, U)
    BY <1>12
  <2> QED BY <1>5, <1>6, <1>9, <1>11, <2>1, <2>2, <2>3 DEF Phase, Same, Sends, Is
<1> HIDE DEF G, H, d
<1>15. /\ Recorded(d, G, Uploads(t)')
       /\ \A r : Same(r, d) /\ Sound(r, H, U) => Sound(r, G, Uploads(t)')
       /\ \A w \in Worker : On(w, t) => Phase(pc[w], copy[w], answer'[w], d, G, Uploads(t)')
  BY <1>1, <1>4, <1>12, <1>13, <1>14
<1> QED BY <1>1, <1>3, <1>4, <1>11, <1>15, DgiiMoves DEF G, H, d

LEMMA NothingMoves ==
  ASSUME PromiseInv, docs' = docs, UNCHANGED dgiiVars, UNCHANGED workerVars,
         UNCHANGED readerVars, batch' = batch
  PROVE  PromiseInv'
<1>1. /\ pc' = pc /\ copy' = copy /\ job' = job /\ answer' = answer
      /\ rpc' = rpc /\ rcopy' = rcopy /\ rtxn' = rtxn /\ wire' = wire /\ dgii' = dgii
  BY DEF dgiiVars, workerVars, readerVars
<1>2. \A t : Held(t)' = Held(t) /\ Uploads(t)' = Uploads(t)
  BY <1>1 DEF Held, Uploads
<1>3. /\ \A w, t : On(w, t)' <=> On(w, t)
      /\ \A g, t : Gets(g, t)' <=> Gets(g, t)
  BY <1>1 DEF On, Gets
<1>4. ASSUME NEW t \in Txn PROVE TxnInv(t)'
  <2>1. TxnInv(t)
    BY DEF PromiseInv
  <2>2. Awaited(t)'
    BY <1>1, <1>2, <1>3, <2>1 DEF TxnInv, Awaited
  <2> QED BY <1>1, <1>2, <1>3, <2>1, <2>2 DEF TxnInv
<1> QED BY <1>1, <1>4 DEF PromiseInv, Quiet

-----------------------------------------------------------------------------
LEMMA AtWork ==
  ASSUME DocInv, NEW w \in Worker, pc[w] # "idle"
  PROVE  \E t \in Txn : On(w, t)
BY DEF DocInv, Typed, Carries, Job, On

LEMMA WorkerPromise ==
  ASSUME ~StrayEstado, DocInv, PromiseInv, OneAtATime, NEW w \in Worker, WorkerStep(w)
  PROVE  PromiseInv'
<1>1. pc[w] # "idle"
  BY DEF WorkerStep, Allocate, Insert, SaveReissue, ReleaseNumber, Refetch, QueryStatus,
         SaveQueried, SaveContent, Sign, Send, TakeAnswer, SendUncertain, Consult, SaveOutcome
<1>2. PICK t \in Txn : On(w, t)
  BY <1>1, AtWork
<1>3. CASE Allocate(w) \/ Insert(w) \/ SaveReissue(w)
  BY <1>2, <1>3, AllocatePromise, InsertPromise, SaveReissuePromise
<1>4. CASE ReleaseNumber(w) \/ Refetch(w) \/ QueryStatus(w)
  BY <1>2, <1>4, ReleasePromise, RefetchPromise, QueryPromise
<1>5. CASE SaveQueried(w) \/ SaveOutcome(w) \/ SaveContent(w)
  BY <1>2, <1>5, SaveAndEndPromise, SaveContentPromise
<1>6. CASE Sign(w) \/ Send(w) \/ TakeAnswer(w)
  BY <1>2, <1>6, SignPromise, SendPromise, TakePromise
<1>7. CASE SendUncertain(w) \/ Consult(w)
  BY <1>2, <1>7, UncertainPromise, ConsultPromise
<1> QED BY <1>3, <1>4, <1>5, <1>6, <1>7 DEF WorkerStep

LEMMA NextPromise ==
  ASSUME ~LateDelivery, ~StrayEstado, DocInv, PromiseInv, OneAtATime, [Next]_vars
  PROVE  PromiseInv'
<1>1. CASE \E w \in Worker, t \in Txn, e \in Edit : Submit(w, t, e)
  BY <1>1, SubmitPromise
<1>2. CASE \E w \in Worker : WorkerStep(w)
  BY <1>2, WorkerPromise
<1>3. CASE \E w \in Worker : Abort(w)
  BY <1>3, AtWork, AbortPromise DEF Abort
<1>4. CASE \E g \in Reader, t \in Txn : ReadDocument(g, t)
  BY <1>4, ReadPromise
<1>5. CASE \E g \in Reader : ReaderQuery(g) \/ ReaderSave(g) \/ ReaderAbort(g)
  BY <1>5, ReaderQueryPromise, ReaderEndPromise
<1>6. CASE PollFetch \/ PollSave \/ PollAbort
  BY <1>6, PollPromise
<1>7. CASE \E t \in Txn : PollCheck(t) \/ TwoMinutesPass(t)
  BY <1>7, CheckPromise, TimePromise
<1>8. CASE \E m \in wire : DgiiReceives(m) \/ UploadLost(m)
  BY <1>8, ReceivePromise, LostPromise
<1>9. CASE \E n \in Encf : DgiiDecides(n)
  BY <1>9, DecidePromise
<1>10. CASE \E n \in Encf : WindowCloses(n)
  BY <1>10, NothingMoves DEF WindowCloses, dbVars, pollVars
<1>11. CASE UNCHANGED vars
  BY <1>11, NothingMoves DEF vars, dgiiVars, workerVars, readerVars
<1> QED BY <1>1, <1>2, <1>3, <1>4, <1>5, <1>6, <1>7, <1>8, <1>9, <1>10, <1>11 DEF Next

LEMMA InitPromise == Init => PromiseInv
<1> SUFFICES ASSUME Init PROVE PromiseInv
  OBVIOUS
<1>1. ASSUME NEW t \in Txn PROVE TxnInv(t)
  <2>1. /\ Uploads(t) = {} /\ Held(t) = [n \in Encf |-> None] /\ docs[t] = None
        /\ batch[t] = None
        /\ \A w \in Worker : ~On(w, t)
        /\ \A g \in Reader : ~Gets(g, t)
    BY DEF Init, Uploads, Held, On, Gets
  <2> QED BY <2>1 DEF TxnInv, Recorded, Awaited, Polled
<1> QED BY <1>1 DEF PromiseInv, Quiet, Init

\* The invariant of the promise: row, copies, uploads and what DGII holds of an
\* invoice agree at every step of signAndSend, reconcileUncertain, GET and the
\* reconciler, whatever crashes, is lost or is tried again.
THEOREM PromiseInvHolds ==
  ASSUME ~LateDelivery, ~StrayEstado
  PROVE  Spec /\ []OneAtATime => []PromiseInv
<1>1. DocInv /\ OneAtATime /\ PromiseInv /\ [Next]_vars => PromiseInv'
  BY NextPromise
<1> QED BY <1>1, InitPromise, DocInvHolds, PTL DEF Spec

-----------------------------------------------------------------------------
(* What the invariant says of the rows and of DGII.                        *)

LEMMA OnRecord == DocInv /\ PromiseInv => TransmittedIsOnRecord
<1> SUFFICES ASSUME DocInv, PromiseInv, NEW n \in Encf, Transmitted(n)
    PROVE  LET row == docs[Owner(n)]
           IN row # None /\ row.encf >= n
                /\ (row.encf = n => row.st \notin NeverTransmittedStates)
  BY DEF TransmittedIsOnRecord
<1>1. PICK t \in Txn : t = Owner(n) /\ (Held(t)[n] # None \/ \E m \in Uploads(t) : m.encf = n)
  <2>1. CASE dgii[n] # None
    <3>1. dgii[n].txn \in Txn
      BY <2>1 DEF DocInv, Typed, TypeOK
    <3> QED BY <2>1, <3>1 DEF Owner, Held
  <2>2. CASE dgii[n] = None
    <3> DEFINE m == CHOOSE x \in wire : x.encf = n
    <3>1. m \in wire /\ m.encf = n
      BY <2>2 DEF Transmitted
    <3>2. m.txn \in Txn
      BY <3>1 DEF DocInv, Typed, TypeOK, Message
    <3> QED BY <2>2, <3>1, <3>2 DEF Owner, Uploads
  <2> QED BY <2>1, <2>2
<1>2. Recorded(docs[t], Held(t), Uploads(t))
  BY DEF PromiseInv, TxnInv
<1>3. docs[t] # None
  BY <1>1, <1>2 DEF Recorded
<1>4. docs[t].encf \in Encf /\ docs[t].encf \in Nat /\ n \in Nat
  <2>1. docs[t] \in Row
    BY <1>3 DEF DocInv, Typed, TypeOK
  <2> QED BY <2>1, RowEdits, DocumentAssumption DEF Encf
<1>5. docs[t].encf >= n
  BY <1>1, <1>2, <1>3, <1>4 DEF Recorded, Numbers
<1>6. docs[t].encf = n => ~Untouched(docs[t].encf, Held(t), Uploads(t))
  BY <1>1 DEF Untouched
<1>7. docs[t].encf = n => docs[t].st \notin NeverTransmittedStates
  BY <1>2, <1>3, <1>6 DEF Recorded, Sound
<1> QED BY <1>1, <1>3, <1>5, <1>7

LEMMA AcceptedAtDgii == DocInv /\ PromiseInv => AcceptedRowIsAtDgii
<1> SUFFICES ASSUME DocInv, PromiseInv, NEW t \in Txn, docs[t] # None,
                    docs[t].st = "AcceptedByDgii"
    PROVE  LET d == dgii[docs[t].encf]
           IN d # None /\ d.st = "Aceptado" /\ d.txn = t /\ d.edit = docs[t].edit
  BY DEF AcceptedRowIsAtDgii
<1>1. Sound(docs[t], Held(t), Uploads(t))
  BY DEF PromiseInv, TxnInv, Recorded
<1>2. docs[t].encf \in Encf
  BY DEF DocInv, Typed, TypeOK, Row
<1> QED BY <1>1, <1>2, HeldTyped DEF Sound

LEMMA OneValid == DocInv /\ PromiseInv => OneValidEncfPerInvoice
<1> SUFFICES ASSUME DocInv, PromiseInv, NEW n \in Encf, NEW k \in Encf,
                    dgii[n] # None, dgii[n].st = "Aceptado",
                    dgii[k] # None, dgii[k].st = "Aceptado", dgii[n].txn = dgii[k].txn
    PROVE  n = k
  BY DEF OneValidEncfPerInvoice
<1>1. PICK t \in Txn : t = dgii[n].txn
  BY DEF DocInv, Typed, TypeOK
<1>2. Held(t)[n] = dgii[n] /\ Held(t)[k] = dgii[k]
  BY <1>1 DEF Held
<1>3. Recorded(docs[t], Held(t), Uploads(t))
  BY DEF PromiseInv, TxnInv
<1> QED BY <1>2, <1>3 DEF Recorded, Numbers
-----------------------------------------------------------------------------
(* What no step does.                                                      *)

Accepted(d) == Is(d, {"AcceptedByDgii"})

\* Every save finds a row that is not accepted.
LEMMA StaysAccepted ==
  ASSUME DocInv, PromiseInv, [Next]_vars, NEW t \in Txn, Accepted(docs[t])
  PROVE  /\ Accepted(docs'[t])
         /\ docs'[t].encf = docs[t].encf /\ docs'[t].edit = docs[t].edit
<1>1. docs \in [Txn -> Row \cup {None}] /\ docs[t] # None /\ docs[t].st = "AcceptedByDgii"
  BY DEF DocInv, Typed, TypeOK, Accepted, Is
<1>2. /\ TxnInv(t)
      /\ \A S : Is(docs[t], S) => "AcceptedByDgii" \in S
  BY <1>1 DEF PromiseInv, Is
<1>3. ASSUME NEW w \in Worker, job[w].txn = t, pc[w] # "idle"
      PROVE  pc[w] \notin {"saveReissue", "saveQueried", "saveContent", "sign"} \cup Sends
  BY <1>2, <1>3 DEF TxnInv, On, Phase, NeverTransmittedStates, Doubtful
<1>4. batch[t] = None /\ \A g \in Reader : ~Gets(g, t)
  BY <1>2 DEF TxnInv, Polled, Read, PollableStates
<1>5. CASE \E w \in Worker : WorkerStep(w)
  <2>1. PICK w \in Worker : WorkerStep(w)
    BY <1>5
  <2>2. docs'[t] = docs[t]
    <3>1. CASE SaveReissue(w) \/ SaveQueried(w) \/ SaveContent(w) \/ SaveOutcome(w)
      BY <1>1, <1>3, <3>1
         DEF SaveReissue, SaveQueried, SaveContent, SaveOutcome, Update, Sends
    <3>2. CASE Sign(w)
      BY <1>1, <1>3, <3>2 DEF Sign, Update
    <3>3. CASE Insert(w)
      BY <1>1, <3>3 DEF Insert
    <3>4. CASE Allocate(w) \/ ReleaseNumber(w) \/ Refetch(w) \/ QueryStatus(w)
      BY <3>4 DEF Allocate, ReleaseNumber, Refetch, QueryStatus, dbVars
    <3>5. CASE Send(w) \/ TakeAnswer(w) \/ SendUncertain(w) \/ Consult(w)
      BY <3>5 DEF Send, TakeAnswer, SendUncertain, Consult, dbVars
    <3> QED BY <2>1, <3>1, <3>2, <3>3, <3>4, <3>5 DEF WorkerStep
  <2> QED BY <2>2
<1>6. CASE \E g \in Reader : ReaderSave(g)
  <2>1. PICK g \in Reader : ReaderSave(g)
    BY <1>6
  <2>2. rtxn[g] # t
    BY <1>4, <2>1 DEF ReaderSave, Gets
  <2>3. docs'[t] = docs[t]
    BY <1>1, <2>1, <2>2 DEF ReaderSave, Update
  <2> QED BY <2>3
<1>7. CASE PollSave
  BY <1>4, <1>7 DEF PollSave, Fetched
<1>8. CASE \E u \in Txn : TwoMinutesPass(u)
  <2>1. PICK u \in Txn : TwoMinutesPass(u)
    BY <1>8
  <2>2. docs'[t] = IF t = u THEN [docs[t] EXCEPT !.fresh = FALSE] ELSE docs[t]
    BY <1>1, <2>1 DEF TwoMinutesPass
  <2>3. docs[t] \in Row
    BY <1>1
  <2>4. LET r == [docs[t] EXCEPT !.fresh = FALSE]
        IN r \in Row /\ r.st = docs[t].st /\ r.encf = docs[t].encf /\ r.edit = docs[t].edit
    BY <2>3 DEF Row
  <2> QED BY <1>1, <2>2, <2>4, DocumentAssumption DEF Accepted, Is
<1>9. CASE docs' = docs
  BY <1>9
<1>10. CASE Next
  <2>1. CASE \E w \in Worker, u \in Txn, e \in Edit : Submit(w, u, e)
    BY <1>9, <2>1 DEF Submit, dbVars
  <2>2. CASE \E w \in Worker : Abort(w)
    BY <1>9, <2>2 DEF Abort, dbVars
  <2>3. CASE \/ \E g \in Reader, u \in Txn : ReadDocument(g, u)
             \/ \E g \in Reader : ReaderQuery(g) \/ ReaderAbort(g)
    BY <1>9, <2>3 DEF ReadDocument, ReaderQuery, ReaderAbort, dbVars
  <2>4. CASE PollFetch \/ PollAbort \/ \E u \in Txn : PollCheck(u)
    BY <1>9, <2>4 DEF PollFetch, PollAbort, PollCheck, dbVars
  <2>5. CASE \/ \E m \in wire : DgiiReceives(m) \/ UploadLost(m)
             \/ \E n \in Encf : DgiiDecides(n) \/ WindowCloses(n)
    BY <1>9, <2>5 DEF DgiiReceives, UploadLost, DgiiDecides, WindowCloses, dbVars
  <2> QED BY <1>5, <1>6, <1>7, <1>8, <1>10, <2>1, <2>2, <2>3, <2>4, <2>5 DEF Next
<1> QED BY <1>9, <1>10 DEF vars

LEMMA SendsOnce ==
  ASSUME DocInv, PromiseInv, NEW w \in Worker, pc[w] = "send"
  PROVE  ~Transmitted(copy[w].encf)
<1>1. PICK t \in Txn : On(w, t)
  BY AtWork
<1>2. Untouched(copy[w].encf, Held(t), Uploads(t)) /\ copy[w].encf \in Encf
  BY <1>1, Now DEF Phase, Empty
<1>3. Claims(copy[w].encf, t)
  <2>1. copy[w] \in Row /\ job[w].txn = t
    BY <1>1, Now DEF Empty
  <2> QED BY <2>1, DocumentAssumption DEF Claims
<1>4. dgii[copy[w].encf] = None
  BY <1>2, <1>3, HeldTyped DEF Untouched
<1>5. ASSUME NEW m \in wire, m.encf = copy[w].encf PROVE FALSE
  <2>1. m.txn \in Txn /\ Claims(copy[w].encf, m.txn)
    BY <1>5 DEF Claims, DocInv, Typed, TypeOK, Message
  <2>2. m.txn = t
    BY <1>2, <1>3, <2>1 DEF DocInv, Numbered, EncfBelongsToOneInvoice
  <2> QED BY <1>2, <1>5, <2>2 DEF Untouched, Uploads
<1> QED BY <1>4, <1>5 DEF Transmitted

-----------------------------------------------------------------------------
(* FiscalNumbers.                                                          *)

Reported(d) == IF d # None /\ d.st = "AcceptedByDgii"
               THEN [encf |-> d.encf, edit |-> d.edit] ELSE None

LEMMA PromiseInit == Init => Promise!Init
<1> SUFFICES ASSUME Init PROVE Promise!Init
  OBVIOUS
<1>1. \A t \in Txn : docs[t] = None
  BY DEF Init
<1> QED BY <1>1 DEF Init, Promise!Init

\* A step that leaves DGII alone reports what DGII has, or nothing new.
LEMMA ReportStep ==
  ASSUME DocInv, DocInv', PromiseInv, PromiseInv', [Next]_vars, dgii' = dgii
  PROVE  Promise!Report
<1>1. ASSUME NEW t \in Txn
      PROVE  /\ Reported(docs'[t]) \in [encf : Encf, edit : Edit] \cup {None}
             /\ Reported(docs'[t]) # Reported(docs[t]) =>
                  /\ Reported(docs[t]) = None
                  /\ Promise!Reportable(t, Reported(docs'[t]))
  <2>1. docs'[t] # None => docs'[t] \in Row
    <3>1. TypeOK'
      BY DEF DocInv, Typed
    <3> QED BY <3>1 DEF TypeOK
  <2>2. CASE Accepted(docs[t])
    <3>1. Reported(docs'[t]) = Reported(docs[t])
      BY <2>2, StaysAccepted DEF Reported, Accepted, Is
    <3> QED BY <2>1, <3>1 DEF Reported, Row
  <2>3. CASE ~Accepted(docs[t]) /\ Accepted(docs'[t])
    <3>1. docs'[t] # None /\ docs'[t].st = "AcceptedByDgii" /\ Reported(docs[t]) = None
      BY <2>3 DEF Accepted, Is, Reported
    <3> DEFINE n == docs'[t].encf
               r == Reported(docs'[t])
    <3>2. dgii[n] # None /\ dgii[n].st = "Aceptado" /\ dgii[n].txn = t
          /\ dgii[n].edit = docs'[t].edit
      <4>1. AcceptedRowIsAtDgii'
        BY AcceptedAtDgii, PTL
      <4> QED BY <3>1, <4>1 DEF AcceptedRowIsAtDgii
    <3>3. n \in Encf /\ docs'[t].edit \in Edit
      BY <2>1, <3>1 DEF Row
    <3>4. dgii[n] \in Verdict
      BY <3>2, <3>3 DEF DocInv, Typed, TypeOK, Verdict
    <3>5. r = [encf |-> n, edit |-> docs'[t].edit]
      BY <3>1 DEF Reported
    <3>6. dgii[n] = [st |-> "Aceptado", txn |-> t, edit |-> docs'[t].edit]
      BY <3>2, <3>4 DEF Verdict
    <3>7. r.encf = n /\ r.edit = docs'[t].edit /\ r \in [encf : Encf, edit : Edit]
      BY <3>3, <3>5
    <3> QED BY <3>1, <3>6, <3>7 DEF Promise!Reportable
  <2>4. CASE ~Accepted(docs[t]) /\ ~Accepted(docs'[t])
    BY <2>4 DEF Accepted, Is, Reported
  <2> QED BY <2>2, <2>3, <2>4
<1> QED BY <1>1 DEF Promise!Report, Reported

LEMMA RegisterStep ==
  ASSUME DocInv, PromiseInv, NEW m \in wire, DgiiReceives(m)
  PROVE  dgii' = dgii \/ Promise!Register(m.encf, m.txn)
<1>1. m \in Message /\ m.txn \in Txn /\ m.encf \in Encf /\ m.edit \in Edit
  BY DEF DocInv, Typed, TypeOK, Message
<1>2. docs' = docs
  BY DEF DgiiReceives, dbVars
<1>3. /\ Recorded(docs[m.txn], Held(m.txn), Uploads(m.txn))
      /\ m \in Uploads(m.txn)
  BY <1>1 DEF PromiseInv, TxnInv, Uploads
<1>4. /\ Held(m.txn)[m.encf] = None
      /\ \A k \in Encf : Held(m.txn)[k] # None => Held(m.txn)[k].st = "Rechazado"
  BY <1>3 DEF Recorded, Numbers
<1>5. \A k \in Encf : ~Promise!Live(k, m.txn)
  BY <1>4 DEF Promise!Live, Held
<1>6. \/ dgii' = dgii
      \/ /\ dgii[m.encf] = None
         /\ \E s \in {"En Proceso", "Aceptado", "Rechazado"}, e \in Edit :
              dgii' = [dgii EXCEPT ![m.encf] = [st |-> s, txn |-> m.txn, edit |-> e]]
  BY <1>1 DEF DgiiReceives
<1> QED BY <1>2, <1>5, <1>6 DEF Promise!Register

LEMMA PromiseStep ==
  ASSUME DocInv, DocInv', PromiseInv, PromiseInv', [Next]_vars
  PROVE  [Promise!Next]_(Promise!numbers)
<1>1. CASE dgii' = dgii
  BY <1>1, ReportStep DEF Promise!Next
<1>2. CASE \E m \in wire : DgiiReceives(m)
  <2>1. PICK m \in wire : DgiiReceives(m)
    BY <1>2
  <2>2. m.txn \in Txn /\ m.encf \in Encf
    BY DEF DocInv, Typed, TypeOK, Message
  <2> QED BY <1>1, <2>1, <2>2, RegisterStep DEF Promise!Next
<1>3. CASE \E n \in Encf : DgiiDecides(n)
  BY <1>3 DEF DgiiDecides, dbVars, Promise!Next, Promise!Decide
<1>4. \/ dgii' = dgii
      \/ \E m \in wire : DgiiReceives(m)
      \/ \E n \in Encf : DgiiDecides(n)
  <2>1. CASE \E w \in Worker : WorkerStep(w)
    BY <2>1 DEF WorkerStep, Allocate, Insert, SaveReissue, ReleaseNumber, Refetch,
         QueryStatus, SaveQueried, SaveContent, Sign, Send, TakeAnswer, SendUncertain,
         Consult, SaveOutcome, dgiiVars
  <2>2. CASE UNCHANGED vars
    BY <2>2 DEF vars
  <2> QED BY <2>1, <2>2
        DEF Next, Submit, Abort, ReadDocument, ReaderQuery, ReaderSave, ReaderAbort,
            PollFetch, PollSave, PollAbort, PollCheck, TwoMinutesPass, UploadLost,
            WindowCloses, dgiiVars
<1> QED BY <1>1, <1>2, <1>3, <1>4
-----------------------------------------------------------------------------
(* The theorems.  ~LateDelivery: no upload outlives the two-minute wait    *)
(* that precedes a query of an uncertain invoice.  ~StrayEstado: DGII's    *)
(* answer to that query has an estado.  OneAtATime: requests for one       *)
(* invoice follow each other.  The code relies on the three and enforces   *)
(* none of them.                                                           *)

\* A number DGII has, or may yet get, is on its invoice's row, and while it is
\* the row's number the row does not call it never transmitted: signAndSend
\* saves before it sends, reconcileUncertain asks before it sends again.
THEOREM TransmissionIsOnRecord ==
  ASSUME ~LateDelivery, ~StrayEstado
  PROVE  Spec /\ []OneAtATime => []TransmittedIsOnRecord
BY PromiseInvHolds, DocInvHolds, OnRecord, PTL

\* A row goes to AcceptedByDgii only for the number, and with the content, that
\* DGII accepted for its invoice (reconcileUncertain, signAndSend, GET's
\* reconciliation, EcfStatusReconciler::reconcile).
THEOREM AcceptanceIsDgiis ==
  ASSUME ~LateDelivery, ~StrayEstado
  PROVE  Spec /\ []OneAtATime => []AcceptedRowIsAtDgii
BY PromiseInvHolds, DocInvHolds, AcceptedAtDgii, PTL

\* DGII never holds two valid numbers for one invoice: a number is given up for
\* another only once DGII has rejected it (handleExistingDocument).
THEOREM OneValidNumber ==
  ASSUME ~LateDelivery, ~StrayEstado
  PROVE  Spec /\ []OneAtATime => []OneValidEncfPerInvoice
BY PromiseInvHolds, DocInvHolds, OneValid, PTL

\* An upload leaves only for a number that DGII does not have and that is not
\* already on its way (signAndSend after reconcileUncertain).
THEOREM NoSecondUpload ==
  ASSUME ~LateDelivery, ~StrayEstado
  PROVE  Spec /\ []OneAtATime => NeverSentTwice
<1>1. DocInv /\ PromiseInv =>
        \A w \in Worker : pc[w] = "send" /\ pc'[w] = "wait" => ~Transmitted(copy[w].encf)
  BY SendsOnce
<1> QED BY <1>1, PromiseInvHolds, DocInvHolds, PTL DEF NeverSentTwice

\* Once a row is accepted no save of any thread, GET or pass takes it back.
THEOREM AcceptanceIsFinal ==
  ASSUME ~LateDelivery, ~StrayEstado
  PROVE  Spec /\ []OneAtATime => AcceptedIsFinal
<1>1. DocInv /\ PromiseInv /\ [Next]_vars =>
        \A t \in Txn : docs[t] # None /\ docs[t].st = "AcceptedByDgii"
                         => docs'[t].st = "AcceptedByDgii"
  BY StaysAccepted DEF Accepted, Is
<1> QED BY <1>1, PromiseInvHolds, DocInvHolds, PTL DEF AcceptedIsFinal, Spec

\* The service implements FiscalNumbers: every step of a thread, of GET, of the
\* reconciler and of DGII registers or decides a number, reports acceptances
\* DGII has, or changes nothing FiscalNumbers speaks of.
THEOREM ServiceKeepsPromise ==
  ASSUME ~LateDelivery, ~StrayEstado
  PROVE  Spec /\ []OneAtATime => KeepsFiscalPromise
<1>1. DocInv /\ DocInv' /\ PromiseInv /\ PromiseInv' /\ [Next]_vars
        => [Promise!Next]_(Promise!numbers)
  BY PromiseStep
<1> QED BY <1>1, PromiseInit, PromiseInvHolds, DocInvHolds, PTL
      DEF KeepsFiscalPromise, Promise!Spec, Spec
=============================================================================
