---------------------------- MODULE EcfDocuments ----------------------------
(***************************************************************************)
(* The life of an electronic invoice (e-CF): POST /documents (submit with  *)
(* handleExistingDocument, reconcileUncertain and signAndSend), the GET    *)
(* that also asks DGII and writes, and the background status reconciler,   *)
(* all working on the rows of ecf_documents, with DGII at the other end of *)
(* a wire that loses and delays.                                           *)
(*                                                                         *)
(* Every database transaction and every DGII call is a step of its own.    *)
(* Between two of them a thread works on its private copy of the row, and  *)
(* a save writes the whole copy back, whatever the row has become: the     *)
(* UPDATE is WHERE id = $1.  A thread may die at any step (Abort): a crash *)
(* of the process, or an exception that leaves the handler.                *)
(*                                                                         *)
(* Abstracted: a document's XML is the EditSequence it was built from; a   *)
(* trackId is the eNCF it was issued for; one document type, so one        *)
(* sequence row, whose numbers stand for the eNCFs; one environment, which *)
(* every call to DGII is about (DirectEcf has two); HTTP answers.          *)
(***************************************************************************)
EXTENDS SequenceRow, FiniteSets

CONSTANTS
  Txn,           \* invoices: SourceReference.TxnId of one tenant and ambiente
  Rfce,          \* those that go to RecepcionFC (E32 under 250,000)
  Edit,          \* EditSequence values an invoice may be submitted with
  Worker,        \* threads that serve POST /documents
  Serves,        \* the invoices each of them may be asked to submit
  Reader,        \* threads that serve GET /documents/{txnId}
  Poller,        \* BOOLEAN: ENABLE_BACKGROUND_POLLER
  SignFailure,   \* ways signing may fail that are explored
  MaxEncf,       \* rango_hasta of the sequence, from 1
  LateDelivery,  \* BOOLEAN: may a send outlive the two-minute wait
  StrayEstado,   \* BOOLEAN: may consultarEstado answer without an estado
  None

\* Fault: accepted counted among the states that were never transmitted.
NeverTransmittedOrAccepted ==
  {"SequenceAllocated", "SigningFailed", "SchemaInvalid", "Unsigned", "AcceptedByDgii"}

NeverTransmittedStates == {"SequenceAllocated", "SigningFailed", "SchemaInvalid", "Unsigned"}

PollableStates == {"Signed", "Uncertain", "AwaitingTransmission"}

State == NeverTransmittedStates \cup PollableStates
           \cup {"AcceptedByDgii", "RejectedByDgii", "RequiresManualReview"}

Encf == 1 .. MaxEncf

\* What the code reads of an ecf_documents row: eNcf, state, trackId, whether
\* sentToDgiiAt is set, editSequence, and whether updatedAt (or createdAt) is
\* less than MinimumUncertainAgeBeforeReconciliation ago.
Row == [encf : Encf, st : State, track : Encf \cup {None}, sent : BOOLEAN,
        edit : Edit, fresh : BOOLEAN]

ASSUME DocumentAssumption ==
  /\ Rfce \subseteq Txn
  /\ Serves \in [Worker -> SUBSET Txn]
  /\ SignFailure \subseteq NeverTransmittedStates \ {"SequenceAllocated"}
  /\ MaxEncf \in Nat \ {0}
  /\ {Poller, LateDelivery, StrayEstado} \subseteq BOOLEAN
  /\ None \notin Row

ASSUME NoneAssumption ==
  None \notin Worker \cup {"trackId", "Aceptado", "Rechazado", "error"}
                \cup [txn : Txn, edit : Edit]
                \cup [st : {"En Proceso", "Aceptado", "Rechazado"}, txn : Txn, edit : Edit]

\* An upload on its way to DGII; from is None once nobody waits for its answer.
Message == [encf : Encf, txn : Txn, edit : Edit, from : Worker \cup {None}]

VARIABLES
  docs,     \* ecf_documents, by its unique (tenant, txn, ambiente)
  seq,      \* secuencia_actual of the sequence row
  wire,     \* uploads in flight
  dgii,     \* what DGII knows of each eNCF
  aged,     \* eNCFs sent more than MaxPollingWindowHours ago
  pc, copy, job, answer,      \* per POST thread: step, its copy of the row,
                              \* the request (txn, edit), DGII's answer
  rpc, rcopy, rtxn,           \* per GET thread
  batch, checked              \* the reconciler: documents fetched, and done

dbVars == <<docs, seq>>
dgiiVars == <<wire, dgii>>
workerVars == <<pc, copy, job, answer>>
readerVars == <<rpc, rcopy, rtxn>>
pollVars == <<batch, checked>>
vars == <<docs, seq, wire, dgii, aged, pc, copy, job, answer,
          rpc, rcopy, rtxn, batch, checked>>

Init ==
  /\ docs = [t \in Txn |-> None]
  /\ seq = 0
  /\ wire = {}
  /\ dgii = [n \in Encf |-> None]
  /\ aged = {}
  /\ pc = [w \in Worker |-> "idle"]
  /\ copy = [w \in Worker |-> None]
  /\ job = [w \in Worker |-> None]
  /\ answer = [w \in Worker |-> None]
  /\ rpc = [g \in Reader |-> "idle"]
  /\ rcopy = [g \in Reader |-> None]
  /\ rtxn = [g \in Reader |-> None]
  /\ batch = [t \in Txn |-> None]
  /\ checked = {}
-----------------------------------------------------------------------------
(* The database.                                                           *)

\* uq_ecf_documents_rnc_emisor_encf: no other row carries the row's eNCF.
Storable(t, row) ==
  \A u \in Txn \ {t} : docs[u] # None => docs[u].encf # row.encf

\* EcfDocumentRepository::update: every column, whatever the row holds now.
Update(t, row) == docs' = [docs EXCEPT ![t] = [row EXCEPT !.fresh = TRUE]]

\* applyCanonicalContent.
WithContent(row, e) == [row EXCEPT !.edit = e, !.st = "SequenceAllocated"]

NewRow(n, e) ==
  [encf |-> n, st |-> "SequenceAllocated", track |-> None, sent |-> FALSE,
   edit |-> e, fresh |-> TRUE]

\* A rejected document about to be re-issued under the number n.
ReissuedRow(row, n, e) ==
  WithContent([row EXCEPT !.encf = n, !.track = None, !.sent = FALSE], e)

(* DGII's queries.  Each reads DGII once; a call may also throw.           *)

\* consultarEstado by eNCF: the estado it returns.
Estado(n) == IF dgii[n] = None THEN "No encontrado" ELSE dgii[n].st

Estados(n) == {Estado(n)} \cup (IF StrayEstado THEN {""} ELSE {})

NotFound == {"No encontrado", ""}

\* Fault: the estado itself is stored.
RawStateOf(estado) ==
  CASE estado = "Aceptado"  -> "AcceptedByDgii"
    [] estado = "Rechazado" -> "RejectedByDgii"
    [] OTHER                -> estado

\* Fault: what is not rejected counts as accepted.
HopefulStateOf(estado) ==
  IF estado = "Rechazado" THEN "RejectedByDgii" ELSE "AcceptedByDgii"

\* The state a document takes from an estado DGII has for it.
StateOf(estado) ==
  CASE estado = "Aceptado"  -> "AcceptedByDgii"
    [] estado = "Rechazado" -> "RejectedByDgii"
    [] OTHER                -> "Signed"

\* consultarTrackIds: recovers a missing trackId, or fails to.
Tracks(row) == IF row.track # None THEN {row.track} ELSE {None, row.encf}
-----------------------------------------------------------------------------
(* POST /documents, up to a row with a number of its own.                  *)

\* The handler returns; nothing of the request survives.
Return(w) ==
  /\ pc' = [pc EXCEPT ![w] = "idle"]
  /\ copy' = [copy EXCEPT ![w] = None]
  /\ job' = [job EXCEPT ![w] = None]
  /\ answer' = [answer EXCEPT ![w] = None]

Goto(w, step, row) ==
  /\ pc' = [pc EXCEPT ![w] = step]
  /\ copy' = [copy EXCEPT ![w] = row]
  /\ UNCHANGED answer

\* Fault: no wait before an uncertain document is reconciled.
AnsweredUnlessUncertain(row) ==
  row.st \notin NeverTransmittedStates
                  \cup {"Uncertain", "AwaitingTransmission", "RejectedByDgii"}

\* Fault: an uncertain document is never reconciled, however old.
AnsweredWhenUncertain(row) ==
  row.st \notin NeverTransmittedStates \cup {"RejectedByDgii"}

\* A document that is settled, under review or in DGII's hands, or an uncertain
\* one younger than two minutes: the stored row is the answer.
AnsweredAsIs(row) ==
  \/ row.st \notin NeverTransmittedStates
                     \cup {"Uncertain", "AwaitingTransmission", "RejectedByDgii"}
  \/ row.st \in {"Uncertain", "AwaitingTransmission"} /\ row.fresh

\* Fault: the resubmitted content is taken over before DGII is asked.
HandleWithContent(w, row, e) ==
  /\ ~AnsweredAsIs(row)
  /\ \/ /\ row.st \in NeverTransmittedStates
        /\ Goto(w, "saveContent", WithContent(row, e))
     \/ /\ row.st \in {"Uncertain", "AwaitingTransmission"}
        /\ Goto(w, "query", WithContent(row, e))
     \/ /\ row.st = "RejectedByDgii"
        /\ Goto(w, "reallocate", row)

\* handleExistingDocument, for a row it has to act on.
HandleExisting(w, row, e) ==
  /\ ~AnsweredAsIs(row)
  /\ \/ /\ row.st \in NeverTransmittedStates
        /\ Goto(w, "saveContent", WithContent(row, e))
     \/ /\ row.st \in {"Uncertain", "AwaitingTransmission"}
        /\ Goto(w, "query", row)
     \/ /\ row.st = "RejectedByDgii"
        /\ Goto(w, "reallocate", row)

\* submit: look the invoice up by TxnId.
Submit(w, t, e) ==
  /\ pc[w] = "idle"
  /\ t \in Serves[w]
  /\ job' = [job EXCEPT ![w] = [txn |-> t, edit |-> e]]
  /\ IF docs[t] = None
     THEN Goto(w, "allocate", None)
     ELSE HandleExisting(w, docs[t], e)
  /\ UNCHANGED <<dbVars, dgiiVars, aged, readerVars, pollVars>>

\* getNextEncf for a new document, and for the re-issue of a rejected one.
\* An exhausted range is an exception, which Abort covers.
Allocate(w) ==
  /\ HasNumber(seq, 1, MaxEncf)
  /\ seq' = NextNumber(seq, 1)
  /\ \/ /\ pc[w] = "allocate"
        /\ Goto(w, "insert", NewRow(seq', job[w].edit))
     \/ /\ pc[w] = "reallocate"
        /\ Goto(w, "saveReissue", ReissuedRow(copy[w], seq', job[w].edit))
  /\ UNCHANGED <<docs, dgiiVars, aged, job, readerVars, pollVars>>

\* add + saveChanges.  A unique index may refuse the row (the thread then looks
\* for the winner); any other failure ends the request.
Insert(w) ==
  LET t == job[w].txn
      free == docs[t] = None /\ Storable(t, copy[w])
  IN /\ pc[w] = "insert"
     /\ \/ /\ free
           /\ docs' = [docs EXCEPT ![t] = copy[w]]
           /\ Goto(w, "sign", copy[w])
        \/ /\ ~free
           /\ Goto(w, "releaseLost", copy[w])
           /\ UNCHANGED docs
        \/ /\ Goto(w, "releaseFailed", copy[w])
           /\ UNCHANGED docs
     /\ UNCHANGED <<seq, dgiiVars, aged, job, readerVars, pollVars>>

\* The re-issued row is saved under its new number, or the save throws.
SaveReissue(w) ==
  /\ pc[w] = "saveReissue"
  /\ \/ /\ Storable(job[w].txn, copy[w])
        /\ Update(job[w].txn, copy[w])
        /\ Goto(w, "sign", copy[w])
     \/ /\ Goto(w, "releaseFailed", copy[w])
        /\ UNCHANGED docs
  /\ UNCHANGED <<seq, dgiiVars, aged, job, readerVars, pollVars>>

\* releaseUnusedEncf; afterwards the loser of an insert race looks again, and a
\* request whose save failed for another reason ends.
ReleaseNumber(w) ==
  /\ pc[w] \in {"releaseLost", "releaseFailed"}
  /\ seq' = SteppedBack(seq, copy[w].encf)
  /\ \/ /\ pc[w] = "releaseLost"
        /\ Goto(w, "refetch", None)
        /\ UNCHANGED job
     \/ /\ pc[w] = "releaseFailed"
        /\ Return(w)
  /\ UNCHANGED <<docs, dgiiVars, aged, readerVars, pollVars>>

\* The loser of an insert race handles the winner's row.
Refetch(w) ==
  LET row == docs[job[w].txn]
  IN /\ pc[w] = "refetch"
     /\ \/ /\ row # None
           /\ HandleExisting(w, row, job[w].edit)
           /\ UNCHANGED job
        \/ /\ row = None \/ AnsweredAsIs(row)
           /\ Return(w)
     /\ UNCHANGED <<dbVars, dgiiVars, aged, readerVars, pollVars>>
-----------------------------------------------------------------------------
(* reconcileUncertain.                                                     *)

\* consultarEstado.  Found: the row takes DGII's word.  Not found, or no estado
\* at all: the document is taken as never transmitted.
QueryStatus(w) ==
  LET row == copy[w]
  IN /\ pc[w] = "query"
     /\ \E estado \in Estados(row.encf) :
          \/ /\ estado \notin NotFound
             /\ \E k \in Tracks(row) :
                  Goto(w, "saveQueried", [row EXCEPT !.track = k, !.sent = TRUE,
                                                     !.st = StateOf(estado)])
          \/ /\ estado \in NotFound
             /\ Goto(w, "saveContent", WithContent(row, job[w].edit))
     /\ UNCHANGED <<dbVars, dgiiVars, aged, job, readerVars, pollVars>>

SaveQueried(w) ==
  /\ pc[w] = "saveQueried"
  /\ Storable(job[w].txn, copy[w])
  /\ Update(job[w].txn, copy[w])
  /\ Return(w)
  /\ UNCHANGED <<seq, dgiiVars, aged, readerVars, pollVars>>

\* The refreshed content is saved before the document is signed again.
SaveContent(w) ==
  /\ pc[w] = "saveContent"
  /\ Storable(job[w].txn, copy[w])
  /\ Update(job[w].txn, copy[w])
  /\ Goto(w, "sign", copy[w])
  /\ UNCHANGED <<seq, dgiiVars, aged, job, readerVars, pollVars>>
-----------------------------------------------------------------------------
(* signAndSend.                                                            *)

\* Fault: nothing is saved between signing and sending.
SignWithoutSaving(w) ==
  /\ pc[w] = "sign"
  /\ Goto(w, "send", [copy[w] EXCEPT !.st = "AwaitingTransmission"])
  /\ UNCHANGED <<dbVars, dgiiVars, aged, job, readerVars, pollVars>>

\* Signing, the local schema check and the fallback-certificate check: a failure
\* is saved and ends the request; otherwise AwaitingTransmission is saved
\* before anything is sent.
Sign(w) ==
  LET t == job[w].txn
      ready == [copy[w] EXCEPT !.st = "AwaitingTransmission"]
  IN /\ pc[w] = "sign"
     /\ Storable(t, copy[w])
     /\ \/ \E f \in SignFailure :
             /\ Update(t, [copy[w] EXCEPT !.st = f])
             /\ Return(w)
        \/ /\ Update(t, ready)
           /\ Goto(w, "send", ready)
           /\ UNCHANGED job
     /\ UNCHANGED <<seq, dgiiVars, aged, readerVars, pollVars>>

\* sendEcf or sendRfce: the upload leaves.
Send(w) ==
  /\ pc[w] = "send"
  /\ wire' = wire \cup {[encf |-> copy[w].encf, txn |-> job[w].txn,
                         edit |-> copy[w].edit, from |-> w]}
  /\ Goto(w, "wait", copy[w])
  /\ UNCHANGED <<dbVars, dgii, aged, job, readerVars, pollVars>>

\* The answer of the send, and what it makes of the row.
Outcome(row, a) ==
  CASE a = "trackId"  -> [row EXCEPT !.track = row.encf, !.st = "Signed", !.sent = TRUE]
    [] a = "Aceptado" -> [row EXCEPT !.track = row.encf, !.st = "AcceptedByDgii", !.sent = TRUE]
    [] OTHER          -> [row EXCEPT !.st = "RejectedByDgii"]

TakeAnswer(w) ==
  /\ pc[w] = "wait"
  /\ answer[w] # None
  /\ pc' = [pc EXCEPT ![w] = IF answer[w] = "trackId" THEN "consult" ELSE "saveOutcome"]
  /\ copy' = [copy EXCEPT ![w] = Outcome(@, answer[w])]
  /\ answer' = [answer EXCEPT ![w] = None]
  /\ UNCHANGED <<dbVars, dgiiVars, aged, job, readerVars, pollVars>>

\* Nobody waits for w's upload any longer.
Disowned(w) ==
  {[m EXCEPT !.from = IF @ = w THEN None ELSE @] : m \in wire}

\* Fault: a send that failed counts as a rejection.
SendRejected(w) ==
  /\ pc[w] = "wait"
  /\ wire' = Disowned(w)
  /\ pc' = [pc EXCEPT ![w] = "saveOutcome"]
  /\ copy' = [copy EXCEPT ![w].st = "RejectedByDgii"]
  /\ answer' = [answer EXCEPT ![w] = None]
  /\ UNCHANGED <<dbVars, dgii, aged, job, readerVars, pollVars>>

\* A timeout, a broken connection, a 5xx, an answer with neither trackId nor
\* error: the outcome is unknown.  The upload may still be on its way.
SendUncertain(w) ==
  /\ pc[w] = "wait"
  /\ wire' = Disowned(w)
  /\ pc' = [pc EXCEPT ![w] = "saveOutcome"]
  /\ copy' = [copy EXCEPT ![w].st = "Uncertain"]
  /\ answer' = [answer EXCEPT ![w] = None]
  /\ UNCHANGED <<dbVars, dgii, aged, job, readerVars, pollVars>>

\* consultarResultado right after the send; a failure or a document still in
\* process leaves the row Signed.
Consult(w) ==
  LET estado == Estado(copy[w].track)
  IN /\ pc[w] = "consult"
     /\ \/ Goto(w, "saveOutcome", copy[w])
        \/ /\ estado \in {"Aceptado", "Rechazado"}
           /\ Goto(w, "saveOutcome", [copy[w] EXCEPT !.st = StateOf(estado)])
     /\ UNCHANGED <<dbVars, dgiiVars, aged, job, readerVars, pollVars>>

\* The last save; if it fails twice the row stays as it was (Abort).
SaveOutcome(w) ==
  /\ pc[w] = "saveOutcome"
  /\ Storable(job[w].txn, copy[w])
  /\ Update(job[w].txn, copy[w])
  /\ Return(w)
  /\ UNCHANGED <<seq, dgiiVars, aged, readerVars, pollVars>>

\* The thread dies, or an exception (a failed save, query or allocation) leaves
\* the handler.
Abort(w) ==
  /\ pc[w] # "idle"
  /\ Return(w)
  /\ wire' = Disowned(w)
  /\ UNCHANGED <<dbVars, dgii, aged, readerVars, pollVars>>
-----------------------------------------------------------------------------
(* GET /documents/{txnId}: also reconciles.                                *)

\* The row is read; one that is not settled is checked with DGII.
ReadDocument(g, t) ==
  /\ rpc[g] = "idle"
  /\ docs[t] # None
  /\ docs[t].st \in PollableStates
  /\ rpc' = [rpc EXCEPT ![g] = "query"]
  /\ rcopy' = [rcopy EXCEPT ![g] = docs[t]]
  /\ rtxn' = [rtxn EXCEPT ![g] = t]
  /\ UNCHANGED <<dbVars, dgiiVars, aged, workerVars, pollVars>>

ReaderReturns(g) ==
  /\ rpc' = [rpc EXCEPT ![g] = "idle"]
  /\ rcopy' = [rcopy EXCEPT ![g] = None]
  /\ rtxn' = [rtxn EXCEPT ![g] = None]

ReaderToSave(g, row) ==
  /\ rpc' = [rpc EXCEPT ![g] = "save"]
  /\ rcopy' = [rcopy EXCEPT ![g] = row]
  /\ UNCHANGED rtxn

\* With a trackId only a verdict is written; without one anything DGII has for
\* the eNCF is, and sentToDgiiAt is left as it was.
ReaderQuery(g) ==
  LET row == rcopy[g]
  IN /\ rpc[g] = "query"
     /\ \/ /\ row.track # None
           /\ Estado(row.track) \in {"Aceptado", "Rechazado"}
           /\ ReaderToSave(g, [row EXCEPT !.st = StateOf(Estado(row.track))])
        \/ /\ row.track = None
           /\ Estado(row.encf) \notin NotFound
           /\ \E k \in Tracks(row) :
                ReaderToSave(g, [row EXCEPT !.track = k, !.st = StateOf(Estado(row.encf))])
     /\ UNCHANGED <<dbVars, dgiiVars, aged, workerVars, pollVars>>

ReaderSave(g) ==
  /\ rpc[g] = "save"
  /\ Storable(rtxn[g], rcopy[g])
  /\ Update(rtxn[g], rcopy[g])
  /\ ReaderReturns(g)
  /\ UNCHANGED <<seq, dgiiVars, aged, workerVars, pollVars>>

\* Nothing to write, a failed call, or the thread dies.
ReaderAbort(g) ==
  /\ rpc[g] # "idle"
  /\ ReaderReturns(g)
  /\ UNCHANGED <<dbVars, dgiiVars, aged, workerVars, pollVars>>
-----------------------------------------------------------------------------
(* EcfStatusReconciler::reconcile, one pass every 15 minutes.              *)

\* getDueForStatusCheck: only documents DGII gave a trackId for are ever due.
Due == {t \in Txn : docs[t] # None /\ docs[t].st = "Signed" /\ docs[t].sent}

Fetched == {t \in Txn : batch[t] # None}

PollFetch ==
  /\ Poller
  /\ Fetched = {}
  /\ Due # {}
  /\ batch' = [t \in Txn |-> IF t \in Due THEN docs[t] ELSE None]
  /\ checked' = {}
  /\ UNCHANGED <<dbVars, dgiiVars, aged, workerVars, readerVars>>

\* Fault: no end to the polling window.
VerdictsForEver(row) ==
  LET n == IF row.track # None THEN row.track ELSE row.encf
  IN {row.st} \cup (IF Estado(n) \in {"Aceptado", "Rechazado"} THEN {StateOf(Estado(n))} ELSE {})

\* What one document's check makes of the copy.  An exception, "No encontrado"
\* and "in process" all leave the state alone.
Verdicts(row) ==
  IF row.encf \in aged THEN {"RequiresManualReview"}
  ELSE LET n == IF row.track # None THEN row.track ELSE row.encf
       IN {row.st} \cup (IF Estado(n) \in {"Aceptado", "Rechazado"}
                         THEN {StateOf(Estado(n))} ELSE {})

PollCheck(t) ==
  /\ t \in Fetched \ checked
  /\ \E v \in Verdicts(batch[t]) : batch' = [batch EXCEPT ![t].st = v]
  /\ checked' = checked \cup {t}
  /\ UNCHANGED <<dbVars, dgiiVars, aged, workerVars, readerVars>>

PassOver ==
  /\ batch' = [t \in Txn |-> None]
  /\ checked' = {}

\* One saveChanges for the whole batch: all of it or nothing.
PollSave ==
  /\ Fetched # {} /\ checked = Fetched
  /\ \A t \in Fetched : Storable(t, batch[t])
  /\ docs' = [t \in Txn |-> IF t \in Fetched THEN [batch[t] EXCEPT !.fresh = TRUE]
                                             ELSE docs[t]]
  /\ PassOver
  /\ UNCHANGED <<seq, dgiiVars, aged, workerVars, readerVars>>

\* The save fails, or the process dies during the pass.
PollAbort ==
  /\ Fetched # {}
  /\ PassOver
  /\ UNCHANGED <<dbVars, dgiiVars, aged, workerVars, readerVars>>
-----------------------------------------------------------------------------
(* DGII and the wire (external), and time.                                 *)

Answered(m, a) ==
  IF m.from # None THEN answer' = [answer EXCEPT ![m.from] = a] ELSE UNCHANGED answer

\* DGII takes an upload in.  An eNCF it already knows is refused as used.  A new
\* one is received and answered with a trackId (RecepcionFC decides at once),
\* or refused at the door.
DgiiReceives(m) ==
  LET Known(s) == dgii' = [dgii EXCEPT ![m.encf] = [st |-> s, txn |-> m.txn, edit |-> m.edit]]
  IN /\ m \in wire
     /\ wire' = wire \ {m}
     /\ \/ /\ dgii[m.encf] = None /\ m.txn \notin Rfce
           /\ Known("En Proceso") /\ Answered(m, "trackId")
        \/ /\ dgii[m.encf] = None /\ m.txn \in Rfce
           /\ \E s \in {"Aceptado", "Rechazado"} : Known(s) /\ Answered(m, s)
        \/ Answered(m, "error") /\ UNCHANGED dgii
     /\ UNCHANGED <<dbVars, aged, pc, copy, job, readerVars, pollVars>>

DgiiDecides(n) ==
  /\ dgii[n] # None /\ dgii[n].st = "En Proceso"
  /\ \E s \in {"Aceptado", "Rechazado"} : dgii' = [dgii EXCEPT ![n].st = s]
  /\ UNCHANGED <<dbVars, wire, aged, workerVars, readerVars, pollVars>>

UploadLost(m) ==
  /\ m \in wire
  /\ wire' = wire \ {m}
  /\ UNCHANGED <<dbVars, dgii, aged, workerVars, readerVars, pollVars>>

\* A request on t is between its send and its last save.
Sending(t) ==
  \E w \in Worker : /\ job[w] # None /\ job[w].txn = t
                    /\ pc[w] \in {"send", "wait", "consult", "saveOutcome"}

\* Two minutes pass since the row's last save.  Unless LateDelivery, no upload
\* and no request that made one is that old.
TwoMinutesPass(t) ==
  /\ docs[t] # None
  /\ docs[t].fresh
  /\ LateDelivery \/ (~Sending(t) /\ \A m \in wire : m.txn # t)
  /\ docs' = [docs EXCEPT ![t].fresh = FALSE]
  /\ UNCHANGED <<seq, dgiiVars, aged, workerVars, readerVars, pollVars>>

\* MaxPollingWindowHours pass since the eNCF was sent.
WindowCloses(n) ==
  /\ Poller
  /\ dgii[n] # None
  /\ n \notin aged
  /\ aged' = aged \cup {n}
  /\ UNCHANGED <<dbVars, dgiiVars, workerVars, readerVars, pollVars>>
-----------------------------------------------------------------------------
WorkerStep(w) ==
  \/ Allocate(w) \/ Insert(w) \/ SaveReissue(w) \/ ReleaseNumber(w) \/ Refetch(w)
  \/ QueryStatus(w) \/ SaveQueried(w) \/ SaveContent(w)
  \/ Sign(w) \/ Send(w) \/ TakeAnswer(w) \/ SendUncertain(w) \/ Consult(w)
  \/ SaveOutcome(w)

Next ==
  \/ \E w \in Worker, t \in Txn, e \in Edit : Submit(w, t, e)
  \/ \E w \in Worker : WorkerStep(w) \/ Abort(w)
  \/ \E g \in Reader, t \in Txn : ReadDocument(g, t)
  \/ \E g \in Reader : ReaderQuery(g) \/ ReaderSave(g) \/ ReaderAbort(g)
  \/ PollFetch \/ PollSave \/ PollAbort
  \/ \E t \in Txn : PollCheck(t) \/ TwoMinutesPass(t)
  \/ \E m \in wire : DgiiReceives(m) \/ UploadLost(m)
  \/ \E n \in Encf : DgiiDecides(n) \/ WindowCloses(n)

Spec == Init /\ [][Next]_vars

\* Something goes wrong: a thread or a pass dies, an upload is lost, a thread
\* gives up on one that is under way or answered, signing fails.  What a step
\* that did its work does as well (a save that changes nothing) is no failure.
Failure ==
  \/ PollAbort /\ ~PollSave
  \/ \E m \in wire : UploadLost(m)
  \/ \E w \in Worker :
       \/ Abort(w) /\ ~WorkerStep(w)
       \/ SendUncertain(w) /\ (answer[w] # None \/ Disowned(w) # wire)
       \/ Sign(w) /\ pc'[w] = "idle"

\* From some time on nothing goes wrong; before that, anything may, at any step.
Recovers == <>[][~Failure]_vars

\* The reconciler keeps passing and time goes by.
ReconcilerFairness ==
  /\ WF_vars(PollFetch) /\ WF_vars(PollSave)
  /\ \A t \in Txn : WF_vars(PollCheck(t))
  /\ \A n \in Encf : WF_vars(WindowCloses(n))

PollingSpec == Spec /\ Recovers /\ ReconcilerFairness

\* Clients submit again until their invoice is settled, a request runs to its
\* end, DGII takes in what reaches it.
RetryFairness ==
  /\ \A w \in Worker : /\ WF_vars(\E t \in Txn, e \in Edit : Submit(w, t, e))
                       /\ WF_vars(WorkerStep(w))
  /\ WF_vars(\E m \in wire : DgiiReceives(m))
  /\ \A t \in Txn : WF_vars(TwoMinutesPass(t))

LiveSpec == PollingSpec /\ RetryFairness
-----------------------------------------------------------------------------
TypeOK ==
  /\ docs \in [Txn -> Row \cup {None}]
  /\ seq \in 0 .. MaxEncf
  /\ wire \subseteq Message
  /\ dgii \in [Encf -> [st : {"En Proceso", "Aceptado", "Rechazado"}, txn : Txn, edit : Edit]
                       \cup {None}]
  /\ aged \subseteq Encf
  /\ pc \in [Worker -> {"idle", "allocate", "insert", "releaseLost", "releaseFailed",
                         "refetch", "reallocate", "saveReissue", "query", "saveQueried",
                         "saveContent", "sign", "send", "wait", "consult", "saveOutcome"}]
  /\ copy \in [Worker -> Row \cup {None}]
  /\ job \in [Worker -> [txn : Txn, edit : Edit] \cup {None}]
  /\ answer \in [Worker -> {"trackId", "Aceptado", "Rechazado", "error", None}]
  /\ rpc \in [Reader -> {"idle", "query", "save"}]
  /\ rcopy \in [Reader -> Row \cup {None}]
  /\ rtxn \in [Reader -> Txn \cup {None}]
  /\ batch \in [Txn -> Row \cup {None}]
  /\ checked \subseteq Txn

\* The eNCF n is put down to invoice t somewhere: in its row, at DGII, on the
\* wire, or in the copy a thread is working on.
Claims(n, t) ==
  \/ docs[t] # None /\ docs[t].encf = n
  \/ dgii[n] # None /\ dgii[n].txn = t
  \/ \E m \in wire : m.encf = n /\ m.txn = t
  \/ \E w \in Worker : copy[w] # None /\ copy[w].encf = n /\ job[w].txn = t
  \/ \E g \in Reader : rpc[g] # "idle" /\ rcopy[g].encf = n /\ rtxn[g] = t
  \/ batch[t] # None /\ batch[t].encf = n

\* No fiscal number ever serves two invoices, at DGII or anywhere on the way
\* there, whatever threads race to insert, re-issue and release
\* (getNextEncf, releaseUnusedEncf, the unique indexes).
EncfBelongsToOneInvoice ==
  \A n \in Encf : \A t, u \in Txn : Claims(n, t) /\ Claims(n, u) => t = u

\* The eNCF is, or may still come to be, in DGII's hands.
Transmitted(n) == dgii[n] # None \/ \E m \in wire : m.encf = n

Owner(n) ==
  IF dgii[n] # None THEN dgii[n].txn ELSE (CHOOSE m \in wire : m.encf = n).txn

\* Write-ahead: a number DGII has or may yet get is on its invoice's row, and
\* while it is the row's number the row does not call it never transmitted, so
\* no restart sends it again unasked (signAndSend's save before the send, and
\* reconcileUncertain's wait).
TransmittedIsOnRecord ==
  \A n \in Encf : Transmitted(n) =>
    LET row == docs[Owner(n)]
    IN row # None /\ row.encf >= n
         /\ (row.encf = n => row.st \notin NeverTransmittedStates)

\* A row is called accepted only for the number, and with the content, that DGII
\* accepted for this invoice: no state read for one number is written against
\* another, and no content replaced after it was sent.
AcceptedRowIsAtDgii ==
  \A t \in Txn : docs[t] # None /\ docs[t].st = "AcceptedByDgii" =>
    LET d == dgii[docs[t].encf]
    IN d # None /\ d.st = "Aceptado" /\ d.txn = t /\ d.edit = docs[t].edit

\* Whatever overlaps - two requests, a GET, a pass, an upload from hours ago -
\* a row is called accepted only for a number that DGII accepted, and accepted
\* for this invoice (reconcileUncertain, the GET by TxnId, the reconciler and
\* the answer to the send each write what they learnt over a row they read earlier).
AcceptedNumberIsAtDgii ==
  \A t \in Txn : docs[t] # None /\ docs[t].st = "AcceptedByDgii" =>
    LET d == dgii[docs[t].encf] IN d # None /\ d.st = "Aceptado" /\ d.txn = t

\* DGII never holds two valid fiscal numbers for one invoice.
OneValidEncfPerInvoice ==
  \A n, k \in Encf : /\ dgii[n] # None /\ dgii[n].st = "Aceptado"
                     /\ dgii[k] # None /\ dgii[k].st = "Aceptado"
                     /\ dgii[n].txn = dgii[k].txn
                     => n = k

\* An upload leaves only for a number that DGII does not have and that is not
\* already on its way (reconcileUncertain asks before it sends again).
NeverSentTwice ==
  [][\A w \in Worker : pc[w] = "send" /\ pc'[w] = "wait" => ~Transmitted(copy[w].encf)]_vars

\* The state diagram's end state: once a row is accepted no step takes it back.
AcceptedIsFinal ==
  [][\A t \in Txn : docs[t] # None /\ docs[t].st = "AcceptedByDgii"
                      => docs'[t].st = "AcceptedByDgii"]_vars

InState(t, S) == docs[t] # None /\ docs[t].st \in S

\* getDueForStatusCheck would select the row.
Listed(t) == InState(t, {"Signed"}) /\ docs[t].sent

\* No document stays on the reconciler's list for ever: a pass finds DGII's
\* verdict, or closes the case after 72 hours, and its save lands in spite of
\* failed passes and of what GET writes meanwhile (EcfStatusReconciler::reconcile).
ListIsWorkedOff == \A t \in Txn : Listed(t) ~> ~Listed(t)

\* What the README says of the background thread, for the documents it does
\* list: they leave the list settled.
SignedIsSettled ==
  \A t \in Txn :
    Listed(t) ~> InState(t, {"AcceptedByDgii", "RejectedByDgii", "RequiresManualReview"})

\* An invoice the client keeps submitting does not stay in doubt, whatever is
\* lost, refused or crashes on the way: the two-minute wait, the status query and
\* the second send (handleExistingDocument, reconcileUncertain) bring its row to
\* DGII's verdict, or onto the reconciler's list, and that is worked off.  Two
\* things it takes: the client's retries, since the reconciler by itself selects
\* no such document, though the README has it do so (getDueForStatusCheck: under
\* PollingSpec alone this does not hold); and that no GET saves, since one that
\* does may take the row off the list (SignedIsSettled).
InDoubtIsResolved ==
  (\A g \in Reader : [](rpc[g] # "save")) =>
    \A t \in Txn :
      InState(t, {"Uncertain", "AwaitingTransmission"})
        ~> InState(t, {"AcceptedByDgii", "RejectedByDgii", "RequiresManualReview"})

\* What FiscalNumbers speaks of, seen in the state of DGII and of the service.
Promise == INSTANCE FiscalNumbers WITH
  held <- dgii,
  reported <- [t \in Txn |-> IF docs[t] # None /\ docs[t].st = "AcceptedByDgii"
                             THEN [encf |-> docs[t].encf, edit |-> docs[t].edit] ELSE None]

\* All of it together - allocation, write-ahead, reconciliation, re-issue -
\* implements FiscalNumbers: an upload reaches DGII only when no other number
\* of its invoice is or may become valid, and a row goes to AcceptedByDgii once,
\* under the number and with the content DGII accepted for it.
KeepsFiscalPromise == Promise!Spec

\* What the README says of a lost insert race: the loser fetches the winner's
\* row and returns it.  It asks for nothing to be saved, signed or sent.
LoserReturnsWinner ==
  [][\A w \in Worker : pc[w] = "refetch" => pc'[w] \in {"refetch", "idle"}]_vars
=============================================================================
