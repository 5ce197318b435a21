------------------------------- MODULE DirectEcf --------------------------------
(***************************************************************************)
(* EcfController and its handlers: documents that were built and numbered  *)
(* elsewhere are sent to DGII as they come (POST /api/ecf/send and         *)
(* send-rfce), and DGII is asked for the status of any number (GET         *)
(* /api/ecf/status), which is written to the row that has that number.     *)
(*                                                                         *)
(* EcfClient::sendRfce sends an RFCE again, under a number of the          *)
(* MemorySequenceProvider, when DGII refused it without using the number   *)
(* up.  That provider counts in memory, from 1 after each restart.  Unlike *)
(* DocumentsController, the handlers write the row after DGII's answer.    *)
(*                                                                         *)
(* Rows of POST /documents are here as well: a status query finds them,    *)
(* and they change while it waits for DGII (EcfDocuments has the whole).   *)
(*                                                                         *)
(* DGII keeps the numbers of each of its environments apart, and the       *)
(* invoices of POST /documents choose theirs.  All the calls here go to    *)
(* the one the service is configured for: a status query does not look at  *)
(* the environment of the row it finds, and writes to it what DGII says of *)
(* the number in that other one.  So does the reconciler, of an invoice    *)
(* whose issuer it finds no signer for.                                    *)
(***************************************************************************)
EXTENDS Naturals, Sequences, FiniteSets

CONSTANTS
  Environment, \* of DGII
  Configured,  \* the service's own
  Rnc,         \* issuers
  Handler,     \* threads serving requests
  Chosen,      \* numbers the callers put on their documents
  MaxRetries,  \* two
  LastNumber,  \* bound: numbers of an issuer
  MaxCalls     \* bound: calls

ASSUME EnvironmentAssumption == Configured \in Environment /\ "" \notin Environment

ASSUME DirectAssumption ==
  /\ {MaxRetries, LastNumber, MaxCalls} \subseteq Nat
  /\ Chosen \subseteq 1 .. LastNumber
  /\ IsFiniteSet(Handler)

Number == 1 .. LastNumber

VARIABLES
  verdict,    \* DGII's, per environment, issuer and number
  docs,       \* ecf_documents; amb: the environment of an invoice of POST
              \* /documents, "" where there is none
  sequences,  \* sequences_ of the MemorySequenceProvider
  job,        \* per thread; spent: numbers DGII holds on account of the request
  calls       \* history: how many there were

directVars == <<verdict, docs, sequences, job, calls>>

Free == [at |-> "free", rnc |-> "", number |-> 0, tries |-> 0, spent |-> 0,
         estado |-> "", doc |-> 0, old |-> ""]

Jobs(h, j) == job' = [job EXCEPT ![h] = j]

Doing(h, step) == job[h].at = step

Busy(r) == {h \in Handler : job[h].at \in {"rfce", "ecf", "add"} /\ job[h].rnc = r}

\* A row that waits for a status query, or none at all.
DirectInit ==
  /\ verdict \in [Environment -> [Rnc -> [Number -> {"none"}]]]
  /\ sequences = [r \in Rnc |-> 0]
  /\ job = [h \in Handler |-> Free]
  /\ calls = 0
  /\ docs \in {<<>>} \cup {<<[rnc |-> r, encf |-> n, state |-> "Uncertain", amb |-> e]>> :
                             r \in Rnc, n \in Chosen, e \in Environment}
-----------------------------------------------------------------------------
(* DGII.                                                                   *)

\* RecepcionFC on an RFCE: what it says, and what becomes of the number.
Judged(v) ==
  IF v # "none" THEN {[estado |-> "Rechazado", secuenciaUtilizada |-> TRUE, verdict |-> v]}
  ELSE {[estado |-> "Aceptado", secuenciaUtilizada |-> TRUE, verdict |-> "accepted"],
        [estado |-> "Rechazado", secuenciaUtilizada |-> TRUE, verdict |-> "refused"],
        [estado |-> "Rechazado", secuenciaUtilizada |-> FALSE, verdict |-> "none"],
        [estado |-> "", secuenciaUtilizada |-> FALSE, verdict |-> "none"]}

\* The reception of an e-CF: a trackId, or an error and the number untouched.
Received(v) ==
  {[trackId |-> FALSE, verdict |-> v]}
    \cup (IF v = "none" THEN {[trackId |-> TRUE, verdict |-> "pending"]} ELSE {})

\* consultarEstado: a body of another kind has no estado, whatever its status.
Said(v) ==
  {"", CASE v = "none" -> "No encontrado"
         [] v = "pending" -> "En Proceso"
         [] v = "accepted" -> "Aceptado"
         [] v = "refused" -> "Rechazado"}

Decide(e, r, n) ==
  /\ verdict[e][r][n] = "pending"
  /\ \E v \in {"accepted", "refused"} : verdict' = [verdict EXCEPT ![e][r][n] = v]
  /\ UNCHANGED <<docs, sequences, job, calls>>
-----------------------------------------------------------------------------
(* Sending.                                                                *)

Counted == calls < MaxCalls /\ calls' = calls + 1

Start(h, r, n, kind) ==
  /\ Doing(h, "free")
  /\ Counted
  /\ sequences[r] + MaxRetries * (1 + Cardinality(Busy(r))) <= LastNumber
  /\ Jobs(h, [Free EXCEPT !.at = kind, !.rnc = r, !.number = n])
  /\ UNCHANGED <<verdict, docs, sequences>>

\* Fault: the retries are not counted.
AgainForever(j, a) == a.estado = "Rechazado" /\ ~a.secuenciaUtilizada

\* Fault: any refusal is a reason to take another number.
AgainWhenRefused(j, a) == a.estado = "Rechazado" /\ j.tries < MaxRetries

Again(j, a) == a.estado = "Rechazado" /\ ~a.secuenciaUtilizada /\ j.tries < MaxRetries

\* MemorySequenceProvider, under its mutex.
GetNext(r) == sequences[r] + 1

\* One round of EcfClient::sendRfce.
SendRfce(h) ==
  LET j == job[h]
      v == verdict[Configured][j.rnc][j.number]
  IN /\ Doing(h, "rfce")
     /\ \E a \in Judged(v) :
          LET k == [j EXCEPT !.spent = @ + (IF a.verdict # v THEN 1 ELSE 0)]
          IN /\ verdict' = [verdict EXCEPT ![Configured][j.rnc][j.number] = a.verdict]
             /\ \/ /\ Again(j, a)
                   /\ Jobs(h, [k EXCEPT !.number = GetNext(j.rnc), !.tries = @ + 1])
                   /\ sequences' = [sequences EXCEPT ![j.rnc] = GetNext(j.rnc)]
                \/ /\ ~Again(j, a)
                   /\ Jobs(h, [k EXCEPT !.at = "add", !.estado = a.estado])
                   /\ UNCHANGED sequences
     /\ UNCHANGED <<docs, calls>>

\* SendEcfCommandHandler: received, or refused at the door.
SendEcf(h) ==
  LET j == job[h]
  IN /\ Doing(h, "ecf")
     /\ \E a \in Received(verdict[Configured][j.rnc][j.number]) :
          /\ verdict' = [verdict EXCEPT ![Configured][j.rnc][j.number] = a.verdict]
          /\ Jobs(h, [j EXCEPT !.at = "add",
                               !.estado = IF a.trackId THEN "Recibido" ELSE "Rechazado"])
     /\ UNCHANGED <<docs, sequences, calls>>

\* The call ends without its row or its save: DGII's answer is lost, or the
\* database refuses.
Fail(h) ==
  LET j == job[h]
      v == verdict[Configured][j.rnc][j.number]
      Judgments == IF Doing(h, "rfce") THEN Judged(v)
                   ELSE IF Doing(h, "ecf") THEN Received(v) ELSE {}
  IN /\ ~Doing(h, "free")
     /\ Jobs(h, Free)
     /\ \/ UNCHANGED verdict
        \/ \E a \in Judgments : verdict' = [verdict EXCEPT ![Configured][j.rnc][j.number] = a.verdict]
     /\ UNCHANGED <<docs, sequences, calls>>

\* The row has the number the document was last sent under, no environment, no
\* TxnId and no time of sending: rows of one number are not refused, and the
\* reconciler does not select them.
AddDoc(h) ==
  /\ Doing(h, "add")
  /\ docs' = Append(docs, [rnc |-> job[h].rnc, encf |-> job[h].number,
                           state |-> job[h].estado, amb |-> ""])
  /\ Jobs(h, Free)
  /\ UNCHANGED <<verdict, sequences, calls>>
-----------------------------------------------------------------------------
(* GetEcfStatusQueryHandler.                                               *)

\* Fault: the issuer of the row is not looked at.
AnyIssuer(doc, r) == FALSE

Denied(doc, r) == doc.rnc # r

SaysAccepted(state) == state \in {"AcceptedByDgii", "Aceptado"}

\* The row is any one with the number, getByENcf takes the first, whatever its
\* environment; the answer comes from an accepted row without asking, and no row
\* is no obstacle.
Found(h, asking) ==
  LET rows == {i \in DOMAIN docs : docs[i].encf = asking.number}
  IN \/ rows = {} /\ Jobs(h, asking)
     \/ \E i \in rows :
          /\ ~Denied(docs[i], asking.rnc) /\ ~SaysAccepted(docs[i].state)
          /\ Jobs(h, [asking EXCEPT !.doc = i, !.old = docs[i].state])

\* EcfController::status, for an issuer and a number.
Ask(h, r, n) ==
  /\ Doing(h, "free")
  /\ Counted
  /\ Found(h, [Free EXCEPT !.at = "ask", !.rnc = r, !.number = n])
  /\ UNCHANGED <<verdict, docs, sequences>>

MappedState(estado) ==
  CASE estado = "Aceptado" -> "AcceptedByDgii"
    [] estado = "Rechazado" -> "RejectedByDgii"
    [] estado = "En Proceso" -> "SentToDgii"
    [] OTHER -> estado

Told(h) ==
  LET j == job[h]
  IN /\ Doing(h, "ask")
     /\ \E e \in Said(verdict[Configured][j.rnc][j.number]) :
          Jobs(h, IF j.doc # 0 /\ j.old # MappedState(e)
                  THEN [j EXCEPT !.at = "update", !.estado = MappedState(e)] ELSE Free)
     /\ UNCHANGED <<verdict, docs, sequences, calls>>

\* The whole row is written as it was read, but for its state.
UpdateDoc(h) ==
  /\ Doing(h, "update")
  /\ docs' = [docs EXCEPT ![job[h].doc].encf = job[h].number,
                          ![job[h].doc].state = job[h].estado]
  /\ Jobs(h, Free)
  /\ UNCHANGED <<verdict, sequences, calls>>
-----------------------------------------------------------------------------
(* The invoices of POST /documents meanwhile.                              *)

\* Whom a retry and the reconciler ask: the environment of the invoice, but a
\* reconciler that has no signer of the issuer asks with the service's own client.
Asked(d) == {d.amb} \cup (IF d.state = "SentToDgii" THEN {Configured} ELSE {})

\* They find out what DGII decided.
SettleInvoice(i) ==
  /\ docs[i].amb # "" /\ docs[i].state \in {"Uncertain", "SentToDgii"}
  /\ \E e \in Asked(docs[i]) :
       LET v == verdict[e][docs[i].rnc][docs[i].encf]
       IN /\ v \in {"accepted", "refused"}
          /\ docs' = [docs EXCEPT ![i].state = IF v = "accepted" THEN "AcceptedByDgii"
                                                                ELSE "RejectedByDgii"]
  /\ UNCHANGED <<verdict, sequences, job, calls>>

\* A refused invoice goes out under another number.
ReissueInvoice(i, n) ==
  /\ docs[i].amb # "" /\ docs[i].state = "RejectedByDgii"
  /\ verdict[docs[i].amb][docs[i].rnc][n] = "none"
  /\ docs' = [docs EXCEPT ![i].encf = n, ![i].state = "Uncertain"]
  /\ verdict' = [verdict EXCEPT ![docs[i].amb][docs[i].rnc][n] = "pending"]
  /\ UNCHANGED <<sequences, job, calls>>

DirectRestart ==
  /\ sequences' = [r \in Rnc |-> 0]
  /\ job' = [h \in Handler |-> Free]
  /\ UNCHANGED <<verdict, docs, calls>>

DirectStep ==
  \/ \E h \in Handler :
       \/ \E r \in Rnc, n \in Chosen :
            Start(h, r, n, "rfce") \/ Start(h, r, n, "ecf") \/ Ask(h, r, n)
       \/ SendRfce(h) \/ SendEcf(h) \/ Fail(h) \/ AddDoc(h) \/ Told(h) \/ UpdateDoc(h)
  \/ \E e \in Environment, r \in Rnc, n \in Number : Decide(e, r, n)
  \/ \E i \in DOMAIN docs : SettleInvoice(i) \/ \E n \in Number : ReissueInvoice(i, n)

DirectNext == DirectStep \/ DirectRestart

DirectSpec == DirectInit /\ [][DirectNext]_directVars
-----------------------------------------------------------------------------
Estados == {"", "No encontrado", "Aceptado", "Rechazado", "Recibido", "Uncertain", "SentToDgii",
            "AcceptedByDgii", "RejectedByDgii"}

DirectTypeOK ==
  /\ verdict \in [Environment -> [Rnc -> [Number -> {"none", "pending", "accepted", "refused"}]]]
  /\ docs \in Seq([rnc : Rnc, encf : Number, state : Estados, amb : Environment \cup {""}])
  /\ sequences \in [Rnc -> 0 .. LastNumber]
  /\ calls \in 0 .. MaxCalls
  /\ job \in [Handler -> [at : {"free", "rfce", "ecf", "add", "ask", "update"},
                          rnc : Rnc \cup {""}, number : Number \cup {0}, tries : 0 .. MaxRetries,
                          spent : Nat, estado : Estados, doc : Nat, old : Estados]]

\* One RFCE costs one number: it goes out under another only when DGII left the
\* last one unused, also when two companies' or two threads' RFCEs, or those of
\* the process before a restart, have been given the same one
\* (EcfClient::sendRfce).
OneNumberPerRfce == \A h \in Handler : job[h].spent <= 1

\* A row says accepted only if DGII accepted its number of its issuer, whichever
\* company asks for a number that two have, under whatever number the RFCE ended
\* up, and though a status query writes a row that went on meanwhile
\* (SendRfceCommandHandler, GetEcfStatusQueryHandler).  Where it accepted it is the
\* environment the service is configured for or the row's own: an invoice of
\* another environment that a status query finds, or the reconciler checks without
\* a signer, says accepted of a number that may be accepted in the configured one
\* alone.
AcceptedOnlyByDgii ==
  \A i \in DOMAIN docs :
    SaysAccepted(docs[i].state) =>
      \E e \in {Configured, docs[i].amb} \cap Environment :
        verdict[e][docs[i].rnc][docs[i].encf] = "accepted"
=============================================================================
