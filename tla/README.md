# Verification of the e-CF client

This directory holds TLA+ models of the C++ e-CF engine (`src/` of the
repository), the TLC runs that check them on small instances and the proofs
TLAPS checks for every instance. An e-CF is an electronic invoice: the engine
receives a canonical JSON document, gives it a fiscal number (eNCF), builds and
signs its XML, sends it to DGII (the tax authority) and follows it until DGII
accepts or rejects it. A fiscal number used twice, or one invoice with two valid
numbers, cannot be undone. That is what the core of this development is about;
around it are the machines that carry an invoice there: idempotency keys, access
tokens, signers, the computation of what the invoice says, and the endpoints
other companies call.

## 1. Inventory

| Component | State it keeps | Operations | Talks to |
|---|---|---|---|
| eNCF allocation (`EcfSequenceManager`) | rows of `ecf_sequences` | `getNextEncf`, `releaseUnusedEncf` | POST handler (called), PostgreSQL row locks |
| Document lifecycle (`DocumentsController`, POST `/documents`) | rows of `ecf_documents`; a private copy per request | `submit`, `handleExistingDocument`, `reconcileUncertain`, `signAndSend` | sequence manager, document store, signer, DGII |
| Document queries (GET `/documents/{txnId}`, XML getters, POST reconcile) | the same rows | the GET by TxnId asks DGII and writes; the others read | document store, DGII |
| Background reconciler (`EcfStatusReconciler`, thread in `main.cpp`) | the batch of a pass | fetch, check each, save all | document store, DGII |
| Document store (`EcfDocumentRepository`, `DbContext`) | staged operations | `add`, `update`, lookups, `saveChanges` | PostgreSQL unique indexes |
| DGII transport (`DgiiDirectTransport`, `EcfClient`) | none | send, queries, one retry after a 401 | DGII over HTTP, token manager |
| Application handlers (`EcfController`, `EcfHandlers`, `MemorySequenceProvider`) | document rows; counters in memory | send, send RFCE with retries, status query that writes the row | document store, DGII |
| Idempotency keys (`DbIdempotencyStore`, `IdempotencyHandler`) | `ecf_idempotency_records` | reserve, complete, release | in front of POST handlers |
| Token manager (`EcfTokenManager`) | token in memory and in the cache | `getToken`, `invalidate`, renewal | Redis lock, DGII |
| Redis cache (`RedisCacheService`) | entries and locks, in Redis or in memory | get, set, `acquireLock`, `releaseLock` | Redis, which may be away |
| B2B endpoints (`EmisorReceptorController`) | seeds issued, tokens active | issue and consume a seed, check a token, receive | peers |
| Worker authentication (`UserOrWorkerFilter`, `NonceCache`) | nonces seen | check a signed request once | every worker call |
| Signer resolution (`TenantSignerResolver`) | a cache per tenant and caller | resolve | database, `.pfx` files |
| Canonical validation and XML (`submit`, `CanonicalXmlBuilder`) | none | computation of items, totals, retentions, RFCE | POST handler |
| Signature, XML and JSON mapping, configuration, users, customers | none, or one row per call | parsing, formatting, CRUD | |

How they interact: the handlers run on Drogon's threads, each request on one
thread, synchronously, so two requests for one invoice interleave at every
database transaction and every DGII call. Threads share the database, and a few
maps in memory, each under a mutex that is free between two calls: a handler
reads a row, works on its copy and writes the whole row back. The numbers come
from transactions of their own, apart from the one that stores the document. DGII
answers a send with a receipt and decides later; a send may time out although it
arrived.

What is hard, and what correctness means for it:

* **Allocation.** Row locks serialise allocations, but the fallback from one
  scope to its alternative takes two SELECTs, and a release steps a counter
  back. No number may be out twice, none may lie outside its range.
* **Document lifecycle.** Crash or timeout between send and save; retries;
  two requests for one invoice; re-issue of a rejected one. Every transmission
  must be on record before it can happen, nothing DGII may have is sent again
  unasked, one invoice never has two valid numbers, and a document in doubt
  can be brought out of it by its client.
* **GET and reconciler.** Both write rows they read earlier. What they write
  must stay true of the number it is written for, and every listed document
  must leave the list.
* **Idempotency keys.** The SELECT of `reserveOrGet` locks nothing, leases expire
  under their owner, and the response of one payload must not be replayed to another.
* **Tokens.** A lock in Redis, one in memory when Redis is away, and a mutex in
  each manager: one renewal at a time, no call that waits for ever, and no
  refused token that keeps coming back from a cache.
* **Worker authentication.** A request delivered again does not pass again. Its
  age is counted in whole seconds, that of its nonce is not.
* **Receiving.** A seed buys one token though presented twice at once; a
  certificate that was withdrawn, or made up while its file was away, does not
  stay in the cache for long.
* **Computing the e-CF.** Discounts come in five shapes, each item and each
  total is converted and rounded on its own, and the summary of a small invoice
  is computed from other figures than the invoice.
* **Direct sending.** Retries draw numbers from a counter that restarts at 1, a
  row is written after DGII has answered, and a status query finds rows of other
  companies and of other environments of DGII.

`PROJECT.json` lists the hazards one by one, at their lines, each with the
properties that would catch it or the reason why none does.

## 2. Modules

| Module | Models | Runs and proofs |
|---|---|---|
| `SequenceRow` | the arithmetic of one `ecf_sequences` row | used by the next two |
| `EcfSequences` | all rows, all scopes, any number of callers | `MCEcfSequences`; proved in `EcfSequencesProofs` |
| `EcfDocuments` | POST, GET and reconciler over the rows of `ecf_documents`, DGII and the wire | `MCEcfDocuments`, `MCFiscalPromise`; proved in `EcfDocumentsProofs` and `FiscalPromiseProofs` |
| `FiscalNumbers` | the promise: what clients and DGII see of it | implemented by `EcfDocuments` (`KeepsFiscalPromise`), checked and proved |
| `IdempotentRequests` | the worker filter with its nonces, the idempotency store and the handler around it | `MCIdempotentRequests`; proved in `IdempotentRequestsProofs` |
| `DgiiTokens` | calls to DGII, token managers, Redis and the fallback | `MCDgiiTokens`; proved in `DgiiTokensProofs` |
| `Money` | rounding and conversion of amounts | used by the next |
| `CanonicalInvoice` | checks, lines, items, totals, retentions, RFCE | in `HostedCompany`; proved in `HostedCompanyProofs` |
| `EmisorReceptor` | seeds, tokens, receptions, and the signers | in `HostedCompany`; proved in `EmisorReceptorProofs` |
| `DirectEcf` | `EcfController` and its handlers, `sendRfce`, its numbers | in `HostedCompany`; proved in `DirectEcfProofs` |
| `HostedCompany` | the three before it together | `MCHostedCompany`; proved in `HostedCompanyProofs` |

**`EcfSequences`.** `scopeOf`, `actual` and `expired` are the columns
`tenant_id`, `secuencia_actual` and "no valid `fecha_vencimiento`" of each row;
`pc`, `want` and `held` are what a request is about; `used` is the set of
numbers stored documents carry. A transaction that finds its row is one action
(the row lock serialises it). `OwnRowMissing` is the first SELECT that finds
nothing and therefore locks nothing; `TakeAlternate` and `AlternateFails` are
the second. `ReleaseUnusedEncf` is the UPDATE of every row in the caller's scope
or in what stands before its `:`. Scopes are members of a set, with `Alt` and
`Bare` for the two ways the code derives one scope from another. One document
type: the type is a column of every WHERE clause, so types never meet.

**`EcfDocuments`.** `docs[t]` is the row of invoice `t`; `seq` the counter of
the one sequence row its numbers come from (what happens between several rows
is `EcfSequences`' matter). A POST thread is `pc`, `copy` (its copy of
the row), `job` (the request) and `answer` (DGII's, when it has arrived); the actions
follow the code from one transaction or DGII call to the next. A GET thread is
`rpc`, `rcopy`, `rtxn`; the reconciler is `batch` and `checked`. `wire` holds
uploads in flight, `dgii[n]` what DGII knows of number `n`, `aged` the numbers
older than 72 hours. `Abort`, `ReaderAbort` and `PollAbort` let a thread die or an
exception leave its handler at any step. Time is two events: `TwoMinutesPass`
makes a row old enough for `reconcileUncertain`, `WindowCloses` ends the
polling window. What the code distinguishes of XML is only which submission it was
built from, so content is the `EditSequence`; a trackId is the number it was
issued for. HTTP answers, texts, security codes and audit columns are left out,
since nothing reads them back to decide anything. DGII itself is external:
it refuses a number it knows, receives or refuses a new one, and decides once.

**`FiscalNumbers`** knows nothing of rows, threads and uploads: DGII registers a
number for an invoice that has none alive, decides on it, and the service
reports acceptances. `EcfDocuments` maps `held` to `dgii` and `reported` to the rows
in `AcceptedByDgii`; everything else it does is a stutter.

**`IdempotentRequests`.** A worker's signed request (`sent`) is delivered as
often as it likes; `nonces` is the cache in memory; `rec` the table. A thread goes
lookup - decide - overwrite - handle - answer: the SELECT of the record, the decision with
the SELECT of the document's state it may rest on (`isUnderlyingDocumentRejected`), and the
UPDATE are separate statements and separate steps. `stale` marks the threads whose row was
written since they read it, `raced` the keys reserved twice at once, which the code allows
in two situations (see `Reserve` and `Reclaim`); `of` records which payload a stored response
answers. Drift, life of a nonce and lease are all five minutes, but `UserOrWorkerFilter.cpp:89`
compares whole seconds and `NonceCache.cpp:25` milliseconds: a tick stands for the
latter, a second is `Second` ticks, five minutes are `Window` seconds or `Life` ticks, and a
request is dated at the beginning of its second. A worker's clock may be `Lead` ticks ahead.
The drift check and the look at the nonces of one request are one step: they are some
lines of straight code apart, with signature and key checks between them.

**`DgiiTokens`.** Each Redis command, mutex section and request to DGII is a
step; `memory` and `mutex` belong to a manager, `useRedis`, `local` and `localLock`
to a process, `shared` and `lock` to Redis. A token is good or dead; copies run
out at any moment. `Restart` empties a process, `RedisSwings` takes Redis away and
brings it back.

**`CanonicalInvoice`.** `inv` is the canonical document, `step` the loop the
builder is in; `TakeLine`, `EndLines`, `ConvertItem`, `TakeTotals`, `ShareItem`,
`WriteItem`, `Finish` are the bodies and ends of the loops. An ERP's quantities are
thousandths and its prices hundred-thousandths, each with one decimal more than the e-CF
writes, so that `round2(rawQty)` and `round4(rawPrice)` do something; its amounts and the
discounts of its lines are whole cents. `submit` admits finer ones of all four: they round in the same way.
`Rounded` is exact, where the code rounds doubles. `read` is what a reader of the XML would add up.

**`EmisorReceptor`.** A call is a token check and a look at the signer cache and
then, on a miss, SELECT, file and cache write, each a step of its own. `given`, `bought`
and `withdrawn` are histories; the last says for how long nobody could have found a
certificate (`Present`): one of the row, one of the file, or the one made up while there is no file.
One company, with its row in `"Tenants"` and its `.pfx` file. What `signXml` makes of the certificate
it is given is left out: `validateCertificateSn` (`EcfXmlSigner.cpp:289`) accepts certificates of other
identities as well, so that no claim is made about whose signature a receipt bears.

**`DirectEcf`.** `verdict` is what DGII holds, per environment, issuer and number; `docs` the
rows, of which those of POST `/documents` have an environment (`amb`); a call is `ecf`, `rfce` with
its retries, or `ask`, and `add` or `update` when it writes. All calls go to `Configured`, the one
environment of `AppServices::ecfClient`; a retry of an invoice asks the invoice's own, and so does
the reconciler unless it finds no signer (`Asked`).

**`HostedCompany`** puts the three beside each other. The code keeps them nearly apart and so does the
module. They share the process: `Restart` takes seeds, tokens and signers and the
counters and direct calls in one step. And they are in sequence where the code is: an invoice is
built before its signer is resolved.

Operators whose comment begins with "Fault:" are deliberately wrong versions
of the definition that follows. Nothing uses them: they are there to be put in
its place, to see that the property listed with them in `PROJECT.json` then
fails.

## 3. Runs

| Run | Asks | Bounds |
|---|---|---|
| `sequences` | `TypeOK`, `NoDoubleIssue`, `WithinAuthorisedRange`, `CounterCoversIssued` | 3 callers, 2 rows of 3 numbers each, a pair of alternative scopes and a third one, counters loaded at 0 or 1 (below one range, inside the other) |
| `sequences_collide` | `NoDoubleIssue`, violated | the default tenant with and without environment, 2 callers |
| `documents_in_turn` | `PromiseInv`, `TransmittedIsOnRecord`, `AcceptedRowIsAtDgii`, `OneValidEncfPerInvoice`, `NeverSentTwice`, `AcceptedIsFinal`, `KeepsFiscalPromise` | 2 invoices, one of them for RecepcionFC, a thread for each, a GET and the reconciler, which take turns on an invoice (`CONSTRAINT OneAtATime`), 2 contents, 2 numbers |
| `documents_racing` | `EncfBelongsToOneInvoice` | 2 requests that race for one invoice while one of them may also serve the other, 2 numbers |
| `documents_loser` | `LoserReturnsWinner`, violated | as `documents_racing` |
| `documents_live` | `TypeOK`, `AcceptedNumberIsAtDgii`, `ListIsWorkedOff`, `InDoubtIsResolved` | 1 invoice, a POST, a GET and the reconciler at once, 2 numbers |
| `documents_overwritten` | `AcceptedIsFinal`, violated | 1 invoice, a POST and a GET |
| `documents_unlisted` | `SignedIsSettled`, violated | 1 invoice, POST, GET and reconciler |
| `requests` | `TypeOK`, `DeliveredOnce`, `HandledByOne`, `AnswersItsPayload`, `SuccessIsKept`, `KeyIsFreed` | 2 threads, 1 key, 2 payloads, 1 signed request at a time; a second of 2 ticks, a `Window` of 1 second, a worker's clock up to 1 tick ahead |
| `tokens` | `TypeOK`, `RenewedByOne`, `EveryCallEnds`, `RefusedTokenIsReplaced` | 2 threads of a process that share a manager or have one each, Redis fails or returns once |
| `tokens_without_redis` | `ServedWithoutRedis`, violated | as `tokens` |
| `company` | of the invoice `TypeOK`, `LinesAreBilled`, `ItemsAddUp`, `RetentionIsShared`, `ItemsMatchTotals`, `RfceRepeatsEcf`, `RequiredIsWritten`; of the receiver `PeerTypeOK`, `OneTokenPerSeed`, `WithdrawnSoonForgotten`; of direct sending `DirectTypeOK`, `OneNumberPerRfce`, `AcceptedOnlyByDgii` | 10203 documents of 1 to 5 lines; 2 threads, 1 seed, 1 token, a certificate in the row and one in the file; 2 environments, 2 issuers, 2 numbers, 1 retry, 3 direct calls |

Why the bounds are enough to be interesting:

* Three callers let one release while a second holds and a third allocates; two
  numbers allow a rejection and a re-issue of one invoice, or two invoices side by side; two
  contents tell a refreshed document from the one that was sent, and are interchangeable
  (`SYMMETRY`), being only compared. The eight-byte counters are far from overflowing (`rango_hasta` defaults
  to 9999999999), so numbers are naturals. `MaxEncf`, `Hasta` and the sizes of the
  sets are the only bounds.
* `requests`: ages within five minutes are told from those past them, and a second has a middle, which is
  all that drift and nonces differ in: the run reaches a request that passes again after its nonce is gone
  and before it is out of drift. Two threads make every race of `reserveOrGet`, the one between its two SELECTs
  and its UPDATE included; two payloads tell a corrected request from a repeated one. While a signed request is out only
  one thread is at work (`CONSTRAINT SignedOneByOne`): how a request was admitted is no
  matter to what its thread does, so the races of threads are those of users' requests. The proofs
  do without the constraint.
* `tokens`: every race of the locks needs two threads. `MaxSwings` = 1 lets Redis go
  away, or come back, in the midst of any step.
* `company`: the signers and the direct calls look at nothing of an invoice but its
  issuer, so they are explored behind one invoice, `Probe`; seeds are out only
  before a signer has been resolved, since all those two share is the clock; direct
  calls are made only where no peer has called, since they share nothing but the restart. Threads are
  interchangeable there (`SYMMETRY`). Two environments are one that is the service's own and one that is not. `MaxRetries` is 1 where the code has 2,
  which leaves one retry after a refusal and one last refusal; `LastNumber` 2 and `MaxCalls` 3
  let a restarted counter meet the numbers it gave before.
* The invoices of `company` have amounts of a few cents, so that every rounding happens
  and every total can be compared with its parts. `MaxLines` is 4 (1000 in the
  code) and `Threshold` 500 cents (250,000.00 in the code), so that documents lie on both
  sides of each. Rates keep their four decimals; among the lines are quantities of three decimals and prices
  of five, some of which round away (`Finer`, `Corners`). TLC's integers have 32 bits,
  which the amounts chosen stay within.

What the passing runs assume is part of what they say:

* `documents_in_turn`: one request at a time serves an invoice, and an upload does
  not outlive the two-minute wait (`LateDelivery = FALSE`). States in which two requests, or a GET and
  a request or a pass, are at work on one invoice at once are left out (`OneAtATime`, as a
  constraint); a POST and a pass may overlap. Idempotency keys do not
  establish the first: the header `x-idempotency-key` is optional, and two keys may name one invoice.
  Where two requests race, `NeverSentTwice` and `OneValidEncfPerInvoice` fail: a
  second request that finds `SequenceAllocated` signs and sends as well, DGII
  refuses the second upload as used, the refusal is saved as a rejection, and the
  next request re-issues an invoice whose first number DGII then accepts. With late
  delivery `TransmittedIsOnRecord` fails: an upload still under way is reported "No
  encontrado" and the document sent again.
* `documents_live` assumes nothing about the order of POST, GET and the reconciler. What it checks there,
  `AcceptedNumberIsAtDgii`, speaks of the number and not of the content: with two contents,
  one POST and one GET that overlap are enough for a row that is accepted with content DGII does
  not have, since the GET saves the content it read.
* `StrayEstado = FALSE` everywhere: `consultarEstado` answers with an estado.
  It does not check the HTTP status, and an answer without one counts as "never
  received" (`DocumentsController.cpp:477`); with it on, `TransmittedIsOnRecord` fails.
* `Insert`: a refused commit has not happened. A commit whose outcome the
  client library cannot tell would release a number that is stored.
* RecepcionFC decides at once. An answer that is neither would be taken for a
  rejection (`DocumentsController.cpp:309`).
* `requests`: a worker's clock is ahead by less than five minutes less a second (`RequestAssumption`), and there is one
  document per key. `HandledByOne`, `AnswersItsPayload` and `SuccessIsKept` leave out the keys
  in `raced`. These are the two races `reserveOrGet` has: an UPDATE by a thread whose record, or whose document's
  state, was written since it was read (it may erase the success of the thread in between), and a lease that
  runs out while its owner works. The properties say that there is no third.
* `documents_in_turn`, `documents_racing` and `documents_live` have one environment of DGII, which every call asks. A
  reconciler that finds no signer for an issuer asks the service's own (`EcfStatusReconciler.cpp:86`), and so does
  the status query of any row; what comes of that is in `DirectEcf`.
* `company`: a certificate that `signXml` is given signs. It may refuse it; nothing of the receiver's state depends on that.
* `tokens`: a renewal, two requests of at most 15 seconds, ends before its lock of 30
  seconds (`SlowRenewal = FALSE`); without it `RenewedByOne` fails.
  `RefusedTokenIsReplaced` is about managers that threads do not share: with a shared
  one, the thread that read the cache before the other emptied it puts the refused
  token back in memory.

`CHECK_DEADLOCK FALSE` in every configuration: a range runs out, an accepted
invoice is finished, a lock is never released again, and the service has nothing left to do.

### Fairness

The engine has no retry of its own except the reconciler, so the liveness runs
say who keeps going. `documents_live`:

* `Recovers`: from some time on no thread or pass dies, no upload is lost, no
  thread gives up on an upload that is under way or answered, signing does not fail.
  Before that anything may happen at any step, so every state a failure can
  leave behind is a state the system has to get out of.
* `ReconcilerFairness`: passes keep coming (the `while (true)` with a sleep of
  15 minutes in `main.cpp`), each goes through its documents and saves, and
  72 hours go by.
* `RetryFairness`: clients submit again, requests run to their end, uploads that
  stay on the wire arrive, two minutes go by.

`InDoubtIsResolved` needs the clients: it says that a document in doubt ends with DGII's verdict or a manual review,
by way of `Signed` and the reconciler's list, if its client submits it again and no GET saves over
it. The reconciler alone would leave it where it is, against what the repository's README says (section 4).

DGII is given no fairness: it may never decide, which is what the 72-hour
window is for. `ListIsWorkedOff` and `InDoubtIsResolved` are checked under all three;
`documents_unlisted` under `PollingSpec`, which leaves out the clients: the
README's sentence is about the background thread alone.

`requests`: threads run on and time passes (weak fairness), from some time on the
server and its database stay up, and for a key that is being processed its user
keeps sending the payload it was reserved for (strong fairness, since a thread is not
always free). A lease ends only when somebody asks again: nothing sweeps the table. Under
these `KeyIsFreed`.

`tokens`: threads take their next step and keep calling, and the 30 seconds of an
abandoned lock pass (weak fairness). Every holder leaves `renewMutex_`, so a thread
that waits for it gets it if it is free again and again (strong fairness). `EveryCallEnds` needs no more. `RefusedTokenIsReplaced`
is about behaviours in which, from some time on, Redis and DGII stay up
and no copy runs out (`Quiet`).

### The promise about fiscal numbers

`FiscalNumbers` is the service as a taxpayer sees it: a number comes to be held by DGII
for an invoice only when no earlier number of that invoice is alive, DGII decides each
once, and what is reported as accepted is accepted. `KeepsFiscalPromise` is
`Promise!Spec` under the mapping in `EcfDocuments`; `documents_in_turn` checks
that all its steps (allocation, inserts, saves, uploads, timeouts, crashes, retries
and status queries of requests, of GET and of the reconciler) are steps of that or stutters, and `ServiceKeepsPromise` proves it for any number of invoices and threads.

## 4. What the violations show

* `sequences_collide`: a request for `default-tenant` and one for
  `default-tenant:Produccion` hold the same number of their two rows; the second gives its number
  back, the UPDATE matches both rows (`tenant_id = $1 OR tenant_id = $2`), and the number the
  other scope had issued is issued again. Contradicts the README's section on
  sequence scopes.
* `documents_loser`: the request that loses the insert race gives its number
  back, fetches the winner's row, finds it `SequenceAllocated` and goes on to
  save, sign and send it, as the winner is doing. The README says that it
  returns the row.
* `documents_overwritten`: the POST gives up on its send, DGII accepts, a GET
  records `AcceptedByDgii`, the POST saves `Uncertain` over it. The README
  draws `AcceptedByDgii` as an end state.
* `documents_unlisted`: a GET reads the row while it is being sent, learns "En
  Proceso", and saves its copy, without `sentToDgiiAt`, after the POST has
  saved its own. The document is `Signed`, and no pass ever selects it.
* `tokens_without_redis`: Redis is up when the process starts and goes away. `useRedis_`
  is never cleared, `acquireLock` answers false for whatever is not `+OK`, and
  every call that needs a token polls, fails to take the lock and throws. The README says
  that the client goes on without interruption.

### Contradicted by the code, without a run of its own

Sentences of the repository's README that the code does not bear out, met on the way. The
models have them as the code does, and the properties named say what is true instead.

* README.md:409 ("Uncertain --> AcceptedByDgii: Reconciler queries eNCF Status") and :431 (the thread scans
  `AwaitingTransmission`, `Signed` or `Uncertain`). `getDueForStatusCheck` (`EcfDocumentRepository.cpp:63`) selects
  `Signed` and `SentToDgii` only, and of these the rows with `sent_to_dgii_at`. An uncertain document, one that
  awaits transmission and one signed but never known to be sent are brought on by a client's retry alone (`InDoubtIsResolved`).
* README.md:252 (Discount Absorption). A negative line is absorbed into the item before it, if there is one: after
  nothing but worthless lines, which were dropped, the discount is lost; and what exceeds its item is cut at zero
  (`CanonicalXmlBuilder.cpp:349-357`). `LinesAreBilled` leaves both out of its upper bound (`DiscountsFit`).
* README.md:253 (lines with `amount == 0` or `unitPrice == 0` are discarded). A line is discarded if it has neither
  (`CanonicalXmlBuilder.cpp:366`); one that has either is kept and the other worked out, `LinesAreBilled` and
  `ItemsAddUp` count it.

### Also seen while modelling

No sentence of the repository speaks of these; the models have them as the code does.

* A signed request delivered again passes the filter a second time in the second that follows its five minutes, and, if
  its worker's clock was ahead, in as much time before: its nonce, kept for 300.000 seconds from its arrival, is gone before the
  drift, a difference of whole seconds, exceeds 300 (`UserOrWorkerFilter.cpp:90`). `DeliveredOnce` bounds it.
* The UPDATE of `reserveOrGet` (`DbIdempotencyStore.cpp:71`, `:94`) may erase a success: its thread read that the document was
  rejected, another one reserved the key, sent the document again and completed.
* The status query of `EcfHandlers.cpp:119` writes DGII's word as the row's
  state. "No encontrado" or an empty word written over `Uncertain` leaves a row that POST
  answers as it is and nobody asks DGII about.
* The status query finds rows by eNCF alone (`EcfHandlers.cpp:84`) and asks the one environment the service is configured for.
  Where two issuers hold the same number it may find the other company's row, and is then denied. A
  row of another environment is asked about, and written, on the word of the configured one: an invoice of production may say
  `AcceptedByDgii` because certification accepted its number (`AcceptedOnlyByDgii` says no more than that
  it was one of the two). The reconciler does the same when it finds no signer for an issuer.
* `MemorySequenceProvider` counts from 1 after each restart, and gives the numbers
  of one type whatever the type of the RFCE that `sendRfce` retries.
* The direct handlers write their row after DGII has answered. A crash, a lost answer or a refused
  INSERT in between leaves a document at DGII of which no row says anything.
* When a handler throws, `IdempotencyHandler.h:83-89` releases the key and then
  calls the callback it has moved into the lambda it gave that handler.
* `validateCertificateSn` lets self-signed and made-up certificates sign for any company
  (`EcfXmlSigner.cpp:298`), and natural persons' (`:326`).
* A line with price, quantity and discount but no amount has its amount worked out
  first, gross, and its discount is billed (`CanonicalXmlBuilder.cpp:362`).
* A quantity is rounded to two decimals and a price to four, the amount stays: 1.125 at 100.00 with amount 112.50 is
  written as `CantidadItem` 1.13, price 100.00, `MontoItem` 112.50 (`CanonicalXmlBuilder.cpp:371`). A quantity below 0.005 is
  written as zero. A discount line of half a cent adds a cent to its item's discount and leaves its amount, both rounded up.
  `ItemsAddUp` leaves these lines out (`Exact`).
* A price worked out from amount and quantity has four decimals. From some thousand units
  on, price times quantity misses the amount by more than five cents; `ItemsAddUp` leaves
  such lines out (`Fits`).
* `buildRfceXml` (`CanonicalXmlBuilder.cpp:1373-1377`) counts amounts twice in pesos without buckets: taxed 333, exempt
  100, ITBIS 60 and total 493 give an RFCE of 433 + 100 + 60; a taxed amount without ITBIS stands beside an exempt amount that is
  the whole total. `RfceRepeatsEcf` names these documents (`CountedTwice`).
* The difference settled against a taxed amount of a few cents may be larger than the amount
  (`CanonicalXmlBuilder.cpp:1051`, `:1073`): its ITBIS is then negative, and so is the
  `TotalITBISRetenido` of an E41 that has the ITBIS withheld in full. `RetentionIsShared` leaves
  these documents out (`BelowZero`).

## 5. Proofs

Each theorem holds for any values of the constants that satisfy the assumptions named
in the module. What follows says why the invariant proved is stronger than the property.

**`EcfSequencesProofs`** (`InvariantHolds`, `SequenceTyping`, `NumbersAreIssuedOnce`,
`NumbersAreAuthorised`, `CounterIsNeverBehind`) rests on `ScopeAssumption`, `RangeAssumption` and on
`PrefixFree`, stated as a hypothesis of each theorem: what stands before the `:` of a
scope is not itself the scope of a row. `sequences_collide` shows what happens without it,
so the hypothesis is exactly the condition under which the allocation is safe.

`NoDoubleIssue` is not inductive. A release steps the counter back to below the
number given back; that this uncovers nothing needs to know that every number
that is out is at or below its row's counter (`CounterCoversIssued`), and that the
row a caller steps back is the row its number came from. The latter is
`HolderRow`: while a caller holds a number, either the row still carries the
caller's scope, or another caller has renamed it to the alternative one, and then
the release touches no row at all. `IndInv` is the conjunction of the types, `OneRowPerScope`,
`HolderRow` and the three safety properties.

**`EcfDocumentsProofs`** (`DocumentTyping`, `EncfServesOneInvoice`, `AcceptedNumberIsDgiis`). `EncfBelongsToOneInvoice`
speaks of rows and of the copies requests work on. It is kept by an allocation because
every number in use is at or below the counter (`Below`), and by a release because
a number that is given back is in the hands of one thread and in no row (`Alone`). `DocInv` is
these with the types, which say in which steps a thread has a copy and a job. It
holds however many requests race for an invoice, with late uploads and with
answers without an estado, and does not need the unique indexes.

`AcceptedNumberIsDgiis` has no hypothesis on the order of requests either. `Borne` says why it holds
though copies overwrite each other: a row and each copy of one, in a request, a GET or a pass, is accepted
only if DGII accepted the copy's own number, since number and state are always saved together; an answer that
has arrived is the one to the upload its thread made last (`Awaits`, `AnswerOf`); and a track id is that of the
number it stands beside.

**`IdempotentRequestsProofs`** (`RequestTyping`, `PassesOnce`, `KeyHasOneHandler`,
`StoredForItsPayload`, `SuccessStays`). `PassesOnce` rests on `NonceOutlives`: after the
first pass the nonce is in the cache, younger than the request by what the clock was ahead at most, until
the request is five minutes old by its worker's clock; a second pass is younger by a whole life, so that its nonce outlives
the drift (`DriftEnds`). The others rest on `OneHandler`: of a key that has not raced,
the thread that handles it owns the reservation in the table, and a thread about to reserve it has read the row as
it is, or is stale.

**`DgiiTokensProofs`** (`Typing`, `ManagerRenewsAlone`, `RenewalIsExclusive`). `MutexHeld`
says that a thread in the section under `renewMutex_` is the one the mutex names; `LockHeld` that
a thread that has taken a lock and not released it is the one the lock names,
in Redis or in the fallback of its process. The last assumes that a renewal ends before its lock
(`~SlowRenewal`), the other two do not.

**`EmisorReceptorProofs`** (`PeerTyping`, `SeedBuysOneToken`, `WithdrawnIsForgotten`). A seed is
in the cache, with one call, or spent
(`SeedInOnePlace`). A lookup under way has read the row, or opened the file, within the time that
is left to the entry it may write (`ReadInTime`).

**`DirectEcfProofs`** (`DirectTyping`, `RfceCostsOneNumber`, `AcceptanceIsTheRowsOwn`). `Sane` says
of a call that it has spent no number before its last round, and that what it is about to write
as accepted DGII accepted in the configured environment, for the issuer and the number it writes it under; `Honest`
of a row, that it is accepted in that one or in its own (`Where`). The types need `Room`:
for every retry a call under way may still make there is a number left. It counts pairs of calls and
retries, hence the assumption that the handlers are finitely many.

**`HostedCompanyProofs`**, first part: `CanonicalInvoice` for any set of documents that
satisfies `InvoiceAssumption` (amounts by rate, the exempt and the taxed amount and retentions are
not negative, which `submit` does not check; any number of lines, with quantities in thousandths, prices in
hundred-thousandths and amounts in cents).

* `InvoiceInv` is what is known of items, sums, totals and retentions at each step of the building.
  `InvoiceTyping` and `RequiredReachesTheEcf` follow from it, `SummaryTellsTheSame` with a step
  of its own for the last loop.
* The others speak of sums. The proofs do not compute a sum: they say that a function of partial
  sums exists (`Running`, `Owns`, `Valued`), that a step appends to it or changes it from one item
  on, and what its last value is. `Billed` (what the items bill, against the
  totals) gives `TotalsOfTheItems`; `Retained` (shares given so far against the share of
  what was billed so far) gives `RetentionReachesTheItems`; `Additive` (each item taken
  is net of its discount, before and after conversion) gives `EveryItemAddsUp`; `Tallied` (what the
  items bill against what the lines taken are worth) gives `NoLineIsLost`.
* Where a property has a sum as a recursive function, it is shown to equal the partial sums by
  least counterexample over the natural numbers (`NatLessThanWellFounded`, `WFMin`), since induction
  with an operator as parameter is not available.

Second part: `EveryPartIsItself`. `CompanySpec` implies `Spec`, `PeerSpec` and `DirectSpec`, so that
all theorems above about the invoice, the receiver and direct sending are theorems about the company.

**`FiscalPromiseProofs`** (`PromiseInvHolds`, `TransmissionIsOnRecord`, `AcceptanceIsDgiis`, `OneValidNumber`,
`NoSecondUpload`, `AcceptanceIsFinal`, `ServiceKeepsPromise`). `PromiseInv`
is stated for one invoice at a time, over its row, what DGII holds of it and its uploads: `Sound`,
a row says no more of its number than DGII and the wire bear out; `Numbers`, its earlier numbers were all
rejected and only its present one can be on its way; `Phase`, what a thread knows at each of
its steps; `Polled` and `Read`, what the reconciler and GET know. A step on one invoice leaves the others'
part alone. No single property of the list is inductive: that an upload is not repeated depends on what
an uncertain row may claim, which depends on the answers a thread may get, which depends on which numbers
DGII can hold.

The hypotheses are three, stated in each theorem. `OneAtATime`: requests for one invoice follow
each other, and GET does not ask about an invoice that is being worked on. `~LateDelivery`: no
upload outlives the two-minute wait. `~StrayEstado`: DGII's answer to `consultarEstado` has an
estado. The code relies on the three and enforces none of them; `documents_loser`,
`documents_overwritten` and `documents_unlisted` show behaviours without the first, and
section 3 says what fails without the others. POST and the reconciler may overlap: the pass works on
`Signed` rows only, which POST answers as they are.
`ServiceKeepsPromise` is the refinement: each disjunct of `Next` is shown to be a step of `FiscalNumbers`
or a stutter under the mapping.

**Only model-checked**: liveness (`ListIsWorkedOff`, `InDoubtIsResolved`, `KeyIsFreed`,
`EveryCallEnds`, `RefusedTokenIsReplaced`) and the fairness it rests on, which are outside the prover's
reach, as is ENABLED. Every other property of a passing run is stated by a theorem. No module has a recursive
operator; what a recursive function computes is proved where a property needs it (`LinesWorth`).

## 6. Not modelled

* XML signatures, certificates as such, password decryption, XSD validation: cryptography
  and external libraries, no state of the engine.
* Parsing and formatting: JSON and XML mapping, escaping, the wording of texts, dates, the
  order of elements. Formatting of amounts is rounding to cents, which is modelled.
* Users, customers, JWT: one row per call. Configuration: read at startup.
* Resolution of tenant and ambiente, and `resolveEcfClient`: they choose among
  configured values and keep nothing.
* `PollingHelper.h` is called by nothing in `src/`. `CachedEcfClient` caches
  public directories.
* Getters that only read: documents by id, XML downloads, POST reconcile, directory and status
  of DGII's services.
* Idempotency keys in front of `EcfDocuments`: the two are checked apart. A key may be left
  out, so nothing that is false of racing requests becomes true behind it.
* Doubles: the code computes amounts in doubles and rounds them to cents; the model has exact
  cents, so what a double adds or loses below a cent is not seen.
