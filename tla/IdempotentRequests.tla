-------------------------- MODULE IdempotentRequests ------------------------
(***************************************************************************)
(* A POST on its way to a handler: UserOrWorkerFilter with its cache of    *)
(* nonces, then IdempotencyHandler over DbIdempotencyStore.  A worker's    *)
(* signed request may be delivered any number of times and at any time, a  *)
(* user's comes with a bearer token; several threads serve, the server     *)
(* restarts.                                                               *)
(*                                                                         *)
(* reserveOrGet is a step for each of its statements, because none takes a *)
(* lock that the next still holds: Lookup, the SELECT of the row; then the *)
(* decision, with the SELECT of the document's state it may rest on; then, *)
(* for a key that may be retried, the UPDATE (Reserve).                    *)
(*                                                                         *)
(* Time passes in ticks and is kept as ages, capped one past the limit     *)
(* they are compared with.  The allowed clock drift, the life of a nonce   *)
(* and the lease of a reservation are all five minutes.  Nonces and leases *)
(* are measured in ticks; a request is dated in whole seconds, and so is   *)
(* its drift: a second is Second ticks.  A worker's clock may be ahead of  *)
(* the server's by up to Lead ticks.                                       *)
(*                                                                         *)
(* Abstracted: a key is the scoped key tenant:key, with one document       *)
(* behind it; a stored response is whether it is 2xx and the payload whose *)
(* run produced it; signatures and keys are taken to be right.             *)
(***************************************************************************)
EXTENDS Integers, FiniteSets

CONSTANTS
  Thread,   \* threads serving POST
  Key,      \* idempotency keys
  Hash,     \* payload hashes
  Nonce,    \* names of signed requests
  Second,   \* ticks in a second
  Window,   \* seconds in five minutes
  Lead,     \* by how many ticks a worker's clock may be ahead
  None

Life == Window * Second   \* five minutes, in ticks

Age == 0 .. Life + 1

\* The time since the beginning of the second that the request is dated.
RequestAge == -Lead .. Life + Second

Older(a, limit) == IF a < limit THEN a + 1 ELSE a

Request == [key : Key, hash : Hash, age : RequestAge]

\* A request is in drift for less than twice the life of a nonce.
ASSUME RequestAssumption ==
  /\ Second \in Nat \ {0} /\ Window \in Nat \ {0}
  /\ Lead \in Nat /\ Lead + Second <= Life + 1
  /\ None \notin Hash \cup Int \cup Request

\* A row of ecf_idempotency_records, or NoRecord.  code is 0 ("none"), 2xx
\* ("ok") or >= 400 ("failed"); of is the payload answered by response_body.
Record == [status : {"Absent", "Processing", "Completed"}, hash : Hash \cup {None},
           code : {"none", "ok", "failed"}, of : Hash \cup {None}, age : Age]

NoRecord == [status |-> "Absent", hash |-> None, code |-> "none", of |-> None, age |-> 0]

Reservation(h) ==
  [status |-> "Processing", hash |-> h, code |-> "none", of |-> None, age |-> 0]

VARIABLES
  sent,      \* the requests workers have signed, by nonce
  nonces,    \* NonceCache: age of each nonce held, or None
  accepted,  \* history: times each request passed the filter since the start
  rec,       \* ecf_idempotency_records, by key
  doc,       \* the document behind each key: "none", "open" or "rejected"
  pc, job,   \* per thread: its step, and the key and payload it serves
  seen,      \* the record its SELECT returned
  outcome,   \* its handler's response: 2xx, cached failure, or not cached
  stale,     \* history: threads whose row was written since their SELECT
  raced      \* history: keys reserved twice at once, see Reserve and Reclaim

edgeVars == <<sent, nonces, accepted>>
vars == <<sent, nonces, accepted, rec, doc, pc, job, seen, outcome, stale, raced>>

Init ==
  /\ sent = [n \in Nonce |-> None]
  /\ nonces = [n \in Nonce |-> None]
  /\ accepted = [n \in Nonce |-> 0]
  /\ rec = [k \in Key |-> NoRecord]
  /\ doc = [k \in Key |-> "none"]
  /\ pc = [t \in Thread |-> "idle"]
  /\ job = [t \in Thread |-> None]
  /\ seen = [t \in Thread |-> NoRecord]
  /\ outcome = [t \in Thread |-> "none"]
  /\ stale = {}
  /\ raced = {}

Goto(t, step) == pc' = [pc EXCEPT ![t] = step]

\* Threads inside IdempotencyHandler's next().
Handling(k) == {t \in Thread : pc[t] \in {"handle", "answer"} /\ job[t].key = k}

\* The row of k is written by t: whoever has read it has read an older one.
Written(t, k) ==
  stale' = (stale \ {t}) \cup
           {u \in Thread \ {t} : pc[u] \in {"decide", "overwrite"} /\ job[u].key = k}

NotWritten(t) == stale' = stale \ {t}
-----------------------------------------------------------------------------
(* Workers and the filter.                                                 *)

\* A worker signs a request with a new nonce, dated in whole seconds.
SignRequest(n, k, h) ==
  /\ sent[n] = None
  /\ \E a \in -Lead .. Second - 1 :
       sent' = [sent EXCEPT ![n] = [key |-> k, hash |-> h, age |-> a]]
  /\ UNCHANGED <<nonces, accepted, rec, doc, pc, job, seen, outcome, stale, raced>>

InDrift(n) ==
  LET seconds == sent[n].age \div Second
  IN  -Window <= seconds /\ seconds <= Window

\* The name of a request that is too old, and whose nonce is, serves for a new
\* one: nonces are not reused, names in a finite model must be.
Forget(n) ==
  /\ sent[n] # None /\ ~InDrift(n)
  /\ nonces[n] # None => nonces[n] > Life
  /\ sent' = [sent EXCEPT ![n] = None]
  /\ nonces' = [nonces EXCEPT ![n] = None]
  /\ accepted' = [accepted EXCEPT ![n] = 0]
  /\ UNCHANGED <<rec, doc, pc, job, seen, outcome, stale, raced>>

\* Fault: a nonce is dropped at the end of its life, not after it.
PruneEarly(cache) ==
  [n \in Nonce |-> IF cache[n] # None /\ cache[n] >= Life THEN None ELSE cache[n]]

Prune(cache) ==
  [n \in Nonce |-> IF cache[n] # None /\ cache[n] > Life THEN None ELSE cache[n]]

\* NonceCache::tryAddNonce.
TryAddNonce(n) == Prune(nonces)[n] = None

\* UserOrWorkerFilter: a request too old is refused before its nonce is looked
\* at, a nonce in the cache is refused after the cache was pruned.
Refuse(n) ==
  /\ sent[n] # None
  /\ InDrift(n)
  /\ ~TryAddNonce(n)
  /\ nonces' = Prune(nonces)
  /\ UNCHANGED <<sent, accepted, rec, doc, pc, job, seen, outcome, stale, raced>>

AdmitWorker(t, n) ==
  /\ pc[t] = "idle"
  /\ sent[n] # None
  /\ InDrift(n)
  /\ TryAddNonce(n)
  /\ nonces' = [Prune(nonces) EXCEPT ![n] = 0]
  /\ accepted' = [accepted EXCEPT ![n] = @ + 1]
  /\ job' = [job EXCEPT ![t] = [key |-> sent[n].key, hash |-> sent[n].hash]]
  /\ Goto(t, "lookup")
  /\ UNCHANGED <<sent, rec, doc, seen, outcome, stale, raced>>

\* A bearer token that verifies lets the request pass as often as it comes.
AdmitUser(t, k, h) ==
  /\ pc[t] = "idle"
  /\ job' = [job EXCEPT ![t] = [key |-> k, hash |-> h]]
  /\ Goto(t, "lookup")
  /\ UNCHANGED <<sent, nonces, accepted, rec, doc, seen, outcome, stale, raced>>
-----------------------------------------------------------------------------
(* DbIdempotencyStore.                                                     *)

\* Fault: only expires_at, thirty days on, ends a lease.
LeaseNeverExpires(r) == FALSE

LeaseExpired(r) == r.status = "Processing" /\ r.age > Life

\* The SELECT of reserveOrGet; of the age it keeps whether the lease expired.
Lookup(t) ==
  /\ pc[t] = "lookup"
  /\ LET r == rec[job[t].key]
     IN seen' = [seen EXCEPT ![t] =
                   [r EXCEPT !.age = IF LeaseExpired(r) THEN Life + 1 ELSE 0]]
  /\ Goto(t, "decide")
  /\ UNCHANGED <<sent, nonces, accepted, rec, doc, job, outcome, stale, raced>>

IsUnderlyingDocumentRejected(k, r) == r.of # None /\ doc[k] = "rejected"

\* The stored response still stands.
Stands(k, r) == r.code = "ok" /\ ~IsUnderlyingDocumentRejected(k, r)

\* Fault: a corrected payload may replace whatever was completed.
CompletedBefore(k, r) == r.status = "Completed"

\* The stored response is of a failure, or of a document rejected since.
FailedBefore(k, r) == r.code = "failed" \/ IsUnderlyingDocumentRejected(k, r)

\* The thread leaves reserveOrGet without a reservation.
Leave(t) ==
  /\ Goto(t, "idle")
  /\ job' = [job EXCEPT ![t] = None]
  /\ seen' = [seen EXCEPT ![t] = NoRecord]
  /\ NotWritten(t)
  /\ UNCHANGED <<sent, nonces, accepted, rec, doc, outcome, raced>>

\* The thread holds a reservation and goes on to the handler.
Enter(t) ==
  /\ Goto(t, "handle")
  /\ seen' = [seen EXCEPT ![t] = NoRecord]
  /\ UNCHANGED <<sent, nonces, accepted, doc, job, outcome>>

\* Fault: the reservation creates the row when there is none.
ReservedUpsert(r, s, h) ==
  IF s.hash # h THEN Reservation(h) ELSE Reservation(r.hash)

\* Fault: a corrected payload reserves the key but its hash is not stored.
ReservedKeepingHash(r, s, h) ==
  IF r.status = "Absent" THEN r ELSE Reservation(r.hash)

\* The UPDATE ... WHERE key = $1: it hits whatever the row has become, if
\* there still is one, and stores the hash only where it differed.
Reserved(r, s, h) ==
  IF r.status = "Absent" THEN r
  ELSE IF s.hash # h THEN Reservation(h) ELSE Reservation(r.hash)

\* A key whose last response failed may be used again, for a corrected or for
\* the same payload: so says the row as it was read, and the document now.
AllowRetry(t) ==
  LET k == job[t].key  s == seen[t]
  IN /\ pc[t] = "decide" /\ s.status # "Absent"
     /\ IF s.hash # job[t].hash THEN FailedBefore(k, s)
                                ELSE s.status = "Completed" /\ ~Stands(k, s)
     /\ Goto(t, "overwrite")
     /\ UNCHANGED <<sent, nonces, accepted, rec, doc, job, seen, outcome, stale, raced>>

\* The key is reserved again.  Another thread may have written the row since it
\* was read, the same content even: raced.
Reserve(t) ==
  LET k == job[t].key
  IN /\ pc[t] = "overwrite"
     /\ rec' = [rec EXCEPT ![k] = Reserved(@, seen[t], job[t].hash)]
     /\ raced' = IF t \in stale THEN raced \cup {k} ELSE raced
     /\ IF rec[k].status = "Absent" THEN NotWritten(t) ELSE Written(t, k)
     /\ Enter(t)

\* 422: the key was used with another payload, and nothing is wrong with that.
Mismatch(t) ==
  LET k == job[t].key  s == seen[t]
  IN /\ pc[t] = "decide" /\ s.status # "Absent"
     /\ s.hash # job[t].hash /\ ~FailedBefore(k, s)
     /\ Leave(t)

\* The stored response is returned.
Replay(t) ==
  LET k == job[t].key  s == seen[t]
  IN /\ pc[t] = "decide" /\ s.status = "Completed"
     /\ s.hash = job[t].hash /\ Stands(k, s)
     /\ Leave(t)

\* The conditional UPDATE that takes over a lease more than five minutes old.
\* Whoever held it may still be at work, and the row may by now be reserved for
\* another payload: raced.
Reclaim(t) ==
  LET k == job[t].key  s == seen[t]
  IN /\ pc[t] = "decide" /\ s.hash = job[t].hash
     /\ LeaseExpired(s) /\ LeaseExpired(rec[k])
     /\ rec' = [rec EXCEPT ![k].age = 0]
     /\ raced' = IF Handling(k) = {} /\ rec[k].hash = s.hash THEN raced ELSE raced \cup {k}
     /\ Written(t, k)
     /\ Enter(t)

\* 409: the key is being processed, or the lease was taken over by another.
Busy(t) ==
  LET k == job[t].key  s == seen[t]
  IN /\ pc[t] = "decide" /\ s.hash = job[t].hash /\ s.status = "Processing"
     /\ ~(LeaseExpired(s) /\ LeaseExpired(rec[k]))
     /\ Leave(t)

\* Fault: ON CONFLICT DO UPDATE.
InsertAnyway(t) ==
  LET k == job[t].key
  IN /\ pc[t] = "decide" /\ seen[t].status = "Absent"
     /\ rec' = [rec EXCEPT ![k] = Reservation(job[t].hash)]
     /\ raced' = raced
     /\ Written(t, k)
     /\ Enter(t)

\* INSERT; the unique key turns all but the first away with a 409.
Insert(t) ==
  LET k == job[t].key
  IN /\ pc[t] = "decide" /\ seen[t].status = "Absent"
     /\ IF rec[k].status = "Absent"
        THEN /\ rec' = [rec EXCEPT ![k] = Reservation(job[t].hash)]
             /\ raced' = raced
             /\ Written(t, k)
             /\ Enter(t)
        ELSE Leave(t)
-----------------------------------------------------------------------------
(* IdempotencyHandler.                                                     *)

\* The handler runs: a 2xx leaves a document behind, 422 may say that DGII
\* rejected it, and 401, 403, 408, 409, 429, 5xx or an exception say nothing
\* about it.
Handle(t) ==
  LET k == job[t].key
  IN /\ pc[t] = "handle"
     /\ \/ /\ outcome' = [outcome EXCEPT ![t] = "ok"]
           /\ doc' = [doc EXCEPT ![k] = "open"]
        \/ /\ outcome' = [outcome EXCEPT ![t] = "failed"]
           /\ \E d \in {doc[k], "rejected"} : doc' = [doc EXCEPT ![k] = d]
        \/ /\ outcome' = [outcome EXCEPT ![t] = "notCached"]
           /\ \E d \in {doc[k], "open"} : doc' = [doc EXCEPT ![k] = d]
     /\ Goto(t, "answer")
     /\ UNCHANGED <<sent, nonces, accepted, rec, job, seen, stale, raced>>

\* The response is sent and the thread is free; a reservation was done with.
Done(t) ==
  /\ Goto(t, "idle")
  /\ job' = [job EXCEPT ![t] = None]
  /\ outcome' = [outcome EXCEPT ![t] = "none"]
  /\ IF rec[job[t].key].status = "Processing" THEN Written(t, job[t].key) ELSE NotWritten(t)
  /\ UNCHANGED <<sent, nonces, accepted, doc, seen, raced>>

\* UPDATE ... WHERE key = $1 AND status = 'Processing': by whom and for which
\* payload the key is reserved by now is no matter.  The age is not read again.
Completed(r, code, h) ==
  IF r.status # "Processing" THEN r
  ELSE [r EXCEPT !.status = "Completed", !.code = code, !.of = h, !.age = 0]

\* complete: a response that is cached.
Complete(t) ==
  LET k == job[t].key
  IN /\ pc[t] = "answer" /\ outcome[t] # "notCached"
     /\ rec' = [rec EXCEPT ![k] = Completed(@, outcome[t], job[t].hash)]
     /\ Done(t)

\* DELETE ... WHERE key = $1 AND status = 'Processing'.
WithoutReservation(r) == IF r.status = "Processing" THEN NoRecord ELSE r

\* release: after a response that is not cached, and after a complete that
\* failed, when the exception reaches the handler's catch.
Release(t) ==
  LET k == job[t].key
  IN /\ pc[t] = "answer"
     /\ rec' = [rec EXCEPT ![k] = WithoutReservation(@)]
     /\ Done(t)
-----------------------------------------------------------------------------
(* The world.                                                              *)

\* Every query of the thread fails from here on; release swallows its error.
DatabaseAway(t) ==
  /\ pc[t] \in {"lookup", "decide", "overwrite", "answer"}
  /\ Goto(t, "idle")
  /\ job' = [job EXCEPT ![t] = None]
  /\ seen' = [seen EXCEPT ![t] = NoRecord]
  /\ outcome' = [outcome EXCEPT ![t] = "none"]
  /\ NotWritten(t)
  /\ UNCHANGED <<sent, nonces, accepted, rec, doc, raced>>

\* The process dies and starts again: the nonces are in memory, the records
\* are not.
Restart ==
  /\ nonces' = [n \in Nonce |-> None]
  /\ accepted' = [n \in Nonce |-> 0]
  /\ pc' = [t \in Thread |-> "idle"]
  /\ job' = [t \in Thread |-> None]
  /\ seen' = [t \in Thread |-> NoRecord]
  /\ outcome' = [t \in Thread |-> "none"]
  /\ stale' = {}
  /\ UNCHANGED <<sent, rec, doc, raced>>

\* The reconciler or a GET records DGII's rejection.
DgiiRejects(k) ==
  /\ doc[k] = "open"
  /\ doc' = [doc EXCEPT ![k] = "rejected"]
  /\ UNCHANGED <<sent, nonces, accepted, rec, pc, job, seen, outcome, stale, raced>>

Aged(f) == [n \in Nonce |-> IF f[n] = None THEN None ELSE Older(f[n], Life + 1)]

Tick ==
  /\ sent' = [n \in Nonce |-> IF sent[n] = None THEN None
                              ELSE [sent[n] EXCEPT !.age = Older(@, Life + Second)]]
  /\ nonces' = Aged(nonces)
  /\ rec' = [k \in Key |-> IF rec[k].status = "Processing"
                           THEN [rec[k] EXCEPT !.age = Older(@, Life + 1)] ELSE rec[k]]
  /\ UNCHANGED <<accepted, doc, pc, job, seen, outcome, stale, raced>>

ThreadStep(t) ==
  \/ Lookup(t)
  \/ AllowRetry(t) \/ Mismatch(t) \/ Replay(t) \/ Reclaim(t) \/ Busy(t) \/ Insert(t)
  \/ Reserve(t)
  \/ Handle(t)
  \/ Complete(t) \/ Release(t)

Next ==
  \/ \E n \in Nonce, k \in Key, h \in Hash : SignRequest(n, k, h)
  \/ \E n \in Nonce : Forget(n) \/ Refuse(n) \/ \E t \in Thread : AdmitWorker(t, n)
  \/ \E t \in Thread, k \in Key, h \in Hash : AdmitUser(t, k, h)
  \/ \E t \in Thread : ThreadStep(t) \/ DatabaseAway(t)
  \/ \E k \in Key : DgiiRejects(k)
  \/ Tick \/ Restart

Spec == Init /\ [][Next]_vars

\* A failure, unless what it does is also what a thread's own step does: a
\* request that is turned away leaves as little behind as one whose query fails.
Failure ==
  /\ Restart \/ \E t \in Thread : DatabaseAway(t)
  /\ ~\E t \in Thread : ThreadStep(t)

\* From some time on the process stays up and so does the database.
Recovers == <>[][~Failure]_vars

\* Threads run on, time passes, and for a key that is being processed its
\* user keeps sending the payload it was reserved for.
RetryFairness ==
  /\ WF_vars(Tick)
  /\ \A t \in Thread : WF_vars(ThreadStep(t))
  /\ \A k \in Key : SF_vars(/\ rec[k].status = "Processing"
                             /\ \E t \in Thread : AdmitUser(t, k, rec[k].hash))

LiveSpec == Spec /\ Recovers /\ RetryFairness
-----------------------------------------------------------------------------
TypeOK ==
  /\ sent \in [Nonce -> Request \cup {None}]
  /\ nonces \in [Nonce -> Age \cup {None}]
  /\ accepted \in [Nonce -> Nat]
  /\ rec \in [Key -> Record]
  /\ \A k \in Key : rec[k].status # "Absent" => rec[k].hash \in Hash
  /\ doc \in [Key -> {"none", "open", "rejected"}]
  /\ pc \in [Thread -> {"idle", "lookup", "decide", "overwrite", "handle", "answer"}]
  /\ job \in [Thread -> [key : Key, hash : Hash] \cup {None}]
  /\ seen \in [Thread -> Record]
  /\ outcome \in [Thread -> {"none", "ok", "failed", "notCached"}]
  /\ stale \subseteq Thread
  /\ raced \subseteq Key

\* A signed request, delivered however often and whenever, reaches the handlers
\* once between two starts of the server until it is five minutes old by the
\* worker's own clock, and never more than twice.  Twice it can be: drift is
\* counted in whole seconds and a nonce's life is not, so a request is in drift
\* for up to a second, and for as long as its worker's clock was ahead, after
\* its nonce is dropped (UserOrWorkerFilter, NonceCache::tryAddNonce).
DeliveredOnce ==
  \A n \in Nonce : accepted[n] > 1 => accepted[n] = 2 /\ sent[n].age > Life - Lead

\* Two threads work on one key at once only after one of two things: a lease
\* was taken over from a thread still at work, or a key was reserved on the
\* strength of a row that had changed since it was read.  No interleaving
\* of inserts, reclaims, releases, crashes and database failures does it
\* otherwise (reserveOrGet, complete, release).
HandledByOne ==
  \A k \in Key \ raced : \A t, u \in Handling(k) : t = u

\* Under the same proviso a stored response answers the payload whose hash is
\* stored beside it, so a replay never returns another payload's response.
AnswersItsPayload ==
  \A k \in Key \ raced : rec[k].status = "Completed" => rec[k].of = rec[k].hash

\* A success stays stored, whatever else is sent, fails or crashes, until DGII
\* rejects the document behind it.  It is lost in one way only: to an UPDATE whose
\* thread decided on the row, or on the document, as it was before another thread
\* reserved the key, ran and succeeded (raced).
SuccessIsKept ==
  [][\A k \in Key \ raced' :
       rec[k].status = "Completed" /\ rec[k].code = "ok" /\ doc[k] # "rejected"
         => rec'[k] = rec[k]]_vars

\* A key left "Processing" by a crash or by a failed release does not stay so
\* under a user who retries (the lease of reserveOrGet).
KeyIsFreed ==
  \A k \in Key : rec[k].status = "Processing" ~> rec[k].status # "Processing"
=============================================================================
