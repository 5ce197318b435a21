---------------------- MODULE IdempotentRequestsProofs ----------------------
(***************************************************************************)
(* IdempotentRequests for any number of threads, keys, payloads and signed *)
(* requests, and any window.                                               *)
(*                                                                         *)
(* What is delivered once rests on the nonce being no older than the       *)
(* request it belongs to (NonceOutlives).  That a key has one handler, and *)
(* that what is stored answers the payload whose hash is stored, both rest *)
(* on the row: while a thread handles a key that was not reserved twice,   *)
(* the row is a reservation for its payload (OneHandler).  That a success  *)
(* stays rests on the same invariant: the row of a thread about to reserve *)
(* it again is the one it decided on, or the thread is stale.              *)
(***************************************************************************)
EXTENDS IdempotentRequests, TLAPS

Job == [key : Key, hash : Hash]

\* A thread that is not idle serves a request.
HasJob == \A t \in Thread : pc[t] # "idle" => job[t] \in Job

Typed == TypeOK /\ HasJob

LEMMA Lives ==
  /\ Life \in Nat /\ Second \in Nat \ {0} /\ Lead \in Nat
  /\ Lead + Second <= Life + 1
BY RequestAssumption DEF Life

LEMMA Ages ==
  /\ 0 \in Age /\ Life + 1 \in Age /\ None \notin Age
  /\ \A a \in Age : Older(a, Life + 1) \in Age
  /\ \A a \in -Lead .. Second - 1 : a \in RequestAge
  /\ \A a \in RequestAge : Older(a, Life + Second) \in RequestAge
BY Lives, RequestAssumption DEF Age, RequestAge, Older

\* A request is in drift for a second longer than a nonce lives, and no more.
LEMMA DriftEnds ==
  ASSUME NEW n \in Nonce, sent[n].age \in Int, InDrift(n)
  PROVE  sent[n].age < Life + Second
<1> DEFINE a == sent[n].age  q == a \div Second
<1>1. Second \in Int /\ Second > 0 /\ Window \in Int /\ a \in Int
  BY RequestAssumption
<1>2. q \in Int /\ a < Second * (q + 1)
  BY <1>1
<1>3. q + 1 <= Window + 1
  BY <1>2, <1>1 DEF InDrift
<1>4. Second * (q + 1) <= Second * (Window + 1)
  BY <1>1, <1>2, <1>3
<1>5. Second * (Window + 1) = Life + Second
  BY <1>1 DEF Life
<1> HIDE DEF q
<1> QED BY <1>1, <1>2, <1>4, <1>5, Lives

LEMMA PruneType ==
  ASSUME nonces \in [Nonce -> Age \cup {None}]
  PROVE  /\ Prune(nonces) \in [Nonce -> Age \cup {None}]
         /\ \A n \in Nonce : \/ Prune(nonces)[n] = nonces[n]
                             \/ nonces[n] # None /\ nonces[n] > Life
BY DEF Prune

LEMMA ReservationType == ASSUME NEW h \in Hash PROVE Reservation(h) \in Record
BY Ages DEF Reservation, Record

LEMMA NoRecordType == NoRecord \in Record /\ NoRecord.status = "Absent"
BY Ages DEF NoRecord, Record

\* One row is written.
LEMMA RowTyped ==
  ASSUME Typed, NEW k \in Key, NEW r \in Record, r.status # "Absent" => r.hash \in Hash,
         rec' = [rec EXCEPT ![k] = r]
  PROVE  rec' \in [Key -> Record] /\ \A q \in Key : rec'[q].status # "Absent" => rec'[q].hash \in Hash
<1>1. rec \in [Key -> Record] /\ \A q \in Key : rec[q].status # "Absent" => rec[q].hash \in Hash
  BY DEF Typed, TypeOK
<1>2. \A q \in Key : rec'[q] = IF q = k THEN r ELSE rec[q]
  BY <1>1
<1> QED BY <1>1, <1>2

LEMMA LeaveTyped == ASSUME Typed, NEW t \in Thread, Leave(t) PROVE Typed'
BY NoRecordType DEF Leave, NotWritten, Goto, Typed, TypeOK, HasJob

LEMMA EnterTyped ==
  ASSUME Typed, NEW t \in Thread, pc[t] # "idle", Enter(t), raced' \subseteq Key, stale' \subseteq Thread,
         rec' \in [Key -> Record], \A k \in Key : rec'[k].status # "Absent" => rec'[k].hash \in Hash
  PROVE  Typed'
BY NoRecordType DEF Enter, Goto, Typed, TypeOK, HasJob

LEMMA DoneTyped ==
  ASSUME Typed, NEW t \in Thread, Done(t),
         rec' \in [Key -> Record], \A k \in Key : rec'[k].status # "Absent" => rec'[k].hash \in Hash
  PROVE  Typed'
BY DEF Done, Written, NotWritten, Goto, Typed, TypeOK, HasJob

\* Every variable keeps its type.
LEMMA TypedHolds == Spec => []Typed
<1>1. Init => Typed
  BY NoRecordType DEF Init, Typed, TypeOK, HasJob
<1>2. Typed /\ [Next]_vars => Typed'
  <2> SUFFICES ASSUME Typed, [Next]_vars PROVE Typed'
    OBVIOUS
  <2>t. /\ sent \in [Nonce -> Request \cup {None}] /\ nonces \in [Nonce -> Age \cup {None}]
        /\ accepted \in [Nonce -> Nat] /\ rec \in [Key -> Record]
        /\ \A k \in Key : rec[k].status # "Absent" => rec[k].hash \in Hash
        /\ pc \in [Thread -> {"idle", "lookup", "decide", "overwrite", "handle", "answer"}]
        /\ job \in [Thread -> Job \cup {None}] /\ seen \in [Thread -> Record]
        /\ stale \subseteq Thread /\ raced \subseteq Key
        /\ \A t \in Thread : pc[t] # "idle" => job[t].key \in Key /\ job[t].hash \in Hash
    BY DEF Typed, TypeOK, HasJob, Job
  <2>1. ASSUME NEW n \in Nonce, NEW k \in Key, NEW h \in Hash, SignRequest(n, k, h) PROVE Typed'
    <3>1. PICK a \in -Lead .. Second - 1 :
            sent' = [sent EXCEPT ![n] = [key |-> k, hash |-> h, age |-> a]]
      BY <2>1 DEF SignRequest
    <3>2. [key |-> k, hash |-> h, age |-> a] \in Request
      BY Ages DEF Request
    <3> QED BY <2>1, <3>1, <3>2 DEF SignRequest, Typed, TypeOK, HasJob
  <2>2. ASSUME NEW n \in Nonce, Forget(n) PROVE Typed'
    BY <2>2 DEF Forget, Typed, TypeOK, HasJob
  <2>3. ASSUME NEW n \in Nonce, Refuse(n) PROVE Typed'
    BY <2>3, <2>t, PruneType DEF Refuse, Typed, TypeOK, HasJob
  <2>4. ASSUME NEW n \in Nonce, NEW t \in Thread, AdmitWorker(t, n) PROVE Typed'
    <3>1. sent[n] \in Request
      BY <2>4, <2>t DEF AdmitWorker
    <3>2. [key |-> sent[n].key, hash |-> sent[n].hash] \in Job
      BY <3>1 DEF Request, Job
    <3>3. nonces' \in [Nonce -> Age \cup {None}]
      BY <2>4, <2>t, PruneType, Ages DEF AdmitWorker
    <3>4. accepted' \in [Nonce -> Nat]
      BY <2>4, <2>t DEF AdmitWorker
    <3> QED BY <2>4, <3>2, <3>3, <3>4 DEF AdmitWorker, Goto, Typed, TypeOK, HasJob, Job
  <2>5. ASSUME NEW t \in Thread, NEW k \in Key, NEW h \in Hash, AdmitUser(t, k, h) PROVE Typed'
    <3>1. [key |-> k, hash |-> h] \in Job
      BY DEF Job
    <3> QED BY <2>5, <3>1 DEF AdmitUser, Goto, Typed, TypeOK, HasJob, Job
  <2>6. ASSUME NEW t \in Thread, Lookup(t) PROVE Typed'
    <3> DEFINE r == rec[job[t].key]
               s == [r EXCEPT !.age = IF LeaseExpired(r) THEN Life + 1 ELSE 0]
    <3>1. pc[t] = "lookup" /\ r \in Record
      BY <2>6, <2>t DEF Lookup
    <3>2. s \in Record
      BY <3>1, Ages DEF Record
    <3>3. seen' = [seen EXCEPT ![t] = s]
      BY <2>6 DEF Lookup
    <3> HIDE DEF s
    <3>4. seen' \in [Thread -> Record]
      BY <2>t, <3>2, <3>3
    <3> QED BY <2>6, <3>1, <3>4 DEF Lookup, Goto, Typed, TypeOK, HasJob
  <2>7. ASSUME NEW t \in Thread, Reserve(t) PROVE Typed'
    <3> DEFINE k == job[t].key  h == job[t].hash  r == Reserved(rec[k], seen[t], h)
    <3>1. /\ pc[t] = "overwrite" /\ Enter(t) /\ rec' = [rec EXCEPT ![k] = r]
          /\ raced' \subseteq raced \cup {k} /\ stale' \subseteq Thread
      BY <2>7, <2>t DEF Reserve, Written, NotWritten
    <3>2. k \in Key /\ h \in Hash
      BY <2>t, <3>1
    <3>3. r \in Record /\ (r.status # "Absent" => r.hash \in Hash)
      <4>1. rec[k] \in Record /\ (rec[k].status # "Absent" => rec[k].hash \in Hash)
        BY <2>t, <3>2
      <4>2. r = rec[k] \/ \E g \in Hash : r = Reservation(g)
        BY <3>2, <4>1 DEF Reserved
      <4>3. \A g \in Hash : Reservation(g).hash = g
        BY DEF Reservation
      <4> QED BY <4>1, <4>2, <4>3, ReservationType
    <3> HIDE DEF r, k
    <3> QED BY <2>t, <3>1, <3>2, <3>3, RowTyped, EnterTyped
  <2>8. ASSUME NEW t \in Thread, Mismatch(t) \/ Replay(t) \/ Busy(t) PROVE Typed'
    BY <2>8, LeaveTyped DEF Mismatch, Replay, Busy
  <2>9. ASSUME NEW t \in Thread, Reclaim(t) PROVE Typed'
    <3> DEFINE k == job[t].key  r == [rec[k] EXCEPT !.age = 0]
    <3>1. /\ pc[t] = "decide" /\ Enter(t) /\ raced' \subseteq raced \cup {k}
          /\ rec' = [rec EXCEPT ![k].age = 0] /\ stale' \subseteq Thread
      BY <2>9, <2>t DEF Reclaim, Written
    <3>2. k \in Key
      BY <2>t, <3>1
    <3>3. r \in Record /\ (r.status # "Absent" => r.hash \in Hash)
      <4>1. rec[k] \in Record /\ (rec[k].status # "Absent" => rec[k].hash \in Hash)
        BY <2>t, <3>2
      <4> QED BY <4>1, Ages DEF Record
    <3>4. rec' = [rec EXCEPT ![k] = r]
      BY <3>1
    <3> HIDE DEF r, k
    <3> QED BY <2>t, <3>1, <3>2, <3>3, <3>4, RowTyped, EnterTyped
  <2>10. ASSUME NEW t \in Thread, Insert(t) PROVE Typed'
    <3> DEFINE k == job[t].key  h == job[t].hash
    <3>1. pc[t] = "decide" /\ k \in Key /\ h \in Hash
      BY <2>10, <2>t DEF Insert
    <3>2. CASE rec[k].status = "Absent"
      <4>1. /\ Enter(t) /\ rec' = [rec EXCEPT ![k] = Reservation(h)] /\ raced' = raced
            /\ stale' \subseteq Thread
        BY <2>10, <2>t, <3>2 DEF Insert, Written
      <4>2. Reservation(h) \in Record /\ Reservation(h).hash = h
        BY <3>1, ReservationType DEF Reservation
      <4> QED BY <2>t, <3>1, <4>1, <4>2, RowTyped, EnterTyped
    <3>3. CASE rec[k].status # "Absent"
      BY <2>10, <3>3, LeaveTyped DEF Insert
    <3> QED BY <3>2, <3>3
  <2>11. ASSUME NEW t \in Thread, Handle(t) PROVE Typed'
    <3>1. /\ outcome' \in [Thread -> {"none", "ok", "failed", "notCached"}]
          /\ doc' \in [Key -> {"none", "open", "rejected"}]
      BY <2>11, <2>t DEF Handle, Typed, TypeOK
    <3> QED BY <2>11, <3>1 DEF Handle, Goto, Typed, TypeOK, HasJob
  <2>12. ASSUME NEW t \in Thread, Complete(t) PROVE Typed'
    <3> DEFINE k == job[t].key  r == Completed(rec[k], outcome[t], job[t].hash)
    <3>1. /\ pc[t] = "answer" /\ outcome[t] # "notCached" /\ Done(t)
          /\ rec' = [rec EXCEPT ![k] = r]
      BY <2>12 DEF Complete
    <3>2. k \in Key /\ job[t].hash \in Hash /\ outcome[t] \in {"none", "ok", "failed"}
      BY <2>t, <3>1 DEF Typed, TypeOK
    <3>3. rec[k] \in Record /\ (rec[k].status # "Absent" => rec[k].hash \in Hash)
      BY <2>t, <3>2
    <3>4. r \in Record /\ (r.status # "Absent" => r.hash \in Hash)
      BY <3>2, <3>3, Ages DEF Completed, Record
    <3> HIDE DEF r, k
    <3> QED BY <3>1, <3>2, <3>4, RowTyped, DoneTyped
  <2>13. ASSUME NEW t \in Thread, Release(t) PROVE Typed'
    <3> DEFINE k == job[t].key  r == WithoutReservation(rec[k])
    <3>1. pc[t] = "answer" /\ Done(t) /\ rec' = [rec EXCEPT ![k] = r]
      BY <2>13 DEF Release
    <3>2. k \in Key /\ rec[k] \in Record /\ (rec[k].status # "Absent" => rec[k].hash \in Hash)
      BY <2>t, <3>1
    <3>3. r \in Record /\ (r.status # "Absent" => r.hash \in Hash)
      BY <3>2, NoRecordType DEF WithoutReservation
    <3> HIDE DEF r, k
    <3> QED BY <3>1, <3>2, <3>3, RowTyped, DoneTyped
  <2>14. ASSUME NEW t \in Thread, DatabaseAway(t) PROVE Typed'
    BY <2>14, NoRecordType DEF DatabaseAway, NotWritten, Goto, Typed, TypeOK, HasJob
  <2>15. ASSUME NEW k \in Key, DgiiRejects(k) PROVE Typed'
    BY <2>15 DEF DgiiRejects, Typed, TypeOK, HasJob
  <2>16. ASSUME Tick PROVE Typed'
    <3>1. ASSUME NEW n \in Nonce, sent[n] # None
          PROVE  [sent[n] EXCEPT !.age = Older(@, Life + Second)] \in Request
      <4>1. sent[n] \in Request
        BY <2>t, <3>1
      <4> QED BY <4>1, Ages DEF Request
    <3>2. sent' \in [Nonce -> Request \cup {None}]
      BY <2>16, <3>1 DEF Tick
    <3>3. nonces' \in [Nonce -> Age \cup {None}]
      BY <2>16, <2>t, Ages DEF Tick, Aged
    <3>4. ASSUME NEW k \in Key
          PROVE  /\ [rec[k] EXCEPT !.age = Older(@, Life + 1)] \in Record
                 /\ [rec[k] EXCEPT !.age = Older(@, Life + 1)].hash = rec[k].hash
      <4>1. rec[k] \in Record
        BY <2>t
      <4> QED BY <4>1, Ages DEF Record
    <3>5. rec' \in [Key -> Record]
      BY <2>16, <2>t, <3>4 DEF Tick
    <3>6. \A k \in Key : rec'[k].status # "Absent" => rec'[k].hash \in Hash
      BY <2>16, <2>t, <3>4 DEF Tick
    <3> QED BY <2>16, <3>2, <3>3, <3>5, <3>6 DEF Tick, Typed, TypeOK, HasJob
  <2>17. ASSUME Restart PROVE Typed'
    BY <2>17, NoRecordType DEF Restart, Typed, TypeOK, HasJob
  <2>18. CASE UNCHANGED vars
    BY <2>18 DEF vars, Typed, TypeOK, HasJob
  <2>19. ASSUME NEW t \in Thread, AllowRetry(t) PROVE Typed'
    BY <2>19, <2>t DEF AllowRetry, Goto, Typed, TypeOK, HasJob
  <2> QED BY <2>1, <2>2, <2>3, <2>4, <2>5, <2>6, <2>7, <2>8, <2>9, <2>10, <2>11, <2>12, <2>13,
             <2>14, <2>15, <2>16, <2>17, <2>18, <2>19 DEF Next, ThreadStep
<1> QED BY <1>1, <1>2, PTL DEF Spec

\* The types of requests, nonces, records and threads.
THEOREM RequestTyping == Spec => []TypeOK
<1>1. Typed => TypeOK
  BY DEF Typed
<1> QED BY <1>1, TypedHolds, PTL
-----------------------------------------------------------------------------
(* What is signed is delivered once.                                       *)

\* Of the passes of a request, the last is as old as its nonce, and the second
\* came more than five minutes, by the worker's clock, after the first.
Outlived(n) ==
  accepted[n] # 0 =>
    /\ sent[n] # None
    /\ \/ /\ accepted[n] = 1
          /\ \/ sent[n].age > Life - Lead
             \/ nonces[n] # None /\ nonces[n] <= sent[n].age + Lead
       \/ /\ accepted[n] = 2
          /\ sent[n].age > Life - Lead
          /\ \/ sent[n].age >= Life + Second
             \/ nonces[n] # None /\ nonces[n] <= sent[n].age + Lead - (Life + 1)

\* The nonce of a request that passed is in the cache and no older than the
\* request, for as long as the request would pass a third time.
NonceOutlives == \A n \in Nonce : Outlived(n)

EdgeSame(n) == sent'[n] = sent[n] /\ nonces'[n] = nonces[n] /\ accepted'[n] = accepted[n]

LEMMA EdgeSameKeeps ==
  ASSUME NonceOutlives, NEW n \in Nonce, EdgeSame(n) PROVE Outlived(n)'
BY DEF NonceOutlives, Outlived, EdgeSame

\* A pruned nonce is older than any request that passes.
LEMMA PrunedKeeps ==
  ASSUME Typed, NonceOutlives, NEW n \in Nonce,
         sent'[n] = sent[n], accepted'[n] = accepted[n], nonces'[n] = Prune(nonces)[n]
  PROVE  Outlived(n)'
<1>1. nonces \in [Nonce -> Age \cup {None}] /\ sent[n] \in Request \cup {None}
  BY DEF Typed, TypeOK
<1>2. nonces'[n] = nonces[n] \/ (nonces[n] # None /\ nonces[n] > Life)
  BY <1>1, PruneType
<1>3. CASE nonces'[n] = nonces[n]
  BY <1>3 DEF NonceOutlives, Outlived
<1>4. CASE nonces[n] # None /\ nonces[n] > Life
  <2> SUFFICES ASSUME accepted[n] # 0 PROVE Outlived(n)'
    BY DEF Outlived
  <2>1. sent[n] # None /\ sent[n].age \in Int /\ nonces[n] \in Int
    BY <1>1, <1>4, Lives DEF NonceOutlives, Outlived, Request, RequestAge, Age
  <2>2. CASE accepted[n] = 1
    <3>1. sent[n].age > Life - Lead
      BY <1>4, <2>1, <2>2, Lives DEF NonceOutlives, Outlived
    <3> QED BY <2>1, <2>2, <3>1 DEF Outlived
  <2>3. CASE accepted[n] = 2
    <3>1. sent[n].age > Life - Lead /\ sent[n].age >= Life + Second
      BY <1>4, <2>1, <2>3, Lives DEF NonceOutlives, Outlived
    <3> QED BY <2>1, <2>3, <3>1 DEF Outlived
  <2> QED BY <2>2, <2>3 DEF NonceOutlives, Outlived
<1> QED BY <1>2, <1>3, <1>4

LEMMA AgedKeeps ==
  ASSUME Typed, NonceOutlives, NEW n \in Nonce, Tick PROVE Outlived(n)'
<1> SUFFICES ASSUME accepted[n] # 0 PROVE Outlived(n)'
  BY DEF Tick, Outlived
<1>1. /\ accepted' = accepted /\ Outlived(n)
      /\ sent[n] \in Request /\ nonces[n] \in Age \cup {None}
  BY DEF Tick, Typed, TypeOK, NonceOutlives, Outlived
<1>2. sent[n].age \in RequestAge /\ sent[n] # None
  BY <1>1, RequestAssumption DEF Request
<1>3. sent'[n] = [sent[n] EXCEPT !.age = Older(@, Life + Second)]
  BY <1>2 DEF Tick
<1>4. sent'[n] \in Request /\ sent'[n].age = Older(sent[n].age, Life + Second)
  BY <1>1, <1>2, <1>3, Ages DEF Request
<1>5. sent'[n] # None
  BY <1>4, RequestAssumption
<1>6. nonces[n] # None =>
        nonces'[n] # None /\ nonces'[n] = Older(nonces[n], Life + 1) /\ nonces[n] \in Age
  BY <1>1, Ages DEF Tick, Aged
<1> DEFINE a == sent[n].age  b == sent'[n].age  c == nonces[n]  d == nonces'[n]
<1>7. /\ a \in Int /\ b \in Int /\ a <= b
      /\ a < Life + Second => b = a + 1
      /\ a >= Life + Second => b >= Life + Second
  BY <1>2, <1>4, Lives DEF RequestAge, Older
<1>8. c # None => c \in Int /\ d \in Int /\ d <= c + 1
  BY <1>6, Lives DEF Age, Older
<1>9. CASE accepted[n] = 1
  <2>1. b > Life - Lead \/ (d # None /\ d <= b + Lead)
    BY <1>1, <1>6, <1>7, <1>8, <1>9, Lives DEF Outlived
  <2> QED BY <1>1, <1>5, <1>9, <2>1 DEF Outlived
<1>10. CASE accepted[n] = 2
  <2>1. b > Life - Lead /\ (b >= Life + Second \/ (d # None /\ d <= b + Lead - (Life + 1)))
    BY <1>1, <1>6, <1>7, <1>8, <1>10, Lives DEF Outlived
  <2> QED BY <1>1, <1>5, <1>10, <2>1 DEF Outlived
<1> QED BY <1>1, <1>9, <1>10 DEF Outlived

\* A request passes the filter once between two starts of the server until it is
\* five minutes old by its worker's clock, and never a third time
\* (UserOrWorkerFilter and NonceCache), whatever the length of a second and of
\* the window and however often and whenever it is delivered.
THEOREM PassesOnce == Spec => []DeliveredOnce
<1>1. Init => NonceOutlives
  BY DEF Init, NonceOutlives, Outlived
<1>2. Typed /\ NonceOutlives /\ [Next]_vars => NonceOutlives'
  <2> SUFFICES ASSUME Typed, NonceOutlives, [Next]_vars, NEW n \in Nonce PROVE Outlived(n)'
    BY DEF NonceOutlives
  <2>t. /\ sent \in [Nonce -> Request \cup {None}] /\ nonces \in [Nonce -> Age \cup {None}]
        /\ accepted \in [Nonce -> Nat]
    BY DEF Typed, TypeOK
  <2>1. ASSUME NEW m \in Nonce, NEW k \in Key, NEW h \in Hash, SignRequest(m, k, h)
        PROVE  Outlived(n)'
    <3>1. nonces' = nonces /\ accepted' = accepted /\ sent[m] = None
      BY <2>1 DEF SignRequest
    <3>2. CASE n = m
      BY <3>1, <3>2 DEF NonceOutlives, Outlived
    <3>3. CASE n # m
      BY <2>1, <2>t, <3>1, <3>3, EdgeSameKeeps DEF SignRequest, EdgeSame
    <3> QED BY <3>2, <3>3
  <2>2. ASSUME NEW m \in Nonce, Forget(m) PROVE Outlived(n)'
    <3>1. CASE n = m
      BY <2>2, <2>t, <3>1 DEF Forget, Outlived
    <3>2. CASE n # m
      BY <2>2, <2>t, <3>2, EdgeSameKeeps DEF Forget, EdgeSame
    <3> QED BY <3>1, <3>2
  <2>3. ASSUME NEW m \in Nonce, Refuse(m) PROVE Outlived(n)'
    BY <2>3, PrunedKeeps DEF Refuse
  <2>4. ASSUME NEW m \in Nonce, NEW t \in Thread, AdmitWorker(t, m) PROVE Outlived(n)'
    <3>1. /\ sent' = sent /\ sent[m] # None /\ InDrift(m)
          /\ Prune(nonces)[m] = None
          /\ nonces' = [Prune(nonces) EXCEPT ![m] = 0]
          /\ accepted' = [accepted EXCEPT ![m] = @ + 1]
      BY <2>4 DEF AdmitWorker, TryAddNonce
    <3>2. Prune(nonces) \in [Nonce -> Age \cup {None}]
      BY <2>t, PruneType
    <3>3. CASE n # m
      <4>1. nonces'[n] = Prune(nonces)[n] /\ accepted'[n] = accepted[n]
        BY <2>t, <3>1, <3>2, <3>3
      <4> QED BY <3>1, <4>1, PrunedKeeps
    <3>4. CASE n = m
      <4>1. sent[n] # None /\ sent[n].age \in Int /\ sent[n].age >= -Lead
        BY <2>t, <3>1, <3>4, Lives DEF Request, RequestAge
      <4>2. nonces[n] = None \/ (nonces[n] \in Int /\ nonces[n] > Life)
        BY <2>t, <3>1, <3>4, PruneType, Lives DEF Age
      <4>3. sent[n].age < Life + Second
        BY <3>1, <3>4, <4>1, DriftEnds
      <4>4. nonces'[n] = 0 /\ 0 # None /\ accepted'[n] = accepted[n] + 1
        BY <2>t, <3>1, <3>2, <3>4, RequestAssumption
      <4>5. accepted[n] # 2
        BY <4>1, <4>2, <4>3, Lives DEF NonceOutlives, Outlived
      <4>6. CASE accepted[n] = 0
        <5>1. nonces'[n] <= sent'[n].age + Lead /\ accepted'[n] = 1
          BY <3>1, <4>1, <4>4, <4>6, Lives
        <5> QED BY <3>1, <4>1, <4>4, <5>1 DEF Outlived
      <4>7. CASE accepted[n] = 1
        <5>1. sent[n].age > Life - Lead
          BY <4>1, <4>2, <4>7, Lives DEF NonceOutlives, Outlived
        <5>2. nonces'[n] <= sent'[n].age + Lead - (Life + 1) /\ accepted'[n] = 2
          BY <3>1, <4>1, <4>4, <4>7, <5>1, Lives
        <5> QED BY <3>1, <4>1, <4>4, <5>1, <5>2 DEF Outlived
      <4> QED BY <4>5, <4>6, <4>7 DEF NonceOutlives, Outlived
    <3> QED BY <3>3, <3>4
  <2>5. ASSUME Tick PROVE Outlived(n)'
    BY <2>5, AgedKeeps
  <2>6. ASSUME Restart PROVE Outlived(n)'
    BY <2>6 DEF Restart, Outlived
  <2>7. ASSUME edgeVars' = edgeVars PROVE Outlived(n)'
    BY <2>7, EdgeSameKeeps DEF edgeVars, EdgeSame
  <2>8. ASSUME NEW t \in Thread, ThreadStep(t) \/ DatabaseAway(t) PROVE edgeVars' = edgeVars
    BY <2>8 DEF ThreadStep, Lookup, AllowRetry, Reserve, Mismatch, Replay, Reclaim, Busy, Insert, Handle,
                Complete, Release, DatabaseAway, Enter, Leave, Done, edgeVars
  <2>9. ASSUME NEW t \in Thread, NEW k \in Key, NEW h \in Hash, AdmitUser(t, k, h)
        PROVE  edgeVars' = edgeVars
    BY <2>9 DEF AdmitUser, edgeVars
  <2>10. ASSUME NEW k \in Key, DgiiRejects(k) PROVE edgeVars' = edgeVars
    BY <2>10 DEF DgiiRejects, edgeVars
  <2>11. CASE UNCHANGED vars
    BY <2>7, <2>11 DEF vars, edgeVars
  <2> QED BY <2>1, <2>2, <2>3, <2>4, <2>5, <2>6, <2>7, <2>8, <2>9, <2>10, <2>11 DEF Next
<1>3. NonceOutlives => DeliveredOnce
  BY DEF NonceOutlives, Outlived, DeliveredOnce
<1> QED BY <1>1, <1>2, <1>3, TypedHolds, PTL DEF Spec
-----------------------------------------------------------------------------
(* A key has one handler, and its answer is its payload's.                 *)

Serves(t, k) == pc[t] \in {"handle", "answer"} /\ job[t].key = k

\* While t handles k the row is a reservation for its payload, and nobody else
\* handles k.
Held(t, k) ==
  /\ rec[k].status = "Processing"
  /\ rec[k].hash = job[t].hash
  /\ \A u \in Thread : Serves(u, k) => u = t

\* A reservation carries no response.
Plain(k) == rec[k].status = "Processing" => rec[k].code = "none" /\ rec[k].of = None

Own(k) ==
  k \notin raced =>
    /\ rec[k].status = "Completed" => rec[k].of = rec[k].hash
    /\ \A t \in Thread : Serves(t, k) => Held(t, k)

Reads(t, k) == pc[t] \in {"decide", "overwrite"} /\ job[t].key = k

\* What a thread read is still there, or it is stale.
Fresh(k) ==
  \A t \in Thread : Reads(t, k) /\ t \notin stale =>
    /\ rec[k].status = seen[t].status /\ rec[k].hash = seen[t].hash
    /\ rec[k].code = seen[t].code /\ rec[k].of = seen[t].of

\* No success stands in the row that a thread is about to reserve again.
Decided(k) ==
  k \notin raced =>
    \A t \in Thread : Reads(t, k) /\ pc[t] = "overwrite" /\ t \notin stale =>
      /\ rec[k].status = "Completed"
      /\ rec[k].code # "ok" \/ doc[k] = "rejected"

RowInv(k) == Plain(k) /\ Own(k) /\ Fresh(k) /\ Decided(k)

OneHandler == \A k \in Key : RowInv(k)

\* The row of k is another's business: it keeps all but its age, and whoever
\* handles k, or is about to reserve it, did before.
SameRow(k) ==
  /\ rec'[k].status = rec[k].status /\ rec'[k].hash = rec[k].hash
  /\ rec'[k].code = rec[k].code /\ rec'[k].of = rec[k].of

Remains(k) ==
  \A t \in Thread : pc'[t] \in {"handle", "answer"} /\ job'[t].key = k =>
                      pc[t] \in {"handle", "answer"} /\ job'[t] = job[t]

StillReads(k) ==
  \A t \in Thread :
    pc'[t] \in {"decide", "overwrite"} /\ job'[t].key = k /\ t \notin stale' =>
      pc'[t] = pc[t] /\ job'[t] = job[t] /\ seen'[t] = seen[t] /\ t \notin stale

\* A document behind a completed row stays rejected.
StaysRejected(k) ==
  k \notin raced /\ rec[k].status = "Completed" /\ doc[k] = "rejected" => doc'[k] = "rejected"

LEMMA RowKept ==
  ASSUME OneHandler, NEW k \in Key, SameRow(k), k \in raced => k \in raced', Remains(k),
         StillReads(k), StaysRejected(k)
  PROVE  RowInv(k)'
<1>1. RowInv(k)
  BY DEF OneHandler
<1>2. Plain(k)' /\ Own(k)'
  BY <1>1 DEF RowInv, Plain, Own, Serves, Held, SameRow, Remains
<1>3. Fresh(k)'
  BY <1>1 DEF RowInv, Fresh, Reads, SameRow, StillReads
<1>4. Decided(k)'
  BY <1>1 DEF RowInv, Decided, Reads, SameRow, StillReads, StaysRejected
<1> QED BY <1>2, <1>3, <1>4 DEF RowInv

\* A thread leaves, and writes nothing.
LEMMA LeaveKept ==
  ASSUME Typed, OneHandler, NEW k \in Key, NEW t \in Thread, Leave(t) PROVE RowInv(k)'
<1>1. SameRow(k) /\ Remains(k) /\ raced' = raced /\ StillReads(k) /\ StaysRejected(k)
  BY DEF Leave, NotWritten, Goto, SameRow, Remains, StillReads, StaysRejected, Typed, TypeOK
<1> QED BY <1>1, RowKept

\* The row is written: whoever was about to reserve it is stale, and what is
\* left to show is what holds of the row itself.
LEMMA WrittenFresh ==
  ASSUME Typed, NEW q \in Key, NEW t \in Thread, Written(t, q), job[t].key = q,
         pc'[t] \notin {"decide", "overwrite"},
         \A u \in Thread : u # t => pc'[u] = pc[u] /\ job'[u] = job[u]
  PROVE  Fresh(q)' /\ Decided(q)'
<1>1. \A u \in Thread : Reads(u, q)' => u \in stale'
  BY DEF Written, Reads
<1> QED BY <1>1 DEF Fresh, Decided

\* Another key's row is written, or none.
LEMMA OthersRead ==
  ASSUME Typed, NEW q \in Key, NEW t \in Thread, NEW k \in Key,
         Written(t, k) \/ NotWritten(t), seen' = [seen EXCEPT ![t] = NoRecord] \/ seen' = seen,
         pc'[t] \notin {"decide", "overwrite"},
         \A u \in Thread : u # t => pc'[u] = pc[u] /\ job'[u] = job[u]
  PROVE  StillReads(q)
BY DEF Written, NotWritten, StillReads, Typed, TypeOK

\* A thread reserves a key that nobody handles, or the key is raced.
LEMMA EnterKept ==
  ASSUME Typed, OneHandler, NEW q \in Key, NEW t \in Thread, Enter(t),
         NEW r, rec' = [rec EXCEPT ![job[t].key] = r], job[t].key \in Key,
         Written(t, job[t].key) \/ (NotWritten(t) /\ r = rec[job[t].key]),
         r.status = "Processing" => r.code = "none" /\ r.of = None,
         raced \subseteq raced', raced' \subseteq raced \cup {job[t].key},
         job[t].key \notin raced' =>
           /\ \A u \in Thread : ~Serves(u, job[t].key)
           /\ r.status = "Processing" /\ r.hash = job[t].hash
  PROVE  RowInv(q)'
<1>1. /\ job' = job /\ \A u \in Thread : pc'[u] = IF u = t THEN "handle" ELSE pc[u]
      /\ doc' = doc /\ seen' = [seen EXCEPT ![t] = NoRecord]
  BY DEF Enter, Goto, Typed, TypeOK
<1>2. StillReads(q) /\ StaysRejected(q)
  BY <1>1, OthersRead DEF StaysRejected
<1>3. CASE q # job[t].key
  <2>1. SameRow(q)
    BY <1>3 DEF SameRow, Typed, TypeOK
  <2>2. Remains(q)
    BY <1>1, <1>3 DEF Remains
  <2> QED BY <1>2, <2>1, <2>2, RowKept
<1>4. CASE q = job[t].key
  <2>1. rec'[q] = r
    BY <1>4 DEF Typed, TypeOK
  <2>2. Plain(q)'
    BY <2>1 DEF Plain
  <2>3. Own(q)'
    <3> SUFFICES ASSUME q \notin raced'
        PROVE  /\ rec'[q].status = "Completed" => rec'[q].of = rec'[q].hash
               /\ \A u \in Thread : Serves(u, q)' => Held(u, q)'
      BY DEF Own
    <3>1. \A u \in Thread : Serves(u, q)' => u = t
      BY <1>1, <1>4 DEF Serves
    <3>2. Held(t, q)'
      BY <1>1, <1>4, <2>1, <3>1 DEF Held
    <3>3. \A u \in Thread : Serves(u, q)' => Held(u, q)'
      BY <3>1, <3>2
    <3> QED BY <1>4, <2>1, <3>3
  <2>4. Fresh(q)' /\ Decided(q)'
    <3>1. CASE Written(t, q)
      BY <1>1, <1>4, <3>1, WrittenFresh
    <3>2. CASE NotWritten(t) /\ r = rec[q]
      <4>1. RowInv(q) /\ SameRow(q) /\ raced \subseteq raced'
        BY <2>1, <3>2 DEF OneHandler, SameRow
      <4>2. Fresh(q)'
        BY <1>2, <4>1 DEF RowInv, Fresh, Reads, SameRow, StillReads
      <4>3. Decided(q)'
        BY <1>1, <1>2, <4>1 DEF RowInv, Decided, Reads, SameRow, StillReads
      <4> QED BY <4>2, <4>3
    <3> QED BY <1>4, <3>1, <3>2
  <2> QED BY <2>2, <2>3, <2>4 DEF RowInv
<1> QED BY <1>3, <1>4

\* The handler of a key answers: its row is done with, or was no reservation.
LEMMA DoneKept ==
  ASSUME Typed, OneHandler, NEW q \in Key, NEW t \in Thread, pc[t] = "answer", Done(t),
         NEW r, rec' = [rec EXCEPT ![job[t].key] = r], job[t].key \in Key,
         rec[job[t].key].status # "Processing" => r = rec[job[t].key],
         rec[job[t].key].status = "Processing" =>
           \/ r.status = "Absent"
           \/ r.status = "Completed" /\ r.hash = rec[job[t].key].hash /\ r.of = job[t].hash
  PROVE  RowInv(q)'
<1>1. /\ raced' = raced /\ doc' = doc /\ seen' = seen
      /\ \A u \in Thread : pc'[u] = IF u = t THEN "idle" ELSE pc[u]
      /\ \A u \in Thread : u # t => job'[u] = job[u]
  BY DEF Done, Goto, Typed, TypeOK
<1>2. Remains(q)
  BY <1>1 DEF Remains
<1>3. StillReads(q) /\ StaysRejected(q)
  BY <1>1, OthersRead DEF Done, StaysRejected
<1>4. CASE q # job[t].key
  <2>1. SameRow(q)
    BY <1>4 DEF SameRow, Typed, TypeOK
  <2> QED BY <1>1, <1>2, <1>3, <2>1, RowKept
<1>5. CASE q = job[t].key /\ rec[q].status # "Processing"
  <2>1. SameRow(q)
    BY <1>5 DEF SameRow, Typed, TypeOK
  <2> QED BY <1>1, <1>2, <1>3, <2>1, RowKept
<1>6. CASE q = job[t].key /\ rec[q].status = "Processing"
  <2>1. rec'[q] = r /\ RowInv(q) /\ Serves(t, q)
    BY <1>6 DEF Typed, TypeOK, OneHandler, Serves
  <2>2. Plain(q)'
    BY <1>6, <2>1 DEF RowInv, Plain
  <2>3. Fresh(q)' /\ Decided(q)'
    <3>1. Written(t, q)
      BY <1>6 DEF Done
    <3> QED BY <1>1, <1>6, <3>1, WrittenFresh
  <2>4. CASE q \in raced
    BY <1>1, <2>2, <2>3, <2>4 DEF RowInv, Own
  <2>5. CASE q \notin raced
    <3>1. Held(t, q)
      BY <2>1, <2>5 DEF RowInv, Own
    <3>2. \A u \in Thread : ~Serves(u, q)'
      BY <1>1, <1>2, <3>1 DEF Held, Serves, Remains
    <3>3. rec'[q].status = "Completed" => rec'[q].of = rec'[q].hash
      BY <1>6, <2>1, <3>1 DEF Held
    <3> QED BY <2>2, <2>3, <3>2, <3>3 DEF RowInv, Own
  <2> QED BY <2>4, <2>5
<1> QED BY <1>4, <1>5, <1>6

LEMMA ReserveKept ==
  ASSUME Typed, OneHandler, NEW q \in Key, NEW t \in Thread, Reserve(t) PROVE RowInv(q)'
<1> DEFINE k == job[t].key  h == job[t].hash  s == seen[t]  r == Reserved(rec[k], s, h)
<1>1. /\ pc[t] = "overwrite" /\ Enter(t)
      /\ rec' = [rec EXCEPT ![k] = r]
      /\ raced' = IF t \in stale THEN raced \cup {k} ELSE raced
  BY DEF Reserve
<1>2. /\ k \in Key /\ rec[k] \in Record /\ s \in Record
  BY <1>1 DEF Typed, TypeOK, HasJob, Job
<1>3. RowInv(k)
  BY <1>2 DEF OneHandler
<1>4. r.status = "Processing" => r.code = "none" /\ r.of = None
  <2>1. r = rec[k] \/ \E g : r = Reservation(g)
    BY DEF Reserved
  <2>2. CASE r = rec[k]
    BY <1>3, <2>2 DEF RowInv, Plain
  <2>3. CASE \E g : r = Reservation(g)
    BY <2>3 DEF Reservation
  <2> QED BY <2>1, <2>2, <2>3
<1>5. Written(t, k) \/ (NotWritten(t) /\ r = rec[k])
  BY DEF Reserve, Reserved
<1>6. ASSUME k \notin raced'
      PROVE  /\ \A u \in Thread : ~Serves(u, k)
             /\ r.status = "Processing" /\ r.hash = h
  <2>1. t \notin stale /\ k \notin raced /\ Reads(t, k)
    BY <1>1, <1>6 DEF Reads
  <2>2. rec[k].status = "Completed" /\ rec[k].hash = s.hash
    BY <1>1, <1>3, <2>1 DEF RowInv, Fresh, Decided
  <2>3. \A u \in Thread : ~Serves(u, k)
    BY <1>3, <2>1, <2>2 DEF RowInv, Own, Held
  <2>4. r = Reservation(h)
    BY <2>2 DEF Reserved
  <2>5. r.status = "Processing" /\ r.hash = h
    BY <2>4 DEF Reservation
  <2> QED BY <2>3, <2>5
<1>7. raced \subseteq raced' /\ raced' \subseteq raced \cup {k}
  BY <1>1
<1> HIDE DEF r
<1> QED BY <1>1, <1>2, <1>4, <1>5, <1>6, <1>7, EnterKept

\* The decision to reserve a key again is right by the row it rests on, unless
\* that row is stale.
LEMMA AllowKept ==
  ASSUME Typed, OneHandler, NEW q \in Key, NEW t \in Thread, AllowRetry(t) PROVE RowInv(q)'
<1> DEFINE k == job[t].key  s == seen[t]
<1>1. /\ pc[t] = "decide" /\ s.status # "Absent" /\ k \in Key /\ s \in Record
      /\ \A u \in Thread : pc'[u] = IF u = t THEN "overwrite" ELSE pc[u]
      /\ UNCHANGED <<rec, doc, job, seen, stale, raced>>
      /\ RowInv(q)
  BY DEF AllowRetry, Goto, Typed, TypeOK, HasJob, Job, OneHandler
<1>2. Plain(q)' /\ Own(q)'
  BY <1>1 DEF RowInv, Plain, Own, Serves, Held
<1>3. Fresh(q)'
  BY <1>1 DEF RowInv, Fresh, Reads
<1>4. Decided(q)'
  <2> SUFFICES ASSUME q \notin raced, NEW u \in Thread, Reads(u, q)', pc'[u] = "overwrite",
                      u \notin stale
      PROVE  rec[q].status = "Completed" /\ (rec[q].code # "ok" \/ doc[q] = "rejected")
    BY <1>1 DEF Decided
  <2>1. CASE u # t
    BY <1>1, <2>1 DEF RowInv, Decided, Reads
  <2>2. CASE u = t
    <3>1. /\ q = k /\ rec[q].status = s.status /\ rec[q].code = s.code /\ rec[q].of = s.of
      BY <1>1, <2>2 DEF RowInv, Fresh, Reads
    <3>2. CASE s.hash # job[t].hash
      <4>1. FailedBefore(k, s)
        BY <3>2 DEF AllowRetry
      <4>2. s.code = "failed" \/ (s.of # None /\ doc[q] = "rejected")
        BY <3>1, <4>1 DEF FailedBefore, IsUnderlyingDocumentRejected
      <4>3. s.status # "Processing"
        BY <1>1, <3>1, <4>2 DEF RowInv, Plain
      <4> QED BY <1>1, <3>1, <4>2, <4>3 DEF Record
    <3>3. CASE s.hash = job[t].hash
      <4>1. s.status = "Completed" /\ ~Stands(k, s)
        BY <3>3 DEF AllowRetry
      <4> QED BY <3>1, <4>1 DEF Stands, IsUnderlyingDocumentRejected
    <3> QED BY <3>2, <3>3
  <2> QED BY <2>1, <2>2
<1> QED BY <1>2, <1>3, <1>4 DEF RowInv

\* What a thread reads is what there is.
LEMMA LookupKept ==
  ASSUME Typed, OneHandler, NEW q \in Key, NEW t \in Thread, Lookup(t) PROVE RowInv(q)'
<1> DEFINE k == job[t].key  r == rec[k]
           s == [r EXCEPT !.age = IF LeaseExpired(r) THEN Life + 1 ELSE 0]
<1>1. /\ pc[t] = "lookup" /\ k \in Key /\ r \in Record
      /\ \A u \in Thread : pc'[u] = IF u = t THEN "decide" ELSE pc[u]
      /\ seen' = [seen EXCEPT ![t] = s]
      /\ UNCHANGED <<rec, doc, job, stale, raced>>
      /\ RowInv(q)
  BY DEF Lookup, Goto, Typed, TypeOK, HasJob, Job, OneHandler
<1>2. s.status = r.status /\ s.hash = r.hash /\ s.code = r.code /\ s.of = r.of
  BY <1>1 DEF Record
<1> HIDE DEF s
<1>3. \A u \in Thread : seen'[u] = IF u = t THEN s ELSE seen[u]
  BY <1>1 DEF Typed, TypeOK
<1>4. Plain(q)' /\ Own(q)'
  BY <1>1 DEF RowInv, Plain, Own, Serves, Held
<1>5. Fresh(q)'
  BY <1>1, <1>2, <1>3 DEF RowInv, Fresh, Reads
<1>6. Decided(q)'
  BY <1>1, <1>3 DEF RowInv, Decided, Reads
<1> QED BY <1>4, <1>5, <1>6 DEF RowInv

\* The handler changes the document, but nobody was about to reserve the key.
LEMMA HandleKept ==
  ASSUME Typed, OneHandler, NEW q \in Key, NEW t \in Thread, Handle(t) PROVE RowInv(q)'
<1>1. /\ pc[t] = "handle" /\ UNCHANGED <<rec, job, seen, stale, raced>>
      /\ \A u \in Thread : pc'[u] = IF u = t THEN "answer" ELSE pc[u]
      /\ RowInv(q)
  BY DEF Handle, Goto, Typed, TypeOK, OneHandler
<1>2. SameRow(q) /\ Remains(q) /\ StillReads(q)
  BY <1>1 DEF SameRow, Remains, StillReads
<1>3. StaysRejected(q)
  <2>1. CASE job[t].key = q
    BY <1>1, <2>1 DEF RowInv, Own, Serves, Held, StaysRejected
  <2>2. CASE job[t].key # q
    BY <2>2 DEF Handle, StaysRejected, Typed, TypeOK
  <2> QED BY <2>1, <2>2
<1> QED BY <1>1, <1>2, <1>3, RowKept

LEMMA ReclaimKept ==
  ASSUME Typed, OneHandler, NEW q \in Key, NEW t \in Thread, Reclaim(t) PROVE RowInv(q)'
<1> DEFINE k == job[t].key  h == job[t].hash  s == seen[t]  r == [rec[k] EXCEPT !.age = 0]
<1>1. /\ pc[t] = "decide" /\ Enter(t) /\ s.hash = h /\ Written(t, k)
      /\ rec[k].status = "Processing"
      /\ rec' = [rec EXCEPT ![k].age = 0]
      /\ raced' = IF Handling(k) = {} /\ rec[k].hash = s.hash THEN raced ELSE raced \cup {k}
  BY DEF Reclaim, LeaseExpired
<1>2. k \in Key /\ rec[k] \in Record
  BY <1>1 DEF Typed, TypeOK, HasJob, Job
<1>3. rec' = [rec EXCEPT ![k] = r]
  BY <1>1
<1>4. /\ r.status = rec[k].status /\ r.hash = rec[k].hash
      /\ r.code = rec[k].code /\ r.of = rec[k].of
  BY <1>2 DEF Record
<1>5. RowInv(k)
  BY <1>2 DEF OneHandler
<1>6. r.status = "Processing" => r.code = "none" /\ r.of = None
  BY <1>4, <1>5 DEF RowInv, Plain
<1>7. k \notin raced' => /\ \A u \in Thread : ~Serves(u, k)
                         /\ r.status = "Processing" /\ r.hash = h
  BY <1>1, <1>4 DEF Handling, Serves
<1>8. raced \subseteq raced' /\ raced' \subseteq raced \cup {k}
  BY <1>1
<1> HIDE DEF r
<1> QED BY <1>1, <1>2, <1>3, <1>6, <1>7, <1>8, EnterKept

LEMMA InsertKept ==
  ASSUME Typed, OneHandler, NEW q \in Key, NEW t \in Thread, Insert(t) PROVE RowInv(q)'
<1> DEFINE k == job[t].key  h == job[t].hash
<1>1. pc[t] = "decide" /\ k \in Key
  BY DEF Insert, Typed, TypeOK, HasJob, Job
<1>2. CASE rec[k].status = "Absent"
  <2>1. /\ Enter(t) /\ rec' = [rec EXCEPT ![k] = Reservation(h)] /\ raced' = raced
        /\ Written(t, k)
    BY <1>2 DEF Insert
  <2>2. /\ Reservation(h).status = "Processing" /\ Reservation(h).hash = h
        /\ Reservation(h).code = "none" /\ Reservation(h).of = None
    BY DEF Reservation
  <2>3. k \notin raced' => \A u \in Thread : ~Serves(u, k)
    BY <1>1, <1>2, <2>1 DEF OneHandler, RowInv, Own, Held
  <2> QED BY <1>1, <2>1, <2>2, <2>3, EnterKept
<1>3. CASE rec[k].status # "Absent"
  BY <1>3, LeaveKept DEF Insert
<1> QED BY <1>2, <1>3

LEMMA AnswerKept ==
  ASSUME Typed, OneHandler, NEW q \in Key, NEW t \in Thread, Complete(t) \/ Release(t)
  PROVE  RowInv(q)'
<1> DEFINE k == job[t].key
<1>1. /\ pc[t] = "answer" /\ Done(t)
  BY DEF Complete, Release
<1>2. k \in Key /\ rec[k] \in Record
  BY <1>1 DEF Typed, TypeOK, HasJob, Job
<1>3. CASE Complete(t)
  <2> DEFINE r == Completed(rec[k], outcome[t], job[t].hash)
  <2>1. rec' = [rec EXCEPT ![k] = r]
    BY <1>3 DEF Complete
  <2>2. rec[k].status # "Processing" => r = rec[k]
    BY DEF Completed
  <2>3. rec[k].status = "Processing" =>
          r.status = "Completed" /\ r.hash = rec[k].hash /\ r.of = job[t].hash
    BY <1>2 DEF Completed, Record
  <2> HIDE DEF r
  <2> QED BY <1>1, <1>2, <2>1, <2>2, <2>3, DoneKept
<1>4. CASE Release(t)
  <2> DEFINE r == WithoutReservation(rec[k])
  <2>1. rec' = [rec EXCEPT ![k] = r]
    BY <1>4 DEF Release
  <2>2. /\ rec[k].status # "Processing" => r = rec[k]
        /\ rec[k].status = "Processing" => r.status = "Absent"
    BY NoRecordType DEF WithoutReservation
  <2> HIDE DEF r
  <2> QED BY <1>1, <1>2, <2>1, <2>2, DoneKept
<1> QED BY <1>3, <1>4

LEMMA OneHandlerHolds == Spec => []OneHandler
<1>1. Init => OneHandler
  BY NoRecordType DEF Init, OneHandler, RowInv, Plain, Own, Fresh, Decided, Reads, Serves, NoRecord
<1>2. Typed /\ OneHandler /\ [Next]_vars => OneHandler'
  <2> SUFFICES ASSUME Typed, OneHandler, [Next]_vars, NEW q \in Key PROVE RowInv(q)'
    BY DEF OneHandler
  <2>t. /\ rec \in [Key -> Record] /\ job \in [Thread -> Job \cup {None}]
        /\ pc \in [Thread -> {"idle", "lookup", "decide", "overwrite", "handle", "answer"}]
        /\ doc \in [Key -> {"none", "open", "rejected"}]
    BY DEF Typed, TypeOK, Job
  <2>u. rec' = rec => SameRow(q)
    BY DEF SameRow
  <2>v. doc' = doc => StaysRejected(q)
    BY DEF StaysRejected
  <2>1. CASE \/ \E n \in Nonce, k \in Key, h \in Hash : SignRequest(n, k, h)
             \/ \E n \in Nonce : Forget(n) \/ Refuse(n)
             \/ UNCHANGED vars
    BY <2>1, <2>u, <2>v, RowKept DEF SignRequest, Forget, Refuse, vars, Remains, StillReads
  <2>3. ASSUME NEW n \in Nonce, NEW t \in Thread, AdmitWorker(t, n) PROVE RowInv(q)'
    BY <2>3, <2>t, <2>u, <2>v, RowKept DEF AdmitWorker, Goto, Remains, StillReads
  <2>4. ASSUME NEW t \in Thread, NEW k \in Key, NEW h \in Hash, AdmitUser(t, k, h)
        PROVE  RowInv(q)'
    BY <2>4, <2>t, <2>u, <2>v, RowKept DEF AdmitUser, Goto, Remains, StillReads
  <2>6. ASSUME NEW t \in Thread, Mismatch(t) \/ Replay(t) \/ Busy(t) PROVE RowInv(q)'
    BY <2>6, LeaveKept DEF Mismatch, Replay, Busy
  <2>8. ASSUME NEW t \in Thread, DatabaseAway(t) PROVE RowInv(q)'
    BY <2>8, <2>t, <2>u, <2>v, RowKept DEF DatabaseAway, NotWritten, Goto, Remains, StillReads, Typed, TypeOK
  <2>9. CASE \E k \in Key : DgiiRejects(k)
    <3>1. StaysRejected(q)
      BY <2>9, <2>t DEF DgiiRejects, StaysRejected
    <3> QED BY <2>9, <2>u, <3>1, RowKept DEF DgiiRejects, Remains, StillReads
  <2>10. CASE Tick
    <3>1. rec[q] \in Record
      BY <2>t
    <3>2. [rec[q] EXCEPT !.age = Older(@, Life + 1)].status = rec[q].status
          /\ [rec[q] EXCEPT !.age = Older(@, Life + 1)].hash = rec[q].hash
          /\ [rec[q] EXCEPT !.age = Older(@, Life + 1)].code = rec[q].code
          /\ [rec[q] EXCEPT !.age = Older(@, Life + 1)].of = rec[q].of
      BY <3>1, Ages DEF Record
    <3>3. SameRow(q)
      BY <2>10, <3>2 DEF Tick, SameRow
    <3> QED BY <2>10, <2>v, <3>3, RowKept DEF Tick, Remains, StillReads
  <2>11. CASE Restart
    BY <2>11, <2>u, <2>v, RowKept DEF Restart, Remains, StillReads
  <2>13. ASSUME NEW t \in Thread, Complete(t) \/ Release(t) PROVE RowInv(q)'
    BY <2>13, AnswerKept
  <2> QED BY <2>1, <2>3, <2>4, <2>6, <2>8, <2>9, <2>10, <2>11, <2>13, LookupKept, AllowKept,
             HandleKept, ReserveKept, ReclaimKept, InsertKept DEF Next, ThreadStep
<1> QED BY <1>1, <1>2, TypedHolds, PTL DEF Spec

\* No interleaving of inserts, reservations, reclaims, releases, crashes and
\* failing queries gives a key a second handler, but for the two races that
\* reserveOrGet leaves open (raced).
THEOREM KeyHasOneHandler == Spec => []HandledByOne
<1>1. OneHandler => HandledByOne
  BY DEF OneHandler, RowInv, Own, Serves, Held, HandledByOne, Handling
<1> QED BY <1>1, OneHandlerHolds, PTL

\* Under the same proviso what complete stores answers the payload whose hash is
\* stored beside it, so that a replay is of the caller's own payload.
THEOREM StoredForItsPayload == Spec => []AnswersItsPayload
<1>1. OneHandler => AnswersItsPayload
  BY DEF OneHandler, RowInv, Own, AnswersItsPayload
<1> QED BY <1>1, OneHandlerHolds, PTL
-----------------------------------------------------------------------------
(* A success stays stored.                                                 *)

Succeeded(k) == rec[k].status = "Completed" /\ rec[k].code = "ok" /\ doc[k] # "rejected"

\* Nothing is reserved over a success: the row is the one decided on, or the key
\* is raced.
LEMMA ReserveSparesSuccess ==
  ASSUME Typed, OneHandler, NEW t \in Thread, Reserve(t), NEW k \in Key, k \notin raced',
         Succeeded(k)
  PROVE  k # job[t].key
<1> SUFFICES ASSUME k = job[t].key PROVE FALSE
  OBVIOUS
<1>1. t \notin stale /\ k \notin raced /\ Reads(t, k) /\ pc[t] = "overwrite" /\ Decided(k)
  BY DEF Reserve, Reads, OneHandler, RowInv
<1> QED BY <1>1 DEF Decided, Succeeded

\* A success that no race of reserveOrGet concerns stays stored until DGII
\* rejects the document behind it: complete and release leave a completed row
\* alone, and so do reserveOrGet's INSERT and its take-over of a lease.
THEOREM SuccessStays == Spec => SuccessIsKept
<1> DEFINE Kept == \A k \in Key \ raced' : Succeeded(k) => rec'[k] = rec[k]
<1>1. Typed /\ OneHandler /\ [Next]_vars => Kept
  <2> SUFFICES ASSUME Typed, OneHandler, [Next]_vars, NEW k \in Key, k \notin raced', Succeeded(k)
      PROVE  rec'[k] = rec[k]
    OBVIOUS
  <2>t. /\ rec \in [Key -> Record] /\ rec[k].status = "Completed"
        /\ \A t \in Thread : pc[t] # "idle" => job[t].key \in Key
    BY DEF Typed, TypeOK, HasJob, Job, Succeeded
  <2>1. ASSUME NEW t \in Thread, Reserve(t) PROVE rec'[k] = rec[k]
    BY <2>1, <2>t, ReserveSparesSuccess DEF Reserve
  <2>2. ASSUME NEW t \in Thread, Reclaim(t) PROVE rec'[k] = rec[k]
    <3>1. k # job[t].key
      BY <2>2, <2>t DEF Reclaim, LeaseExpired
    <3> QED BY <2>2, <2>t, <3>1 DEF Reclaim
  <2>3. ASSUME NEW t \in Thread, Insert(t) PROVE rec'[k] = rec[k]
    <3>1. CASE rec[job[t].key].status = "Absent"
      BY <2>3, <2>t, <3>1 DEF Insert
    <3>2. CASE rec[job[t].key].status # "Absent"
      BY <2>3, <3>2 DEF Insert, Leave
    <3> QED BY <3>1, <3>2
  <2>4. ASSUME NEW t \in Thread, Complete(t) PROVE rec'[k] = rec[k]
    <3>1. CASE job[t].key = k
      BY <2>4, <2>t, <3>1 DEF Complete, Completed
    <3>2. CASE job[t].key # k
      BY <2>4, <2>t, <3>2 DEF Complete
    <3> QED BY <3>1, <3>2
  <2>5. ASSUME NEW t \in Thread, Release(t) PROVE rec'[k] = rec[k]
    <3>1. CASE job[t].key = k
      BY <2>5, <2>t, <3>1 DEF Release, WithoutReservation
    <3>2. CASE job[t].key # k
      BY <2>5, <2>t, <3>2 DEF Release
    <3> QED BY <3>1, <3>2
  <2>6. CASE Tick
    BY <2>6, <2>t DEF Tick
  <2>7. ASSUME NEW t \in Thread,
               \/ Lookup(t) \/ AllowRetry(t) \/ Mismatch(t) \/ Replay(t) \/ Busy(t) \/ Handle(t)
               \/ DatabaseAway(t)
        PROVE  rec' = rec
    BY <2>7 DEF Lookup, AllowRetry, Mismatch, Replay, Busy, Handle, DatabaseAway, Leave
  <2>8. CASE \/ \E n \in Nonce, q \in Key, h \in Hash : SignRequest(n, q, h)
             \/ \E n \in Nonce : Forget(n) \/ Refuse(n) \/ \E t \in Thread : AdmitWorker(t, n)
             \/ \E t \in Thread, q \in Key, h \in Hash : AdmitUser(t, q, h)
             \/ \E q \in Key : DgiiRejects(q)
             \/ Restart
             \/ UNCHANGED vars
    BY <2>8 DEF SignRequest, Forget, Refuse, AdmitWorker, AdmitUser, DgiiRejects, Restart, vars
  <2> QED BY <2>1, <2>2, <2>3, <2>4, <2>5, <2>6, <2>7, <2>8 DEF Next, ThreadStep
<1>2. Spec => [][Kept]_vars
  BY <1>1, TypedHolds, OneHandlerHolds, PTL DEF Spec
<1>3. [Kept]_vars => [\A k \in Key \ raced' :
         rec[k].status = "Completed" /\ rec[k].code = "ok" /\ doc[k] # "rejected"
           => rec'[k] = rec[k]]_vars
  BY DEF Succeeded
<1> QED BY <1>2, <1>3, PTL DEF SuccessIsKept
=============================================================================
