----------------------------- MODULE DgiiTokens -----------------------------
(***************************************************************************)
(* Calls to DGII under a bearer token: DgiiDirectTransport, the            *)
(* EcfTokenManager that finds or renews the token, and RedisCacheService   *)
(* with its in-memory fallback.  Several threads call; some share one      *)
(* manager (the default client), some have one of their own, in the same   *)
(* process or in another; all look for the token of one issuer.            *)
(*                                                                         *)
(* Every Redis command, every mutex section and every request to DGII is   *)
(* a step of its own.  There is no clock: a token may be refused from any  *)
(* moment on, a cached copy may run out at any moment, and a lock is given *)
(* up by its 30 seconds at any moment its owner cannot still be holding    *)
(* it.  A renewal is two requests of at most 15 seconds each, which is     *)
(* taken to be less than the 30 unless SlowRenewal says otherwise.         *)
(*                                                                         *)
(* A token is what DGII makes of it, "good" or "dead".  Copies of one      *)
(* token may die at different moments, so every order of what expires and  *)
(* what is copied is allowed for.                                          *)
(*                                                                         *)
(* Abstracted: what is uploaded or asked for, the seed and its signature,  *)
(* the RESP encoding.  The twelve polls of the cache that find nothing are *)
(* one that finds nothing.                                                 *)
(***************************************************************************)
EXTENDS Naturals

CONSTANTS
  Thread,
  Manager,      \* EcfTokenManager objects
  Process,
  ProcessOf,    \* the process of each manager
  PerRequest,   \* managers that live for one call
  Homes,        \* ways to give the threads their managers
  SlowRenewal,  \* a renewal may outlive its lock
  MaxSwings,    \* bound: times Redis fails or returns
  None, Orphan

Token == {"good", "dead"}

ASSUME TokenAssumption ==
  /\ ProcessOf \in [Manager -> Process]
  /\ PerRequest \subseteq Manager
  /\ Homes \subseteq [Thread -> Manager]
  /\ SlowRenewal \in BOOLEAN
  /\ MaxSwings \in Nat
  /\ None \notin Token /\ {None, Orphan} \cap Thread = {} /\ None # Orphan

VARIABLES
  home,      \* the manager of each thread, chosen once
  redisUp,
  swings,    \* how often that has changed
  useRedis,  \* per process: RedisCacheService::useRedis_
  shared,    \* the token in Redis, or None
  lock,      \* the lock in Redis: its owner, None, or Orphan when nobody will release it
  local,     \* per process: the token in memoryStore_
  localLock, \* per process: the lock in locks_
  memory,    \* per manager: cachedToken_ while it is valid
  mutex,     \* per manager: the thread in renewMutex_
  pc, tok,   \* per thread: its step, and the token in its hands
  retried    \* the threads whose request has been refused once

place == <<redisUp, swings, useRedis, shared, lock, local, localLock>>
vars  == <<home, place, memory, mutex, pc, tok, retried>>

Proc(t) == ProcessOf[home[t]]

Init ==
  /\ home \in Homes
  /\ redisUp \in BOOLEAN
  /\ swings = 0
  /\ useRedis = [p \in Process |-> redisUp]
  /\ shared = None /\ lock = None
  /\ local = [p \in Process |-> None]
  /\ localLock = [p \in Process |-> None]
  /\ memory = [m \in Manager |-> None]
  /\ mutex = [m \in Manager |-> None]
  /\ pc = [t \in Thread |-> "idle"]
  /\ tok = [t \in Thread |-> None]
  /\ retried = {}
-----------------------------------------------------------------------------
(* RedisCacheService. *)

\* checkRedisAvailability: once a PING has been answered Redis is used for
\* good; before that it is tried again, at most every 30 seconds.
Available(p) == IF useRedis[p] THEN {TRUE} ELSE IF redisUp THEN BOOLEAN ELSE {FALSE}

Use(p, on) == useRedis' = [useRedis EXCEPT ![p] = on]

\* get: the fallback is consulted when Redis is not in use or does not answer.
Cached(p, on) == IF on /\ redisUp THEN shared ELSE local[p]

\* set: likewise.
Store(p, on, x) ==
  IF on /\ redisUp THEN shared' = x /\ UNCHANGED local
                   ELSE local' = [local EXCEPT ![p] = x] /\ UNCHANGED shared

\* remove: a DEL that cannot be sent is not sent again.
Remove(p, on) ==
  /\ shared' = IF on /\ redisUp THEN None ELSE shared
  /\ local' = [local EXCEPT ![p] = None]

\* Fault: a lock held in Redis by another is taken over.
MayLockAny(p, on) == IF on THEN redisUp ELSE localLock[p] = None

\* acquireLock: with Redis in use nothing but its OK takes the lock.
MayLock(p, on) == IF on THEN redisUp /\ lock = None ELSE localLock[p] = None

TakeLock(t, on) ==
  IF on THEN lock' = t /\ UNCHANGED localLock
        ELSE localLock' = [localLock EXCEPT ![Proc(t)] = t] /\ UNCHANGED lock

\* releaseLock: deletes the lock only if it still bears the caller's value.
\* One that cannot be deleted stays until it expires.
DropLock(t, on) ==
  LET p == Proc(t) IN
  IF on
  THEN /\ lock' = IF lock # t THEN lock ELSE IF redisUp THEN None ELSE Orphan
       /\ localLock' = IF localLock[p] = t THEN [localLock EXCEPT ![p] = Orphan] ELSE localLock
  ELSE /\ localLock' = IF localLock[p] = t THEN [localLock EXCEPT ![p] = None] ELSE localLock
       /\ UNCHANGED lock
-----------------------------------------------------------------------------
(* EcfTokenManager::getToken. *)

\* A look at the cache at step from: on to hit with the token, or to miss.
Look(t, from, hit, miss) ==
  /\ pc[t] = from
  /\ \E on \in Available(Proc(t)) :
       LET x == Cached(Proc(t), on) IN
       /\ Use(Proc(t), on)
       /\ pc' = [pc EXCEPT ![t] = IF x # None THEN hit ELSE miss]
       /\ tok' = [tok EXCEPT ![t] = x]
  /\ UNCHANGED <<home, redisUp, swings, shared, lock, local, localLock, memory, mutex, retried>>

\* An attempt at the lock at step from.
Acquire(t, from, won, lost) ==
  /\ pc[t] = from
  /\ \E on \in Available(Proc(t)) :
       /\ Use(Proc(t), on)
       /\ \/ /\ MayLock(Proc(t), on)
             /\ TakeLock(t, on)
             /\ pc' = [pc EXCEPT ![t] = won]
          \/ /\ ~MayLock(Proc(t), on)
             /\ pc' = [pc EXCEPT ![t] = lost]
             /\ UNCHANGED <<lock, localLock>>
  /\ UNCHANGED <<home, redisUp, swings, shared, local, memory, mutex, tok, retried>>

Release(t, from, next) ==
  /\ pc[t] = from
  /\ \E on \in Available(Proc(t)) : Use(Proc(t), on) /\ DropLock(t, on)
  /\ pc' = [pc EXCEPT ![t] = next]
  /\ UNCHANGED <<home, redisUp, swings, shared, local, memory, mutex, tok, retried>>

\* A token found in the cache is kept in memory, for fifty minutes, whatever
\* has happened to it since it was read.
Remember(t) ==
  /\ pc[t] = "remember"
  /\ memory' = [memory EXCEPT ![home[t]] = tok[t]]
  /\ pc' = [pc EXCEPT ![t] = "send"]
  /\ UNCHANGED <<home, place, mutex, tok, retried>>

CheckMemory(t) ==
  /\ pc[t] = "checkMemory"
  /\ LET x == memory[home[t]] IN
     /\ tok' = [tok EXCEPT ![t] = x]
     /\ pc' = [pc EXCEPT ![t] = IF x # None THEN "send" ELSE "lock"]
  /\ UNCHANGED <<home, place, memory, mutex, retried>>

\* renewMutex_, and the memory once more.
EnterRenewal(t) ==
  /\ pc[t] = "mutex"
  /\ mutex[home[t]] = None
  /\ mutex' = [mutex EXCEPT ![home[t]] = t]
  /\ LET x == memory[home[t]] IN
     /\ tok' = [tok EXCEPT ![t] = x]
     /\ pc' = [pc EXCEPT ![t] = IF x # None THEN "unlock" ELSE "renew"]
  /\ UNCHANGED <<home, place, memory, retried>>

\* Fault: an answer without a token is not turned down.
RenewUnchecked(t) ==
  /\ pc[t] = "renew"
  /\ \E x \in {"good", ""} : memory' = [memory EXCEPT ![home[t]] = x]
  /\ pc' = [pc EXCEPT ![t] = "publish"]
  /\ UNCHANGED <<home, place, mutex, tok, retried>>

\* renewToken: seed, signature, and a token DGII has just issued.
Renew(t) ==
  /\ pc[t] = "renew"
  /\ memory' = [memory EXCEPT ![home[t]] = "good"]
  /\ pc' = [pc EXCEPT ![t] = "publish"]
  /\ UNCHANGED <<home, place, mutex, tok, retried>>

\* Fault: what throws leaves renewMutex_ locked.
RenewFailsLocked(t) ==
  /\ pc[t] = "renew"
  /\ pc' = [pc EXCEPT ![t] = "unlockFail"]
  /\ UNCHANGED <<home, place, memory, mutex, tok, retried>>

\* renewToken throws: DGII is away, or its answer is no token.  The mutex is
\* left before the lock.
RenewFails(t) ==
  /\ pc[t] = "renew"
  /\ mutex' = [mutex EXCEPT ![home[t]] = None]
  /\ pc' = [pc EXCEPT ![t] = "unlockFail"]
  /\ UNCHANGED <<home, place, memory, tok, retried>>

\* What is published is what memory holds by then.
Publish(t) ==
  /\ pc[t] = "publish"
  /\ tok' = [tok EXCEPT ![t] = memory[home[t]]]
  /\ \E on \in Available(Proc(t)) : Use(Proc(t), on) /\ Store(Proc(t), on, tok'[t])
  /\ pc' = [pc EXCEPT ![t] = "unlock"]
  /\ UNCHANGED <<home, redisUp, swings, lock, localLock, memory, mutex, retried>>

\* The lock is released, then the mutex.
LeaveRenewal(t) ==
  /\ pc[t] = "unlock"
  /\ \E on \in Available(Proc(t)) : Use(Proc(t), on) /\ DropLock(t, on)
  /\ mutex' = [mutex EXCEPT ![home[t]] = None]
  /\ pc' = [pc EXCEPT ![t] = "send"]
  /\ UNCHANGED <<home, redisUp, swings, shared, local, memory, tok, retried>>

\* Steps of getToken that are a look, a lock or a release.
FirstLook(t)     == Look(t, "look", "remember", "checkMemory")
LookUnderLock(t) == Look(t, "recheck", "unlockHit", "mutex")
Poll(t)          == Look(t, "poll", "remember", "lockAgain")
LastLook(t)      == Look(t, "lastLook", "remember", "fail")
FirstAcquire(t)  == Acquire(t, "lock", "recheck", "poll")
LastAcquire(t)   == Acquire(t, "lockAgain", "mutex", "lastLook")
ReleaseHit(t)    == Release(t, "unlockHit", "remember")
ReleaseFail(t)   == Release(t, "unlockFail", "fail")
-----------------------------------------------------------------------------
(* DgiiDirectTransport::sendWithReactiveAuth. *)

\* A call is over, its step and token forgotten and a manager of its own gone.
End(t) ==
  /\ pc' = [pc EXCEPT ![t] = "idle"]
  /\ tok' = [tok EXCEPT ![t] = None]
  /\ retried' = retried \ {t}
  /\ memory' = IF home[t] \in PerRequest THEN [memory EXCEPT ![home[t]] = None] ELSE memory

Call(t) ==
  /\ pc[t] = "idle"
  /\ pc' = [pc EXCEPT ![t] = "look"]
  /\ UNCHANGED <<home, place, memory, mutex, tok, retried>>

\* getToken threw.
Fail(t) ==
  /\ pc[t] = "fail"
  /\ End(t)
  /\ UNCHANGED <<home, place, mutex>>

Accepted(t) ==
  /\ pc[t] = "send" /\ tok[t] = "good"
  /\ End(t)
  /\ UNCHANGED <<home, place, mutex>>

\* No answer, a 5xx or a 429: thrown by validateDgiiResponse.
Unanswered(t) ==
  /\ pc[t] = "send"
  /\ End(t)
  /\ UNCHANGED <<home, place, mutex>>

\* The first 401 starts invalidate.
Refused(t) ==
  /\ pc[t] = "send" /\ tok[t] = "dead" /\ t \notin retried
  /\ pc' = [pc EXCEPT ![t] = "clear"]
  /\ tok' = [tok EXCEPT ![t] = None]
  /\ retried' = retried \cup {t}
  /\ UNCHANGED <<home, place, memory, mutex>>

\* The second is thrown.
RefusedAgain(t) ==
  /\ pc[t] = "send" /\ tok[t] = "dead" /\ t \in retried
  /\ End(t)
  /\ UNCHANGED <<home, place, mutex>>

\* invalidate: the memory under renewMutex_, then the cache.
Clear(t) ==
  /\ pc[t] = "clear"
  /\ mutex[home[t]] = None
  /\ memory' = [memory EXCEPT ![home[t]] = None]
  /\ pc' = [pc EXCEPT ![t] = "delete"]
  /\ UNCHANGED <<home, place, mutex, tok, retried>>

Delete(t) ==
  /\ pc[t] = "delete"
  /\ \E on \in Available(Proc(t)) : Use(Proc(t), on) /\ Remove(Proc(t), on)
  /\ pc' = [pc EXCEPT ![t] = "look"]
  /\ UNCHANGED <<home, redisUp, swings, lock, localLock, memory, mutex, tok, retried>>
-----------------------------------------------------------------------------
(* What happens around them. *)

\* DGII stops accepting the token in some place: it expired, or was revoked.
TokenDies ==
  /\ \/ shared = "good" /\ shared' = "dead" /\ UNCHANGED <<local, memory, tok>>
     \/ /\ \E p \in Process : local[p] = "good" /\ local' = [local EXCEPT ![p] = "dead"]
        /\ UNCHANGED <<shared, memory, tok>>
     \/ /\ \E m \in Manager : memory[m] = "good" /\ memory' = [memory EXCEPT ![m] = "dead"]
        /\ UNCHANGED <<shared, local, tok>>
     \/ /\ \E t \in Thread : /\ pc[t] = "send" /\ tok[t] = "good"
                             /\ tok' = [tok EXCEPT ![t] = "dead"]
        /\ UNCHANGED <<shared, local, memory>>
  /\ UNCHANGED <<home, redisUp, swings, useRedis, lock, localLock, mutex, pc, retried>>

\* The entry in Redis expires or is evicted.
SharedExpires ==
  /\ shared # None
  /\ shared' = None
  /\ UNCHANGED <<home, redisUp, swings, useRedis, lock, local, localLock, memory, mutex,
                 pc, tok, retried>>

LocalExpires ==
  /\ \E p \in Process : local[p] # None /\ local' = [local EXCEPT ![p] = None]
  /\ UNCHANGED <<home, redisUp, swings, useRedis, shared, lock, localLock, memory, mutex,
                 pc, tok, retried>>

\* A token in memory has five minutes left or less; one just renewed has more.
MemoryExpires ==
  /\ \E m \in Manager :
       /\ memory[m] # None
       /\ \A t \in Thread : home[t] = m => pc[t] # "publish"
       /\ memory' = [memory EXCEPT ![m] = None]
  /\ UNCHANGED <<home, place, mutex, pc, tok, retried>>

\* Fault: SET without EX, so that a lock outlives its owner.
LockNeverExpires ==
  /\ SlowRenewal /\ lock \in Thread
  /\ lock' = None
  /\ UNCHANGED <<home, redisUp, swings, useRedis, shared, local, localLock, memory, mutex,
                 pc, tok, retried>>

\* The 30 seconds of a lock pass.
LockExpires ==
  /\ lock = Orphan \/ (SlowRenewal /\ lock \in Thread)
  /\ lock' = None
  /\ UNCHANGED <<home, redisUp, swings, useRedis, shared, local, localLock, memory, mutex,
                 pc, tok, retried>>

LocalLockExpires ==
  /\ \E p \in Process :
       /\ localLock[p] = Orphan \/ (SlowRenewal /\ localLock[p] \in Thread)
       /\ localLock' = [localLock EXCEPT ![p] = None]
  /\ UNCHANGED <<home, redisUp, swings, useRedis, shared, lock, local, memory, mutex,
                 pc, tok, retried>>

\* Redis goes away, or comes back with what it held.
RedisSwings ==
  /\ swings < MaxSwings
  /\ swings' = swings + 1
  /\ redisUp' = ~redisUp
  /\ UNCHANGED <<home, useRedis, shared, lock, local, localLock, memory, mutex,
                 pc, tok, retried>>

\* A process is killed and started: its calls end, its caches and mutexes are
\* gone, a lock it holds in Redis has no owner, and the new service PINGs once.
Restart(p) ==
  LET mine == {t \in Thread : Proc(t) = p} IN
  /\ mine # {}
  /\ useRedis' = [useRedis EXCEPT ![p] = redisUp]
  /\ lock' = IF lock \in mine THEN Orphan ELSE lock
  /\ local' = [local EXCEPT ![p] = None]
  /\ localLock' = [localLock EXCEPT ![p] = None]
  /\ memory' = [m \in Manager |-> IF ProcessOf[m] = p THEN None ELSE memory[m]]
  /\ mutex' = [m \in Manager |-> IF ProcessOf[m] = p THEN None ELSE mutex[m]]
  /\ pc' = [t \in Thread |-> IF t \in mine THEN "idle" ELSE pc[t]]
  /\ tok' = [t \in Thread |-> IF t \in mine THEN None ELSE tok[t]]
  /\ retried' = retried \ mine
  /\ UNCHANGED <<home, redisUp, swings, shared>>
-----------------------------------------------------------------------------
GetToken(t) ==
  \/ FirstLook(t) \/ Remember(t) \/ CheckMemory(t)
  \/ FirstAcquire(t) \/ LookUnderLock(t) \/ ReleaseHit(t)
  \/ Poll(t) \/ LastAcquire(t) \/ LastLook(t)
  \/ EnterRenewal(t) \/ Renew(t) \/ Publish(t)
  \/ LeaveRenewal(t) \/ ReleaseFail(t)

Transport(t) ==
  Accepted(t) \/ Refused(t) \/ RefusedAgain(t) \/ Clear(t) \/ Delete(t) \/ Fail(t)

DgiiAway == \E t \in Thread : RenewFails(t) \/ Unanswered(t)

Expiry == TokenDies \/ SharedExpires \/ LocalExpires \/ MemoryExpires

LockTimeout == LockExpires \/ LocalLockExpires

Next ==
  \/ \E t \in Thread : Call(t) \/ GetToken(t) \/ Transport(t)
  \/ DgiiAway \/ Expiry \/ LockTimeout
  \/ RedisSwings
  \/ \E p \in Process : Restart(p)

Spec == Init /\ [][Next]_vars

\* Threads run on, callers keep calling, and a lock nobody holds runs out.
Fairness ==
  /\ \A t \in Thread : /\ WF_vars(Call(t) \/ GetToken(t) \/ Transport(t))
                       /\ SF_vars(EnterRenewal(t) \/ Clear(t))
  /\ WF_vars(LockTimeout)

LiveSpec == Spec /\ Fairness
-----------------------------------------------------------------------------
Steps == {"idle", "look", "remember", "checkMemory", "lock", "recheck", "unlockHit", "poll",
          "lockAgain", "lastLook", "mutex", "renew", "publish", "unlock", "unlockFail",
          "fail", "send", "clear", "delete"}

TypeOK ==
  /\ home \in [Thread -> Manager]
  /\ redisUp \in BOOLEAN
  /\ swings \in 0 .. MaxSwings
  /\ useRedis \in [Process -> BOOLEAN]
  /\ shared \in Token \cup {None}
  /\ lock \in Thread \cup {None, Orphan}
  /\ local \in [Process -> Token \cup {None}]
  /\ localLock \in [Process -> Thread \cup {None, Orphan}]
  /\ memory \in [Manager -> Token \cup {None}]
  /\ mutex \in [Manager -> Thread \cup {None}]
  /\ pc \in [Thread -> Steps]
  /\ tok \in [Thread -> Token \cup {None}]
  /\ retried \subseteq Thread

Renewing(t) == pc[t] \in {"renew", "publish"}

OnFallback(t) == localLock[Proc(t)] = t

\* Whatever Redis, DGII and restarts do: of the threads of one manager at most
\* one renews (renewMutex_), of all threads at most one does so under the lock
\* in Redis, and of those of a process at most one under its fallback lock
\* (EcfTokenManager::getToken: "wait and poll the cache instead of renewing
\* simultaneously", BUG-052).
OneRenewalPerManager(t, u) == home[t] # home[u]

OneRenewalPerLock(t, u) ==
  IF OnFallback(t) THEN ~OnFallback(u) \/ Proc(t) # Proc(u) ELSE OnFallback(u)

RenewedByOne ==
  \A t, u \in Thread :
    Renewing(t) /\ Renewing(u) /\ t # u
      => OneRenewalPerManager(t, u) /\ OneRenewalPerLock(t, u)

\* The two locks of a renewal, and the cache between them, never leave a call
\* waiting for ever: every call of a transport operation returns or throws.
EveryCallEnds == \A t \in Thread : []<>(pc[t] = "idle")

\* From some time on nothing fails, expires or restarts.  An answer that is
\* lost when the call would have ended all the same is no failure.
Failure ==
  \/ Expiry \/ RedisSwings
  \/ /\ DgiiAway \/ \E p \in Process : Restart(p)
     /\ ~\E t \in Thread : Transport(t)

Quiet == <>[][~Failure]_vars

\* getToken is about to throw, or a second 401 to be thrown.
Doomed(t) == pc[t] = "fail" \/ (pc[t] = "send" /\ tok[t] = "dead" /\ t \in retried)

CallsSucceed == <>[](\A t \in Thread : ~Doomed(t))

\* Threads with managers of their own: of two with one manager, the one that
\* read the cache before the other emptied it can bring the refused token back.
NoManagerShared == \A t, u \in Thread : t # u => home[t] # home[u]

\* A refused token does not come back for ever: once DGII and Redis stay up and
\* nothing more expires, no call fails from some time on (the reactive 401 of
\* sendWithReactiveAuth and invalidate), whatever was lost or left locked before.
RefusedTokenIsReplaced ==
  Quiet /\ <>[](redisUp /\ NoManagerShared) => CallsSucceed

\* README.md:1145: "if Redis is unavailable or temporarily fails, the system
\* will gracefully degrade using local in-memory fallback without interrupting
\* the operation of the DGII client".  The same, then, with Redis gone for good.
ServedWithoutRedis ==
  Quiet /\ <>[](~redisUp /\ NoManagerShared) => CallsSucceed
=============================================================================
