-------------------------- MODULE DgiiTokensProofs --------------------------
(***************************************************************************)
(* DgiiTokens for every set of threads, managers and processes, and any    *)
(* number of Redis outages.                                                *)
(*                                                                         *)
(* That a thread renews alone rests on two facts about the steps around    *)
(* the renewal: it is in renewMutex_ (MutexHeld), and the lock it took is  *)
(* still its own, in Redis or in its process (LockHeld).  The second needs *)
(* a renewal to end before its lock does.                                  *)
(***************************************************************************)
EXTENDS DgiiTokens, TLAPS

InMutex(t) == pc[t] \in {"renew", "publish", "unlock"}

MutexHeld == \A t \in Thread : InMutex(t) => mutex[home[t]] = t

UnderLock(t) ==
  pc[t] \in {"recheck", "unlockHit", "mutex", "renew", "publish", "unlock", "unlockFail"}

LockHeld == \A t \in Thread : UnderLock(t) => lock = t \/ OnFallback(t)

\* Every variable keeps its type.
LEMMA Typing == Spec => []TypeOK
<1>1. Init => TypeOK
  BY TokenAssumption DEF Init, TypeOK, Token, Steps
<1>2. TypeOK /\ [Next]_vars => TypeOK'
  <2> SUFFICES ASSUME TypeOK, [Next]_vars PROVE TypeOK'
    OBVIOUS
  <2>p. \A t \in Thread : home[t] \in Manager /\ Proc(t) \in Process
    BY TokenAssumption DEF TypeOK, Proc
  <2>s. \A p \in Process, on \in BOOLEAN : Cached(p, on) \in Token \cup {None}
    BY DEF TypeOK, Cached
  <2>a. \A p \in Process : Available(p) \subseteq BOOLEAN
    BY DEF TypeOK, Available
  <2>l. \A t \in Thread, from \in Steps, hit \in Steps, miss \in Steps :
          Look(t, from, hit, miss) => TypeOK'
    <3> SUFFICES ASSUME NEW t \in Thread, NEW from \in Steps, NEW hit \in Steps,
                        NEW miss \in Steps, Look(t, from, hit, miss)
                 PROVE  TypeOK'
      OBVIOUS
    <3>1. PICK on \in Available(Proc(t)) :
            /\ Use(Proc(t), on)
            /\ pc' = [pc EXCEPT ![t] = IF Cached(Proc(t), on) # None THEN hit ELSE miss]
            /\ tok' = [tok EXCEPT ![t] = Cached(Proc(t), on)]
      BY DEF Look
    <3>2. on \in BOOLEAN /\ Cached(Proc(t), on) \in Token \cup {None}
      BY <2>p, <2>s, <2>a
    <3>3. useRedis' \in [Process -> BOOLEAN] /\ pc' \in [Thread -> Steps]
          /\ tok' \in [Thread -> Token \cup {None}]
      BY <3>1, <3>2 DEF Use, TypeOK
    <3> QED BY <3>3 DEF Look, TypeOK
  <2>q. \A t \in Thread, from \in Steps, won \in Steps, lost \in Steps :
          Acquire(t, from, won, lost) => TypeOK'
    <3> SUFFICES ASSUME NEW t \in Thread, NEW from \in Steps, NEW won \in Steps,
                        NEW lost \in Steps, Acquire(t, from, won, lost)
                 PROVE  TypeOK'
      OBVIOUS
    <3>1. PICK on \in Available(Proc(t)) :
            /\ Use(Proc(t), on)
            /\ \/ /\ TakeLock(t, on)
                  /\ pc' = [pc EXCEPT ![t] = won]
               \/ /\ pc' = [pc EXCEPT ![t] = lost]
                  /\ UNCHANGED <<lock, localLock>>
      BY DEF Acquire
    <3>2. useRedis' \in [Process -> BOOLEAN] /\ pc' \in [Thread -> Steps]
      BY <2>p, <2>a, <3>1 DEF Use, TypeOK
    <3>3. lock' \in Thread \cup {None, Orphan}
          /\ localLock' \in [Process -> Thread \cup {None, Orphan}]
      BY <2>p, <3>1 DEF TakeLock, TypeOK
    <3> QED BY <3>2, <3>3 DEF Acquire, TypeOK
  <2>d. \A t \in Thread, on \in BOOLEAN :
          DropLock(t, on) => /\ lock' \in Thread \cup {None, Orphan}
                             /\ localLock' \in [Process -> Thread \cup {None, Orphan}]
    BY <2>p DEF DropLock, TypeOK
  <2>r. \A t \in Thread, from \in Steps, next \in Steps : Release(t, from, next) => TypeOK'
    BY <2>p, <2>a, <2>d DEF Release, Use, TypeOK
  <2>1. ASSUME NEW t \in Thread, GetToken(t) PROVE TypeOK'
    <3>1. CASE FirstLook(t) \/ LookUnderLock(t) \/ Poll(t) \/ LastLook(t)
      <4>1. \A from, hit, miss \in Steps : Look(t, from, hit, miss) => TypeOK'
        BY <2>l
      <4>2. {"look", "remember", "checkMemory", "recheck", "unlockHit", "mutex", "poll",
             "lockAgain", "lastLook", "fail"} \subseteq Steps
        BY DEF Steps
      <4> QED BY <3>1, <4>1, <4>2 DEF FirstLook, LookUnderLock, Poll, LastLook
    <3>2. CASE FirstAcquire(t) \/ LastAcquire(t)
      BY ZenonT(30), <2>q, <3>2 DEF FirstAcquire, LastAcquire, Steps
    <3>3. CASE ReleaseHit(t) \/ ReleaseFail(t)
      BY <2>r, <3>3 DEF ReleaseHit, ReleaseFail, Steps
    <3>4. CASE Remember(t)
      BY <2>p, <3>4 DEF Remember, TypeOK, place, Steps
    <3>5. CASE CheckMemory(t)
      BY <2>p, <3>5 DEF CheckMemory, TypeOK, place, Steps
    <3>6. CASE EnterRenewal(t)
      BY <2>p, <3>6 DEF EnterRenewal, TypeOK, place, Steps
    <3>7. CASE Renew(t)
      BY <2>p, <3>7 DEF Renew, TypeOK, place, Steps, Token
    <3>8. CASE Publish(t)
      <4>1. tok' \in [Thread -> Token \cup {None}] /\ tok'[t] \in Token \cup {None}
        BY <2>p, <3>8 DEF Publish, TypeOK
      <4>2. /\ useRedis' \in [Process -> BOOLEAN]
            /\ shared' \in Token \cup {None}
            /\ local' \in [Process -> Token \cup {None}]
        BY <2>p, <2>a, <3>8, <4>1 DEF Publish, Use, Store, TypeOK
      <4> QED BY <3>8, <4>1, <4>2 DEF Publish, TypeOK, Steps
    <3>9. CASE LeaveRenewal(t)
      BY <2>p, <2>a, <2>d, <3>9 DEF LeaveRenewal, Use, TypeOK, Steps
    <3> QED BY <2>1, <3>1, <3>2, <3>3, <3>4, <3>5, <3>6, <3>7, <3>8, <3>9 DEF GetToken
  <2>e. \A t \in Thread : End(t) =>
          /\ pc' \in [Thread -> Steps]
          /\ tok' \in [Thread -> Token \cup {None}]
          /\ retried' \subseteq Thread
          /\ memory' \in [Manager -> Token \cup {None}]
    BY <2>p DEF End, TypeOK, Steps
  <2>2. ASSUME NEW t \in Thread, Call(t) \/ Transport(t) PROVE TypeOK'
    <3>1. CASE Call(t)
      BY <3>1 DEF Call, TypeOK, place, Steps
    <3>2. CASE Accepted(t) \/ RefusedAgain(t) \/ Fail(t)
      BY <2>e, <3>2 DEF Accepted, RefusedAgain, Fail, TypeOK, place
    <3>3. CASE Refused(t)
      BY <3>3 DEF Refused, TypeOK, place, Steps
    <3>4. CASE Clear(t)
      BY <2>p, <3>4 DEF Clear, TypeOK, place, Steps
    <3>5. CASE Delete(t)
      BY <2>p, <2>a, <3>5 DEF Delete, Use, Remove, TypeOK, Steps
    <3> QED BY <2>2, <3>1, <3>2, <3>3, <3>4, <3>5 DEF Transport
  <2>3. CASE DgiiAway
    BY <2>p, <2>e, <2>3 DEF DgiiAway, RenewFails, Unanswered, TypeOK, place, Steps
  <2>4. CASE Expiry
    BY <2>4 DEF Expiry, TokenDies, SharedExpires, LocalExpires, MemoryExpires, TypeOK, place,
                Token
  <2>5. CASE LockTimeout
    BY <2>5 DEF LockTimeout, LockExpires, LocalLockExpires, TypeOK
  <2>8. CASE RedisSwings
    <3>1. swings' \in 0 .. MaxSwings
      BY <2>8, TokenAssumption DEF RedisSwings, TypeOK
    <3>2. redisUp' \in BOOLEAN
      BY <2>8 DEF RedisSwings, TypeOK
    <3> QED BY <2>8, <3>1, <3>2 DEF RedisSwings, TypeOK
  <2>6. ASSUME NEW p \in Process, Restart(p) PROVE TypeOK'
    BY <2>6 DEF Restart, TypeOK, Steps
  <2>7. CASE UNCHANGED vars
    BY <2>7 DEF vars, place, TypeOK
  <2> QED BY <2>1, <2>2, <2>3, <2>4, <2>5, <2>6, <2>7, <2>8 DEF Next
<1> QED BY <1>1, <1>2, PTL DEF Spec

-----------------------------------------------------------------------------
\* A thread that renews, publishes or is about to leave is in its manager's mutex.
LEMMA MutexStep == TypeOK /\ TypeOK' /\ MutexHeld /\ [Next]_vars => MutexHeld'
<1> SUFFICES ASSUME TypeOK, TypeOK', MutexHeld, [Next]_vars, NEW u \in Thread, InMutex(u)'
             PROVE  mutex'[home'[u]] = u
  BY DEF MutexHeld, InMutex
<1>h. home' = home /\ home[u] \in Manager
  BY DEF TypeOK, Next, vars, place, Call, GetToken, Transport, DgiiAway, Expiry, LockTimeout,
         RedisSwings, Restart, FirstLook, LookUnderLock, Poll, LastLook, Look, FirstAcquire,
         LastAcquire, Acquire, ReleaseHit, ReleaseFail, Release, Remember, CheckMemory,
         EnterRenewal, Renew, Publish, LeaveRenewal, Accepted, Refused, RefusedAgain, Clear,
         Delete, Fail, RenewFails, Unanswered, TokenDies, SharedExpires, LocalExpires,
         MemoryExpires, LockExpires, LocalLockExpires
<1>1. ASSUME NEW t \in Thread, GetToken(t) PROVE mutex'[home[u]] = u
  <2>1. CASE FirstLook(t) \/ LookUnderLock(t) \/ Poll(t) \/ LastLook(t)
    BY <2>1 DEF FirstLook, LookUnderLock, Poll, LastLook, Look, InMutex, MutexHeld, TypeOK
  <2>2. CASE FirstAcquire(t) \/ LastAcquire(t)
    BY <2>2 DEF FirstAcquire, LastAcquire, Acquire, InMutex, MutexHeld, TypeOK
  <2>3. CASE ReleaseHit(t) \/ ReleaseFail(t)
    BY <2>3 DEF ReleaseHit, ReleaseFail, Release, InMutex, MutexHeld, TypeOK
  <2>4. CASE Remember(t) \/ CheckMemory(t) \/ Renew(t) \/ Publish(t)
    BY <2>4 DEF Remember, CheckMemory, Renew, Publish, InMutex, MutexHeld, TypeOK
  <2>5. CASE EnterRenewal(t)
    BY <1>h, <2>5, TokenAssumption DEF EnterRenewal, InMutex, MutexHeld, TypeOK
  <2>6. CASE LeaveRenewal(t)
    BY <1>h, <2>6 DEF LeaveRenewal, InMutex, MutexHeld, TypeOK
  <2> QED BY <1>1, <2>1, <2>2, <2>3, <2>4, <2>5, <2>6 DEF GetToken
<1>2. ASSUME NEW t \in Thread, Call(t) \/ Transport(t) PROVE mutex'[home[u]] = u
  BY <1>2 DEF Call, Transport, Accepted, Refused, RefusedAgain, Clear, Delete, Fail, End,
              InMutex, MutexHeld, TypeOK
<1>3. CASE DgiiAway
  BY <1>3, <1>h DEF DgiiAway, RenewFails, Unanswered, End, InMutex, MutexHeld, TypeOK
<1>4. CASE Expiry \/ LockTimeout \/ RedisSwings \/ UNCHANGED vars
  BY <1>4 DEF Expiry, TokenDies, SharedExpires, LocalExpires, MemoryExpires, LockTimeout,
              LockExpires, LocalLockExpires, RedisSwings, vars, InMutex, MutexHeld
<1>5. ASSUME NEW p \in Process, Restart(p) PROVE mutex'[home[u]] = u
  BY <1>5, <1>h DEF Restart, Proc, InMutex, MutexHeld, TypeOK
<1> QED BY <1>h, <1>1, <1>2, <1>3, <1>4, <1>5 DEF Next

\* Two threads of one manager never renew at once, however long a renewal takes
\* (renewMutex_).
THEOREM ManagerRenewsAlone ==
  Spec => [](\A t, u \in Thread :
               Renewing(t) /\ Renewing(u) /\ t # u => OneRenewalPerManager(t, u))
<1>1. Init => MutexHeld
  BY DEF Init, MutexHeld, InMutex
<1>2. MutexHeld => \A t, u \in Thread :
                     Renewing(t) /\ Renewing(u) /\ t # u => OneRenewalPerManager(t, u)
  BY DEF MutexHeld, InMutex, Renewing, OneRenewalPerManager
<1> QED BY <1>1, <1>2, MutexStep, Typing, PTL DEF Spec

-----------------------------------------------------------------------------
\* Until it releases it, the lock a thread took is its own: nobody else deletes
\* it (the script of releaseLock), and it does not run out.
LEMMA LockStep ==
  ASSUME ~SlowRenewal
  PROVE  TypeOK /\ TypeOK' /\ LockHeld /\ [Next]_vars => LockHeld'
<1> SUFFICES ASSUME TypeOK, TypeOK', LockHeld, [Next]_vars, NEW u \in Thread, UnderLock(u)'
             PROVE  lock' = u \/ localLock'[ProcessOf[home'[u]]] = u
  BY DEF LockHeld, UnderLock, OnFallback, Proc
<1>h. home' = home /\ Proc(u) \in Process
  BY TokenAssumption
     DEF Proc, TypeOK, Next, vars, place, Call, GetToken, Transport, DgiiAway, Expiry,
         LockTimeout, RedisSwings, Restart, FirstLook, LookUnderLock, Poll, LastLook, Look,
         FirstAcquire, LastAcquire, Acquire, ReleaseHit, ReleaseFail, Release, Remember,
         CheckMemory, EnterRenewal, Renew, Publish, LeaveRenewal, Accepted, Refused,
         RefusedAgain, Clear, Delete, Fail, RenewFails, Unanswered, TokenDies, SharedExpires,
         LocalExpires, MemoryExpires, LockExpires, LocalLockExpires
<1> SUFFICES lock' = u \/ localLock'[Proc(u)] = u
  BY <1>h DEF Proc
<1>k. UnderLock(u) => lock = u \/ localLock[Proc(u)] = u
  BY DEF LockHeld, OnFallback
<1>n. u # None /\ u # Orphan
  BY TokenAssumption
<1>d. ASSUME NEW t \in Thread, t # u, NEW on \in BOOLEAN, DropLock(t, on),
             lock = u \/ localLock[Proc(u)] = u
      PROVE  lock' = u \/ localLock'[Proc(u)] = u
  BY <1>d, <1>h, <1>n DEF DropLock, TypeOK
<1>a. \A p \in Process : Available(p) \subseteq BOOLEAN
  BY DEF TypeOK, Available
<1>1. ASSUME NEW t \in Thread, GetToken(t) PROVE lock' = u \/ localLock'[Proc(u)] = u
  <2>p. Proc(t) \in Process
    BY TokenAssumption DEF Proc, TypeOK
  <2>1. CASE FirstLook(t) \/ LookUnderLock(t) \/ Poll(t) \/ LastLook(t)
    BY <2>1, <1>k DEF FirstLook, LookUnderLock, Poll, LastLook, Look, UnderLock, TypeOK
  <2>2. CASE FirstAcquire(t) \/ LastAcquire(t)
    <3>1. PICK on \in Available(Proc(t)) :
            \/ MayLock(Proc(t), on) /\ TakeLock(t, on)
            \/ UNCHANGED <<lock, localLock>> /\ pc'[t] \in {"poll", "lastLook"}
      BY <2>2, <2>p DEF FirstAcquire, LastAcquire, Acquire, TypeOK
    <3>2. t # u => pc'[u] = pc[u]
      BY <2>2 DEF FirstAcquire, LastAcquire, Acquire, TypeOK
    <3>3. CASE t = u
      BY <3>1, <3>3, <2>p DEF TakeLock, UnderLock, TypeOK
    <3>4. CASE t # u
      <4>1. lock = u \/ localLock[Proc(u)] = u
        BY <1>k, <3>2, <3>4 DEF UnderLock
      <4> QED BY <1>h, <1>n, <3>1, <4>1, <2>p DEF MayLock, TakeLock, TypeOK
    <3> QED BY <3>3, <3>4
  <2>3. CASE ReleaseHit(t) \/ ReleaseFail(t) \/ LeaveRenewal(t)
    <3>1. PICK on \in Available(Proc(t)) : DropLock(t, on)
      BY <2>3 DEF ReleaseHit, ReleaseFail, Release, LeaveRenewal
    <3>2. t # u /\ pc'[u] = pc[u]
      BY <2>3 DEF ReleaseHit, ReleaseFail, Release, LeaveRenewal, UnderLock, TypeOK
    <3> QED BY <1>a, <1>d, <1>k, <2>p, <3>1, <3>2 DEF UnderLock
  <2>4. CASE Remember(t) \/ CheckMemory(t) \/ EnterRenewal(t) \/ Renew(t) \/ Publish(t)
    BY <2>4, <1>k DEF Remember, CheckMemory, EnterRenewal, Renew, Publish, UnderLock, TypeOK,
                      place
  <2> QED BY <1>1, <2>1, <2>2, <2>3, <2>4 DEF GetToken
<1>2. ASSUME NEW t \in Thread, Call(t) \/ Transport(t)
      PROVE  lock' = u \/ localLock'[Proc(u)] = u
  BY <1>2, <1>k DEF Call, Transport, Accepted, Refused, RefusedAgain, Clear, Delete, Fail, End,
                    UnderLock, TypeOK, place
<1>3. CASE DgiiAway
  <2>1. PICK t \in Thread : RenewFails(t) \/ Unanswered(t)
    BY <1>3 DEF DgiiAway
  <2>2. CASE RenewFails(t)
    <3>1. UNCHANGED <<lock, localLock>> /\ UnderLock(u)
      BY <2>2 DEF RenewFails, place, UnderLock, TypeOK
    <3> QED BY <1>k, <3>1
  <2>3. CASE Unanswered(t)
    <3>1. UNCHANGED <<lock, localLock>> /\ UnderLock(u)
      BY <2>3 DEF Unanswered, End, place, UnderLock, TypeOK
    <3> QED BY <1>k, <3>1
  <2> QED BY <2>1, <2>2, <2>3
<1>4. CASE Expiry \/ RedisSwings \/ UNCHANGED vars
  <2>1. UNCHANGED <<lock, localLock, pc>>
    BY <1>4 DEF Expiry, TokenDies, SharedExpires, LocalExpires, MemoryExpires, RedisSwings,
                vars, place
  <2> QED BY <1>k, <2>1 DEF UnderLock
<1>5. CASE LockTimeout
  <2>1. lock = u \/ localLock[Proc(u)] = u
    BY <1>5, <1>k DEF LockTimeout, LockExpires, LocalLockExpires, UnderLock
  <2>2. CASE LockExpires
    BY <2>1, <2>2, <1>n DEF LockExpires
  <2>3. CASE LocalLockExpires
    <3>1. PICK p \in Process : localLock[p] = Orphan /\ localLock' = [localLock EXCEPT ![p] = None]
      BY <2>3 DEF LocalLockExpires
    <3>2. lock' = lock
      BY <2>3 DEF LocalLockExpires
    <3>3. localLock[Proc(u)] = u => localLock'[Proc(u)] = u
      BY <1>h, <1>n, <3>1 DEF TypeOK
    <3> QED BY <2>1, <3>2, <3>3
  <2> QED BY <1>5, <2>2, <2>3 DEF LockTimeout
<1>6. ASSUME NEW p \in Process, Restart(p) PROVE lock' = u \/ localLock'[Proc(u)] = u
  BY <1>6, <1>h, <1>k DEF Restart, UnderLock, TypeOK
<1> QED BY <1>1, <1>2, <1>3, <1>4, <1>5, <1>6 DEF Next

\* What the run tokens checks on two threads of one process: as long as a renewal
\* ends before its lock runs out, one thread renews at a time.
THEOREM RenewalIsExclusive == ASSUME ~SlowRenewal PROVE Spec => []RenewedByOne
<1>1. Init => MutexHeld /\ LockHeld
  BY DEF Init, MutexHeld, InMutex, LockHeld, UnderLock
<1>2. MutexHeld /\ LockHeld => RenewedByOne
  <2> SUFFICES ASSUME MutexHeld, LockHeld, NEW t \in Thread, NEW u \in Thread,
                      Renewing(t), Renewing(u), t # u
               PROVE  OneRenewalPerManager(t, u) /\ OneRenewalPerLock(t, u)
    BY DEF RenewedByOne
  <2>1. OneRenewalPerManager(t, u)
    BY DEF MutexHeld, InMutex, Renewing, OneRenewalPerManager
  <2>2. OneRenewalPerLock(t, u)
    BY DEF LockHeld, UnderLock, Renewing, OneRenewalPerLock, OnFallback
  <2> QED BY <2>1, <2>2
<1> QED BY <1>1, <1>2, MutexStep, LockStep, Typing, PTL DEF Spec
=============================================================================
