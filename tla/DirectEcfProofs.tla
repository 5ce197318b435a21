---------------------------- MODULE DirectEcfProofs ----------------------------
(***************************************************************************)
(* What DirectEcf promises, for any issuers, threads, numbers, retries and *)
(* calls: an RFCE costs one number, and a row says accepted only of a      *)
(* number DGII accepted.                                                   *)
(***************************************************************************)
EXTENDS DirectEcf, FiniteSetTheorems, SequenceTheorems, TLAPS

Verdicts == {"none", "pending", "accepted", "refused"}
Doc == [rnc : Rnc, encf : Number, state : Estados, amb : Environment \cup {""}]
Job == [at : {"free", "rfce", "ecf", "add", "ask", "update"},
        rnc : Rnc \cup {""}, number : Number \cup {0}, tries : 0 .. MaxRetries,
        spent : Nat, estado : Estados, doc : Nat, old : Estados]

Sends == {"rfce", "ecf", "add"}

AcceptedIn(v, e, r, n) == v[e][r][n] = "accepted"

\* Where the acceptance of a row may come from.
Where(doc) == {Configured, doc.amb} \cap Environment

\* A call j, next to DGII's verdicts v and the rows d: it has a number of its
\* issuer, a row of its issuer, at most one number spent, none before the last
\* round, and says accepted only of a number that is.
Sane(j, v, d) ==
  /\ j.at # "free" => j.rnc \in Rnc /\ j.number \in Number
  /\ j.doc # 0 => j.doc \in DOMAIN d /\ d[j.doc].rnc = j.rnc
  /\ j.at = "update" => j.doc # 0
  /\ j.spent <= 1 /\ (j.at = "rfce" => j.spent = 0)
  /\ j.at \in {"add", "update"} /\ SaysAccepted(j.estado)
       => AcceptedIn(v, Configured, j.rnc, j.number)

Honest(v, d) ==
  \A i \in DOMAIN d :
    SaysAccepted(d[i].state) => \E e \in Where(d[i]) : AcceptedIn(v, e, d[i].rnc, d[i].encf)

\* The retries r's calls under way may still make; there is a number for each.
Left(r) == {p \in Busy(r) \X (1 .. MaxRetries) : p[2] > job[p[1]].tries}

Room == \A r \in Rnc : sequences[r] + Cardinality(Left(r)) <= LastNumber

DirectInv ==
  /\ DirectTypeOK
  /\ \A h \in Handler : Sane(job[h], verdict, docs)
  /\ Honest(verdict, docs)
  /\ Room

\* Acceptances stay; rows stay, and stay their issuer's.
Keeps(v, x) ==
  \A e \in Environment, r \in Rnc, n \in Number : AcceptedIn(v, e, r, n) => AcceptedIn(x, e, r, n)

Grows(d, e) == \A i \in DOMAIN d : i \in DOMAIN e /\ e[i].rnc = d[i].rnc
-----------------------------------------------------------------------------
LEMMA SaneStays ==
  ASSUME NEW j, NEW v, NEW x, NEW d, NEW e, Sane(j, v, d), Keeps(v, x), Grows(d, e)
  PROVE  Sane(j, x, e)
BY EnvironmentAssumption DEF Sane, Keeps, Grows

LEMMA RetriesOf ==
  ASSUME NEW B \in SUBSET Handler, NEW L \in SUBSET (B \X (1 .. MaxRetries))
  PROVE  /\ IsFiniteSet(B) /\ Cardinality(B) \in Nat
         /\ IsFiniteSet(L) /\ Cardinality(L) \in Nat
         /\ Cardinality(L) <= Cardinality(B) * MaxRetries
<1>1. IsFiniteSet(B) /\ Cardinality(B) \in Nat
  BY DirectAssumption, FS_Subset, FS_CardinalityType
<1>2. IsFiniteSet(1 .. MaxRetries) /\ Cardinality(1 .. MaxRetries) = MaxRetries
  <2>1. MaxRetries \in Nat /\ 1 \in Int /\ MaxRetries \in Int
    BY DirectAssumption
  <2>2. /\ IsFiniteSet(1 .. MaxRetries)
        /\ Cardinality(1 .. MaxRetries) = IF 1 > MaxRetries THEN 0 ELSE MaxRetries - 1 + 1
    BY <2>1, FS_Interval
  <2> QED BY <2>1, <2>2
<1> DEFINE P == B \X (1 .. MaxRetries)
<1>3. IsFiniteSet(P) /\ Cardinality(P) = Cardinality(B) * MaxRetries
  BY <1>1, <1>2, FS_Product
<1>4. L \in SUBSET P
  OBVIOUS
<1> HIDE DEF P
<1>5. IsFiniteSet(L) /\ Cardinality(L) <= Cardinality(P)
  BY <1>3, <1>4, FS_Subset
<1> QED BY <1>1, <1>3, <1>5, FS_CardinalityType

LEMMA LeftIsFinite ==
  ASSUME NEW r
  PROVE  /\ IsFiniteSet(Busy(r)) /\ Cardinality(Busy(r)) \in Nat
         /\ IsFiniteSet(Left(r)) /\ Cardinality(Left(r)) \in Nat
<1>1. Busy(r) \in SUBSET Handler
  BY DEF Busy
<1>2. Left(r) \in SUBSET (Busy(r) \X (1 .. MaxRetries))
  BY DEF Left
<1> QED BY <1>1, <1>2, RetriesOf

\* Fewer calls, or fewer retries left to them, leave more room.
LEMMA RoomStays ==
  ASSUME DirectInv, sequences' = sequences, \A r \in Rnc : Left(r)' \subseteq Left(r)
  PROVE  Room'
<1> SUFFICES ASSUME NEW r \in Rnc
    PROVE  sequences'[r] + Cardinality(Left(r)') <= LastNumber
  BY DEF Room
<1>1. IsFiniteSet(Left(r)) /\ Cardinality(Left(r)) \in Nat
  BY LeftIsFinite
<1>2. /\ IsFiniteSet(Left(r)') /\ Cardinality(Left(r)') <= Cardinality(Left(r))
      /\ Cardinality(Left(r)') \in Nat
  BY <1>1, FS_Subset, FS_CardinalityType
<1>3. sequences[r] + Cardinality(Left(r)) <= LastNumber
  BY DEF DirectInv, Room
<1>4. sequences \in [Rnc -> 0 .. LastNumber]
  BY DEF DirectInv, DirectTypeOK
<1>5. sequences[r] \in Nat
  BY <1>4, DirectAssumption
<1> QED BY <1>1, <1>2, <1>3, <1>5, DirectAssumption

\* A step of h that makes its call k.
LEMMA CallMoves ==
  ASSUME DirectInv, NEW h \in Handler, NEW k \in Job, job' = [job EXCEPT ![h] = k],
         Sane(k, verdict', docs'), verdict' \in [Environment -> [Rnc -> [Number -> Verdicts]]],
         Keeps(verdict, verdict'), docs' \in Seq(Doc), Grows(docs, docs'),
         Honest(verdict', docs'), sequences' \in [Rnc -> 0 .. LastNumber],
         calls' \in 0 .. MaxCalls, Room'
  PROVE  DirectInv'
<1>1. job \in [Handler -> Job]
  BY DEF DirectInv, DirectTypeOK, Job
<1>2. DirectTypeOK'
  BY <1>1 DEF DirectTypeOK, Job, Doc, Verdicts
<1>3. \A g \in Handler : Sane(job'[g], verdict', docs')
  BY <1>1, SaneStays DEF DirectInv
<1> QED BY <1>2, <1>3 DEF DirectInv

\* The same, for a step that takes no further number.
LEMMA CallGoesOn ==
  ASSUME DirectInv, NEW h \in Handler, NEW k \in Job, job' = [job EXCEPT ![h] = k],
         Sane(k, verdict', docs'), verdict' \in [Environment -> [Rnc -> [Number -> Verdicts]]],
         Keeps(verdict, verdict'), docs' \in Seq(Doc), Grows(docs, docs'),
         Honest(verdict', docs'), sequences' = sequences, calls' \in 0 .. MaxCalls,
         \/ k.at \notin Sends
         \/ job[h].at \in Sends /\ k.rnc = job[h].rnc /\ k.tries = job[h].tries
  PROVE  DirectInv'
<1>1. job \in [Handler -> Job]
  BY DEF DirectInv, DirectTypeOK, Job
<1>2. \A r \in Rnc : Left(r)' \subseteq Left(r)
  BY <1>1 DEF Left, Busy, Sends
<1>3. sequences' \in [Rnc -> 0 .. LastNumber]
  BY DEF DirectInv, DirectTypeOK
<1> QED BY <1>2, <1>3, CallMoves, RoomStays

-----------------------------------------------------------------------------
LEMMA NowDirect ==
  ASSUME DirectInv
  PROVE  /\ job \in [Handler -> Job]
         /\ verdict \in [Environment -> [Rnc -> [Number -> Verdicts]]]
         /\ docs \in Seq(Doc)
         /\ sequences \in [Rnc -> 0 .. LastNumber]
         /\ calls \in 0 .. MaxCalls
         /\ Honest(verdict, docs)
         /\ \A h \in Handler : job[h] \in Job /\ Sane(job[h], verdict, docs)
         /\ \A d \in Seq(Doc) : Grows(d, d)
         /\ Grows(docs, docs) /\ Keeps(verdict, verdict)
         /\ {MaxRetries, LastNumber, MaxCalls} \subseteq Nat
BY DirectAssumption DEF DirectInv, DirectTypeOK, Job, Doc, Verdicts, Grows, Keeps

LEMMA FreeIs ==
  /\ Free \in Job
  /\ Free.at = "free" /\ Free.doc = 0 /\ Free.spent = 0 /\ Free.tries = 0
  /\ \A v, d : Sane(Free, v, d)
<1>1. 0 \in 0 .. MaxRetries
  BY DirectAssumption
<1> QED BY <1>1 DEF Free, Job, Estados, Sane

LEMMA StartKeeps ==
  ASSUME DirectInv, NEW h \in Handler, NEW r \in Rnc, NEW n \in Chosen,
         NEW kind \in {"rfce", "ecf"}, Start(h, r, n, kind)
  PROVE  DirectInv'
<1> DEFINE k == [Free EXCEPT !.at = kind, !.rnc = r, !.number = n]
<1>1. /\ job' = [job EXCEPT ![h] = k] /\ job[h].at = "free" /\ calls < MaxCalls /\ calls' = calls + 1
      /\ sequences[r] + MaxRetries * (1 + Cardinality(Busy(r))) <= LastNumber
      /\ verdict' = verdict /\ docs' = docs /\ sequences' = sequences
  BY DEF Start, Counted, Jobs, Doing
<1>2. n \in Number
  BY DirectAssumption DEF Number
<1>3. /\ k.at = kind /\ k.rnc = r /\ k.number = n /\ k.spent = 0 /\ k.doc = 0 /\ k.tries = 0
      /\ k \in Job
  <2>1. r \in Rnc \cup {""} /\ n \in Number \cup {0}
    BY <1>2
  <2> QED BY <2>1, FreeIs DEF Job
<1> HIDE DEF k
<1>4. Sane(k, verdict, docs)
  BY <1>2, <1>3 DEF Sane
<1>5. \A g \in Handler : job'[g] = IF g = h THEN k ELSE job[g]
  BY <1>1, NowDirect
<1>6. Room'
  <2> SUFFICES ASSUME NEW u \in Rnc
      PROVE  sequences'[u] + Cardinality(Left(u)') <= LastNumber
    BY DEF Room
  <2>1. CASE u = r
    <3>1. Busy(r)' = Busy(r) \cup {h} /\ h \notin Busy(r)
      BY <1>1, <1>3, <1>5 DEF Busy
    <3>2. Cardinality(Busy(r)') = Cardinality(Busy(r)) + 1 /\ Cardinality(Busy(r)) \in Nat
      BY <3>1, LeftIsFinite, FS_AddElement
    <3>3. Busy(r)' \in SUBSET Handler /\ Left(r)' \in SUBSET (Busy(r)' \X (1 .. MaxRetries))
      BY DEF Busy, Left
    <3>4. Cardinality(Left(r)') <= Cardinality(Busy(r)') * MaxRetries /\ Cardinality(Left(r)') \in Nat
      BY <3>3, RetriesOf
    <3>5. sequences[r] \in Nat /\ MaxRetries \in Nat /\ LastNumber \in Nat
      BY NowDirect
    <3>6. Cardinality(Busy(r)') * MaxRetries = MaxRetries * (1 + Cardinality(Busy(r)))
      BY <3>2, <3>5
    <3>7. MaxRetries * (1 + Cardinality(Busy(r))) \in Nat
      BY <3>2, <3>5
    <3> QED BY <1>1, <2>1, <3>4, <3>5, <3>6, <3>7
  <2>2. CASE u # r
    <3>1. Left(u)' = Left(u)
      BY <1>1, <1>3, <1>5, <2>2 DEF Busy, Left
    <3> QED BY <1>1, <3>1 DEF DirectInv, Room
  <2> QED BY <2>1, <2>2
<1>7. /\ verdict' \in [Environment -> [Rnc -> [Number -> Verdicts]]] /\ docs' \in Seq(Doc)
      /\ sequences' \in [Rnc -> 0 .. LastNumber] /\ calls' \in 0 .. MaxCalls
      /\ Keeps(verdict, verdict') /\ Grows(docs, docs') /\ Honest(verdict', docs')
  BY <1>1, NowDirect
<1> QED BY <1>1, <1>3, <1>4, <1>6, <1>7, CallMoves

\* A verdict only comes where there was none, or none that is final.
LEMMA Given ==
  ASSUME DirectInv, NEW e \in Environment, NEW r \in Rnc, NEW n \in Number, NEW v \in Verdicts,
         verdict' = [verdict EXCEPT ![e][r][n] = v],
         v = verdict[e][r][n] \/ verdict[e][r][n] \in {"none", "pending"}
  PROVE  /\ verdict' \in [Environment -> [Rnc -> [Number -> Verdicts]]]
         /\ Keeps(verdict, verdict')
         /\ verdict'[e][r][n] = v
<1>1. verdict \in [Environment -> [Rnc -> [Number -> Verdicts]]]
  BY NowDirect
<1>2. \A d \in Environment, s \in Rnc, k \in Number :
        verdict'[d][s][k] = IF d = e /\ s = r /\ k = n THEN v ELSE verdict[d][s][k]
  BY <1>1
<1> QED BY <1>1, <1>2 DEF Keeps, AcceptedIn

LEMMA HonestStays ==
  ASSUME NEW v, NEW x, NEW d \in Seq(Doc), Honest(v, d), Keeps(v, x)
  PROVE  Honest(x, d)
<1>1. \A i \in DOMAIN d : d[i] \in Doc
  BY LenProperties
<1>2. \A i \in DOMAIN d : d[i].rnc \in Rnc /\ d[i].encf \in Number
  BY <1>1 DEF Doc
<1> QED BY <1>2 DEF Honest, Keeps, Where

LEMMA JudgedIs ==
  ASSUME NEW v \in Verdicts, NEW a \in Judged(v)
  PROVE  /\ a.verdict \in Verdicts /\ a.estado \in Estados
         /\ a.verdict = v \/ v = "none"
         /\ a.estado = "Aceptado" => a.verdict = "accepted"
         /\ a.estado \in {"", "Aceptado", "Rechazado"}
         /\ a.secuenciaUtilizada \/ a.verdict = v
<1>1. CASE v # "none"
  <2>1. a = [estado |-> "Rechazado", secuenciaUtilizada |-> TRUE, verdict |-> v]
    BY <1>1 DEF Judged
  <2> QED BY <2>1 DEF Verdicts, Estados
<1>2. CASE v = "none"
  <2>1. \/ a = [estado |-> "Aceptado", secuenciaUtilizada |-> TRUE, verdict |-> "accepted"]
        \/ a = [estado |-> "Rechazado", secuenciaUtilizada |-> TRUE, verdict |-> "refused"]
        \/ a = [estado |-> "Rechazado", secuenciaUtilizada |-> FALSE, verdict |-> "none"]
        \/ a = [estado |-> "", secuenciaUtilizada |-> FALSE, verdict |-> "none"]
    BY <1>2 DEF Judged
  <2>2. CASE a = [estado |-> "Aceptado", secuenciaUtilizada |-> TRUE, verdict |-> "accepted"]
    BY <1>2, <2>2 DEF Verdicts, Estados
  <2>3. CASE a = [estado |-> "Rechazado", secuenciaUtilizada |-> TRUE, verdict |-> "refused"]
    BY <1>2, <2>3 DEF Verdicts, Estados
  <2>4. CASE a = [estado |-> "Rechazado", secuenciaUtilizada |-> FALSE, verdict |-> "none"]
    BY <1>2, <2>4 DEF Verdicts, Estados
  <2>5. CASE a = [estado |-> "", secuenciaUtilizada |-> FALSE, verdict |-> "none"]
    BY <1>2, <2>5 DEF Verdicts, Estados
  <2> QED BY <2>1, <2>2, <2>3, <2>4, <2>5
<1> QED BY <1>1, <1>2


LEMMA Counts ==
  ASSUME DirectInv
  PROVE  /\ MaxRetries \in Nat /\ LastNumber \in Nat
         /\ \A r \in Rnc : sequences[r] \in Nat
         /\ \A h \in Handler : job[h].tries \in 0 .. MaxRetries
<1>1. MaxRetries \in Nat /\ LastNumber \in Nat
  BY DirectAssumption
<1>2. \A r \in Rnc : sequences[r] \in 0 .. LastNumber
  BY NowDirect
<1>3. ASSUME NEW h \in Handler PROVE job[h].tries \in 0 .. MaxRetries
  <2>1. job[h] \in Job
    BY NowDirect
  <2> QED BY <2>1 DEF Job
<1> QED BY <1>1, <1>2, <1>3

LEMMA NextIsANumber ==
  ASSUME DirectInv, NEW h \in Handler, job[h].at = "rfce", job[h].tries < MaxRetries
  PROVE  GetNext(job[h].rnc) \in Number
<1> DEFINE r == job[h].rnc
<1>1. job[h] \in Job /\ r \in Rnc
  BY NowDirect DEF Sane
<1>2. job[h].tries \in Nat /\ MaxRetries \in Nat /\ LastNumber \in Nat /\ sequences[r] \in Nat
  BY <1>1, Counts
<1>3. <<h, job[h].tries + 1>> \in Left(r)
  BY <1>2 DEF Left, Busy
<1>4. Cardinality(Left(r)) \in Nat \ {0}
  BY <1>3, LeftIsFinite, FS_EmptySet
<1>5. sequences[r] + Cardinality(Left(r)) <= LastNumber
  BY <1>1 DEF DirectInv, Room
<1> QED BY <1>2, <1>4, <1>5 DEF GetNext, Number

\* Another round: a number the provider has left, the last one unused.
LEMMA AgainKeeps ==
  ASSUME DirectInv, NEW h \in Handler, NEW k \in Job, job[h].at = "rfce",
         job[h].tries < MaxRetries, verdict' = verdict, docs' = docs, calls' = calls,
         job' = [job EXCEPT ![h] = k],
         sequences' = [sequences EXCEPT ![job[h].rnc] = GetNext(job[h].rnc)],
         k.at = "rfce", k.rnc = job[h].rnc, k.number = GetNext(job[h].rnc),
         k.tries = job[h].tries + 1, k.spent = job[h].spent, k.doc = job[h].doc
  PROVE  DirectInv'
<1> DEFINE j == job[h]
           r == job[h].rnc
<1>1. j \in Job /\ Sane(j, verdict, docs) /\ r \in Rnc
  BY NowDirect DEF Sane
<1>2. j.tries \in Nat /\ MaxRetries \in Nat /\ LastNumber \in Nat /\ sequences[r] \in Nat
  BY <1>1, Counts
<1>3. \A g \in Handler : job'[g] = IF g = h THEN k ELSE job[g]
  BY NowDirect
<1>4. <<h, j.tries + 1>> \in Left(r)
  BY <1>2 DEF Left, Busy
<1>5. Left(r)' = Left(r) \ {<<h, j.tries + 1>>}
  <2>1. Busy(r)' = Busy(r)
    BY <1>3 DEF Busy
  <2>2. ASSUME NEW g \in Handler, NEW i \in 1 .. MaxRetries
        PROVE  i > job'[g].tries <=> i > job[g].tries /\ <<g, i>> # <<h, j.tries + 1>>
    BY <1>2, <1>3
  <2>3. ASSUME NEW p \in Busy(r) \X (1 .. MaxRetries)
        PROVE  p[2] > job'[p[1]].tries <=> p[2] > job[p[1]].tries /\ p # <<h, j.tries + 1>>
    <3>1. PICK g \in Handler, i \in 1 .. MaxRetries : p = <<g, i>>
      BY DEF Busy
    <3> QED BY <2>2, <3>1
  <2> QED BY <2>1, <2>3 DEF Left
<1>6. Cardinality(Left(r)') = Cardinality(Left(r)) - 1 /\ Cardinality(Left(r)) \in Nat \ {0}
  <2>1. IsFiniteSet(Left(r)) /\ Cardinality(Left(r)) \in Nat
    BY LeftIsFinite
  <2>2. Cardinality(Left(r)) # 0
    BY <1>4, <2>1, FS_EmptySet
  <2> QED BY <1>4, <1>5, <2>1, <2>2, FS_RemoveElement
<1>7. sequences[r] + Cardinality(Left(r)) <= LastNumber
  BY <1>1 DEF DirectInv, Room
<1>8. GetNext(r) \in 1 .. LastNumber
  BY NextIsANumber DEF Number
<1>9. sequences' \in [Rnc -> 0 .. LastNumber] /\ sequences'[r] = sequences[r] + 1
  BY <1>1, <1>2, <1>8, NowDirect DEF GetNext
<1>10. Room'
  <2> SUFFICES ASSUME NEW u \in Rnc
      PROVE  sequences'[u] + Cardinality(Left(u)') <= LastNumber
    BY DEF Room
  <2>1. CASE u = r
    BY <1>2, <1>6, <1>7, <1>9, <2>1
  <2>2. CASE u # r
    <3>1. Left(u)' = Left(u)
      BY <1>3, <2>2 DEF Busy, Left
    <3>2. sequences'[u] = sequences[u]
      BY <2>2, NowDirect
    <3> QED BY <3>1, <3>2 DEF DirectInv, Room
  <2> QED BY <2>1, <2>2
<1>11. Sane(k, verdict, docs)
  BY <1>1, <1>8 DEF Sane, Number
<1>12. /\ verdict' \in [Environment -> [Rnc -> [Number -> Verdicts]]] /\ docs' \in Seq(Doc)
       /\ calls' \in 0 .. MaxCalls
       /\ Keeps(verdict, verdict') /\ Grows(docs, docs') /\ Honest(verdict', docs')
       /\ Sane(k, verdict', docs')
  BY <1>11, NowDirect
<1> QED BY <1>9, <1>10, <1>12, CallMoves

LEMMA SendRfceKeeps ==
  ASSUME DirectInv, NEW h \in Handler, SendRfce(h) PROVE DirectInv'
<1> DEFINE j == job[h]
           v == verdict[Configured][j.rnc][j.number]
<1>1. /\ j \in Job /\ Sane(j, verdict, docs) /\ j.at = "rfce"
      /\ j.rnc \in Rnc /\ j.number \in Number /\ j.spent = 0
  BY NowDirect DEF SendRfce, Doing, Sane
<1>c. Configured \in Environment
  BY EnvironmentAssumption
<1>2. v \in Verdicts
  BY <1>1, <1>c, NowDirect
<1>3. PICK a \in Judged(v) :
        LET k == [j EXCEPT !.spent = @ + (IF a.verdict # v THEN 1 ELSE 0)]
        IN /\ verdict' = [verdict EXCEPT ![Configured][j.rnc][j.number] = a.verdict]
           /\ \/ /\ Again(j, a)
                 /\ Jobs(h, [k EXCEPT !.number = GetNext(j.rnc), !.tries = @ + 1])
                 /\ sequences' = [sequences EXCEPT ![j.rnc] = GetNext(j.rnc)]
              \/ /\ ~Again(j, a)
                 /\ Jobs(h, [k EXCEPT !.at = "add", !.estado = a.estado])
                 /\ UNCHANGED sequences
  BY DEF SendRfce
<1>v. verdict' = [verdict EXCEPT ![Configured][j.rnc][j.number] = a.verdict]
  BY <1>3
<1>4. /\ a.verdict \in Verdicts /\ a.estado \in {"", "Aceptado", "Rechazado"}
      /\ a.verdict = v \/ v = "none"
      /\ a.estado = "Aceptado" => a.verdict = "accepted"
      /\ a.secuenciaUtilizada \/ a.verdict = v
  BY <1>2, JudgedIs
<1>g. LET w == verdict[Configured][j.rnc][j.number]
      IN  a.verdict = w \/ w \in {"none", "pending"}
  BY <1>4
<1> HIDE DEF v
<1> DEFINE k == [j EXCEPT !.spent = @ + (IF a.verdict # v THEN 1 ELSE 0)]
<1>5. /\ k \in Job /\ k.spent = IF a.verdict # v THEN 1 ELSE 0
      /\ k.at = j.at /\ k.rnc = j.rnc /\ k.number = j.number /\ k.tries = j.tries
      /\ k.doc = j.doc /\ k.estado = j.estado
  <2> DEFINE x == IF a.verdict # v THEN 1 ELSE 0
  <2>1. x \in Nat /\ j.spent + x = x /\ k = [j EXCEPT !.spent = x]
    BY <1>1
  <2> HIDE DEF x
  <2>2. LET q == [j EXCEPT !.spent = x]
        IN /\ q \in Job /\ q.spent = x
           /\ q.at = j.at /\ q.rnc = j.rnc /\ q.number = j.number /\ q.tries = j.tries
           /\ q.doc = j.doc /\ q.estado = j.estado
    BY <1>1, <2>1 DEF Job
  <2> QED BY <2>1, <2>2 DEF x
<1>6. docs' = docs /\ calls' = calls
  BY DEF SendRfce
<1>7. CASE /\ Again(j, a)
           /\ Jobs(h, [k EXCEPT !.number = GetNext(j.rnc), !.tries = @ + 1])
           /\ sequences' = [sequences EXCEPT ![j.rnc] = GetNext(j.rnc)]
  <2>1. a.verdict = v /\ j.tries < MaxRetries
    BY <1>4, <1>7 DEF Again
  <2>2. verdict' = verdict
    <3>1. /\ verdict \in [Environment -> [Rnc -> [Number -> Verdicts]]]
          /\ j.rnc \in Rnc /\ j.number \in Number
      BY <1>1, NowDirect
    <3>2. verdict' = [verdict EXCEPT ![Configured][j.rnc][j.number] = verdict[Configured][j.rnc][j.number]]
      BY <1>v, <2>1 DEF v
    <3> QED BY <1>c, <3>1, <3>2
  <2> DEFINE q == [k EXCEPT !.number = GetNext(j.rnc), !.tries = @ + 1]
  <2>3. /\ q.at = "rfce" /\ q.rnc = j.rnc /\ q.number = GetNext(j.rnc)
        /\ q.tries = j.tries + 1 /\ q.spent = j.spent /\ q.doc = j.doc
    BY <1>1, <1>5, <2>1 DEF Job
  <2>4. q \in Job
    <3>1. GetNext(j.rnc) \in Number
      BY <1>1, <2>1, NextIsANumber
    <3>2. j.tries + 1 \in 0 .. MaxRetries
      BY <2>1, Counts
    <3> QED BY <1>5, <3>1, <3>2 DEF Job
  <2>5. job' = [job EXCEPT ![h] = q]
    BY <1>7 DEF Jobs
  <2> HIDE DEF q
  <2> QED BY <1>1, <1>6, <1>7, <2>1, <2>2, <2>3, <2>4, <2>5, AgainKeeps
<1>8. CASE /\ ~Again(j, a)
           /\ Jobs(h, [k EXCEPT !.at = "add", !.estado = a.estado])
           /\ UNCHANGED sequences
  <2> DEFINE q == [k EXCEPT !.at = "add", !.estado = a.estado]
  <2> HIDE DEF k, j
  <2>1. /\ q \in Job /\ q.at = "add" /\ q.estado = a.estado /\ q.rnc = j.rnc
        /\ q.number = j.number /\ q.tries = j.tries /\ q.spent = k.spent /\ q.doc = j.doc
    BY <1>4, <1>5 DEF Job, Estados
  <2>2. job' = [job EXCEPT ![h] = q]
    BY <1>8 DEF Jobs, k, j
  <2> HIDE DEF q
  <2>3. /\ verdict' \in [Environment -> [Rnc -> [Number -> Verdicts]]]
        /\ Keeps(verdict, verdict')
        /\ verdict'[Configured][j.rnc][j.number] = a.verdict
    <3> DEFINE w == a.verdict
               r == j.rnc
               n == j.number
    <3>1. /\ r \in Rnc /\ n \in Number /\ w \in Verdicts
          /\ verdict' = [verdict EXCEPT ![Configured][r][n] = w]
          /\ w = verdict[Configured][r][n] \/ verdict[Configured][r][n] \in {"none", "pending"}
      BY <1>1, <1>v, <1>4, <1>g
    <3> HIDE DEF w, r, n
    <3>2. /\ verdict' \in [Environment -> [Rnc -> [Number -> Verdicts]]]
          /\ Keeps(verdict, verdict') /\ verdict'[Configured][r][n] = w
      BY <1>c, <3>1, Given
    <3> QED BY <3>2 DEF w, r, n
  <2>4. Sane(q, verdict', docs')
    <3>1. q.doc # 0 => q.doc \in DOMAIN docs' /\ docs'[q.doc].rnc = q.rnc
      BY <1>1, <1>6, <2>1 DEF Sane
    <3>2. q.spent <= 1 /\ q.rnc \in Rnc /\ q.number \in Number
      BY <1>1, <1>5, <2>1
    <3>3. SaysAccepted(q.estado) => AcceptedIn(verdict', Configured, q.rnc, q.number)
      BY <1>4, <2>1, <2>3 DEF SaysAccepted, AcceptedIn
    <3> QED BY <2>1, <3>1, <3>2, <3>3 DEF Sane
  <2>5. Honest(verdict', docs')
    BY <1>6, <2>3, NowDirect, HonestStays
  <2>6. docs' \in Seq(Doc) /\ Grows(docs, docs') /\ calls' \in 0 .. MaxCalls
    BY <1>6, NowDirect
  <2>7. q.at \in Sends /\ j.at \in Sends
    BY <1>1, <2>1 DEF Sends
  <2> QED BY <1>8, <2>1, <2>2, <2>3, <2>4, <2>5, <2>6, <2>7, CallGoesOn DEF j
<1> QED BY <1>3, <1>7, <1>8


LEMMA ReceivedIs ==
  ASSUME NEW v \in Verdicts, NEW a \in Received(v)
  PROVE  a.verdict \in Verdicts /\ (a.verdict = v \/ v = "none")
<1>1. \/ a = [trackId |-> FALSE, verdict |-> v]
      \/ v = "none" /\ a = [trackId |-> TRUE, verdict |-> "pending"]
  BY DEF Received
<1> QED BY <1>1 DEF Verdicts

LEMMA SendEcfKeeps ==
  ASSUME DirectInv, NEW h \in Handler, SendEcf(h) PROVE DirectInv'
<1> DEFINE j == job[h]
           v == verdict[Configured][j.rnc][j.number]
<1>1. /\ j \in Job /\ Sane(j, verdict, docs) /\ j.at = "ecf"
      /\ j.rnc \in Rnc /\ j.number \in Number /\ j.spent <= 1
  BY NowDirect DEF SendEcf, Doing, Sane
<1>c. Configured \in Environment
  BY EnvironmentAssumption
<1>2. v \in Verdicts
  BY <1>1, <1>c, NowDirect
<1>3. PICK a \in Received(v), e \in {"Recibido", "Rechazado"} :
        /\ verdict' = [verdict EXCEPT ![Configured][j.rnc][j.number] = a.verdict]
        /\ job' = [job EXCEPT ![h] = [j EXCEPT !.at = "add", !.estado = e]]
  BY DEF SendEcf, Jobs
<1>4. /\ verdict' \in [Environment -> [Rnc -> [Number -> Verdicts]]] /\ Keeps(verdict, verdict')
  BY <1>1, <1>c, <1>2, <1>3, ReceivedIs, Given
<1>5. docs' = docs /\ calls' = calls /\ sequences' = sequences
  BY DEF SendEcf
<1> DEFINE q == [j EXCEPT !.at = "add", !.estado = e]
<1> HIDE DEF v, j
<1>6. /\ q \in Job /\ q.at = "add" /\ q.estado = e /\ q.rnc = j.rnc
      /\ q.number = j.number /\ q.tries = j.tries /\ q.spent = j.spent /\ q.doc = j.doc
  BY <1>1 DEF Job, Estados
<1>7. job' = [job EXCEPT ![h] = q]
  BY <1>3
<1> HIDE DEF q
<1>8. Sane(q, verdict', docs')
  BY <1>1, <1>5, <1>6 DEF Sane, SaysAccepted
<1>9. Honest(verdict', docs')
  BY <1>4, <1>5, NowDirect, HonestStays
<1>10. docs' \in Seq(Doc) /\ Grows(docs, docs') /\ calls' \in 0 .. MaxCalls
  BY <1>5, NowDirect
<1>11. q.at \in Sends /\ j.at \in Sends
  BY <1>1, <1>6 DEF Sends
<1> QED BY <1>4, <1>5, <1>6, <1>7, <1>8, <1>9, <1>10, <1>11, CallGoesOn DEF j

\* A call that ends.
LEMMA CallEnds ==
  ASSUME DirectInv, NEW h \in Handler, job' = [job EXCEPT ![h] = Free],
         verdict' \in [Environment -> [Rnc -> [Number -> Verdicts]]], Keeps(verdict, verdict'),
         docs' \in Seq(Doc), Grows(docs, docs'), Honest(verdict', docs'),
         sequences' = sequences, calls' = calls
  PROVE  DirectInv'
<1>1. calls' \in 0 .. MaxCalls
  BY NowDirect
<1>2. Free \in Job /\ Free.at \notin Sends /\ Sane(Free, verdict', docs')
  BY FreeIs DEF Sends
<1> HIDE DEF Free
<1> QED BY <1>1, <1>2, CallGoesOn

LEMMA FailKeeps ==
  ASSUME DirectInv, NEW h \in Handler, Fail(h) PROVE DirectInv'
<1> DEFINE j == job[h]
           v == verdict[Configured][j.rnc][j.number]
<1>1. /\ job' = [job EXCEPT ![h] = Free] /\ docs' = docs /\ calls' = calls
      /\ sequences' = sequences
  BY DEF Fail, Jobs
<1>2. verdict' \in [Environment -> [Rnc -> [Number -> Verdicts]]] /\ Keeps(verdict, verdict')
  <2>1. CASE verdict' = verdict
    BY <2>1, NowDirect
  <2>2. CASE \E a \in Judged(v) \cup Received(v) :
               verdict' = [verdict EXCEPT ![Configured][j.rnc][j.number] = a.verdict]
    <3>1. PICK a \in Judged(v) \cup Received(v) :
            verdict' = [verdict EXCEPT ![Configured][j.rnc][j.number] = a.verdict]
      BY <2>2
    <3>2. Configured \in Environment /\ j.rnc \in Rnc /\ j.number \in Number
      BY NowDirect, EnvironmentAssumption DEF Fail, Doing, Sane
    <3>3. v \in Verdicts
      BY <3>2, NowDirect
    <3>4. a.verdict \in Verdicts /\ (a.verdict = v \/ v = "none")
      BY <3>3, JudgedIs, ReceivedIs
    <3> QED BY <3>1, <3>2, <3>4, Given
  <2> QED BY <2>1, <2>2 DEF Fail
<1>3. Honest(verdict', docs')
  BY <1>1, <1>2, NowDirect, HonestStays
<1> QED BY <1>1, <1>2, <1>3, NowDirect, CallEnds

LEMMA AddDocKeeps ==
  ASSUME DirectInv, NEW h \in Handler, AddDoc(h) PROVE DirectInv'
<1> DEFINE j == job[h]
           row == [rnc |-> j.rnc, encf |-> j.number, state |-> j.estado, amb |-> ""]
<1>1. /\ docs' = Append(docs, row) /\ job' = [job EXCEPT ![h] = Free]
      /\ verdict' = verdict /\ sequences' = sequences /\ calls' = calls
  BY DEF AddDoc, Jobs
<1>2. /\ j \in Job /\ j.rnc \in Rnc /\ j.number \in Number
      /\ SaysAccepted(j.estado) => AcceptedIn(verdict, Configured, j.rnc, j.number)
  BY NowDirect DEF AddDoc, Doing, Sane
<1>3. row \in Doc /\ (SaysAccepted(row.state) => AcceptedIn(verdict, Configured, row.rnc, row.encf))
  BY <1>2 DEF Doc, Job
<1>c. Configured \in Where(row)
  BY EnvironmentAssumption DEF Where
<1> HIDE DEF row
<1>4. /\ docs' \in Seq(Doc) /\ DOMAIN docs \subseteq DOMAIN docs'
      /\ \A i \in DOMAIN docs : docs'[i] = docs[i]
      /\ \A i \in DOMAIN docs' \ DOMAIN docs : docs'[i] = row
  BY <1>1, <1>3, NowDirect, AppendProperties
<1>5. Grows(docs, docs') /\ Honest(verdict, docs')
  BY <1>3, <1>c, <1>4, NowDirect DEF Grows, Honest
<1>6. /\ verdict' \in [Environment -> [Rnc -> [Number -> Verdicts]]] /\ Keeps(verdict, verdict')
      /\ Honest(verdict', docs')
  BY <1>1, <1>5, NowDirect
<1> QED BY <1>1, <1>4, <1>5, <1>6, CallEnds

-----------------------------------------------------------------------------
LEMMA AskKeeps ==
  ASSUME DirectInv, NEW h \in Handler, NEW r \in Rnc, NEW n \in Chosen, Ask(h, r, n)
  PROVE  DirectInv'
<1> DEFINE asking == [Free EXCEPT !.at = "ask", !.rnc = r, !.number = n]
<1>1. n \in Number
  BY DirectAssumption DEF Number
<1>2. /\ asking \in Job /\ asking.at = "ask" /\ asking.rnc = r /\ asking.number = n
      /\ asking.spent = 0 /\ asking.doc = 0
  <2>1. r \in Rnc \cup {""} /\ n \in Number \cup {0}
    BY <1>1
  <2> QED BY <2>1, FreeIs DEF Job
<1>3. /\ verdict' = verdict /\ docs' = docs /\ sequences' = sequences
      /\ calls < MaxCalls /\ calls' = calls + 1
      /\ Found(h, asking)
  BY DEF Ask, Counted
<1> HIDE DEF asking
<1>4. PICK k \in Job : job' = [job EXCEPT ![h] = k] /\ k.at = "ask" /\ Sane(k, verdict, docs)
  <2>1. CASE Jobs(h, asking)
    <3>1. Sane(asking, verdict, docs)
      BY <1>1, <1>2 DEF Sane
    <3>2. job' = [job EXCEPT ![h] = asking]
      BY <2>1 DEF Jobs
    <3> QED BY <1>2, <3>1, <3>2
  <2>2. CASE \E i \in DOMAIN docs :
               /\ docs[i].encf = asking.number /\ ~Denied(docs[i], asking.rnc)
               /\ Jobs(h, [asking EXCEPT !.doc = i, !.old = docs[i].state])
    <3>1. PICK i \in DOMAIN docs :
            /\ docs[i].encf = asking.number /\ ~Denied(docs[i], asking.rnc)
            /\ Jobs(h, [asking EXCEPT !.doc = i, !.old = docs[i].state])
      BY <2>2
    <3>2. i \in Nat /\ docs[i] \in Doc
      BY NowDirect, LenProperties
    <3>3. docs[i].state \in Estados
      BY <3>2 DEF Doc
    <3> DEFINE q == [asking EXCEPT !.doc = i, !.old = docs[i].state]
    <3>4. /\ q \in Job /\ q.at = "ask" /\ q.rnc = r /\ q.number = n /\ q.spent = 0 /\ q.doc = i
      BY <1>2, <3>2, <3>3 DEF Job
    <3>5. docs[i].rnc = r
      BY <1>2, <3>1 DEF Denied
    <3> HIDE DEF q
    <3>6. Sane(q, verdict, docs)
      BY <1>1, <3>4, <3>5 DEF Sane
    <3>7. job' = [job EXCEPT ![h] = q]
      BY <3>1 DEF Jobs, q
    <3>8. q \in Job /\ q.at = "ask"
      BY <3>4
    <3> QED BY <3>6, <3>7, <3>8
  <2> QED BY <1>3, <2>1, <2>2 DEF Found
<1>5. /\ verdict' \in [Environment -> [Rnc -> [Number -> Verdicts]]] /\ docs' \in Seq(Doc)
      /\ Keeps(verdict, verdict') /\ Grows(docs, docs') /\ Honest(verdict', docs')
      /\ Sane(k, verdict', docs')
  BY <1>3, <1>4, NowDirect
<1>6. calls' \in 0 .. MaxCalls
  BY <1>3, NowDirect
<1>7. k.at \notin Sends
  BY <1>4 DEF Sends
<1> QED BY <1>3, <1>4, <1>5, <1>6, <1>7, CallGoesOn

LEMMA SaidIs ==
  ASSUME NEW v \in Verdicts, NEW e \in Said(v)
  PROVE  /\ MappedState(e) \in Estados
         /\ SaysAccepted(MappedState(e)) => v = "accepted"
<1>1. \/ e = ""
      \/ v = "none" /\ e = "No encontrado"
      \/ v = "pending" /\ e = "En Proceso"
      \/ v = "accepted" /\ e = "Aceptado"
      \/ v = "refused" /\ e = "Rechazado"
  BY DEF Said, Verdicts
<1> QED BY <1>1 DEF MappedState, Estados, SaysAccepted

LEMMA ToldKeeps ==
  ASSUME DirectInv, NEW h \in Handler, Told(h) PROVE DirectInv'
<1> DEFINE j == job[h]
<1>1. /\ j \in Job /\ Sane(j, verdict, docs) /\ j.at = "ask"
      /\ j.rnc \in Rnc /\ j.number \in Number
  BY NowDirect DEF Told, Doing, Sane
<1>2. /\ verdict' = verdict /\ docs' = docs /\ sequences' = sequences /\ calls' = calls
  BY DEF Told
<1>3. /\ verdict' \in [Environment -> [Rnc -> [Number -> Verdicts]]] /\ docs' \in Seq(Doc)
      /\ Keeps(verdict, verdict') /\ Grows(docs, docs') /\ Honest(verdict', docs')
      /\ calls' \in 0 .. MaxCalls
  BY <1>2, NowDirect
<1>4. PICK e \in Said(verdict[Configured][j.rnc][j.number]) :
        job' = [job EXCEPT ![h] =
                 IF j.doc # 0 /\ j.old # MappedState(e)
                 THEN [j EXCEPT !.at = "update", !.estado = MappedState(e)] ELSE Free]
  BY DEF Told, Jobs
<1>c. Configured \in Environment
  BY EnvironmentAssumption
<1>5. /\ MappedState(e) \in Estados
      /\ SaysAccepted(MappedState(e)) => AcceptedIn(verdict, Configured, j.rnc, j.number)
  BY <1>1, <1>c, NowDirect, SaidIs DEF AcceptedIn
<1>6. CASE j.doc # 0 /\ j.old # MappedState(e)
  <2> DEFINE k == [j EXCEPT !.at = "update", !.estado = MappedState(e)]
  <2>1. job' = [job EXCEPT ![h] = k]
    BY <1>4, <1>6
  <2> HIDE DEF j
  <2>2. /\ k \in Job /\ k.at = "update" /\ k.estado = MappedState(e) /\ k.rnc = j.rnc
        /\ k.number = j.number /\ k.spent = j.spent /\ k.doc = j.doc
    BY <1>1, <1>5 DEF Job
  <2> HIDE DEF k
  <2>3. Sane(k, verdict', docs')
    BY <1>1, <1>2, <1>5, <1>6, <2>2 DEF Sane
  <2>4. k.at \notin Sends
    BY <2>2 DEF Sends
  <2> QED BY <1>2, <1>3, <2>1, <2>2, <2>3, <2>4, CallGoesOn
<1>7. CASE ~(j.doc # 0 /\ j.old # MappedState(e))
  <2>1. job' = [job EXCEPT ![h] = Free]
    BY <1>4, <1>7
  <2> QED BY <1>2, <1>3, <2>1, CallEnds
<1> QED BY <1>6, <1>7

\* One row changes, and stays its issuer's.
LEMMA RowChanges ==
  ASSUME DirectInv, NEW i \in DOMAIN docs, NEW n \in Number, NEW s \in Estados,
         docs' = [docs EXCEPT ![i].encf = n, ![i].state = s]
  PROVE  /\ docs' \in Seq(Doc) /\ Grows(docs, docs')
         /\ (SaysAccepted(s) => \E e \in Where(docs[i]) : AcceptedIn(verdict, e, docs[i].rnc, n))
               => Honest(verdict, docs')
<1>1. docs \in Seq(Doc) /\ i \in 1 .. Len(docs) /\ docs[i] \in Doc
  BY NowDirect, LenProperties
<1> DEFINE row == [docs[i] EXCEPT !.encf = n, !.state = s]
<1>2. /\ row \in Doc /\ row.encf = n /\ row.state = s /\ row.rnc = docs[i].rnc
      /\ row.amb = docs[i].amb
  BY <1>1 DEF Doc
<1>3. docs' = [docs EXCEPT ![i] = row]
  BY <1>1, LenProperties
<1> HIDE DEF row
<1>4. /\ docs' \in Seq(Doc) /\ DOMAIN docs' = DOMAIN docs
      /\ \A k \in DOMAIN docs : docs'[k] = IF k = i THEN row ELSE docs[k]
  <2> DEFINE new == [docs EXCEPT ![i] = row]
  <2>1. /\ new \in Seq(Doc) /\ Len(new) = Len(docs)
        /\ \A k \in 1 .. Len(docs) : new[k] = IF k = i THEN row ELSE docs[k]
    BY <1>1, <1>2, ExceptSeq
  <2>2. DOMAIN docs = 1 .. Len(docs) /\ DOMAIN new = 1 .. Len(new)
    BY <1>1, <2>1, LenProperties
  <2> QED BY <1>3, <2>1, <2>2
<1>5. Grows(docs, docs')
  BY <1>2, <1>4 DEF Grows
<1>6. ASSUME SaysAccepted(s) => \E e \in Where(docs[i]) : AcceptedIn(verdict, e, docs[i].rnc, n)
      PROVE  Honest(verdict, docs')
  <2> SUFFICES ASSUME NEW k \in DOMAIN docs, SaysAccepted(docs'[k].state)
               PROVE  \E e \in Where(docs'[k]) : AcceptedIn(verdict, e, docs'[k].rnc, docs'[k].encf)
    BY <1>4 DEF Honest
  <2>1. CASE k = i
    BY <1>2, <1>4, <1>6, <2>1 DEF Where
  <2>2. CASE k # i
    BY <1>4, <2>2, NowDirect DEF Honest
  <2> QED BY <2>1, <2>2
<1> QED BY <1>4, <1>5, <1>6

LEMMA UpdateDocKeeps ==
  ASSUME DirectInv, NEW h \in Handler, UpdateDoc(h) PROVE DirectInv'
<1> DEFINE j == job[h]
<1>1. /\ j \in Job /\ Sane(j, verdict, docs) /\ j.at = "update"
      /\ j.rnc \in Rnc /\ j.number \in Number
      /\ j.doc \in DOMAIN docs /\ docs[j.doc].rnc = j.rnc
      /\ SaysAccepted(j.estado) => AcceptedIn(verdict, Configured, j.rnc, j.number)
  BY NowDirect DEF UpdateDoc, Doing, Sane
<1>2. /\ docs' = [docs EXCEPT ![j.doc].encf = j.number, ![j.doc].state = j.estado]
      /\ job' = [job EXCEPT ![h] = Free]
      /\ verdict' = verdict /\ sequences' = sequences /\ calls' = calls
  BY DEF UpdateDoc, Jobs
<1>3. j.estado \in Estados
  BY <1>1 DEF Job
<1>c. Configured \in Where(docs[j.doc])
  BY EnvironmentAssumption DEF Where
<1> HIDE DEF j
<1>4. docs' \in Seq(Doc) /\ Grows(docs, docs') /\ Honest(verdict, docs')
  BY <1>1, <1>2, <1>3, <1>c, RowChanges
<1>5. /\ verdict' \in [Environment -> [Rnc -> [Number -> Verdicts]]] /\ Keeps(verdict, verdict')
      /\ Honest(verdict', docs')
  BY <1>2, <1>4, NowDirect
<1> QED BY <1>2, <1>4, <1>5, CallEnds

\* A step of DGII or of POST /documents.
LEMMA OthersKeep ==
  ASSUME DirectInv, verdict' \in [Environment -> [Rnc -> [Number -> Verdicts]]], Keeps(verdict, verdict'),
         docs' \in Seq(Doc), Grows(docs, docs'), Honest(verdict', docs'),
         sequences' = sequences, job' = job, calls' = calls
  PROVE  DirectInv'
<1>1. DirectTypeOK'
  BY DEF DirectInv, DirectTypeOK, Doc, Verdicts
<1>2. \A h \in Handler : Sane(job'[h], verdict', docs')
  BY NowDirect, SaneStays
<1>3. Room'
  <2>1. \A r \in Rnc : Left(r)' = Left(r)
    BY DEF Left, Busy
  <2> QED BY <2>1, RoomStays
<1> QED BY <1>1, <1>2, <1>3 DEF DirectInv

LEMMA DecideKeeps ==
  ASSUME DirectInv, NEW e \in Environment, NEW r \in Rnc, NEW n \in Number, Decide(e, r, n) PROVE DirectInv'
<1>1. PICK v \in {"accepted", "refused"} : verdict' = [verdict EXCEPT ![e][r][n] = v]
  BY DEF Decide
<1>2. v \in Verdicts /\ verdict[e][r][n] = "pending"
  BY DEF Verdicts, Decide
<1>3. verdict' \in [Environment -> [Rnc -> [Number -> Verdicts]]] /\ Keeps(verdict, verdict')
  BY <1>1, <1>2, Given
<1>4. docs' = docs /\ sequences' = sequences /\ job' = job /\ calls' = calls
  BY DEF Decide
<1>5. docs' \in Seq(Doc) /\ Grows(docs, docs') /\ Honest(verdict', docs')
  BY <1>3, <1>4, NowDirect, HonestStays
<1> QED BY <1>3, <1>4, <1>5, OthersKeep

LEMMA SettleKeeps ==
  ASSUME DirectInv, NEW i \in DOMAIN docs, SettleInvoice(i) PROVE DirectInv'
<1>0. PICK e \in {docs[i].amb, Configured} :
        docs' = [docs EXCEPT ![i].state =
                   IF verdict[e][docs[i].rnc][docs[i].encf] = "accepted" THEN "AcceptedByDgii"
                                                                         ELSE "RejectedByDgii"]
  BY DEF SettleInvoice, Asked
<1> DEFINE v == verdict[e][docs[i].rnc][docs[i].encf]
           s == IF v = "accepted" THEN "AcceptedByDgii" ELSE "RejectedByDgii"
<1>1. /\ docs' = [docs EXCEPT ![i].state = s]
      /\ verdict' = verdict /\ sequences' = sequences /\ job' = job /\ calls' = calls
  BY <1>0 DEF SettleInvoice
<1>2. docs \in Seq(Doc) /\ docs[i] \in Doc /\ docs \in [1 .. Len(docs) -> Doc]
  BY NowDirect, LenProperties
<1>3. s \in Estados /\ docs[i].encf \in Number
  BY <1>2 DEF Estados, Doc
<1>4. SaysAccepted(s) =>
        \E x \in Where(docs[i]) : AcceptedIn(verdict, x, docs[i].rnc, docs[i].encf)
  <2>1. e \in Where(docs[i])
    BY <1>0, <1>2, EnvironmentAssumption DEF SettleInvoice, Doc, Where
  <2> QED BY <2>1 DEF SaysAccepted, AcceptedIn
<1> HIDE DEF s
<1>5. docs' = [docs EXCEPT ![i].encf = docs[i].encf, ![i].state = s]
  <2>1. [docs[i] EXCEPT !.state = s] = [docs[i] EXCEPT !.encf = docs[i].encf, !.state = s]
    BY <1>2 DEF Doc
  <2> QED BY <1>1, <1>2, <2>1
<1>6. docs' \in Seq(Doc) /\ Grows(docs, docs') /\ Honest(verdict, docs')
  BY <1>3, <1>4, <1>5, RowChanges
<1> QED BY <1>1, <1>6, NowDirect, OthersKeep

LEMMA ReissueKeeps ==
  ASSUME DirectInv, NEW i \in DOMAIN docs, NEW n \in Number, ReissueInvoice(i, n)
  PROVE  DirectInv'
<1> DEFINE r == docs[i].rnc
           e == docs[i].amb
<1>1. docs[i] \in Doc /\ r \in Rnc /\ e \in Environment
  <2>1. docs[i] \in Doc
    BY NowDirect, LenProperties
  <2> QED BY <2>1 DEF Doc, ReissueInvoice
<1>2. /\ docs' = [docs EXCEPT ![i].encf = n, ![i].state = "Uncertain"]
      /\ verdict' = [verdict EXCEPT ![e][r][n] = "pending"] /\ verdict[e][r][n] = "none"
      /\ sequences' = sequences /\ job' = job /\ calls' = calls
  BY DEF ReissueInvoice
<1>3. "Uncertain" \in Estados /\ ~SaysAccepted("Uncertain") /\ "pending" \in Verdicts
  BY DEF Estados, SaysAccepted, Verdicts
<1>4. docs' \in Seq(Doc) /\ Grows(docs, docs') /\ Honest(verdict, docs')
  BY <1>2, <1>3, RowChanges
<1>5. verdict' \in [Environment -> [Rnc -> [Number -> Verdicts]]] /\ Keeps(verdict, verdict')
  BY <1>1, <1>2, <1>3, Given
<1>6. Honest(verdict', docs')
  BY <1>4, <1>5, HonestStays
<1> QED BY <1>2, <1>4, <1>5, <1>6, OthersKeep


LEMMA RestartKeeps == ASSUME DirectInv, DirectRestart PROVE DirectInv'
<1>1. /\ verdict' = verdict /\ docs' = docs /\ calls' = calls
      /\ sequences' = [r \in Rnc |-> 0] /\ job' = [h \in Handler |-> Free]
  BY DEF DirectRestart
<1>2. DirectTypeOK'
  <2>1. 0 \in 0 .. LastNumber
    BY DirectAssumption
  <2>2. job' \in [Handler -> Job] /\ sequences' \in [Rnc -> 0 .. LastNumber]
    BY <1>1, <2>1, FreeIs
  <2> QED BY <1>1, <2>2 DEF DirectInv, DirectTypeOK, Job
<1>3. \A h \in Handler : Sane(job'[h], verdict', docs')
  BY <1>1, FreeIs
<1>4. Room'
  <2> SUFFICES ASSUME NEW r \in Rnc PROVE sequences'[r] + Cardinality(Left(r)') <= LastNumber
    BY DEF Room
  <2>1. Left(r)' = {}
    BY <1>1, FreeIs DEF Left, Busy
  <2> QED BY <1>1, <2>1, FS_EmptySet, DirectAssumption
<1> QED BY <1>1, <1>2, <1>3, <1>4 DEF DirectInv

LEMMA DirectInitKeeps == DirectInit => DirectInv
<1> SUFFICES ASSUME DirectInit PROVE DirectInv
  OBVIOUS
<1>1. /\ verdict \in [Environment -> [Rnc -> [Number -> Verdicts]]] /\ calls = 0
      /\ sequences = [r \in Rnc |-> 0] /\ job = [h \in Handler |-> Free]
  BY DEF DirectInit, Verdicts
<1>2. docs \in Seq(Doc) /\ Honest(verdict, docs)
  <2>1. CASE docs = <<>>
    BY <2>1 DEF Honest
  <2>2. CASE \E r \in Rnc, n \in Chosen, e \in Environment :
               docs = <<[rnc |-> r, encf |-> n, state |-> "Uncertain", amb |-> e]>>
    <3>1. PICK r \in Rnc, n \in Chosen, e \in Environment :
            docs = <<[rnc |-> r, encf |-> n, state |-> "Uncertain", amb |-> e]>>
      BY <2>2
    <3> DEFINE row == [rnc |-> r, encf |-> n, state |-> "Uncertain", amb |-> e]
    <3>2. row \in Doc /\ ~SaysAccepted(row.state)
      BY DirectAssumption DEF Doc, Estados, Number, SaysAccepted
    <3> HIDE DEF row
    <3>3. docs = <<row>>
      BY <3>1 DEF row
    <3> QED BY <3>2, <3>3 DEF Honest
  <2> QED BY <2>1, <2>2 DEF DirectInit
<1>3. DirectTypeOK
  <2>1. 0 \in 0 .. LastNumber /\ 0 \in 0 .. MaxCalls
    BY DirectAssumption
  <2>2. job \in [Handler -> Job] /\ sequences \in [Rnc -> 0 .. LastNumber]
    BY <1>1, <2>1, FreeIs
  <2> QED BY <1>1, <1>2, <2>1, <2>2 DEF DirectTypeOK, Job, Doc, Verdicts
<1>4. \A h \in Handler : Sane(job[h], verdict, docs)
  BY <1>1, FreeIs
<1>5. Room
  <2> SUFFICES ASSUME NEW r \in Rnc PROVE sequences[r] + Cardinality(Left(r)) <= LastNumber
    BY DEF Room
  <2>1. Left(r) = {}
    BY <1>1, FreeIs DEF Left, Busy
  <2> QED BY <1>1, <2>1, FS_EmptySet, DirectAssumption
<1> QED BY <1>2, <1>3, <1>4, <1>5 DEF DirectInv

LEMMA DirectNextKeeps == DirectInv /\ [DirectNext]_directVars => DirectInv'
<1> SUFFICES ASSUME DirectInv, [DirectNext]_directVars PROVE DirectInv'
  OBVIOUS
<1>1. CASE \E h \in Handler, r \in Rnc, n \in Chosen :
             Start(h, r, n, "rfce") \/ Start(h, r, n, "ecf")
  BY <1>1, StartKeeps
<1>2. CASE \E h \in Handler, r \in Rnc, n \in Chosen : Ask(h, r, n)
  BY <1>2, AskKeeps
<1>3. CASE \E h \in Handler : SendRfce(h) \/ SendEcf(h)
  BY <1>3, SendRfceKeeps, SendEcfKeeps
<1>4. CASE \E h \in Handler : Fail(h) \/ AddDoc(h)
  BY <1>4, FailKeeps, AddDocKeeps
<1>5. CASE \E h \in Handler : Told(h) \/ UpdateDoc(h)
  BY <1>5, ToldKeeps, UpdateDocKeeps
<1>6. CASE \E e \in Environment, r \in Rnc, n \in Number : Decide(e, r, n)
  BY <1>6, DecideKeeps
<1>7. CASE \E i \in DOMAIN docs : SettleInvoice(i) \/ \E n \in Number : ReissueInvoice(i, n)
  BY <1>7, SettleKeeps, ReissueKeeps
<1>8. CASE DirectRestart
  BY <1>8, RestartKeeps
<1>9. CASE UNCHANGED directVars
  BY <1>9, NowDirect, OthersKeep DEF directVars
<1> QED BY <1>1, <1>2, <1>3, <1>4, <1>5, <1>6, <1>7, <1>8, <1>9 DEF DirectNext, DirectStep

LEMMA DirectInvHolds == DirectSpec => []DirectInv
BY DirectInitKeeps, DirectNextKeeps, PTL DEF DirectSpec
-----------------------------------------------------------------------------
\* Calls, rows and counters keep to their types: in particular the
\* MemorySequenceProvider never runs past the numbers there are, as long as a
\* call starts with numbers left for its retries (EcfClient::sendRfce).
THEOREM DirectTyping == DirectSpec => []DirectTypeOK
<1>1. DirectInv => DirectTypeOK
  BY DEF DirectInv
<1> QED BY <1>1, DirectInvHolds, PTL

\* An RFCE goes out under another number only when DGII left the last one unused,
\* so that no more than one number is spent on it (EcfClient::sendRfce).
THEOREM RfceCostsOneNumber == DirectSpec => []OneNumberPerRfce
<1>1. DirectInv => OneNumberPerRfce
  BY DEF DirectInv, OneNumberPerRfce, Sane
<1> QED BY <1>1, DirectInvHolds, PTL

\* A row says accepted only of a number that DGII accepted of its issuer - in the
\* environment the service is configured for, which a status query asks whatever
\* row it finds, or in the row's own - though the row may have been read before it
\* went on under another number (SendRfceCommandHandler,
\* GetEcfStatusQueryHandler).
THEOREM AcceptanceIsTheRowsOwn == DirectSpec => []AcceptedOnlyByDgii
<1>1. DirectInv => AcceptedOnlyByDgii
  BY DEF DirectInv, Honest, Where, AcceptedIn, AcceptedOnlyByDgii
<1> QED BY <1>1, DirectInvHolds, PTL
=============================================================================
