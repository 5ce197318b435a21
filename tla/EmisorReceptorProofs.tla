------------------------ MODULE EmisorReceptorProofs ------------------------
(***************************************************************************)
(* EmisorReceptor for any number of threads, seeds, tokens and             *)
(* certificates, and any lifetimes.                                        *)
(*                                                                         *)
(* Neither property is inductive.  A seed buys one token because it is in  *)
(* one place at a time: held, in the hands of one call, or spent           *)
(* (SeedInOnePlace).  A withdrawn certificate is forgotten in time because *)
(* a call that has read it, and not yet cached it, is as old as the cached *)
(* entry will be (ReadInTime).                                             *)
(***************************************************************************)
EXTENDS EmisorReceptor, TLAPS

\* A call that is about to cache something has a certificate.
HasCert == \A t \in Thread : At(t, "cache") => call[t].cert \in Cacheable

Typed == PeerTypeOK /\ HasCert

CallRecord ==
  [at : {"idle", "seed", "row", "file", "open", "cache", "sign"}, who : Caller \cup {Absent},
   seed : Seed \cup {Absent}, cert : Cert \cup {Absent}, age : Age(CacheLife)]

\* What every action relies on.
LEMMA Constants ==
  /\ 0 \in Age(SeedLife + 1) /\ 0 \in Age(TokenLife + 1) /\ 0 \in Age(CacheLife)
  /\ CacheLife \in Age(CacheLife)
  /\ Absent \notin Age(SeedLife + 1) /\ Absent \notin Age(TokenLife + 1)
  /\ Cacheable \subseteq Cert /\ {"host", "fallback"} \subseteq Cert
  /\ Row \subseteq Cacheable /\ File \subseteq Cacheable /\ "fallback" \in Cacheable
  /\ Absent \notin Cert
BY ReceptionAssumption DEF Age, Cert, Own, Cacheable

LEMMA OlderType ==
  ASSUME NEW limit \in Nat, NEW a \in Age(limit)
  PROVE  /\ Older(a, limit) \in Age(limit)
         /\ Older(a, limit) >= a
         /\ Older(a, limit) # Absent
BY ReceptionAssumption DEF Older, Age

LEMMA OlderAbsent == ASSUME NEW limit PROVE Older(Absent, limit) = Absent
BY DEF Older

LEMMA PrunedType ==
  ASSUME NEW N, NEW limit \in Nat, NEW V, NEW held \in [N -> V \cup {Absent}], NEW cut
  PROVE  /\ Pruned(held, cut) \in [N -> V \cup {Absent}]
         /\ \A n \in N : Pruned(held, cut)[n] # Absent => held[n] # Absent
BY DEF Pruned

\* A call goes on to a record of the right kind.
LEMMA CallTyped ==
  ASSUME Typed, NEW t \in Thread, NEW r \in CallRecord, r.at = "cache" => r.cert \in Cacheable,
         Calls(t, r)
  PROVE  call' \in [Thread -> CallRecord] /\ HasCert'
<1>1. call \in [Thread -> CallRecord]
  BY DEF Typed, PeerTypeOK, CallRecord
<1>2. call' = [call EXCEPT ![t] = r]
  BY DEF Calls
<1> HIDE DEF CallRecord
<1>3. call' \in [Thread -> CallRecord]
  BY <1>1, <1>2
<1>4. \A u \in Thread : call'[u] = (IF u = t THEN r ELSE call[u])
  BY <1>1, <1>2
<1>5. HasCert'
  BY <1>4 DEF Typed, HasCert, At
<1> QED BY <1>3, <1>5

LEMMA ReadyTyped ==
  ASSUME NEW who \in Caller \cup {Absent}, NEW c \in Cert \cup {Absent}
  PROVE  Ready(who, c) \in CallRecord /\ Ready(who, c).at = "sign"
         /\ Ready(who, c).seed = Absent
BY Constants DEF Ready, Idle, CallRecord

LEMMA IdleTyped == Idle \in CallRecord /\ Idle.at = "idle"
BY Constants DEF Idle, CallRecord

\* Every variable keeps its type.
LEMMA TypedHolds == PeerSpec => []Typed
<1>1. PeerInit => Typed
  BY Constants DEF PeerInit, Typed, PeerTypeOK, HasCert, Idle, At
<1>2. Typed /\ [PeerNext]_peerVars => Typed'
  <2> SUFFICES ASSUME Typed, [PeerNext]_peerVars PROVE Typed'
    OBVIOUS
  <2> USE Constants DEF Typed, PeerTypeOK
  <2>1. ASSUME NEW s \in Seed, GetSemilla(s) PROVE Typed'
    <3>1. Pruned(seeds, SeedLife) \in [Seed -> Age(SeedLife + 1) \cup {Absent}]
      BY PrunedType, ReceptionAssumption
    <3> QED BY <2>1, <3>1 DEF GetSemilla, HasCert, At, certVars
  <2>2. ASSUME NEW s \in Seed, ForgetSeed(s) PROVE Typed'
    BY <2>2 DEF ForgetSeed, HasCert, At, certVars
  <2>3. ASSUME NEW t \in Thread, NEW s \in Seed, ValidarSemilla(t, s) PROVE Typed'
    <3>1. Pruned(seeds, SeedLife) \in [Seed -> Age(SeedLife + 1) \cup {Absent}]
      BY PrunedType, ReceptionAssumption
    <3>2. seeds' \in [Seed -> Age(SeedLife + 1) \cup {Absent}]
      BY <2>3, <3>1 DEF ValidarSemilla, Consumed
    <3> DEFINE r == [Idle EXCEPT !.at = "seed", !.seed = s]
    <3>3. r \in CallRecord /\ r.at = "seed"
      BY DEF Idle, CallRecord
    <3>4. UNCHANGED call \/ Calls(t, r)
      BY <2>3 DEF ValidarSemilla
    <3> HIDE DEF r
    <3>5. call' \in [Thread -> CallRecord] /\ HasCert'
      BY <3>3, <3>4, CallTyped DEF HasCert, At, CallRecord
    <3> QED BY <2>3, <3>2, <3>5 DEF ValidarSemilla, CallRecord, certVars
  <2>4. ASSUME NEW t \in Thread, RefuseCertificate(t) \/ Answer(t) PROVE Typed'
    <3>1. Calls(t, Idle)
      BY <2>4 DEF RefuseCertificate, Answer
    <3>2. call' \in [Thread -> CallRecord] /\ HasCert'
      BY <3>1, CallTyped, IdleTyped
    <3> QED BY <2>4, <3>2 DEF RefuseCertificate, Answer, CallRecord, doorVars, certVars
  <2>5. ASSUME NEW t \in Thread, NEW k \in Token, IssueToken(t, k) PROVE Typed'
    <3>1. Pruned(tokens, TokenLife) \in [Token -> Age(TokenLife + 1) \cup {Absent}]
      BY PrunedType, ReceptionAssumption
    <3>2. bought' \in [Seed -> Nat]
      <4>1. bought' = [bought EXCEPT ![call[t].seed] = @ + 1]
        BY <2>5 DEF IssueToken
      <4>2. \A n \in Nat : n + 1 \in Nat
        OBVIOUS
      <4> QED BY <4>1, <4>2
    <3>3. call' \in [Thread -> CallRecord] /\ HasCert'
      BY <2>5, CallTyped, IdleTyped DEF IssueToken
    <3> QED BY <2>5, <3>1, <3>2, <3>3 DEF IssueToken, CallRecord, certVars
  <2>6. ASSUME NEW k \in Token, RefuseToken(k) PROVE Typed'
    BY <2>6 DEF RefuseToken, HasCert, At, certVars
  <2>7. ASSUME NEW t \in Thread, NEW who \in Caller, Resolve(t, who),
               UNCHANGED <<doorVars, certVars, cache>>
        PROVE  Typed'
    <3> DEFINE r == IF Usable(cache[who]) THEN Ready(who, cache[who].cert)
                                          ELSE [Idle EXCEPT !.at = "row", !.who = who]
    <3>1. Usable(cache[who]) => cache[who].cert \in Cert
      BY DEF Usable
    <3>2. Usable(cache[who]) => r \in CallRecord /\ r.at = "sign"
      BY <3>1, ReadyTyped
    <3>3. ~Usable(cache[who]) => r \in CallRecord /\ r.at = "row"
      BY DEF Idle, CallRecord
    <3>4. Calls(t, r)
      BY <2>7 DEF Resolve
    <3> HIDE DEF r
    <3>5. call' \in [Thread -> CallRecord] /\ HasCert'
      BY <3>2, <3>3, <3>4, CallTyped
    <3> QED BY <2>7, <3>5 DEF CallRecord, doorVars, certVars
  <2>8. ASSUME NEW t \in Thread, (\E k \in Token : Receive(t, k)) \/ Submit(t) PROVE Typed'
    <3>1. PICK who \in Caller : Resolve(t, who)
      BY <2>8 DEF Receive, Submit, Caller
    <3>2. UNCHANGED <<doorVars, certVars, cache>>
      BY <2>8 DEF Receive, Submit
    <3> QED BY <2>7, <3>1, <3>2
  <2>9. ASSUME NEW t \in Thread, ReadRow(t) PROVE Typed'
    <3> DEFINE r == IF row # Absent THEN [call[t] EXCEPT !.at = "cache", !.cert = row] ELSE Idle
               f == [call[t] EXCEPT !.at = "file"]
    <3>1. r \in CallRecord /\ (r.at = "cache" => r.cert \in Cacheable)
      BY IdleTyped DEF CallRecord
    <3>2. f \in CallRecord /\ f.at = "file"
      BY DEF CallRecord
    <3>3. Calls(t, r) \/ Calls(t, f)
      BY <2>9 DEF ReadRow
    <3> HIDE DEF r, f
    <3>4. call' \in [Thread -> CallRecord] /\ HasCert'
      BY <3>1, <3>2, <3>3, CallTyped
    <3> QED BY <2>9, <3>4 DEF ReadRow, CallRecord, doorVars, certVars
  <2>w. ASSUME NEW t \in Thread PROVE Without(call[t].who) \in CallRecord
                                      /\ Without(call[t].who).at = "sign"
    BY ReadyTyped DEF Without
  <2>10. ASSUME NEW t \in Thread, FindFile(t) PROVE Typed'
    <3> DEFINE o == [call[t] EXCEPT !.at = "open"]
    <3>1. o \in CallRecord /\ o.at = "open"
      BY DEF CallRecord
    <3>2. Calls(t, o) \/ Calls(t, Without(call[t].who))
      BY <2>10 DEF FindFile
    <3> HIDE DEF o
    <3>3. call' \in [Thread -> CallRecord] /\ HasCert'
      BY <2>w, <3>1, <3>2, CallTyped
    <3> QED BY <2>10, <3>3 DEF FindFile, CallRecord, doorVars, certVars
  <2>11. ASSUME NEW t \in Thread, OpenFile(t) PROVE Typed'
    <3> DEFINE c == IF file = Absent THEN "fallback" ELSE file
               r == [call[t] EXCEPT !.at = "cache", !.cert = c]
    <3>1. c \in Cacheable /\ c \in Cert
      OBVIOUS
    <3>2. r \in CallRecord /\ r.cert \in Cacheable
      BY ZenonT(30), <3>1 DEF CallRecord
    <3>3. Ready(call[t].who, c) \in CallRecord /\ Ready(call[t].who, c).at = "sign"
      BY <3>1, ReadyTyped
    <3>4. Calls(t, r) \/ Calls(t, Ready(call[t].who, c)) \/ Calls(t, Without(call[t].who))
      BY <2>11 DEF OpenFile
    <3> HIDE DEF c, r
    <3>5. call' \in [Thread -> CallRecord] /\ HasCert'
      BY <2>w, <3>2, <3>3, <3>4, CallTyped
    <3> QED BY <2>11, <3>5 DEF OpenFile, CallRecord, doorVars, certVars
  <2>12. ASSUME NEW t \in Thread, CacheSigner(t) PROVE Typed'
    <3>1. Entry(call[t]) \in [cert : Cacheable, age : Age(CacheLife)]
      BY <2>12 DEF CacheSigner, Entry, HasCert, At
    <3>2. cache' \in [Caller -> [cert : Cacheable, age : Age(CacheLife)] \cup {Absent}]
      BY <2>12, <3>1 DEF CacheSigner
    <3>3. Ready(call[t].who, call[t].cert) \in CallRecord
          /\ Ready(call[t].who, call[t].cert).at = "sign"
      BY ReadyTyped
    <3>4. call' \in [Thread -> CallRecord] /\ HasCert'
      BY <2>12, <3>3, CallTyped DEF CacheSigner
    <3> QED BY <2>12, <3>2, <3>4 DEF CacheSigner, CallRecord, doorVars, certVars
  <2>13. ASSUME NEW c \in Row \cup {Absent}, ChangeRow(c) PROVE Typed'
    BY <2>13 DEF ChangeRow, Ages, HasCert, At, doorVars
  <2>14. ASSUME NEW c \in File \cup {Absent}, ChangeFile(c) PROVE Typed'
    BY <2>14 DEF ChangeFile, Ages, HasCert, At, doorVars
  <2>15. ASSUME PeerTick PROVE Typed'
    <3>1. \A limit \in Nat : \A a \in Age(limit) \cup {Absent} :
            Older(a, limit) \in Age(limit) \cup {Absent}
      BY OlderType, OlderAbsent
    <3>2. {SeedLife + 1, TokenLife + 1, CacheLife} \subseteq Nat
      BY ReceptionAssumption
    <3>3. /\ seeds' \in [Seed -> Age(SeedLife + 1) \cup {Absent}]
          /\ given' \in [Seed -> Age(SeedLife + 1) \cup {Absent}]
          /\ tokens' \in [Token -> Age(TokenLife + 1) \cup {Absent}]
      BY <2>15, <3>1, <3>2 DEF PeerTick
    <3>4. \A a \in Age(CacheLife) : Older(a, CacheLife) \in Age(CacheLife)
      BY OlderType, <3>2
    <3>5. /\ withdrawn' \in [Cacheable -> Age(CacheLife)]
          /\ cache' \in [Caller -> [cert : Cacheable, age : Age(CacheLife)] \cup {Absent}]
      BY <2>15, <3>4 DEF PeerTick
    <3>6. \A t \in Thread :
            \/ call'[t] = [call[t] EXCEPT !.age = Older(@, CacheLife)]
            \/ call'[t] = call[t]
      BY <2>15 DEF PeerTick
    <3>7. call' \in [Thread -> CallRecord]
      <4>1. ASSUME NEW t \in Thread PROVE call'[t] \in CallRecord
        <5>1. call[t] \in CallRecord /\ Older(call[t].age, CacheLife) \in Age(CacheLife)
          BY <3>4 DEF CallRecord
        <5>2. CASE call'[t] = [call[t] EXCEPT !.age = Older(@, CacheLife)]
          BY <5>1, <5>2 DEF CallRecord
        <5> QED BY <3>6, <5>1, <5>2
      <4>2. call' = [t \in Thread |-> call'[t]]
        BY <2>15 DEF PeerTick
      <4> QED BY <4>1, <4>2
    <3>8. \A t \in Thread : call'[t].at = call[t].at /\ call'[t].cert = call[t].cert
      BY <3>6
    <3>9. HasCert'
      BY <3>8 DEF HasCert, At
    <3> QED BY <2>15, <3>3, <3>5, <3>7, <3>9 DEF PeerTick, CallRecord
  <2>16. ASSUME PeerRestart PROVE Typed'
    BY <2>16 DEF PeerRestart, HasCert, At, Idle, certVars
  <2>17. CASE UNCHANGED peerVars
    BY <2>17 DEF peerVars, HasCert, At
  <2> QED BY <2>1, <2>2, <2>3, <2>4, <2>5, <2>6, <2>8, <2>9, <2>10, <2>11, <2>12, <2>13, <2>14,
             <2>15, <2>16, <2>17 DEF PeerNext, DoorNext, SignerNext
<1> QED BY <1>1, <1>2, PTL DEF PeerSpec

\* The variables of the receiver keep their types, whatever is called when.
THEOREM PeerTyping == PeerSpec => []PeerTypeOK
<1>1. Typed => PeerTypeOK
  BY DEF Typed
<1> QED BY <1>1, TypedHolds, PTL
-----------------------------------------------------------------------------
(* Seeds.                                                                  *)

\* A seed is held, or in the hands of one call, or spent; a name that has not
\* been given out is none of these.
SeedInOnePlace ==
  /\ \A t \in Thread :
       IF At(t, "seed") THEN /\ call[t].seed \in Seed
                             /\ seeds[call[t].seed] = Absent /\ bought[call[t].seed] = 0
       ELSE call[t].seed = Absent
  /\ \A t, u \in Thread : call[t].seed = call[u].seed /\ call[t].seed # Absent => t = u
  /\ \A s \in Seed :
       /\ bought[s] <= 1
       /\ seeds[s] # Absent => bought[s] = 0
       /\ given[s] = Absent => /\ seeds[s] = Absent /\ bought[s] = 0
                               /\ \A t \in Thread : call[t].seed # s

\* A call that has nothing to do with seeds.
LEMMA SeedsApart ==
  ASSUME Typed, SeedInOnePlace, UNCHANGED doorVars,
         NEW t \in Thread, NEW r, ~At(t, "seed"), r.at # "seed", r.seed = Absent, Calls(t, r)
  PROVE  SeedInOnePlace'
<1>1. \A u \in Thread : call'[u] = (IF u = t THEN r ELSE call[u])
  BY DEF Typed, PeerTypeOK, Calls
<1>2. \A u \in Thread : At(u, "seed")' = At(u, "seed") /\ call'[u].seed = call[u].seed
  BY <1>1 DEF At, SeedInOnePlace
<1> QED BY <1>2 DEF SeedInOnePlace, doorVars

\* A call puts its seed out of its hands.
LEMMA SeedLetGo ==
  ASSUME Typed, SeedInOnePlace, UNCHANGED <<seeds, given, bought>>,
         NEW t \in Thread, Calls(t, Idle)
  PROVE  SeedInOnePlace'
<1>1. \A u \in Thread : call'[u] = (IF u = t THEN Idle ELSE call[u])
  BY DEF Typed, PeerTypeOK, Calls
<1>2. \A u \in Thread : \/ call'[u].seed = Absent /\ call'[u].at # "seed"
                        \/ call'[u] = call[u]
  BY <1>1 DEF Idle
<1> QED BY <1>2, ReceptionAssumption DEF SeedInOnePlace, At

LEMMA SeedsHold == PeerSpec => []SeedInOnePlace
<1>1. PeerInit => SeedInOnePlace
  BY ReceptionAssumption DEF PeerInit, SeedInOnePlace, Idle, At
<1>2. Typed /\ Typed' /\ SeedInOnePlace /\ [PeerNext]_peerVars => SeedInOnePlace'
  <2> SUFFICES ASSUME Typed, Typed', SeedInOnePlace, [PeerNext]_peerVars PROVE SeedInOnePlace'
    OBVIOUS
  <2>t. /\ seeds \in [Seed -> Age(SeedLife + 1) \cup {Absent}]
        /\ given \in [Seed -> Age(SeedLife + 1) \cup {Absent}]
        /\ bought \in [Seed -> Nat]
        /\ call \in [Thread -> CallRecord]
    BY DEF Typed, PeerTypeOK, CallRecord
  <2>p. /\ Pruned(seeds, SeedLife) \in [Seed -> Age(SeedLife + 1) \cup {Absent}]
        /\ \A s \in Seed : Pruned(seeds, SeedLife)[s] # Absent => seeds[s] # Absent
    <3>1. SeedLife + 1 \in Nat
      BY ReceptionAssumption
    <3> QED BY <2>t, <3>1, PrunedType
  <2>1. ASSUME NEW s \in Seed, GetSemilla(s) PROVE SeedInOnePlace'
    <3>1. /\ given[s] = Absent /\ UNCHANGED <<bought, call>>
          /\ seeds' = [Pruned(seeds, SeedLife) EXCEPT ![s] = 0]
          /\ given' = [given EXCEPT ![s] = 0]
      BY <2>1 DEF GetSemilla
    <3>2. bought[s] = 0 /\ \A t \in Thread : call[t].seed # s
      BY <3>1 DEF SeedInOnePlace
    <3>3. given'[s] # Absent
      BY <3>1, <2>t, ReceptionAssumption
    <3>4. \A x \in Seed \ {s} : given'[x] = given[x] /\ (seeds'[x] # Absent => seeds[x] # Absent)
      BY <3>1, <2>t, <2>p
    <3> QED BY <3>1, <3>2, <3>3, <3>4 DEF SeedInOnePlace, At
  <2>2. ASSUME NEW s \in Seed, ForgetSeed(s) PROVE SeedInOnePlace'
    <3>1. /\ seeds[s] = Absent /\ UNCHANGED <<seeds, call>>
          /\ \A t \in Thread : call[t].seed # s
          /\ given' = [given EXCEPT ![s] = Absent]
          /\ bought' = [bought EXCEPT ![s] = 0]
      BY <2>2 DEF ForgetSeed
    <3>2. bought'[s] = 0 /\ \A x \in Seed \ {s} : given'[x] = given[x] /\ bought'[x] = bought[x]
      BY <3>1, <2>t
    <3> QED BY <3>1, <3>2 DEF SeedInOnePlace, At
  <2>3. ASSUME NEW t \in Thread, NEW s \in Seed, ValidarSemilla(t, s) PROVE SeedInOnePlace'
    <3>1. /\ At(t, "idle") /\ UNCHANGED <<given, bought>>
          /\ seeds' = [Pruned(seeds, SeedLife) EXCEPT ![s] = Absent]
      BY <2>3 DEF ValidarSemilla, Consumed
    <3>2. seeds'[s] = Absent /\ \A x \in Seed : seeds'[x] # Absent => seeds[x] # Absent
      BY <3>1, <2>p
    <3>3. CASE UNCHANGED call
      BY <3>1, <3>2, <3>3 DEF SeedInOnePlace, At
    <3>4. CASE ~UNCHANGED call
      <4>1. /\ seeds[s] # Absent
            /\ call' = [call EXCEPT ![t] = [Idle EXCEPT !.at = "seed", !.seed = s]]
        BY <2>3, <2>p, <3>4 DEF ValidarSemilla, Calls
      <4>2. /\ call'[t].at = "seed" /\ call'[t].seed = s
            /\ \A u \in Thread \ {t} : call'[u] = call[u]
        BY <4>1, <2>t DEF Idle
      <4>3. bought[s] = 0 /\ given[s] # Absent
        BY <4>1 DEF SeedInOnePlace
      <4>4. \A u \in Thread : call[u].seed # s
        BY <4>1, ReceptionAssumption DEF SeedInOnePlace
      <4>5. \A u \in Thread \ {t} : At(u, "seed")' = At(u, "seed")
        BY <4>2 DEF At
      <4> QED BY <3>1, <3>2, <4>2, <4>3, <4>4, <4>5 DEF SeedInOnePlace, At
    <3> QED BY <3>3, <3>4
  <2>4. ASSUME NEW t \in Thread, RefuseCertificate(t) PROVE SeedInOnePlace'
    BY <2>4, SeedLetGo DEF RefuseCertificate, doorVars
  <2>5. ASSUME NEW t \in Thread, NEW k \in Token, IssueToken(t, k) PROVE SeedInOnePlace'
    <3> DEFINE s == call[t].seed
    <3>1. /\ At(t, "seed") /\ UNCHANGED <<seeds, given>>
          /\ bought' = [bought EXCEPT ![s] = @ + 1]
          /\ call' = [call EXCEPT ![t] = Idle]
      BY <2>5 DEF IssueToken, Calls
    <3>2. s \in Seed /\ seeds[s] = Absent /\ bought[s] = 0 /\ given[s] # Absent
      BY <3>1 DEF SeedInOnePlace
    <3>3. bought'[s] = 1 /\ \A x \in Seed \ {s} : bought'[x] = bought[x]
      BY <3>1, <3>2, <2>t
    <3>4. /\ call'[t].seed = Absent /\ ~At(t, "seed")'
          /\ \A u \in Thread \ {t} : call'[u] = call[u]
      BY <3>1, <2>t DEF Idle, At
    <3>5. \A u \in Thread \ {t} : call[u].seed # s
      BY <3>2, ReceptionAssumption DEF SeedInOnePlace
    <3> HIDE DEF s
    <3>6. \A u \in Thread :
            IF At(u, "seed")' THEN /\ call'[u].seed \in Seed
                                   /\ seeds'[call'[u].seed] = Absent /\ bought'[call'[u].seed] = 0
            ELSE call'[u].seed = Absent
      BY <3>1, <3>3, <3>4, <3>5 DEF SeedInOnePlace, At
    <3>7. \A u, v \in Thread : call'[u].seed = call'[v].seed /\ call'[u].seed # Absent => u = v
      BY <3>4 DEF SeedInOnePlace
    <3>8. \A x \in Seed :
            /\ bought'[x] <= 1
            /\ seeds'[x] # Absent => bought'[x] = 0
            /\ given'[x] = Absent => /\ seeds'[x] = Absent /\ bought'[x] = 0
                                     /\ \A u \in Thread : call'[u].seed # x
      BY <3>1, <3>2, <3>3, <3>4, ReceptionAssumption DEF SeedInOnePlace
    <3> QED BY <3>6, <3>7, <3>8 DEF SeedInOnePlace
  <2>6. ASSUME NEW k \in Token, RefuseToken(k) PROVE SeedInOnePlace'
    BY <2>6 DEF RefuseToken, SeedInOnePlace, At
  <2>7. ASSUME NEW t \in Thread, NEW who \in Caller, At(t, "idle"), Resolve(t, who),
               UNCHANGED doorVars
        PROVE  SeedInOnePlace'
    <3> DEFINE r == IF Usable(cache[who]) THEN Ready(who, cache[who].cert)
                                          ELSE [Idle EXCEPT !.at = "row", !.who = who]
    <3>1. r.at # "seed" /\ r.seed = Absent
      BY DEF Ready, Idle
    <3>2. Calls(t, r) /\ ~At(t, "seed")
      BY <2>7 DEF Resolve, At
    <3> HIDE DEF r
    <3> QED BY <2>7, <3>1, <3>2, SeedsApart
  <2>8. ASSUME NEW t \in Thread, (\E k \in Token : Receive(t, k)) \/ Submit(t)
        PROVE  SeedInOnePlace'
    BY <2>7, <2>8 DEF Receive, Submit, Caller
  <2>9. ASSUME NEW t \in Thread, ReadRow(t) \/ FindFile(t) \/ OpenFile(t) \/ CacheSigner(t)
                                 \/ Answer(t)
        PROVE  SeedInOnePlace'
    <3>1. ~At(t, "seed") /\ UNCHANGED doorVars
      BY <2>9 DEF ReadRow, FindFile, OpenFile, CacheSigner, Answer, At
    <3>2. call[t] \in CallRecord /\ call[t].seed = Absent
      BY <2>t, <3>1 DEF SeedInOnePlace
    <3>3. ASSUME NEW who, NEW c PROVE Ready(who, c).at # "seed" /\ Ready(who, c).seed = Absent
      BY DEF Ready, Idle
    <3>4. ASSUME NEW a \in {"file", "open", "cache"}, NEW c
          PROVE  /\ [call[t] EXCEPT !.at = a].at # "seed"
                 /\ [call[t] EXCEPT !.at = a].seed = Absent
                 /\ [call[t] EXCEPT !.at = a, !.cert = c].at # "seed"
                 /\ [call[t] EXCEPT !.at = a, !.cert = c].seed = Absent
      BY <3>2 DEF CallRecord
    <3>5. PICK r : Calls(t, r) /\ r.at # "seed" /\ r.seed = Absent
      <4>1. CASE ReadRow(t)
        BY <4>1, <3>4 DEF ReadRow
      <4>2. CASE FindFile(t)
        BY ZenonT(30), <4>2, <3>3, <3>4 DEF FindFile, Without
      <4>3. CASE OpenFile(t)
        <5>1. \E c : \/ Calls(t, [call[t] EXCEPT !.at = "cache", !.cert = c])
                     \/ Calls(t, Ready(call[t].who, c))
          BY <4>3 DEF OpenFile, Without
        <5> QED BY <5>1, <3>3, <3>4
      <4>4. CASE CacheSigner(t)
        BY <4>4, <3>3 DEF CacheSigner
      <4>5. CASE Answer(t)
        BY <4>5 DEF Answer, Idle
      <4> QED BY <2>9, <4>1, <4>2, <4>3, <4>4, <4>5
    <3> QED BY <3>1, <3>5, SeedsApart
  <2>10. ASSUME NEW c, ChangeRow(c) \/ ChangeFile(c) PROVE SeedInOnePlace'
    BY <2>10 DEF ChangeRow, ChangeFile, SeedInOnePlace, At, doorVars
  <2>11. ASSUME PeerTick PROVE SeedInOnePlace'
    <3>1. SeedLife + 1 \in Nat
      BY ReceptionAssumption
    <3>2. \A a \in Age(SeedLife + 1) \cup {Absent} : Older(a, SeedLife + 1) = Absent <=> a = Absent
      BY <3>1, OlderType, OlderAbsent
    <3>3. \A s \in Seed : /\ seeds'[s] = Absent <=> seeds[s] = Absent
                          /\ given'[s] = Absent <=> given[s] = Absent
      BY <2>11, <2>t, <3>2 DEF PeerTick
    <3>4. \A t \in Thread : \/ call'[t] = [call[t] EXCEPT !.age = Older(@, CacheLife)]
                            \/ call'[t] = call[t]
      BY <2>11 DEF PeerTick
    <3>5. \A t \in Thread : call'[t].seed = call[t].seed /\ At(t, "seed")' = At(t, "seed")
      BY <3>4, <2>t DEF CallRecord, At
    <3>6. bought' = bought
      BY <2>11 DEF PeerTick
    <3> QED BY <3>3, <3>5, <3>6 DEF SeedInOnePlace
  <2>12. ASSUME PeerRestart PROVE SeedInOnePlace'
    <3>1. \A t \in Thread : call'[t].seed = Absent /\ ~At(t, "seed")'
      BY <2>12 DEF PeerRestart, Idle, At
    <3>2. \A s \in Seed : seeds'[s] = Absent
      BY <2>12 DEF PeerRestart
    <3>3. UNCHANGED <<given, bought>>
      BY <2>12 DEF PeerRestart
    <3> QED BY <3>1, <3>2, <3>3, ReceptionAssumption DEF SeedInOnePlace
  <2>13. CASE UNCHANGED peerVars
    BY <2>13 DEF peerVars, SeedInOnePlace, At
  <2> QED BY <2>1, <2>2, <2>3, <2>4, <2>5, <2>6, <2>8, <2>9, <2>10, <2>11, <2>12, <2>13
          DEF PeerNext, DoorNext, SignerNext
<1> QED BY <1>1, <1>2, TypedHolds, PTL DEF PeerSpec

\* A seed buys one token at most, for any number of calls that present it and
\* through restarts (EmisorReceptorController::validarSemilla).
THEOREM SeedBuysOneToken == PeerSpec => []OneTokenPerSeed
<1>1. SeedInOnePlace => OneTokenPerSeed
  BY DEF SeedInOnePlace, OneTokenPerSeed
<1> QED BY <1>1, SeedsHold, PTL
-----------------------------------------------------------------------------
(* Certificates.                                                           *)

\* What is there to be found is not withdrawn; what a call is about to cache, or
\* what is cached, has not been withdrawn for longer than since the clock was read.
ReadInTime ==
  /\ \A c \in Cacheable : c \in Present(row, file) => withdrawn[c] = 0
  /\ \A t \in Thread : At(t, "cache") => withdrawn[call[t].cert] <= call[t].age
  /\ \A w \in Caller : cache[w] # Absent => withdrawn[cache[w].cert] <= cache[w].age

\* A call goes on, with nothing to cache or with what it read in time.
LEMMA GoesOn ==
  ASSUME Typed, ReadInTime, UNCHANGED <<row, file, withdrawn, cache>>,
         NEW t \in Thread, NEW r, Calls(t, r),
         r.at = "cache" => withdrawn[r.cert] <= r.age
  PROVE  ReadInTime'
<1>1. \A u \in Thread : call'[u] = (IF u = t THEN r ELSE call[u])
  BY DEF Typed, PeerTypeOK, Calls
<1> QED BY <1>1 DEF ReadInTime, At

LEMMA ReadInTimeHolds == PeerSpec => []ReadInTime
<1>1. PeerInit => ReadInTime
  <2>1. ASSUME PeerInit PROVE ReadInTime
    <3>1. \A c \in Cacheable : c \in Present(row, file) => withdrawn[c] = 0
      BY <2>1 DEF PeerInit
    <3>2. (\A t \in Thread : ~At(t, "cache")) /\ \A w \in Caller : cache[w] = Absent
      BY <2>1 DEF PeerInit, Idle, At
    <3> QED BY <3>1, <3>2 DEF ReadInTime
  <2> QED BY <2>1
<1>2. Typed /\ ReadInTime /\ [PeerNext]_peerVars => ReadInTime'
  <2> SUFFICES ASSUME Typed, ReadInTime, [PeerNext]_peerVars PROVE ReadInTime'
    OBVIOUS
  <2>t. /\ call \in [Thread -> CallRecord]
        /\ withdrawn \in [Cacheable -> Age(CacheLife)]
        /\ row \in Row \cup {Absent} /\ file \in File \cup {Absent}
        /\ cache \in [Caller -> [cert : Cacheable, age : Age(CacheLife)] \cup {Absent}]
    BY DEF Typed, PeerTypeOK, CallRecord
  <2>1. ASSUME UNCHANGED <<row, file, withdrawn, cache, call>> PROVE ReadInTime'
    BY <2>1 DEF ReadInTime, At
  <2>2. ASSUME NEW s \in Seed, GetSemilla(s) \/ ForgetSeed(s) PROVE ReadInTime'
    BY <2>1, <2>2 DEF GetSemilla, ForgetSeed, certVars
  <2>3. ASSUME NEW k \in Token, RefuseToken(k) PROVE ReadInTime'
    BY <2>1, <2>3 DEF RefuseToken, certVars
  <2>4. ASSUME NEW t \in Thread, NEW s \in Seed, ValidarSemilla(t, s) PROVE ReadInTime'
    <3>1. [Idle EXCEPT !.at = "seed", !.seed = s].at # "cache"
      BY DEF Idle
    <3>2. UNCHANGED call \/ Calls(t, [Idle EXCEPT !.at = "seed", !.seed = s])
      BY <2>4 DEF ValidarSemilla
    <3>3. UNCHANGED <<row, file, withdrawn, cache>>
      BY <2>4 DEF ValidarSemilla, certVars
    <3> QED BY <2>1, <3>1, <3>2, <3>3, GoesOn
  <2>5. ASSUME NEW t \in Thread,
               RefuseCertificate(t) \/ (\E k \in Token : IssueToken(t, k)) \/ Answer(t)
        PROVE  ReadInTime'
    <3>1. Calls(t, Idle) /\ UNCHANGED <<row, file, withdrawn, cache>>
      BY <2>5 DEF RefuseCertificate, IssueToken, Answer, certVars
    <3>2. Idle.at # "cache"
      BY DEF Idle
    <3> QED BY <3>1, <3>2, GoesOn
  <2>r. ASSUME NEW who, NEW c PROVE Ready(who, c).at # "cache"
    BY DEF Ready, Idle
  <2>6. ASSUME NEW t \in Thread, (\E k \in Token : Receive(t, k)) \/ Submit(t)
        PROVE  ReadInTime'
    <3>1. PICK who : Resolve(t, who)
      BY <2>6 DEF Receive, Submit
    <3>2. UNCHANGED <<row, file, withdrawn, cache>>
      BY <2>6 DEF Receive, Submit, certVars
    <3>3. [Idle EXCEPT !.at = "row", !.who = who].at # "cache"
      BY DEF Idle
    <3>4. \E r : Calls(t, r) /\ r.at # "cache"
      BY <3>1, <3>3, <2>r DEF Resolve
    <3> QED BY <3>2, <3>4, GoesOn
  <2>7. ASSUME NEW t \in Thread, ReadRow(t) PROVE ReadInTime'
    <3>1. UNCHANGED <<row, file, withdrawn, cache>>
      BY <2>7 DEF ReadRow, certVars
    <3>2. CASE row # Absent /\ Calls(t, [call[t] EXCEPT !.at = "cache", !.cert = row])
      <4> DEFINE r == [call[t] EXCEPT !.at = "cache", !.cert = row]
      <4>1. r.cert = row /\ r.age \in Age(CacheLife)
        BY <2>t DEF CallRecord
      <4>2. row \in Cacheable /\ withdrawn[row] = 0
        BY <2>t, <3>2 DEF ReadInTime, Present, Cacheable
      <4>3. withdrawn[r.cert] <= r.age
        BY <4>1, <4>2, ReceptionAssumption DEF Age
      <4> HIDE DEF r
      <4>4. Calls(t, r)
        BY <3>2 DEF r
      <4> QED BY <3>1, <4>3, <4>4, GoesOn
    <3>3. CASE Calls(t, [call[t] EXCEPT !.at = "file"])
      <4>1. [call[t] EXCEPT !.at = "file"].at # "cache"
        BY <2>t DEF CallRecord
      <4> QED BY <3>1, <3>3, <4>1, GoesOn
    <3> QED BY <2>7, <3>2, <3>3 DEF ReadRow
  <2>8. ASSUME NEW t \in Thread, FindFile(t) PROVE ReadInTime'
    <3>1. [call[t] EXCEPT !.at = "open"].at # "cache"
      BY <2>t DEF CallRecord
    <3>2. \E r : Calls(t, r) /\ r.at # "cache"
      BY <2>8, <3>1, <2>r DEF FindFile, Without
    <3>3. UNCHANGED <<row, file, withdrawn, cache>>
      BY <2>8 DEF FindFile, certVars
    <3> QED BY <3>2, <3>3, GoesOn
  <2>9. ASSUME NEW t \in Thread, OpenFile(t) PROVE ReadInTime'
    <3> DEFINE c == IF file = Absent THEN "fallback" ELSE file
    <3>1. c \in Cacheable /\ withdrawn[c] = 0
      BY <2>t DEF ReadInTime, Present, Cacheable
    <3> DEFINE o == [call[t] EXCEPT !.at = "cache", !.cert = c]
    <3>2. o.cert = c /\ o.age \in Age(CacheLife)
      BY <2>t DEF CallRecord
    <3>3. Calls(t, o) \/ \E d : Calls(t, Ready(call[t].who, d))
      BY <2>9 DEF OpenFile, Without
    <3>4. UNCHANGED <<row, file, withdrawn, cache>>
      BY <2>9 DEF OpenFile, certVars
    <3> HIDE DEF c, o
    <3>5. withdrawn[o.cert] <= o.age
      BY <3>1, <3>2, ReceptionAssumption DEF Age
    <3> QED BY <2>r, <3>3, <3>4, <3>5, GoesOn
  <2>10. ASSUME NEW t \in Thread, CacheSigner(t) PROVE ReadInTime'
    <3> DEFINE w == call[t].who
    <3>1. /\ At(t, "cache") /\ UNCHANGED <<row, file, withdrawn>>
          /\ cache' = [cache EXCEPT ![w] = Entry(call[t])]
          /\ Calls(t, Ready(w, call[t].cert))
      BY <2>10 DEF CacheSigner, certVars
    <3>2. \A u \in Thread : call'[u] = (IF u = t THEN Ready(w, call[t].cert) ELSE call[u])
      BY <3>1, <2>t DEF Calls
    <3>3. \A u \in Thread : At(u, "cache")' => call'[u] = call[u] /\ At(u, "cache")
      BY <3>2, <2>r DEF At
    <3>4. \A x \in Caller : cache'[x] = cache[x] \/ (x = w /\ cache'[x] = Entry(call[t]))
      BY <3>1, <2>t
    <3>5. Entry(call[t]).cert = call[t].cert /\ Entry(call[t]).age = call[t].age
      BY DEF Entry
    <3>6. \A x \in Caller :
            cache'[x] # Absent => withdrawn[cache'[x].cert] <= cache'[x].age
      BY <3>1, <3>4, <3>5 DEF ReadInTime
    <3> QED BY <3>1, <3>3, <3>6 DEF ReadInTime
  <2>a. ASSUME withdrawn' = Ages(row', file'), UNCHANGED <<cache, call>> PROVE ReadInTime'
    <3>1. \A d \in Cacheable :
            withdrawn'[d] = IF d \in Present(row', file') THEN 0 ELSE withdrawn[d]
      BY <2>a DEF Ages
    <3>2. \A d \in Cacheable : /\ withdrawn'[d] <= withdrawn[d]
                             /\ withdrawn'[d] \in Nat /\ withdrawn[d] \in Nat
      BY <3>1, <2>t DEF Age
    <3>3. \A t \in Thread : call[t].age \in Nat /\ (At(t, "cache") => call[t].cert \in Cacheable)
      BY <2>t DEF CallRecord, Age, Typed, HasCert
    <3>4. \A w \in Caller : cache[w] # Absent => cache[w].age \in Nat /\ cache[w].cert \in Cacheable
      BY <2>t DEF Age
    <3>5. \A t \in Thread : At(t, "cache")' = At(t, "cache")
      BY <2>a DEF At
    <3>6. ASSUME NEW a \in Nat, NEW b \in Nat, NEW c \in Nat, a <= b, b <= c PROVE a <= c
      BY <3>6
    <3>7. \A t \in Thread : At(t, "cache")' => withdrawn'[call'[t].cert] <= call'[t].age
      BY <2>a, <3>2, <3>3, <3>5, <3>6 DEF ReadInTime
    <3>8. \A w \in Caller : cache'[w] # Absent => withdrawn'[cache'[w].cert] <= cache'[w].age
      BY <2>a, <3>2, <3>4, <3>6 DEF ReadInTime
    <3> QED BY <3>1, <3>7, <3>8 DEF ReadInTime
  <2>11. ASSUME NEW c \in Row \cup {Absent}, ChangeRow(c) PROVE ReadInTime'
    BY <2>a, <2>11 DEF ChangeRow
  <2>12. ASSUME NEW c \in File \cup {Absent}, ChangeFile(c) PROVE ReadInTime'
    BY <2>a, <2>12 DEF ChangeFile
  <2>13. ASSUME PeerTick PROVE ReadInTime'
    <3>1. CacheLife \in Nat
      BY ReceptionAssumption
    <3>2. \A a, b \in Age(CacheLife) : a <= b => Older(a, CacheLife) <= Older(b, CacheLife)
      BY <3>1, ReceptionAssumption DEF Age, Older
    <3>3. \A b \in Age(CacheLife) : 0 <= Older(b, CacheLife)
      BY <3>1, OlderType DEF Age
    <3>4. \A d \in Cacheable :
            withdrawn'[d] = IF d \in Present(row, file) THEN 0 ELSE Older(withdrawn[d], CacheLife)
      BY <2>13 DEF PeerTick
    <3>5. row' = row /\ file' = file
      BY <2>13 DEF PeerTick
    <3>6. \A d \in Cacheable, b \in Age(CacheLife) :
            withdrawn[d] <= b => withdrawn'[d] <= Older(b, CacheLife)
      BY <3>2, <3>3, <3>4, <2>t
    <3>7. ASSUME NEW t \in Thread, At(t, "cache")'
          PROVE  withdrawn'[call'[t].cert] <= call'[t].age
      <4>1. call'[t] = IF call[t].at \in {"row", "file", "open", "cache"}
                       THEN [call[t] EXCEPT !.age = Older(@, CacheLife)] ELSE call[t]
        BY <2>13 DEF PeerTick
      <4>2. call[t] \in CallRecord
        BY <2>t
      <4>3. call'[t].at = call[t].at /\ call'[t].cert = call[t].cert
        BY <4>1, <4>2 DEF CallRecord
      <4>4. call[t].at = "cache"
        BY <3>7, <4>3 DEF At
      <4>5. call'[t].age = Older(call[t].age, CacheLife) /\ call[t].age \in Age(CacheLife)
        BY <4>1, <4>2, <4>4 DEF CallRecord
      <4>6. withdrawn[call[t].cert] <= call[t].age
        BY <3>7, <4>3, <4>4 DEF ReadInTime, At
      <4>7. call[t].cert \in Cacheable
        BY <4>4 DEF Typed, HasCert, At
      <4> QED BY <3>6, <4>3, <4>5, <4>6, <4>7
    <3>8. ASSUME NEW w \in Caller, cache'[w] # Absent
          PROVE  withdrawn'[cache'[w].cert] <= cache'[w].age
      <4>1. cache'[w] = IF cache[w] = Absent THEN Absent
                        ELSE [cache[w] EXCEPT !.age = Older(@, CacheLife)]
        BY <2>13 DEF PeerTick
      <4>2. cache[w] # Absent /\ cache[w] \in [cert : Cacheable, age : Age(CacheLife)]
        BY <3>8, <4>1, <2>t
      <4>3. /\ cache'[w].cert = cache[w].cert /\ cache[w].age \in Age(CacheLife)
            /\ cache'[w].age = Older(cache[w].age, CacheLife)
        BY <4>1, <4>2
      <4>4. withdrawn[cache[w].cert] <= cache[w].age
        BY <3>8, <4>2, <4>3 DEF ReadInTime
      <4> QED BY <3>6, <4>2, <4>3, <4>4
    <3>9. \A d \in Cacheable : d \in Present(row', file') => withdrawn'[d] = 0
      BY <3>4, <3>5
    <3> QED BY <3>7, <3>8, <3>9 DEF ReadInTime
  <2>14. ASSUME PeerRestart PROVE ReadInTime'
    <3>1. (\A t \in Thread : ~At(t, "cache")') /\ \A w \in Caller : cache'[w] = Absent
      BY <2>14 DEF PeerRestart, Idle, At
    <3>2. UNCHANGED <<row, file, withdrawn>>
      BY <2>14 DEF PeerRestart, certVars
    <3> QED BY <3>1, <3>2 DEF ReadInTime
  <2>15. CASE UNCHANGED peerVars
    BY <2>1, <2>15 DEF peerVars
  <2> QED BY <2>2, <2>3, <2>4, <2>5, <2>6, <2>7, <2>8, <2>9, <2>10, <2>11, <2>12, <2>13, <2>14,
             <2>15 DEF PeerNext, DoorNext, SignerNext
<1> QED BY <1>1, <1>2, TypedHolds, PTL DEF PeerSpec

\* A certificate taken out of the row, or its file, signs from the cache for less
\* than five minutes more, and one made up for want of the file stands in its way
\* no longer, however slow the calls that look them up
\* (TenantSignerResolver::resolveTenantSignerOnly).
THEOREM WithdrawnIsForgotten == PeerSpec => []WithdrawnSoonForgotten
<1>1. ReadInTime => WithdrawnSoonForgotten
  BY DEF ReadInTime, WithdrawnSoonForgotten, Usable
<1> QED BY <1>1, ReadInTimeHolds, PTL
=============================================================================
