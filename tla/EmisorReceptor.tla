---------------------------- MODULE EmisorReceptor ----------------------------
(***************************************************************************)
(* The service as a receiver: EmisorReceptorController's seeds and bearer  *)
(* tokens for the services of other companies, and TenantSignerResolver,   *)
(* which finds the certificate that signs a receipt - and, for             *)
(* DocumentsController::resolveSigner, an invoice - of a hosted company.   *)
(*                                                                         *)
(* A call is a token check and a look at the cache of signers, then, on a  *)
(* miss, the SELECT, a file on disk and the write to the cache, each a     *)
(* step of its own: the cache's mutex is free in between.                  *)
(*                                                                         *)
(* Time is kept as ages.  That of a call and of what it caches counts from *)
(* where resolveTenantSignerOnly reads the clock, before the SELECT.       *)
(*                                                                         *)
(* One company is modelled, with its row in "Tenants" and its .pfx file.   *)
(* The signature of a seed is taken to be right; what an e-CF or an        *)
(* approval says is left out but for its being well formed, and so is what *)
(* EcfXmlSigner::signXml makes of the certificate found: it refuses one    *)
(* out of date, and one that names another company, unless it is           *)
(* self-signed or a natural person's.                                      *)
(***************************************************************************)
EXTENDS Naturals

CONSTANTS
  Thread,     \* threads serving requests
  Seed,       \* names of seeds
  Token,      \* names of tokens
  Row, File,  \* certificates the row, and the file, may hold
  SeedLife,   \* ten minutes
  TokenLife,  \* an hour
  CacheLife,  \* five minutes
  Absent

\* The service's own certificate, and the one it makes up for want of a file.
Own == {"host", "fallback"}

ASSUME ReceptionAssumption ==
  /\ {SeedLife, TokenLife, CacheLife} \subseteq Nat \ {0}
  /\ Row \cap File = {} /\ (Row \cup File) \cap Own = {}
  /\ Absent \notin Row \cup File \cup Own \cup Nat \cup Seed

Caller == {"peer", "tenant"}

Cert == Row \cup File \cup Own

\* What the row and the file may give a caller to cache, and give now.
Present(r, f) == {r, IF f = Absent THEN "fallback" ELSE f}

Cacheable == Row \cup File \cup {"fallback"}

\* Ages are counted up to a limit, from which on they are all alike.
Age(limit) == 0 .. limit

Older(a, limit) == IF a # Absent /\ a < limit THEN a + 1 ELSE a

Idle == [at |-> "idle", who |-> Absent, seed |-> Absent, cert |-> Absent, age |-> 0]

VARIABLES
  seeds,      \* g_issuedSeeds: the age of each seed held, or Absent
  given,      \* history: the age of each seed given out, held or not, or Absent
  bought,     \* history: how many tokens each seed has bought
  tokens,     \* g_activeTokens
  row,        \* the certificate of the company's active row, or Absent
  file,       \* the certificate in its .pfx file, or Absent
  withdrawn,  \* history: for how long nobody could have found a certificate
  cache,      \* cache_: per caller, certificate and age, or Absent
  call        \* per thread

doorVars == <<seeds, given, bought, tokens>>
certVars == <<row, file, withdrawn>>
peerVars == <<seeds, given, bought, tokens, row, file, withdrawn, cache, call>>

PeerInit ==
  /\ seeds = [s \in Seed |-> Absent]
  /\ given = [s \in Seed |-> Absent]
  /\ bought = [s \in Seed |-> 0]
  /\ tokens = [k \in Token |-> Absent]
  /\ row \in Row \cup {Absent}
  /\ file \in File \cup {Absent}
  /\ withdrawn = [c \in Cacheable |-> IF c \in Present(row, file) THEN 0 ELSE CacheLife]
  /\ cache = [w \in Caller |-> Absent]
  /\ call = [t \in Thread |-> Idle]

Calls(t, r) == call' = [call EXCEPT ![t] = r]

At(t, step) == call[t].at = step
-----------------------------------------------------------------------------
(* Seeds and tokens.                                                       *)

\* pruneExpiredSeeds, pruneExpiredTokens.
Pruned(held, limit) ==
  [n \in DOMAIN held |-> IF held[n] # Absent /\ held[n] > limit THEN Absent ELSE held[n]]

\* getSemilla.
GetSemilla(s) ==
  /\ given[s] = Absent
  /\ seeds' = [Pruned(seeds, SeedLife) EXCEPT ![s] = 0]
  /\ given' = [given EXCEPT ![s] = 0]
  /\ UNCHANGED <<bought, tokens, certVars, cache, call>>

\* The name of a seed that can no longer be used serves for a new one.
ForgetSeed(s) ==
  /\ given[s] # Absent /\ seeds[s] = Absent
  /\ \A t \in Thread : call[t].seed # s
  /\ given' = [given EXCEPT ![s] = Absent]
  /\ bought' = [bought EXCEPT ![s] = 0]
  /\ UNCHANGED <<seeds, tokens, certVars, cache, call>>

\* Fault: the seed is erased where the token is issued.
LeftInPlace(held, s) == held

Consumed(held, s) == [held EXCEPT ![s] = Absent]

\* validarSemilla, up to the end of the lock: a seed that is held is consumed,
\* whatever becomes of the certificate, and one that is not is refused.
ValidarSemilla(t, s) ==
  LET held == Pruned(seeds, SeedLife)
  IN /\ At(t, "idle")
     /\ seeds' = Consumed(held, s)
     /\ IF held[s] = Absent THEN call' = call
        ELSE Calls(t, [Idle EXCEPT !.at = "seed", !.seed = s])
     /\ UNCHANGED <<given, bought, tokens, certVars, cache>>

\* validateX509Certificate: not a certificate, not yet valid, or expired.
RefuseCertificate(t) ==
  /\ At(t, "seed")
  /\ Calls(t, Idle)
  /\ UNCHANGED <<doorVars, certVars, cache>>

IssueToken(t, k) ==
  LET held == Pruned(tokens, TokenLife)
  IN /\ At(t, "seed")
     /\ held[k] = Absent
     /\ tokens' = [held EXCEPT ![k] = 0]
     /\ bought' = [bought EXCEPT ![call[t].seed] = @ + 1]
     /\ Calls(t, Idle)
     /\ UNCHANGED <<seeds, given, certVars, cache>>
-----------------------------------------------------------------------------
(* resolveTenantSignerOnly.                                                *)

Usable(entry) == entry # Absent /\ entry.age < CacheLife

\* The signer is found: there may be none.
Ready(who, c) == [Idle EXCEPT !.at = "sign", !.who = who, !.cert = c]

\* The look at the cache, first thing.
Resolve(t, who) ==
  Calls(t, IF Usable(cache[who]) THEN Ready(who, cache[who].cert)
                                 ELSE [Idle EXCEPT !.at = "row", !.who = who])

\* recepcioneCF and aprobacionComercial, for a well-formed document.
Receive(t, k) ==
  /\ At(t, "idle")
  /\ tokens[k] # Absent /\ tokens[k] <= TokenLife
  /\ Resolve(t, "peer")
  /\ UNCHANGED <<doorVars, certVars, cache>>

\* isAuthorizedB2B erases a token found to have run out; 401.
RefuseToken(k) ==
  /\ tokens[k] # Absent /\ tokens[k] > TokenLife
  /\ tokens' = [tokens EXCEPT ![k] = Absent]
  /\ UNCHANGED <<seeds, given, bought, certVars, cache, call>>

\* resolveSigner, for an invoice of the company: the certificate may come with
\* the invoice, and is none of the resolver's business then.
Submit(t) ==
  /\ At(t, "idle")
  /\ Resolve(t, "tenant")
  /\ UNCHANGED <<doorVars, certVars, cache>>

\* The SELECT: the row may be missing, inactive, without a certificate or with
\* one that does not load (Absent), or the database away.
ReadRow(t) ==
  /\ At(t, "row")
  /\ \/ row # Absent /\ Calls(t, [call[t] EXCEPT !.at = "cache", !.cert = row])
     \/ Calls(t, [call[t] EXCEPT !.at = "file"])
  /\ UNCHANGED <<doorVars, certVars, cache>>

\* Fault: that there is no signer is remembered.
WithoutCached(who) == [Idle EXCEPT !.at = "cache", !.who = who]

\* Who comes away without a signer: a receipt is not signed, an invoice is with
\* the service's own.
Without(who) == Ready(who, IF who = "tenant" THEN "host" ELSE Absent)

\* std::filesystem::exists.  For an invoice the resolver leaves the files alone
\* and resolveSigner looks for one.
FindFile(t) ==
  /\ At(t, "file")
  /\ Calls(t, IF file # Absent THEN [call[t] EXCEPT !.at = "open"] ELSE Without(call[t].who))
  /\ UNCHANGED <<doorVars, certVars, cache>>

\* The signer is made from the file; from a file gone in the meantime, with a
\* certificate made up on the spot.  One that does not load is none.
OpenFile(t) ==
  LET c == IF file = Absent THEN "fallback" ELSE file
      who == call[t].who
  IN /\ At(t, "open")
     /\ \/ Calls(t, IF who = "peer" THEN [call[t] EXCEPT !.at = "cache", !.cert = c]
                                   ELSE Ready(who, c))
        \/ file # Absent /\ Calls(t, Without(who))
     /\ UNCHANGED <<doorVars, certVars, cache>>

\* Fault: the five minutes start when the signer is ready.
FreshEntry(c) == [cert |-> c.cert, age |-> 0]

Entry(c) == [cert |-> c.cert, age |-> c.age]

CacheSigner(t) ==
  /\ At(t, "cache")
  /\ cache' = [cache EXCEPT ![call[t].who] = Entry(call[t])]
  /\ Calls(t, Ready(call[t].who, call[t].cert))
  /\ UNCHANGED <<doorVars, certVars>>

\* The receipt or the invoice is signed, or the call refused: 404 for a receiver
\* with no signer, or with one made up for want of a file.
Answer(t) ==
  /\ At(t, "sign")
  /\ Calls(t, Idle)
  /\ UNCHANGED <<doorVars, certVars, cache>>
-----------------------------------------------------------------------------
(* The world.                                                              *)

\* `withdrawn` when the row and the file hold r and f.
Ages(r, f) == [c \in Cacheable |-> IF c \in Present(r, f) THEN 0 ELSE withdrawn[c]]

\* The company's row, or its file, is changed: by other programs.
ChangeRow(c) ==
  /\ row # c
  /\ row' = c
  /\ withdrawn' = Ages(c, file)
  /\ UNCHANGED <<doorVars, file, cache, call>>

ChangeFile(c) ==
  /\ file # c
  /\ file' = c
  /\ withdrawn' = Ages(row, c)
  /\ UNCHANGED <<doorVars, row, cache, call>>

PeerTick ==
  /\ seeds' = [s \in Seed |-> Older(seeds[s], SeedLife + 1)]
  /\ given' = [s \in Seed |-> Older(given[s], SeedLife + 1)]
  /\ tokens' = [k \in Token |-> Older(tokens[k], TokenLife + 1)]
  /\ withdrawn' = [c \in Cacheable |->
                    IF c \in Present(row, file) THEN 0 ELSE Older(withdrawn[c], CacheLife)]
  /\ cache' = [w \in Caller |-> IF cache[w] = Absent THEN Absent
                                ELSE [cache[w] EXCEPT !.age = Older(@, CacheLife)]]
  /\ call' = [t \in Thread |-> IF call[t].at \in {"row", "file", "open", "cache"}
                               THEN [call[t] EXCEPT !.age = Older(@, CacheLife)] ELSE call[t]]
  /\ UNCHANGED <<bought, row, file>>

\* Seeds, tokens and signers are in the memory of the process.
PeerRestart ==
  /\ seeds' = [s \in Seed |-> Absent]
  /\ tokens' = [k \in Token |-> Absent]
  /\ cache' = [w \in Caller |-> Absent]
  /\ call' = [t \in Thread |-> Idle]
  /\ UNCHANGED <<given, bought, certVars>>

DoorNext ==
  \/ \E s \in Seed : GetSemilla(s) \/ ForgetSeed(s) \/ \E t \in Thread : ValidarSemilla(t, s)
  \/ \E t \in Thread : RefuseCertificate(t) \/ \E k \in Token : IssueToken(t, k)
  \/ \E k \in Token : RefuseToken(k)

SignerNext ==
  \/ \E t \in Thread :
       \/ Submit(t) \/ \E k \in Token : Receive(t, k)
       \/ ReadRow(t) \/ FindFile(t) \/ OpenFile(t) \/ CacheSigner(t) \/ Answer(t)
  \/ \E c \in Row \cup {Absent} : ChangeRow(c)
  \/ \E c \in File \cup {Absent} : ChangeFile(c)

PeerNext == DoorNext \/ SignerNext \/ PeerTick \/ PeerRestart

PeerSpec == PeerInit /\ [][PeerNext]_peerVars
-----------------------------------------------------------------------------
PeerTypeOK ==
  /\ seeds \in [Seed -> Age(SeedLife + 1) \cup {Absent}]
  /\ given \in [Seed -> Age(SeedLife + 1) \cup {Absent}]
  /\ bought \in [Seed -> Nat]
  /\ tokens \in [Token -> Age(TokenLife + 1) \cup {Absent}]
  /\ row \in Row \cup {Absent}
  /\ file \in File \cup {Absent}
  /\ withdrawn \in [Cacheable -> Age(CacheLife)]
  /\ cache \in [Caller -> [cert : Cacheable, age : Age(CacheLife)] \cup {Absent}]
  /\ call \in [Thread -> [at : {"idle", "seed", "row", "file", "open", "cache", "sign"},
                          who : Caller \cup {Absent}, seed : Seed \cup {Absent},
                          cert : Cert \cup {Absent}, age : Age(CacheLife)]]

\* A seed buys one token, however often and by however many at once its signed
\* copy is presented: it is looked up and erased under one lock, before the
\* certificate is looked at (validarSemilla).
OneTokenPerSeed == \A s \in Seed : bought[s] <= 1

\* A certificate taken out of the company's row, or its file, replaced or
\* deactivated, signs from the cache for less than five minutes more, however
\* long the SELECT and the loading took and whichever of two slow calls wrote the
\* cache last; and so does the certificate made up for a file that went away
\* between the look for it and its opening, for which other companies are
\* answered 404, once the file is back (resolveTenantSignerOnly reads the clock
\* before the row and the file).
WithdrawnSoonForgotten ==
  \A w \in Caller : Usable(cache[w]) => withdrawn[cache[w].cert] <= cache[w].age
=============================================================================
