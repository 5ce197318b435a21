------------------------ MODULE MCIdempotentRequests ------------------------
(* Small instances of IdempotentRequests for TLC. *)
EXTENDS IdempotentRequests

\* Bound: while a signed request is out at most one thread is at work.  How a
\* request was admitted is no matter to what a thread does with it, so the races
\* of threads are those of users' requests.
SignedOneByOne ==
  (\E n \in Nonce : sent[n] # None) =>
    \A t, u \in Thread : pc[t] # "idle" /\ pc[u] # "idle" => t = u
=============================================================================
