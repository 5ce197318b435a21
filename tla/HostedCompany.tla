----------------------------- MODULE HostedCompany -----------------------------
(***************************************************************************)
(* The three faces of a company the service hosts: the invoices it issues  *)
(* (CanonicalInvoice), what other companies' services send it              *)
(* (EmisorReceptor) and what it sends DGII past POST /documents            *)
(* (DirectEcf).  The code keeps them nearly apart, and so does this        *)
(* module: they have the process in common, whose restart takes the seeds, *)
(* tokens and signers of one and the counters and calls of the other at    *)
(* once, and an invoice is built before its signer is resolved.            *)
(*                                                                         *)
(* Bounds for TLC.  Resolving a signer, and the direct calls, look at      *)
(* nothing of the invoice but its issuer: they are explored behind one     *)
(* invoice, Probe.  Seeds are out only while no signer has been resolved,  *)
(* since all that those two share is the clock; and direct calls are made  *)
(* only where no other company has called, since they share nothing.       *)
(***************************************************************************)
EXTENDS CanonicalInvoice, EmisorReceptor, DirectEcf

CONSTANT Probe

CompanyInit ==
  /\ Init /\ PeerInit /\ DirectInit
  /\ inv = Probe \/ (row = Absent /\ file = Absent)
  /\ docs = <<>> \/ (inv = Probe /\ row = Absent /\ file = Absent)

NoSeedOut == \A s \in Seed : given[s] = Absent

NoSignerYet ==
  /\ \A w \in Caller : cache[w] = Absent
  /\ \A t \in Thread : call[t].at \in {"idle", "seed"}

NoPeerYet ==
  /\ NoSeedOut /\ NoSignerYet /\ row = Absent /\ file = Absent
  /\ \A k \in Token : tokens[k] = Absent
  /\ \A c \in Row \cup File : withdrawn[c] = CacheLife

NoDirectYet == docs = <<>> /\ calls = 0

Built == step = "done" /\ inv = Probe

Restart == PeerRestart /\ DirectRestart

CompanyNext ==
  \/ Next /\ UNCHANGED <<peerVars, directVars>>
  \/ /\ Built /\ UNCHANGED vars
     /\ \/ /\ NoDirectYet /\ UNCHANGED directVars
           /\ \/ DoorNext /\ NoSignerYet
              \/ SignerNext /\ NoSeedOut
              \/ PeerTick
        \/ NoPeerYet /\ UNCHANGED peerVars /\ DirectStep
        \/ Restart

CompanySpec == CompanyInit /\ [][CompanyNext]_<<vars, peerVars, directVars>>
=============================================================================
