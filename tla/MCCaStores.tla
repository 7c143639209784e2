----------------------------- MODULE MCCaStores -----------------------------
(***************************************************************************)
(* What the CA keeps, for TLC: the enrollment store, the WireGuard         *)
(* catalog, the audit log, the key files, the CRL of an issuer and the      *)
(* certificates of hosts that renew them.  No file of one is a file of     *)
(* another, so each is explored by itself: focus says which of them moves. *)
(***************************************************************************)
EXTENDS Enrollment, WireGuard, AuditLog, Intermediates, CrlStore, CertRenewal, TLC

CONSTANTS web, ops, alice, chief, clerk   \* a server, a group, a user, two admins

VARIABLE focus

\* A server, a user with two policies, two superusers.
First ==
  [servers |-> (web :> {ops}), admins |-> (chief :> "superuser" @@ clerk :> "superuser"),
   users |-> {alice}, keys |-> {}, tools |-> {}, templates |-> {},
   policies |-> {[id |-> 1, user |-> alice, on |-> <<"server", web>>],
                 [id |-> 2, user |-> alice, on |-> <<"group", ops>>]}]

\* Two addresses for peers, or three, in one family or both.
Networks == {[v4 |-> 3, v6 |-> 0], [v4 |-> 0, v6 |-> 3], [v4 |-> 3, v6 |-> 3]}

CaStoresInit ==
  /\ focus \in {"enrollment", "wireguard", "audit", "intermediates", "crl", "renewal"}
  /\ EnrollmentInit /\ WireGuardInit /\ AuditInit /\ IntermediatesInit /\ CrlInit
  /\ RenewalInit /\ (focus # "renewal" => certs[1].kind = "client-mtls")

CaStoresNext ==
  \/ /\ focus = "enrollment" /\ EnrollmentNext
     /\ UNCHANGED <<focus, wireguardVars, auditVars, intermediatesVars, crlVars, renewalVars>>
  \/ /\ focus = "wireguard" /\ WireGuardNext
     /\ UNCHANGED <<focus, enrollmentVars, auditVars, intermediatesVars, crlVars, renewalVars>>
  \/ /\ focus = "audit" /\ AuditNext
     /\ UNCHANGED <<focus, enrollmentVars, wireguardVars, intermediatesVars, crlVars, renewalVars>>
  \/ /\ focus = "intermediates" /\ IntermediatesNext
     /\ UNCHANGED <<focus, enrollmentVars, wireguardVars, auditVars, crlVars, renewalVars>>
  \/ /\ focus = "crl" /\ CrlNext
     /\ UNCHANGED <<focus, enrollmentVars, wireguardVars, auditVars, intermediatesVars, renewalVars>>
  \/ /\ focus = "renewal" /\ RenewalNext
     /\ UNCHANGED <<focus, enrollmentVars, wireguardVars, auditVars, intermediatesVars, crlVars>>

CaStoresSpec ==
  CaStoresInit /\ [][CaStoresNext]_<<focus, enrollmentVars, wireguardVars, auditVars,
                                      intermediatesVars, crlVars, renewalVars>>

\* Every variable of the five components has its type (of the CRL's, CrlTypeOK says so),
\* and the policy counter is not behind the policies.
CaStoresTypeOK ==
  EnrollmentTypeOK /\ WireGuardTypeOK /\ AuditTypeOK /\ IntermediatesTypeOK /\ RenewalTypeOK

\* Threads and peers are interchangeable.
Interchangeable ==
  Permutations(Handler) \cup Permutations(Thread) \cup Permutations(Worker)
    \cup Permutations(CertHandler) \cup Permutations(Peer)
=============================================================================
