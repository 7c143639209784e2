----------------------------- MODULE CertRenewal -----------------------------
(***************************************************************************)
(* The renewal of a host's mTLS certificate: the daily job on the host     *)
(* (mssh-admin cert renew, cert-renew@.timer), the handler on the CA       *)
(* (admin.py cert_renew) and the revocations that meet it.                 *)
(*                                                                         *)
(* The certificate is its own credential.  The handler looks for it in the *)
(* lists of all issuers, mints a successor of the same lifetime and may    *)
(* revoke the predecessor, then answers.  The job writes the certificate,  *)
(* then the key, then reloads the service.  Time is in days.  A            *)
(* certificate is known by its serial, and so is its key.                  *)
(***************************************************************************)
EXTENDS Naturals, Sequences

CONSTANTS
  CertHandler,    \* the CA's threads that renew
  Lifetime,       \* days a certificate lasts
  Threshold,      \* --threshold-days
  RenewalWindow,  \* _DEFAULT_RENEWAL_WINDOW_DAYS
  GracePeriod,    \* _DEFAULT_GRACE_PERIOD_DAYS
  RenewalFaults,  \* which of "crash" (the host), "reload", "append" may fail
  MaxMissed,        \* bound: runs of the job that come to nothing
  MaxCerts,       \* bound: certificates minted
  MaxDays         \* bound: days that pass

ASSUME RenewalAssumption ==
  /\ Lifetime \in Nat \ {0}
  /\ Threshold \in 1..RenewalWindow
  /\ RenewalWindow \in Nat /\ GracePeriod \in Nat
  /\ RenewalFaults \subseteq {"crash", "reload", "append"}
  /\ MaxMissed \in 0..Threshold
  /\ MaxCerts \in Nat \ {0} /\ MaxDays \in Nat

\* Of the kind markers that TLS takes from a client, the one that a renewal gives
\* and another; a server's certificate gets no further than the handshake.
Kind == {"client-mtls", "admin-mtls"}
ListIssuer == {"user-mint", "auth"}

VARIABLES
  today,
  certs,      \* the certificates minted, by serial: [kind, ends]
  revoked,    \* the CRL of each issuer: sets of serials
  host,       \* the files: [cert, key], serials
  serving,    \* the serial that the service has loaded
  job,        \* where the renewal job is
  renewing,   \* where each handler of the CA is
  ran,        \* the timer has fired today
  missed,       \* history: runs of the job that came to nothing
  spoiled     \* history: an accident that the renewal does not recover from

renewalVars == <<today, certs, revoked, host, serving, job, renewing, ran, missed, spoiled>>

Serial == 1..MaxCerts
Asleep == [at |-> "asleep"]
Free == [at |-> "free"]

\* Every variable has its type.
RenewalTypeOK ==
  /\ today \in 0..MaxDays
  /\ certs \in Seq([kind : Kind, ends : 0..(MaxDays + Lifetime)]) /\ Len(certs) <= MaxCerts
  /\ revoked \in [ListIssuer -> SUBSET Serial]
  /\ host \in [cert : Serial, key : Serial]
  /\ serving \in Serial
  /\ \/ job = Asleep
     \/ job \in [at : {"waiting"}, on : CertHandler]
     \/ job \in [at : {"cert", "key", "reload"}, new : Serial, revokeOld : BOOLEAN]
  /\ \A h \in CertHandler :
       \/ renewing[h] = Free
       \/ renewing[h] \in [at : {"request", "checked"}, old : Serial, new : {0},
                           revokeOld : BOOLEAN, late : BOOLEAN]
       \/ renewing[h] \in [at : {"minted", "answer"}, old : Serial, new : Serial,
                           revokeOld : BOOLEAN, late : BOOLEAN]
  /\ ran \in BOOLEAN /\ spoiled \in BOOLEAN
  /\ missed \in 0..MaxMissed

RenewalInit ==
  /\ today = 0
  /\ \E kind \in Kind : certs = <<[kind |-> kind, ends |-> Lifetime]>>
  /\ revoked = [i \in ListIssuer |-> {}]
  /\ host = [cert |-> 1, key |-> 1]
  /\ serving = 1
  /\ job = Asleep
  /\ renewing = [h \in CertHandler |-> Free]
  /\ ran = FALSE
  /\ missed = 0
  /\ spoiled = FALSE

IsRevoked(n) == \E i \in ListIssuer : n \in revoked[i]

-----------------------------------------------------------------------------
(* The job on the host *)

\* The certificate lasts for longer than the threshold: exit 0.
NothingToDo ==
  /\ job = Asleep
  /\ certs[host.cert].ends > today + Threshold
  /\ ran' = TRUE
  /\ UNCHANGED <<today, certs, revoked, host, serving, job, renewing, missed, spoiled>>

\* External: TLS takes a certificate that goes with its key and has not expired.
HandshakeOK == host.cert = host.key /\ today <= certs[host.cert].ends

\* CAClient with the certificate itself.  Without a handshake the job fails.
Ask(h, revokeOld) ==
  /\ job = Asleep
  /\ certs[host.cert].ends <= today + Threshold
  /\ ran' = TRUE
  /\ \/ /\ HandshakeOK
        /\ renewing[h] = Free
        /\ renewing' = [renewing EXCEPT ![h] =
             [at |-> "request", old |-> host.cert, new |-> 0, revokeOld |-> revokeOld,
              late |-> IsRevoked(host.cert)]]
        /\ job' = [at |-> "waiting", on |-> h]
     \/ /\ ~HandshakeOK
        /\ UNCHANGED <<job, renewing>>
  /\ UNCHANGED <<today, certs, revoked, host, serving, missed, spoiled>>

\* 10 seconds without an answer; the handler goes on.
GiveUp ==
  /\ job.at = "waiting"
  /\ missed < MaxMissed
  /\ missed' = missed + 1
  /\ spoiled' = (spoiled \/ renewing[job.on].revokeOld)
  /\ job' = Asleep
  /\ UNCHANGED <<today, certs, revoked, host, serving, renewing, ran>>

\* os.replace of the certificate ...
WriteCert ==
  /\ job.at = "cert"
  /\ host' = [host EXCEPT !.cert = job.new]
  /\ job' = [job EXCEPT !.at = "key"]
  /\ UNCHANGED <<today, certs, revoked, serving, renewing, ran, missed, spoiled>>

\* ... then of the key ...
WriteKey ==
  /\ job.at = "key"
  /\ host' = [host EXCEPT !.key = job.new]
  /\ job' = [job EXCEPT !.at = "reload"]
  /\ UNCHANGED <<today, certs, revoked, serving, renewing, ran, missed, spoiled>>

\* ... then --on-renew; when it fails the job exits 5 and no later one repeats it.
Reload ==
  /\ job.at = "reload"
  /\ \/ serving' = host.cert /\ UNCHANGED spoiled
     \/ "reload" \in RenewalFaults /\ spoiled' = TRUE /\ UNCHANGED serving
  /\ job' = Asleep
  /\ UNCHANGED <<today, certs, revoked, host, renewing, ran, missed>>

\* The host dies between two steps of the job, and comes up: the service loads
\* the files if they go together.
HostCrash ==
  /\ "crash" \in RenewalFaults
  /\ job.at \in {"cert", "key", "reload"}
  /\ missed < MaxMissed
  /\ missed' = missed + 1
  /\ spoiled' = (spoiled \/ job.at = "key" \/ job.revokeOld)
  /\ serving' = IF host.cert = host.key THEN host.cert ELSE serving
  /\ job' = Asleep
  /\ UNCHANGED <<today, certs, revoked, host, renewing, ran>>

-----------------------------------------------------------------------------
(* The handler on the CA *)

\* A slip: only the list that revoke_predecessor appends to is looked at.
RevokedByUserMint(n) == n \in revoked["user-mint"]

\* The lists of known_issuers, one after the other.
RevokedAnywhere(n) == \E i \in ListIssuer : n \in revoked[i]

\* A slip: a certificate is renewed once it has expired.
RenewableOnceExpired(n) == certs[n].ends < today /\ today <= certs[n].ends + GracePeriod

\* Less than the window is left, and no more than the grace period has passed.
Renewable(n) == certs[n].ends <= today + RenewalWindow /\ today <= certs[n].ends + GracePeriod

Done(h) == renewing' = [renewing EXCEPT ![h] = Free]
Waiting(h) == job = [at |-> "waiting", on |-> h]

\* 403, 410 or too_early, to the job if it still waits; or on to the mint.
CheckRenewal(h) ==
  /\ renewing[h].at = "request"
  /\ IF RevokedAnywhere(renewing[h].old) \/ ~Renewable(renewing[h].old)
     THEN /\ Done(h)
          /\ job' = IF Waiting(h) THEN Asleep ELSE job
     ELSE /\ renewing' = [renewing EXCEPT ![h].at = "checked"]
          /\ UNCHANGED job
  /\ UNCHANGED <<today, certs, revoked, host, serving, ran, missed, spoiled>>

\* issue_client_cert with kind 'client-mtls', whatever the kind was.
MintSuccessor(h) ==
  /\ renewing[h].at = "checked"
  /\ Len(certs) < MaxCerts
  /\ certs' = Append(certs, [kind |-> "client-mtls", ends |-> today + Lifetime])
  /\ renewing' = [renewing EXCEPT ![h].new = Len(certs'),
                                  ![h].at = IF renewing[h].revokeOld THEN "minted" ELSE "answer"]
  /\ UNCHANGED <<today, revoked, host, serving, job, ran, missed, spoiled>>

\* The predecessor goes to user-mint's list; a failure is only logged.
RevokePredecessor(h) ==
  /\ renewing[h].at = "minted"
  /\ \/ revoked' = [revoked EXCEPT !["user-mint"] = @ \cup {renewing[h].old}]
     \/ "append" \in RenewalFaults /\ UNCHANGED revoked
  /\ renewing' = [renewing EXCEPT ![h].at = "answer"]
  /\ UNCHANGED <<today, certs, host, serving, job, ran, missed, spoiled>>

AnswerRenewal(h) ==
  /\ renewing[h].at = "answer"
  /\ Done(h)
  /\ job' = IF Waiting(h)
            THEN [at |-> "cert", new |-> renewing[h].new, revokeOld |-> renewing[h].revokeOld]
            ELSE job
  /\ UNCHANGED <<today, certs, revoked, host, serving, ran, missed, spoiled>>

-----------------------------------------------------------------------------
(* The operator and time *)

\* cert_revoke under the issuer that the operator names.
RevokeCert(n, i) ==
  /\ n \in 1..Len(certs)
  /\ ~IsRevoked(n)
  /\ revoked' = [revoked EXCEPT ![i] = @ \cup {n}]
  /\ spoiled' = TRUE
  /\ UNCHANGED <<today, certs, host, serving, job, renewing, ran, missed>>

\* The timer fires every day; a job and a handler take less than that.
NextDay ==
  /\ today < MaxDays
  /\ ran /\ job = Asleep
  /\ \A h \in CertHandler : renewing[h] = Free
  /\ today' = today + 1
  /\ ran' = FALSE
  /\ UNCHANGED <<certs, revoked, host, serving, job, renewing, missed, spoiled>>

RenewalNext ==
  \/ NothingToDo \/ GiveUp \/ WriteCert \/ WriteKey \/ Reload \/ HostCrash \/ NextDay
  \/ \E h \in CertHandler :
       \/ \E revokeOld \in BOOLEAN : Ask(h, revokeOld)
       \/ CheckRenewal(h) \/ MintSuccessor(h) \/ RevokePredecessor(h) \/ AnswerRenewal(h)
  \/ \E n \in Serial, i \in ListIssuer : RevokeCert(n, i)

RenewalSpec == RenewalInit /\ [][RenewalNext]_renewalVars

-----------------------------------------------------------------------------
(* Properties *)

\* Between jobs the host holds a certificate with its key, not expired, not
\* revoked, that the service has loaded.  It takes an operator's revocation, a
\* crash between the two renames, a failed reload, or --revoke-old with a missed
\* answer to break that; as many runs lost as the threshold has days do not.
HostKeepsItsCredential ==
  job = Asleep /\ ~spoiled =>
    /\ host.cert = host.key
    /\ serving = host.cert
    /\ today <= certs[host.cert].ends
    /\ ~IsRevoked(host.cert)

\* A certificate that was revoked before the request came, under whatever
\* issuer, has no successor.
RevokedIsNotRenewed ==
  \A h \in CertHandler : renewing[h].at \in {"checked", "minted", "answer"} => ~renewing[h].late

-----------------------------------------------------------------------------
(* A claim of the code that does not hold                                *)

\* "the renewed cert carries the same kind marker as the original".
RenewalKeepsKind ==
  \A h \in CertHandler :
    renewing[h].at = "answer" => certs[renewing[h].new].kind = certs[renewing[h].old].kind
=============================================================================
