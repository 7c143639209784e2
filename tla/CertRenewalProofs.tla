-------------------------- MODULE CertRenewalProofs --------------------------
(***************************************************************************)
(* The renewal of a host's certificate, for any number of handlers, days   *)
(* and certificates: what was revoked is not renewed, and a host whose     *)
(* certificates outlast the threshold keeps its credential.                *)
(***************************************************************************)
EXTENDS CertRenewal, TLAPS

\* Every serial in use was minted.
Held == 1..Len(certs)
Writing == {"cert", "key", "reload"}

Minted ==
  /\ host.cert \in Held /\ host.key \in Held /\ serving \in Held
  /\ \A i \in ListIssuer : revoked[i] \subseteq Held
  /\ job.at \in Writing => job.new \in Held
  /\ \A h \in CertHandler : renewing[h].at # "free" => renewing[h].old \in Held
  /\ \A h \in CertHandler : renewing[h].at \in {"minted", "answer"} => renewing[h].new \in Held

\* What was revoked when the request came still is.
LateIsRevoked ==
  \A h \in CertHandler :
    renewing[h].at = "request" /\ renewing[h].late => IsRevoked(renewing[h].old)

\* A job that waits has asked for the host's certificate, near its end, and a
\* successor that is not written yet was minted today.
JobUnderway ==
  /\ \A h \in CertHandler : renewing[h].at = "minted" => renewing[h].revokeOld
  /\ job.at # "asleep" => ran
  /\ job.at = "waiting" =>
       /\ renewing[job.on].at # "free" /\ renewing[job.on].old = host.cert
       /\ certs[host.cert].ends <= today + Threshold /\ today <= certs[host.cert].ends
       /\ renewing[job.on].at \in {"minted", "answer"} =>
            /\ renewing[job.on].new # host.cert
            /\ certs[renewing[job.on].new].ends = today + Lifetime
  /\ job.at \in Writing => certs[job.new].ends = today + Lifetime
  /\ job.at \in {"key", "reload"} => host.cert = job.new
  /\ job.at = "reload" => host.key = job.new

\* Without an accident the predecessor is revoked for a job that waits for its
\* successor, and nothing else that the host needs is.
RevokedInTurn ==
  /\ \A h \in CertHandler : renewing[h].at # "free" /\ renewing[h].revokeOld => Waiting(h)
  /\ job.at = "asleep" => ~IsRevoked(host.cert)
  /\ job.at = "waiting" /\ IsRevoked(host.cert) =>
       renewing[job.on].at = "answer" /\ renewing[job.on].revokeOld
  /\ job.at = "waiting" /\ renewing[job.on].at \in {"minted", "answer"} =>
       ~IsRevoked(renewing[job.on].new)
  /\ job.at \in Writing => ~IsRevoked(job.new)
  /\ job.at = "cert" /\ ~job.revokeOld => ~IsRevoked(host.cert)

\* ... and the certificate outlasts the runs that may still be missed.
DaysLeft ==
  job.at \in {"asleep", "waiting", "cert"} =>
    /\ host.cert = host.key /\ serving = host.cert
    /\ certs[host.cert].ends + missed >= today + Threshold
    /\ ran /\ job.at = "asleep" => certs[host.cert].ends + missed >= today + Threshold + 1

\* The types, and what the model says of the serials.
RTyped ==
  /\ RenewalTypeOK
  /\ renewing = [h \in CertHandler |-> renewing[h]]
  /\ Minted

RInv == RTyped /\ LateIsRevoked /\ RevokedIsNotRenewed

HInv == RInv /\ JobUnderway /\ (~spoiled => RevokedInTurn /\ DaysLeft)

Going == {"request", "checked", "minted", "answer"}

LEMMA SeqParts ==
  ASSUME NEW S, NEW q \in Seq(S)
  PROVE  Len(q) \in Nat /\ \A n \in 1..Len(q) : q[n] \in S
OBVIOUS

\* What the types say of the parts.
LEMMA Parts ==
  ASSUME RTyped
  PROVE  /\ Len(certs) \in Nat /\ Len(certs) <= MaxCerts
         /\ Held \subseteq Serial
         /\ \A n \in Held : /\ certs[n] \in [kind : Kind, ends : 0..(MaxDays + Lifetime)]
                            /\ certs[n].ends \in Nat
         /\ today \in Nat /\ missed \in Nat
<1>1. /\ certs \in Seq([kind : Kind, ends : 0..(MaxDays + Lifetime)]) /\ Len(certs) <= MaxCerts
      /\ today \in 0..MaxDays /\ missed \in 0..MaxMissed
  BY DEF RTyped, RenewalTypeOK
<1>2. MaxDays \in Nat /\ MaxMissed \in Nat /\ Lifetime \in Nat /\ MaxCerts \in Nat
  BY RenewalAssumption
<1>3. Len(certs) \in Nat /\ \A n \in Held : certs[n] \in [kind : Kind, ends : 0..(MaxDays + Lifetime)]
  BY <1>1, SeqParts DEF Held
<1>4. Held \subseteq Serial
  BY <1>1, <1>2, <1>3 DEF Held, Serial
<1>5. \A n \in Held : certs[n].ends \in Nat
  BY <1>2, <1>3
<1>. QED  BY <1>1, <1>2, <1>3, <1>4, <1>5

LEMMA JobParts ==
  ASSUME RTyped
  PROVE  \/ job = [at |-> "asleep"]
         \/ job = [at |-> "waiting", on |-> job.on] /\ job.on \in CertHandler
         \/ /\ job = [at |-> job.at, new |-> job.new, revokeOld |-> job.revokeOld]
            /\ job.at \in Writing /\ job.revokeOld \in BOOLEAN
BY DEF RTyped, RenewalTypeOK, Asleep, Writing

LEMMA HandlerParts ==
  ASSUME RTyped, NEW h \in CertHandler
  PROVE  \/ renewing[h] = [at |-> "free"]
         \/ /\ renewing[h] = [at |-> renewing[h].at, old |-> renewing[h].old,
                              new |-> renewing[h].new, revokeOld |-> renewing[h].revokeOld,
                              late |-> renewing[h].late]
            /\ renewing[h].at \in Going
            /\ renewing[h].revokeOld \in BOOLEAN /\ renewing[h].late \in BOOLEAN
            /\ renewing[h].at \in {"request", "checked"} => renewing[h].new = 0
BY DEF RTyped, RenewalTypeOK, Free, Going

LEMMA RInvInit == RenewalInit => RInv
<1>. SUFFICES ASSUME RenewalInit PROVE RInv
  OBVIOUS
<1>1. PICK kind \in Kind : certs = <<[kind |-> kind, ends |-> Lifetime]>>
  BY DEF RenewalInit
<1>2. /\ certs \in Seq([kind : Kind, ends : 0..(MaxDays + Lifetime)])
      /\ Len(certs) = 1 /\ 1 \in Serial /\ Held = {1}
  BY <1>1, RenewalAssumption DEF Serial, Held
<1>3. RenewalTypeOK
  <2>1. today \in 0..MaxDays /\ missed \in 0..MaxMissed /\ Len(certs) <= MaxCerts
    BY <1>2, RenewalAssumption DEF RenewalInit
  <2>2. revoked \in [ListIssuer -> SUBSET Serial] /\ host \in [cert : Serial, key : Serial]
    BY <1>2 DEF RenewalInit
  <2>3. \A h \in CertHandler : renewing[h] = Free
    BY DEF RenewalInit
  <2>. QED  BY <1>2, <2>1, <2>2, <2>3 DEF RenewalInit, RenewalTypeOK
<1>4. Minted /\ LateIsRevoked /\ RevokedIsNotRenewed
  BY <1>2 DEF RenewalInit, Minted, LateIsRevoked, RevokedIsNotRenewed, Free, Asleep, Writing
<1>. QED  BY <1>3, <1>4 DEF RInv, RTyped, RenewalInit

LEMMA HInvInit ==
  ASSUME Threshold < Lifetime, RenewalInit
  PROVE  HInv
<1>1. certs[1].ends = Lifetime
  BY DEF RenewalInit
<1>2. /\ job.at = "asleep" /\ \A h \in CertHandler : renewing[h].at = "free"
      /\ today = 0 /\ missed = 0 /\ ran = FALSE
      /\ host.cert = 1 /\ host.key = 1 /\ serving = 1
  BY DEF RenewalInit, Free, Asleep
<1>3. ~IsRevoked(1)
  BY DEF RenewalInit, IsRevoked
<1>4. JobUnderway /\ RevokedInTurn
  BY <1>2, <1>3 DEF JobUnderway, RevokedInTurn, Writing
<1>5. DaysLeft
  <2>1. Lifetime \in Nat /\ Threshold \in Nat /\ Threshold < Lifetime
    BY RenewalAssumption
  <2>. QED  BY <1>1, <1>2, <2>1 DEF DaysLeft
<1>. QED  BY <1>4, <1>5, RInvInit DEF HInv

-----------------------------------------------------------------------------
(* What was revoked is not renewed *)

\* The job moves; the CA does not.
LEMMA JobMoves ==
  ASSUME RInv, UNCHANGED <<today, certs, revoked, renewing>>,
         host'.cert \in Held, host'.key \in Held, host' = [cert |-> host'.cert, key |-> host'.key],
         serving' \in Held, missed' \in 0..MaxMissed, ran' \in BOOLEAN, spoiled' \in BOOLEAN,
         \/ job' = Asleep
         \/ job' = job
         \/ job.at \in Writing /\ \E at \in Writing : job' = [job EXCEPT !.at = at]
  PROVE  RInv'
<1>1. Held' = Held /\ Held \subseteq Serial
  BY Parts DEF RInv, Held
<1>2. /\ \/ job' = Asleep
         \/ job' \in [at : {"waiting"}, on : CertHandler]
         \/ job' \in [at : Writing, new : Serial, revokeOld : BOOLEAN]
      /\ job'.at \in Writing => job'.new \in Held
  <2>1. CASE job' = Asleep
    BY <2>1 DEF Asleep, Writing
  <2>2. CASE job' = job
    BY <2>2 DEF RInv, RTyped, RenewalTypeOK, Minted, Writing
  <2>3. CASE job.at \in Writing /\ \E at \in Writing : job' = [job EXCEPT !.at = at]
    <3>1. job = [at |-> job.at, new |-> job.new, revokeOld |-> job.revokeOld]
          /\ job.new \in Held /\ job.revokeOld \in BOOLEAN
      BY <2>3, JobParts DEF RInv, RTyped, Minted, Writing
    <3>. QED  BY <1>1, <2>3, <3>1
  <2>. QED  BY <2>1, <2>2, <2>3
<1>3. RenewalTypeOK'
  BY <1>1, <1>2 DEF RInv, RTyped, RenewalTypeOK, Writing
<1>4. Minted'
  BY <1>1, <1>2 DEF RInv, RTyped, Minted
<1>5. LateIsRevoked' /\ RevokedIsNotRenewed'
  BY DEF RInv, LateIsRevoked, RevokedIsNotRenewed, IsRevoked
<1>. QED  BY <1>3, <1>4, <1>5 DEF RInv, RTyped

LEMMA HostStep ==
  ASSUME RInv, NothingToDo \/ GiveUp \/ WriteCert \/ WriteKey \/ Reload \/ HostCrash
  PROVE  RInv'
<1>1. /\ UNCHANGED <<today, certs, revoked, renewing>>
      /\ host \in [cert : Serial, key : Serial] /\ ran \in BOOLEAN /\ spoiled \in BOOLEAN
      /\ missed \in 0..MaxMissed /\ host.cert \in Held /\ host.key \in Held /\ serving \in Held
      /\ job.at \in Writing => job.new \in Held
  BY DEF RInv, RTyped, RenewalTypeOK, Minted, NothingToDo, GiveUp, WriteCert, WriteKey, Reload, HostCrash
<1>2. MaxMissed \in Nat
  BY RenewalAssumption
<1>3. CASE NothingToDo
  BY <1>1, <1>3, JobMoves DEF NothingToDo
<1>4. CASE GiveUp
  <2>1. missed' \in 0..MaxMissed /\ spoiled' \in BOOLEAN
    BY <1>1, <1>2, <1>4 DEF GiveUp
  <2>. QED  BY <1>1, <1>4, <2>1, JobMoves DEF GiveUp
<1>5. CASE WriteCert
  <2>1. /\ host' = [cert |-> job.new, key |-> host.key]
        /\ job.at \in Writing /\ job' = [job EXCEPT !.at = "key"] /\ "key" \in Writing
    BY <1>1, <1>5 DEF WriteCert, Writing
  <2>. QED  BY <1>1, <1>5, <2>1, JobMoves DEF WriteCert
<1>6. CASE WriteKey
  <2>1. /\ host' = [cert |-> host.cert, key |-> job.new]
        /\ job.at \in Writing /\ job' = [job EXCEPT !.at = "reload"] /\ "reload" \in Writing
    BY <1>1, <1>6 DEF WriteKey, Writing
  <2>. QED  BY <1>1, <1>6, <2>1, JobMoves DEF WriteKey
<1>7. CASE Reload
  BY <1>1, <1>7, JobMoves DEF Reload
<1>8. CASE HostCrash
  <2>1. missed' \in 0..MaxMissed /\ spoiled' \in BOOLEAN /\ serving' \in Held
    BY <1>1, <1>2, <1>8 DEF HostCrash
  <2>. QED  BY <1>1, <1>8, <2>1, JobMoves DEF HostCrash
<1>. QED  BY <1>3, <1>4, <1>5, <1>6, <1>7, <1>8

\* One handler of the CA moves, and the certificates stay; of the lists, one
\* may get a serial that was minted.
LEMMA HandlerMoves ==
  ASSUME RInv, NEW h \in CertHandler, NEW r,
         UNCHANGED <<today, certs, host, serving, missed>>,
         renewing' = [renewing EXCEPT ![h] = r],
         \/ r = Free
         \/ /\ r \in [at : {"request", "checked"}, old : Serial, new : {0},
                      revokeOld : BOOLEAN, late : BOOLEAN]
            /\ r.old \in Held
         \/ /\ r \in [at : {"minted", "answer"}, old : Serial, new : Serial,
                      revokeOld : BOOLEAN, late : BOOLEAN]
            /\ r.old \in Held /\ r.new \in Held,
         r.at = "request" /\ r.late => IsRevoked(r.old)',
         r.at \in {"checked", "minted", "answer"} => ~r.late,
         revoked' \in [ListIssuer -> SUBSET Held],
         \A i \in ListIssuer : revoked[i] \subseteq revoked'[i],
         \/ job' = Asleep \/ job' = job \/ job' = [at |-> "waiting", on |-> h]
         \/ \E n \in Held, b \in BOOLEAN : job' = [at |-> "cert", new |-> n, revokeOld |-> b],
         ran' \in BOOLEAN, spoiled' \in BOOLEAN
  PROVE  RInv'
<1>1. Held' = Held /\ Held \subseteq Serial
  BY Parts DEF RInv, Held
<1>2. /\ renewing'[h] = r /\ \A g \in CertHandler \ {h} : renewing'[g] = renewing[g]
      /\ renewing' = [g \in CertHandler |-> renewing'[g]]
  BY DEF RInv, RTyped
<1>3. /\ \/ job' = Asleep
         \/ job' \in [at : {"waiting"}, on : CertHandler]
         \/ job' \in [at : {"cert", "key", "reload"}, new : Serial, revokeOld : BOOLEAN]
      /\ job'.at \in Writing => job'.new \in Held
  <2>1. CASE job' = Asleep
    BY <2>1 DEF Asleep, Writing
  <2>2. CASE job' = job
    BY <2>2 DEF RInv, RTyped, RenewalTypeOK, Minted
  <2>3. CASE job' = [at |-> "waiting", on |-> h]
    BY <2>3 DEF Writing
  <2>4. CASE \E n \in Held, b \in BOOLEAN : job' = [at |-> "cert", new |-> n, revokeOld |-> b]
    BY <1>1, <2>4
  <2>. QED  BY <2>1, <2>2, <2>3, <2>4
<1>4. RenewalTypeOK'
  <2>1. revoked' \in [ListIssuer -> SUBSET Serial]
    BY <1>1
  <2>. QED  BY <1>2, <1>3, <2>1 DEF RInv, RTyped, RenewalTypeOK
<1>5. Minted'
  BY <1>1, <1>2, <1>3 DEF RInv, RTyped, Minted, Free
<1>6. LateIsRevoked'
  <2>1. \A n : IsRevoked(n) => IsRevoked(n)'
    BY DEF IsRevoked
  <2>2. ASSUME NEW g \in CertHandler, renewing'[g].at = "request", renewing'[g].late
        PROVE  IsRevoked(renewing[g].old)'
    <3>1. CASE g = h
      BY <1>2, <2>2, <3>1
    <3>2. CASE g # h
      BY <1>2, <2>1, <2>2, <3>2 DEF RInv, LateIsRevoked
    <3>. QED  BY <3>1, <3>2
  <2>. QED  BY <2>2 DEF LateIsRevoked
<1>7. RevokedIsNotRenewed'
  BY <1>2 DEF RInv, RevokedIsNotRenewed
<1>. QED  BY <1>2, <1>4, <1>5, <1>6, <1>7 DEF RInv, RTyped

\* The parts that the steps of the CA begin with.
LEMMA Before ==
  ASSUME RInv
  PROVE  /\ host.cert \in Held /\ Held \subseteq Serial
         /\ revoked \in [ListIssuer -> SUBSET Held]
         /\ ran \in BOOLEAN /\ spoiled \in BOOLEAN
BY Parts DEF RInv, RTyped, RenewalTypeOK, Minted

LEMMA AskStep ==
  ASSUME RInv, NEW h \in CertHandler, NEW revokeOld \in BOOLEAN, Ask(h, revokeOld)
  PROVE  RInv'
<1>. PICK r : r = [at |-> "request", old |-> host.cert, new |-> 0, revokeOld |-> revokeOld,
                   late |-> IsRevoked(host.cert)]
  OBVIOUS
<1>1. CASE renewing' = [renewing EXCEPT ![h] = r] /\ job' = [at |-> "waiting", on |-> h]
  <2>1. UNCHANGED <<today, certs, revoked, host, serving, missed, spoiled>> /\ ran' = TRUE
    BY DEF Ask
  <2>2. /\ r \in [at : {"request", "checked"}, old : Serial, new : {0},
                  revokeOld : BOOLEAN, late : BOOLEAN]
        /\ r.old = host.cert /\ r.at = "request" /\ r.late = IsRevoked(host.cert)
    BY Before DEF IsRevoked
  <2>3. r.late => IsRevoked(r.old)'
    BY <2>1, <2>2 DEF IsRevoked
  <2>. QED  BY <1>1, <2>1, <2>2, <2>3, Before, HandlerMoves
<1>2. CASE UNCHANGED <<job, renewing>>
  <2>1. /\ UNCHANGED <<today, certs, revoked, host, serving, missed, spoiled>> /\ ran' = TRUE
        /\ host = [cert |-> host.cert, key |-> host.key]
        /\ host.cert \in Held /\ host.key \in Held /\ serving \in Held
        /\ missed \in 0..MaxMissed /\ spoiled \in BOOLEAN
    BY DEF Ask, RInv, RTyped, RenewalTypeOK, Minted
  <2>. QED  BY <1>2, <2>1, JobMoves
<1>. QED  BY <1>1, <1>2 DEF Ask

LEMMA CheckStep ==
  ASSUME RInv, NEW h \in CertHandler, CheckRenewal(h)
  PROVE  RInv'
<1>1. /\ UNCHANGED <<today, certs, revoked, host, serving, ran, missed, spoiled>>
      /\ renewing[h].at = "request"
  BY DEF CheckRenewal
<1>2. CASE renewing' = [renewing EXCEPT ![h] = Free] /\ job' \in {job, Asleep}
  <2>1. Free.at = "free"
    BY DEF Free
  <2>. QED  BY <1>1, <1>2, <2>1, Before, HandlerMoves
<1>3. CASE /\ ~RevokedAnywhere(renewing[h].old)
           /\ renewing' = [renewing EXCEPT ![h].at = "checked"] /\ job' = job
  <2>. PICK r : r = [renewing[h] EXCEPT !.at = "checked"]
    OBVIOUS
  <2>1. /\ r \in [at : {"request", "checked"}, old : Serial, new : {0},
                  revokeOld : BOOLEAN, late : BOOLEAN]
        /\ r.at = "checked" /\ r.old \in Held /\ r.late = renewing[h].late
    BY <1>1, HandlerParts, Before DEF RInv, RTyped, Minted
  <2>2. ~r.late
    BY <1>1, <1>3, <2>1 DEF RInv, LateIsRevoked, IsRevoked, RevokedAnywhere
  <2>. QED  BY <1>1, <1>3, <2>1, <2>2, Before, HandlerMoves
<1>4. \/ renewing' = [renewing EXCEPT ![h] = Free] /\ job' \in {job, Asleep}
      \/ /\ ~RevokedAnywhere(renewing[h].old)
         /\ renewing' = [renewing EXCEPT ![h].at = "checked"] /\ job' = job
  BY DEF CheckRenewal, Done
<1>. QED  BY <1>2, <1>3, <1>4

LEMMA MintStep ==
  ASSUME RInv, NEW h \in CertHandler, MintSuccessor(h)
  PROVE  RInv'
<1> DEFINE n == Len(certs) + 1
           at == IF renewing[h].revokeOld THEN "minted" ELSE "answer"
<1>1. /\ UNCHANGED <<today, revoked, host, serving, job, ran, missed, spoiled>>
      /\ renewing[h].at = "checked" /\ Len(certs) < MaxCerts
      /\ certs' = Append(certs, [kind |-> "client-mtls", ends |-> today + Lifetime])
  BY DEF MintSuccessor
<1>2. /\ certs' \in Seq([kind : Kind, ends : 0..(MaxDays + Lifetime)])
      /\ Len(certs') = n /\ Held' = Held \cup {n} /\ n \in Serial
  <2>1. [kind |-> "client-mtls", ends |-> today + Lifetime]
          \in [kind : Kind, ends : 0..(MaxDays + Lifetime)]
    BY RenewalAssumption DEF RInv, RTyped, RenewalTypeOK, Kind
  <2>2. certs \in Seq([kind : Kind, ends : 0..(MaxDays + Lifetime)]) /\ Len(certs) \in Nat
    BY Parts DEF RInv, RTyped, RenewalTypeOK
  <2>3. Len(certs') = n /\ certs' \in Seq([kind : Kind, ends : 0..(MaxDays + Lifetime)])
    BY <1>1, <2>1, <2>2
  <2>4. n \in Serial
    BY <1>1, <2>2, RenewalAssumption DEF Serial
  <2>. QED  BY <2>2, <2>3, <2>4 DEF Held
<1>3. /\ renewing'[h] = [at |-> at, old |-> renewing[h].old, new |-> n,
                         revokeOld |-> renewing[h].revokeOld, late |-> renewing[h].late]
      /\ renewing[h].revokeOld \in BOOLEAN /\ renewing[h].late \in BOOLEAN
      /\ renewing[h].old \in Held
      /\ \A g \in CertHandler \ {h} : renewing'[g] = renewing[g]
      /\ renewing' = [g \in CertHandler |-> renewing'[g]]
  <2>1. /\ renewing = [g \in CertHandler |-> renewing[g]]
        /\ renewing[h] = [at |-> renewing[h].at, old |-> renewing[h].old,
                          new |-> renewing[h].new, revokeOld |-> renewing[h].revokeOld,
                          late |-> renewing[h].late]
        /\ renewing[h].revokeOld \in BOOLEAN /\ renewing[h].late \in BOOLEAN
        /\ renewing[h].old \in Held
    BY <1>1, HandlerParts DEF RInv, RTyped, Minted
  <2>2. renewing' = [renewing EXCEPT ![h].new = n, ![h].at = at]
    BY <1>2 DEF MintSuccessor
  <2>. QED  BY <2>1, <2>2
<1>. HIDE DEF n
<1>4. at \in {"minted", "answer"}
  OBVIOUS
<1>. HIDE DEF at
<1>5. RenewalTypeOK'
  <2>1. \A g \in CertHandler :
          \/ renewing'[g] = Free
          \/ renewing'[g] \in [at : {"request", "checked"}, old : Serial, new : {0},
                               revokeOld : BOOLEAN, late : BOOLEAN]
          \/ renewing'[g] \in [at : {"minted", "answer"}, old : Serial, new : Serial,
                               revokeOld : BOOLEAN, late : BOOLEAN]
    BY <1>2, <1>3, <1>4, Before DEF RInv, RTyped, RenewalTypeOK
  <2>2. Len(certs') <= MaxCerts
    BY <1>1, <1>2, Parts, RenewalAssumption DEF RInv, n
  <2>. QED  BY <1>1, <1>2, <2>1, <2>2 DEF RInv, RTyped, RenewalTypeOK
<1>6. Minted'
  BY <1>1, <1>2, <1>3 DEF RInv, RTyped, Minted
<1>7. LateIsRevoked' /\ RevokedIsNotRenewed'
  BY <1>1, <1>3, <1>4 DEF RInv, LateIsRevoked, RevokedIsNotRenewed, IsRevoked
<1>. QED  BY <1>3, <1>5, <1>6, <1>7 DEF RInv, RTyped

LEMMA RevokeStep ==
  ASSUME RInv, NEW h \in CertHandler, RevokePredecessor(h)
  PROVE  RInv'
<1>. PICK r : r = [renewing[h] EXCEPT !.at = "answer"]
  OBVIOUS
<1>1. /\ UNCHANGED <<today, certs, host, serving, job, ran, missed, spoiled>>
      /\ renewing[h].at = "minted" /\ renewing' = [renewing EXCEPT ![h] = r]
      /\ \/ revoked' = [revoked EXCEPT !["user-mint"] = @ \cup {renewing[h].old}]
         \/ revoked' = revoked
  BY DEF RevokePredecessor
<1>2. /\ renewing[h].old \in Held /\ renewing[h].new \in Held /\ ~renewing[h].late
      /\ renewing[h] = [at |-> renewing[h].at, old |-> renewing[h].old,
                        new |-> renewing[h].new, revokeOld |-> renewing[h].revokeOld,
                        late |-> renewing[h].late]
      /\ renewing[h].revokeOld \in BOOLEAN /\ renewing[h].late \in BOOLEAN
  BY <1>1, HandlerParts DEF RInv, RTyped, Minted, RevokedIsNotRenewed
<1>3. /\ r \in [at : {"minted", "answer"}, old : Serial, new : Serial,
                revokeOld : BOOLEAN, late : BOOLEAN]
      /\ r.at = "answer" /\ r.old \in Held /\ r.new \in Held /\ ~r.late
  BY <1>2, Before
<1>4. /\ revoked' \in [ListIssuer -> SUBSET Held]
      /\ \A i \in ListIssuer : revoked[i] \subseteq revoked'[i]
  BY <1>1, <1>2, Before DEF ListIssuer
<1>. QED  BY <1>1, <1>3, <1>4, Before, HandlerMoves

LEMMA AnswerStep ==
  ASSUME RInv, NEW h \in CertHandler, AnswerRenewal(h)
  PROVE  RInv'
<1>1. /\ UNCHANGED <<today, certs, revoked, host, serving, ran, missed, spoiled>>
      /\ renewing[h].at = "answer" /\ renewing' = [renewing EXCEPT ![h] = Free]
      /\ \/ job' = job
         \/ job' = [at |-> "cert", new |-> renewing[h].new, revokeOld |-> renewing[h].revokeOld]
  BY DEF AnswerRenewal, Done
<1>2. renewing[h].new \in Held /\ renewing[h].revokeOld \in BOOLEAN /\ Free.at = "free"
  BY <1>1, HandlerParts DEF RInv, RTyped, Minted, Free
<1>. QED  BY <1>1, <1>2, Before, HandlerMoves

LEMMA OtherStep ==
  ASSUME RInv, NextDay \/ \E n \in Serial, i \in ListIssuer : RevokeCert(n, i)
  PROVE  RInv'
<1>1. /\ UNCHANGED <<certs, host, serving, job, renewing, missed>>
      /\ Held' = Held
  BY DEF NextDay, RevokeCert, Held
<1>2. /\ revoked' \in [ListIssuer -> SUBSET Held]
      /\ \A i \in ListIssuer : revoked[i] \subseteq revoked'[i]
  BY Before DEF NextDay, RevokeCert, Held
<1>3. today' \in 0..MaxDays /\ ran' \in BOOLEAN /\ spoiled' \in BOOLEAN
  <2>1. today \in 0..MaxDays /\ MaxDays \in Nat /\ ran \in BOOLEAN /\ spoiled \in BOOLEAN
    BY RenewalAssumption DEF RInv, RTyped, RenewalTypeOK
  <2>2. CASE NextDay
    <3>1. today < MaxDays /\ today' = today + 1 /\ ran' = FALSE /\ spoiled' = spoiled
      BY <2>2 DEF NextDay
    <3>2. today' \in 0..MaxDays
      BY <2>1, <3>1
    <3>3. ran' \in BOOLEAN /\ spoiled' \in BOOLEAN
      BY <2>1, <3>1, Zenon
    <3>. QED  BY <3>2, <3>3
  <2>3. CASE \E n \in Serial, i \in ListIssuer : RevokeCert(n, i)
    BY <2>1, <2>3 DEF RevokeCert
  <2>. QED  BY <2>2, <2>3
<1>4. RenewalTypeOK'
  <2>1. revoked' \in [ListIssuer -> SUBSET Serial]
    BY <1>2, Before
  <2>. QED  BY <1>1, <1>3, <2>1 DEF RInv, RTyped, RenewalTypeOK
<1>5. Minted'
  BY <1>1, <1>2 DEF RInv, RTyped, Minted
<1>6. LateIsRevoked' /\ RevokedIsNotRenewed'
  BY <1>1, <1>2 DEF RInv, LateIsRevoked, RevokedIsNotRenewed, IsRevoked
<1>. QED  BY <1>1, <1>4, <1>5, <1>6 DEF RInv, RTyped

LEMMA RInvStep == RInv /\ [RenewalNext]_renewalVars => RInv'
<1>. SUFFICES ASSUME RInv, [RenewalNext]_renewalVars PROVE RInv'
  OBVIOUS
<1>1. CASE UNCHANGED renewalVars
  BY <1>1
  DEF renewalVars, RInv, RTyped, RenewalTypeOK, Minted, Held, LateIsRevoked, RevokedIsNotRenewed,
      IsRevoked
<1>. QED
  BY <1>1, HostStep, AskStep, CheckStep, MintStep, RevokeStep, AnswerStep, OtherStep
  DEF RenewalNext

-----------------------------------------------------------------------------
(* The host keeps its credential *)

Sane == ~spoiled => RevokedInTurn /\ DaysLeft

\* The numbers that the days are counted with.
LEMMA Days ==
  ASSUME RInv
  PROVE  /\ today \in Nat /\ missed \in Nat /\ missed <= Threshold
         /\ Lifetime \in Nat /\ Threshold \in Nat /\ RenewalWindow \in Nat /\ GracePeriod \in Nat
         /\ Threshold <= RenewalWindow
         /\ \A n \in Held : certs[n].ends \in Nat
<1>1. MaxMissed \in Nat /\ MaxMissed <= Threshold /\ Threshold \in Nat /\ Threshold <= RenewalWindow
  BY RenewalAssumption
<1>2. missed \in 0..MaxMissed
  BY DEF RInv, RTyped, RenewalTypeOK
<1>. QED  BY <1>1, <1>2, Parts, RenewalAssumption DEF RInv

LEMMA IdleDay ==
  ASSUME HInv, NothingToDo
  PROVE  JobUnderway' /\ Sane'
<1>1. /\ UNCHANGED <<today, certs, revoked, host, serving, job, renewing, missed, spoiled>>
      /\ job.at = "asleep" /\ ran' = TRUE
      /\ certs[host.cert].ends > today + Threshold
  BY DEF NothingToDo, Asleep
<1>2. JobUnderway'
  BY <1>1 DEF HInv, JobUnderway
<1>3. RevokedInTurn => RevokedInTurn'
  BY <1>1 DEF RevokedInTurn, IsRevoked, Waiting
<1>4. DaysLeft => DaysLeft'
  <2>1. certs[host.cert].ends \in Nat /\ today \in Nat /\ Threshold \in Nat /\ missed \in Nat
    BY Days, Before DEF HInv
  <2>. QED  BY <1>1, <2>1 DEF DaysLeft
<1>. QED  BY <1>1, <1>2, <1>3, <1>4 DEF HInv, Sane

LEMMA AskDay ==
  ASSUME HInv, NEW h \in CertHandler, NEW revokeOld \in BOOLEAN, Ask(h, revokeOld)
  PROVE  JobUnderway' /\ Sane'
<1>1. /\ UNCHANGED <<today, certs, revoked, host, serving, missed, spoiled>>
      /\ job.at = "asleep" /\ ran' = TRUE
      /\ certs[host.cert].ends <= today + Threshold
  BY DEF Ask, Asleep
<1>2. /\ certs[host.cert].ends \in Nat /\ today \in Nat /\ Threshold \in Nat /\ missed \in Nat
      /\ missed <= Threshold
  BY Days, Before DEF HInv
<1>3. CASE /\ HandshakeOK
           /\ renewing[h] = Free
           /\ renewing' = [renewing EXCEPT ![h] =
                [at |-> "request", old |-> host.cert, new |-> 0, revokeOld |-> revokeOld,
                 late |-> IsRevoked(host.cert)]]
           /\ job' = [at |-> "waiting", on |-> h]
  <2>1. /\ renewing'[h].at = "request" /\ renewing'[h].old = host.cert
        /\ \A g \in CertHandler \ {h} : renewing'[g] = renewing[g]
        /\ job'.at = "waiting" /\ job'.on = h
    BY <1>3 DEF HInv, RInv, RTyped
  <2>2. JobUnderway'
    BY <1>1, <1>3, <2>1 DEF HInv, JobUnderway, HandshakeOK, Writing
  <2>3. RevokedInTurn => RevokedInTurn'
    <3>. SUFFICES ASSUME RevokedInTurn PROVE RevokedInTurn'
      OBVIOUS
    <3>1. \A g \in CertHandler : renewing[g].at # "free" => ~renewing[g].revokeOld
      BY <1>1, HandlerParts DEF RevokedInTurn, Waiting, HInv, RInv
    <3>2. \A g \in CertHandler : renewing'[g].at # "free" /\ renewing'[g].revokeOld => g = h
      BY <2>1, <3>1
    <3>3. Waiting(h)'
      BY <1>3 DEF Waiting
    <3>4. ~IsRevoked(host.cert)' /\ host'.cert = host.cert
      BY <1>1 DEF RevokedInTurn, IsRevoked
    <3>. QED  BY <2>1, <3>2, <3>3, <3>4 DEF RevokedInTurn, Writing, IsRevoked
  <2>4. DaysLeft => DaysLeft'
    BY <1>1, <2>1 DEF DaysLeft
  <2>. QED  BY <1>1, <2>2, <2>3, <2>4 DEF HInv, Sane
<1>4. CASE ~HandshakeOK /\ UNCHANGED <<job, renewing>>
  <2>1. spoiled
    <3>. SUFFICES ASSUME ~spoiled PROVE FALSE
      OBVIOUS
    <3>1. host.cert = host.key /\ certs[host.cert].ends + missed >= today + Threshold
      BY <1>1 DEF HInv, DaysLeft
    <3>. QED  BY <1>2, <1>4, <3>1 DEF HandshakeOK
  <2>. QED  BY <1>1, <1>4, <2>1 DEF HInv, JobUnderway, Sane
<1>. QED  BY <1>3, <1>4 DEF Ask

LEMMA GiveUpDay ==
  ASSUME HInv, GiveUp
  PROVE  JobUnderway' /\ Sane'
<1>1. /\ UNCHANGED <<today, certs, revoked, host, serving, renewing, ran>>
      /\ job.at = "waiting" /\ job'.at = "asleep" /\ missed' = missed + 1
      /\ ~spoiled' => ~spoiled /\ ~renewing[job.on].revokeOld
  BY DEF GiveUp, Asleep
<1>2. JobUnderway'
  BY <1>1 DEF HInv, JobUnderway, Writing
<1>3. ASSUME ~spoiled' PROVE RevokedInTurn' /\ DaysLeft'
  <2>1. ~spoiled /\ RevokedInTurn /\ DaysLeft /\ ~renewing[job.on].revokeOld
    BY <1>1, <1>3 DEF HInv
  <2>2. \A g \in CertHandler : renewing[g].at # "free" => ~renewing[g].revokeOld
    BY <2>1 DEF RevokedInTurn, Waiting
  <2>3. ~IsRevoked(host.cert)
    BY <1>1, <2>1 DEF RevokedInTurn
  <2>4. RevokedInTurn'
    BY <1>1, <2>2, <2>3 DEF RevokedInTurn, IsRevoked, Writing
  <2>5. certs[host.cert].ends \in Nat /\ today \in Nat /\ Threshold \in Nat /\ missed \in Nat
    BY Days, Before DEF HInv
  <2>6. DaysLeft'
    BY <1>1, <2>1, <2>5 DEF DaysLeft
  <2>. QED  BY <2>4, <2>6
<1>. QED  BY <1>2, <1>3 DEF Sane

\* A job that writes has a successor minted today, and no handler revokes.
LEMMA WriteDay ==
  ASSUME HInv, WriteCert \/ WriteKey
  PROVE  JobUnderway' /\ Sane'
<1>1. /\ UNCHANGED <<today, certs, revoked, serving, renewing, ran, missed, spoiled>>
      /\ job.at \in Writing /\ job'.at \in {"key", "reload"} /\ job'.new = job.new
      /\ job' = [job EXCEPT !.at = job'.at]
      /\ host'.cert = job.new /\ (job'.at = "reload" => host'.key = job.new)
  <2>1. job.at \in Writing
    BY DEF WriteCert, WriteKey, Writing
  <2>2. job = [at |-> job.at, new |-> job.new, revokeOld |-> job.revokeOld]
    BY <2>1, JobParts DEF HInv, RInv, Writing
  <2>3. host = [cert |-> host.cert, key |-> host.key]
    BY DEF HInv, RInv, RTyped, RenewalTypeOK
  <2>4. CASE WriteCert
    BY <2>1, <2>2, <2>3, <2>4 DEF WriteCert
  <2>5. CASE WriteKey
    BY <2>1, <2>2, <2>3, <2>5 DEF WriteKey, HInv, JobUnderway
  <2>. QED  BY <2>4, <2>5
<1>2. JobUnderway'
  BY <1>1 DEF HInv, JobUnderway, Writing
<1>3. RevokedInTurn => RevokedInTurn'
  <2>. SUFFICES ASSUME RevokedInTurn PROVE RevokedInTurn'
    OBVIOUS
  <2>1. \A g \in CertHandler : renewing[g].at # "free" => ~renewing[g].revokeOld
    BY <1>1 DEF RevokedInTurn, Waiting, Writing
  <2>. QED  BY <1>1, <2>1 DEF RevokedInTurn, IsRevoked, Writing
<1>4. DaysLeft'
  BY <1>1 DEF DaysLeft
<1>. QED  BY <1>1, <1>2, <1>3, <1>4 DEF HInv, Sane

LEMMA ReloadDay ==
  ASSUME HInv, Threshold < Lifetime, Reload
  PROVE  JobUnderway' /\ Sane'
<1>1. /\ UNCHANGED <<today, certs, revoked, host, renewing, ran, missed>>
      /\ job.at = "reload" /\ job'.at = "asleep"
      /\ ~spoiled' => ~spoiled /\ serving' = host.cert
      /\ host.cert = job.new /\ host.key = job.new /\ ran
      /\ certs[host.cert].ends = today + Lifetime
  BY DEF Reload, Asleep, HInv, JobUnderway, Writing
<1>2. JobUnderway'
  BY <1>1 DEF HInv, JobUnderway, Writing
<1>3. ASSUME ~spoiled' PROVE RevokedInTurn' /\ DaysLeft'
  <2>1. ~spoiled /\ RevokedInTurn
    BY <1>1, <1>3 DEF HInv
  <2>2. \A g \in CertHandler : renewing[g].at # "free" => ~renewing[g].revokeOld
    BY <1>1, <2>1 DEF RevokedInTurn, Waiting
  <2>3. RevokedInTurn'
    BY <1>1, <2>1, <2>2 DEF RevokedInTurn, IsRevoked, Writing
  <2>4. DaysLeft'
    BY <1>1, <1>3, Days DEF DaysLeft, HInv
  <2>. QED  BY <2>3, <2>4
<1>. QED  BY <1>2, <1>3 DEF Sane

LEMMA CrashDay ==
  ASSUME HInv, Threshold < Lifetime, HostCrash
  PROVE  JobUnderway' /\ Sane'
<1>1. /\ UNCHANGED <<today, certs, revoked, host, renewing, ran>>
      /\ job.at \in Writing /\ job'.at = "asleep" /\ missed' = missed + 1
      /\ serving' = IF host.cert = host.key THEN host.cert ELSE serving
      /\ ~spoiled' => ~spoiled /\ job.at # "key" /\ ~job.revokeOld
  BY DEF HostCrash, Asleep, Writing
<1>2. JobUnderway'
  BY <1>1 DEF HInv, JobUnderway, Writing
<1>3. ASSUME ~spoiled' PROVE RevokedInTurn' /\ DaysLeft'
  <2>1. ~spoiled /\ RevokedInTurn /\ DaysLeft /\ job.at \in {"cert", "reload"} /\ ~job.revokeOld
    BY <1>1, <1>3 DEF HInv, Writing
  <2>2. \A g \in CertHandler : renewing[g].at # "free" => ~renewing[g].revokeOld
    BY <2>1 DEF RevokedInTurn, Waiting
  <2>3. ~IsRevoked(host.cert)
    BY <2>1 DEF RevokedInTurn, HInv, JobUnderway, Writing
  <2>4. RevokedInTurn'
    BY <1>1, <2>2, <2>3 DEF RevokedInTurn, IsRevoked, Writing
  <2>5. /\ certs[host.cert].ends \in Nat /\ today \in Nat /\ Threshold \in Nat /\ missed \in Nat
        /\ Lifetime \in Nat
    BY Days, Before DEF HInv
  <2>6. host.cert = host.key /\ certs[host.cert].ends + missed >= today + Threshold
    <3>1. CASE job.at = "cert"
      BY <2>1, <3>1 DEF DaysLeft
    <3>2. CASE job.at = "reload"
      BY <2>5, <3>2 DEF HInv, JobUnderway, Writing
    <3>. QED  BY <2>1, <3>1, <3>2
  <2>7. DaysLeft'
    BY <1>1, <2>5, <2>6 DEF DaysLeft
  <2>. QED  BY <2>4, <2>7
<1>. QED  BY <1>2, <1>3 DEF Sane

\* The handler of a job that waits never refuses it: the certificate is near
\* its end, has not expired and is not revoked.
LEMMA CheckDay ==
  ASSUME HInv, NEW h \in CertHandler, CheckRenewal(h)
  PROVE  JobUnderway' /\ Sane'
<1>1. /\ UNCHANGED <<today, certs, revoked, host, serving, ran, missed, spoiled>>
      /\ renewing[h].at = "request"
  BY DEF CheckRenewal
<1>2. renewing = [g \in CertHandler |-> renewing[g]]
  BY DEF HInv, RInv, RTyped
<1>3. CASE /\ renewing' = [renewing EXCEPT ![h].at = "checked"] /\ job' = job
  <2>1. /\ renewing'[h].at = "checked" /\ renewing'[h].old = renewing[h].old
        /\ renewing'[h].revokeOld = renewing[h].revokeOld
        /\ \A g \in CertHandler \ {h} : renewing'[g] = renewing[g]
    BY <1>1, <1>2, <1>3, HandlerParts DEF HInv, RInv
  <2>2. job.at = "waiting" => job.on \in CertHandler
    BY JobParts DEF HInv, RInv, Writing
  <2>3. JobUnderway'
    BY <1>1, <1>3, <2>1, <2>2 DEF HInv, JobUnderway
  <2>4. RevokedInTurn => RevokedInTurn'
    BY <1>1, <1>3, <2>1, <2>2 DEF RevokedInTurn, IsRevoked, Waiting
  <2>5. DaysLeft => DaysLeft'
    BY <1>1, <1>3 DEF DaysLeft
  <2>. QED  BY <1>1, <2>3, <2>4, <2>5 DEF HInv, Sane
<1>4. CASE /\ RevokedAnywhere(renewing[h].old) \/ ~Renewable(renewing[h].old)
           /\ renewing' = [renewing EXCEPT ![h] = Free]
           /\ job' = IF Waiting(h) THEN Asleep ELSE job
  <2>1. renewing'[h].at = "free" /\ \A g \in CertHandler \ {h} : renewing'[g] = renewing[g]
    BY <1>2, <1>4 DEF Free
  <2>2. CASE Waiting(h)
    <3>1. job.at = "waiting" /\ job.on = h /\ job'.at = "asleep"
      BY <1>4, <2>2 DEF Waiting, Asleep
    <3>2. JobUnderway'
      BY <1>1, <2>1, <3>1 DEF HInv, JobUnderway, Writing
    <3>3. Renewable(renewing[h].old)
      <4>1. /\ certs[host.cert].ends \in Nat /\ today \in Nat /\ Threshold \in Nat
            /\ RenewalWindow \in Nat /\ GracePeriod \in Nat /\ Threshold <= RenewalWindow
        BY Days, Before DEF HInv
      <4>2. /\ renewing[h].old = host.cert
            /\ certs[host.cert].ends <= today + Threshold /\ today <= certs[host.cert].ends
        BY <3>1 DEF HInv, JobUnderway
      <4>. QED  BY <4>1, <4>2 DEF Renewable
    <3>4. spoiled
      BY <1>1, <1>4, <3>1, <3>3
      DEF HInv, JobUnderway, RevokedInTurn, RevokedAnywhere, IsRevoked
    <3>. QED  BY <1>1, <3>2, <3>4 DEF Sane
  <2>3. CASE ~Waiting(h)
    <3>1. job' = job /\ (job.at = "waiting" => job.on \in CertHandler \ {h})
      BY <1>4, <2>3, JobParts DEF Waiting, HInv, RInv, Writing
    <3>2. JobUnderway'
      BY <1>1, <2>1, <3>1 DEF HInv, JobUnderway
    <3>3. RevokedInTurn => RevokedInTurn'
      BY <1>1, <2>1, <3>1 DEF RevokedInTurn, IsRevoked, Waiting
    <3>4. DaysLeft => DaysLeft'
      BY <1>1, <3>1 DEF DaysLeft
    <3>. QED  BY <1>1, <3>2, <3>3, <3>4 DEF HInv, Sane
  <2>. QED  BY <2>2, <2>3
<1>. QED  BY <1>3, <1>4 DEF CheckRenewal, Done

\* A successor is new: its serial is nobody's yet, and it ends a lifetime from now.
LEMMA MintDay ==
  ASSUME HInv, NEW h \in CertHandler, MintSuccessor(h)
  PROVE  JobUnderway' /\ Sane'
<1>1. /\ UNCHANGED <<today, revoked, host, serving, job, ran, missed, spoiled>>
      /\ renewing[h].at = "checked"
      /\ certs' = Append(certs, [kind |-> "client-mtls", ends |-> today + Lifetime])
  BY DEF MintSuccessor
<1>2. /\ Len(certs) \in Nat /\ Len(certs') = Len(certs) + 1
      /\ certs'[Len(certs')].ends = today + Lifetime
      /\ \A n \in Held : certs'[n] = certs[n]
      /\ Len(certs') \notin Held
  <2>1. certs \in Seq([kind : Kind, ends : 0..(MaxDays + Lifetime)])
    BY DEF HInv, RInv, RTyped, RenewalTypeOK
  <2>. QED  BY <1>1, <2>1, SeqParts DEF Held
<1>3. /\ renewing'[h].at = (IF renewing[h].revokeOld THEN "minted" ELSE "answer")
      /\ renewing'[h].new = Len(certs') /\ renewing'[h].old = renewing[h].old
      /\ renewing'[h].revokeOld = renewing[h].revokeOld
      /\ \A g \in CertHandler \ {h} : renewing'[g] = renewing[g]
  <2>1. /\ renewing = [g \in CertHandler |-> renewing[g]]
        /\ renewing[h] = [at |-> renewing[h].at, old |-> renewing[h].old,
                          new |-> renewing[h].new, revokeOld |-> renewing[h].revokeOld,
                          late |-> renewing[h].late]
    BY <1>1, HandlerParts DEF HInv, RInv, RTyped
  <2>. QED  BY <2>1 DEF MintSuccessor
<1>4. /\ host.cert \in Held
      /\ job.at = "waiting" => job.on \in CertHandler
      /\ job.at \in Writing => job.new \in Held
      /\ \A g \in CertHandler : renewing[g].at \in {"minted", "answer"} => renewing[g].new \in Held
      /\ \A i \in ListIssuer : revoked[i] \subseteq Held
  BY JobParts DEF HInv, RInv, RTyped, Minted, Writing
<1>5. JobUnderway'
  <2>1. ASSUME job.at = "waiting"
        PROVE  /\ renewing'[job.on].at # "free" /\ renewing'[job.on].old = host.cert
               /\ renewing'[job.on].at \in {"minted", "answer"} =>
                    /\ renewing'[job.on].new # host.cert
                    /\ certs'[renewing'[job.on].new].ends = today + Lifetime
    <3>1. CASE job.on = h
      BY <1>1, <1>2, <1>3, <1>4, <2>1, <3>1 DEF HInv, JobUnderway
    <3>2. CASE job.on # h
      <4>1. renewing'[job.on] = renewing[job.on]
        BY <1>3, <1>4, <2>1, <3>2
      <4>. QED  BY <1>2, <1>4, <2>1, <4>1 DEF HInv, JobUnderway
    <3>. QED  BY <3>1, <3>2
  <2>2. \A g \in CertHandler : renewing'[g].at = "minted" => renewing'[g].revokeOld
    BY <1>3 DEF HInv, JobUnderway
  <2>3. job.at \in Writing => certs'[job.new].ends = today + Lifetime
    BY <1>2, <1>4 DEF HInv, JobUnderway
  <2>4. certs'[host.cert].ends = certs[host.cert].ends
    BY <1>2, <1>4
  <2>. QED  BY <1>1, <2>1, <2>2, <2>3, <2>4 DEF HInv, JobUnderway
<1>6. RevokedInTurn => RevokedInTurn'
  <2>. SUFFICES ASSUME RevokedInTurn PROVE RevokedInTurn'
    OBVIOUS
  <2>1. ~IsRevoked(Len(certs'))
    BY <1>2, <1>4 DEF IsRevoked
  <2>2. \A g \in CertHandler : renewing'[g].at # "free" /\ renewing'[g].revokeOld => Waiting(g)
    BY <1>1, <1>3 DEF RevokedInTurn
  <2>3. job.at = "waiting" => ~IsRevoked(host.cert) \/ job.on # h
    BY <1>1 DEF RevokedInTurn
  <2>4. job.at = "waiting" /\ IsRevoked(host.cert) =>
          renewing'[job.on].at = "answer" /\ renewing'[job.on].revokeOld
    BY <1>3, <1>4, <2>3 DEF RevokedInTurn
  <2>5. job.at = "waiting" /\ renewing'[job.on].at \in {"minted", "answer"} =>
          ~IsRevoked(renewing'[job.on].new)
    BY <1>3, <1>4, <2>1 DEF RevokedInTurn
  <2>. QED  BY <1>1, <2>2, <2>4, <2>5 DEF RevokedInTurn, IsRevoked, Waiting
<1>7. DaysLeft => DaysLeft'
  BY <1>1, <1>2, <1>4 DEF DaysLeft
<1>. QED  BY <1>1, <1>5, <1>6, <1>7 DEF HInv, Sane

\* Without an accident the job waits for the handler that revokes, and has the
\* certificate that it revokes.
LEMMA RevokeDay ==
  ASSUME HInv, NEW h \in CertHandler, RevokePredecessor(h)
  PROVE  JobUnderway' /\ Sane'
<1>1. /\ UNCHANGED <<today, certs, host, serving, job, ran, missed, spoiled>>
      /\ renewing[h].at = "minted" /\ renewing[h].new \in Held /\ renewing[h].old \in Held
      /\ \/ revoked' = [revoked EXCEPT !["user-mint"] = @ \cup {renewing[h].old}]
         \/ revoked' = revoked
  BY DEF RevokePredecessor, HInv, RInv, RTyped, Minted
<1>2. /\ renewing'[h].at = "answer"
      /\ renewing'[h].new = renewing[h].new /\ renewing'[h].old = renewing[h].old
      /\ renewing'[h].revokeOld = renewing[h].revokeOld
      /\ \A g \in CertHandler \ {h} : renewing'[g] = renewing[g]
  <2>1. /\ renewing = [g \in CertHandler |-> renewing[g]]
        /\ renewing[h] = [at |-> renewing[h].at, old |-> renewing[h].old,
                          new |-> renewing[h].new, revokeOld |-> renewing[h].revokeOld,
                          late |-> renewing[h].late]
    BY <1>1, HandlerParts DEF HInv, RInv, RTyped
  <2>. QED  BY <2>1 DEF RevokePredecessor
<1>3. job.at = "waiting" => job.on \in CertHandler
  BY JobParts DEF HInv, RInv, Writing
<1>4. JobUnderway'
  BY <1>1, <1>2, <1>3 DEF HInv, JobUnderway
<1>5. \A n : IsRevoked(n)' => IsRevoked(n) \/ n = renewing[h].old
  BY <1>1, Before DEF IsRevoked, ListIssuer, HInv
<1>6. RevokedInTurn => RevokedInTurn'
  <2>. SUFFICES ASSUME RevokedInTurn PROVE RevokedInTurn'
    OBVIOUS
  <2>1. job.at = "waiting" /\ job.on = h
    BY <1>1 DEF HInv, JobUnderway, RevokedInTurn, Waiting
  <2>2. renewing[h].old = host.cert /\ renewing[h].new # host.cert /\ renewing[h].revokeOld
    BY <1>1, <2>1 DEF HInv, JobUnderway
  <2>3. \A g \in CertHandler : renewing'[g].at # "free" /\ renewing'[g].revokeOld => Waiting(g)
    BY <1>1, <1>2 DEF RevokedInTurn
  <2>4. ~IsRevoked(renewing[h].new)'
    BY <1>1, <1>2, <1>5, <2>1, <2>2 DEF RevokedInTurn
  <2>. QED  BY <1>1, <1>2, <2>1, <2>2, <2>3, <2>4 DEF RevokedInTurn, Waiting, Writing
<1>7. DaysLeft => DaysLeft'
  BY <1>1 DEF DaysLeft
<1>. QED  BY <1>1, <1>4, <1>6, <1>7 DEF HInv, Sane

LEMMA AnswerDay ==
  ASSUME HInv, NEW h \in CertHandler, AnswerRenewal(h)
  PROVE  JobUnderway' /\ Sane'
<1>1. /\ UNCHANGED <<today, certs, revoked, host, serving, ran, missed, spoiled>>
      /\ renewing[h].at = "answer"
  BY DEF AnswerRenewal
<1>2. renewing'[h].at = "free" /\ \A g \in CertHandler \ {h} : renewing'[g] = renewing[g]
  <2>1. renewing = [g \in CertHandler |-> renewing[g]]
    BY DEF HInv, RInv, RTyped
  <2>. QED  BY <2>1 DEF AnswerRenewal, Done, Free
<1>3. CASE Waiting(h)
  <2>1. /\ job.at = "waiting" /\ job.on = h
        /\ job' = [at |-> "cert", new |-> renewing[h].new, revokeOld |-> renewing[h].revokeOld]
    BY <1>3 DEF AnswerRenewal, Waiting
  <2>2. JobUnderway'
    BY <1>1, <1>2, <2>1 DEF HInv, JobUnderway, Writing
  <2>3. RevokedInTurn => RevokedInTurn'
    <3>. SUFFICES ASSUME RevokedInTurn PROVE RevokedInTurn'
      OBVIOUS
    <3>1. \A g \in CertHandler : renewing'[g].at # "free" => ~renewing'[g].revokeOld
      BY <1>2, <2>1 DEF RevokedInTurn, Waiting
    <3>2. ~IsRevoked(renewing[h].new) /\ (~renewing[h].revokeOld => ~IsRevoked(host.cert))
      BY <1>1, <2>1 DEF RevokedInTurn
    <3>. QED  BY <1>1, <2>1, <3>1, <3>2 DEF RevokedInTurn, IsRevoked, Writing
  <2>4. DaysLeft => DaysLeft'
    BY <1>1, <2>1 DEF DaysLeft
  <2>. QED  BY <1>1, <2>2, <2>3, <2>4 DEF HInv, Sane
<1>4. CASE ~Waiting(h)
  <2>1. job' = job /\ (job.at = "waiting" => job.on \in CertHandler \ {h})
    BY <1>4, JobParts DEF AnswerRenewal, Waiting, HInv, RInv, Writing
  <2>2. JobUnderway'
    BY <1>1, <1>2, <2>1 DEF HInv, JobUnderway
  <2>3. RevokedInTurn => RevokedInTurn'
    BY <1>1, <1>2, <2>1 DEF RevokedInTurn, IsRevoked, Waiting
  <2>4. DaysLeft => DaysLeft'
    BY <1>1, <2>1 DEF DaysLeft
  <2>. QED  BY <1>1, <2>2, <2>3, <2>4 DEF HInv, Sane
<1>. QED  BY <1>3, <1>4

LEMMA NextDayDay ==
  ASSUME HInv, NextDay
  PROVE  JobUnderway' /\ Sane'
<1>1. /\ UNCHANGED <<certs, revoked, host, serving, job, renewing, missed, spoiled>>
      /\ today' = today + 1 /\ ran /\ ran' = FALSE /\ job.at = "asleep"
  BY DEF NextDay, Asleep
<1>2. JobUnderway'
  BY <1>1 DEF HInv, JobUnderway, Writing
<1>3. RevokedInTurn => RevokedInTurn'
  BY <1>1 DEF RevokedInTurn, IsRevoked, Waiting
<1>4. DaysLeft => DaysLeft'
  <2>1. certs[host.cert].ends \in Nat /\ today \in Nat /\ Threshold \in Nat /\ missed \in Nat
    BY Days, Before DEF HInv
  <2>. QED  BY <1>1, <2>1 DEF DaysLeft
<1>. QED  BY <1>1, <1>2, <1>3, <1>4 DEF HInv, Sane

LEMMA HInvStep ==
  ASSUME HInv, Threshold < Lifetime, [RenewalNext]_renewalVars
  PROVE  HInv'
<1>1. RInv'
  BY RInvStep DEF HInv
<1>2. CASE UNCHANGED renewalVars
  BY <1>1, <1>2
  DEF renewalVars, HInv, JobUnderway, RevokedInTurn, DaysLeft, IsRevoked, Waiting
<1>3. CASE \E n \in Serial, i \in ListIssuer : RevokeCert(n, i)
  <2>1. /\ UNCHANGED <<today, certs, host, job, renewing, ran>>
        /\ spoiled' = TRUE
    BY <1>3 DEF RevokeCert
  <2>. QED  BY <1>1, <2>1 DEF HInv, JobUnderway
<1>4. ASSUME RenewalNext, ~\E n \in Serial, i \in ListIssuer : RevokeCert(n, i)
      PROVE  JobUnderway' /\ Sane'
  BY <1>4, IdleDay, GiveUpDay, WriteDay, ReloadDay, CrashDay, NextDayDay, AskDay, CheckDay,
     MintDay, RevokeDay, AnswerDay
  DEF RenewalNext
<1>. QED  BY <1>1, <1>2, <1>3, <1>4 DEF HInv, Sane

-----------------------------------------------------------------------------
(* Theorems *)

\* The files, the jobs, the handlers and the lists keep their types (admin.py
\* cert_renew, mssh-admin cert renew).
THEOREM RenewalTyped == RenewalSpec => []RenewalTypeOK
<1>1. RInv => RenewalTypeOK
  BY DEF RInv, RTyped
<1>. QED  BY <1>1, RInvInit, RInvStep, PTL DEF RenewalSpec

\* A certificate that some issuer's list holds when the request comes has no
\* successor, whichever handlers and revocations meet (cert_renew's loop).
THEOREM NoSuccessorForRevoked == RenewalSpec => []RevokedIsNotRenewed
<1>1. RInv => RevokedIsNotRenewed
  BY DEF RInv
<1>. QED  BY <1>1, RInvInit, RInvStep, PTL DEF RenewalSpec

\* With certificates that last longer than the threshold, as many runs may come
\* to nothing as the threshold has days: between jobs the host still holds, and
\* serves, a pair that neither expired nor was revoked (cert renew, the timer).
THEOREM CredentialKept ==
  ASSUME Threshold < Lifetime
  PROVE  RenewalSpec => []HostKeepsItsCredential
<1>1. HInv => HostKeepsItsCredential
  <2>. SUFFICES ASSUME HInv, job = Asleep, ~spoiled
                PROVE  /\ host.cert = host.key /\ serving = host.cert
                       /\ today <= certs[host.cert].ends
                       /\ ~IsRevoked(host.cert)
    BY DEF HostKeepsItsCredential
  <2>1. job.at = "asleep"
    BY DEF Asleep
  <2>2. /\ certs[host.cert].ends \in Nat /\ today \in Nat /\ Threshold \in Nat /\ missed \in Nat
        /\ missed <= Threshold
    BY Days, Before DEF HInv
  <2>. QED  BY <2>1, <2>2 DEF HInv, RevokedInTurn, DaysLeft
<1>2. RenewalInit => HInv
  BY HInvInit
<1>3. HInv /\ [RenewalNext]_renewalVars => HInv'
  BY HInvStep
<1>. QED  BY <1>1, <1>2, <1>3, PTL DEF RenewalSpec
==============================================================================
