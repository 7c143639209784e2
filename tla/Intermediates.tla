---------------------------- MODULE Intermediates ----------------------------
(***************************************************************************)
(* The key files of the CA (cert_minter.py, roots.py) and the handlers     *)
(* that replace and use them (admin.py), without a lock between them.      *)
(*                                                                         *)
(* A role's pair cert.pem, key.pem is replaced by intermediate_rotate, one *)
(* file after the other, and copied to the alias files that a process      *)
(* loads when it starts and signs with until it ends.  An external         *)
(* intermediate's pair is written once, perhaps under a root of its own,   *)
(* and read again for each leaf.  A keypair is a number; a certificate is  *)
(* the number of the keypair that it certifies.                            *)
(***************************************************************************)
EXTENDS Naturals, FiniteSets

CONSTANTS
  Intermediate, \* the intermediates with alias files: user-mint and auth
  External,    \* names of external intermediates
  Root,        \* names of further roots
  Worker,      \* request threads
  CrashTears,  \* may the process die between two writes?
  MaxCaKeys,   \* bound: keypairs generated
  MaxSeconds   \* bound: seconds that pass

ASSUME IntermediatesAssumption ==
  /\ Intermediate \cap External = {}
  /\ "primary" \notin Root /\ "none" \notin Root   \* the first is refused, the other no name
  /\ IsFiniteSet(Intermediate) /\ Cardinality(Intermediate) <= MaxCaKeys
  /\ CrashTears \in BOOLEAN
  /\ MaxCaKeys \in Nat
  /\ MaxSeconds \in Nat

VARIABLES
  pair,       \* intermediates/<role> and external/<name>: [cert, key]
  alias,      \* signing-*.pem, tls-ca-*.pem
  archive,    \* *.pem.archive.<second>: a set of [of, second, cert, key]
  rootFiles,  \* roots/<name>: "none", "directory", "cert", "whole"
  loaded,     \* what the running process signs with
  work,       \* where each thread is
  generated,  \* history: how many keypairs were generated
  second,     \* the time, as archive names and cert serials see it
  leaves,     \* history: leaves signed: [of, by, under]
  upset,      \* history: pairs whose writers overlapped or were cut short
  rotated,    \* history: the keypair of the last rotation answered, per role
  rootOf      \* history: the root that an external intermediate was signed with

intermediatesVars == <<pair, alias, archive, rootFiles, loaded, work, generated, second,
                       leaves, upset, rotated, rootOf>>

Issuer == Intermediate \cup External
Number == 0..MaxCaKeys          \* 0: no such file
Pair == [cert : Number, key : Number]
Resting == [at |-> "rest"]

\* Every variable has its type.
IntermediatesTypeOK ==
  /\ pair \in [Issuer -> Pair]
  /\ alias \in [Intermediate -> Pair]
  /\ archive \subseteq [of : Intermediate, second : 0..MaxSeconds, cert : Number, key : Number]
  /\ rootFiles \in [Root -> {"none", "directory", "cert", "whole"}]
  /\ loaded \in [Intermediate -> Pair]
  /\ \A w \in Worker :
       \/ work[w] = Resting
       \/ work[w] \in [at : {"new", "archive_key", "cert", "key", "alias_cert", "alias_key", "answer"},
                       of : Intermediate, new : Number, second : 0..MaxSeconds, old : Number]
       \/ work[w] \in [at : {"root", "root_cert", "root_key", "mkdir", "xkey", "xanswer"},
                       of : External, root : Root \cup {"primary"}, new : Number, retain : BOOLEAN]
       \/ work[w] \in [at : {"sign"}, of : External, cert : Number]
  /\ generated \in Number
  /\ second \in 0..MaxSeconds
  /\ leaves \subseteq [of : Issuer, by : Number, under : Number]
  /\ upset \subseteq Issuer
  /\ rotated \in [Intermediate -> Number]
  /\ rootOf \in [External -> Root \cup {"none", "primary"}]

\* bootstrap_ca, then create_app: a pair for each role, its alias, and no other.
IntermediatesInit ==
  /\ generated = Cardinality(Intermediate)
  /\ \E first \in [Intermediate -> 1..generated] :
       /\ \A r, q \in Intermediate : first[r] = first[q] => r = q
       /\ alias = [r \in Intermediate |-> [cert |-> first[r], key |-> first[r]]]
       /\ pair = [x \in Issuer |-> IF x \in Intermediate THEN alias[x] ELSE [cert |-> 0, key |-> 0]]
       /\ rotated = first
  /\ loaded = alias
  /\ archive = {}
  /\ rootFiles = [r \in Root |-> "none"]
  /\ work = [w \in Worker |-> Resting]
  /\ second = 0
  /\ leaves = {}
  /\ upset = {}
  /\ rootOf = [x \in External |-> "none"]

Step(w, at) == work' = [work EXCEPT ![w].at = at]
NotInFiles == <<loaded, second, leaves, upset, rotated, rootOf>>

\* The other writers of x: a thread that rotates, mints or archives it.
Writers(x) == {w \in Worker : work[w].at \notin {"rest", "sign"} /\ work[w].of = x}

-----------------------------------------------------------------------------
(* intermediate_rotate *)

\* A new keypair, certified by the root; the second names the archive.
Rotate(w, r) ==
  /\ work[w] = Resting
  /\ generated < MaxCaKeys
  /\ generated' = generated + 1
  /\ work' = [work EXCEPT ![w] = [at |-> "new", of |-> r, new |-> generated', second |-> second,
                                  old |-> 0]]
  /\ upset' = IF Writers(r) # {} \/ \E a \in archive : a.of = r /\ a.second = second
              THEN upset \cup {r} ELSE upset
  /\ UNCHANGED <<pair, alias, archive, rootFiles, loaded, second, leaves, rotated, rootOf>>

SameArchive(a, w) == a.of = work[w].of /\ a.second = work[w].second

\* cert.pem.archive.<second>; a file of that name is replaced.
ArchiveCert(w) ==
  /\ work[w].at = "new"
  /\ LET old == {a \in archive : SameArchive(a, w)}
         keyThere == IF old = {} THEN 0 ELSE (CHOOSE a \in old : TRUE).key
     IN archive' = (archive \ old) \cup
          {[of |-> work[w].of, second |-> work[w].second,
            cert |-> pair[work[w].of].cert, key |-> keyThere]}
  /\ Step(w, "archive_key")
  /\ UNCHANGED <<pair, alias, rootFiles, generated, NotInFiles>>

\* A slip: the old certificate is archived, not its key.
ArchiveKeyForgotten(w) ==
  /\ work[w].at = "archive_key"
  /\ Step(w, "cert")
  /\ UNCHANGED <<pair, alias, archive, rootFiles, generated, NotInFiles>>

\* ... and key.pem.archive.<second>.
ArchiveKey(w) ==
  /\ work[w].at = "archive_key"
  /\ archive' = {IF SameArchive(a, w) THEN [a EXCEPT !.key = pair[work[w].of].key] ELSE a :
                   a \in archive}
  /\ Step(w, "cert")
  /\ UNCHANGED <<pair, alias, rootFiles, generated, NotInFiles>>

RotateCert(w) ==
  /\ work[w].at = "cert"
  /\ pair' = [pair EXCEPT ![work[w].of].cert = work[w].new]
  /\ Step(w, "key")
  /\ UNCHANGED <<alias, archive, rootFiles, generated, NotInFiles>>

RotateKey(w) ==
  /\ work[w].at = "key"
  /\ pair' = [pair EXCEPT ![work[w].of].key = work[w].new]
  /\ Step(w, "alias_cert")
  /\ UNCHANGED <<alias, archive, rootFiles, generated, NotInFiles>>

AliasCert(w) ==
  /\ work[w].at = "alias_cert"
  /\ alias' = [alias EXCEPT ![work[w].of].cert = work[w].new]
  /\ Step(w, "alias_key")
  /\ UNCHANGED <<pair, archive, rootFiles, generated, NotInFiles>>

AliasKey(w) ==
  /\ work[w].at = "alias_key"
  /\ alias' = [alias EXCEPT ![work[w].of].key = work[w].new]
  /\ Step(w, "answer")
  /\ UNCHANGED <<pair, archive, rootFiles, generated, NotInFiles>>

\* Audit and 200.  The process goes on signing with what it loaded.
RotateAnswer(w) ==
  /\ work[w].at = "answer"
  /\ rotated' = [rotated EXCEPT ![work[w].of] = work[w].new]
  /\ work' = [work EXCEPT ![w] = Resting]
  /\ UNCHANGED <<pair, alias, archive, rootFiles, loaded, generated, second, leaves, upset, rootOf>>

-----------------------------------------------------------------------------
(* external_intermediate_mint *)

\* The name is free; the root is the primary one, or a named one that is whole,
\* or one to be made.  Without retain_key the key is only in the answer.
MintExternal(w, x, root, retain) ==
  /\ work[w] = Resting
  /\ pair[x].cert = 0
  /\ generated < MaxCaKeys
  /\ generated' = generated + 1
  /\ work' = [work EXCEPT ![w] =
       [at |-> IF root = "primary" \/ rootFiles[root] = "whole" THEN "mkdir" ELSE "root",
        of |-> x, root |-> root, new |-> generated', retain |-> retain]]
  /\ upset' = IF Writers(x) # {} THEN upset \cup {x} ELSE upset
  /\ UNCHANGED <<pair, alias, archive, rootFiles, loaded, second, leaves, rotated, rootOf>>

\* create_new_root: a directory that is there makes it 400, or 500 when two
\* threads pass the test together.
RootDirectory(w) ==
  /\ work[w].at = "root"
  /\ IF rootFiles[work[w].root] = "none"
     THEN rootFiles' = [rootFiles EXCEPT ![work[w].root] = "directory"] /\ Step(w, "root_cert")
     ELSE work' = [work EXCEPT ![w] = Resting] /\ UNCHANGED rootFiles
  /\ UNCHANGED <<pair, alias, archive, generated, NotInFiles>>

RootCert(w) ==
  /\ work[w].at = "root_cert"
  /\ rootFiles' = [rootFiles EXCEPT ![work[w].root] = "cert"]
  /\ Step(w, "root_key")
  /\ UNCHANGED <<pair, alias, archive, generated, NotInFiles>>

RootKey(w) ==
  /\ work[w].at = "root_key"
  /\ rootFiles' = [rootFiles EXCEPT ![work[w].root] = "whole"]
  /\ Step(w, "mkdir")
  /\ UNCHANGED <<pair, alias, archive, generated, NotInFiles>>

\* mkdir(exist_ok) and cert.pem, whoever else has done so meanwhile ...
ExternalCert(w) ==
  /\ work[w].at = "mkdir"
  /\ pair' = [pair EXCEPT ![work[w].of].cert = work[w].new]
  /\ rootOf' = [rootOf EXCEPT ![work[w].of] = work[w].root]
  /\ Step(w, IF work[w].retain THEN "xkey" ELSE "xanswer")
  /\ UNCHANGED <<alias, archive, rootFiles, loaded, generated, second, leaves, upset, rotated>>

\* ... then key.pem ...
ExternalKey(w) ==
  /\ work[w].at = "xkey"
  /\ pair' = [pair EXCEPT ![work[w].of].key = work[w].new]
  /\ Step(w, "xanswer")
  /\ UNCHANGED <<alias, archive, rootFiles, generated, NotInFiles>>

ExternalAnswer(w) ==
  /\ work[w].at = "xanswer"
  /\ work' = [work EXCEPT ![w] = Resting]
  /\ UNCHANGED <<pair, alias, archive, rootFiles, loaded, generated, second, leaves, upset, rotated, rootOf>>

-----------------------------------------------------------------------------
(* Leaves, time and restarts *)

\* mint_authorization_cert, issue_*_cert: the signature is the loaded key's, the
\* chain in the answer the loaded certificate's.
SignLeaf(r) ==
  /\ leaves' = leaves \cup {[of |-> r, by |-> loaded[r].key, under |-> loaded[r].cert]}
  /\ UNCHANGED <<pair, alias, archive, rootFiles, loaded, work, generated, second, upset, rotated, rootOf>>

\* external_use_cert_mint reads cert.pem, 404 without it ...
ReadExternalCert(w, x) ==
  /\ work[w] = Resting
  /\ pair[x].cert # 0
  /\ work' = [work EXCEPT ![w] = [at |-> "sign", of |-> x, cert |-> pair[x].cert]]
  /\ UNCHANGED <<pair, alias, archive, rootFiles, generated, NotInFiles>>

\* ... then key.pem, 409 without it.
SignExternal(w) ==
  /\ work[w].at = "sign"
  /\ leaves' = IF pair[work[w].of].key = 0 THEN leaves
               ELSE leaves \cup {[of |-> work[w].of, by |-> pair[work[w].of].key,
                                  under |-> work[w].cert]}
  /\ work' = [work EXCEPT ![w] = Resting]
  /\ UNCHANGED <<pair, alias, archive, rootFiles, loaded, generated, second, upset, rotated, rootOf>>

SecondPasses ==
  /\ second < MaxSeconds
  /\ second' = second + 1
  /\ UNCHANGED <<pair, alias, archive, rootFiles, loaded, work, generated, leaves, upset, rotated, rootOf>>

\* A restart, after the requests have ended or in the middle of them.
Restart ==
  /\ CrashTears \/ \A w \in Worker : work[w] = Resting
  /\ loaded' = alias
  /\ upset' = upset \cup {x \in Issuer : Writers(x) # {}}
  /\ work' = [w \in Worker |-> Resting]
  /\ UNCHANGED <<pair, alias, archive, rootFiles, generated, second, leaves, rotated, rootOf>>

IntermediatesNext ==
  \/ \E w \in Worker :
       \/ \E r \in Intermediate : Rotate(w, r)
       \/ ArchiveCert(w) \/ ArchiveKey(w) \/ RotateCert(w) \/ RotateKey(w)
       \/ AliasCert(w) \/ AliasKey(w) \/ RotateAnswer(w)
       \/ \E x \in External : \/ ReadExternalCert(w, x)
                              \/ \E root \in Root \cup {"primary"}, retain \in BOOLEAN :
                                   MintExternal(w, x, root, retain)
       \/ RootDirectory(w) \/ RootCert(w) \/ RootKey(w)
       \/ ExternalCert(w) \/ ExternalKey(w) \/ ExternalAnswer(w) \/ SignExternal(w)
  \/ \E r \in Intermediate : SignLeaf(r)
  \/ SecondPasses
  \/ Restart

IntermediatesSpec == IntermediatesInit /\ [][IntermediatesNext]_intermediatesVars

-----------------------------------------------------------------------------
(* Properties *)

\* A leaf verifies under the certificate that is handed out with it, whatever
\* rotations and restarts went before: a process never loads half of a pair,
\* unless two writers of the pair overlapped or one was cut short.
ChainsVerify ==
  \A leaf \in leaves : leaf.by = leaf.under \/ leaf.of \in upset

\* Between rotations the alias files are the role's own files: a restart takes
\* up the pair that intermediate_list shows.
AliasesInSync ==
  \A r \in Intermediate : r \in upset \/ Writers(r) # {} \/ alias[r] = pair[r]

\* A keypair that signed leaves is kept, with its certificate, in the role's
\* files or its archives, unless two rotations of the role met or shared a second.
SignersAreKept ==
  \A leaf \in leaves :
    \/ leaf.of \in upset \/ leaf.of \in External \/ Writers(leaf.of) # {}
    \/ pair[leaf.of] = [cert |-> leaf.by, key |-> leaf.by]
    \/ \E a \in archive : a.of = leaf.of /\ a.cert = leaf.by /\ a.key = leaf.by

\* An external intermediate on disk hangs from a root that is whole: a crash in
\* the middle of a mint leaves a root without an intermediate, never the reverse.
RootsAreWhole ==
  \A x \in External : rootOf[x] \in Root => rootFiles[rootOf[x]] = "whole"

\* The files of every issuer go together and outlive what they have signed.
KeyFilesSound == ChainsVerify /\ AliasesInSync /\ SignersAreKept /\ RootsAreWhole

-----------------------------------------------------------------------------
(* A claim of the docs that does not hold *)

\* "New authz certs are signed by the new keypair": a leaf that is signed after
\* a rotation was answered is signed by the keypair of that rotation.
NewKeySigns ==
  [][\A leaf \in leaves' \ leaves : leaf.of \in Intermediate \ upset => leaf.by = rotated[leaf.of]]_intermediatesVars
=============================================================================
