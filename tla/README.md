# TLA+ models of mssh

mssh puts short-lived certificates in front of OpenSSH. A **CA** (`mssh-ca`)
decides per connection whether a principal may log in and mints a certificate; an
**msshd** on every host terminates TLS, asks the CA, caches the answer, and
forwards the SSH session to an inner sshd; a host without msshd asks through a
**shim** that a stock sshd runs; a **passkey broker** (`mssh-passkey`) shows WebAuthn
ceremonies to administrators and calls the CA back. Paths below are relative to
`src/python/packages/`.

The hard part of the system is not any single handler but what happens between
them: a revocation that overtakes a grant, a process that dies between two
writes, a callback that is delivered twice, a file that two threads replace. That
is what the modules here are about.

## 1. Components

| component | state | operations | hard behaviour | what makes it correct | modelled in |
|---|---|---|---|---|---|
| msshd authorization cache (`authz_cache.py`) | one grant per principal, applied CRL number per issuer, both in `authz_cache.json` | get, put, invalidate, invalidate_by_serial, set_last_crl_seq, load, persist | writes that raise; crash between drops and number | a number on disk is never ahead of what was dropped | `MsshdEnforce` |
| CRL sync (`crl_sync.py`) | one background task | maybe_sync, paging, apply | races with grants; pages; lost entries; the task's end | every number it was started with is reached, over no entry it revokes | `MsshdEnforce` |
| enforce listener (`enforce_listener.py`) | known CA numbers | gate, hit, miss, deny, grant, bypass injection | two connections of one principal; stale gate | the gate never runs on numbers the CA has not given | `MsshdEnforce` |
| CA CRL store and feed (`crl.py`, `server.py`) | JSONL file, counter | append, scan, fetch_after | torn, short and failed writes; crash | order of numbers; nothing skipped | `CrlStore`, `CrlFeed` |
| CA authorize handler (`authorize.py`) | certs minted | deny, mint, report numbers | numbers read after the mint | the decision is that of the policies, the certificate says what was decided | `MsshdEnforce`, `PolicyDecision`, `CertExtensions` |
| CA policy evaluation (`policy.py`) | a user's policies, the clock | evaluate, add, remove | windows over midnight; networks and hours that do not parse; the merge | the sum of what the policies grant one by one, as long as each can be read | `PolicyDecision` |
| CA enrollment store (`enrollment.py`, `templates.py`) | maps and a YAML file, policy counter | add and remove servers, users, keys, policies, admins, tools; templates; load, save | save raises after the maps changed; admins who remove each other; ids after a restart | a superuser remains; ids name one policy; what is audited is on disk | `Enrollment` |
| CA WireGuard service (`wireguard.py`) | a catalog file | init, remove, issue, revoke, show | the search for a free number; handlers that read twice | one peer to an address; no mixed configs | `WireGuard` |
| CA audit log (`audit.py`) | a chain of hashed lines | write, verify_chain | torn and glued lines | breaks are at tears; a clean log is complete | `AuditLog` |
| CA minter, intermediates (`cert_minter.py`, `roots.py`, part of `admin.py`) | pairs, aliases, archives, roots | rotate, mint external, sign | five files written one by one, no lock | chains verify, signers are kept, roots are whole | `Intermediates` |
| certificate renewal (`mssh-admin` `cert renew`, `admin.py` `cert_renew`) | two files, a service, CRLs | daily job, check, mint, revoke, answer | lost answers, crash between two renames | a host keeps its credential; the revoked have no successor | `CertRenewal` |
| certificate extensions (`cert_minter.py`, msshd's `policy.py`) | none | two hand-written DER codecs | lengths, signs, the equals sign | what is written is what is read | `CertExtensions` |
| inner sshd, per connection (`inner.py`) | ports in use, sessions, directories, processes | acquire, release, start | everything awaits; processes die or outlive msshd | one port each, nothing left behind, the session's own sshd | `SessionPool` |
| SSH proxy, frames, client (`ssh_proxy.py`, `frame.py`, `client.py`) | two streams, a channel | header, ack, pumps, end, exit | status overtakes output; reset; four tasks that wait for each other | what the client returns is true; it returns | `SessionProtocol` |
| shim and its AuthorizedKeysCommand (`shim.py`, `sqlite_cache.py`, `ca_client.py`, `openssh_shim.py`) | cache, emergency certificate | authorize | failover, late answers, age of entries | every yes has a reason, and dies out | `ShimAuthorize` |
| passkey broker (`storage.py`, `views_*.py`, `callback.py`, `sweeper.py`) | SQLite rows, `_in_flight` | create, respond, deny, cancel, sweep, deliver | races on one row; retries; restart | one outcome; every callback ends | `PasskeyCeremony` |
| CA passkey flow (`admin.py`, `passkey.py`, `enrollment.py`) | pending ceremonies, sign counts, 2FA cache | enroll, challenge, callback, revoke | repeated and late callbacks; restart forgets | accepted at most once, delivered means done | `PasskeyCeremony` |
| other listeners, long-lived inner sshd, configuration, rendering, web and MCP front ends, debug sshd, OpenSSH patches, scripts | | | | | not modelled, see section 6 |

How they interact: msshd and the shim call `POST /v1/authorize`, msshd also
`GET /v1/crl`; every authorize response carries the CRL numbers of all issuers, which
start the sync. The authorize handler evaluates the policies that the enrollment
store holds and mints with the keys of an intermediate. The listener acquires and releases inner sshds and
hands the session to the proxy. The CA calls the broker to create a ceremony, the
broker calls the CA back with its outcome. Every admin handler ends in the audit
log. Within msshd everything runs on one event loop, so a handler is atomic between
two awaits; CA and broker are threaded, so they are atomic only under a lock or
within one SQL statement.

## 2. Modules

| module | extends | what it is |
|---|---|---|
| `MsshdEnforce` | | one msshd in enforce mode and the CA it asks |
| `MCEnforce` | `MsshdEnforce` | instance for TLC: length of each CRL log, symmetry |
| `EnforceClaims` | `MCEnforce` | statements of design and comments that the code contradicts |
| `CrlStore` | | one issuer's CRL file with a follower |
| `CrlFeed` | | abstract: a log that is only appended to, and a follower that takes it page by page |
| `SessionPool` | | per-connection inner sshds |
| `PasskeyCeremony` | | ceremonies between broker, CA and browser |
| `Enrollment`, `WireGuard`, `AuditLog`, `Intermediates`, `CertRenewal` | | what the CA keeps on disk, and the renewal of a host's certificate |
| `MCCaStores` | those five and `CrlStore` | instance for TLC |
| `PolicyDecision`, `CertExtensions`, `ShimAuthorize`, `SessionProtocol` | | the way of a login |
| `MCHosts` | those four | instance for TLC |
| `MsshdEnforceProofs`, `CrlStoreProofs`, `SessionPoolProofs`, `PasskeyCeremonyProofs`, `EnrollmentProofs`, `CertRenewalProofs` | the component's module, TLAPS | theorems (section 4) |
| `CaStoresProofs` | `MCCaStores`, the two proof modules of its stores, TLAPS | theorems on WireGuard, audit log, intermediates, and on these five stores together |
| `HostsProofs` | `MCHosts`, TLAPS | theorems on policies, certificates, shim, session, and on their composition |

`CrlStore` is the detailed side of what `MsshdEnforce` takes as one step: its
`Revoke` is an append that went well, `RevokeLost` one whose line `CrlStore` shows
can become unreadable, `CARestart` the counter that is scanned again. `CrlStore`
implements `CrlFeed` (`FeedSpec`).

The components of `MCCaStores` share no file and no lock, and those of `MCHosts`
no state, so their interleavings are of no interest: a variable `focus` says which
one moves, and the state space is the sum of theirs, not the product.

### MsshdEnforce

`conn[c]` is a connection handler (`EnforceListener._on_client`): *idle*, *calling*
(the request is under way), *minted* (the CA has signed and not yet read the
numbers), *replied* / *refused* (the response is under way), *open*, *rejected* (the
inner leg refuses it). `sync` is the task of `CRLSync`: *run* (between issuers),
*fetch*, *page* (the CA has read the entries and not yet `current_seq`), *reply*.
A request in flight is a value of these, so every delay is an interleaving.

| code | actions |
|---|---|
| `_on_client`, cache hit / miss / expired | `AcceptHit`, `AcceptMiss`, `AcceptExpired` |
| `_on_client`, grant, denial, no answer | `HandleGrant`, `HandleDeny`, `CallFails` |
| `_handle_bypass_injection` | `Inject` |
| `handle_authorize` | `CADeny`, `CAMint`, `CAReply` |
| `cert_revoke`, `bypass_cert_mint` | `Revoke`, `RevokeLost`, `MintBypass` |
| `CRLSync._do_sync`, `_do_sync_issuer` | `SyncIssuer`, `SyncDone`, `FetchFails`, `ApplyPage`, `ApplyBroken`, `ApplyEmpty` |
| `GET /v1/crl` | `ServePage`, `ServeSeq` |
| `AuthzCache._load`, msshd's start | `Restart`, `CrashInPage`, `FileLost` |

Abstracted: certificates are issuer, serial and owner; policies are the set
`banned`; TLS, the request header and the signature checks always pass; a file is
written whole or not at all (`_persist` writes a temporary file and renames it).
The cache's caps, which are off by default, are left out.

### CrlStore

The file is the sequence of its lines that parse, and how it ends: with a newline,
in the middle of a line, or with a line that lacks its newline. `DoAppend`,
`AppendRaises` and `CrashInAppend` are the three ways through `CRLStore.append`;
`CrlRestart` is `_scan_current_seq`; `Follow` and `FollowEmpty` are one page of
`_do_sync_issuer`.

### SessionPool

`pc[s]` says which await of `acquire_session` or `release_session` the handler of
session `s` is in. `Admit` runs from the cap check to the first await (`sshd -t`),
because nothing in between awaits anything another handler changes. `Bind`,
`SshdDies`, `ForeignTakes`, `OtherLeaves` are the operating system's. The bind test of
`_allocate_port_excluding` and sshd's own bind are two steps: what happens between
them is the point of the model. A refused admission leaves no trace. `Crash` is
a kill of msshd followed by `start()`; an sshd that was starting has bound its port
or is gone by the time msshd is back. `stop()`, which releases every session in
turn, is not modelled.

### PasskeyCeremony

`row[c]` is the broker's row, `views` the views that have read a row and not yet
updated it, `thread[c]` the delivery thread, `late` requests the broker no longer
waits for, `pend[c]` the CA's map of pending ceremonies, `check[c]` a callback
handler between `verify_authentication` and its answer. A registration's credential
is named by its ceremony. What the WebAuthn library decides is a choice between
`Registered` or `Verified` and `Refused`; that it accepts an authentication only if
the sign count has advanced is kept. Authenticators that never count (both counts
zero), several administrators, deletion of an administrator and the callback to
external tools are left out. Checking that the administrator has a credential and
creating the row are one step.

### Enrollment

`mem` and `disk` are the maps and the file, `request[h]` a handler of the threaded
server. `Begin` is the look-up of the admin and the check of the role, the change
is one step under the store's lock, `Answer` writes the audit entry. Between these
steps other handlers run, so a handler may act for an admin who was removed meanwhile.
`Commit` is the end of every mutator: the maps change, then `save()` replaces the file
or raises. `Reboot` is `load()`, which sets the policy counter to the highest id
that survives.

| code | actions |
|---|---|
| `add_server`, `remove_server`, `set_server_groups` | `AddServer`, `RemoveServer`, `SetServerGroups` |
| `templates.py` set and unset | `SetTemplate`, `UnsetTemplate` |
| `add_user`, `remove_user`, `add_user_key`, `remove_user_key` | `AddUser`, `RemoveUser`, `AddUserKey`, `RemoveUserKey` |
| `add_policy`, `remove_policy` | `AddPolicy`, `RemovePolicy` |
| `add_admin`, `remove_admin` | `AddAdmin`, `RemoveAdmin` |
| `add_external_tool`, `remove_external_tool` | `AddTool`, `RemoveTool` |

`handed`, `changes` and `made` are history: ids given out, and which numbered change
is in memory, in the file and in the audit log.

### WireGuard

The catalog is one file that each mutator reads and replaces under the lock.
`ServerInit`, `ServerRemove`, `PeerIssue`, `PeerRevoke` are the mutators. The two
handlers that read twice are two steps each: `PeerIssue` then `PeerConfig`, `ShowServer`
then `ShowPeers`. An address is its offset from the start of the network, which the
code keeps equal in both families; `FreeNumber` is the search of
`peer_issue`. Networks of fewer than four addresses are left out (`hosts()` of a
/31 or /32 begins at the network's own address), and so is a catalog that does not
parse, which the code reads as empty.

### AuditLog

`log` is the file as a sequence of lines, each a sequence of pieces that ran together;
`unfinished` says whether the last one lacks its newline; `tail` is `_last_hash`,
which `Primed` takes from the file at a process's first write. A hash is the
text it hashes, so two hashes are equal exactly if the texts are. `Broken` is
`verify_chain`.

### Intermediates

`pair`, `alias`, `archive` and `rootFiles` are the files; each write of one is a step
(`ArchiveCert`, `ArchiveKey`, `RotateCert`, `RotateKey`, `AliasCert`, `AliasKey`,
`RotateAnswer` for `intermediate_rotate`; `MintExternal`, `RootDirectory`, `RootCert`, `RootKey`,
`ExternalCert`, `ExternalKey`, `ExternalAnswer` for `external_intermediate_mint` with
`create_new_root`), because the handlers hold no lock. `SignLeaf` signs with what the process has
loaded, `ReadExternalCert` and `SignExternal` read two files one after the other. `upset` remembers the pairs
whose writers met or were cut short, for which nothing is promised.

### CertRenewal

Time is in days. The job on the host: `NothingToDo`, `Ask`, `GiveUp` (ten seconds without an
answer), `WriteCert`, `WriteKey`, `Reload`; `HostCrash` between any two. The CA's
handler: `CheckRenewal`, `MintSuccessor`, `RevokePredecessor`, `AnswerRenewal`,
which goes on when the job has given up. `RevokeCert` is an operator under any
issuer. `spoiled` remembers an accident the job does not recover from, `missed` how many runs came to nothing.
The handshake refuses an expired certificate; so the handler's grace period, though
it is in the model, is never used over mTLS.

### PolicyDecision

`Evaluate(policies, request)` is `policy.evaluate`: `Covering`, `Applies` (network, then window), the
order of the reasons for a denial, the merge of channels, command and validity.
`policy_add` checks neither networks nor hours, so either may be unreadable. A
network that does not parse raises, unless an earlier one of the same policy holds
the address (`SourceRaises`); `evaluate` catches this and denies. If the networks let the
source in, the window is read (`WindowRaises`): days of which one is not a string
(`BadDays`) raise always, hours that do not parse (`BadHours`) on the window's days;
`evaluate` catches neither, and the server's handler answers 500, here a denial with the
reason "internal error". Either way the first policy that raises ends the loop.
`AddPolicy` and `RemovePolicy` are the admin's. What a policy covers (glob, group) is a
Boolean. Left out: the environment's merge, and time zones, so the clock is that of the
window.

### CertExtensions

`DerTag`, `DerInt`, `DerSequence` are the CA's writers, `ReadLen`, `DecodeSequence`,
`DecodeInteger` msshd's readers, `AuthorizationExtensions` and `ParsedPolicy` the two
sides of the whole certificate, `ExternalUseExtensions` the operator's declared
extensions with every refusal: an entry that is not declared (`Entry`) or lies in the
project's own arc (`Reserved`), a text longer than `max_length`, which counts the characters of a
text and the decimals of a number that comes as a text (`Given`), an OID that is there
already (`Repeats`, for those of X.509 too). `Encoded` has the five encodings: octets that read as
hex are taken as hex (`FromHex`), a printable text must be ASCII. What the request says of
`critical` overrides the entry. A byte is a digit of `Base`, so that the long form of a
length comes with bodies of four digits where the code needs 128. A negative
integer makes the encoder raise (`Unencodable`); the handler answers 500. Left out of an
authorization certificate: the identifiers of the keys, the address of the CRL and the evidence of
a second factor, which are not critical and which neither msshd nor the shim reads.

### ShimAuthorize

`calls[c]` is one call of `authorize`: `Lookup` (hit or miss), `Serve` (the endpoint
mints or denies), `NextEndpoint` (no answer, or one that comes too late: the endpoint may
have minted), `TakeGrant`, `TakeDenial`, `AllFailed` (emergency certificate), `Leave`. `rows` is the cache in the order of its
eviction; SQLite and memory differ in what a `get` touches and in whether rows
survive the process. Endpoints serve one CA.

### SessionProtocol

`toServer` and `toClient` are the two directions of the outer stream, `inner` and
`stdin` the channel to the inner sshd. The client: `SendHeader`, `ReadAck`, `AckTimeout`,
`SendStdin`, `SendEof`, `ReadFrame`, `StreamEnds`, `ClientDies`. msshd: `ReadHeader`, `Refuse`, `Ack`,
`OpenSession`, `PumpIn`, `Relay`, `EndSession`, `MaxSession`. The command: `ReadStdin`, `Emit`, `End`,
and sshd's side of it `ForwardOutput`, `TellStatus`, `CloseChannel`. `InnerLost` is the death of the inner
sshd or of the connection to it at any time in the session: what is on its way to msshd is lost from
some item on, so the status may have arrived and the rest of the output not. A command
killed by signal N has the status 128 + N (`SignalDeaths`); what the client makes of it is
`ReadFrame`'s: 129, whatever the signal. With `framed =
FALSE` it is the protocol of before 1.1. Window sizes, standard error, frame limits and
the terminal are left out.

## 3. Runs

All bounds are CONSTANTS of the `.cfg`. Deadlock is checked except where the bounds
stop everything: ceremony ids, days, entries, keypairs and chunks run out.

| run | instance | shows |
|---|---|---|
| `EnforceCore` | 1 principal, 2 handlers, 2 user serials, 2 CRL numbers, pages of 1, gate at 1; fair | no faults (they are `EnforceBypass`' and `EnforceLossy`'s); the central race: two handlers, two revocations, a sync of two pages; the task reaches its target |
| `EnforceBypass` | 2 principals, 1 handler, 2 issuers that share serial 1, 2 + 1 CRL numbers, pages of 2, per-connection; crashes, failing writes | injected entries, colliding serials, several serials in one page, disk against memory |
| `EnforceLossy` | 1 principal, 1 handler, 3 CRL numbers; failing calls, lost entries, reset counters, crashes; fair | what remains true of a CA that breaks its promise, and that a task still ends |
| `CrlFaulty` | 1 serial, 4 lines, pages of 2; all faults | type and order of the CRL file |
| `Pool` | 3 sessions, 3 ports, sample 2, cap 2; all faults; fair | the pool's safety, and that acquiring ends |
| `Passkey` | 1 ceremony, 2 attempts, 1 restart; fair | the ceremony's safety, and that outcome and callback come |
| `CaStores` | enrollment: 2 admins, 2 handlers, 2 changes, 1 restart, failing saves and audits; WireGuard: 1 server name, 2 peers, 3 networks, 2 threads, 5 keypairs; audit: 5 entries, all faults; intermediates: 1 role, 1 external, 1 root, 2 threads, 3 keypairs, 1 second; CRL: 2 serials, 4 lines, pages of 2, crashes; renewal: 2 handlers, 3 certificates of 3 days, threshold 1, 4 days, all faults, 1 missed run | the six stores of the CA, refinement of `CrlFeed` among it |
| `Hosts` | policies: 2 of 101, 2 weekdays of 4 minutes; extensions: base 8, texts of 0, 1, 2, 4, 6 and 9 bytes; shim: 2 logins, 2 calls, 2 endpoints, 1 row, lifetime 1, 2 mints, the cache in memory with the emergency certificate only; session: 1 chunk in, 2 out, both protocols; fair | the four components of a login |

The four runs that must fail stand below, under Disagreements.

Why the bounds are enough.

- Two handlers, two numbers and pages of one are the least with which a grant can be
  overtaken and a page can be followed by another; the properties relate one entry to one
  number, so a third adds no new relation, and the theorems of section 4 hold for every value.
- In the pool three sessions make one that is open, one that is being acquired and one
  that is released at the same time, and three ports with a sample of two let an
  allocation miss the free one.
- Two ceremonies are beyond what TLC enumerates in minutes; ceremonies share only the
  credential, its count and the 2FA window, and the proofs cover any number of them.
- Two enrollment changes and a restart let one be lost on disk and taken back by the
  next save, and let two admins remove each other; theorems cover the rest.
- Five keypairs make a server, two peers, and a server again under the old name while a
  thread holds what it read.
- Five audit entries let a torn line be glued to a whole one, be the tail of the next, and
  be followed by an intact chain.
- Three keypairs make the initial one and two rotations that overlap; one second that
  passes lets archives share a name or not.
- Policies are evaluated two at a time: the properties compare a merge with its parts, and
  the merge is a fold over pairs. The pool has every combination of network, window,
  channel, command and validity (96), policies whose hours or days cannot be read,
  with and without a network (4), and one for another server.
- One output chunk more than input lets the status overtake output that is still
  queued.
- One shim row with two logins makes every put an eviction; of two endpoints
  either can fail, be late or answer, so an emergency certificate may come too early, after the first.
  A third repeats these steps; the theorem holds for any number.

The properties:

- `AppliedMeansDropped`, `DurableAppliedMeansDropped`: no step records a CRL number as
  applied over a cached entry it revokes; the same for the file. With the race of
  `ClaimLateGrant` they say exactly how far the cache can be trusted: an entry
  never *becomes* stale, it can only *arrive* stale.
- `NotAheadOfCA`: memory, file, gate and task never know a number the CA has not given.
- `DurableSeqsOnlyFallWithCache`, `SyncTerminates`, `TargetReached`.
- `InOrder` and `FeedSpec` of the CRL file: the first under every fault (`CrlFaulty`), the second without
  torn, short and failing writes (`CaStores`).
- `OnePortEach`, `NothingLeftBehind`, `OwnSshd`, `AcquireEnds` of the pool. `OwnSshd`
  says nothing of foreign processes: the code does not tell them apart.
- `AcceptedOnce`, `DeliveredMeansDone`, `OutcomeOnce`, `OutcomeComes`, `CallbackEnds`
  of ceremonies.
- `SuperuserRemains`, `StoresConsistent` (ids name one policy, overrides belong to
  enrolled servers, what the audit log records is in the file), `PolicyIdsNotReused` of
  the enrollment store.
- `AddressesUnique`, `ReadsAgree` of the WireGuard catalog.
- `VerifierTellsTheTruth`: `verify_chain` blames only torn lines and their neighbours,
  and a log that verifies has every acknowledged entry.
- `KeyFilesSound`: chains verify, aliases follow the pairs, the keypairs that signed are
  kept; but for names that two writers met at or a crash cut off (`upset`), so of these two
  hazards it shows only that the damage stays with the name. An external intermediate hangs
  from a whole root, without exception.
- `HostKeepsItsCredential`, `RevokedIsNotRenewed` of renewal. The first is claimed for a host
  that did not crash between the two renames (`spoiled`), from which no later job recovers.
- `TheSumOfThePolicies`, `HoursAreTheirSpan`: the evaluation against a definition that
  knows no order, and windows counted minute by minute. The first says exactly when a
  request is granted: something asked is left, and no policy for the server raises. That one that
  raises takes away what the others grant contradicts the documentation (`RulesUnion`, below).
- `CertsAreReadAsWritten` of the two codecs.
- `AuthorizedForAReason`, `DisallowedDiesOut` of the shim.
- `ReturnTellsTheTruth`, `StdinInOrder`, `ClientReturns` of a session. What the client returns from EXIT or
  SIGNAL is the command's end, and what it printed is the output in order: all of it, unless
  the inner connection was lost (`ExitIsGraceful`, below); a signal is told as 129 (`ClaimSignal`).

Every one is broken by a mutant of a modelled operation (`PROJECT.json`); the mutants
stand before the operation they change, marked as such.

### Fairness

`MsshdEnforce`: weak fairness of the sync task's steps together; the event loop runs a
ready task and an HTTP request ends, by its timeout at the latest. `EnforceCore`, which
checks that the target is reached, has no failing calls, because a call that fails ends the task.
`SessionPool`: weak fairness of each handler that acquires; `_wait_port_open` has a
deadline of ten seconds. `PasskeyCeremony`: time passes, sweeper and worker are loops
with a wait, each delivery attempt has a timeout; nothing is assumed of the CA, which may
never answer. `SessionProtocol`: weak fairness of `SessionProgress`, the steps that a
running client, msshd and asyncssh take as soon as data or the end of a stream is there; a
client that is killed takes none. sshd's own steps (`ForwardOutput`, `TellStatus`, `CloseChannel`) are not
among them: a process that holds the command's output keeps the channel open as long as
it likes, so `ClientReturns` starts from a channel that is closed, by sshd, by its loss or by
msshd. Nothing is assumed of users, operators, commands, sshd or faults.

### Disagreements

Each of four runs must find the behaviour that contradicts a sentence of design,
documentation or comment (`PROJECT.json` quotes them):

- `ClaimLateGrant`: a grant in flight while its revocation is applied is cached
  afterwards and stays until it expires (`enforce_listener.py:321`).
- `ClaimNoExit`: the client returns 0 for a session whose status never came
  (`client.py:568`).
- `ClaimSignal`: a command killed by any signal is reported as 129, not 128 + N
  (`client.py:543`; asyncssh says KILL where Python's `signal` says SIGKILL).
- `ClaimAudit`: the lines behind one that does not parse verify again, though the comment
  expects them all to be marked (`audit.py:188`). The code is the better of the two.

The modules state further sentences the same way, without a run; naming one in a
`.cfg` of the module shows its counterexample:

| module | sentence | what happens |
|---|---|---|
| `EnforceClaims` | `BypassHitOpens` | in per-connection mode a session on an injected bypass grant is refused, because it carries no rendered config |
| | `InjectedNotRevoked`, `AppliesToOwnIssuer`, `AnnouncedIsApplied` | an injection checks no CRL; a page drops by serial, whoever signed; numbers announced while a task runs are dropped |
| `CrlStore` | `ForeverIncrementing`, `AckedReadable`, `MissingAreFetched` | after a torn or failing write a number is returned again, an acknowledged line is unreadable, a follower misses it |
| `SessionPool` | `CapHonored`, `ClosedLeavesNoFile` | spawning sessions do not count; a failing start leaves its directory |
| `PasskeyCeremony` | `DispatchedOnce` | a callback that has just been delivered is dispatched again |
| `PolicyDecision` | `RulesUnion` | the documentation says that a user's rules union (`docs/17-operations.md:119`); one whose networks or hours cannot be read takes away what another grants (`policy.py:117`, `policy.py:122`) |
| `CertRenewal` | `RenewalKeepsKind` | a certificate of any kind is renewed as `client-mtls` (`admin.py:3163`) |
| `CertExtensions` | `MaxLengthIsInBytes` | `max_length` of a declared extension is compared with the characters of a text, not the bytes `config.py:112` speaks of |
| `Intermediates` | `NewKeySigns` | after a rotation the process signs with the old key until it restarts |
| `WireGuard` | `AddressesInNetworks` | an IPv6-only network never runs out, addresses beyond it are given |
| `SessionProtocol` | `ExitIsGraceful` | the inner connection is lost between the status and the rest of the output: EXIT, which the design sends "on graceful end" (`mssh_design_v1.md:4137`), is sent all the same, and the client returns the status with output missing |
| | `StatusReturned` | a write to a connection that msshd has closed costs the client the EXIT it has not read |

Read in the code while modelling, and stated by no property:

- The gate of the listener opens as soon as the gap is at most the threshold, while the
  design keeps it shut "until the gap is fully closed".
- Bypass certificates are signed by `user-mint`, though the docstring names `bypass-mint`;
  renewed server certificates by `auth`, not `host-mint`.
- A crash between the directory and the first file of an external intermediate burns its name.
- A crash between the renewal's two renames is never repaired by a later job, and
  `--revoke-old` with a lost answer locks the host out.
- The client keeps its 5-second connect timeout while it waits for the ack; the
  exception is not caught, and the command may run. A refusal returns 7,
  while the documentation says 6.
- The client's raw mode calls `write_eof` on TLS, which raises `NotImplementedError`.
- A hit in the shim's cache ignores the channels that are asked for; the emergency
  certificate is neither verified nor bound to the identity; an endpoint that answers too
  late has minted a certificate that nobody uses.
- An integer of an external-use certificate is measured by `max_length` only if the request
  gives it as a text, and then by its decimals. An environment
  entry whose name has an equals sign is split at another place than it was joined.
- The day of a window that passes midnight is the day of the question, not of the window's
  start.

## 4. Proofs

TLAPS checks every theorem from the assumptions the modules name on their constants
(`EnforceAssumption`, `NoneIsNoCert`, `StoreAssumption`, `PoolAssumption`,
`CeremonyAssumption`, `EnrollmentAssumption`, `FirstStoreAssumption`, `WireGuardAssumption`,
`AuditAssumption`, `IntermediatesAssumption`, `RenewalAssumption`, `DayLengthAssumption`,
`DefaultAssumption`, `BaseAssumption`, `AskedAssumption`, `GrantsAssumption`, `ShimAssumption`, `SessionAssumption`); TLC evaluates
the same assumptions in the runs of those modules. Every safety invariant and every action
property that a passing run checks is the statement of a theorem. Each
argument is an inductive invariant; TLC checked it on the run's instance before it was proved.

msshd and the CRL:

- `MsshdEnforceProofs`. `TypeCorrect` first. `NeverAhead` needs only the order
  *file <= memory <= CA* and the same of gate and task. `AppliedDropped` needs more: that
  CRL numbers are dense (without lost entries each number up to `cur` has exactly one
  entry), that a running task stands where msshd's applied numbers stand, and that
  the page it holds is the part of the log that follows (invariant `CInv`): then the page's highest
  number has nothing before it that was not dropped. `DurableAppliedDropped` and
  `DurableSeqs` add that the file's numbers are not ahead of memory's (`DiskBehind`).
  `NeverAhead` assumes no resets, `AppliedDropped` neither lost entries nor resets: the
  theorems state this as a hypothesis on `Faults`.
- `CrlStoreProofs`. `FileInOrder` for every fault: the strengthening says that no number
  in the file exceeds `cur + 1`, and only its last line can. `ImplementsFeed`, without
  torn, short or failing writes: the n-th line has number n, so a
  follower's position is its number, and `Follow` is `Take` of `CrlFeed`. `FollowerHasPrefix`
  proves of the abstract feed that a follower has exactly the revocations up to its position, and
  carries it over the refinement to a follower of the store. `StoreTyped`.
- `SessionPoolProofs`. `OnePort`, `NothingLeft`, `OwnProcess`, `PoolTyped` from one invariant: each
  session's process and directory are those its place calls for, the ports in use are
  exactly those of sessions, and no session has a port on which an orphan listens.

The broker and the CA:

- `PasskeyCeremonyProofs`. `OnceAccepted`, `DeliveredIsDone`, `OneOutcome` from an invariant of a
  single ceremony (`Good`): pending at the CA, being verified and accepted exclude each other, and
  each implies the row's outcome; a thread that was answered well stands after one of them. `CeremonyTyped`.
- `EnrollmentProofs`. `SuperuserStays`, `StoresStayConsistent`, `NumbersNotReused` from `EInv`: memory
  and file are each `Sound` with respect to the counter (a superuser, unique ids, none above
  the counter, overrides only of enrolled servers), ids handed out are not above it, and what
  a handler is about to audit is in the file already (`SavedIsDurable`). The file must be part of the invariant,
  because `Reboot` makes it the memory.
- `CertRenewalProofs`. `NoSuccessorForRevoked` from `RInv` (what was revoked when the request came
  still is). `CredentialKept` needs `HInv`: what a waiting job has asked for (`JobUnderway`), and, as long
  as no accident has happened, that only a predecessor whose successor is on its way is revoked
  (`RevokedInTurn`) and that the certificate outlasts the runs that may still be missed
  (`DaysLeft`). Its hypothesis is `Threshold < Lifetime`; `MaxMissed <= Threshold` is part of `RenewalAssumption`.
- `CaStoresProofs`, WireGuard. `PeersApart` and `NoMixedConfigs` from `WInv`: keypairs of peers that are
  listed or still being answered differ (`KeysDiffer`), a listed peer has its server with the keypair it was
  issued under (`PeersListed`), and what a thread has read belongs to no later server
  (`ReadsRemembered`). That the search finds a free number rests on the finiteness of
  the peers.
- `CaStoresProofs`, audit log. `TheVerifierIsRight` from `AuditInv`, which `AuditInvariant` states: a line that
  parses claims the one before it where that one parses too (`Chained`), the process's tail is
  the last line unless that is unfinished or does not parse (`TailIsLast`), and an acknowledged
  entry is a line as long as every line parses (`Kept`). `TailIsLast` is what makes `Chained`
  inductive: an append claims the tail. A write that raises half way leaves its text glued to the next, so the
  property speaks of neighbours.
- `CaStoresProofs`, intermediates. `KeyFilesStaySound` from `KeysInv`. The property speaks of states
  in which nothing is under way for a name; the invariant must say what each place in between
  has written. For a rotation (`RotationSound`): from `new` to `cert` the aliases are the pair and the pair is
  whole; at `key` the certificate is new and the old key is in the archive; then the pair is new and the
  aliases follow one by one. For an external intermediate `ExternalSound`, for roots `RootsSound`
  (a thread that makes one has its directory to itself), for the keypairs that
  signed `RoleSound`: each is whole in the files or in the archive. `OneWriter` says that two threads write one name
  only if the name is in `upset`, so all of this is claimed for names outside it. The assumption
  bounds the roles by the keypairs, and no root is called `primary`, which `roots.py:94` refuses.
- `StoresTyped` puts the five invariants together: a step of one component leaves the variables
  of the others alone.

A login:

- `HostsProofs`, policies. `DecisionsAreSums`, for any list of policies and any request: the places of
  the policies that match alone are those that match together, so the merge has the union of their channels, the
  least of their validities, and a command exactly if one of them has; a policy that raises together with others raises
  alone, so what cannot be read is no one's grant, and without such a policy the loop
  comes to its end. From the assumption on the pool only
  that a policy has channels (`policy_add` refuses one without) and that validities are
  integers. `HoursAreRight` has the hypothesis that hours that parse are times of a day, which no code checks.
- `HostsProofs`, certificates. `CertsAreRead`, for any base, any grant and any declared extensions, from
  `WrittenInv`: a certificate is what `AuthorizationExtensions` or the custom encoders make of what was asked for.
  The work is in the codecs. What a function on `0 .. n` returns is shown by its least counterexample
  (`NoLeast`), which needs no induction theorem. With it: digits read as a number give the
  number back (`DigitsRoundTrip`); a text that stands at a position of a buffer is found there
  (`HeldAt`), after a length of either form (`LengthIsRead`); after k turns the reader's loop has the first k members
  (`SequenceIsRead`); the first equals sign of a line of the environment ends its name
  (`EnvironmentIsRead`); which extensions stand in a certificate and in which places (`WhatIsWritten`).
  Assumed is that texts are sequences of numbers and that a grant has finitely many channels and variables
  (`AskedAssumption`, `GrantsAssumption`). A turn of the reader's loop is `MemberRead`, and the loop is given as
  many turns as the buffer has bytes, so that it is a function and not a `RECURSIVE` operator.
- `HostsProofs`, shim. `AuthorizationsAreReasoned` and `DisallowedLoginsDieOut` from `ShimInv`: the
  cache has one row for a login, each with a certificate that was minted for it (`CacheInv`); a call that has a certificate has one minted for its
  login, and one that has tried n endpoints was failed by n (`CallsInv`); a certificate ends at most a
  lifetime from now, and that of a login no longer allowed at most a lifetime from when it was
  disallowed (`CertsInv`). `ShimHasTypes`.
- `HostsProofs`, session. `ReturnIsTrue` and `InputArrivesInOrder` from `SInv`: input that was sent is in
  three places, read, on its way from msshd, on its way to msshd, whole and in order
  (`InputFlow`), and the same of output (`OutputFlow`: there is a number up to which chunks have left msshd); EXIT stands behind
  the last chunk (`EndsAfter`), the inner sshd closes when all has been told (`CloseIsLast`). `Phases` ties the places of client, msshd and
  command to one another, and behind a refusal there is no command (`RefusalHolds`). Output is claimed for a client that still reads; for one
  that is done, `ExitCameLast` keeps what it had when it finished. A loss of the inner connection cuts
  the queue at some item: what is left of it is still in order, and only `EndsAfter` is lost with it. `SessionTyped`.
- `HostsTyped` puts shim and session together.

Only model-checked: everything temporal beyond safety (`SyncTerminates`, `TargetReached`,
`AcquireEnds`, `OutcomeComes`, `CallbackEnds`, `ClientReturns`), since liveness under fairness is out of this
prover's reach.

## 5. Plan

1. The cache's caps with eviction by whole seconds; several CAs whose CRL logs differ.
2. The merge of the environment, the passkeys of external tools' users.
3. One model that joins `MsshdEnforce` and `SessionProtocol`: a revocation while a session
   is open.

## 6. Not modelled

- `fallback` copies bytes between two sockets; `gated` imports a name that `ssh_proxy` does
  not define, so its handler raises before any state changes. The long-lived inner sshd is
  one process that starts and stops with msshd.
- Parsing and rendering of configuration, templates and sshd configs; key formats, CSR
  checks and passphrase envelopes: text in, text out, no state that interacts.
- The library side of TLS, WebAuthn, asyncssh and SQLite: each is a choice between the
  outcomes that the code handles.
- `mssh-admin` apart from `cert renew`, the web and MCP front ends: they call the admin API,
  which is modelled where it changes state.
- `CertKindsPolicy`, which refuses kinds by configuration before anything changes.
- `vacuum_expired`, `crl_fetch` and `sync_now`: nothing in the daemons calls them.
- debug sshd, OpenSSH patches, scripts, systemd units other than the renewal's timer:
  tools and packaging.

Smaller things left out of a modelled component, which a reader may miss: a denial that
meets a grant in flight; `current_seqs` while a store is added; the order in which two approvals of one
credential store their counts; the answer of `cancel_ceremony` when another outcome
won; eviction among entries of one second; `read_all` on a torn line.
