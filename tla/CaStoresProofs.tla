--------------------------- MODULE CaStoresProofs ---------------------------
(***************************************************************************)
(* What the CA keeps on disk besides the enrollment store: the WireGuard   *)
(* catalog, the audit log and the key files of its intermediates, for any  *)
(* number of threads, names, entries and restarts; and the types of all    *)
(* the stores together.                                                    *)
(***************************************************************************)
EXTENDS MCCaStores, EnrollmentProofs, CertRenewalProofs, SequenceTheorems, FiniteSetTheorems

-----------------------------------------------------------------------------
(* The WireGuard catalog                                                  *)

\* Keypairs are told apart by their number, which is never given twice: peers
\* that are listed or still being answered differ in it, and so do servers.
Issuing == {t \in Thread : reading[t].at = "issued"}
\* The peers in the catalog or in the hands of a request.
Known == catalog.peers \cup {reading[t].peer : t \in Issuing}

\* No two peers and no two servers have one keypair, and none is numbered above the last made.
KeysDiffer ==
  /\ \A p \in Known : p.key <= keypairs
  /\ \A p, q \in Known : p.key = q.key => p = q
  /\ \A i \in DOMAIN catalog.servers : catalog.servers[i].key <= keypairs
  /\ \A i, j \in DOMAIN catalog.servers :
       catalog.servers[i].key = catalog.servers[j].key => i = j

\* A listed peer has its server, and was issued under the server's keypair.
PeersListed ==
  \A p \in catalog.peers : /\ p.server \in DOMAIN catalog.servers
                           /\ p.under = catalog.servers[p.server].key

\* A keypair that was read or answered is no later server's.
ReadsRemembered ==
  /\ \A t \in Thread : reading[t].at = "show" =>
       /\ reading[t].record.key <= keypairs
       /\ \A i \in DOMAIN catalog.servers :
            catalog.servers[i].key = reading[t].record.key => i = reading[t].server
  /\ \A c \in configs : c.peer.key <= keypairs
  /\ \A s \in shown : s.serverKey <= keypairs

\* What every request keeps.
WInv ==
  /\ WireGuardTypeOK
  /\ reading = [t \in Thread |-> reading[t]]
  /\ IsFiniteSet(catalog.peers)
  /\ AddressesUnique
  /\ KeysDiffer
  /\ PeersListed
  /\ ReadsRemembered
  /\ ReadsAgree

\* The parts of a well-typed catalog.
LEMMA CatalogParts ==
  ASSUME WireGuardTypeOK
  PROVE  /\ catalog = [servers |-> catalog.servers, peers |-> catalog.peers]
         /\ DOMAIN catalog.servers \subseteq Interface
         /\ catalog.servers \in [DOMAIN catalog.servers -> ServerRecord]
         /\ catalog.peers \subseteq PeerRecord
BY DEF WireGuardTypeOK

\* Keypairs are naturals, wherever they are.
KeysAreNumbers ==
  /\ keypairs \in Nat
  /\ \A p \in Known : p \in PeerRecord /\ p.key \in Nat
  /\ \A i \in DOMAIN catalog.servers : catalog.servers[i].key \in Nat
  /\ \A t \in Thread : reading[t].at = "show" => reading[t].record.key \in Nat
  /\ \A c \in configs : c.peer.key \in Nat
  /\ \A s \in shown : s.serverKey \in Nat

\* The type invariant, by the names of these sets.
LEMMA KeysTyped ==
  ASSUME WireGuardTypeOK
  PROVE  KeysAreNumbers
<1>1. /\ \A k \in Keypair : k \in Nat
      /\ keypairs \in Nat
  BY WireGuardAssumption DEF Keypair, WireGuardTypeOK
<1>2. \A p \in PeerRecord : p.key \in Nat
  BY <1>1 DEF PeerRecord
<1>3. \A i \in DOMAIN catalog.servers : catalog.servers[i].key \in Nat
  BY <1>1, CatalogParts DEF ServerRecord
<1>4. ASSUME NEW t \in Issuing PROVE reading[t].peer \in PeerRecord
  BY DEF Issuing, WireGuardTypeOK, Nobody
<1>5. \A t \in Thread : reading[t].at = "show" => reading[t].record.key \in Nat
  BY <1>1 DEF WireGuardTypeOK, Nobody, ServerRecord
<1>6. \A c \in configs : c.peer.key \in Nat
  BY <1>2 DEF WireGuardTypeOK
<1>7. \A s \in shown : s.serverKey \in Nat
  BY <1>1 DEF WireGuardTypeOK
<1>8. \A p \in Known : p \in PeerRecord
  BY <1>4, CatalogParts DEF Known
<1>. QED  BY <1>1, <1>2, <1>3, <1>5, <1>6, <1>7, <1>8 DEF KeysAreNumbers

\* It holds for an empty catalog.
LEMMA WInvInit == WireGuardInit => WInv
<1>. SUFFICES ASSUME WireGuardInit PROVE WInv
  OBVIOUS
<1>1. IsFiniteSet({})
  BY FS_EmptySet
<1>2. DOMAIN catalog.servers = {} /\ catalog.peers = {} /\ Known = {}
  BY DEF WireGuardInit, Known, Issuing, Nobody
<1>3. catalog.servers \in [{} -> ServerRecord]
  BY DEF WireGuardInit
<1>4. WireGuardTypeOK
  <2>1. catalog.servers \in UNION {[S -> ServerRecord] : S \in SUBSET Interface}
    BY <1>3
  <2>2. catalog = [servers |-> catalog.servers, peers |-> catalog.peers]
    BY DEF WireGuardInit
  <2>. QED  BY <1>2, <2>1, <2>2, WireGuardAssumption DEF WireGuardInit, WireGuardTypeOK
<1>5. \A t \in Thread : reading[t].at = "idle"
  BY DEF WireGuardInit, Nobody
<1>. QED
  BY <1>1, <1>2, <1>4, <1>5
  DEF WireGuardInit, WInv, AddressesUnique, KeysDiffer, PeersListed, ReadsRemembered,
      ReadsAgree, ConfigsReachTheirServer, ShownPeersAreItsOwn

\* A step that leaves the peers, the readers and the answers alone, gives no
\* server another record and no old keypair to a new one.
LEMMA ServersChange ==
  ASSUME WInv, NEW i \in Interface, WireGuardTypeOK',
         reading' = reading, configs' = configs, shown' = shown,
         keypairs \in Nat, keypairs' \in Nat, keypairs <= keypairs',
         catalog'.peers \subseteq catalog.peers,
         \A p \in catalog'.peers : p.server # i,
         DOMAIN catalog'.servers \ {i} = DOMAIN catalog.servers \ {i},
         \A j \in DOMAIN catalog'.servers \ {i} : catalog'.servers[j] = catalog.servers[j],
         i \in DOMAIN catalog'.servers => /\ i \notin DOMAIN catalog.servers
                                          /\ catalog'.servers[i].key = keypairs + 1
                                          /\ keypairs' = keypairs + 1
  PROVE  WInv'
<1>1. IsFiniteSet(catalog'.peers)
  BY FS_Subset DEF WInv
<1>2. AddressesUnique'
  BY DEF WInv, AddressesUnique, PeersListed
<1>3. /\ Issuing' = Issuing
      /\ Known' \subseteq Known
  BY DEF Issuing, Known
<1>4. KeysAreNumbers
  BY KeysTyped DEF WInv
<1>5. KeysDiffer'
  BY <1>3, <1>4 DEF WInv, KeysDiffer, KeysAreNumbers
<1>6. PeersListed'
  BY DEF WInv, PeersListed
<1>7. ReadsRemembered'
  BY <1>4 DEF WInv, ReadsRemembered, KeysAreNumbers
<1>8. ReadsAgree'
  BY <1>4 DEF WInv, ReadsRemembered, ReadsAgree, ConfigsReachTheirServer, ShownPeersAreItsOwn,
              KeysAreNumbers
<1>. QED  BY <1>1, <1>2, <1>5, <1>6, <1>7, <1>8 DEF WInv

\* A server is added, with a keypair of its own.
LEMMA ServerInitKeeps ==
  ASSUME WInv, NEW i \in Interface, NEW net \in Network, ServerInit(i, net)
  PROVE  WInv'
<1>1. /\ catalog = [servers |-> catalog.servers, peers |-> catalog.peers]
      /\ DOMAIN catalog.servers \subseteq Interface
      /\ catalog.servers \in [DOMAIN catalog.servers -> ServerRecord]
  BY CatalogParts DEF WInv
<1>2. /\ catalog'.peers = catalog.peers
      /\ DOMAIN catalog'.servers = DOMAIN catalog.servers \cup {i}
      /\ catalog'.servers[i] = [net |-> net, key |-> keypairs']
      /\ \A j \in DOMAIN catalog.servers : catalog'.servers[j] = catalog.servers[j]
      /\ catalog' = [servers |-> catalog'.servers, peers |-> catalog'.peers]
      /\ i \notin DOMAIN catalog.servers
  BY <1>1 DEF ServerInit
<1>3. keypairs \in Nat /\ keypairs' \in Keypair /\ keypairs' = keypairs + 1
  BY WireGuardAssumption DEF ServerInit, Generate, WInv, WireGuardTypeOK, Keypair
<1>4. WireGuardTypeOK'
  <2>1. catalog'.servers \in [DOMAIN catalog.servers \cup {i} -> ServerRecord]
    BY <1>1, <1>2, <1>3 DEF ServerInit, ServerRecord
  <2>2. catalog'.servers \in UNION {[S -> ServerRecord] : S \in SUBSET Interface}
    BY <1>1, <2>1
  <2>3. keypairs' \in 0..MaxKeypairs
    BY <1>3, WireGuardAssumption DEF Keypair
  <2>. QED  BY <1>2, <2>2, <2>3 DEF ServerInit, WInv, WireGuardTypeOK
<1>5. \A p \in catalog'.peers : p.server # i
  BY <1>2 DEF WInv, PeersListed
<1>. QED  BY <1>2, <1>3, <1>4, <1>5, ServersChange DEF ServerInit, Keypair

\* A server is removed, and its peers with it.
LEMMA ServerRemoveKeeps ==
  ASSUME WInv, NEW i \in Interface, ServerRemove(i)
  PROVE  WInv'
<1>1. /\ DOMAIN catalog.servers \subseteq Interface
      /\ catalog.servers \in [DOMAIN catalog.servers -> ServerRecord]
      /\ catalog.peers \subseteq PeerRecord
  BY CatalogParts DEF WInv
<1>2. /\ catalog'.peers = {p \in catalog.peers : p.server # i}
      /\ catalog'.servers = [j \in DOMAIN catalog.servers \ {i} |-> catalog.servers[j]]
      /\ catalog' = [servers |-> catalog'.servers, peers |-> catalog'.peers]
  BY DEF ServerRemove, Restrict
<1>3. WireGuardTypeOK'
  <2>1. catalog'.servers \in [DOMAIN catalog.servers \ {i} -> ServerRecord]
    BY <1>1, <1>2
  <2>2. catalog'.servers \in UNION {[S -> ServerRecord] : S \in SUBSET Interface}
    BY <1>1, <2>1
  <2>3. catalog'.peers \subseteq PeerRecord
    BY <1>1, <1>2
  <2>4. catalog' \in [servers : UNION {[S -> ServerRecord] : S \in SUBSET Interface},
                      peers : SUBSET PeerRecord]
    BY <1>2, <2>2, <2>3, Zenon
  <2>5. UNCHANGED <<reading, configs, shown, keypairs>>
    BY DEF ServerRemove
  <2>. QED  BY <2>4, <2>5 DEF WInv, WireGuardTypeOK
<1>4. keypairs \in Nat
  BY WireGuardAssumption DEF WInv, WireGuardTypeOK
<1>5. reading' = reading /\ configs' = configs /\ shown' = shown /\ keypairs' = keypairs
  BY DEF ServerRemove
<1>6. /\ DOMAIN catalog'.servers = DOMAIN catalog.servers \ {i}
      /\ \A j \in DOMAIN catalog'.servers \ {i} : catalog'.servers[j] = catalog.servers[j]
  BY <1>2
<1>7. catalog'.peers \subseteq catalog.peers /\ \A p \in catalog'.peers : p.server # i
  BY <1>2
<1>8. keypairs <= keypairs' /\ keypairs' \in Nat
  BY <1>4, <1>5
<1>9. /\ DOMAIN catalog'.servers \ {i} = DOMAIN catalog.servers \ {i}
      /\ i \notin DOMAIN catalog'.servers
  BY <1>6
<1>. QED  BY <1>3, <1>4, <1>5, <1>6, <1>7, <1>8, <1>9, ServersChange

\* A peer is removed.
LEMMA PeerRevokeKeeps ==
  ASSUME WInv, NEW r \in catalog.peers, PeerRevoke(r)
  PROVE  WInv'
<1>1. /\ catalog'.servers = catalog.servers
      /\ catalog'.peers = catalog.peers \ {r}
      /\ catalog' = [servers |-> catalog'.servers, peers |-> catalog'.peers]
  BY CatalogParts DEF WInv, PeerRevoke
<1>2. WireGuardTypeOK'
  BY <1>1 DEF WInv, WireGuardTypeOK, PeerRevoke
<1>3. IsFiniteSet(catalog'.peers)
  BY <1>1, FS_Subset DEF WInv
<1>4. AddressesUnique' /\ PeersListed'
  BY <1>1 DEF WInv, AddressesUnique, PeersListed
<1>5. Known' \subseteq Known
  BY <1>1 DEF PeerRevoke, Known, Issuing
<1>6. KeysDiffer'
  BY <1>1, <1>5 DEF WInv, KeysDiffer, PeerRevoke
<1>7. ReadsRemembered' /\ ReadsAgree'
  BY <1>1
  DEF WInv, ReadsRemembered, ReadsAgree, ConfigsReachTheirServer, ShownPeersAreItsOwn, PeerRevoke
<1>. QED  BY <1>2, <1>3, <1>4, <1>6, <1>7 DEF WInv, PeerRevoke

\* The host number found is free and is not the server's own.
LEMMA FreeNumberIsFree ==
  ASSUME WInv, NEW i \in DOMAIN catalog.servers, NEW n \in FreeNumber(i)
  PROVE  /\ n \in Nat /\ n # 1 /\ n \notin Numbers(i)
         /\ catalog.servers[i].net.v4 # 0 => n <= catalog.servers[i].net.v4
<1> DEFINE used == {1} \cup Numbers(i)
           top == IF catalog.servers[i].net.v4 # 0 THEN catalog.servers[i].net.v4
                  ELSE Cardinality(used) + 1
<1>1. top \in Nat
  <2>1. IsFiniteSet(PeersOf(i))
    BY FS_Subset DEF WInv, PeersOf
  <2>2. IsFiniteSet(Numbers(i))
    <3> DEFINE f == [p \in PeersOf(i) |-> p.number]
    <3>1. f \in Surjection(PeersOf(i), Numbers(i))
      BY DEF Surjection, Numbers
    <3>. QED  BY <2>1, <3>1, FS_Surjection
  <2>3. IsFiniteSet(used)
    BY <2>2, FS_Singleton, FS_Union
  <2>4. Cardinality(used) \in Nat
    BY <2>3, FS_CardinalityType
  <2>5. catalog.servers[i].net.v4 \in Nat
    <3>1. catalog.servers[i] \in ServerRecord
      BY CatalogParts DEF WInv
    <3>2. catalog.servers[i].net \in [v4 : Nat, v6 : Nat]
      BY <3>1, WireGuardAssumption DEF ServerRecord
    <3>. QED  BY <3>2
  <2>. QED  BY <2>4, <2>5
<1>2. n \in (1..top) \ used
  BY DEF FreeNumber
<1>. HIDE DEF top
<1>3. n \in Nat /\ n <= top /\ n \notin used
  BY <1>1, <1>2
<1>. QED  BY <1>3 DEF top

\* A peer is added, with a free address and a keypair of its own.
LEMMA PeerIssueKeeps ==
  ASSUME WInv, NEW t \in Thread, NEW n \in Peer, NEW i \in Interface, PeerIssue(t, n, i)
  PROVE  WInv'
<1>1. PICK number \in FreeNumber(i) :
        LET p == [name |-> n, server |-> i, number |-> number, key |-> keypairs',
                  under |-> catalog.servers[i].key]
        IN /\ catalog' = [catalog EXCEPT !.peers = @ \cup {p}]
           /\ reading' = [reading EXCEPT ![t] = [at |-> "issued", peer |-> p]]
  BY DEF PeerIssue
<1> DEFINE p == [name |-> n, server |-> i, number |-> number, key |-> keypairs',
                 under |-> catalog.servers[i].key]
<1>2. /\ i \in DOMAIN catalog.servers
      /\ keypairs' = keypairs + 1 /\ keypairs < MaxKeypairs
      /\ configs' = configs /\ shown' = shown
      /\ reading[t] = Nobody
  BY DEF PeerIssue, Generate
<1>3. /\ catalog'.servers = catalog.servers
      /\ catalog'.peers = catalog.peers \cup {p}
      /\ catalog' = [servers |-> catalog'.servers, peers |-> catalog'.peers]
  BY <1>1, CatalogParts DEF WInv
<1>4. /\ reading' = [u \in Thread |-> reading'[u]]
      /\ reading'[t] = [at |-> "issued", peer |-> p]
      /\ \A u \in Thread \ {t} : reading'[u] = reading[u]
  BY <1>1 DEF WInv
<1>5. /\ number \in Nat /\ number # 1 /\ number \notin Numbers(i)
      /\ catalog.servers[i].net.v4 # 0 => number <= catalog.servers[i].net.v4
  BY <1>2, FreeNumberIsFree
<1>6. KeysAreNumbers
  BY KeysTyped DEF WInv
<1>7. /\ p \in PeerRecord /\ p.key = keypairs + 1 /\ p.server = i /\ p.number = number
      /\ p.under = catalog.servers[i].key
  <2>1. keypairs' \in Keypair
    BY <1>2, <1>6, WireGuardAssumption DEF Keypair, KeysAreNumbers
  <2>2. catalog.servers[i].key \in Keypair
    BY <1>2, CatalogParts DEF WInv, ServerRecord
  <2>. QED  BY <1>2, <1>5, <2>1, <2>2 DEF PeerRecord
<1>. HIDE DEF p
<1>8. WireGuardTypeOK'
  <2>1. catalog'.peers \subseteq PeerRecord
    BY <1>3, <1>7, CatalogParts DEF WInv
  <2>2. keypairs' \in 0..MaxKeypairs
    BY <1>2, <1>6, WireGuardAssumption DEF KeysAreNumbers
  <2>3. catalog'.servers \in UNION {[S -> ServerRecord] : S \in SUBSET Interface}
    BY <1>3 DEF WInv, WireGuardTypeOK
  <2>4. reading'[t] \in [at : {"issued"}, peer : PeerRecord]
    BY <1>4, <1>7
  <2>. QED  BY <1>2, <1>3, <1>4, <2>1, <2>2, <2>3, <2>4 DEF WInv, WireGuardTypeOK
<1>9. IsFiniteSet(catalog'.peers)
  BY <1>3, FS_AddElement DEF WInv
<1>10. AddressesUnique'
  <2>1. \A q \in catalog.peers : q.server = i => q.number # p.number
    BY <1>5, <1>7 DEF Numbers, PeersOf
  <2>. QED  BY <1>3, <1>5, <1>7, <2>1 DEF WInv, AddressesUnique
<1>11. Known' \subseteq Known \cup {p} /\ Issuing' \subseteq Issuing \cup {t}
  BY <1>3, <1>4 DEF Known, Issuing
<1>12. KeysDiffer'
  BY <1>2, <1>3, <1>6, <1>7, <1>11 DEF WInv, KeysDiffer, KeysAreNumbers
<1>13. PeersListed'
  BY <1>2, <1>3, <1>7 DEF WInv, PeersListed
<1>14. ReadsRemembered'
  BY <1>2, <1>3, <1>4, <1>6 DEF WInv, ReadsRemembered, KeysAreNumbers
<1>15. ReadsAgree'
  BY <1>2, <1>3, <1>6, <1>7
  DEF WInv, ReadsAgree, ConfigsReachTheirServer, ShownPeersAreItsOwn, ReadsRemembered, KeysAreNumbers
<1>. QED  BY <1>4, <1>8, <1>9, <1>10, <1>12, <1>13, <1>14, <1>15 DEF WInv

\* The config of the peer just added is written.
LEMMA PeerConfigKeeps ==
  ASSUME WInv, NEW t \in Thread, PeerConfig(t)
  PROVE  WInv'
<1> DEFINE p == reading[t].peer
<1>1. /\ catalog' = catalog /\ shown' = shown /\ keypairs' = keypairs
      /\ configs' = IF p.server \in DOMAIN catalog.servers
                    THEN configs \cup {[peer |-> p, serverKey |-> catalog.servers[p.server].key]}
                    ELSE configs
      /\ reading' = [reading EXCEPT ![t] = Nobody]
      /\ t \in Issuing /\ p \in Known
  BY DEF PeerConfig, Issuing, Known
<1>2. /\ reading' = [u \in Thread |-> reading'[u]]
      /\ reading'[t] = Nobody
      /\ \A u \in Thread \ {t} : reading'[u] = reading[u]
  BY <1>1 DEF WInv
<1>3. KeysAreNumbers
  BY KeysTyped DEF WInv
<1>4. p \in PeerRecord /\ p.key <= keypairs /\ \A q \in catalog.peers : q.key = p.key => q = p
  BY <1>1, <1>3 DEF WInv, KeysDiffer, KeysAreNumbers, Known
<1>. HIDE DEF p
<1>5. WireGuardTypeOK'
  <2>1. CASE p.server \in DOMAIN catalog.servers
    <3>1. catalog.servers[p.server].key \in Keypair
      BY <2>1, CatalogParts DEF WInv, ServerRecord
    <3>. QED  BY <1>1, <1>2, <1>4, <2>1, <3>1 DEF WInv, WireGuardTypeOK
  <2>2. CASE p.server \notin DOMAIN catalog.servers
    BY <1>1, <1>2, <2>2 DEF WInv, WireGuardTypeOK
  <2>. QED  BY <2>1, <2>2
<1>6. Known' \subseteq Known
  BY <1>1, <1>2 DEF Known, Issuing, Nobody
<1>7. KeysDiffer' /\ AddressesUnique' /\ PeersListed'
  BY <1>1, <1>6 DEF WInv, KeysDiffer, AddressesUnique, PeersListed
<1>8. ReadsRemembered'
  BY <1>1, <1>2, <1>4 DEF WInv, ReadsRemembered, Nobody
<1>9. ReadsAgree'
  BY <1>1, <1>4 DEF WInv, ReadsAgree, ConfigsReachTheirServer, ShownPeersAreItsOwn, PeersListed
<1>. QED  BY <1>1, <1>2, <1>5, <1>7, <1>8, <1>9 DEF WInv

\* A request reads a server.
LEMMA ShowServerKeeps ==
  ASSUME WInv, NEW t \in Thread, NEW i \in Interface, ShowServer(t, i)
  PROVE  WInv'
<1>1. /\ catalog' = catalog /\ configs' = configs /\ shown' = shown /\ keypairs' = keypairs
      /\ i \in DOMAIN catalog.servers
  BY DEF ShowServer
<1>2. /\ reading' = [u \in Thread |-> reading'[u]]
      /\ reading'[t] = [at |-> "show", server |-> i, record |-> catalog.servers[i]]
      /\ \A u \in Thread \ {t} : reading'[u] = reading[u]
  BY DEF WInv, ShowServer
<1>3. WireGuardTypeOK'
  <2>1. reading'[t] \in [at : {"show"}, server : Interface, record : ServerRecord]
    BY <1>1, <1>2, CatalogParts DEF WInv
  <2>. QED  BY <1>1, <1>2, <2>1 DEF WInv, WireGuardTypeOK
<1>4. Known' \subseteq Known
  BY <1>1, <1>2 DEF Known, Issuing
<1>5. KeysDiffer' /\ AddressesUnique' /\ PeersListed'
  BY <1>1, <1>4 DEF WInv, KeysDiffer, AddressesUnique, PeersListed
<1>6. ReadsRemembered' /\ ReadsAgree'
  BY <1>1, <1>2
  DEF WInv, KeysDiffer, ReadsRemembered, ReadsAgree, ConfigsReachTheirServer, ShownPeersAreItsOwn
<1>. QED  BY <1>1, <1>2, <1>3, <1>5, <1>6 DEF WInv

\* And then its peers.
LEMMA ShowPeersKeeps ==
  ASSUME WInv, NEW t \in Thread, ShowPeers(t)
  PROVE  WInv'
<1> DEFINE r == reading[t]
<1>1. /\ catalog' = catalog /\ configs' = configs /\ keypairs' = keypairs
      /\ shown' = {[serverKey |-> r.record.key, peers |-> PeersOf(r.server)]}
      /\ r.at = "show"
  BY DEF ShowPeers
<1>2. /\ reading' = [u \in Thread |-> reading'[u]]
      /\ reading'[t] = Nobody
      /\ \A u \in Thread \ {t} : reading'[u] = reading[u]
  BY DEF WInv, ShowPeers
<1>3. WireGuardTypeOK'
  <2>1. r.record.key \in Keypair
    BY <1>1 DEF WInv, WireGuardTypeOK, Nobody, ServerRecord
  <2>2. PeersOf(r.server) \subseteq PeerRecord
    BY CatalogParts DEF WInv, PeersOf
  <2>3. shown' \subseteq [serverKey : Keypair, peers : SUBSET PeerRecord]
    BY <1>1, <2>1, <2>2
  <2>. QED  BY <1>1, <1>2, <2>3 DEF WInv, WireGuardTypeOK
<1>4. Known' \subseteq Known
  BY <1>1, <1>2 DEF Known, Issuing, Nobody
<1>5. KeysDiffer' /\ AddressesUnique' /\ PeersListed'
  BY <1>1, <1>4 DEF WInv, KeysDiffer, AddressesUnique, PeersListed
<1>6. ReadsRemembered'
  BY <1>1, <1>2 DEF WInv, ReadsRemembered, Nobody
<1>7. ReadsAgree'
  <2>1. ShownPeersAreItsOwn'
    BY <1>1 DEF WInv, ShownPeersAreItsOwn, ReadsRemembered, PeersListed, PeersOf
  <2>. QED  BY <1>1, <2>1 DEF WInv, ReadsAgree, ConfigsReachTheirServer
<1>. QED  BY <1>1, <1>2, <1>3, <1>5, <1>6, <1>7 DEF WInv

\* Every step keeps the invariant.
LEMMA WInvStep == WInv /\ [WireGuardNext]_wireguardVars => WInv'
<1>. SUFFICES ASSUME WInv, [WireGuardNext]_wireguardVars PROVE WInv'
  OBVIOUS
<1>1. CASE UNCHANGED wireguardVars
  BY <1>1
  DEF wireguardVars, WInv, WireGuardTypeOK, AddressesUnique, KeysDiffer, Known, Issuing,
      PeersListed, ReadsRemembered, ReadsAgree, ConfigsReachTheirServer, ShownPeersAreItsOwn
<1>. QED
  BY <1>1, ServerInitKeeps, ServerRemoveKeeps, PeerRevokeKeeps, PeerIssueKeeps, PeerConfigKeeps,
     ShowServerKeeps, ShowPeersKeeps
  DEF WireGuardNext

-----------------------------------------------------------------------------
(* Theorems *)

\* Whatever is issued, revoked, removed and made again, the catalog and what the
\* handlers hold of it stay well-typed (wireguard.py's records).
THEOREM WireGuardTyped == WireGuardSpec => []WireGuardTypeOK
<1>1. WInv => WireGuardTypeOK
  BY DEF WInv
<1>. QED  BY <1>1, WInvInit, WInvStep, PTL DEF WireGuardSpec

\* No two peers of a server have one address, none has the server's, and none
\* lies outside the IPv4 network (peer_issue's search, server_remove's cascade).
THEOREM PeersApart == WireGuardSpec => []AddressesUnique
<1>1. WInv => AddressesUnique
  BY DEF WInv
<1>. QED  BY <1>1, WInvInit, WInvStep, PTL DEF WireGuardSpec

\* A handler that reads the catalog twice never mixes two servers of one name,
\* however many threads run (wireguard_peer_issue, wireguard_server_show).
THEOREM NoMixedConfigs == WireGuardSpec => []ReadsAgree
<1>1. WInv => ReadsAgree
  BY DEF WInv
<1>. QED  BY <1>1, WInvInit, WInvStep, PTL DEF WireGuardSpec

-----------------------------------------------------------------------------
(* The audit log                                                          *)

\* The lines there are, of entries that were begun.
LineTexts(entries) == {text \in Line : text # << >> /\ \A k \in DOMAIN text : text[k].entry \in entries}

\* The line before line i, as the chain sees it.
LineBefore(ls, i) == IF i = 1 THEN ZeroHash ELSE ls[i - 1]

\* A line that parses claims the line before it, where that one parses too.
Chained(ls, claims) ==
  \A i \in DOMAIN ls :
    Parses(ls[i]) /\ (i = 1 \/ Parses(ls[i - 1]))
      => claims[ls[i][1].entry] = LineBefore(ls, i)

\* The cached tail is the last line, unless that is unfinished or does not parse.
TailIsLast ==
  tail # {} /\ ~unfinished =>
    \/ tail = {LineBefore(log, Len(log) + 1)}
    \/ log # << >> /\ ~Parses(log[Len(log)])

\* An entry that was acknowledged is a line, or some line does not parse.
Kept(ls, n) == \/ \E i \in DOMAIN ls : ls[i] = Text(n)
               \/ \E i \in DOMAIN ls : ~Parses(ls[i])

\* What every step of the log, whole or cut short, keeps.
AuditInv ==
  /\ log \in Seq(LineTexts(1..Len(prevHash)))
  /\ unfinished \in BOOLEAN /\ (unfinished => log # << >>)
  /\ \A text \in tail : tail = {text} /\ text \in Line
  /\ prevHash \in Seq(Line) /\ Len(prevHash) <= MaxEntries
  /\ acknowledged \subseteq 1..Len(prevHash)
  /\ Chained(log, prevHash)
  /\ TailIsLast
  /\ \A n \in acknowledged : Kept(log, n)

\* Two texts written behind each other: each part is of one of them.
LEMMA PiecesJoined ==
  ASSUME NEW S, NEW a \in Seq(S), a # << >>, NEW b \in Seq(S), b # << >>
  PROVE  /\ a \o b \in Seq(S) /\ Len(a \o b) # 1 /\ a \o b # << >>
         /\ \A k \in DOMAIN (a \o b) : (\E i \in DOMAIN a : (a \o b)[k] = a[i])
                                       \/ (\E i \in DOMAIN b : (a \o b)[k] = b[i])
  <1>1. /\ a \o b \in Seq(S) /\ Len(a \o b) = Len(a) + Len(b)
        /\ Len(a) \in Nat /\ Len(b) \in Nat /\ Len(a) # 0 /\ Len(b) # 0
    BY EmptySeq
  <1>2. Len(a \o b) # 1 /\ Len(a \o b) # 0
    BY <1>1
  <1>3. \A k \in 1..(Len(a) + Len(b)) :
          (a \o b)[k] = IF k <= Len(a) THEN a[k] ELSE b[k - Len(a)]
    BY <1>1
  <1>4. ASSUME NEW k \in DOMAIN (a \o b)
        PROVE  \/ \E i \in DOMAIN a : (a \o b)[k] = a[i]
               \/ \E i \in DOMAIN b : (a \o b)[k] = b[i]
    <2>1. k \in 1..(Len(a) + Len(b))
      BY <1>1
    <2>2. CASE k <= Len(a)
      BY <1>1, <1>3, <2>1, <2>2
    <2>3. CASE ~(k <= Len(a))
      <3>1. k - Len(a) \in DOMAIN b
        BY <1>1, <2>1, <2>3
      <3> QED BY <1>3, <2>1, <2>3, <3>1
    <2> QED BY <2>2, <2>3
  <1> QED BY <1>1, <1>2, <1>4

\* Whatever is appended, it is a line of its own or makes the last one
\* unreadable; the other lines stay.
LEMMA WhatAnAppendDoes ==
  ASSUME AuditInv, NEW n \in 1..MaxEntries, n = Len(prevHash) + 1,
         NEW text \in {Text(n), Torn(n)}
  PROVE  /\ Appended(text) \in Seq(LineTexts(1..n))
         /\ Appended(text) # << >>
         /\ \/ /\ ~unfinished /\ Len(Appended(text)) = Len(log) + 1
               /\ Appended(text)[Len(log) + 1] = text
               /\ \A i \in 1..Len(log) : Appended(text)[i] = log[i]
            \/ /\ unfinished /\ Len(log) >= 1 /\ Len(Appended(text)) = Len(log)
               /\ ~Parses(Appended(text)[Len(log)])
               /\ \A i \in 1..(Len(log) - 1) : Appended(text)[i] = log[i]
  <1>0. /\ log \in Seq(LineTexts(1..Len(prevHash))) /\ Len(prevHash) \in Nat
        /\ n \in Nat /\ Len(log) \in Nat
    BY DEF AuditInv
  <1>1. text \in Line /\ text # << >> /\ text[1].entry = n /\ DOMAIN text = {1}
    <2>1. PICK piece \in Piece : piece.entry = n /\ text = <<piece>>
      <3>1. [entry |-> n, whole |-> TRUE] \in Piece /\ [entry |-> n, whole |-> FALSE] \in Piece
        BY DEF Piece
      <3> QED BY <3>1 DEF Text, Torn
    <2> QED BY <2>1 DEF Line
  <1>2. text \in LineTexts(1..n)
    BY <1>0, <1>1 DEF LineTexts
  <1>3. LineTexts(1..Len(prevHash)) \subseteq LineTexts(1..n)
    <2>1. 1..Len(prevHash) \subseteq 1..n
      BY <1>0
    <2> QED BY <2>1 DEF LineTexts
  <1>4. log \in Seq(LineTexts(1..n))
    BY <1>0, <1>3, SeqMonotonic
  <1>5. CASE ~unfinished
    <2>1. Appended(text) = Append(log, text)
      BY <1>5 DEF Appended
    <2>2. /\ Append(log, text) \in Seq(LineTexts(1..n))
          /\ Len(Append(log, text)) = Len(log) + 1
          /\ Append(log, text)[Len(log) + 1] = text
          /\ \A i \in 1..Len(log) : Append(log, text)[i] = log[i]
      BY <1>0, <1>2, <1>4
    <2>3. Append(log, text) # << >>
      BY <1>0, <2>2
    <2> QED BY <1>5, <2>1, <2>2, <2>3
  <1>6. CASE unfinished
    <2> DEFINE last == Last(log)
               line == last \o text
    <2>1. Len(log) >= 1 /\ Len(log) # 0
      BY <1>0, <1>6, EmptySeq DEF AuditInv
    <2>2. last \in LineTexts(1..n) /\ last = log[Len(log)]
      <3>1. Len(log) \in DOMAIN log
        BY <1>0, <2>1
      <3>2. log[Len(log)] \in LineTexts(1..n)
        BY <1>4, <3>1
      <3> QED BY <3>2 DEF Last
    <2> HIDE DEF last
    <2>3. /\ line \in Line /\ Len(line) # 1 /\ line # << >>
          /\ \A k \in DOMAIN line : (\E i \in DOMAIN last : line[k] = last[i])
                                    \/ (\E i \in DOMAIN text : line[k] = text[i])
      <3>1. last \in Seq(Piece) /\ last # << >> /\ text \in Seq(Piece) /\ text # << >>
        BY <1>2, <2>2 DEF LineTexts, Line
      <3>2. /\ last \o text \in Seq(Piece) /\ Len(last \o text) # 1 /\ last \o text # << >>
            /\ \A k \in DOMAIN (last \o text) : 
                  \/ \E i \in DOMAIN last : (last \o text)[k] = last[i]
                  \/ \E i \in DOMAIN text : (last \o text)[k] = text[i]
        BY <3>1, PiecesJoined
      <3> QED BY <3>2 DEF Line
    <2> HIDE DEF line
    <2>4. line \in LineTexts(1..n)
      BY <1>2, <2>2, <2>3 DEF LineTexts
    <2>5. ~Parses(line)
      BY <2>3 DEF Parses
    <2>6. Front(log) \in Seq(LineTexts(1..n)) /\ Len(Front(log)) = Len(log) - 1
          /\ \A i \in 1..(Len(log) - 1) : Front(log)[i] = log[i]
      <3>1. \A i \in 1..(Len(log) - 1) : log[i] \in LineTexts(1..n)
        BY <1>0, <1>4
      <3>2. /\ SubSeq(log, 1, Len(log) - 1) \in Seq(LineTexts(1..n))
            /\ Len(SubSeq(log, 1, Len(log) - 1)) =
                 (IF 1 <= Len(log) - 1 THEN (Len(log) - 1) - 1 + 1 ELSE 0)
            /\ \A i \in 1..((Len(log) - 1) - 1 + 1) : SubSeq(log, 1, Len(log) - 1)[i] = log[1 + i - 1]
        BY <1>0, <2>1, <3>1, SubSeqProperties
      <3>3. (Len(log) - 1) - 1 + 1 = Len(log) - 1 /\ \A i \in 1..(Len(log) - 1) : 1 + i - 1 = i
        BY <1>0
      <3>4. Len(SubSeq(log, 1, Len(log) - 1)) = Len(log) - 1
        BY <1>0, <2>1, <3>2, <3>3
      <3> QED BY <3>2, <3>3, <3>4 DEF Front
    <2> DEFINE front == Front(log)
    <2>7. Appended(text) = Append(front, line)
      BY <1>6 DEF Appended, line, last
    <2> HIDE DEF front
    <2>8. /\ front \in Seq(LineTexts(1..n)) /\ Len(front) = Len(log) - 1
          /\ \A i \in 1..(Len(log) - 1) : front[i] = log[i]
      BY <2>6 DEF front
    <2>9. /\ Append(front, line) \in Seq(LineTexts(1..n))
          /\ Len(Append(front, line)) = Len(log)
          /\ Append(front, line)[Len(log)] = line
          /\ \A i \in 1..(Len(log) - 1) : Append(front, line)[i] = log[i]
      BY <1>0, <2>1, <2>4, <2>8
    <2>10. Append(front, line) # << >>
      BY <1>0, <2>1, <2>9
    <2> QED BY <1>6, <2>1, <2>5, <2>7, <2>9, <2>10
  <1> QED BY <1>5, <1>6

\* A text written whole is one entry.
LEMMA ATextParses ==
  ASSUME NEW n
  PROVE  Parses(Text(n)) /\ Text(n)[1].entry = n
  BY DEF Parses, Text

\* And a line.
LEMMA TextIsALine ==
  ASSUME NEW n \in 1..MaxEntries
  PROVE  Text(n) \in Line
  <1>1. [entry |-> n, whole |-> TRUE] \in Piece
    BY DEF Piece
  <1> QED BY <1>1 DEF Text, Line

\* What the next entry claims is the last line, unless that one will not count.
LEMMA WhatAnEntryClaims ==
  ASSUME AuditInv, NEW claimed \in Primed
  PROVE  /\ claimed \in Line /\ Primed = {claimed}
         /\ ~unfinished => \/ claimed = LineBefore(log, Len(log) + 1)
                           \/ log # << >> /\ ~Parses(log[Len(log)])
  <1>0. log \in Seq(LineTexts(1..Len(prevHash))) /\ Len(log) \in Nat
    BY DEF AuditInv
  <1>1. CASE tail # {}
    BY <1>1 DEF Primed, AuditInv, TailIsLast
  <1>2. CASE tail = {} /\ log = << >>
    <2>1. Primed = {ZeroHash}
      BY <1>2 DEF Primed
    <2>2. ZeroHash \in Line
      BY DEF ZeroHash, Line
    <2>3. LineBefore(log, Len(log) + 1) = ZeroHash
      <3>1. Len(log) + 1 = 1
        BY <1>2
      <3> QED BY <3>1 DEF LineBefore
    <2> QED BY <2>1, <2>2, <2>3
  <1>3. CASE tail = {} /\ log # << >>
    <2>1. Primed = {Last(log)}
      BY <1>3 DEF Primed
    <2>2. Len(log) # 0
      BY <1>0, <1>3, EmptySeq
    <2>3. Len(log) \in DOMAIN log
      BY <1>0, <2>2
    <2>4. log[Len(log)] \in LineTexts(1..Len(prevHash))
      BY <1>0, <2>3
    <2>5. Last(log) = log[Len(log)] /\ Last(log) \in Line
      BY <2>4 DEF Last, LineTexts
    <2>6. LineBefore(log, Len(log) + 1) = log[Len(log)]
      <3>1. Len(log) + 1 # 1 /\ (Len(log) + 1) - 1 = Len(log)
        BY <1>0, <2>2
      <3> QED BY <3>1 DEF LineBefore
    <2> QED BY <2>1, <2>5, <2>6
  <1> QED BY <1>1, <1>2, <1>3

\* The chain with one more entry and what was appended of it.
LEMMA ChainGrows ==
  ASSUME AuditInv, NEW n \in 1..MaxEntries, n = Len(prevHash) + 1,
         NEW claimed \in Primed, NEW text \in {Text(n), Torn(n)}
  PROVE  /\ Chained(Appended(text), Append(prevHash, claimed))
         /\ \A m : Kept(log, m) => Kept(Appended(text), m)
  <1> DEFINE more == Appended(text)
             claims == Append(prevHash, claimed)
  <1>0. /\ log \in Seq(LineTexts(1..Len(prevHash))) /\ Len(log) \in Nat
        /\ prevHash \in Seq(Line) /\ Len(prevHash) \in Nat /\ n \in Nat
        /\ more \in Seq(LineTexts(1..n))
    BY WhatAnAppendDoes DEF AuditInv
  <1>1. \/ /\ ~unfinished /\ Len(more) = Len(log) + 1 /\ more[Len(log) + 1] = text
           /\ \A i \in 1..Len(log) : more[i] = log[i]
        \/ /\ unfinished /\ Len(log) >= 1 /\ Len(more) = Len(log) /\ ~Parses(more[Len(log)])
           /\ \A i \in 1..(Len(log) - 1) : more[i] = log[i]
    BY WhatAnAppendDoes
  <1>2. /\ claims \in Seq(Line) /\ claims[n] = claimed
        /\ \A m \in 1..Len(prevHash) : claims[m] = prevHash[m]
    BY <1>0, WhatAnEntryClaims
  <1>3. ~unfinished => \/ claimed = LineBefore(log, Len(log) + 1)
                       \/ log # << >> /\ ~Parses(log[Len(log)])
    BY WhatAnEntryClaims
  <1> HIDE DEF more, claims
  \* The lines that stay as they are.
  <1>4. ASSUME NEW i \in 1..Len(log), more[i] = log[i], i = 1 \/ more[i - 1] = log[i - 1],
               Parses(more[i]), i = 1 \/ Parses(more[i - 1])
        PROVE  claims[more[i][1].entry] = LineBefore(more, i)
    <2>1. LineBefore(more, i) = LineBefore(log, i)
      BY <1>4 DEF LineBefore
    <2>2. i \in DOMAIN log
      BY <1>0
    <2>3. log[i] \in LineTexts(1..Len(prevHash))
      BY <1>0, <2>2
    <2>4. 1 \in DOMAIN log[i]
      <3>1. log[i] \in Seq(Piece) /\ Len(log[i]) = 1
        BY <1>4, <2>3 DEF LineTexts, Line, Parses
      <3> QED BY <3>1
    <2>5. log[i][1].entry \in 1..Len(prevHash)
      BY <2>3, <2>4 DEF LineTexts
    <2>6. prevHash[log[i][1].entry] = LineBefore(log, i)
      BY <1>4, <2>2 DEF AuditInv, Chained
    <2> QED BY <1>2, <1>4, <2>1, <2>5, <2>6
  <1>5. CASE ~unfinished
    <2>1. /\ Len(more) = Len(log) + 1 /\ more[Len(log) + 1] = text
          /\ \A i \in 1..Len(log) : more[i] = log[i]
      BY <1>1, <1>5
    <2>2. ASSUME NEW i \in 1..Len(log), Parses(more[i]), i = 1 \/ Parses(more[i - 1])
          PROVE  claims[more[i][1].entry] = LineBefore(more, i)
      <3>1. i = 1 \/ i - 1 \in 1..Len(log)
        BY <1>0
      <3> QED BY <1>4, <2>1, <2>2, <3>1
    <2>3. ASSUME NEW i, i = Len(log) + 1, i = 1 \/ Parses(more[i - 1])
          PROVE  claims[more[i][1].entry] = LineBefore(more, i)
      <3>1. more[i] = text /\ text[1].entry = n
        BY <2>1, <2>3 DEF Text, Torn
      <3>2. CASE i = 1
        <4>1. Len(log) = 0
          BY <1>0, <2>3, <3>2
        <4>2. log = << >>
          BY <1>0, <4>1, EmptySeq
        <4>3. claimed = LineBefore(log, i)
          BY <1>3, <1>5, <2>3, <4>2
        <4> QED BY <1>2, <3>1, <3>2, <4>3 DEF LineBefore
      <3>3. CASE i # 1
        <4>1. i - 1 = Len(log) /\ Len(log) \in 1..Len(log)
          BY <1>0, <2>3, <3>3
        <4>2. more[i - 1] = log[Len(log)]
          BY <2>1, <4>1
        <4>3. Parses(log[Len(log)])
          BY <2>3, <3>3, <4>2
        <4>4. claimed = LineBefore(log, i)
          BY <1>3, <1>5, <2>3, <4>3
        <4>5. LineBefore(more, i) = more[i - 1] /\ LineBefore(log, i) = log[i - 1]
          BY <3>3 DEF LineBefore
        <4> QED BY <1>2, <3>1, <4>1, <4>2, <4>4, <4>5
      <3> QED BY <3>2, <3>3
    <2>4. \A i \in DOMAIN more : i \in 1..Len(log) \/ i = Len(log) + 1
      BY <1>0, <2>1
    <2>5. Chained(more, claims)
      BY <2>2, <2>3, <2>4 DEF Chained
    <2>6. \A i \in DOMAIN log : i \in DOMAIN more /\ more[i] = log[i]
      BY <1>0, <2>1
    <2>7. \A m : Kept(log, m) => Kept(more, m)
      BY <2>6 DEF Kept
    <2> QED BY <2>5, <2>7 DEF more, claims
  <1>6. CASE unfinished
    <2>1. /\ Len(log) >= 1 /\ Len(more) = Len(log) /\ ~Parses(more[Len(log)])
          /\ \A i \in 1..(Len(log) - 1) : more[i] = log[i]
      BY <1>1, <1>6
    <2>2. ASSUME NEW i \in DOMAIN more, Parses(more[i]), i = 1 \/ Parses(more[i - 1])
          PROVE  claims[more[i][1].entry] = LineBefore(more, i)
      <3>1. i \in 1..Len(log)
        BY <1>0, <2>1
      <3>2. i # Len(log)
        BY <2>1, <2>2
      <3>3. i \in 1..(Len(log) - 1) /\ (i = 1 \/ i - 1 \in 1..(Len(log) - 1))
        BY <1>0, <3>1, <3>2
      <3> QED BY <1>4, <2>1, <2>2, <3>1, <3>3
    <2>3. Chained(more, claims)
      BY <2>2 DEF Chained
    <2>4. Len(log) \in DOMAIN more
      BY <1>0, <2>1
    <2>5. \A m : Kept(more, m)
      BY <2>1, <2>4 DEF Kept
    <2> QED BY <2>3, <2>5 DEF more, claims
  <1> QED BY <1>5, <1>6

\* The invariant holds for an empty log.
THEOREM AuditInitially == AuditInit => AuditInv
  <1> SUFFICES ASSUME AuditInit PROVE AuditInv
    OBVIOUS
  <1>1. /\ log = << >> /\ unfinished = FALSE /\ tail = {} /\ prevHash = << >> /\ acknowledged = {}
    BY DEF AuditInit
  <1>2. log \in Seq(LineTexts(1..Len(prevHash))) /\ DOMAIN log = {}
    BY <1>1
  <1>3. prevHash \in Seq(Line) /\ Len(prevHash) <= MaxEntries
    BY <1>1, AuditAssumption
  <1>4. Chained(log, prevHash) /\ TailIsLast
    BY <1>1, <1>2 DEF Chained, TailIsLast
  <1> QED BY <1>1, <1>2, <1>3, <1>4 DEF AuditInv

\* Another entry has claimed its tail: what holds of it, whatever is written.
LEMMA EntryBegun ==
  ASSUME AuditInv, Len(prevHash) < MaxEntries, NEW claimed \in Primed,
         prevHash' = Append(prevHash, claimed)
  PROVE  /\ Len(prevHash') = Len(prevHash) + 1 /\ Len(prevHash) \in Nat
         /\ Len(prevHash') \in 1..MaxEntries
         /\ prevHash' \in Seq(Line)
         /\ acknowledged \subseteq 1..Len(prevHash')
  <1>1. /\ prevHash \in Seq(Line) /\ Len(prevHash) \in Nat /\ claimed \in Line
        /\ MaxEntries \in Nat /\ acknowledged \subseteq 1..Len(prevHash)
    BY WhatAnEntryClaims, AuditAssumption DEF AuditInv
  <1>2. prevHash' \in Seq(Line) /\ Len(prevHash') = Len(prevHash) + 1
    BY <1>1
  <1>3. Len(prevHash') \in 1..MaxEntries
    BY <1>1, <1>2
  <1>4. 1..Len(prevHash) \subseteq 1..Len(prevHash')
    BY <1>1, <1>2
  <1> QED BY <1>1, <1>2, <1>3, <1>4

\* An entry is written whole.
LEMMA WriteStep ==
  ASSUME AuditInv, Write
  PROVE  AuditInv'
  <1> DEFINE n == Len(prevHash')
  <1>1. PICK claimed \in Primed : prevHash' = Append(prevHash, claimed)
    BY DEF Write
  <1>2. /\ Len(prevHash) < MaxEntries /\ log' = Appended(Text(n)) /\ tail' = {Text(n)}
        /\ acknowledged' = acknowledged \cup {n} /\ unfinished' = FALSE
    BY DEF Write
  <1>3. /\ n = Len(prevHash) + 1 /\ n \in 1..MaxEntries /\ prevHash' \in Seq(Line)
        /\ acknowledged \subseteq 1..n
    BY <1>1, <1>2, EntryBegun
  <1> HIDE DEF n
  <1>4. /\ log' \in Seq(LineTexts(1..n)) /\ log' # << >>
        /\ \/ /\ ~unfinished /\ Len(log') = Len(log) + 1 /\ log'[Len(log) + 1] = Text(n)
           \/ /\ unfinished /\ Len(log) >= 1 /\ Len(log') = Len(log)
              /\ ~Parses(log'[Len(log)])
    BY <1>2, <1>3, WhatAnAppendDoes
  <1>5. Chained(log', prevHash') /\ \A m : Kept(log, m) => Kept(log', m)
    BY <1>1, <1>2, <1>3, ChainGrows
  <1>6. Len(log) \in Nat /\ Len(log') \in Nat
    BY <1>4 DEF AuditInv
  <1>7. Kept(log', n)
    <2>1. CASE ~unfinished
      <3>1. Len(log) + 1 \in DOMAIN log' /\ log'[Len(log) + 1] = Text(n)
        BY <1>4, <1>6, <2>1
      <3> QED BY <3>1 DEF Kept
    <2>2. CASE unfinished
      <3>1. Len(log) \in DOMAIN log' /\ ~Parses(log'[Len(log)])
        BY <1>4, <1>6, <2>2
      <3> QED BY <3>1 DEF Kept
    <2> QED BY <2>1, <2>2
  <1>8. \/ Text(n) = LineBefore(log', Len(log') + 1)
        \/ log' # << >> /\ ~Parses(log'[Len(log')])
    <2>1. CASE ~unfinished
      <3>1. Len(log') = Len(log) + 1 /\ log'[Len(log')] = Text(n)
        BY <1>4, <2>1
      <3>2. Len(log') + 1 # 1 /\ (Len(log') + 1) - 1 = Len(log')
        BY <1>6, <3>1
      <3>3. LineBefore(log', Len(log') + 1) = log'[Len(log')]
        BY <3>2 DEF LineBefore
      <3> QED BY <3>1, <3>3
    <2>2. CASE unfinished
      BY <1>4, <2>2
    <2> QED BY <2>1, <2>2
  <1>9. Text(n) \in Line /\ n \in 1..n /\ n <= MaxEntries
    BY <1>3, TextIsALine
  <1>10. TailIsLast'
    BY <1>2, <1>8 DEF TailIsLast, LineBefore
  <1>11. \A m \in acknowledged' : Kept(log', m)
    BY <1>2, <1>5, <1>7 DEF AuditInv
  <1>12. acknowledged' \subseteq 1..n
    BY <1>2, <1>3, <1>9
  <1>13. \A text \in tail' : tail' = {text} /\ text \in Line
    BY <1>2, <1>9
  <1> USE DEF n
  <1>14. Chained(log', prevHash')
    BY <1>5
  <1> QED
    BY <1>2, <1>3, <1>4, <1>9, <1>10, <1>11, <1>12, <1>13, <1>14 DEF AuditInv, Chained, Kept, LineTexts

\* What an append that is cut short leaves, with no byte written or with some.
LEMMA CutShortLeaves ==
  ASSUME AuditInv, CutShort
  PROVE  /\ log' \in Seq(LineTexts(1..Len(prevHash'))) /\ unfinished' \in BOOLEAN
         /\ unfinished' => log' # << >>
         /\ prevHash' \in Seq(Line) /\ Len(prevHash') <= MaxEntries
         /\ acknowledged' \subseteq 1..Len(prevHash')
         /\ Chained(log', prevHash')
         /\ \A m \in acknowledged' : Kept(log', m)
         /\ ~unfinished' => ~unfinished /\ log' = log
  <1> DEFINE n == Len(prevHash')
  <1>1. PICK claimed \in Primed : prevHash' = Append(prevHash, claimed)
    BY DEF CutShort
  <1>2. Len(prevHash) < MaxEntries /\ acknowledged' = acknowledged
    BY DEF CutShort
  <1>3. /\ n = Len(prevHash) + 1 /\ n \in 1..MaxEntries /\ prevHash' \in Seq(Line)
        /\ acknowledged \subseteq 1..n /\ n <= MaxEntries /\ Len(prevHash) \in Nat
    BY <1>1, <1>2, EntryBegun
  <1>4. \/ UNCHANGED <<log, unfinished>>
        \/ unfinished' = TRUE /\ \E text \in {Text(n), Torn(n)} : log' = Appended(text)
    BY DEF CutShort
  <1> HIDE DEF n
  <1>5. ASSUME NEW text \in {Text(n), Torn(n)}, log' = Appended(text), unfinished' = TRUE
        PROVE  /\ log' \in Seq(LineTexts(1..n)) /\ log' # << >>
               /\ Chained(log', prevHash')
               /\ \A m \in acknowledged : Kept(log', m)
    <2>1. log' \in Seq(LineTexts(1..n)) /\ log' # << >>
      BY <1>3, <1>5, WhatAnAppendDoes
    <2>2. Chained(log', prevHash') /\ \A m : Kept(log, m) => Kept(log', m)
      BY <1>1, <1>3, <1>5, ChainGrows
    <2> QED BY <2>1, <2>2 DEF AuditInv
  <1>6. ASSUME UNCHANGED <<log, unfinished>>
        PROVE  /\ log \in Seq(LineTexts(1..n))
               /\ Chained(log, prevHash')
    <2>1. LineTexts(1..Len(prevHash)) \subseteq LineTexts(1..n)
      <3>1. 1..Len(prevHash) \subseteq 1..n
        BY <1>3
      <3> QED BY <3>1 DEF LineTexts
    <2>2. log \in Seq(LineTexts(1..n))
      BY <2>1, SeqMonotonic DEF AuditInv
    <2>3. ASSUME NEW i \in DOMAIN log, Parses(log[i]), i = 1 \/ Parses(log[i - 1])
          PROVE  prevHash'[log[i][1].entry] = LineBefore(log, i)
      <3>1. log[i] \in LineTexts(1..Len(prevHash))
        BY DEF AuditInv
      <3>2. log[i] \in Seq(Piece) /\ Len(log[i]) = 1
        BY <2>3, <3>1 DEF LineTexts, Line, Parses
      <3>3. 1 \in DOMAIN log[i]
        BY <3>2
      <3>4. log[i][1].entry \in 1..Len(prevHash)
        BY <3>1, <3>3 DEF LineTexts
      <3>5. prevHash[log[i][1].entry] = LineBefore(log, i)
        BY <2>3 DEF AuditInv, Chained
      <3>6. \A m \in 1..Len(prevHash) : prevHash'[m] = prevHash[m]
        BY <1>1, WhatAnEntryClaims DEF AuditInv
      <3> QED BY <3>4, <3>5, <3>6
    <2> QED BY <2>2, <2>3 DEF Chained
  <1>7. CASE UNCHANGED <<log, unfinished>>
    <2>1. unfinished \in BOOLEAN /\ (unfinished => log # << >>) /\ \A m \in acknowledged : Kept(log, m)
      BY DEF AuditInv
    <2>2. log' = log /\ unfinished' = unfinished
      BY <1>7
    <2> QED BY <1>2, <1>3, <1>6, <1>7, <2>1, <2>2 DEF n
  <1>8. CASE unfinished' = TRUE /\ \E text \in {Text(n), Torn(n)} : log' = Appended(text)
    BY <1>2, <1>3, <1>5, <1>8 DEF n
  <1> QED BY <1>4, <1>7, <1>8

\* A write that raises leaves no line, or a part of one.
LEMMA WriteRaisesStep ==
  ASSUME AuditInv, WriteRaises
  PROVE  AuditInv'
  <1>1. CutShort /\ tail' = Primed
    BY DEF WriteRaises
  <1>2. PICK claimed \in Primed : prevHash' = Append(prevHash, claimed)
    BY <1>1 DEF CutShort
  <1>3. /\ claimed \in Line /\ Primed = {claimed}
        /\ ~unfinished => \/ claimed = LineBefore(log, Len(log) + 1)
                          \/ log # << >> /\ ~Parses(log[Len(log)])
    BY WhatAnEntryClaims
  <1>4. \A text \in tail' : tail' = {text} /\ text \in Line
    BY <1>1, <1>3
  <1>5. ~unfinished' => ~unfinished /\ log' = log
    BY <1>1, CutShortLeaves
  <1>6. TailIsLast'
    BY <1>1, <1>3, <1>5 DEF TailIsLast, LineBefore
  <1> QED BY <1>1, <1>4, <1>6, CutShortLeaves DEF AuditInv, Chained, Kept, LineTexts

\* So does a crash in the middle of a write.
LEMMA CrashWritingStep ==
  ASSUME AuditInv, CrashWriting
  PROVE  AuditInv'
  <1>1. CutShort /\ tail' = {}
    BY DEF CrashWriting
  <1>2. TailIsLast'
    BY <1>1 DEF TailIsLast
  <1> QED BY <1>1, <1>2, CutShortLeaves DEF AuditInv, Chained, Kept, LineTexts

\* A restart reads the last line again.
LEMMA ReopenStep ==
  ASSUME AuditInv, Reopen
  PROVE  AuditInv'
  <1>1. TailIsLast'
    BY DEF Reopen, TailIsLast
  <1> QED BY <1>1 DEF Reopen, AuditInv, Chained, Kept, LineTexts

\* Every step keeps the invariant.
LEMMA AuditStep ==
  ASSUME AuditInv, [AuditNext]_auditVars
  PROVE  AuditInv'
  <1>1. CASE UNCHANGED auditVars
    <2>1. TailIsLast'
      BY <1>1 DEF auditVars, AuditInv, TailIsLast, LineBefore
    <2> QED BY <1>1, <2>1 DEF auditVars, AuditInv, Chained, Kept, LineTexts
  <1> QED BY <1>1, WriteStep, WriteRaisesStep, CrashWritingStep, ReopenStep DEF AuditNext

\* The invariant has the types in it.
LEMMA AuditTyped ==
  ASSUME AuditInv
  PROVE  AuditTypeOK
  <1>1. LineTexts(1..Len(prevHash)) \subseteq Line
    BY DEF LineTexts
  <1>2. log \in Seq(Line)
    BY <1>1, SeqMonotonic DEF AuditInv
  <1> QED BY <1>2 DEF AuditInv, AuditTypeOK

\* The verifier blames only tears, and a log it finds clean is complete.
LEMMA TellsTheTruth ==
  ASSUME AuditInv
  PROVE  VerifierTellsTheTruth
  <1>1. log \in Seq(LineTexts(1..Len(prevHash))) /\ Len(log) \in Nat
    BY DEF AuditInv
  <1>2. 1..Len(log) = DOMAIN log
    BY <1>1
  <1>3. BreaksAreAtTears
    <2>1. ASSUME NEW i \in Broken, Parses(log[i]), ~(i > 1 /\ ~Parses(log[i - 1]))
          PROVE  FALSE
      <3>1. /\ i \in DOMAIN log /\ i \in Nat /\ i >= 1
            /\ prevHash[log[i][1].entry] # (IF i = 1 THEN ZeroHash ELSE log[i - 1])
        BY <1>1, <1>2, <2>1 DEF Broken
      <3>2. i = 1 \/ Parses(log[i - 1])
        BY <2>1, <3>1
      <3>3. prevHash[log[i][1].entry] = LineBefore(log, i)
        BY <2>1, <3>1, <3>2 DEF AuditInv, Chained
      <3> QED BY <3>1, <3>3 DEF LineBefore
    <2> QED BY <2>1 DEF BreaksAreAtTears
  <1>4. CleanLogIsComplete
    BY <1>2 DEF CleanLogIsComplete, Broken, AuditInv, Kept
  <1> QED BY <1>3, <1>4 DEF VerifierTellsTheTruth

\* Every line claims the one before it, unless one of the two was cut short, and an
\* acknowledged entry is a line as long as every line parses.
THEOREM AuditInvariant == AuditSpec => []AuditInv
  BY AuditInitially, AuditStep, PTL DEF AuditSpec

\* Whatever writes fail and wherever the CA crashes, verify_chain blames nothing but the
\* traces of appends cut short, and a log it finds nothing wrong with has every entry that
\* was acknowledged.
THEOREM TheVerifierIsRight == AuditSpec => []VerifierTellsTheTruth
  BY AuditInvariant, TellsTheTruth, PTL

-----------------------------------------------------------------------------
(* The key files of the intermediates                                     *)

\* The places of a thread that rotates an intermediate.
RotateAts == {"new", "archive_key", "cert", "key", "alias_cert", "alias_key", "answer"}
\* The places of a thread that mints for an external name.
MintAts == {"root", "root_cert", "root_key", "mkdir", "xkey", "xanswer"}

\* The seconds an archive directory is named by.
Seconds == 0..MaxSeconds
\* A pair of files kept in the archive.
ArchivedPair == [of : Intermediate, second : Seconds, cert : Number, key : Number]
\* A thread that rotates, one that mints, one that read a certificate to sign with.
Rotation == [at : RotateAts, of : Intermediate, new : Number, second : Seconds, old : Number]
\* A thread that mints for an external name.
Mint == [at : MintAts, of : External, root : Root \cup {"primary"}, new : Number, retain : BOOLEAN]
\* A thread that read a certificate.
Reading == [at : {"sign"}, of : External, cert : Number]

\* Everything a thread may be at.
Places == {Resting} \cup Rotation \cup Mint \cup Reading

\* A pair of files for each name.
Pairs(S) == [S -> Pair]

\* The type invariant, by the names of these sets.
KeyFilesTyped ==
  /\ pair \in Pairs(Issuer)
  /\ alias \in Pairs(Intermediate)
  /\ archive \subseteq ArchivedPair
  /\ rootFiles \in [Root -> {"none", "directory", "cert", "whole"}]
  /\ loaded \in Pairs(Intermediate)
  /\ work \in [Worker -> Places]
  /\ generated \in Number
  /\ second \in Seconds
  /\ leaves \subseteq [of : Issuer, by : Number, under : Number]
  /\ upset \subseteq Issuer
  /\ rotated \in [Intermediate -> Number]
  /\ rootOf \in [External -> Root \cup {"none", "primary"}]

\* A pair whose certificate and key belong together.
Whole(p) == p.cert = p.key

\* The keypairs that a role has signed with and may sign with.
Signers(r) == {leaf.by : leaf \in {l \in leaves : l.of = r}} \cup {loaded[r].key}

\* A whole pair of r in the archive.
InArchive(r, k) == \E a \in archive : a.of = r /\ a.cert = k /\ a.key = k

\* The key k of r is whole in its files or in the archive.
KeptWhole(r, k) == pair[r] = [cert |-> k, key |-> k] \/ InArchive(r, k)

\* A role with no rotation under way: its files are whole and alike; all that
\* signed is kept.
RoleSound(r) ==
  /\ Whole(loaded[r])
  /\ \A k \in Signers(r) : KeptWhole(r, k)
  /\ (\A w \in Worker : work[w].at \in RotateAts => work[w].of # r)
       => alias[r] = pair[r] /\ Whole(pair[r])

\* How far a rotation is, for a role whose files no other thread writes.
RotationSound(w) ==
  LET r == work[w].of
      same == {a \in archive : SameArchive(a, w)}
  IN /\ work[w].at = "new" => same = {}
     /\ work[w].at = "archive_key" => same # {} /\ \A a \in same : a.cert = pair[r].cert
     /\ work[w].at = "cert" => InArchive(r, pair[r].cert)
     /\ work[w].at \in {"new", "archive_key", "cert"} => alias[r] = pair[r] /\ Whole(pair[r])
     /\ work[w].at = "key" => /\ pair[r].cert = work[w].new
                              /\ InArchive(r, pair[r].key)
     /\ work[w].at \in {"alias_cert", "alias_key", "answer"} =>
          pair[r] = [cert |-> work[w].new, key |-> work[w].new]
     /\ work[w].at = "alias_key" => alias[r].cert = work[w].new
     /\ work[w].at = "answer" => alias[r] = pair[r]

\* An external intermediate's files: what its one writer has written so far, and
\* the certificate that those who sign with it have read.
ExternalSound(x) ==
  /\ pair[x].key = 0 \/ Whole(pair[x])
  /\ \A w \in Worker : work[w].at \in MintAts /\ work[w].of = x =>
       /\ work[w].at \in {"root", "root_cert", "root_key", "mkdir"} => pair[x] = [cert |-> 0, key |-> 0]
       /\ work[w].at = "xkey" => pair[x].cert = work[w].new
  /\ \A w \in Worker : work[w].at = "sign" /\ work[w].of = x =>
       work[w].cert = pair[x].cert /\ work[w].cert # 0

\* A thread that writes the files of a name.
Writes(w, x) == work[w].at \in RotateAts \cup MintAts /\ work[w].of = x

\* Two threads write the files of the same name only if that was excused: upset.
OneWriter ==
  \A v, w \in Worker, x \in Issuer \ upset : Writes(v, x) /\ Writes(w, x) => v = w

\* The thread that makes a root has its directory for itself; the other mints
\* have a root that is whole.
RootSound(w) ==
  /\ work[w].at = "root_cert" => rootFiles[work[w].root] = "directory"
  /\ work[w].at = "root_key" => rootFiles[work[w].root] = "cert"
  /\ work[w].at = "mkdir" /\ work[w].root \in Root => rootFiles[work[w].root] = "whole"
  /\ work[w].at \in {"root", "root_cert", "root_key"} => work[w].root \in Root

\* A thread in the middle of making a root.
MakesRoot(w) == work[w].at \in {"root_cert", "root_key"}

\* What is known of the roots.
RootsSound ==
  /\ \A w \in Worker : RootSound(w)
  /\ \A v, w \in Worker :
       (MakesRoot(v) /\ MakesRoot(w) /\ work[v].root = work[w].root) => v = w
  /\ \A x \in External : rootOf[x] \in Root => rootFiles[rootOf[x]] = "whole"

\* A leaf is signed with the key its issuer's certificate has.
LeavesSound == \A leaf \in leaves : leaf.by = leaf.under \/ leaf.of \in upset

\* What every step of the CA's threads keeps.
KeysInv ==
  /\ KeyFilesTyped
  /\ OneWriter
  /\ \A r \in Intermediate \ upset : RoleSound(r)
  /\ \A w \in Worker : work[w].at \in RotateAts /\ work[w].of \notin upset => RotationSound(w)
  /\ \A x \in External \ upset : ExternalSound(x)
  /\ RootsSound
  /\ LeavesSound

\* The members of the two sets of places, and what is in neither.
LEMMA PlaceWords ==
  /\ "new" \in RotateAts /\ "archive_key" \in RotateAts /\ "cert" \in RotateAts
  /\ "key" \in RotateAts /\ "alias_cert" \in RotateAts /\ "alias_key" \in RotateAts
  /\ "answer" \in RotateAts
  /\ "root" \in MintAts /\ "root_cert" \in MintAts /\ "root_key" \in MintAts
  /\ "mkdir" \in MintAts /\ "xkey" \in MintAts /\ "xanswer" \in MintAts
  /\ \A at \in RotateAts : at \notin MintAts /\ at # "rest" /\ at # "sign"
  /\ \A at \in MintAts : at \notin RotateAts /\ at # "rest" /\ at # "sign"
  BY DEF RotateAts, MintAts

\* The places of a thread that makes a root.
LEMMA MoreWords ==
  /\ \A at \in {"root", "root_cert", "root_key"} : at \in MintAts
  /\ \A at \in {"root", "root_cert", "root_key", "mkdir"} : at \in MintAts
  /\ "rest" \notin {"root", "root_cert", "root_key"} /\ "sign" \notin {"root", "root_cert", "root_key"}
  BY DEF MintAts

\* Where a thread is tells what it knows.
LEMMA PlaceFields ==
  ASSUME NEW p \in Places
  PROVE  /\ p.at \in RotateAts \/ p.at \in MintAts \/ p.at = "rest" \/ p.at = "sign"
         /\ p.at \in RotateAts => p \in Rotation
         /\ p.at \in MintAts => p \in Mint
         /\ p.at = "sign" => p \in Reading
         /\ p.at = "rest" => p = Resting
  <1>1. p \in Rotation => p.at \in RotateAts
    BY DEF Rotation
  <1>2. p \in Mint => p.at \in MintAts
    BY DEF Mint
  <1>3. p \in Reading => p.at = "sign"
    BY DEF Reading
  <1>4. p = Resting => p.at = "rest"
    BY DEF Resting
  <1>5. p = Resting \/ p \in Rotation \/ p \in Mint \/ p \in Reading
    BY DEF Places
  <1>6. "sign" # "rest"
    OBVIOUS
  <1> QED BY <1>1, <1>2, <1>3, <1>4, <1>5, <1>6, PlaceWords

\* What the fields of a rotation are, and that only its place changes as it goes on.
LEMMA RotationFields ==
  ASSUME NEW p \in Rotation
  PROVE  /\ p.at \in RotateAts /\ p.of \in Intermediate /\ p.new \in Number
         /\ p.second \in Seconds /\ p \in Places
         /\ \A at \in RotateAts :
              /\ [p EXCEPT !.at = at] \in Rotation
              /\ [p EXCEPT !.at = at].at = at /\ [p EXCEPT !.at = at].of = p.of
              /\ [p EXCEPT !.at = at].new = p.new /\ [p EXCEPT !.at = at].second = p.second
  <1>1. /\ p.at \in RotateAts /\ p.of \in Intermediate /\ p.new \in Number
        /\ p.second \in Seconds
    BY DEF Rotation
  <1>2. p \in Places
    BY DEF Places
  <1>3. ASSUME NEW at \in RotateAts
        PROVE  /\ [p EXCEPT !.at = at] \in Rotation
               /\ [p EXCEPT !.at = at].at = at /\ [p EXCEPT !.at = at].of = p.of
               /\ [p EXCEPT !.at = at].new = p.new /\ [p EXCEPT !.at = at].second = p.second
    BY DEF Rotation
  <1> QED BY <1>1, <1>2, <1>3

\* The same for a mint.
LEMMA MintFields ==
  ASSUME NEW p \in Mint
  PROVE  /\ p.at \in MintAts /\ p.of \in External /\ p.new \in Number
         /\ p.root \in Root \cup {"primary"} /\ p.retain \in BOOLEAN /\ p \in Places
         /\ \A at \in MintAts :
              /\ [p EXCEPT !.at = at] \in Mint
              /\ [p EXCEPT !.at = at].at = at /\ [p EXCEPT !.at = at].of = p.of
              /\ [p EXCEPT !.at = at].new = p.new /\ [p EXCEPT !.at = at].root = p.root
  <1>1. /\ p.at \in MintAts /\ p.of \in External /\ p.new \in Number
        /\ p.root \in Root \cup {"primary"} /\ p.retain \in BOOLEAN
    BY DEF Mint
  <1>2. p \in Places
    BY DEF Places
  <1>3. ASSUME NEW at \in MintAts
        PROVE  /\ [p EXCEPT !.at = at] \in Mint
               /\ [p EXCEPT !.at = at].at = at /\ [p EXCEPT !.at = at].of = p.of
               /\ [p EXCEPT !.at = at].new = p.new /\ [p EXCEPT !.at = at].root = p.root
    BY DEF Mint
  <1> QED BY <1>1, <1>2, <1>3

\* And for a thread that signs.
LEMMA ReadingFields ==
  ASSUME NEW p \in Reading
  PROVE  p.at = "sign" /\ p.of \in External /\ p.cert \in Number /\ p \in Places
  <1>1. p.at = "sign" /\ p.of \in External /\ p.cert \in Number
    BY DEF Reading
  <1> QED BY <1>1 DEF Places

\* And for one at rest.
LEMMA RestFields == Resting.at = "rest" /\ Resting \in Places
  BY DEF Resting, Places

\* What the fields of a pair are.
LEMMA PairFields ==
  ASSUME NEW p \in Pair
  PROVE  /\ p.cert \in Number /\ p.key \in Number
         /\ \A n \in Number : [p EXCEPT !.cert = n] = [cert |-> n, key |-> p.key]
         /\ \A n \in Number : [p EXCEPT !.key = n] = [cert |-> p.cert, key |-> n]
         /\ p = [cert |-> p.cert, key |-> p.key]
  BY DEF Pair

\* A pair made from a certificate and a key.
LEMMA PairMade ==
  ASSUME NEW c \in Number, NEW k \in Number
  PROVE  /\ [cert |-> c, key |-> k] \in Pair
         /\ [cert |-> c, key |-> k].cert = c /\ [cert |-> c, key |-> k].key = k
  BY DEF Pair

\* One file of a pair is written.
CertPut(pairs, r, n) == [pairs EXCEPT ![r].cert = n]

\* A certificate written changes that file and no other.
LEMMA CertWritten ==
  ASSUME NEW S, NEW pairs \in Pairs(S), NEW r \in S, NEW n \in Number
  PROVE  /\ CertPut(pairs, r, n) \in Pairs(S)
         /\ CertPut(pairs, r, n)[r] = [cert |-> n, key |-> pairs[r].key]
         /\ \A x \in S \ {r} : CertPut(pairs, r, n)[x] = pairs[x]
  <1> DEFINE a == [cert |-> n, key |-> pairs[r].key]
  <1>1. pairs[r] \in Pair
    BY DEF Pairs
  <1>2. [pairs[r] EXCEPT !.cert = n] = a /\ a \in Pair
    BY <1>1, PairFields, PairMade
  <1> HIDE DEF a
  <1>3. CertPut(pairs, r, n) = [pairs EXCEPT ![r] = a]
    BY <1>2 DEF CertPut
  <1>4. /\ CertPut(pairs, r, n) \in Pairs(S) /\ CertPut(pairs, r, n)[r] = a
        /\ \A x \in S \ {r} : CertPut(pairs, r, n)[x] = pairs[x]
    BY <1>2, <1>3 DEF Pairs
  <1> QED BY <1>4 DEF a

\* The key file of r, written.
KeyPut(pairs, r, n) == [pairs EXCEPT ![r].key = n]

\* A key written changes that file and no other.
LEMMA KeyWritten ==
  ASSUME NEW S, NEW pairs \in Pairs(S), NEW r \in S, NEW n \in Number
  PROVE  /\ KeyPut(pairs, r, n) \in Pairs(S)
         /\ KeyPut(pairs, r, n)[r] = [cert |-> pairs[r].cert, key |-> n]
         /\ \A x \in S \ {r} : KeyPut(pairs, r, n)[x] = pairs[x]
  <1> DEFINE a == [cert |-> pairs[r].cert, key |-> n]
  <1>1. pairs[r] \in Pair
    BY DEF Pairs
  <1>2. [pairs[r] EXCEPT !.key = n] = a /\ a \in Pair
    BY <1>1, PairFields, PairMade
  <1> HIDE DEF a
  <1>3. KeyPut(pairs, r, n) = [pairs EXCEPT ![r] = a]
    BY <1>2 DEF KeyPut
  <1>4. /\ KeyPut(pairs, r, n) \in Pairs(S) /\ KeyPut(pairs, r, n)[r] = a
        /\ \A x \in S \ {r} : KeyPut(pairs, r, n)[x] = pairs[x]
    BY <1>2, <1>3 DEF Pairs
  <1> QED BY <1>4 DEF a

\* One thread moves.
LEMMA ThreadMoves ==
  ASSUME work \in [Worker -> Places], NEW w \in Worker, NEW p \in Places,
         work' = [work EXCEPT ![w] = p]
  PROVE  /\ work' \in [Worker -> Places] /\ work'[w] = p
         /\ \A v \in Worker \ {w} : work'[v] = work[v]
  OBVIOUS

\* A rotation that goes on stays the rotation of the same intermediate.
LEMMA RotationMoves ==
  ASSUME work \in [Worker -> Places], NEW w \in Worker, work[w].at \in RotateAts,
         NEW at \in RotateAts, Step(w, at)
  PROVE  /\ work[w] \in Rotation /\ work[w].of \in Intermediate
         /\ work[w].new \in Number /\ work[w].second \in Seconds
         /\ work' \in [Worker -> Places]
         /\ work'[w] \in Rotation /\ work'[w].at = at /\ work'[w].of = work[w].of
         /\ work'[w].new = work[w].new /\ work'[w].second = work[w].second
         /\ \A v \in Worker \ {w} : work'[v] = work[v]
  <1> DEFINE p == [work[w] EXCEPT !.at = at]
  <1>1. work[w] \in Rotation
    BY PlaceFields
  <1>2. /\ work[w].of \in Intermediate /\ work[w].new \in Number /\ work[w].second \in Seconds
        /\ p \in Rotation /\ p.at = at /\ p.of = work[w].of
        /\ p.new = work[w].new /\ p.second = work[w].second
    BY <1>1, RotationFields
  <1>3. work' = [work EXCEPT ![w] = p]
    BY DEF Step
  <1> HIDE DEF p
  <1>4. p \in Places
    BY <1>2, RotationFields
  <1>5. /\ work' \in [Worker -> Places] /\ work'[w] = p
        /\ \A v \in Worker \ {w} : work'[v] = work[v]
    BY <1>3, <1>4, ThreadMoves
  <1> QED BY <1>1, <1>2, <1>5

\* A mint that goes on stays the mint of the same name.
LEMMA MintMoves ==
  ASSUME work \in [Worker -> Places], NEW w \in Worker, work[w].at \in MintAts,
         NEW at \in MintAts, Step(w, at)
  PROVE  /\ work[w] \in Mint /\ work[w].of \in External
         /\ work[w].new \in Number /\ work[w].root \in Root \cup {"primary"}
         /\ work' \in [Worker -> Places]
         /\ work'[w] \in Mint /\ work'[w].at = at /\ work'[w].of = work[w].of
         /\ work'[w].new = work[w].new /\ work'[w].root = work[w].root
         /\ \A v \in Worker \ {w} : work'[v] = work[v]
  <1> DEFINE p == [work[w] EXCEPT !.at = at]
  <1>1. work[w] \in Mint
    BY PlaceFields
  <1>2. /\ work[w].of \in External /\ work[w].new \in Number
        /\ work[w].root \in Root \cup {"primary"}
        /\ p \in Mint /\ p.at = at /\ p.of = work[w].of
        /\ p.new = work[w].new /\ p.root = work[w].root
    BY <1>1, MintFields
  <1>3. work' = [work EXCEPT ![w] = p]
    BY DEF Step
  <1> HIDE DEF p
  <1>4. p \in Places
    BY <1>2, MintFields
  <1>5. /\ work' \in [Worker -> Places] /\ work'[w] = p
        /\ \A v \in Worker \ {w} : work'[v] = work[v]
    BY <1>3, <1>4, ThreadMoves
  <1> QED BY <1>1, <1>2, <1>5

\* What a step leaves of an issuer that it does not touch.
LEMMA RoleUntouched ==
  ASSUME NEW q \in Intermediate, RoleSound(q),
         pair'[q] = pair[q], alias'[q] = alias[q], UNCHANGED <<loaded, leaves>>,
         \A k : InArchive(q, k) => InArchive(q, k)',
         (\A w \in Worker : work'[w].at \in RotateAts => work'[w].of # q)
           => \A w \in Worker : work[w].at \in RotateAts => work[w].of # q
  PROVE  RoleSound(q)'
  <1>1. Whole(loaded[q])' /\ Signers(q)' = Signers(q)
    BY DEF RoleSound, Whole, Signers
  <1>2. \A k \in Signers(q) : KeptWhole(q, k)'
    BY DEF RoleSound, KeptWhole
  <1>3. (\A w \in Worker : work'[w].at \in RotateAts => work'[w].of # q)
          => alias'[q] = pair'[q] /\ Whole(pair'[q])
    BY DEF RoleSound
  <1> QED BY <1>1, <1>2, <1>3 DEF RoleSound, Whole

\* A rotation stays sound when the files of its intermediate are left alone.
LEMMA RotationUntouched ==
  ASSUME NEW v \in Worker, RotationSound(v), work'[v] = work[v],
         pair'[work[v].of] = pair[work[v].of], alias'[work[v].of] = alias[work[v].of],
         \A a : a.of = work[v].of => (a \in archive' <=> a \in archive)
  PROVE  RotationSound(v)'
  <1>1. {a \in archive' : SameArchive(a, v)'} = {a \in archive : SameArchive(a, v)}
    BY DEF SameArchive
  <1>2. \A k : InArchive(work[v].of, k) => InArchive(work[v].of, k)'
    BY DEF InArchive
  <1> QED BY <1>1, <1>2 DEF RotationSound, Whole, InArchive

\* So does an external name when its files are.
LEMMA ExternalUntouched ==
  ASSUME NEW x, ExternalSound(x), pair'[x] = pair[x],
         \A v \in Worker : work'[v].at \in MintAts \cup {"sign"} /\ work'[v].of = x => work'[v] = work[v]
  PROVE  ExternalSound(x)'
  BY DEF ExternalSound, Whole

\* And the roots when theirs are.
LEMMA RootsUntouched ==
  ASSUME RootsSound, UNCHANGED <<rootFiles, rootOf>>,
         \A v \in Worker : work'[v].at \in MintAts => work'[v] = work[v]
  PROVE  RootsSound'
  <1>1. \A w \in Worker : RootSound(w)'
    BY DEF RootsSound, RootSound, MintAts
  <1>2. \A v, w \in Worker :
          (MakesRoot(v)' /\ MakesRoot(w)' /\ work'[v].root = work'[w].root) => v = w
    BY DEF RootsSound, MakesRoot, MintAts
  <1> QED BY <1>1, <1>2 DEF RootsSound

\* A step of a rotation: it is enough to look at the role that is rotated.
LEMMA RotationFrame ==
  ASSUME KeysInv, NEW w \in Worker, NEW r \in Intermediate,
         work[w].at \in RotateAts, work[w].of = r,
         work' \in [Worker -> Places],
         work'[w] = Resting \/ (work'[w].at \in RotateAts /\ work'[w].of = r),
         \A v \in Worker \ {w} : work'[v] = work[v],
         pair' \in Pairs(Issuer), alias' \in Pairs(Intermediate),
         archive' \subseteq ArchivedPair, rotated' \in [Intermediate -> Number],
         \A x \in Issuer \ {r} : pair'[x] = pair[x],
         \A q \in Intermediate \ {r} : alias'[q] = alias[q],
         \A a : a.of # r => (a \in archive' <=> a \in archive),
         UNCHANGED <<rootFiles, loaded, generated, second, leaves, upset, rootOf>>,
         r \notin upset => RoleSound(r)',
         r \notin upset /\ work'[w].at \in RotateAts => RotationSound(w)'
  PROVE  KeysInv'
  <1>1. KeyFilesTyped'
    BY Zenon DEF KeysInv, KeyFilesTyped, Pair, Places, ArchivedPair, Rotation, Mint, Reading, Resting,
                 Issuer, Number, Seconds
  <1>2. \A v \in Worker, x \in Issuer : Writes(v, x)' => Writes(v, x)
    BY RestFields, PlaceWords DEF Writes
  <1>3. OneWriter'
    BY <1>2 DEF KeysInv, OneWriter
  <1>4. ASSUME NEW q \in Intermediate \ upset
        PROVE  RoleSound(q)'
    <2>1. CASE q = r
      BY <2>1
    <2>2. CASE q # r
      <3>1. RoleSound(q) /\ q \in Issuer
        BY DEF KeysInv, Issuer
      <3>2. \A k : InArchive(q, k) => InArchive(q, k)'
        BY <2>2 DEF InArchive
      <3>3. (\A v \in Worker : work'[v].at \in RotateAts => work'[v].of # q)
              => \A v \in Worker : work[v].at \in RotateAts => work[v].of # q
        BY <2>2
      <3> QED BY <2>2, <3>1, <3>2, <3>3, RoleUntouched
    <2> QED BY <2>1, <2>2
  <1>5. ASSUME NEW v \in Worker, work'[v].at \in RotateAts, work'[v].of \notin upset
        PROVE  RotationSound(v)'
    <2>1. CASE v = w
      BY <1>5, <2>1, RestFields, PlaceWords
    <2>2. CASE v # w
      <3>1. work'[v] = work[v]
        BY <2>2
      <3>2. RotationSound(v) /\ work[v] \in Rotation /\ work[v].of \in Intermediate
        BY <1>5, <3>1, PlaceFields, RotationFields DEF KeysInv, KeyFilesTyped
      <3>3. work[v].of # r
        BY <1>5, <2>2, <3>1, <3>2 DEF KeysInv, OneWriter, Writes, Issuer
      <3> QED BY <3>1, <3>2, <3>3, RotationUntouched DEF Issuer
    <2> QED BY <2>1, <2>2
  <1>6. ASSUME NEW x \in External \ upset
        PROVE  ExternalSound(x)'
    <2>1. x # r /\ x \in Issuer /\ ExternalSound(x)
      BY IntermediatesAssumption DEF KeysInv, Issuer
    <2>2. \A v \in Worker : work'[v].at \in MintAts \cup {"sign"} => work'[v] = work[v]
      BY RestFields, PlaceWords
    <2> QED BY <2>1, <2>2, ExternalUntouched
  <1>7. RootsSound'
    <2>1. \A v \in Worker : work'[v].at \in MintAts => work'[v] = work[v]
      BY RestFields, PlaceWords
    <2> QED BY <2>1, RootsUntouched DEF KeysInv
  <1>8. LeavesSound'
    BY DEF KeysInv, LeavesSound
  <1>9. upset' = upset
    OBVIOUS
  <1> QED BY <1>1, <1>3, <1>4, <1>5, <1>6, <1>7, <1>8, <1>9 DEF KeysInv

\* A role stays sound in a rotation, as long as what it signed with is kept.
LEMMA RoleRotates ==
  ASSUME NEW r \in Intermediate, RoleSound(r), NEW w \in Worker,
         work'[w].at \in RotateAts, work'[w].of = r, UNCHANGED <<loaded, leaves>>,
         \A k : KeptWhole(r, k) => KeptWhole(r, k)'
  PROVE  RoleSound(r)'
  <1>1. Whole(loaded[r])' /\ Signers(r)' = Signers(r)
    BY DEF RoleSound, Whole, Signers
  <1>2. \A k \in Signers(r) : KeptWhole(r, k)'
    BY DEF RoleSound
  <1> QED BY <1>1, <1>2 DEF RoleSound

\* What every step of a rotation has in common.
LEMMA RotationStepTypes ==
  ASSUME KeysInv, NEW w \in Worker, work[w].at \in RotateAts,
         NEW at \in RotateAts, Step(w, at)
  PROVE  /\ work[w].of \in Intermediate /\ work[w].of \in Issuer
         /\ work[w].new \in Number /\ work[w].second \in Seconds
         /\ pair[work[w].of] \in Pair /\ alias[work[w].of] \in Pair
         /\ pair[work[w].of].cert \in Number /\ pair[work[w].of].key \in Number
         /\ pair \in Pairs(Issuer) /\ alias \in Pairs(Intermediate)
         /\ archive \subseteq ArchivedPair /\ rotated \in [Intermediate -> Number]
         /\ work' \in [Worker -> Places]
         /\ work'[w].at = at /\ work'[w].at \in RotateAts /\ work'[w].of = work[w].of
         /\ work'[w].new = work[w].new /\ work'[w].second = work[w].second
         /\ \A v \in Worker \ {w} : work'[v] = work[v]
         /\ work[w].of \notin upset => RoleSound(work[w].of) /\ RotationSound(w)
  <1>1. /\ work \in [Worker -> Places] /\ pair \in Pairs(Issuer)
        /\ alias \in Pairs(Intermediate)
        /\ archive \subseteq ArchivedPair /\ rotated \in [Intermediate -> Number]
    BY DEF KeysInv, KeyFilesTyped
  <1>2. /\ work[w].of \in Intermediate
        /\ work[w].new \in Number /\ work[w].second \in Seconds
        /\ work' \in [Worker -> Places]
        /\ work'[w].at = at /\ work'[w].at \in RotateAts /\ work'[w].of = work[w].of
        /\ work'[w].new = work[w].new /\ work'[w].second = work[w].second
        /\ \A v \in Worker \ {w} : work'[v] = work[v]
    BY <1>1, RotationMoves
  <1>3. work[w].of \in Issuer /\ pair[work[w].of] \in Pair /\ alias[work[w].of] \in Pair
    BY <1>1, <1>2 DEF Issuer, Pairs
  <1>4. pair[work[w].of].cert \in Number /\ pair[work[w].of].key \in Number
    BY <1>3, PairFields
  <1>5. work[w].of \notin upset => RoleSound(work[w].of) /\ RotationSound(w)
    BY <1>2 DEF KeysInv
  <1> QED BY <1>1, <1>2, <1>3, <1>4, <1>5

\* What the fields of an archived pair are.
LEMMA ArchivedPairFields ==
  ASSUME NEW a \in ArchivedPair
  PROVE  /\ a.of \in Intermediate /\ a.second \in Seconds /\ a.cert \in Number /\ a.key \in Number
         /\ \A n \in Number : /\ [a EXCEPT !.key = n] \in ArchivedPair
                              /\ [a EXCEPT !.key = n].of = a.of
                              /\ [a EXCEPT !.key = n].second = a.second
                              /\ [a EXCEPT !.key = n].cert = a.cert
                              /\ [a EXCEPT !.key = n].key = n
  BY DEF ArchivedPair

\* An archived pair made from its fields.
LEMMA ArchivedMade ==
  ASSUME NEW r \in Intermediate, NEW s \in Seconds, NEW c \in Number, NEW k \in Number
  PROVE  LET a == [of |-> r, second |-> s, cert |-> c, key |-> k]
         IN a \in ArchivedPair /\ a.of = r /\ a.second = s /\ a.cert = c /\ a.key = k
  BY DEF ArchivedPair

\* No file is number zero.
LEMMA ZeroIsANumber == 0 \in Number
  BY IntermediatesAssumption DEF Number

\* A rotation copies the certificate to the archive.
LEMMA ArchiveCertStep ==
  ASSUME KeysInv, NEW w \in Worker, ArchiveCert(w)
  PROVE  KeysInv'
  <1>0. PICK r \in Intermediate : r = work[w].of
    BY RotationStepTypes, PlaceWords DEF ArchiveCert
  <1> DEFINE old == {a \in archive : SameArchive(a, w)}
             keyThere == IF old = {} THEN 0 ELSE (CHOOSE a \in old : TRUE).key
             e == [of |-> r, second |-> work[w].second, cert |-> pair[r].cert, key |-> keyThere]
  <1>1. /\ work[w].at = "new" /\ Step(w, "archive_key") /\ archive' = (archive \ old) \cup {e}
        /\ UNCHANGED <<pair, alias, rootFiles, generated, NotInFiles>>
    BY <1>0 DEF ArchiveCert
  <1>2. /\ r \in Intermediate /\ r \in Issuer /\ work[w].second \in Seconds
        /\ pair[r].cert \in Number /\ archive \subseteq ArchivedPair
        /\ pair \in Pairs(Issuer) /\ alias \in Pairs(Intermediate)
        /\ rotated \in [Intermediate -> Number] /\ work' \in [Worker -> Places]
        /\ work'[w].at = "archive_key" /\ work'[w].at \in RotateAts /\ work'[w].of = r
        /\ work'[w].second = work[w].second
        /\ \A v \in Worker \ {w} : work'[v] = work[v]
        /\ r \notin upset => RoleSound(r) /\ RotationSound(w)
    BY <1>0, <1>1, RotationStepTypes, PlaceWords
  <1>3. keyThere \in Number
    <2>1. CASE old = {}
      BY <2>1, ZeroIsANumber
    <2>2. CASE old # {}
      <3>1. (CHOOSE a \in old : TRUE) \in ArchivedPair
        BY <1>2, <2>2
      <3> QED BY <2>2, <3>1, ArchivedPairFields
    <2> QED BY <2>1, <2>2
  <1>4. e \in ArchivedPair /\ e.of = r /\ e.second = work[w].second /\ e.cert = pair[r].cert
    BY <1>2, <1>3, ArchivedMade
  <1>5. \A a \in old : a.of = r
    BY <1>0 DEF SameArchive
  <1> HIDE DEF e, keyThere
  <1>6. archive' \subseteq ArchivedPair /\ \A a : a.of # r => (a \in archive' <=> a \in archive)
    BY <1>1, <1>2, <1>4, <1>5
  <1>7. ASSUME r \notin upset
        PROVE  RoleSound(r)' /\ RotationSound(w)'
    <2>1. old = {} /\ alias[r] = pair[r] /\ Whole(pair[r])
      BY <1>0, <1>1, <1>2, <1>7 DEF RotationSound
    <2>2. archive' = archive \cup {e}
      BY <1>1, <2>1
    <2>3. \A k : KeptWhole(r, k) => KeptWhole(r, k)'
      BY <1>1, <2>2 DEF KeptWhole, InArchive
    <2>4. RoleSound(r)'
      BY <1>1, <1>2, <1>7, <2>3, RoleRotates DEF NotInFiles
    <2>5. {a \in archive' : SameArchive(a, w)'} = {e}
      BY <1>0, <1>2, <1>4, <2>1, <2>2 DEF SameArchive
    <2>6. RotationSound(w)'
      BY <1>1, <1>2, <1>4, <2>1, <2>5 DEF RotationSound, Whole
    <2> QED BY <2>4, <2>6
  <1> HIDE DEF old
  <1> QED BY <1>0, <1>1, <1>2, <1>6, <1>7, PlaceWords, RotationFrame DEF NotInFiles

\* And the key: from here on the old pair is whole in the archive.
LEMMA ArchiveKeyStep ==
  ASSUME KeysInv, NEW w \in Worker, ArchiveKey(w)
  PROVE  KeysInv'
  <1>0. PICK r \in Intermediate : r = work[w].of
    BY RotationStepTypes, PlaceWords DEF ArchiveKey
  <1> DEFINE now(a) == IF SameArchive(a, w) THEN [a EXCEPT !.key = pair[r].key] ELSE a
  <1>1. /\ work[w].at = "archive_key" /\ Step(w, "cert")
        /\ archive' = {now(a) : a \in archive}
        /\ UNCHANGED <<pair, alias, rootFiles, generated, NotInFiles>>
    BY <1>0 DEF ArchiveKey
  <1>2. /\ r \in Issuer /\ pair[r].cert \in Number /\ pair[r].key \in Number
        /\ archive \subseteq ArchivedPair /\ pair[r] \in Pair
        /\ pair \in Pairs(Issuer) /\ alias \in Pairs(Intermediate)
        /\ rotated \in [Intermediate -> Number] /\ work' \in [Worker -> Places]
        /\ work'[w].at = "cert" /\ work'[w].at \in RotateAts /\ work'[w].of = r
        /\ \A v \in Worker \ {w} : work'[v] = work[v]
        /\ r \notin upset => RoleSound(r) /\ RotationSound(w)
    BY <1>0, <1>1, RotationStepTypes, PlaceWords
  <1>3. \A a \in archive : now(a) \in ArchivedPair /\ now(a).of = a.of /\ now(a).cert = a.cert
    BY <1>2, ArchivedPairFields
  <1>4. \A a \in archive : a.of # r => now(a) = a
    BY <1>0 DEF SameArchive
  <1>5. \A a \in archive : SameArchive(a, w) => now(a).key = pair[r].key
    BY <1>2, ArchivedPairFields
  <1>6. \A a \in archive : ~SameArchive(a, w) => now(a) = a
    OBVIOUS
  <1> HIDE DEF now
  <1>7. archive' \subseteq ArchivedPair /\ \A a : a.of # r => (a \in archive' <=> a \in archive)
    BY <1>1, <1>3, <1>4
  <1>8. ASSUME r \notin upset
        PROVE  RoleSound(r)' /\ RotationSound(w)'
    <2>1. /\ alias[r] = pair[r] /\ Whole(pair[r])
          /\ \A a \in archive : SameArchive(a, w) => a.cert = pair[r].cert
          /\ \E a \in archive : SameArchive(a, w)
      BY <1>0, <1>1, <1>2, <1>8 DEF RotationSound
    <2>2. PICK first \in archive : SameArchive(first, w)
      BY <2>1
    <2>3. /\ now(first) \in archive' /\ now(first).of = r
          /\ now(first).cert = pair[r].cert /\ now(first).key = pair[r].cert
      BY <1>0, <1>1, <1>3, <1>5, <2>1, <2>2 DEF SameArchive, Whole
    <2>4. ASSUME NEW k, InArchive(r, k)
          PROVE  \E b \in archive' : b.of = r /\ b.cert = k /\ b.key = k
      <3>1. PICK a \in archive : a.of = r /\ a.cert = k /\ a.key = k
        BY <2>4 DEF InArchive
      <3>2. now(a) \in archive' /\ now(a).of = r /\ now(a).cert = k
        BY <1>1, <1>3, <3>1
      <3>3. now(a).key = k
        BY <1>5, <1>6, <2>1, <3>1 DEF Whole
      <3> QED BY <3>2, <3>3
    <2>5. \A k : KeptWhole(r, k) => KeptWhole(r, k)'
      BY <1>1, <2>4 DEF KeptWhole, InArchive
    <2>6. RoleSound(r)'
      BY <1>1, <1>2, <1>8, <2>5, RoleRotates DEF NotInFiles
    <2>7. InArchive(r, pair[r].cert)'
      BY <1>1, <2>3 DEF InArchive
    <2>8. RotationSound(w)'
      BY <1>1, <1>2, <2>1, <2>7 DEF RotationSound, Whole, InArchive
    <2> QED BY <2>6, <2>8
  <1> QED BY <1>0, <1>1, <1>2, <1>7, <1>8, PlaceWords, RotationFrame DEF NotInFiles

\* It writes the new certificate, which leaves the pair in the files mixed.
LEMMA RotateCertStep ==
  ASSUME KeysInv, NEW w \in Worker, RotateCert(w)
  PROVE  KeysInv'
  <1>0. PICK r \in Intermediate : r = work[w].of
    BY RotationStepTypes, PlaceWords DEF RotateCert
  <1>1. /\ work[w].at = "cert" /\ Step(w, "key")
        /\ pair' = [pair EXCEPT ![r].cert = work[w].new]
        /\ UNCHANGED <<alias, archive, rootFiles, generated, NotInFiles>>
    BY <1>0 DEF RotateCert
  <1>2. /\ r \in Issuer /\ work[w].new \in Number /\ pair[r].key \in Number /\ pair[r] \in Pair
        /\ archive \subseteq ArchivedPair
        /\ pair \in Pairs(Issuer) /\ alias \in Pairs(Intermediate)
        /\ rotated \in [Intermediate -> Number] /\ work' \in [Worker -> Places]
        /\ work'[w].at = "key" /\ work'[w].at \in RotateAts /\ work'[w].of = r
        /\ work'[w].new = work[w].new
        /\ \A v \in Worker \ {w} : work'[v] = work[v]
        /\ r \notin upset => RoleSound(r) /\ RotationSound(w)
    BY <1>0, <1>1, RotationStepTypes, PlaceWords
  <1>3. /\ pair' \in Pairs(Issuer)
        /\ pair'[r] = [cert |-> work[w].new, key |-> pair[r].key]
        /\ \A x \in Issuer \ {r} : pair'[x] = pair[x]
    <2>1. pair' = CertPut(pair, r, work[w].new)
      BY <1>1 DEF CertPut
    <2> QED BY <1>2, <2>1, CertWritten
  <1>4. pair'[r].cert = work[w].new /\ pair'[r].key = pair[r].key
    BY <1>2, <1>3, PairMade
  <1>5. ASSUME r \notin upset
        PROVE  RoleSound(r)' /\ RotationSound(w)'
    <2>1. InArchive(r, pair[r].cert) /\ pair[r].key = pair[r].cert
      BY <1>0, <1>1, <1>2, <1>5 DEF RotationSound, Whole
    <2>2. \A k : KeptWhole(r, k) => InArchive(r, k)
      BY <2>1 DEF KeptWhole
    <2>3. \A k : InArchive(r, k) => InArchive(r, k)'
      BY <1>1 DEF InArchive
    <2>4. RoleSound(r)'
      BY <1>1, <1>2, <1>5, <2>2, <2>3, RoleRotates DEF NotInFiles, KeptWhole
    <2>5. InArchive(r, pair[r].key)'
      BY <1>1, <1>4, <2>1 DEF InArchive
    <2>6. RotationSound(w)'
      BY <1>2, <1>4, <2>5 DEF RotationSound, InArchive
    <2> QED BY <2>4, <2>6
  <1> QED BY <1>0, <1>1, <1>2, <1>3, <1>5, PlaceWords, RotationFrame DEF NotInFiles

\* And the new key: from here on the new pair is whole in the files.
LEMMA RotateKeyStep ==
  ASSUME KeysInv, NEW w \in Worker, RotateKey(w)
  PROVE  KeysInv'
  <1>0. PICK r \in Intermediate : r = work[w].of
    BY RotationStepTypes, PlaceWords DEF RotateKey
  <1>1. /\ work[w].at = "key" /\ Step(w, "alias_cert")
        /\ pair' = [pair EXCEPT ![r].key = work[w].new]
        /\ UNCHANGED <<alias, archive, rootFiles, generated, NotInFiles>>
    BY <1>0 DEF RotateKey
  <1>2. /\ r \in Issuer /\ work[w].new \in Number /\ pair[r].cert \in Number /\ pair[r] \in Pair
        /\ archive \subseteq ArchivedPair
        /\ pair \in Pairs(Issuer) /\ alias \in Pairs(Intermediate)
        /\ rotated \in [Intermediate -> Number] /\ work' \in [Worker -> Places]
        /\ work'[w].at = "alias_cert" /\ work'[w].at \in RotateAts /\ work'[w].of = r
        /\ work'[w].new = work[w].new
        /\ \A v \in Worker \ {w} : work'[v] = work[v]
        /\ r \notin upset => RoleSound(r) /\ RotationSound(w)
    BY <1>0, <1>1, RotationStepTypes, PlaceWords
  <1>3. /\ pair' \in Pairs(Issuer)
        /\ pair'[r] = [cert |-> pair[r].cert, key |-> work[w].new]
        /\ \A x \in Issuer \ {r} : pair'[x] = pair[x]
    <2>1. pair' = KeyPut(pair, r, work[w].new)
      BY <1>1 DEF KeyPut
    <2> QED BY <1>2, <2>1, KeyWritten
  <1>5. ASSUME r \notin upset
        PROVE  RoleSound(r)' /\ RotationSound(w)'
    <2>1. InArchive(r, pair[r].key) /\ pair[r].cert = work[w].new
      BY <1>0, <1>1, <1>2, <1>5 DEF RotationSound
    <2>2. \A k : KeptWhole(r, k) => InArchive(r, k)
      BY <2>1 DEF KeptWhole
    <2>3. \A k : InArchive(r, k) => InArchive(r, k)'
      BY <1>1 DEF InArchive
    <2>4. RoleSound(r)'
      BY <1>1, <1>2, <1>5, <2>2, <2>3, RoleRotates DEF NotInFiles, KeptWhole
    <2>5. pair'[r] = [cert |-> work[w].new, key |-> work[w].new]
      BY <1>3, <2>1
    <2>6. RotationSound(w)'
      BY <1>2, <2>5 DEF RotationSound
    <2> QED BY <2>4, <2>6
  <1> QED BY <1>0, <1>1, <1>2, <1>3, <1>5, PlaceWords, RotationFrame DEF NotInFiles

\* It writes the certificate of the alias.
LEMMA AliasCertStep ==
  ASSUME KeysInv, NEW w \in Worker, AliasCert(w)
  PROVE  KeysInv'
  <1>0. PICK r \in Intermediate : r = work[w].of
    BY RotationStepTypes, PlaceWords DEF AliasCert
  <1>1. /\ work[w].at = "alias_cert" /\ Step(w, "alias_key")
        /\ alias' = [alias EXCEPT ![r].cert = work[w].new]
        /\ UNCHANGED <<pair, archive, rootFiles, generated, NotInFiles>>
    BY <1>0 DEF AliasCert
  <1>2. /\ r \in Issuer /\ work[w].new \in Number /\ alias[r] \in Pair
        /\ archive \subseteq ArchivedPair
        /\ pair \in Pairs(Issuer) /\ alias \in Pairs(Intermediate)
        /\ rotated \in [Intermediate -> Number] /\ work' \in [Worker -> Places]
        /\ work'[w].at = "alias_key" /\ work'[w].at \in RotateAts /\ work'[w].of = r
        /\ work'[w].new = work[w].new
        /\ \A v \in Worker \ {w} : work'[v] = work[v]
        /\ r \notin upset => RoleSound(r) /\ RotationSound(w)
    BY <1>0, <1>1, RotationStepTypes, PlaceWords
  <1>3. /\ alias' \in Pairs(Intermediate)
        /\ alias'[r] = [cert |-> work[w].new, key |-> alias[r].key]
        /\ \A q \in Intermediate \ {r} : alias'[q] = alias[q]
    <2>1. alias' = CertPut(alias, r, work[w].new)
      BY <1>1 DEF CertPut
    <2> QED BY <1>2, <2>1, CertWritten
  <1>4. alias'[r].cert = work[w].new
    BY <1>3
  <1>5. ASSUME r \notin upset
        PROVE  RoleSound(r)' /\ RotationSound(w)'
    <2>1. pair[r] = [cert |-> work[w].new, key |-> work[w].new]
      BY <1>0, <1>1, <1>2, <1>5 DEF RotationSound
    <2>2. \A k : KeptWhole(r, k) => KeptWhole(r, k)'
      BY <1>1 DEF InArchive, KeptWhole
    <2>3. RoleSound(r)'
      BY <1>1, <1>2, <1>5, <2>2, RoleRotates DEF NotInFiles
    <2>4. RotationSound(w)'
      BY <1>1, <1>2, <1>4, <2>1 DEF RotationSound
    <2> QED BY <2>3, <2>4
  <1> QED BY <1>0, <1>1, <1>2, <1>3, <1>5, PlaceWords, RotationFrame DEF NotInFiles

\* And the key of the alias.
LEMMA AliasKeyStep ==
  ASSUME KeysInv, NEW w \in Worker, AliasKey(w)
  PROVE  KeysInv'
  <1>0. PICK r \in Intermediate : r = work[w].of
    BY RotationStepTypes, PlaceWords DEF AliasKey
  <1>1. /\ work[w].at = "alias_key" /\ Step(w, "answer")
        /\ alias' = [alias EXCEPT ![r].key = work[w].new]
        /\ UNCHANGED <<pair, archive, rootFiles, generated, NotInFiles>>
    BY <1>0 DEF AliasKey
  <1>2. /\ r \in Issuer /\ work[w].new \in Number /\ alias[r] \in Pair
        /\ archive \subseteq ArchivedPair
        /\ pair \in Pairs(Issuer) /\ alias \in Pairs(Intermediate)
        /\ rotated \in [Intermediate -> Number] /\ work' \in [Worker -> Places]
        /\ work'[w].at = "answer" /\ work'[w].at \in RotateAts /\ work'[w].of = r
        /\ work'[w].new = work[w].new
        /\ \A v \in Worker \ {w} : work'[v] = work[v]
        /\ r \notin upset => RoleSound(r) /\ RotationSound(w)
    BY <1>0, <1>1, RotationStepTypes, PlaceWords
  <1>3. /\ alias' \in Pairs(Intermediate)
        /\ alias'[r] = [cert |-> alias[r].cert, key |-> work[w].new]
        /\ \A q \in Intermediate \ {r} : alias'[q] = alias[q]
    <2>1. alias' = KeyPut(alias, r, work[w].new)
      BY <1>1 DEF KeyPut
    <2> QED BY <1>2, <2>1, KeyWritten
  <1>5. ASSUME r \notin upset
        PROVE  RoleSound(r)' /\ RotationSound(w)'
    <2>1. /\ pair[r] = [cert |-> work[w].new, key |-> work[w].new]
          /\ alias[r].cert = work[w].new
      BY <1>0, <1>1, <1>2, <1>5 DEF RotationSound
    <2>2. \A k : KeptWhole(r, k) => KeptWhole(r, k)'
      BY <1>1 DEF InArchive, KeptWhole
    <2>3. RoleSound(r)'
      BY <1>1, <1>2, <1>5, <2>2, RoleRotates DEF NotInFiles
    <2>4. alias'[r] = pair'[r]
      BY <1>1, <1>3, <2>1
    <2>5. RotationSound(w)'
      BY <1>1, <1>2, <2>1, <2>4 DEF RotationSound
    <2> QED BY <2>3, <2>5
  <1> QED BY <1>0, <1>1, <1>2, <1>3, <1>5, PlaceWords, RotationFrame DEF NotInFiles

\* And answers: the files and the alias are whole.
LEMMA RotateAnswerStep ==
  ASSUME KeysInv, NEW w \in Worker, RotateAnswer(w)
  PROVE  KeysInv'
  <1>1. /\ work[w].at = "answer" /\ work' = [work EXCEPT ![w] = Resting]
        /\ rotated' = [rotated EXCEPT ![work[w].of] = work[w].new]
        /\ UNCHANGED <<pair, alias, archive, rootFiles, loaded, generated, second, leaves, upset, rootOf>>
    BY DEF RotateAnswer
  <1>2. /\ work \in [Worker -> Places] /\ pair \in Pairs(Issuer)
        /\ alias \in Pairs(Intermediate) /\ archive \subseteq ArchivedPair
        /\ rotated \in [Intermediate -> Number]
    BY DEF KeysInv, KeyFilesTyped
  <1>3. /\ work[w].at \in RotateAts /\ work[w] \in Rotation /\ work[w].of \in Intermediate
        /\ work[w].new \in Number
    BY <1>1, <1>2, PlaceWords, PlaceFields, RotationFields
  <1>4. PICK r \in Intermediate : r = work[w].of
    BY <1>3
  <1>5. /\ work' \in [Worker -> Places] /\ work'[w] = Resting
        /\ \A v \in Worker \ {w} : work'[v] = work[v]
    BY <1>1, <1>2, RestFields, ThreadMoves
  <1>6. rotated' \in [Intermediate -> Number]
    BY <1>1, <1>2, <1>3
  <1>7. ASSUME r \notin upset
        PROVE  RoleSound(r)'
    <2>1. /\ pair[r] = [cert |-> work[w].new, key |-> work[w].new] /\ alias[r] = pair[r]
          /\ RoleSound(r)
      BY <1>1, <1>3, <1>4, <1>7 DEF RotationSound, KeysInv
    <2>2. Whole(pair[r])
      BY <2>1 DEF Whole
    <2>3. Signers(r)' = Signers(r) /\ \A k : KeptWhole(r, k)' <=> KeptWhole(r, k)
      BY <1>1 DEF Signers, KeptWhole, InArchive
    <2> QED BY <1>1, <2>1, <2>2, <2>3 DEF RoleSound, Whole
  <1>8. work'[w].at \notin RotateAts
    BY <1>5, RestFields, PlaceWords
  <1> QED BY <1>1, <1>2, <1>3, <1>4, <1>5, <1>6, <1>7, <1>8, RotationFrame

\* The model's Writers are the threads that write.
LEMMA WritersWrite ==
  ASSUME KeysInv, NEW v \in Worker, NEW x
  PROVE  Writes(v, x) <=> v \in Writers(x)
  <1>1. work[v] \in Places
    BY DEF KeysInv, KeyFilesTyped
  <1> QED BY <1>1, PlaceFields, PlaceWords DEF Writes, Writers

\* A thread starts: the files stay, and no other thread may be writing them.
LEMMA ThreadStarts ==
  ASSUME KeysInv, NEW w \in Worker, work[w] = Resting, NEW p \in Places,
         work' = [work EXCEPT ![w] = p], generated' \in Number,
         UNCHANGED <<pair, alias, archive, rootFiles, loaded, second, leaves, rotated, rootOf>>,
         upset \subseteq upset', upset' \subseteq Issuer,
         p.at \in RotateAts \cup MintAts /\ p.of \notin upset' => \A v \in Worker : ~Writes(v, p.of),
         p.at \in RotateAts /\ p.of \notin upset' => RotationSound(w)',
         \A x \in External : x \notin upset' => ExternalSound(x)',
         RootsSound'
  PROVE  KeysInv'
  <1>1. work \in [Worker -> Places]
    BY DEF KeysInv, KeyFilesTyped
  <1>2. /\ work' \in [Worker -> Places] /\ work'[w] = p
        /\ \A v \in Worker \ {w} : work'[v] = work[v]
    BY <1>1, ThreadMoves
  <1>3. KeyFilesTyped'
    BY <1>2, Zenon DEF KeysInv, KeyFilesTyped, Pair, Pairs, Places, ArchivedPair, Rotation, Mint, Reading,
                 Resting, Issuer, Number, Seconds
  <1>4. work[w].at \notin RotateAts /\ work[w].at \notin MintAts
    BY RestFields, PlaceWords
  <1>5. ASSUME NEW u \in Worker, NEW v \in Worker, NEW x \in Issuer, x \notin upset',
               Writes(u, x)', Writes(v, x)'
        PROVE  u = v
    <2>1. CASE u # w /\ v # w
      <3>1. Writes(u, x) /\ Writes(v, x) /\ x \in Issuer \ upset
        BY <1>2, <1>5, <2>1 DEF Writes
      <3> QED BY <3>1 DEF KeysInv, OneWriter
    <2>2. CASE u = w /\ v # w
      BY <1>2, <1>5, <2>2 DEF Writes
    <2>3. CASE u # w /\ v = w
      BY <1>2, <1>5, <2>3 DEF Writes
    <2> QED BY <2>1, <2>2, <2>3
  <1>6. OneWriter'
    BY <1>5 DEF OneWriter, Issuer
  <1>7. ASSUME NEW q \in Intermediate, q \notin upset'
        PROVE  RoleSound(q)'
    <2>1. RoleSound(q)
      BY <1>7 DEF KeysInv
    <2>2. \A k : InArchive(q, k) => InArchive(q, k)'
      BY DEF InArchive
    <2>3. (\A v \in Worker : work'[v].at \in RotateAts => work'[v].of # q)
            => \A v \in Worker : work[v].at \in RotateAts => work[v].of # q
      BY <1>2, <1>4
    <2> QED BY <2>1, <2>2, <2>3, RoleUntouched
  <1>8. ASSUME NEW v \in Worker, work'[v].at \in RotateAts, work'[v].of \notin upset'
        PROVE  RotationSound(v)'
    <2>1. CASE v = w
      BY <1>2, <1>8, <2>1
    <2>2. CASE v # w
      <3>1. work'[v] = work[v] /\ RotationSound(v)
        BY <1>2, <1>8, <2>2 DEF KeysInv
      <3> QED BY <3>1, RotationUntouched
    <2> QED BY <2>1, <2>2
  <1>9. LeavesSound'
    BY DEF KeysInv, LeavesSound
  <1> QED BY <1>3, <1>6, <1>7, <1>8, <1>9 DEF KeysInv

\* A rotation starts; if another thread writes the same files, that name is upset.
LEMMA RotateStep ==
  ASSUME KeysInv, NEW w \in Worker, NEW r \in Intermediate, Rotate(w, r)
  PROVE  KeysInv'
  <1> DEFINE p == [at |-> "new", of |-> r, new |-> generated', second |-> second, old |-> 0]
  <1>1. /\ work[w] = Resting /\ generated < MaxCaKeys /\ generated' = generated + 1
        /\ work' = [work EXCEPT ![w] = p]
        /\ upset' = IF Writers(r) # {} \/ \E a \in archive : a.of = r /\ a.second = second
                    THEN upset \cup {r} ELSE upset
        /\ UNCHANGED <<pair, alias, archive, rootFiles, loaded, second, leaves, rotated, rootOf>>
    BY DEF Rotate
  <1>2. /\ work \in [Worker -> Places] /\ generated \in Number /\ second \in Seconds
        /\ upset \subseteq Issuer /\ r \in Issuer
    BY DEF KeysInv, KeyFilesTyped, Issuer
  <1>3. generated' \in Number
    BY <1>1, <1>2, IntermediatesAssumption DEF Number
  <1>4. p \in Rotation /\ p.at = "new" /\ p.of = r /\ p.second = second
    BY <1>2, <1>3, ZeroIsANumber, PlaceWords DEF Rotation
  <1> HIDE DEF p
  <1>5. p \in Places
    BY <1>4, RotationFields
  <1>6. /\ work'[w] = p /\ \A v \in Worker \ {w} : work'[v] = work[v]
    BY <1>1, <1>2, <1>5, ThreadMoves
  <1>7. upset \subseteq upset' /\ upset' \subseteq Issuer
    BY <1>1, <1>2
  <1>8. ASSUME r \notin upset'
        PROVE  (\A v \in Worker : ~Writes(v, r)) /\ RotationSound(w)'
    <2>1. Writers(r) = {} /\ (\A a \in archive : a.of = r => a.second # second) /\ r \notin upset
      BY <1>1, <1>8
    <2>2. \A v \in Worker : ~Writes(v, r)
      BY <2>1, WritersWrite
    <2>3. alias[r] = pair[r] /\ Whole(pair[r])
      <3>1. RoleSound(r)
        BY <2>1 DEF KeysInv
      <3>2. \A v \in Worker : work[v].at \in RotateAts => work[v].of # r
        BY <2>2 DEF Writes
      <3> QED BY <3>1, <3>2 DEF RoleSound
    <2>4. {a \in archive' : SameArchive(a, w)'} = {}
      BY <1>1, <1>4, <1>6, <2>1 DEF SameArchive
    <2>5. RotationSound(w)'
      BY <1>1, <1>4, <1>6, <2>3, <2>4 DEF RotationSound, Whole
    <2> QED BY <2>2, <2>5
  <1>9. ASSUME NEW x \in External, x \notin upset'
        PROVE  ExternalSound(x)'
    <2>1. ExternalSound(x) /\ x # r
      BY <1>7, <1>9, IntermediatesAssumption DEF KeysInv
    <2>2. \A v \in Worker : work'[v].at \in MintAts \cup {"sign"} => work'[v] = work[v]
      BY <1>4, <1>6, PlaceWords
    <2> QED BY <1>1, <2>1, <2>2, ExternalUntouched
  <1>10. RootsSound'
    <2>1. \A v \in Worker : work'[v].at \in MintAts => work'[v] = work[v]
      BY <1>4, <1>6, PlaceWords
    <2> QED BY <1>1, <2>1, RootsUntouched DEF KeysInv
  <1> QED BY <1>1, <1>3, <1>4, <1>5, <1>7, <1>8, <1>9, <1>10, ThreadStarts

\* A mint starts, and so on.
LEMMA MintExternalStep ==
  ASSUME KeysInv, NEW w \in Worker, NEW x \in External, NEW root \in Root \cup {"primary"},
         NEW retain \in BOOLEAN, MintExternal(w, x, root, retain)
  PROVE  KeysInv'
  <1> DEFINE start == IF root = "primary" \/ rootFiles[root] = "whole" THEN "mkdir" ELSE "root"
             p == [at |-> start, of |-> x, root |-> root, new |-> generated', retain |-> retain]
  <1>1. /\ work[w] = Resting /\ pair[x].cert = 0
        /\ generated < MaxCaKeys /\ generated' = generated + 1
        /\ work' = [work EXCEPT ![w] = p]
        /\ upset' = IF Writers(x) # {} THEN upset \cup {x} ELSE upset
        /\ UNCHANGED <<pair, alias, archive, rootFiles, loaded, second, leaves, rotated, rootOf>>
    BY DEF MintExternal
  <1>2. /\ work \in [Worker -> Places] /\ generated \in Number
        /\ upset \subseteq Issuer /\ x \in Issuer /\ pair[x] \in Pair
    BY DEF KeysInv, KeyFilesTyped, Issuer, Pairs
  <1>3. generated' \in Number
    BY <1>1, <1>2, IntermediatesAssumption DEF Number
  <1>a. start \in MintAts /\ start \in {"mkdir", "root"}
    BY PlaceWords
  <1>b. start = "mkdir" => root = "primary" \/ rootFiles[root] = "whole"
    OBVIOUS
  <1>c. start = "root" => root \in Root
    OBVIOUS
  <1> HIDE DEF start
  <1>4. p \in Mint /\ p.at = start /\ p.of = x /\ p.root = root
    BY <1>3, <1>a DEF Mint
  <1> HIDE DEF p
  <1>5. p \in Places
    BY <1>4, MintFields
  <1>6. /\ work'[w] = p /\ \A v \in Worker \ {w} : work'[v] = work[v]
    BY <1>1, <1>2, <1>5, ThreadMoves
  <1>7. upset \subseteq upset' /\ upset' \subseteq Issuer
    BY <1>1, <1>2
  <1>8. x \notin upset' => (\A v \in Worker : ~Writes(v, x)) /\ x \notin upset
    BY <1>1, WritersWrite
  <1>9. ASSUME NEW y \in External, y \notin upset'
        PROVE  ExternalSound(y)'
    <2>1. ExternalSound(y)
      BY <1>7, <1>9 DEF KeysInv
    <2>2. CASE y # x
      <3>1. \A v \in Worker : work'[v].at \in MintAts \cup {"sign"} /\ work'[v].of = y
              => work'[v] = work[v]
        BY <1>4, <1>6, <2>2
      <3> QED BY <1>1, <2>1, <3>1, ExternalUntouched
    <2>3. CASE y = x
      <3>1. pair[x] = [cert |-> 0, key |-> 0] /\ pair[x].key = 0
        <4>1. pair[x].key = 0
          BY <1>1, <2>1, <2>3 DEF ExternalSound, Whole
        <4> QED BY <1>1, <1>2, <4>1, PairFields
      <3>2. \A v \in Worker : work'[v].at \in MintAts /\ work'[v].of = x => v = w
        BY <1>6, <1>8, <1>9, <2>3 DEF Writes
      <3>3. \A v \in Worker : work'[v].at = "sign" => work'[v] = work[v]
        BY <1>4, <1>6, <1>a, PlaceWords
      <3>4. work'[w].at # "xkey"
        BY <1>4, <1>6, <1>a
      <3> QED BY <1>1, <2>1, <2>3, <3>1, <3>2, <3>3, <3>4 DEF ExternalSound, Whole
    <2> QED BY <2>2, <2>3
  <1>10. RootsSound'
    <2>1. RootSound(w)'
      BY <1>1, <1>4, <1>6, <1>a, <1>b, <1>c, IntermediatesAssumption DEF RootSound
    <2>2. \A v \in Worker \ {w} : RootSound(v)'
      BY <1>1, <1>6 DEF KeysInv, RootsSound, RootSound
    <2>3. ~MakesRoot(w)'
      BY <1>4, <1>6, <1>a DEF MakesRoot
    <2>4. \A v \in Worker : MakesRoot(v)' => MakesRoot(v) /\ work'[v] = work[v]
      BY <1>6, <2>3 DEF MakesRoot
    <2> QED BY <1>1, <2>1, <2>2, <2>4 DEF KeysInv, RootsSound
  <1>11. p.at \notin RotateAts
    BY <1>4, <1>a, PlaceWords
  <1> QED BY <1>1, <1>3, <1>4, <1>5, <1>7, <1>8, <1>9, <1>10, <1>11, ThreadStarts

\* A thread reads the certificate it will sign under.
LEMMA ReadExternalCertStep ==
  ASSUME KeysInv, NEW w \in Worker, NEW x \in External, ReadExternalCert(w, x)
  PROVE  KeysInv'
  <1> DEFINE p == [at |-> "sign", of |-> x, cert |-> pair[x].cert]
  <1>1. /\ work[w] = Resting /\ pair[x].cert # 0 /\ work' = [work EXCEPT ![w] = p]
        /\ UNCHANGED <<pair, alias, archive, rootFiles, generated, NotInFiles>>
    BY DEF ReadExternalCert
  <1>2. /\ work \in [Worker -> Places] /\ generated \in Number
        /\ upset \subseteq Issuer /\ x \in Issuer /\ pair[x] \in Pair
    BY DEF KeysInv, KeyFilesTyped, Issuer, Pairs
  <1>3. pair[x].cert \in Number
    BY <1>2, PairFields
  <1>4. p \in Reading /\ p.at = "sign" /\ p.of = x /\ p.cert = pair[x].cert
    BY <1>3 DEF Reading
  <1> HIDE DEF p
  <1>5. p \in Places
    BY <1>4, ReadingFields
  <1>6. /\ work'[w] = p /\ \A v \in Worker \ {w} : work'[v] = work[v]
    BY <1>1, <1>2, <1>5, ThreadMoves
  <1>7. p.at \notin RotateAts /\ p.at \notin MintAts
    BY <1>4, PlaceWords
  <1>8. upset' = upset /\ generated' = generated
    BY <1>1 DEF NotInFiles
  <1>9. ASSUME NEW y \in External, y \notin upset'
        PROVE  ExternalSound(y)'
    <2>1. ExternalSound(y)
      BY <1>8, <1>9 DEF KeysInv
    <2>2. \A v \in Worker : work'[v].at \in MintAts => work'[v] = work[v]
      BY <1>6, <1>7
    <2>3. \A v \in Worker : work'[v].at = "sign" /\ work'[v].of = y =>
            work'[v].cert = pair[y].cert /\ work'[v].cert # 0
      <3>1. \A v \in Worker \ {w} : work'[v].at = "sign" /\ work'[v].of = y =>
              work'[v].cert = pair[y].cert /\ work'[v].cert # 0
        BY <1>6, <2>1 DEF ExternalSound
      <3>2. work'[w].of = y => work'[w].cert = pair[y].cert /\ work'[w].cert # 0
        BY <1>1, <1>4, <1>6
      <3> QED BY <3>1, <3>2
    <2> QED BY <1>1, <2>1, <2>2, <2>3 DEF ExternalSound, Whole
  <1>10. RootsSound'
    <2>1. \A v \in Worker : work'[v].at \in MintAts => work'[v] = work[v]
      BY <1>6, <1>7
    <2> QED BY <1>1, <2>1, RootsUntouched DEF KeysInv, NotInFiles
  <1> QED BY <1>1, <1>2, <1>5, <1>7, <1>8, <1>9, <1>10, ThreadStarts DEF NotInFiles

\* A step of a mint: it is enough to look at the name that is minted and the roots.
LEMMA MintFrame ==
  ASSUME KeysInv, NEW w \in Worker, NEW x \in External,
         work[w].at \in MintAts, work[w].of = x,
         work' \in [Worker -> Places],
         work'[w] = Resting \/ (work'[w].at \in MintAts /\ work'[w].of = x),
         \A v \in Worker \ {w} : work'[v] = work[v],
         pair' \in Pairs(Issuer), rootFiles' \in [Root -> {"none", "directory", "cert", "whole"}],
         rootOf' \in [External -> Root \cup {"none", "primary"}],
         \A y \in Issuer \ {x} : pair'[y] = pair[y],
         UNCHANGED <<alias, archive, loaded, generated, second, leaves, upset, rotated>>,
         x \notin upset => ExternalSound(x)',
         RootsSound'
  PROVE  KeysInv'
  <1>1. KeyFilesTyped'
    BY Zenon DEF KeysInv, KeyFilesTyped, Pair, Pairs, Places, ArchivedPair, Rotation, Mint, Reading,
                 Resting, Issuer, Number, Seconds
  <1>2. work'[w].at \notin RotateAts /\ work[w].at \notin RotateAts /\ work'[w].at # "sign"
    BY RestFields, PlaceWords
  <1>3. \A v \in Worker, y \in Issuer : Writes(v, y)' => Writes(v, y)
    BY RestFields, PlaceWords DEF Writes
  <1>4. OneWriter'
    BY <1>3 DEF KeysInv, OneWriter
  <1>5. ASSUME NEW q \in Intermediate \ upset
        PROVE  RoleSound(q)'
    <2>1. RoleSound(q) /\ q \in Issuer /\ q # x
      BY IntermediatesAssumption DEF KeysInv, Issuer
    <2>2. \A k : InArchive(q, k) => InArchive(q, k)'
      BY DEF InArchive
    <2>3. (\A v \in Worker : work'[v].at \in RotateAts => work'[v].of # q)
            => \A v \in Worker : work[v].at \in RotateAts => work[v].of # q
      BY <1>2
    <2>4. pair'[q] = pair[q] /\ alias'[q] = alias[q]
      BY <2>1
    <2> QED BY <2>1, <2>2, <2>3, <2>4, RoleUntouched
  <1>6. ASSUME NEW v \in Worker, work'[v].at \in RotateAts, work'[v].of \notin upset
        PROVE  RotationSound(v)'
    <2>1. v # w /\ work'[v] = work[v]
      BY <1>2, <1>6
    <2>2. RotationSound(v) /\ work[v] \in Rotation /\ work[v].of \in Intermediate
      BY <1>6, <2>1, PlaceFields, RotationFields DEF KeysInv, KeyFilesTyped
    <2>3. work[v].of # x /\ work[v].of \in Issuer
      BY <2>2, IntermediatesAssumption DEF Issuer
    <2> QED BY <2>1, <2>2, <2>3, RotationUntouched
  <1>7. ASSUME NEW y \in External \ upset
        PROVE  ExternalSound(y)'
    <2>1. CASE y = x
      BY <2>1
    <2>2. CASE y # x
      <3>1. y \in Issuer /\ ExternalSound(y)
        BY DEF KeysInv, Issuer
      <3>2. \A v \in Worker : work'[v].at \in MintAts \cup {"sign"} /\ work'[v].of = y
              => work'[v] = work[v]
        BY <2>2, RestFields, PlaceWords
      <3> QED BY <2>2, <3>1, <3>2, ExternalUntouched
    <2> QED BY <2>1, <2>2
  <1>8. LeavesSound'
    BY DEF KeysInv, LeavesSound
  <1>9. upset' = upset
    OBVIOUS
  <1> QED BY <1>1, <1>4, <1>5, <1>6, <1>7, <1>8, <1>9 DEF KeysInv

\* A name stays sound when its one writer goes on.
LEMMA NameMinted ==
  ASSUME KeysInv, NEW w \in Worker, NEW x \in External, x \notin upset,
         work[w].at \in MintAts, work[w].of = x,
         work'[w] = Resting \/ (work'[w].at \in MintAts /\ work'[w].of = x),
         \A v \in Worker \ {w} : work'[v] = work[v],
         pair'[x].key = 0 \/ Whole(pair'[x]),
         work'[w].at \in {"root", "root_cert", "root_key", "mkdir"} => pair'[x] = [cert |-> 0, key |-> 0],
         work'[w].at = "xkey" => pair'[x].cert = work'[w].new,
         pair'[x].cert = pair[x].cert \/ pair[x].cert = 0
  PROVE  ExternalSound(x)'
  <1>1. ExternalSound(x) /\ x \in Issuer
    BY DEF KeysInv, Issuer
  <1>2. \A v \in Worker : work'[v].at \in MintAts /\ work'[v].of = x => v = w
    BY DEF KeysInv, OneWriter, Writes, Issuer
  <1>3. work'[w].at # "sign"
    BY RestFields, PlaceWords
  <1>4. \A v \in Worker : work'[v].at = "sign" /\ work'[v].of = x =>
          work'[v].cert = pair'[x].cert /\ work'[v].cert # 0
    BY <1>1, <1>3 DEF ExternalSound
  <1> QED BY <1>2, <1>4 DEF ExternalSound, Whole

\* The names of the roots stay sound when a thread that makes none of them goes on.
LEMMA RootsStay ==
  ASSUME RootsSound, NEW w \in Worker, UNCHANGED rootFiles,
         \A v \in Worker \ {w} : work'[v] = work[v],
         work'[w].at \notin {"root", "root_cert", "root_key", "mkdir"},
         \A x \in External : rootOf'[x] \in Root => rootFiles[rootOf'[x]] = "whole"
  PROVE  RootsSound'
  <1>1. RootSound(w)' /\ ~MakesRoot(w)'
    BY DEF RootSound, MakesRoot
  <1>2. \A v \in Worker \ {w} : RootSound(v)'
    BY DEF RootsSound, RootSound
  <1>3. \A v \in Worker : MakesRoot(v)' => MakesRoot(v) /\ work'[v] = work[v]
    BY <1>1 DEF MakesRoot
  <1> QED BY <1>1, <1>2, <1>3 DEF RootsSound

\* What a thread that mints finds.
LEMMA MintStepTypes ==
  ASSUME KeysInv, NEW w \in Worker, work[w].at \in MintAts
  PROVE  /\ work[w] \in Mint /\ work[w].of \in External /\ work[w].of \in Issuer
         /\ work[w].new \in Number /\ work[w].root \in Root \cup {"primary"}
         /\ pair[work[w].of] \in Pair
         /\ pair \in Pairs(Issuer) /\ work \in [Worker -> Places]
         /\ rootFiles \in [Root -> {"none", "directory", "cert", "whole"}]
         /\ rootOf \in [External -> Root \cup {"none", "primary"}]
         /\ RootSound(w) /\ RootsSound
         /\ work[w].of \notin upset => ExternalSound(work[w].of)
  <1>1. /\ work \in [Worker -> Places] /\ pair \in Pairs(Issuer)
        /\ rootFiles \in [Root -> {"none", "directory", "cert", "whole"}]
        /\ rootOf \in [External -> Root \cup {"none", "primary"}]
        /\ RootsSound /\ RootSound(w)
    BY DEF KeysInv, KeyFilesTyped, RootsSound
  <1>2. work[w] \in Mint
    BY <1>1, PlaceFields
  <1>3. /\ work[w].of \in External /\ work[w].new \in Number
        /\ work[w].root \in Root \cup {"primary"}
    BY <1>2, MintFields
  <1>4. work[w].of \in Issuer /\ pair[work[w].of] \in Pair
    BY <1>1, <1>3 DEF Issuer, Pairs
  <1>5. work[w].of \notin upset => ExternalSound(work[w].of)
    BY <1>3 DEF KeysInv
  <1> QED BY <1>1, <1>2, <1>3, <1>4, <1>5

\* A thread that is done rests.
LEMMA ThreadRests ==
  ASSUME KeysInv, NEW w \in Worker, work' = [work EXCEPT ![w] = Resting]
  PROVE  /\ work' \in [Worker -> Places] /\ work'[w] = Resting /\ work'[w].at = "rest"
         /\ \A v \in Worker \ {w} : work'[v] = work[v]
  <1>1. work \in [Worker -> Places]
    BY DEF KeysInv, KeyFilesTyped
  <1> QED BY <1>1, ThreadMoves, RestFields

\* A mint that goes on to make its root, or to make nothing.
LEMMA RootDirectoryStep ==
  ASSUME KeysInv, NEW w \in Worker, RootDirectory(w)
  PROVE  KeysInv'
  <1>1. /\ work[w].at = "root"
        /\ \/ /\ rootFiles[work[w].root] = "none"
              /\ rootFiles' = [rootFiles EXCEPT ![work[w].root] = "directory"]
              /\ Step(w, "root_cert")
           \/ work' = [work EXCEPT ![w] = Resting] /\ UNCHANGED rootFiles
        /\ UNCHANGED <<pair, alias, archive, generated, NotInFiles>>
    BY DEF RootDirectory
  <1>2. work[w].at \in MintAts
    BY <1>1, PlaceWords
  <1>3. PICK x \in External : x = work[w].of
    BY <1>2, MintStepTypes
  <1>4. PICK root \in Root : root = work[w].root
    BY <1>1, <1>2, MintStepTypes DEF RootSound
  <1>5. /\ x \notin upset => ExternalSound(x) /\ pair[x] = [cert |-> 0, key |-> 0]
        /\ [cert |-> 0, key |-> 0].key = 0
    BY <1>1, <1>2, <1>3, MintStepTypes DEF ExternalSound
  <1>6. CASE /\ rootFiles[root] = "none" /\ rootFiles' = [rootFiles EXCEPT ![root] = "directory"]
             /\ Step(w, "root_cert")
    <2>1. /\ work' \in [Worker -> Places] /\ work'[w].at = "root_cert" /\ work'[w].at \in MintAts
          /\ work'[w].of = x /\ work'[w].root = root
          /\ \A v \in Worker \ {w} : work'[v] = work[v]
      BY <1>2, <1>3, <1>4, <1>6, PlaceWords, MintMoves, MintStepTypes
    <2>2. /\ rootFiles' \in [Root -> {"none", "directory", "cert", "whole"}]
          /\ rootFiles'[root] = "directory"
          /\ \A other \in Root \ {root} : rootFiles'[other] = rootFiles[other]
      BY <1>2, <1>6, MintStepTypes
    <2>3. RootSound(w)'
      BY <2>1, <2>2 DEF RootSound
    <2>4. ASSUME NEW v \in Worker \ {w}
          PROVE  RootSound(v)' /\ (MakesRoot(v) => work[v].root # root)
      <3>1. RootSound(v) /\ work'[v] = work[v]
        BY <2>1 DEF KeysInv, RootsSound
      <3> QED BY <1>6, <2>2, <3>1 DEF RootSound, MakesRoot
    <2>5. \A u, v \in Worker :
            (MakesRoot(u)' /\ MakesRoot(v)' /\ work'[u].root = work'[v].root) => u = v
      BY <2>1, <2>4 DEF KeysInv, RootsSound, MakesRoot
    <2>6. rootOf' = rootOf /\ \A y \in External : rootOf[y] \in Root => rootFiles'[rootOf[y]] = "whole"
      BY <1>1, <1>6, <2>2 DEF KeysInv, RootsSound, NotInFiles
    <2>7. RootsSound'
      BY <2>3, <2>4, <2>5, <2>6 DEF RootsSound
    <2>8. x \notin upset => ExternalSound(x)'
      BY <1>1, <1>2, <1>3, <1>5, <2>1, NameMinted
    <2> QED BY <1>1, <1>2, <1>3, <2>1, <2>2, <2>7, <2>8, MintStepTypes, MintFrame DEF NotInFiles
  <1>7. CASE work' = [work EXCEPT ![w] = Resting] /\ UNCHANGED rootFiles
    <2>1. /\ work' \in [Worker -> Places] /\ work'[w] = Resting /\ work'[w].at = "rest"
          /\ \A v \in Worker \ {w} : work'[v] = work[v]
      BY <1>7, ThreadRests
    <2>2. RootsSound'
      BY <1>1, <1>7, <2>1, RootsStay DEF KeysInv, RootsSound, NotInFiles
    <2>3. x \notin upset => ExternalSound(x)'
      BY <1>1, <1>2, <1>3, <1>5, <2>1, NameMinted
    <2> QED BY <1>1, <1>2, <1>3, <1>7, <2>1, <2>2, <2>3, MintStepTypes, MintFrame DEF NotInFiles
  <1> QED BY <1>1, <1>4, <1>6, <1>7

\* It writes the certificate of the root.
LEMMA RootCertStep ==
  ASSUME KeysInv, NEW w \in Worker, RootCert(w)
  PROVE  KeysInv'
  <1>1. /\ work[w].at = "root_cert"
        /\ rootFiles' = [rootFiles EXCEPT ![work[w].root] = "cert"]
        /\ Step(w, "root_key")
        /\ UNCHANGED <<pair, alias, archive, generated, NotInFiles>>
    BY DEF RootCert
  <1>2. work[w].at \in MintAts
    BY <1>1, PlaceWords
  <1>3. PICK x \in External : x = work[w].of
    BY <1>2, MintStepTypes
  <1>4. PICK root \in Root : root = work[w].root
    BY <1>1, <1>2, MintStepTypes DEF RootSound
  <1>5. /\ x \notin upset => ExternalSound(x) /\ pair[x] = [cert |-> 0, key |-> 0]
        /\ [cert |-> 0, key |-> 0].key = 0
    BY <1>1, <1>2, <1>3, MintStepTypes DEF ExternalSound
  <1>6. /\ work' \in [Worker -> Places] /\ work'[w].at = "root_key" /\ work'[w].at \in MintAts
        /\ work'[w].of = x /\ work'[w].root = root
        /\ \A v \in Worker \ {w} : work'[v] = work[v]
    BY <1>1, <1>2, <1>3, <1>4, PlaceWords, MintMoves, MintStepTypes
  <1>7. /\ rootFiles' \in [Root -> {"none", "directory", "cert", "whole"}]
        /\ rootFiles'[root] = "cert"
        /\ \A other \in Root \ {root} : rootFiles'[other] = rootFiles[other]
    BY <1>1, <1>2, <1>4, MintStepTypes
  <1>8. rootFiles[root] = "directory"
    BY <1>1, <1>2, <1>4, MintStepTypes DEF RootSound
  <1>9. RootSound(w)'
    BY <1>6, <1>7 DEF RootSound
  <1>10. ASSUME NEW v \in Worker \ {w}
         PROVE  RootSound(v)' /\ (MakesRoot(v) => work[v].root # root)
    <2>1. RootSound(v) /\ work'[v] = work[v]
      BY <1>6 DEF KeysInv, RootsSound
    <2>2. MakesRoot(v) => work[v].root # root
      BY <1>1, <1>4 DEF KeysInv, RootsSound, MakesRoot
    <2> QED BY <1>7, <1>8, <2>1, <2>2 DEF RootSound, MakesRoot
  <1>11. \A u, v \in Worker :
           (MakesRoot(u)' /\ MakesRoot(v)' /\ work'[u].root = work'[v].root) => u = v
    BY <1>6, <1>10 DEF KeysInv, RootsSound, MakesRoot
  <1>12. rootOf' = rootOf /\ \A y \in External : rootOf[y] \in Root => rootFiles'[rootOf[y]] = "whole"
    BY <1>1, <1>7, <1>8 DEF KeysInv, RootsSound, NotInFiles
  <1>13. RootsSound'
    BY <1>9, <1>10, <1>11, <1>12 DEF RootsSound
  <1>14. x \notin upset => ExternalSound(x)'
    BY <1>1, <1>2, <1>3, <1>5, <1>6, NameMinted
  <1> QED BY <1>1, <1>2, <1>3, <1>6, <1>7, <1>13, <1>14, MintStepTypes, MintFrame DEF NotInFiles

\* And its key: the root is whole.
LEMMA RootKeyStep ==
  ASSUME KeysInv, NEW w \in Worker, RootKey(w)
  PROVE  KeysInv'
  <1>1. /\ work[w].at = "root_key"
        /\ rootFiles' = [rootFiles EXCEPT ![work[w].root] = "whole"]
        /\ Step(w, "mkdir")
        /\ UNCHANGED <<pair, alias, archive, generated, NotInFiles>>
    BY DEF RootKey
  <1>2. work[w].at \in MintAts
    BY <1>1, PlaceWords
  <1>3. PICK x \in External : x = work[w].of
    BY <1>2, MintStepTypes
  <1>4. PICK root \in Root : root = work[w].root
    BY <1>1, <1>2, MintStepTypes DEF RootSound
  <1>5. /\ x \notin upset => ExternalSound(x) /\ pair[x] = [cert |-> 0, key |-> 0]
        /\ [cert |-> 0, key |-> 0].key = 0
    BY <1>1, <1>2, <1>3, MintStepTypes DEF ExternalSound
  <1>6. /\ work' \in [Worker -> Places] /\ work'[w].at = "mkdir" /\ work'[w].at \in MintAts
        /\ work'[w].of = x /\ work'[w].root = root
        /\ \A v \in Worker \ {w} : work'[v] = work[v]
    BY <1>1, <1>2, <1>3, <1>4, PlaceWords, MintMoves, MintStepTypes
  <1>7. /\ rootFiles' \in [Root -> {"none", "directory", "cert", "whole"}]
        /\ rootFiles'[root] = "whole"
        /\ \A other \in Root \ {root} : rootFiles'[other] = rootFiles[other]
    BY <1>1, <1>2, <1>4, MintStepTypes
  <1>9. RootSound(w)'
    BY <1>6, <1>7 DEF RootSound
  <1>10. ASSUME NEW v \in Worker \ {w}
         PROVE  RootSound(v)' /\ (MakesRoot(v) => work[v].root # root)
    <2>1. RootSound(v) /\ work'[v] = work[v]
      BY <1>6 DEF KeysInv, RootsSound
    <2>2. MakesRoot(v) => work[v].root # root
      BY <1>1, <1>4 DEF KeysInv, RootsSound, MakesRoot
    <2> QED BY <1>7, <2>1, <2>2 DEF RootSound, MakesRoot
  <1>11. \A u, v \in Worker :
           (MakesRoot(u)' /\ MakesRoot(v)' /\ work'[u].root = work'[v].root) => u = v
    BY <1>6, <1>10 DEF KeysInv, RootsSound, MakesRoot
  <1>12. rootOf' = rootOf /\ \A y \in External : rootOf[y] \in Root => rootFiles'[rootOf[y]] = "whole"
    BY <1>1, <1>7 DEF KeysInv, RootsSound, NotInFiles
  <1>13. RootsSound'
    BY <1>9, <1>10, <1>11, <1>12 DEF RootsSound
  <1>14. x \notin upset => ExternalSound(x)'
    BY <1>1, <1>2, <1>3, <1>5, <1>6, NameMinted
  <1> QED BY <1>1, <1>2, <1>3, <1>6, <1>7, <1>13, <1>14, MintStepTypes, MintFrame DEF NotInFiles

\* It writes the certificate of the name, before the key, in a fresh directory.
LEMMA ExternalCertStep ==
  ASSUME KeysInv, NEW w \in Worker, ExternalCert(w)
  PROVE  KeysInv'
  <1>1. /\ work[w].at = "mkdir"
        /\ pair' = [pair EXCEPT ![work[w].of].cert = work[w].new]
        /\ rootOf' = [rootOf EXCEPT ![work[w].of] = work[w].root]
        /\ Step(w, "xkey") \/ Step(w, "xanswer")
        /\ UNCHANGED <<alias, archive, rootFiles, loaded, generated, second, leaves, upset, rotated>>
    BY DEF ExternalCert
  <1>2. work[w].at \in MintAts
    BY <1>1, PlaceWords
  <1>3. PICK x \in External : x = work[w].of
    BY <1>2, MintStepTypes
  <1>4. PICK n \in Number : n = work[w].new
    BY <1>2, MintStepTypes
  <1>5. /\ x \in Issuer /\ pair \in Pairs(Issuer) /\ work[w].root \in Root \cup {"primary"}
        /\ pair[x] \in Pair
        /\ x \notin upset => pair[x] = [cert |-> 0, key |-> 0]
    BY <1>1, <1>2, <1>3, MintStepTypes DEF ExternalSound
  <1>6. /\ pair' \in Pairs(Issuer) /\ pair'[x] = [cert |-> n, key |-> pair[x].key]
        /\ \A y \in Issuer \ {x} : pair'[y] = pair[y]
    <2>1. pair' = CertPut(pair, x, n)
      BY <1>1, <1>3, <1>4 DEF CertPut
    <2> QED BY <1>5, <2>1, CertWritten
  <1>7. /\ work' \in [Worker -> Places] /\ work'[w].at \in {"xkey", "xanswer"}
        /\ work'[w].at \in MintAts /\ work'[w].of = x /\ work'[w].new = n
        /\ \A v \in Worker \ {w} : work'[v] = work[v]
    BY <1>1, <1>2, <1>3, <1>4, PlaceWords, MintMoves, MintStepTypes
  <1>8. rootOf' \in [External -> Root \cup {"none", "primary"}]
    BY <1>1, <1>2, <1>3, <1>5, MintStepTypes
  <1>9. RootsSound'
    <2>1. work[w].root \in Root => rootFiles[work[w].root] = "whole"
      BY <1>1, <1>2, MintStepTypes DEF RootSound
    <2>2. \A y \in External : rootOf'[y] \in Root => rootFiles[rootOf'[y]] = "whole"
      BY <1>1, <1>2, <1>3, <2>1, MintStepTypes DEF RootsSound
    <2> QED BY <1>1, <1>2, <1>7, <2>2, MintStepTypes, RootsStay
  <1>10. x \notin upset => ExternalSound(x)'
    <2>1. ASSUME x \notin upset
          PROVE  pair'[x].key = 0 /\ pair'[x].cert = n /\ pair[x].cert = 0
      BY <1>5, <1>6, <2>1
    <2> QED BY <1>2, <1>3, <1>7, <2>1, NameMinted
  <1> QED BY <1>1, <1>2, <1>3, <1>6, <1>7, <1>8, <1>9, <1>10, MintStepTypes, MintFrame

\* And its key.
LEMMA ExternalKeyStep ==
  ASSUME KeysInv, NEW w \in Worker, ExternalKey(w)
  PROVE  KeysInv'
  <1>1. /\ work[w].at = "xkey"
        /\ pair' = [pair EXCEPT ![work[w].of].key = work[w].new]
        /\ Step(w, "xanswer")
        /\ UNCHANGED <<alias, archive, rootFiles, generated, NotInFiles>>
    BY DEF ExternalKey
  <1>2. work[w].at \in MintAts
    BY <1>1, PlaceWords
  <1>3. PICK x \in External : x = work[w].of
    BY <1>2, MintStepTypes
  <1>4. PICK n \in Number : n = work[w].new
    BY <1>2, MintStepTypes
  <1>5. /\ x \in Issuer /\ pair \in Pairs(Issuer) /\ pair[x] \in Pair
        /\ x \notin upset => pair[x].cert = n
    BY <1>1, <1>2, <1>3, <1>4, MintStepTypes DEF ExternalSound
  <1>6. /\ pair' \in Pairs(Issuer) /\ pair'[x] = [cert |-> pair[x].cert, key |-> n]
        /\ \A y \in Issuer \ {x} : pair'[y] = pair[y]
    <2>1. pair' = KeyPut(pair, x, n)
      BY <1>1, <1>3, <1>4 DEF KeyPut
    <2> QED BY <1>5, <2>1, KeyWritten
  <1>7. /\ work' \in [Worker -> Places] /\ work'[w].at = "xanswer"
        /\ work'[w].at \in MintAts /\ work'[w].of = x /\ work'[w].new = n
        /\ \A v \in Worker \ {w} : work'[v] = work[v]
    BY <1>1, <1>2, <1>3, <1>4, PlaceWords, MintMoves, MintStepTypes
  <1>9. RootsSound'
    BY <1>1, <1>2, <1>7, MintStepTypes, RootsStay DEF RootsSound, NotInFiles
  <1>10. x \notin upset => ExternalSound(x)'
    <2>1. ASSUME x \notin upset
          PROVE  Whole(pair'[x]) /\ pair'[x].cert = pair[x].cert
      BY <1>5, <1>6, <2>1 DEF Whole
    <2> QED BY <1>2, <1>3, <1>7, <2>1, NameMinted
  <1> QED BY <1>1, <1>2, <1>3, <1>6, <1>7, <1>9, <1>10, MintStepTypes, MintFrame DEF NotInFiles

\* And answers.
LEMMA ExternalAnswerStep ==
  ASSUME KeysInv, NEW w \in Worker, ExternalAnswer(w)
  PROVE  KeysInv'
  <1>1. /\ work[w].at = "xanswer" /\ work' = [work EXCEPT ![w] = Resting]
        /\ UNCHANGED <<pair, alias, archive, rootFiles, loaded, generated, second, leaves, upset,
                       rotated, rootOf>>
    BY DEF ExternalAnswer
  <1>2. work[w].at \in MintAts
    BY <1>1, PlaceWords
  <1>3. PICK x \in External : x = work[w].of
    BY <1>2, MintStepTypes
  <1>4. /\ work' \in [Worker -> Places] /\ work'[w] = Resting /\ work'[w].at = "rest"
        /\ \A v \in Worker \ {w} : work'[v] = work[v]
    BY <1>1, ThreadRests
  <1>5. RootsSound'
    BY <1>1, <1>2, <1>4, MintStepTypes, RootsStay DEF RootsSound
  <1>6. x \notin upset => ExternalSound(x)'
    BY <1>1, <1>2, <1>3, <1>4, MintStepTypes, NameMinted DEF ExternalSound
  <1> QED BY <1>1, <1>2, <1>3, <1>4, <1>5, <1>6, MintStepTypes, MintFrame

\* A leaf more, that goes with its certificate and is of a keypair that is kept.
LEMMA LeafSigned ==
  ASSUME KeysInv, NEW leaf \in [of : Issuer, by : Number, under : Number],
         leaf.of \in upset \/ leaf.by = leaf.under,
         leaf.of \in Intermediate => leaf.by = loaded[leaf.of].key,
         leaves' = leaves \cup {leaf},
         work' \in [Worker -> Places],
         \A v \in Worker : work'[v] = work[v] \/ (work[v].at = "sign" /\ work'[v] = Resting),
         UNCHANGED <<pair, alias, archive, rootFiles, loaded, generated, second, upset, rotated, rootOf>>
  PROVE  KeysInv'
  <1>1. leaves' \subseteq [of : Issuer, by : Number, under : Number]
    BY DEF KeysInv, KeyFilesTyped
  <1>2. KeyFilesTyped'
    BY <1>1, Zenon DEF KeysInv, KeyFilesTyped, Pair, Pairs, Places, ArchivedPair, Rotation, Mint, Reading,
                 Resting, Issuer, Number, Seconds
  <1>3. \A v \in Worker : work'[v].at \in RotateAts \cup MintAts \cup {"sign"} => work'[v] = work[v]
    BY RestFields, PlaceWords
  <1>4. OneWriter'
    BY <1>3 DEF KeysInv, OneWriter, Writes
  <1>5. ASSUME NEW q \in Intermediate \ upset
        PROVE  RoleSound(q)'
    <2>1. RoleSound(q)
      BY DEF KeysInv
    <2>2. Signers(q)' = Signers(q)
      BY DEF Signers
    <2>3. \A k : KeptWhole(q, k)' <=> KeptWhole(q, k)
      BY DEF KeptWhole, InArchive
    <2>4. (\A v \in Worker : work'[v].at \in RotateAts => work'[v].of # q)
            => \A v \in Worker : work[v].at \in RotateAts => work[v].of # q
      BY PlaceWords
    <2> QED BY <2>1, <2>2, <2>3, <2>4 DEF RoleSound, Whole
  <1>6. ASSUME NEW v \in Worker, work'[v].at \in RotateAts, work'[v].of \notin upset
        PROVE  RotationSound(v)'
    BY <1>3, <1>6, RotationUntouched DEF KeysInv
  <1>7. ASSUME NEW x \in External \ upset
        PROVE  ExternalSound(x)'
    BY <1>3, <1>7, ExternalUntouched DEF KeysInv
  <1>8. RootsSound'
    BY <1>3, RootsUntouched DEF KeysInv
  <1>9. LeavesSound'
    BY DEF KeysInv, LeavesSound
  <1>10. upset' = upset
    OBVIOUS
  <1> QED BY <1>2, <1>4, <1>5, <1>6, <1>7, <1>8, <1>9, <1>10 DEF KeysInv

\* A leaf is signed with the key in memory, under the certificate in memory.
LEMMA SignLeafStep ==
  ASSUME KeysInv, NEW r \in Intermediate, SignLeaf(r)
  PROVE  KeysInv'
  <1> DEFINE leaf == [of |-> r, by |-> loaded[r].key, under |-> loaded[r].cert]
  <1>1. loaded[r] \in Pair /\ work \in [Worker -> Places] /\ r \in Issuer
    BY DEF KeysInv, KeyFilesTyped, Pairs, Issuer
  <1>2. /\ leaf \in [of : Issuer, by : Number, under : Number]
        /\ leaf.of = r /\ leaf.by = loaded[r].key /\ leaf.under = loaded[r].cert
    BY <1>1, PairFields
  <1>3. r \in upset \/ loaded[r].key = loaded[r].cert
    BY DEF KeysInv, RoleSound, Whole
  <1>4. /\ leaves' = leaves \cup {leaf}
        /\ UNCHANGED <<pair, alias, archive, rootFiles, loaded, work, generated, second, upset,
                       rotated, rootOf>>
    BY DEF SignLeaf
  <1> HIDE DEF leaf
  <1> QED BY <1>1, <1>2, <1>3, <1>4, LeafSigned

\* A leaf is signed with the key in the file, under the certificate read before.
LEMMA SignExternalStep ==
  ASSUME KeysInv, NEW w \in Worker, SignExternal(w)
  PROVE  KeysInv'
  <1>1. /\ work[w].at = "sign" /\ work' = [work EXCEPT ![w] = Resting]
        /\ leaves' = IF pair[work[w].of].key = 0 THEN leaves
                     ELSE leaves \cup {[of |-> work[w].of, by |-> pair[work[w].of].key,
                                        under |-> work[w].cert]}
        /\ UNCHANGED <<pair, alias, archive, rootFiles, loaded, generated, second, upset, rotated, rootOf>>
    BY DEF SignExternal
  <1>2. work[w] \in Reading
    BY <1>1, PlaceFields DEF KeysInv, KeyFilesTyped
  <1>3. PICK x \in External : x = work[w].of
    BY <1>2, ReadingFields
  <1>4. work[w].cert \in Number /\ x \in Issuer /\ x \notin Intermediate /\ pair[x] \in Pair
    BY <1>2, <1>3, ReadingFields, IntermediatesAssumption DEF KeysInv, KeyFilesTyped, Pairs, Issuer
  <1>5. /\ work' \in [Worker -> Places] /\ work'[w] = Resting /\ work'[w].at = "rest"
        /\ \A v \in Worker \ {w} : work'[v] = work[v]
    BY <1>1, ThreadRests
  <1>6. \A v \in Worker : work'[v] = work[v] \/ (work[v].at = "sign" /\ work'[v] = Resting)
    BY <1>1, <1>5
  <1>7. CASE pair[x].key # 0
    <2> DEFINE leaf == [of |-> x, by |-> pair[x].key, under |-> work[w].cert]
    <2>1. /\ leaf \in [of : Issuer, by : Number, under : Number]
          /\ leaf.of = x /\ leaf.by = pair[x].key /\ leaf.under = work[w].cert
      BY <1>4, PairFields
    <2>2. leaves' = leaves \cup {leaf}
      BY <1>1, <1>3, <1>7
    <2>3. x \in upset \/ pair[x].key = work[w].cert
      BY <1>1, <1>3, <1>7 DEF KeysInv, ExternalSound, Whole
    <2> HIDE DEF leaf
    <2> QED BY <1>1, <1>4, <1>5, <1>6, <2>1, <2>2, <2>3, LeafSigned
  <1>8. CASE pair[x].key = 0
    <2>1. leaves' = leaves
      BY <1>1, <1>3, <1>8
    <2>2. KeyFilesTyped'
      BY <1>1, <1>5, <2>1, Zenon DEF KeysInv, KeyFilesTyped, Pair, Pairs, Places, ArchivedPair, Rotation,
                   Mint, Reading, Resting, Issuer, Number, Seconds
    <2>3. \A v \in Worker : work'[v].at \in RotateAts \cup MintAts \cup {"sign"} => work'[v] = work[v]
      BY <1>6, RestFields, PlaceWords
    <2>4. OneWriter'
      BY <1>1, <2>3 DEF KeysInv, OneWriter, Writes
    <2>5. ASSUME NEW q \in Intermediate \ upset
          PROVE  RoleSound(q)'
      <3>1. RoleSound(q)
        BY DEF KeysInv
      <3>2. \A k : InArchive(q, k) => InArchive(q, k)'
        BY <1>1 DEF InArchive
      <3>3. (\A v \in Worker : work'[v].at \in RotateAts => work'[v].of # q)
              => \A v \in Worker : work[v].at \in RotateAts => work[v].of # q
        BY <1>6, PlaceWords
      <3> QED BY <1>1, <2>1, <3>1, <3>2, <3>3, RoleUntouched
    <2>6. ASSUME NEW v \in Worker, work'[v].at \in RotateAts, work'[v].of \notin upset
          PROVE  RotationSound(v)'
      BY <1>1, <2>3, <2>6, RotationUntouched DEF KeysInv
    <2>7. ASSUME NEW y \in External \ upset
          PROVE  ExternalSound(y)'
      BY <1>1, <2>3, <2>7, ExternalUntouched DEF KeysInv
    <2>8. RootsSound'
      BY <1>1, <2>3, RootsUntouched DEF KeysInv
    <2>9. LeavesSound'
      BY <1>1, <2>1 DEF KeysInv, LeavesSound
    <2> QED BY <1>1, <2>2, <2>4, <2>5, <2>6, <2>7, <2>8, <2>9 DEF KeysInv
  <1> QED BY <1>7, <1>8

\* The CA restarts: every thread is gone, and what is in the files is loaded.
LEMMA RestartStep ==
  ASSUME KeysInv, Restart
  PROVE  KeysInv'
  <1>1. /\ loaded' = alias /\ work' = [w \in Worker |-> Resting]
        /\ upset' = upset \cup {x \in Issuer : Writers(x) # {}}
        /\ UNCHANGED <<pair, alias, archive, rootFiles, generated, second, leaves, rotated, rootOf>>
    BY DEF Restart
  <1>2. /\ work' \in [Worker -> Places]
        /\ \A w \in Worker : /\ work'[w].at \notin RotateAts /\ work'[w].at \notin MintAts
                             /\ work'[w].at # "sign"
    <2>1. \A w \in Worker : work'[w] = Resting
      BY <1>1
    <2>2. work' \in [Worker -> Places]
      BY <1>1, RestFields
    <2> QED BY <2>1, <2>2, RestFields, PlaceWords
  <1>3. upset \subseteq upset' /\ upset' \subseteq Issuer
    BY <1>1 DEF KeysInv, KeyFilesTyped
  <1>4. KeyFilesTyped'
    BY <1>1, <1>2, <1>3, Zenon DEF KeysInv, KeyFilesTyped, Pair, Pairs, Places, ArchivedPair, Rotation,
                   Mint, Reading, Resting, Issuer, Number, Seconds
  <1>5. OneWriter'
    BY <1>2 DEF OneWriter, Writes
  <1>6. ASSUME NEW q \in Intermediate, q \notin upset'
        PROVE  RoleSound(q)'
    <2>1. RoleSound(q) /\ Writers(q) = {}
      BY <1>1, <1>3, <1>6 DEF KeysInv, Issuer
    <2>2. \A w \in Worker : work[w].at \in RotateAts => work[w].of # q
      BY <2>1, WritersWrite DEF Writes
    <2>3. alias[q] = pair[q] /\ Whole(pair[q])
      BY <2>1, <2>2 DEF RoleSound
    <2>4. pair[q] \in Pair
      BY DEF KeysInv, KeyFilesTyped, Pairs, Issuer
    <2>5. pair[q] = [cert |-> pair[q].key, key |-> pair[q].key]
      BY <2>3, <2>4, PairFields DEF Whole
    <2>6. \A k : KeptWhole(q, k)' <=> KeptWhole(q, k)
      BY <1>1 DEF KeptWhole, InArchive
    <2>7. \A k \in Signers(q)' : k \in Signers(q) \/ k = pair[q].key
      BY <1>1, <2>3 DEF Signers
    <2>8. \A k \in Signers(q)' : KeptWhole(q, k)'
      BY <2>1, <2>5, <2>6, <2>7 DEF RoleSound, KeptWhole
    <2> QED BY <1>1, <2>3, <2>8 DEF RoleSound, Whole
  <1>7. ASSUME NEW x \in External, x \notin upset'
        PROVE  ExternalSound(x)'
    BY <1>1, <1>2, <1>3, <1>7 DEF KeysInv, ExternalSound, Whole
  <1>8. RootsSound'
    BY <1>1, <1>2, RootsUntouched DEF KeysInv
  <1>9. LeavesSound'
    BY <1>1, <1>3 DEF KeysInv, LeavesSound
  <1> QED BY <1>2, <1>4, <1>5, <1>6, <1>7, <1>8, <1>9 DEF KeysInv

\* Nothing but the time changes, or nothing at all.
LEMMA KeysStay ==
  ASSUME KeysInv, second' \in Seconds,
         UNCHANGED <<pair, alias, archive, rootFiles, loaded, work, generated, leaves, upset,
                     rotated, rootOf>>
  PROVE  KeysInv'
  <1>1. KeyFilesTyped'
    BY Zenon DEF KeysInv, KeyFilesTyped, Pair, Pairs, Places, ArchivedPair, Rotation,
                   Mint, Reading, Resting, Issuer, Number, Seconds
  <1>2. OneWriter'
    BY DEF KeysInv, OneWriter, Writes
  <1>3. ASSUME NEW q \in Intermediate \ upset
        PROVE  RoleSound(q)'
    <2>1. \A k : InArchive(q, k) => InArchive(q, k)'
      BY DEF InArchive
    <2> QED BY <2>1, RoleUntouched DEF KeysInv
  <1>4. ASSUME NEW v \in Worker, work[v].at \in RotateAts, work[v].of \notin upset
        PROVE  RotationSound(v)'
    BY <1>4, RotationUntouched DEF KeysInv
  <1>5. ASSUME NEW y \in External \ upset
        PROVE  ExternalSound(y)'
    BY <1>5, ExternalUntouched DEF KeysInv
  <1>6. RootsSound' /\ LeavesSound'
    BY RootsUntouched DEF KeysInv, LeavesSound
  <1> QED BY <1>1, <1>2, <1>3, <1>4, <1>5, <1>6 DEF KeysInv

\* The invariant holds when the CA has made its first pairs.
THEOREM KeysInitially == IntermediatesInit => KeysInv
  <1> SUFFICES ASSUME IntermediatesInit PROVE KeysInv
    OBVIOUS
  <1>1. PICK first \in [Intermediate -> 1..generated] :
          /\ alias = [r \in Intermediate |-> [cert |-> first[r], key |-> first[r]]]
          /\ pair = [x \in Issuer |-> IF x \in Intermediate THEN alias[x] ELSE [cert |-> 0, key |-> 0]]
          /\ rotated = first
    BY DEF IntermediatesInit
  <1>2. /\ generated = Cardinality(Intermediate) /\ loaded = alias /\ archive = {}
        /\ rootFiles = [r \in Root |-> "none"] /\ work = [w \in Worker |-> Resting]
        /\ second = 0 /\ leaves = {} /\ upset = {} /\ rootOf = [x \in External |-> "none"]
    BY DEF IntermediatesInit
  <1>3. generated \in Number /\ \A n \in 1..generated : n \in Number
    <2>1. Cardinality(Intermediate) \in Nat
      BY IntermediatesAssumption, FS_CardinalityType
    <2> QED BY <1>2, <2>1, IntermediatesAssumption DEF Number
  <1>4. \A r \in Intermediate : first[r] \in Number
    BY <1>3
  <1>5. /\ \A r \in Intermediate : alias[r] \in Pair /\ Whole(alias[r])
        /\ alias \in Pairs(Intermediate)
    <2>1. \A r \in Intermediate : alias[r] = [cert |-> first[r], key |-> first[r]]
      BY <1>1
    <2>2. ASSUME NEW r \in Intermediate
          PROVE  alias[r] \in Pair /\ Whole(alias[r])
      <3>1. PICK n \in Number : n = first[r]
        BY <1>4
      <3>2. alias[r] = [cert |-> n, key |-> n]
        BY <2>1, <3>1
      <3> QED BY <3>2, PairMade DEF Whole
    <2> QED BY <1>1, <2>2 DEF Pairs
  <1>6. /\ pair \in Pairs(Issuer) /\ \A r \in Intermediate : pair[r] = alias[r]
        /\ \A x \in External : pair[x] = [cert |-> 0, key |-> 0]
    <2>1. [cert |-> 0, key |-> 0] \in Pair
      BY ZeroIsANumber, PairMade
    <2>2. \A x \in Issuer : (IF x \in Intermediate THEN alias[x] ELSE [cert |-> 0, key |-> 0]) \in Pair
      BY <1>5, <2>1
    <2>3. pair \in Pairs(Issuer)
      BY <1>1, <2>2 DEF Pairs
    <2> QED BY <1>1, <2>3, IntermediatesAssumption DEF Issuer
  <1>7. /\ work \in [Worker -> Places]
        /\ \A w \in Worker : /\ work[w].at \notin RotateAts /\ work[w].at \notin MintAts
                             /\ work[w].at # "sign"
    <2>1. \A w \in Worker : work[w] = Resting
      BY <1>2
    <2>2. work \in [Worker -> Places]
      BY <1>2, RestFields
    <2> QED BY <2>1, <2>2, RestFields, PlaceWords
  <1>8. KeyFilesTyped
    <2>1. second \in Seconds /\ rotated \in [Intermediate -> Number]
      BY <1>1, <1>2, <1>4, IntermediatesAssumption DEF Seconds
    <2>2. /\ rootFiles \in [Root -> {"none", "directory", "cert", "whole"}]
          /\ rootOf \in [External -> Root \cup {"none", "primary"}]
      BY <1>2
    <2> QED BY <1>2, <1>3, <1>5, <1>6, <1>7, <2>1, <2>2 DEF KeyFilesTyped
  <1>9. OneWriter
    BY <1>7 DEF OneWriter, Writes
  <1>10. ASSUME NEW r \in Intermediate
         PROVE  RoleSound(r)
    <2>1. Signers(r) = {loaded[r].key}
      BY <1>2 DEF Signers
    <2>2. pair[r] = [cert |-> loaded[r].key, key |-> loaded[r].key]
      BY <1>2, <1>5, <1>6, PairFields DEF Whole
    <2> QED BY <1>2, <1>5, <1>6, <2>1, <2>2 DEF RoleSound, KeptWhole
  <1>11. ASSUME NEW x \in External
         PROVE  ExternalSound(x)
    BY <1>6, <1>7 DEF ExternalSound
  <1>12. RootsSound
    <2>1. \A w \in Worker : RootSound(w) /\ ~MakesRoot(w)
      BY <1>7, PlaceWords DEF RootSound, MakesRoot
    <2> QED BY <1>2, <2>1, IntermediatesAssumption DEF RootsSound
  <1>13. LeavesSound
    BY <1>2 DEF LeavesSound
  <1> QED BY <1>7, <1>8, <1>9, <1>10, <1>11, <1>12, <1>13 DEF KeysInv

\* Every step keeps the invariant.
LEMMA KeysStep ==
  ASSUME KeysInv, [IntermediatesNext]_intermediatesVars
  PROVE  KeysInv'
  <1>1. second \in Seconds
    BY DEF KeysInv, KeyFilesTyped
  <1>2. CASE UNCHANGED intermediatesVars
    BY <1>1, <1>2, KeysStay DEF intermediatesVars
  <1>3. CASE SecondPasses
    <2>1. second' \in Seconds
      BY <1>1, <1>3, IntermediatesAssumption DEF SecondPasses, Seconds
    <2> QED BY <1>3, <2>1, KeysStay DEF SecondPasses
  <1>4. CASE \E w \in Worker :
               \/ \E r \in Intermediate : Rotate(w, r)
               \/ ArchiveCert(w) \/ ArchiveKey(w) \/ RotateCert(w) \/ RotateKey(w)
               \/ AliasCert(w) \/ AliasKey(w) \/ RotateAnswer(w)
    BY <1>4, RotateStep, ArchiveCertStep, ArchiveKeyStep, RotateCertStep, RotateKeyStep,
       AliasCertStep, AliasKeyStep, RotateAnswerStep
  <1>5. CASE \E w \in Worker :
               \/ \E x \in External : \/ ReadExternalCert(w, x)
                                      \/ \E root \in Root \cup {"primary"}, retain \in BOOLEAN :
                                           MintExternal(w, x, root, retain)
               \/ RootDirectory(w) \/ RootCert(w) \/ RootKey(w)
               \/ ExternalCert(w) \/ ExternalKey(w) \/ ExternalAnswer(w) \/ SignExternal(w)
    BY <1>5, ReadExternalCertStep, MintExternalStep, RootDirectoryStep, RootCertStep, RootKeyStep,
       ExternalCertStep, ExternalKeyStep, ExternalAnswerStep, SignExternalStep
  <1>6. CASE \E r \in Intermediate : SignLeaf(r)
    BY <1>6, SignLeafStep
  <1>7. CASE Restart
    BY <1>7, RestartStep
  <1> QED BY <1>2, <1>3, <1>4, <1>5, <1>6, <1>7 DEF IntermediatesNext

\* The invariant has the property in it.
LEMMA FilesAreSound ==
  ASSUME KeysInv
  PROVE  KeyFilesSound
  <1>1. ChainsVerify
    BY DEF KeysInv, LeavesSound, ChainsVerify
  <1>2. ASSUME NEW r \in Intermediate, r \notin upset, Writers(r) = {}
        PROVE  alias[r] = pair[r]
    <2>1. \A w \in Worker : work[w].at \in RotateAts => work[w].of # r
      BY <1>2, WritersWrite DEF Writes
    <2> QED BY <1>2, <2>1 DEF KeysInv, RoleSound
  <1>3. AliasesInSync
    BY <1>2 DEF AliasesInSync
  <1>4. ASSUME NEW leaf \in leaves, leaf.of \notin upset, leaf.of \notin External
        PROVE  KeptWhole(leaf.of, leaf.by)
    <2>1. leaf.of \in Intermediate /\ leaf.by \in Signers(leaf.of)
      BY <1>4 DEF KeysInv, KeyFilesTyped, Issuer, Signers
    <2> QED BY <1>4, <2>1 DEF KeysInv, RoleSound
  <1>5. SignersAreKept
    BY <1>4 DEF SignersAreKept, KeptWhole, InArchive
  <1>6. RootsAreWhole
    BY DEF KeysInv, RootsSound, RootsAreWhole
  <1> QED BY <1>1, <1>3, <1>5, <1>6 DEF KeyFilesSound

\* And the types.
LEMMA KeysAreTyped ==
  ASSUME KeysInv
  PROVE  IntermediatesTypeOK
  <1>1. \A w \in Worker : work[w] = Resting \/ work[w] \in Rotation \/ work[w] \in Mint
                          \/ work[w] \in Reading
    BY DEF KeysInv, KeyFilesTyped, Places
  <1> QED BY <1>1, Zenon DEF KeysInv, KeyFilesTyped, IntermediatesTypeOK, Pairs, ArchivedPair, Rotation, Mint,
                 Reading, RotateAts, MintAts, Seconds

\* Where no two threads wrote the same name, every key that signed is whole in the files or
\* in the archive, in every state of a rotation or a mint.
THEOREM KeysInvariant == IntermediatesSpec => []KeysInv
  BY KeysInitially, KeysStep, PTL DEF IntermediatesSpec

\* Whatever the threads of the CA do at a time and wherever it restarts: leaves verify under
\* the certificate handed out with them, aliases are the role's own files, what signed is
\* kept, and an external intermediate hangs from a whole root; but for the names that two
\* threads wrote at a time or a crash cut off.
THEOREM KeyFilesStaySound == IntermediatesSpec => []KeyFilesSound
  BY KeysInvariant, FilesAreSound, PTL

-----------------------------------------------------------------------------
(* All the stores together                                                *)

\* The invariants of the five components.
StoresInv == EInv /\ WInv /\ AuditInv /\ KeysInv /\ RInv

\* Every variable of the five stores has its type in every state, whichever of
\* them moves.
THEOREM StoresTyped == CaStoresSpec => []CaStoresTypeOK
<1>1. CaStoresInit => StoresInv
  BY EInvInit, WInvInit, AuditInitially, KeysInitially, RInvInit DEF CaStoresInit, StoresInv
<1> DEFINE storesVars == <<focus, enrollmentVars, wireguardVars, auditVars, intermediatesVars,
                           crlVars, renewalVars>>
<1>2. StoresInv /\ [CaStoresNext]_storesVars => StoresInv'
  <2> SUFFICES ASSUME StoresInv, [CaStoresNext]_storesVars PROVE StoresInv'
    OBVIOUS
  <2>1. [EnrollmentNext]_enrollmentVars
    BY Zenon DEF CaStoresNext
  <2>2. [WireGuardNext]_wireguardVars
    BY Zenon DEF CaStoresNext
  <2>3. [AuditNext]_auditVars
    BY Zenon DEF CaStoresNext
  <2>4. [IntermediatesNext]_intermediatesVars
    BY Zenon DEF CaStoresNext
  <2>5. [RenewalNext]_renewalVars
    BY Zenon DEF CaStoresNext
  <2> QED
    BY <2>1, <2>2, <2>3, <2>4, <2>5, EInvStep, WInvStep, AuditStep, KeysStep, RInvStep
    DEF StoresInv
<1>3. StoresInv => CaStoresTypeOK
  <2>1. EInv => EnrollmentTypeOK
    BY DEF EInv
  <2>2. WInv => WireGuardTypeOK
    BY DEF WInv
  <2>3. AuditInv => AuditTypeOK
    BY AuditTyped
  <2>4. KeysInv => IntermediatesTypeOK
    BY KeysAreTyped
  <2>5. RInv => RenewalTypeOK
    BY DEF RInv, RTyped
  <2> QED
    BY <2>1, <2>2, <2>3, <2>4, <2>5 DEF StoresInv, CaStoresTypeOK
<1> QED
  BY <1>1, <1>2, <1>3, PTL DEF CaStoresSpec, storesVars
=============================================================================
