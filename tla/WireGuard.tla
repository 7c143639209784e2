------------------------------ MODULE WireGuard ------------------------------
(***************************************************************************)
(* The CA's WireGuard catalog (wireguard.py) and its admin handlers        *)
(* (admin.py).                                                             *)
(*                                                                         *)
(* A mutator reads the file, changes the catalog and replaces the file,    *)
(* all under the store's lock.  Queries take no lock, and two handlers     *)
(* read twice: a peer's config is rendered from a second read of its       *)
(* server, a server's from one read of the server and one of its peers.    *)
(* Addresses are host numbers: the offset from the network's start, the    *)
(* same in both families.  Keypairs are numbered as they are generated.    *)
(***************************************************************************)
EXTENDS Naturals, FiniteSets, Functions

CONSTANTS
  Interface,   \* names of WireGuard servers
  Peer,        \* names of peers
  Network,     \* [v4, v6 |-> the highest host number of each family, 0 without it]
  Thread,      \* request threads that read twice
  MaxKeypairs  \* bound: keypairs generated

ASSUME WireGuardAssumption ==
  /\ Network \subseteq [v4 : Nat, v6 : Nat]
  /\ \A net \in Network : net.v4 # 0 \/ net.v6 # 0
  /\ MaxKeypairs \in Nat

VARIABLES
  catalog,   \* the file: [servers |-> Interface -> record, peers |-> set]
  reading,   \* what a handler holds from its first read
  configs,   \* history: peer configs answered
  shown,     \* history: the server config answered last
  keypairs   \* history: how many keypairs were generated

wireguardVars == <<catalog, reading, configs, shown, keypairs>>

Keypair == 1..MaxKeypairs
ServerRecord == [net : Network, key : Keypair]

\* "under" is history: the keypair the server had when the peer was issued.
PeerRecord == [name : Peer, server : Interface, number : Nat, key : Keypair, under : Keypair]
Nobody == [at |-> "idle"]

\* Every variable has its type.
WireGuardTypeOK ==
  /\ catalog \in [servers : UNION {[S -> ServerRecord] : S \in SUBSET Interface},
                  peers : SUBSET PeerRecord]
  /\ \A t \in Thread :
       \/ reading[t] = Nobody
       \/ reading[t] \in [at : {"issued"}, peer : PeerRecord]
       \/ reading[t] \in [at : {"show"}, server : Interface, record : ServerRecord]
  /\ configs \subseteq [peer : PeerRecord, serverKey : Keypair]
  /\ shown \subseteq [serverKey : Keypair, peers : SUBSET PeerRecord]
  /\ keypairs \in 0..MaxKeypairs

WireGuardInit ==
  /\ catalog = [servers |-> [i \in {} |-> 0], peers |-> {}]
  /\ reading = [t \in Thread |-> Nobody]
  /\ configs = {}
  /\ shown = {}
  /\ keypairs = 0

Generate == keypairs < MaxKeypairs /\ keypairs' = keypairs + 1

-----------------------------------------------------------------------------
(* Mutators *)

\* server_init: it takes host number 1 of each of its networks.
ServerInit(i, net) ==
  /\ i \notin DOMAIN catalog.servers
  /\ Generate
  /\ catalog' = [catalog EXCEPT !.servers =
       [j \in DOMAIN @ \cup {i} |-> IF j = i THEN [net |-> net, key |-> keypairs'] ELSE @[j]]]
  /\ UNCHANGED <<reading, configs, shown>>

\* A bug: the peers of the server stay.
ServerRemoveAlone(i) ==
  /\ i \in DOMAIN catalog.servers
  /\ catalog' = [catalog EXCEPT !.servers = Restrict(@, DOMAIN @ \ {i})]
  /\ UNCHANGED <<reading, configs, shown, keypairs>>

\* server_remove takes the peers with it.
ServerRemove(i) ==
  /\ i \in DOMAIN catalog.servers
  /\ catalog' = [servers |-> Restrict(catalog.servers, DOMAIN catalog.servers \ {i}),
                 peers |-> {p \in catalog.peers : p.server # i}]
  /\ UNCHANGED <<reading, configs, shown, keypairs>>

PeersOf(i) == {p \in catalog.peers : p.server = i}
Numbers(i) == {p.number : p \in PeersOf(i)}

\* Counting the peers instead of looking for a gap.
NextNumber(i) ==
  {n \in {Cardinality(PeersOf(i)) + 2} : catalog.servers[i].net.v4 # 0 => n <= catalog.servers[i].net.v4}

\* The lowest free host number.  An IPv4 network ends, and an IPv6 network
\* alone is not looked at: the search has no end.
FreeNumber(i) ==
  LET used == {1} \cup Numbers(i)
      hosts == 1..(IF catalog.servers[i].net.v4 # 0 THEN catalog.servers[i].net.v4
                   ELSE Cardinality(used) + 1)
  IN {n \in hosts \ used : \A m \in hosts \ used : n <= m}

\* peer_issue; without a free number it is 507 and nothing is stored.
PeerIssue(t, n, i) ==
  /\ reading[t] = Nobody
  /\ i \in DOMAIN catalog.servers
  /\ \A p \in PeersOf(i) : p.name # n
  /\ Generate
  /\ \E number \in FreeNumber(i) :
       LET p == [name |-> n, server |-> i, number |-> number, key |-> keypairs',
                 under |-> catalog.servers[i].key]
       IN /\ catalog' = [catalog EXCEPT !.peers = @ \cup {p}]
          /\ reading' = [reading EXCEPT ![t] = [at |-> "issued", peer |-> p]]
  /\ UNCHANGED <<configs, shown>>

PeerRevoke(p) ==
  /\ p \in catalog.peers
  /\ catalog' = [catalog EXCEPT !.peers = @ \ {p}]
  /\ UNCHANGED <<reading, configs, shown, keypairs>>

-----------------------------------------------------------------------------
(* Handlers that read twice *)

\* wireguard_peer_issue goes on to server_get and render_peer_config.  A server
\* that is gone by now raises: 500, and the peer's private key is lost.
PeerConfig(t) ==
  /\ reading[t].at = "issued"
  /\ reading' = [reading EXCEPT ![t] = Nobody]
  /\ LET p == reading[t].peer
     IN configs' = IF p.server \in DOMAIN catalog.servers
                   THEN configs \cup {[peer |-> p, serverKey |-> catalog.servers[p.server].key]}
                   ELSE configs
  /\ UNCHANGED <<catalog, shown, keypairs>>

\* wireguard_server_show: server_get ...
ShowServer(t, i) ==
  /\ reading[t] = Nobody
  /\ i \in DOMAIN catalog.servers
  /\ reading' = [reading EXCEPT ![t] = [at |-> "show", server |-> i,
                                        record |-> catalog.servers[i]]]
  /\ UNCHANGED <<catalog, configs, shown, keypairs>>

\* ... then peer_list and render_server_config.
ShowPeers(t) ==
  /\ reading[t].at = "show"
  /\ reading' = [reading EXCEPT ![t] = Nobody]
  /\ shown' = {[serverKey |-> reading[t].record.key, peers |-> PeersOf(reading[t].server)]}
  /\ UNCHANGED <<catalog, configs, keypairs>>

WireGuardNext ==
  \/ \E i \in Interface : ServerRemove(i) \/ \E net \in Network : ServerInit(i, net)
  \/ \E p \in catalog.peers : PeerRevoke(p)
  \/ \E t \in Thread :
       \/ \E i \in Interface : ShowServer(t, i) \/ \E n \in Peer : PeerIssue(t, n, i)
       \/ PeerConfig(t) \/ ShowPeers(t)

WireGuardSpec == WireGuardInit /\ [][WireGuardNext]_wireguardVars

-----------------------------------------------------------------------------
(* Properties *)

\* One peer to an address: no two peers of a server share a host number, none
\* has the server's, and none lies outside its IPv4 network, over any sequence
\* of issues, revocations and servers that come again under an old name.
AddressesUnique ==
  \A p \in catalog.peers :
    /\ p.number # 1
    /\ \A q \in catalog.peers : q.server = p.server /\ q.number = p.number => q = p
    /\ p.server \in DOMAIN catalog.servers
         => LET hosts == catalog.servers[p.server].net.v4 IN hosts # 0 => p.number <= hosts

\* A config that was answered never joins a peer that is in the catalog to
\* another server than the one that lists it, although its server is read
\* again after the lock is released and may be a new one of the same name.
ConfigsReachTheirServer ==
  \A c \in configs : \A p \in catalog.peers :
    p.key = c.peer.key => /\ p.server \in DOMAIN catalog.servers
                          /\ c.serverKey = catalog.servers[p.server].key

\* The last server config shown, if it is still that of a server, lists none but
\* peers that were issued under its keypair: the server is read before its peers.
ShownPeersAreItsOwn ==
  \A s \in shown : \A i \in DOMAIN catalog.servers :
    catalog.servers[i].key = s.serverKey => \A p \in s.peers : p.under = s.serverKey

\* Neither handler that reads twice mixes two servers of one name.
ReadsAgree == ConfigsReachTheirServer /\ ShownPeersAreItsOwn

-----------------------------------------------------------------------------
(* A claim of the code that does not hold *)

\* "Raised when the network has no free IPs left": every address given out is
\* one of the server's networks.
AddressesInNetworks ==
  \A p \in catalog.peers : p.server \in DOMAIN catalog.servers =>
    LET net == catalog.servers[p.server].net
    IN /\ net.v4 # 0 => p.number <= net.v4
       /\ net.v6 # 0 => p.number <= net.v6
=============================================================================
