-------------------------- MODULE EnrollmentProofs --------------------------
(***************************************************************************)
(* What the enrollment store promises, for any number of handlers, names,  *)
(* changes and restarts, whether or not saves and audit entries fail.      *)
(***************************************************************************)
EXTENDS Enrollment, WellFoundedInduction, TLAPS

\* A store that may be in memory or in the file while the counter is at top.
Sound(store, top) ==
  /\ store \in Store
  /\ Superusers(store) # {}
  /\ \A p, q \in store.policies : p.id = q.id => p = q
  /\ \A p \in store.policies : p.id <= top
  /\ \A s \in Server : <<"server", s>> \in store.templates => s \in DOMAIN store.servers

\* What is saved is in the file before its handler audits it.
SavedIsDurable ==
  /\ \A h \in Handler : request[h].at = "saved" => request[h].change \in changes.disk
  /\ changes.disk \subseteq changes.mem

EInv ==
  /\ EnrollmentTypeOK
  /\ Sound(mem, policySeq) /\ Sound(disk, policySeq)
  /\ \A n \in handed : n <= policySeq
  /\ SavedIsDurable
  /\ AuditedIsDurable

LEMMA StoreParts ==
  ASSUME NEW store \in Store
  PROVE  /\ store = [servers |-> store.servers, admins |-> store.admins, users |-> store.users,
                     keys |-> store.keys, policies |-> store.policies, tools |-> store.tools,
                     templates |-> store.templates]
         /\ DOMAIN store.servers \subseteq Server
         /\ store.servers \in [DOMAIN store.servers -> SUBSET Group]
         /\ DOMAIN store.admins \subseteq Admin
         /\ store.admins \in [DOMAIN store.admins -> Role]
         /\ store.users \subseteq User /\ store.keys \subseteq User \X Key
         /\ store.policies \subseteq Policy /\ store.tools \subseteq Tool
         /\ store.templates \subseteq Scope
BY DEF Store

\* A store is a record of its seven maps.
LEMMA StoreIsRecord ==
  ASSUME NEW store \in Store
  PROVE  store = [servers |-> store.servers, admins |-> store.admins, users |-> store.users,
                  keys |-> store.keys, policies |-> store.policies, tools |-> store.tools,
                  templates |-> store.templates]
BY DEF Store

LEMMA StoreOf ==
  ASSUME NEW store, NEW S \in SUBSET Server, NEW A \in SUBSET Admin,
         store = [servers |-> store.servers, admins |-> store.admins, users |-> store.users,
                  keys |-> store.keys, policies |-> store.policies, tools |-> store.tools,
                  templates |-> store.templates],
         store.servers \in [S -> SUBSET Group],
         store.admins \in [A -> Role],
         store.users \subseteq User, store.keys \subseteq User \X Key,
         store.policies \subseteq Policy, store.tools \subseteq Tool,
         store.templates \subseteq Scope
  PROVE  store \in Store
<1>1. store.servers \in UNION {[T -> SUBSET Group] : T \in SUBSET Server}
  OBVIOUS
<1>2. store.admins \in UNION {[T -> Role] : T \in SUBSET Admin}
  OBVIOUS
<1>. QED  BY <1>1, <1>2 DEF Store

\* The highest of the numbers of a store is one of them.
LEMMA HighestOf ==
  ASSUME NEW P \in SUBSET Policy, NEW top \in Nat, \A p \in P : p.id <= top
  PROVE  HighestId(P) \in Nat /\ \A p \in P : p.id <= HighestId(P)
<1> DEFINE Bounds == {n \in Nat : \A p \in P : p.id <= n}
           R == {z \in Nat \X Nat : z[1] < z[2]}
<1>1. PICK m \in Bounds : \A n \in Bounds : ~(n < m)
  <2>1. IsWellFoundedOn(R, Nat)
    <3>1. R = OpToRel(<, Nat)
      BY Zenon DEF OpToRel
    <3>. QED  BY <3>1, NatLessThanWellFounded, Zenon
  <2>2. Bounds \subseteq Nat /\ Bounds # {}
    OBVIOUS
  <2>3. PICK m \in Bounds : \A n \in Bounds : ~(<<n, m>> \in R)
    <3>. HIDE DEF R, Bounds
    <3>. QED  BY <2>1, <2>2, WFMin
  <2>. QED  BY <2>2, <2>3
<1>2. \A p \in P : p.id \in Nat
  BY DEF Policy
<1>3. ASSUME P # {} PROVE \E p \in P : p.id = m
  <2>. SUFFICES ASSUME \A p \in P : p.id # m PROVE FALSE
    OBVIOUS
  <2>1. m - 1 \in Bounds
    BY <1>2, <1>3
  <2>. QED  BY <1>1, <2>1
<1>4. CASE P = {}
  BY <1>4 DEF HighestId
<1>5. CASE P # {}
  <2>1. \E n \in {p.id : p \in P} : \A p \in P : p.id <= n
    BY <1>1, <1>3, <1>5
  <2>. QED  BY <1>2, <1>5, <2>1 DEF HighestId
<1>. QED  BY <1>4, <1>5

LEMMA EInvInit == EnrollmentInit => EInv
<1>. SUFFICES ASSUME EnrollmentInit PROVE EInv
  OBVIOUS
<1>1. FirstStore.policies \subseteq Policy /\ \A p \in FirstStore.policies : p.id \in Nat
  BY FirstStoreAssumption, StoreParts DEF Policy
<1>2. policySeq \in Nat /\ \A p \in FirstStore.policies : p.id <= policySeq
  <2>1. CASE FirstStore.policies = {}
    BY <2>1 DEF EnrollmentInit, HighestId
  <2>2. CASE FirstStore.policies # {}
    <3>1. PICK p \in FirstStore.policies : \A q \in FirstStore.policies : q.id <= p.id
      BY <2>2, FirstStoreAssumption
    <3>. QED  BY <1>1, <2>2, <3>1 DEF EnrollmentInit, HighestId
  <2>. QED  BY <2>1, <2>2
<1>3. Sound(mem, policySeq) /\ Sound(disk, policySeq)
  BY <1>2, FirstStoreAssumption DEF EnrollmentInit, Sound
<1>4. EnrollmentTypeOK
  BY <1>1, <1>2, FirstStoreAssumption, EnrollmentAssumption DEF EnrollmentInit, EnrollmentTypeOK, Idle
<1>. QED
  BY <1>1, <1>2, <1>3, <1>4
  DEF EnrollmentInit, EInv, SavedIsDurable, AuditedIsDurable, Idle

-----------------------------------------------------------------------------
(* A change of the maps, saved or not *)

LEMMA CommitKeeps ==
  ASSUME EInv, NEW h \in Handler, NEW new, Commit(h, new),
         policySeq' \in Nat, policySeq <= policySeq', Sound(new, policySeq'),
         handed' \subseteq Nat, \A n \in handed' : n <= policySeq'
  PROVE  EInv'
<1>1. /\ made \in Nat /\ made < MaxChanges /\ made' = made + 1 /\ made' \in 1..MaxChanges
      /\ mem' = new /\ boots' = boots
  BY EnrollmentAssumption DEF EInv, EnrollmentTypeOK, Commit
<1>2. /\ request \in [Handler -> [at : {"idle", "checked", "saved"},
                                  family : {"none", "server", "user", "admin"},
                                  change : 0..MaxChanges]]
      /\ changes \in [mem : SUBSET (1..MaxChanges), disk : SUBSET (1..MaxChanges),
                      audited : SUBSET (1..MaxChanges)]
  BY DEF EInv, EnrollmentTypeOK
<1>3. Sound(mem', policySeq') /\ \A p \in mem'.policies : p.id <= policySeq'
  BY <1>1 DEF Sound
<1>4. Sound(disk, policySeq')
  <2>1. \A p \in disk.policies : p.id \in Nat
    BY StoreParts DEF EInv, Sound, Policy
  <2>. QED  BY <2>1 DEF EInv, Sound, EnrollmentTypeOK
<1>5. CASE SaveOK(h, new)
  <2>1. /\ changes'.mem = changes.mem \cup {made'}
        /\ changes'.disk = changes.mem \cup {made'}
        /\ changes'.audited = changes.audited
        /\ changes' \in [mem : SUBSET (1..MaxChanges), disk : SUBSET (1..MaxChanges),
                         audited : SUBSET (1..MaxChanges)]
    BY <1>1, <1>2, <1>5 DEF SaveOK
  <2>2. /\ request'[h].at = "saved" /\ request'[h].change = made'
        /\ \A g \in Handler \ {h} : request'[g] = request[g]
        /\ request' \in [Handler -> [at : {"idle", "checked", "saved"},
                                     family : {"none", "server", "user", "admin"},
                                     change : 0..MaxChanges]]
    <3>1. made' \in 0..MaxChanges /\ made + 1 = made'
      BY <1>1, EnrollmentAssumption
    <3> DEFINE r == [at |-> "saved", family |-> request[h].family, change |-> made']
    <3>2. r \in [at : {"idle", "checked", "saved"}, family : {"none", "server", "user", "admin"},
                 change : 0..MaxChanges]
      BY <1>2, <3>1
    <3>3. request' = [request EXCEPT ![h] = r]
      <4>1. request[h] = [at |-> request[h].at, family |-> request[h].family,
                          change |-> request[h].change]
        BY <1>2
      <4>2. /\ request'[h] = r
            /\ \A g \in Handler \ {h} : request'[g] = request[g]
            /\ request' = [g \in Handler |-> request'[g]]
        BY <1>2, <1>5, <3>1, <4>1 DEF SaveOK
      <4>. QED  BY <1>2, <4>2
    <3>. HIDE DEF r
    <3>4. r.at = "saved" /\ r.change = made'
      BY DEF r
    <3>. QED  BY <1>2, <3>2, <3>3, <3>4
  <2>3. SavedIsDurable' /\ AuditedIsDurable'
    BY <2>1, <2>2 DEF EInv, SavedIsDurable, AuditedIsDurable
  <2>4. Sound(disk', policySeq')
    BY <1>5 DEF SaveOK
  <2>5. EnrollmentTypeOK'
    BY <1>1, <1>3, <2>1, <2>2, <2>4 DEF EInv, EnrollmentTypeOK, Sound
  <2>. QED  BY <1>3, <2>3, <2>4, <2>5 DEF EInv
<1>6. CASE SaveRaises(h)
  <2>1. /\ changes'.mem = changes.mem \cup {made'}
        /\ changes'.disk = changes.disk
        /\ changes'.audited = changes.audited
        /\ changes' \in [mem : SUBSET (1..MaxChanges), disk : SUBSET (1..MaxChanges),
                         audited : SUBSET (1..MaxChanges)]
        /\ disk' = disk
    BY <1>1, <1>2, <1>6 DEF SaveRaises
  <2>2. /\ request'[h].at = "idle"
        /\ \A g \in Handler \ {h} : request'[g] = request[g]
        /\ request' \in [Handler -> [at : {"idle", "checked", "saved"},
                                     family : {"none", "server", "user", "admin"},
                                     change : 0..MaxChanges]]
    BY <1>2, <1>6, EnrollmentAssumption DEF SaveRaises, Idle
  <2>3. SavedIsDurable' /\ AuditedIsDurable'
    BY <2>1, <2>2 DEF EInv, SavedIsDurable, AuditedIsDurable
  <2>4. EnrollmentTypeOK'
    BY <1>1, <1>3, <2>1, <2>2 DEF EInv, EnrollmentTypeOK, Sound
  <2>. QED  BY <1>3, <1>4, <2>1, <2>3, <2>4 DEF EInv
<1>. QED  BY <1>5, <1>6 DEF Commit

LEMMA ChangeKeeps ==
  ASSUME EInv, NEW h \in Handler, NEW new, Change(h, new), Sound(new, policySeq)
  PROVE  EInv'
<1>1. /\ policySeq' = policySeq /\ handed' = handed /\ Commit(h, new)
      /\ policySeq \in Nat /\ handed \subseteq Nat /\ \A n \in handed : n <= policySeq
  BY DEF Change, EInv, EnrollmentTypeOK
<1>2. Sound(new, policySeq')
  BY <1>1
<1>. QED  BY <1>1, <1>2, CommitKeeps

-----------------------------------------------------------------------------
(* Each mutator makes a sound store of a sound one *)

\* The store with other users, keys, policies and tools.
Others(store, users, keys, policies, tools) ==
  [store EXCEPT !.users = users, !.keys = keys, !.policies = policies, !.tools = tools]

LEMMA OthersSound ==
  ASSUME NEW store, NEW top \in Nat, Sound(store, top),
         NEW users \in SUBSET User, NEW keys \in SUBSET (User \X Key),
         NEW policies \in SUBSET store.policies, NEW tools \in SUBSET Tool
  PROVE  Sound(Others(store, users, keys, policies, tools), top)
<1> DEFINE new == Others(store, users, keys, policies, tools)
<1>1. store \in Store
  BY DEF Sound
<1>2. new = [servers |-> store.servers, admins |-> store.admins, users |-> users,
             keys |-> keys, policies |-> policies, tools |-> tools,
             templates |-> store.templates]
  <2>1. store = [servers |-> store.servers, admins |-> store.admins, users |-> store.users,
                 keys |-> store.keys, policies |-> store.policies, tools |-> store.tools,
                 templates |-> store.templates]
    BY <1>1, StoreIsRecord
  <2> DEFINE s1 == [store EXCEPT !.users = users]
             s2 == [s1 EXCEPT !.keys = keys]
             s3 == [s2 EXCEPT !.policies = policies]
  <2>2. new = [s3 EXCEPT !.tools = tools]
    BY DEF Others
  <2>. QED  BY <2>1, <2>2
<1>. HIDE DEF new
<1>3. new \in Store
  BY <1>1, <1>2, StoreParts, StoreOf
<1>4. Superusers(new) = Superusers(store)
  BY <1>2 DEF Superusers
<1>5. Sound(new, top)
  BY <1>2, <1>3, <1>4 DEF Sound
<1>. QED  BY <1>5 DEF new

LEMMA TwoMaps ==
  ASSUME NEW store \in Store, NEW servers, NEW templates
  PROVE  [store EXCEPT !.servers = servers, !.templates = templates]
           = [servers |-> servers, admins |-> store.admins, users |-> store.users,
              keys |-> store.keys, policies |-> store.policies, tools |-> store.tools,
              templates |-> templates]
<1> DEFINE s1 == [store EXCEPT !.servers = servers]
<1>1. s1 = [servers |-> servers, admins |-> store.admins, users |-> store.users,
            keys |-> store.keys, policies |-> store.policies, tools |-> store.tools,
            templates |-> store.templates]
  BY StoreIsRecord
<1>2. [store EXCEPT !.servers = servers, !.templates = templates]
        = [s1 EXCEPT !.templates = templates]
  OBVIOUS
<1>. HIDE DEF s1
<1>. QED  BY <1>1, <1>2

LEMMA UsersOnly ==
  ASSUME NEW store \in Store, NEW users
  PROVE  [store EXCEPT !.users = users]
           = Others(store, users, store.keys, store.policies, store.tools)
<1> DEFINE s1 == [store EXCEPT !.users = users]
           s2 == [s1 EXCEPT !.keys = store.keys]
           s3 == [s2 EXCEPT !.policies = store.policies]
<1>1. Others(store, users, store.keys, store.policies, store.tools)
        = [s3 EXCEPT !.tools = store.tools]
  BY DEF Others
<1>. QED  BY <1>1, StoreIsRecord

LEMMA KeysOnly ==
  ASSUME NEW store \in Store, NEW keys
  PROVE  [store EXCEPT !.keys = keys]
           = Others(store, store.users, keys, store.policies, store.tools)
<1> DEFINE s1 == [store EXCEPT !.users = store.users]
           s2 == [s1 EXCEPT !.keys = keys]
           s3 == [s2 EXCEPT !.policies = store.policies]
<1>1. Others(store, store.users, keys, store.policies, store.tools)
        = [s3 EXCEPT !.tools = store.tools]
  BY DEF Others
<1>. QED  BY <1>1, StoreIsRecord

LEMMA PoliciesOnly ==
  ASSUME NEW store \in Store, NEW policies
  PROVE  [store EXCEPT !.policies = policies]
           = Others(store, store.users, store.keys, policies, store.tools)
<1> DEFINE s1 == [store EXCEPT !.users = store.users]
           s2 == [s1 EXCEPT !.keys = store.keys]
           s3 == [s2 EXCEPT !.policies = policies]
<1>1. Others(store, store.users, store.keys, policies, store.tools)
        = [s3 EXCEPT !.tools = store.tools]
  BY DEF Others
<1>. QED  BY <1>1, StoreIsRecord

LEMMA ToolsOnly ==
  ASSUME NEW store \in Store, NEW tools
  PROVE  [store EXCEPT !.tools = tools]
           = Others(store, store.users, store.keys, store.policies, tools)
<1> DEFINE s1 == [store EXCEPT !.users = store.users]
           s2 == [s1 EXCEPT !.keys = store.keys]
           s3 == [s2 EXCEPT !.policies = store.policies]
<1>1. Others(store, store.users, store.keys, store.policies, tools)
        = [s3 EXCEPT !.tools = tools]
  BY DEF Others
<1>. QED  BY <1>1, StoreIsRecord

LEMMA UserRecord ==
  ASSUME NEW store \in Store, NEW users, NEW keys, NEW policies
  PROVE  [store EXCEPT !.users = users, !.keys = keys, !.policies = policies]
           = Others(store, users, keys, policies, store.tools)
<1> DEFINE s1 == [store EXCEPT !.users = users]
           s2 == [s1 EXCEPT !.keys = keys]
           s3 == [s2 EXCEPT !.policies = policies]
<1>1. Others(store, users, keys, policies, store.tools) = [s3 EXCEPT !.tools = store.tools]
  BY DEF Others
<1>2. [store EXCEPT !.users = users, !.keys = keys, !.policies = policies] = s3
  OBVIOUS
<1>. QED  BY <1>1, <1>2, StoreIsRecord

\* A sound store stays sound while the counter grows.
LEMMA Later ==
  ASSUME NEW store \in Store, NEW m \in Nat, NEW n \in Nat, m <= n, Sound(store, m)
  PROVE  Sound(store, n)
<1>1. \A p \in store.policies : p.id \in Nat
  BY StoreParts DEF Policy
<1>. QED  BY <1>1 DEF Sound

LEMMA ServerStep ==
  ASSUME EInv, NEW h \in Handler, ServerNext(h)
  PROVE  EInv'
<1>1. mem \in Store /\ Sound(mem, policySeq)
  BY DEF EInv, Sound
<1>2. ASSUME NEW s \in Server, RemoveServer(h, s) PROVE EInv'
  <2> DEFINE new == [mem EXCEPT !.servers = Restrict(@, DOMAIN @ \ {s}),
                                !.templates = @ \ {<<"server", s>>}]
  <2>1. new = [servers |-> [t \in DOMAIN mem.servers \ {s} |-> mem.servers[t]],
               admins |-> mem.admins, users |-> mem.users, keys |-> mem.keys,
               policies |-> mem.policies, tools |-> mem.tools,
               templates |-> mem.templates \ {<<"server", s>>}]
    <3>1. Restrict(mem.servers, DOMAIN mem.servers \ {s})
            = [t \in DOMAIN mem.servers \ {s} |-> mem.servers[t]]
      BY DEF Restrict
    <3>2. new = [servers |-> Restrict(mem.servers, DOMAIN mem.servers \ {s}),
                 admins |-> mem.admins, users |-> mem.users, keys |-> mem.keys,
                 policies |-> mem.policies, tools |-> mem.tools,
                 templates |-> mem.templates \ {<<"server", s>>}]
      BY <1>1, TwoMaps
    <3>. QED  BY <3>1, <3>2
  <2>2. Change(h, new)
    BY <1>2 DEF RemoveServer
  <2>. HIDE DEF new
  <2>3. new.servers \in [DOMAIN mem.servers \ {s} -> SUBSET Group]
    BY <1>1, <2>1, StoreParts
  <2>4. new \in Store
    BY <1>1, <2>1, <2>3, StoreParts, StoreOf
  <2>5. Sound(new, policySeq)
    BY <1>1, <2>1, <2>4 DEF Sound, Superusers
  <2>. QED  BY <2>2, <2>5, ChangeKeeps
<1>3. ASSUME NEW s \in Server, NEW g \in SUBSET Group, AddServer(h, s, g) PROVE EInv'
  <2> DEFINE new == [mem EXCEPT !.servers =
                       [t \in DOMAIN @ \cup {s} |-> IF t = s THEN g ELSE @[t]]]
  <2>1. new = [servers |-> [t \in DOMAIN mem.servers \cup {s} |->
                              IF t = s THEN g ELSE mem.servers[t]],
               admins |-> mem.admins, users |-> mem.users, keys |-> mem.keys,
               policies |-> mem.policies, tools |-> mem.tools, templates |-> mem.templates]
    BY <1>1, StoreParts
  <2>2. Change(h, new)
    BY <1>3 DEF AddServer
  <2>. HIDE DEF new
  <2>3. /\ new.servers \in [DOMAIN mem.servers \cup {s} -> SUBSET Group]
        /\ DOMAIN mem.servers \cup {s} \in SUBSET Server
    BY <1>1, <2>1, StoreParts
  <2>4. new \in Store
    BY <1>1, <2>1, <2>3, StoreParts, StoreOf
  <2>5. Sound(new, policySeq)
    BY <1>1, <2>1, <2>4 DEF Sound, Superusers
  <2>. QED  BY <2>2, <2>5, ChangeKeeps
<1>4. ASSUME NEW s \in Server, NEW g \in SUBSET Group, SetServerGroups(h, s, g) PROVE EInv'
  <2> DEFINE new == [mem EXCEPT !.servers[s] = g]
  <2>1. new = [servers |-> [mem.servers EXCEPT ![s] = g],
               admins |-> mem.admins, users |-> mem.users, keys |-> mem.keys,
               policies |-> mem.policies, tools |-> mem.tools, templates |-> mem.templates]
    BY <1>1, StoreParts
  <2>2. Change(h, new)
    BY <1>4 DEF SetServerGroups
  <2>. HIDE DEF new
  <2>3. new.servers \in [DOMAIN mem.servers -> SUBSET Group]
    BY <1>1, <2>1, StoreParts
  <2>4. new \in Store
    BY <1>1, <2>1, <2>3, StoreParts, StoreOf
  <2>5. Sound(new, policySeq)
    BY <1>1, <2>1, <2>3, <2>4 DEF Sound, Superusers
  <2>. QED  BY <2>2, <2>5, ChangeKeeps
<1>5. ASSUME NEW scope \in Scope, SetTemplate(h, scope) \/ UnsetTemplate(h, scope) PROVE EInv'
  <2> DEFINE new(T) == [mem EXCEPT !.templates = T]
  <2>1. ASSUME NEW T \in SUBSET Scope,
               \A s \in Server : <<"server", s>> \in T => s \in DOMAIN mem.servers
        PROVE  Sound(new(T), policySeq)
    <3>1. new(T) = [servers |-> mem.servers, admins |-> mem.admins, users |-> mem.users,
                    keys |-> mem.keys, policies |-> mem.policies, tools |-> mem.tools,
                    templates |-> T]
      BY <1>1, StoreParts
    <3>. HIDE DEF new
    <3>2. new(T) \in Store
      BY <1>1, <2>1, <3>1, StoreParts, StoreOf
    <3>. QED  BY <1>1, <2>1, <3>1, <3>2 DEF Sound, Superusers
  <2>2. CASE SetTemplate(h, scope)
    <3>1. Change(h, new(mem.templates \cup {scope}))
      BY <2>2 DEF SetTemplate
    <3>2. Sound(new(mem.templates \cup {scope}), policySeq)
      <4>. HIDE DEF new
      <4>1. ASSUME NEW s \in Server, <<"server", s>> \in mem.templates \cup {scope}
            PROVE  s \in DOMAIN mem.servers
        <5>1. CASE <<"server", s>> = scope
          BY <2>2, <5>1 DEF SetTemplate
        <5>2. CASE <<"server", s>> \in mem.templates
          BY <1>1, <5>2 DEF Sound
        <5>. QED  BY <4>1, <5>1, <5>2
      <4>2. mem.templates \cup {scope} \subseteq Scope
        BY <1>1, StoreParts
      <4>. QED  BY <2>1, <4>1, <4>2
    <3>. QED  BY <3>1, <3>2, ChangeKeeps
  <2>3. CASE UnsetTemplate(h, scope)
    <3>1. Change(h, new(mem.templates \ {scope}))
      BY <2>3 DEF UnsetTemplate
    <3>2. Sound(new(mem.templates \ {scope}), policySeq)
      <4>. HIDE DEF new
      <4>. QED  BY <1>1, <2>1, StoreParts DEF Sound
    <3>. QED  BY <3>1, <3>2, ChangeKeeps
  <2>. QED  BY <1>5, <2>2, <2>3
<1>. QED  BY <1>2, <1>3, <1>4, <1>5 DEF ServerNext

\* A policy takes the number after the highest given out.
LEMMA PolicySound ==
  ASSUME NEW store, NEW top \in Nat, Sound(store, top),
         NEW u \in User, NEW ref \in Reference
  PROVE  Sound([store EXCEPT !.policies = @ \cup {[id |-> top + 1, user |-> u, on |-> ref]}],
               top + 1)
<1> DEFINE p == [id |-> top + 1, user |-> u, on |-> ref]
           new == [store EXCEPT !.policies = @ \cup {p}]
<1>1. store \in Store
  BY DEF Sound
<1>2. new = [servers |-> store.servers, admins |-> store.admins, users |-> store.users,
             keys |-> store.keys, policies |-> store.policies \cup {p}, tools |-> store.tools,
             templates |-> store.templates]
  BY <1>1, StoreIsRecord
<1>3. p \in Policy /\ p.id = top + 1
  BY DEF Policy
<1>. HIDE DEF new, p
<1>4. \A q \in store.policies : q.id \in Nat /\ q.id <= top
  BY <1>1, StoreParts DEF Sound, Policy
<1>5. new \in Store
  BY <1>1, <1>2, <1>3, StoreParts, StoreOf
<1>6. Superusers(new) = Superusers(store)
  BY <1>2 DEF Superusers
<1>7. \A q, r \in new.policies : q.id = r.id => q = r
  BY <1>2, <1>3, <1>4 DEF Sound
<1>8. \A q \in new.policies : q.id <= top + 1
  BY <1>2, <1>3, <1>4
<1>9. Sound(new, top + 1)
  BY <1>2, <1>5, <1>6, <1>7, <1>8 DEF Sound
<1>. QED  BY <1>9 DEF new, p

LEMMA UserStep ==
  ASSUME EInv, NEW h \in Handler, UserNext(h)
  PROVE  EInv'
<1>1. mem \in Store /\ Sound(mem, policySeq) /\ policySeq \in Nat
  BY DEF EInv, Sound, EnrollmentTypeOK
<1>2. ASSUME NEW users \in SUBSET User, NEW keys \in SUBSET (User \X Key),
             NEW policies \in SUBSET mem.policies,
             Change(h, Others(mem, users, keys, policies, mem.tools))
      PROVE  EInv'
  BY <1>1, <1>2, OthersSound, StoreParts, ChangeKeeps
<1>3. ASSUME NEW u \in User, AddUser(h, u) PROVE EInv'
  <2>1. Change(h, Others(mem, mem.users \cup {u}, mem.keys, mem.policies, mem.tools))
    BY <1>1, <1>3, UsersOnly DEF AddUser
  <2>. QED  BY <1>1, <1>2, <2>1, StoreParts
<1>4. ASSUME NEW u \in User, RemoveUser(h, u) PROVE EInv'
  <2> DEFINE keys == {k \in mem.keys : k[1] # u}
             policies == {p \in mem.policies : p.user # u}
  <2>1. Change(h, Others(mem, mem.users \ {u}, keys, policies, mem.tools))
    BY <1>1, <1>4, UserRecord DEF RemoveUser
  <2>2. keys \subseteq User \X Key /\ policies \subseteq mem.policies
    BY <1>1, StoreParts
  <2>. QED  BY <1>1, <1>2, <2>1, <2>2, StoreParts
<1>5. ASSUME NEW u \in User, NEW k \in Key, AddUserKey(h, u, k) PROVE EInv'
  <2>1. Change(h, Others(mem, mem.users, mem.keys \cup {<<u, k>>}, mem.policies, mem.tools))
    BY <1>1, <1>5, KeysOnly DEF AddUserKey
  <2>2. mem.keys \cup {<<u, k>>} \subseteq User \X Key
    BY <1>1, StoreParts
  <2>. QED  BY <1>1, <1>2, <2>1, <2>2, StoreParts
<1>6. ASSUME NEW u \in User, NEW k \in Key, RemoveUserKey(h, u, k) PROVE EInv'
  <2>1. Change(h, Others(mem, mem.users, mem.keys \ {<<u, k>>}, mem.policies, mem.tools))
    BY <1>1, <1>6, KeysOnly DEF RemoveUserKey
  <2>. QED  BY <1>1, <1>2, <2>1, StoreParts
<1>7. ASSUME NEW id, RemovePolicy(h, id) PROVE EInv'
  <2> DEFINE policies == {p \in mem.policies : p.id # id}
  <2>1. Change(h, Others(mem, mem.users, mem.keys, policies, mem.tools))
    BY <1>1, <1>7, PoliciesOnly DEF RemovePolicy
  <2>. QED  BY <1>1, <1>2, <2>1, StoreParts
<1>8. ASSUME NEW u \in User, NEW ref \in Reference, AddPolicy(h, u, ref) PROVE EInv'
  <2>1. policySeq' = policySeq + 1 /\ handed \subseteq Nat /\ \A n \in handed : n <= policySeq
    BY <1>8 DEF AddPolicy, EInv, EnrollmentTypeOK
  <2> DEFINE new == [mem EXCEPT !.policies = @ \cup {[id |-> policySeq', user |-> u, on |-> ref]}]
  <2>2. Sound(new, policySeq')
    BY <1>1, <2>1, PolicySound
  <2>3. CASE Commit(h, new) /\ handed' = handed \cup {policySeq'}
    <3>. HIDE DEF new
    <3>1. /\ policySeq' \in Nat /\ policySeq <= policySeq'
          /\ handed' \subseteq Nat /\ \A n \in handed' : n <= policySeq'
      BY <1>1, <2>1, <2>3
    <3>. QED  BY <2>2, <2>3, <3>1, CommitKeeps
  <2>4. CASE /\ request' = [request EXCEPT ![h] = Idle]
             /\ UNCHANGED <<mem, disk, handed, changes, made, boots>>
    <3>1. Sound(mem', policySeq') /\ Sound(disk', policySeq')
      <4>1. disk \in Store /\ Sound(disk, policySeq)
        BY DEF EInv, Sound
      <4>. QED  BY <1>1, <2>1, <2>4, <4>1, Later
    <3>2. EnrollmentTypeOK' /\ \A n \in handed' : n <= policySeq'
      <4>1. \A p \in mem'.policies : p.id <= policySeq'
        BY <3>1 DEF Sound
      <4>2. Idle \in [at : {"idle", "checked", "saved"},
                      family : {"none", "server", "user", "admin"}, change : 0..MaxChanges]
        BY EnrollmentAssumption DEF Idle
      <4>. QED  BY <1>1, <2>1, <2>4, <4>1, <4>2 DEF EInv, EnrollmentTypeOK
    <3>3. SavedIsDurable' /\ AuditedIsDurable'
      BY <2>4 DEF EInv, SavedIsDurable, AuditedIsDurable, EnrollmentTypeOK, Idle
    <3>. QED  BY <3>1, <3>2, <3>3 DEF EInv
  <2>. QED  BY <1>8, <2>3, <2>4 DEF AddPolicy
<1>. QED  BY <1>3, <1>4, <1>5, <1>6, <1>7, <1>8 DEF UserNext

\* The store with other admins.
LEMMA AdminsOnly ==
  ASSUME NEW store \in Store, NEW admins
  PROVE  [store EXCEPT !.admins = admins]
           = [servers |-> store.servers, admins |-> admins, users |-> store.users,
              keys |-> store.keys, policies |-> store.policies, tools |-> store.tools,
              templates |-> store.templates]
BY StoreIsRecord

LEMMA AdminsSound ==
  ASSUME NEW store, NEW top \in Nat, Sound(store, top),
         NEW A \in SUBSET Admin, NEW admins \in [A -> Role],
         \E a \in A : admins[a] = "superuser"
  PROVE  Sound([store EXCEPT !.admins = admins], top)
<1> DEFINE new == [store EXCEPT !.admins = admins]
<1>1. store \in Store
  BY DEF Sound
<1>2. new = [servers |-> store.servers, admins |-> admins, users |-> store.users,
             keys |-> store.keys, policies |-> store.policies, tools |-> store.tools,
             templates |-> store.templates]
  BY <1>1, AdminsOnly
<1>. HIDE DEF new
<1>3. new \in Store
  BY <1>1, <1>2, StoreParts, StoreOf
<1>4. Superusers(new) # {}
  BY <1>2 DEF Superusers
<1>5. Sound(new, top)
  BY <1>2, <1>3, <1>4 DEF Sound
<1>. QED  BY <1>5 DEF new

LEMMA AdminStep ==
  ASSUME EInv, NEW h \in Handler, AdminNext(h)
  PROVE  EInv'
<1>1. /\ mem \in Store /\ Sound(mem, policySeq) /\ policySeq \in Nat
      /\ DOMAIN mem.admins \subseteq Admin /\ mem.admins \in [DOMAIN mem.admins -> Role]
  BY StoreParts DEF EInv, Sound, EnrollmentTypeOK
<1>2. ASSUME NEW a \in Admin, RemoveAdmin(h, a) PROVE EInv'
  <2> DEFINE admins == [b \in DOMAIN mem.admins \ {a} |-> mem.admins[b]]
  <2>1. Change(h, [mem EXCEPT !.admins = admins])
    BY <1>2 DEF RemoveAdmin, Restrict
  <2>2. \E b \in DOMAIN mem.admins \ {a} : mem.admins[b] = "superuser"
    <3>1. CASE mem.admins[a] = "superuser"
      BY <1>2, <3>1 DEF RemoveAdmin, NotTheLast, Superusers
    <3>2. CASE mem.admins[a] # "superuser"
      BY <1>1, <3>2 DEF Sound, Superusers
    <3>. QED  BY <3>1, <3>2
  <2>3. Sound([mem EXCEPT !.admins = admins], policySeq)
    <3>1. admins \in [DOMAIN mem.admins \ {a} -> Role]
      BY <1>1
    <3>2. \E b \in DOMAIN mem.admins \ {a} : admins[b] = "superuser"
      BY <2>2
    <3>. HIDE DEF admins
    <3>. QED  BY <1>1, <3>1, <3>2, AdminsSound
  <2>. HIDE DEF admins
  <2>. QED  BY <2>1, <2>3, ChangeKeeps
<1>3. ASSUME NEW a \in Admin, NEW role \in Role, AddAdmin(h, a, role) PROVE EInv'
  <2> DEFINE admins == [b \in DOMAIN mem.admins \cup {a} |-> IF b = a THEN role ELSE mem.admins[b]]
  <2>1. Change(h, [mem EXCEPT !.admins = admins]) /\ a \notin DOMAIN mem.admins
    BY <1>3 DEF AddAdmin
  <2>2. Sound([mem EXCEPT !.admins = admins], policySeq)
    <3>1. admins \in [DOMAIN mem.admins \cup {a} -> Role]
      BY <1>1
    <3>2. \E b \in DOMAIN mem.admins \cup {a} : admins[b] = "superuser"
      BY <1>1, <2>1 DEF Sound, Superusers
    <3>. HIDE DEF admins
    <3>. QED  BY <1>1, <3>1, <3>2, AdminsSound
  <2>. HIDE DEF admins
  <2>. QED  BY <2>1, <2>2, ChangeKeeps
<1>4. ASSUME NEW t \in Tool, AddTool(h, t) \/ RemoveTool(h, t) PROVE EInv'
  <2>1. PICK tools \in SUBSET Tool : Change(h, [mem EXCEPT !.tools = tools])
    BY <1>1, <1>4, StoreParts DEF AddTool, RemoveTool
  <2>2. Sound([mem EXCEPT !.tools = tools], policySeq)
    BY <1>1, ToolsOnly, OthersSound, StoreParts
  <2>. QED  BY <2>1, <2>2, ChangeKeeps
<1>. QED  BY <1>2, <1>3, <1>4 DEF AdminNext

-----------------------------------------------------------------------------
(* The steps that leave the maps alone, and the restart *)

LEMMA RequestStep ==
  ASSUME EInv, NEW h \in Handler,
         \/ \E family \in {"server", "user", "admin"} : Begin(h, family)
         \/ Refuse(h)
         \/ Answer(h)
  PROVE  EInv'
<1>1. /\ UNCHANGED <<mem, policySeq, disk, handed, made, boots>>
      /\ Sound(mem', policySeq') /\ Sound(disk', policySeq')
      /\ \A n \in handed' : n <= policySeq'
  BY DEF EInv, Begin, Refuse, Answer
<1>2. /\ request \in [Handler -> [at : {"idle", "checked", "saved"},
                                  family : {"none", "server", "user", "admin"},
                                  change : 0..MaxChanges]]
      /\ changes \in [mem : SUBSET (1..MaxChanges), disk : SUBSET (1..MaxChanges),
                      audited : SUBSET (1..MaxChanges)]
  BY DEF EInv, EnrollmentTypeOK
<1>3. ASSUME NEW family \in {"server", "user", "admin"}, Begin(h, family) PROVE EInv'
  <2>1. /\ request' \in [Handler -> [at : {"idle", "checked", "saved"},
                                     family : {"none", "server", "user", "admin"},
                                     change : 0..MaxChanges]]
        /\ request'[h].at = "checked" /\ \A g \in Handler \ {h} : request'[g] = request[g]
        /\ changes' = changes
    BY <1>2, <1>3 DEF Begin
  <2>. QED
    BY <1>1, <2>1 DEF EInv, EnrollmentTypeOK, SavedIsDurable, AuditedIsDurable
<1>4. Idle \in [at : {"idle", "checked", "saved"}, family : {"none", "server", "user", "admin"},
                change : 0..MaxChanges]
  BY EnrollmentAssumption DEF Idle
<1>5. CASE Refuse(h)
  <2>1. /\ request' = [request EXCEPT ![h] = Idle]
        /\ changes' = changes
    BY <1>5 DEF Refuse
  <2>. QED
    BY <1>1, <1>2, <1>4, <2>1
    DEF EInv, EnrollmentTypeOK, SavedIsDurable, AuditedIsDurable, Idle
<1>6. CASE Answer(h)
  <2>1. /\ request' = [request EXCEPT ![h] = Idle]
        /\ request[h].at = "saved" /\ request[h].change \in changes.disk
        /\ \/ changes' = changes
           \/ changes' = [changes EXCEPT !.audited = @ \cup {request[h].change}]
    BY <1>6 DEF Answer, EInv, SavedIsDurable
  <2>2. /\ changes'.mem = changes.mem /\ changes'.disk = changes.disk
        /\ changes'.audited \subseteq changes.audited \cup {request[h].change}
        /\ changes' \in [mem : SUBSET (1..MaxChanges), disk : SUBSET (1..MaxChanges),
                         audited : SUBSET (1..MaxChanges)]
    BY <1>2, <2>1
  <2>. QED
    BY <1>1, <1>2, <1>4, <2>1, <2>2
    DEF EInv, EnrollmentTypeOK, SavedIsDurable, AuditedIsDurable, Idle
<1>. QED  BY <1>3, <1>5, <1>6

LEMMA RebootStep ==
  ASSUME EInv, Reboot
  PROVE  EInv'
<1>1. disk \in Store /\ Sound(disk, policySeq) /\ policySeq \in Nat
  BY DEF EInv, Sound, EnrollmentTypeOK
<1>2. disk.policies \subseteq Policy /\ \A p \in disk.policies : p.id \in Nat /\ p.id <= policySeq
  BY <1>1, StoreParts DEF Sound, Policy
<1>3. policySeq' \in Nat /\ \A p \in disk.policies : p.id <= policySeq'
  BY <1>1, <1>2, HighestOf DEF Reboot
<1>4. Sound(disk, policySeq')
  BY <1>1, <1>3 DEF Sound
<1>5. mem' = disk /\ disk' = disk /\ handed' = {p.id : p \in disk.policies}
  BY DEF Reboot
<1>6. /\ changes'.mem = changes.disk /\ changes'.disk = changes.disk
      /\ changes'.audited = changes.audited
      /\ changes' \in [mem : SUBSET (1..MaxChanges), disk : SUBSET (1..MaxChanges),
                       audited : SUBSET (1..MaxChanges)]
  BY DEF Reboot, EInv, EnrollmentTypeOK
<1>7. request' = [h \in Handler |-> Idle]
      /\ Idle \in [at : {"idle", "checked", "saved"},
                   family : {"none", "server", "user", "admin"}, change : 0..MaxChanges]
  BY EnrollmentAssumption DEF Reboot, Idle
<1>8. EnrollmentTypeOK'
  <2>1. boots' \in 0..MaxBoots /\ made' \in 0..MaxChanges
    BY EnrollmentAssumption DEF Reboot, EInv, EnrollmentTypeOK
  <2>. QED  BY <1>1, <1>2, <1>3, <1>5, <1>6, <1>7, <2>1 DEF EnrollmentTypeOK
<1>9. SavedIsDurable' /\ AuditedIsDurable'
  BY <1>6, <1>7 DEF EInv, SavedIsDurable, AuditedIsDurable, Idle
<1>10. \A n \in handed' : n <= policySeq'
  BY <1>3, <1>5
<1>. QED  BY <1>4, <1>5, <1>8, <1>9, <1>10 DEF EInv

LEMMA EInvStep == EInv /\ [EnrollmentNext]_enrollmentVars => EInv'
<1>. SUFFICES ASSUME EInv, [EnrollmentNext]_enrollmentVars PROVE EInv'
  OBVIOUS
<1>1. CASE UNCHANGED enrollmentVars
  BY <1>1 DEF enrollmentVars, EInv, EnrollmentTypeOK, SavedIsDurable, AuditedIsDurable
<1>. QED
  BY <1>1, RequestStep, ServerStep, UserStep, AdminStep, RebootStep DEF EnrollmentNext

-----------------------------------------------------------------------------
(* Theorems *)

\* The maps, the counter and the requests keep their types (enrollment.py).
THEOREM EnrollmentTyped == EnrollmentSpec => []EnrollmentTypeOK
<1>1. EInv => EnrollmentTypeOK
  BY DEF EInv
<1>. QED  BY <1>1, EInvInit, EInvStep, PTL DEF EnrollmentSpec

\* Memory and the file each hold a superuser, whatever admins do to each other,
\* whichever saves raise and whenever the CA restarts (remove_admin).
THEOREM SuperuserStays == EnrollmentSpec => []SuperuserRemains
<1>1. EInv => SuperuserRemains
  BY DEF EInv, Sound, SuperuserRemains
<1>. QED  BY <1>1, EInvInit, EInvStep, PTL DEF EnrollmentSpec

\* Policy ids are unique, overrides belong to enrolled servers, and what was
\* audited is in the file (add_policy, remove_server, save, _audit_admin).
THEOREM StoresStayConsistent == EnrollmentSpec => []StoresConsistent
<1>1. EInv => StoresConsistent
  BY DEF EInv, Sound, StoresConsistent, PolicyIdsUnique, TemplatesNeedServer
<1>. QED  BY <1>1, EInvInit, EInvStep, PTL DEF EnrollmentSpec

\* Until the next restart no number is given out twice, whatever is removed and
\* whichever saves raise (add_policy's counter).
THEOREM NumbersNotReused == EnrollmentSpec => PolicyIdsNotReused
<1>1. ASSUME EInv, EnrollmentNext, NEW p \in mem'.policies \ mem.policies, boots' = boots
      PROVE  p.id \notin handed
  <2>1. mem \in Store /\ mem = [servers |-> mem.servers, admins |-> mem.admins,
                                users |-> mem.users, keys |-> mem.keys,
                                policies |-> mem.policies, tools |-> mem.tools,
                                templates |-> mem.templates]
    BY <1>1, StoreIsRecord DEF EInv, Sound
  <2>2. policySeq \in Nat /\ handed \subseteq Nat /\ \A n \in handed : n <= policySeq
    BY <1>1 DEF EInv, EnrollmentTypeOK
  <2>3. ASSUME NEW h \in Handler, ServerNext(h) PROVE FALSE
    BY <1>1, <2>1, <2>3
    DEF ServerNext, RemoveServer, AddServer, SetServerGroups, SetTemplate, UnsetTemplate,
        Change, Commit
  <2>4. ASSUME NEW h \in Handler, AdminNext(h) PROVE FALSE
    BY <1>1, <2>1, <2>4 DEF AdminNext, RemoveAdmin, AddAdmin, AddTool, RemoveTool, Change, Commit
  <2>5. ASSUME NEW h \in Handler, UserNext(h) PROVE p.id \notin handed
    <3>1. ASSUME NEW u \in User, NEW ref \in Reference, AddPolicy(h, u, ref)
          PROVE  p.id \notin handed
      <4>1. p.id = policySeq + 1
        BY <1>1, <2>1, <3>1 DEF AddPolicy, Commit
      <4>. QED  BY <2>2, <4>1
    <3>2. ASSUME NEW u \in User, NEW k \in Key,
                 AddUserKey(h, u, k) \/ RemoveUserKey(h, u, k)
          PROVE  FALSE
      BY <1>1, <2>1, <3>2 DEF AddUserKey, RemoveUserKey, Change, Commit
    <3>3. ASSUME NEW u \in User, AddUser(h, u) \/ RemoveUser(h, u) PROVE FALSE
      BY <1>1, <2>1, <3>3 DEF AddUser, RemoveUser, Change, Commit
    <3>4. ASSUME NEW id, RemovePolicy(h, id) PROVE FALSE
      BY <1>1, <2>1, <3>4 DEF RemovePolicy, Change, Commit
    <3>. QED  BY <2>5, <3>1, <3>2, <3>3, <3>4 DEF UserNext
  <2>6. ASSUME NEW h \in Handler,
               \/ \E family \in {"server", "user", "admin"} : Begin(h, family)
               \/ Refuse(h) \/ Answer(h)
        PROVE  FALSE
    BY <1>1, <2>6 DEF Begin, Refuse, Answer
  <2>7. CASE Reboot
    BY <1>1, <2>7 DEF Reboot, EInv, EnrollmentTypeOK
  <2>. QED  BY <1>1, <2>3, <2>4, <2>5, <2>6, <2>7 DEF EnrollmentNext
<1>2. EInv /\ [EnrollmentNext]_enrollmentVars =>
        [\A p \in mem'.policies \ mem.policies : boots' = boots => p.id \notin handed]_enrollmentVars
  BY <1>1
<1>. QED  BY <1>2, EInvInit, EInvStep, PTL DEF EnrollmentSpec, PolicyIdsNotReused
=============================================================================
