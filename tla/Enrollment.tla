------------------------------ MODULE Enrollment ------------------------------
(***************************************************************************)
(* The CA's enrollment store (enrollment.py) and the admin handlers that   *)
(* change it (admin.py, templates.py, routed by server.py).                *)
(*                                                                         *)
(* The server is threaded.  A handler looks up its admin and checks the    *)
(* role, then changes the maps and saves them under the store's lock, then *)
(* writes an audit entry and answers: three steps, between which others    *)
(* run.  save() replaces the whole file, and may raise after the maps in   *)
(* memory have changed.  A change is named by a number of its own.         *)
(***************************************************************************)
EXTENDS Naturals, FiniteSets, Functions

CONSTANTS
  Server, Group, Key, User, Admin, Tool,  \* names
  FirstStore,    \* what enrollment.yaml holds at the start
  Handler,       \* request threads
  StoreFaults,   \* which of "save" and "audit" may raise
  MaxChanges,    \* bound: changes that take the lock
  MaxBoots       \* bound: restarts of the CA

ASSUME EnrollmentAssumption ==
  /\ StoreFaults \subseteq {"save", "audit"}
  /\ MaxChanges \in Nat
  /\ MaxBoots \in Nat

Role == {"superuser", "server-admin", "user-admin", "auditor"}

VARIABLES
  mem,        \* Enrollment: the maps in memory
  policySeq,  \* Enrollment._policy_seq
  disk,       \* enrollment.yaml
  request,    \* where each handler is
  handed,     \* history: policy ids handed out since the store was loaded
  changes,    \* history: [mem, disk |-> changes they hold], [audited |-> ...]
  made,       \* history: how many changes were made
  boots

enrollmentVars == <<mem, policySeq, disk, request, handed, changes, made, boots>>

\* What a policy names: plain server names must be enrolled when it is added.
Reference == ({"server"} \X Server) \cup ({"group"} \X Group)
Policy == [id : Nat, user : User, on : Reference]

\* templates_default, templates_groups and templates_servers: where one is set.
Scope == {<<"default", "all">>} \cup Reference

Store == [servers : UNION {[S -> SUBSET Group] : S \in SUBSET Server},
          admins : UNION {[A -> Role] : A \in SUBSET Admin},
          users : SUBSET User,
          keys : SUBSET (User \X Key),
          policies : SUBSET Policy,
          tools : SUBSET Tool,
          templates : SUBSET Scope]

Superusers(store) == {a \in DOMAIN store.admins : store.admins[a] = "superuser"}

\* mssh-admin init enrolls a superuser; a file that save() wrote is consistent.
ASSUME FirstStoreAssumption ==
  /\ FirstStore \in Store
  /\ Superusers(FirstStore) # {}
  /\ \A p, q \in FirstStore.policies : p.id = q.id => p = q
  /\ FirstStore.policies # {} => \E p \in FirstStore.policies : \A q \in FirstStore.policies : q.id <= p.id
  /\ \A s \in Server : <<"server", s>> \in FirstStore.templates => s \in DOMAIN FirstStore.servers

\* A slip: the policies are counted.
CountedId(policies) == Cardinality(policies)

\* load(): the highest number that survives.
HighestId(policies) ==
  IF policies = {} THEN 0
  ELSE CHOOSE n \in {p.id : p \in policies} : \A p \in policies : p.id <= n

Idle == [at |-> "idle", family |-> "none", change |-> 0]

\* Every variable has its type, and the counter is not behind the policies.
EnrollmentTypeOK ==
  /\ mem \in Store
  /\ policySeq \in Nat /\ \A p \in mem.policies : p.id <= policySeq
  /\ disk \in Store
  /\ request \in [Handler -> [at : {"idle", "checked", "saved"},
                              family : {"none", "server", "user", "admin"},
                              change : 0..MaxChanges]]
  /\ handed \subseteq Nat
  /\ changes \in [mem : SUBSET (1..MaxChanges), disk : SUBSET (1..MaxChanges),
                  audited : SUBSET (1..MaxChanges)]
  /\ made \in 0..MaxChanges
  /\ boots \in 0..MaxBoots

EnrollmentInit ==
  /\ mem = FirstStore
  /\ policySeq = HighestId(FirstStore.policies)
  /\ disk = FirstStore
  /\ request = [h \in Handler |-> Idle]
  /\ handed = {p.id : p \in FirstStore.policies}
  /\ changes = [mem |-> {}, disk |-> {}, audited |-> {}]
  /\ made = 0
  /\ boots = 0

-----------------------------------------------------------------------------
(* Begin, commit, answer *)

\* _PERMISSIONS: the roles that may change servers and templates, users and
\* policies, admins and external tools.
MayChange(role, family) ==
  role \in CASE family = "server" -> {"superuser", "server-admin"}
             [] family = "user" -> {"superuser", "user-admin"}
             [] family = "admin" -> {"superuser"}

\* _admin_or_401, then _check: the record found here is used for the whole request.
Begin(h, family) ==
  /\ request[h] = Idle
  /\ \E a \in DOMAIN mem.admins : MayChange(mem.admins[a], family)
  /\ request' = [request EXCEPT ![h].at = "checked", ![h].family = family]
  /\ UNCHANGED <<mem, policySeq, disk, handed, changes, made, boots>>

Checked(h, family) == request[h].at = "checked" /\ request[h].family = family

\* A body that does not parse, an EnrollmentError: 4xx, nothing has changed.
Refuse(h) ==
  /\ request[h].at = "checked"
  /\ request' = [request EXCEPT ![h] = Idle]
  /\ UNCHANGED <<mem, policySeq, disk, handed, changes, made, boots>>

\* The end of each mutator: the maps are changed, save() writes them all.
SaveOK(h, new) ==
  /\ disk' = new
  /\ changes' = [changes EXCEPT !.mem = @ \cup {made + 1}, !.disk = changes.mem \cup {made + 1}]
  /\ request' = [request EXCEPT ![h].at = "saved", ![h].change = made + 1]

\* A slip: the handler goes on after save() has raised.
SaveSwallowed(h) ==
  /\ "save" \in StoreFaults
  /\ changes' = [changes EXCEPT !.mem = @ \cup {made + 1}]
  /\ request' = [request EXCEPT ![h].at = "saved", ![h].change = made + 1]
  /\ UNCHANGED disk

\* save() raises, the handler answers 500, and memory keeps the change.
SaveRaises(h) ==
  /\ "save" \in StoreFaults
  /\ changes' = [changes EXCEPT !.mem = @ \cup {made + 1}]
  /\ request' = [request EXCEPT ![h] = Idle]
  /\ UNCHANGED disk

Commit(h, new) ==
  /\ made < MaxChanges
  /\ made' = made + 1
  /\ mem' = new
  /\ SaveOK(h, new) \/ SaveRaises(h)
  /\ UNCHANGED boots

\* ... for a mutator that leaves the policy numbers alone.
Change(h, new) == Commit(h, new) /\ UNCHANGED <<policySeq, handed>>

\* _audit_admin and the answer; or audit.write raises and the answer is 500.
Answer(h) ==
  /\ request[h].at = "saved"
  /\ request' = [request EXCEPT ![h] = Idle]
  /\ \/ changes' = [changes EXCEPT !.audited = @ \cup {request[h].change}]
     \/ "audit" \in StoreFaults /\ UNCHANGED changes
  /\ UNCHANGED <<mem, policySeq, disk, handed, made, boots>>

-----------------------------------------------------------------------------
(* Servers and templates *)

AddServer(h, s, groups) ==
  /\ Checked(h, "server")
  /\ s \notin DOMAIN mem.servers
  /\ Change(h, [mem EXCEPT !.servers = [t \in DOMAIN @ \cup {s} |-> IF t = s THEN groups ELSE @[t]]])

RemoveServer(h, s) ==
  /\ Checked(h, "server")
  /\ s \in DOMAIN mem.servers
  /\ Change(h, [mem EXCEPT !.servers = Restrict(@, DOMAIN @ \ {s}),
                           !.templates = @ \ {<<"server", s>>}])

SetServerGroups(h, s, groups) ==
  /\ Checked(h, "server")
  /\ s \in DOMAIN mem.servers
  /\ Change(h, [mem EXCEPT !.servers[s] = groups])

\* set_default_template, set_group_template, set_server_template; a group's
\* name is not checked, a server's is.
SetTemplate(h, scope) ==
  /\ Checked(h, "server")
  /\ scope[1] = "server" => scope[2] \in DOMAIN mem.servers
  /\ Change(h, [mem EXCEPT !.templates = @ \cup {scope}])

\* Unsetting what is not set saves too.
UnsetTemplate(h, scope) ==
  /\ Checked(h, "server")
  /\ Change(h, [mem EXCEPT !.templates = @ \ {scope}])

-----------------------------------------------------------------------------
(* Users, keys and policies *)

AddUser(h, u) ==
  /\ Checked(h, "user")
  /\ u \notin mem.users
  /\ Change(h, [mem EXCEPT !.users = @ \cup {u}])

\* Keys and policies are held in the user's record.
RemoveUser(h, u) ==
  /\ Checked(h, "user")
  /\ u \in mem.users
  /\ Change(h, [mem EXCEPT !.users = @ \ {u},
                           !.keys = {k \in @ : k[1] # u},
                           !.policies = {p \in @ : p.user # u}])

\* A fingerprint is unique within one user, not between users.
AddUserKey(h, u, k) ==
  /\ Checked(h, "user")
  /\ u \in mem.users
  /\ <<u, k>> \notin mem.keys
  /\ Change(h, [mem EXCEPT !.keys = @ \cup {<<u, k>>}])

RemoveUserKey(h, u, k) ==
  /\ Checked(h, "user")
  /\ <<u, k>> \in mem.keys
  /\ Change(h, [mem EXCEPT !.keys = @ \ {<<u, k>>}])

\* A slip: the number is one above those that are left.
AddPolicyAboveHighest(h, u, ref) ==
  /\ Checked(h, "user")
  /\ u \in mem.users
  /\ ref[1] = "server" => ref[2] \in DOMAIN mem.servers
  /\ policySeq' = HighestId(mem.policies) + 1
  /\ Commit(h, [mem EXCEPT !.policies = @ \cup {[id |-> policySeq', user |-> u, on |-> ref]}])
  /\ handed' = handed \cup {policySeq'}

\* The number is taken before require_2fa is checked, so a refusal may use it up.
AddPolicy(h, u, ref) ==
  /\ Checked(h, "user")
  /\ u \in mem.users
  /\ ref[1] = "server" => ref[2] \in DOMAIN mem.servers
  /\ policySeq < HighestId(FirstStore.policies) + MaxChanges
  /\ policySeq' = policySeq + 1
  /\ \/ /\ Commit(h, [mem EXCEPT !.policies = @ \cup {[id |-> policySeq', user |-> u, on |-> ref]}])
        /\ handed' = handed \cup {policySeq'}
     \/ /\ request' = [request EXCEPT ![h] = Idle]
        /\ UNCHANGED <<mem, disk, handed, changes, made, boots>>

RemovePolicy(h, id) ==
  /\ Checked(h, "user")
  /\ \E p \in mem.policies : p.id = id
  /\ Change(h, [mem EXCEPT !.policies = {p \in @ : p.id # id}])

-----------------------------------------------------------------------------
(* Admins and external tools *)

AddAdmin(h, a, role) ==
  /\ Checked(h, "admin")
  /\ a \notin DOMAIN mem.admins
  /\ Change(h, [mem EXCEPT !.admins = [b \in DOMAIN @ \cup {a} |-> IF b = a THEN role ELSE @[b]]])

\* An off-by-one: there is a superuser, not another one.
SomeSuperuser(a) == mem.admins[a] = "superuser" => Superusers(mem) # {}

NotTheLast(a) == mem.admins[a] = "superuser" => Superusers(mem) \ {a} # {}

RemoveAdmin(h, a) ==
  /\ Checked(h, "admin")
  /\ a \in DOMAIN mem.admins
  /\ NotTheLast(a)
  /\ Change(h, [mem EXCEPT !.admins = Restrict(@, DOMAIN @ \ {a})])

AddTool(h, t) ==
  /\ Checked(h, "admin")
  /\ t \notin mem.tools
  /\ Change(h, [mem EXCEPT !.tools = @ \cup {t}])

RemoveTool(h, t) ==
  /\ Checked(h, "admin")
  /\ t \in mem.tools
  /\ Change(h, [mem EXCEPT !.tools = @ \ {t}])

-----------------------------------------------------------------------------
(* Crash and restart *)

\* The process dies wherever its handlers are, and reads the file again.
Reboot ==
  /\ boots < MaxBoots
  /\ boots' = boots + 1
  /\ mem' = disk
  /\ policySeq' = HighestId(disk.policies)
  /\ request' = [h \in Handler |-> Idle]
  /\ handed' = {p.id : p \in disk.policies}
  /\ changes' = [changes EXCEPT !.mem = changes.disk]
  /\ UNCHANGED <<disk, made>>

ServerNext(h) ==
  \/ \E s \in Server : RemoveServer(h, s)
                       \/ \E g \in SUBSET Group : AddServer(h, s, g) \/ SetServerGroups(h, s, g)
  \/ \E scope \in Scope : SetTemplate(h, scope) \/ UnsetTemplate(h, scope)

UserNext(h) ==
  \/ \E u \in User : \/ AddUser(h, u) \/ RemoveUser(h, u)
                     \/ \E k \in Key : AddUserKey(h, u, k) \/ RemoveUserKey(h, u, k)
                     \/ \E ref \in Reference : AddPolicy(h, u, ref)
  \/ \E id \in {p.id : p \in mem.policies} : RemovePolicy(h, id)

AdminNext(h) ==
  \/ \E a \in Admin : RemoveAdmin(h, a) \/ \E role \in Role : AddAdmin(h, a, role)
  \/ \E t \in Tool : AddTool(h, t) \/ RemoveTool(h, t)

EnrollmentNext ==
  \/ \E h \in Handler :
       \/ \E family \in {"server", "user", "admin"} : Begin(h, family)
       \/ Refuse(h) \/ Answer(h)
       \/ ServerNext(h) \/ UserNext(h) \/ AdminNext(h)
  \/ Reboot

EnrollmentSpec == EnrollmentInit /\ [][EnrollmentNext]_enrollmentVars

-----------------------------------------------------------------------------
(* Properties *)

\* Whatever two handlers do to each other's admins, a save that raises and a
\* restart, somebody can still administer the CA: memory and the file each hold
\* a superuser (remove_admin's guard).
SuperuserRemains == Superusers(mem) # {} /\ Superusers(disk) # {}

\* remove_policy(id) drops the first policy of that id it meets: an id names one
\* policy, in memory and in the file, although restarts take numbers back.
PolicyIdsUnique ==
  \A store \in {mem, disk} : \A p, q \in store.policies : p.id = q.id => p = q

\* What the audit log records as done is in the file, so a restart keeps it.
AuditedIsDurable == changes.audited \subseteq changes.disk

\* A template override is held for enrolled servers only: a server enrolled
\* again under the name starts from its group's or the default one.
TemplatesNeedServer ==
  \A store \in {mem, disk} : \A s \in Server :
    <<"server", s>> \in store.templates => s \in DOMAIN store.servers

\* What the store promises to its readers, in memory and in the file.
StoresConsistent == PolicyIdsUnique /\ TemplatesNeedServer /\ AuditedIsDurable

\* Until the next restart a number is not given out twice, removed policies and
\* failed saves included: a remove_policy sent late cannot meet another policy.
PolicyIdsNotReused ==
  [][\A p \in mem'.policies \ mem.policies : boots' = boots => p.id \notin handed]_enrollmentVars
=============================================================================
