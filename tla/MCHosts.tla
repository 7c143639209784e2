------------------------------ MODULE MCHosts ------------------------------
(***************************************************************************)
(* The way of one login for TLC: what the CA decides, the certificate that *)
(* carries the decision, the shim that asks for it and the session that    *)
(* follows.  The four components share no state, so each is explored by    *)
(* itself: focus says which of them moves.                                 *)
(***************************************************************************)
EXTENDS PolicyDecision, CertExtensions, ShimAuthorize, SessionProtocol, TLC

VARIABLE focus

-----------------------------------------------------------------------------
(* Policies: networks that parse and that do not, windows in a day, over    *)
(* midnight and of one minute, hours and days that do not parse, and one    *)
(* policy for another server.                                               *)
Networks == {<< >>, <<{"near"}>>, <<{"near"}, BadNetwork>>}
Windows == {AnyTime, [days |-> {}, hours |-> <<2, 0>>], [days |-> {}, hours |-> <<3, 3>>],
            [days |-> {0}, hours |-> <<1, 2>>]}
Unread == {[days |-> {0}, hours |-> BadHours], [days |-> BadDays, hours |-> AllDay]}
Covers == [covers : {TRUE}, cidrs : Networks, window : Windows,
           channels : {{"shell"}, {"forward"}}, command : {NoCommand, "report"},
           validity : {0, 1}]
Malformed == [covers : {TRUE}, cidrs : {<< >>, <<{"near"}>>}, window : Unread,
              channels : {{"shell"}}, command : {NoCommand}, validity : {0}]
Elsewhere == [covers |-> FALSE, cidrs |-> <<BadNetwork>>, window |-> AnyTime,
              channels |-> {"shell", "forward"}, command |-> NoCommand, validity |-> 0]
Pool == Covers \cup Malformed \cup {Elsewhere}

(* Texts with and without an equals sign, shorter and longer than half of   *)
(* the base, so that lengths take the short and the long form.              *)
Short == <<2>>
Long == <<7, 7, 7, 7, 7, 6, 6, 6, 6>>
Assignment == <<3, 1, 5, 1>>
Plain == {<< >>, Short, Assignment, Long}
\* Three characters of two bytes each, and the hex digits of one byte.
Accented == <<6, 4, 6, 4, 6, 4>>
Hex == <<2, 3>>
Texts == Plain \cup {Accented, Hex}
Hexed == << >> :> << >> @@ Hex :> <<7>>
Numbers == {-1, 0, 3, 4, 31, 32, 63}
Declared ==
  ("1.9" :> [name |-> "tier", encoding |-> "utf8", max |-> 4, critical |-> TRUE])
  @@ ("1.8" :> [name |-> "level", encoding |-> "integer", max |-> 1, critical |-> FALSE])
  @@ ("1.7" :> [name |-> "mark", encoding |-> "null", max |-> NoLimit, critical |-> FALSE])
  @@ ("1.6" :> [name |-> "blob", encoding |-> "octet", max |-> 3, critical |-> FALSE])
  @@ ("1.5" :> [name |-> "label", encoding |-> "printable", max |-> NoLimit, critical |-> FALSE])
  @@ ("basicConstraints" :> [name |-> "constraints", encoding |-> "null", max |-> 1, critical |-> FALSE])
Environments == {[k \in keys |-> v] : keys \in SUBSET {Short, Assignment, Long}, v \in Plain}
AskedGrants ==
  [source : {Short}, server : {Long}, channels : SUBSET Plain \ {{}}, command : Plain,
   environment : Environments, limit : {NoLimit}, bypass : {FALSE}]
  \cup [source : {<< >>, Long}, server : {Short}, channels : {{Short}}, command : Plain,
        environment : {<< >>}, limit : {-2} \cup (Numbers \ {-1}), bypass : {TRUE}]

-----------------------------------------------------------------------------
HostsInit ==
  /\ focus \in {"policy", "extensions", "shim", "session"}
  /\ PolicyInit /\ (focus # "policy" => day = 0 /\ minute = 0)
  /\ ExtensionsInit
  /\ ShimInit /\ (IF focus = "shim" THEN backend = "memory" => emergency = 1
                   ELSE backend = "memory" /\ emergency = 0)
  /\ SessionInit /\ (focus # "session" => framed)

SessionAlone ==
  focus = "session" /\ UNCHANGED <<focus, policyVars, extensionVars, shimVars>>

HostsNext ==
  \/ /\ focus = "policy" /\ PolicyNext
     /\ UNCHANGED <<focus, extensionVars, shimVars, sessionVars>>
  \/ /\ focus = "extensions" /\ ExtensionsNext
     /\ UNCHANGED <<focus, policyVars, shimVars, sessionVars>>
  \/ /\ focus = "shim" /\ ShimNext
     /\ UNCHANGED <<focus, policyVars, extensionVars, sessionVars>>
  \/ SessionNext /\ SessionAlone

HostsSpec ==
  /\ HostsInit
  /\ [][HostsNext]_<<focus, policyVars, extensionVars, shimVars, sessionVars>>
  /\ WF_<<focus, policyVars, extensionVars, shimVars, sessionVars>>(SessionProgress /\ SessionAlone)

\* Every variable of the shim and of the session has its type, a login has one
\* row in the shim's cache and the cache keeps to its cap.
HostsTypeOK == ShimTypeOK /\ SessionTypeOK
=============================================================================
