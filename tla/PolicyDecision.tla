--------------------------- MODULE PolicyDecision ---------------------------
(***************************************************************************)
(* What the CA decides for a user who asks for a server: policy.evaluate   *)
(* over the user's policies, in the order they were added.  The state is   *)
(* the user's list of policies and the clock; the decision is a function   *)
(* of both and of the request, and the properties compare it with what     *)
(* each policy says on its own.                                            *)
(*                                                                         *)
(* A server pattern, a glob or a group is reduced to whether the policy    *)
(* covers the asked server; a network is the set of addresses in it.       *)
(***************************************************************************)
EXTENDS Integers, Sequences, SequencesExt

CONSTANTS Address,          \* source addresses that parse
          Channel,          \* SSH channel types
          Weekday,          \* the number of days in the week
          DayLength,        \* the number of minutes in a day
          DefaultValidity,  \* default_max_cert_validity_seconds
          PolicyPool,       \* the policies an administrator may add
          MaxPolicies       \* bound: policies a user holds at a time

ASSUME DayLengthAssumption == DayLength \in Nat \ {0} /\ Weekday \in Nat \ {0}
ASSUME DefaultAssumption == DefaultValidity \in Nat \ {0}

\* policy_add refuses a policy without channels; nothing checks its validity.
ASSUME PoolAssumption ==
  \A p \in PolicyPool : p.channels # {} /\ p.covers \in BOOLEAN /\ p.validity \in Int

NoAddress == "not an address"      \* a source_ip ipaddress refuses
BadNetwork == {"not a network"}    \* a CIDR that ipaddress refuses
Unasked == {"any channel"}         \* the request names no channels
NoCommand == "no command"
AllDay == << >>                    \* a window without both hours
BadHours == <<"not a time">>       \* hours that split or int refuse
BadDays == {-1}                    \* days of which one is not a string
AnyTime == [days |-> {}, hours |-> AllDay]   \* no time window

Request == [source : Address \cup {NoAddress},
            channels : {Unasked} \cup SUBSET Channel]

VARIABLES userPolicies, day, minute
policyVars == <<userPolicies, day, minute>>

-----------------------------------------------------------------------------
(* One policy against one request. *)

\* A slip: a window that wraps midnight is read as the minutes between its ends.
NoWrap(hours) == hours = AllDay \/ minute \in hours[1] .. hours[2]

\* _time_in_window: an empty list of days is every day; hours that end before
\* they start wrap midnight, and the day is the day of the asking.  The hours are
\* read on the window's days only.
InHours(hours) ==
  \/ hours = AllDay
  \/ hours[1] <= hours[2] /\ minute \in hours[1] .. hours[2]
  \/ hours[1] > hours[2] /\ (minute >= hours[1] \/ minute <= hours[2])

OnDays(days) == days = {} \/ day \in days

InWindow(window) ==
  /\ OnDays(window.days)
  /\ window.hours # BadHours /\ InHours(window.hours)

WindowRaises(window) ==
  window.days = BadDays \/ (OnDays(window.days) /\ window.hours = BadHours)

\* _ip_in_any_cidr: the networks are tried in order and the first that holds
\* the address, or that does not parse, decides.
Decides(network, source) == network = BadNetwork \/ source \in network

SourceRaises(policy, source) ==
  /\ policy.cidrs # << >>
  /\ \/ source = NoAddress
     \/ \E i \in DOMAIN policy.cidrs :
          /\ policy.cidrs[i] = BadNetwork
          /\ \A j \in 1 .. i - 1 : ~ Decides(policy.cidrs[j], source)

FromSource(policy, source) ==
  \/ policy.cidrs = << >>
  \/ /\ ~ SourceRaises(policy, source)
     /\ \E i \in DOMAIN policy.cidrs : Decides(policy.cidrs[i], source)

\* The window is read only when the source is let in.
Raises(policy, source) ==
  \/ SourceRaises(policy, source)
  \/ FromSource(policy, source) /\ WindowRaises(policy.window)

Applies(policy, source) ==
  FromSource(policy, source) /\ InWindow(policy.window)

-----------------------------------------------------------------------------
(* All of them together. *)

\* The places in the list of the policies for the server, and of those that let
\* the request in.
Covering(policies) == {i \in DOMAIN policies : policies[i].covers}

Matching(policies, source) ==
  {i \in Covering(policies) : Applies(policies[i], source)}

MergedChannels(policies, matching) == UNION {policies[i].channels : i \in matching}

\* A slip: the last matching policy's command, none included.
LastCommand(policies, matching) == policies[Max(matching)].command

\* The command of the last matching policy that has one.
MergedCommand(policies, matching) ==
  LET forced == {i \in matching : policies[i].command # NoCommand}
  IN IF forced = {} THEN NoCommand ELSE policies[Max(forced)].command

\* The shortest of the default and the policies' own; zero is unset.
MergedValidity(policies, matching) ==
  Min({DefaultValidity} \cup ({policies[i].validity : i \in matching} \ {0}))

Denied(reason) == [ok |-> FALSE, reason |-> reason]

\* evaluate: the first policy for the server that raises ends the loop, whatever
\* those before it granted and those after it would.  A source check that raises
\* is a denial; a window that does is caught by the server's handler alone (500).
Evaluate(policies, request) ==
  LET covering == Covering(policies)
      raising  == {i \in covering : Raises(policies[i], request.source)}
      matching == Matching(policies, request.source)
      merged   == MergedChannels(policies, matching)
      granted  == IF request.channels = Unasked THEN merged
                  ELSE merged \cap request.channels
  IN IF covering = {} THEN Denied("no_matching_policy")
     ELSE IF raising # {}
       THEN Denied(IF SourceRaises(policies[Min(raising)], request.source)
                   THEN "source_denied" ELSE "internal error")
     ELSE IF matching = {}
       THEN Denied(IF FromSource(policies[Max(covering)], request.source)
                   THEN "time_denied" ELSE "source_denied")
     ELSE IF granted = {} /\ request.channels # Unasked
       THEN Denied("channels_denied")
     ELSE [ok |-> TRUE, channels |-> granted,
           command |-> MergedCommand(policies, matching),
           validity |-> MergedValidity(policies, matching)]

-----------------------------------------------------------------------------
PolicyInit ==
  /\ userPolicies = << >>
  /\ day \in 0 .. Weekday - 1
  /\ minute \in 0 .. DayLength - 1

\* EnrollmentStore.add_policy: nothing checks the networks or the hours.
AddPolicy ==
  /\ Len(userPolicies) < MaxPolicies
  /\ \E p \in PolicyPool : userPolicies' = Append(userPolicies, p)
  /\ UNCHANGED <<day, minute>>

\* EnrollmentStore.remove_policy.
RemovePolicy ==
  /\ \E i \in DOMAIN userPolicies :
       userPolicies' = RemoveAt(userPolicies, i)
  /\ UNCHANGED <<day, minute>>

PolicyNext == AddPolicy \/ RemovePolicy

PolicySpec == PolicyInit /\ [][PolicyNext]_policyVars

-----------------------------------------------------------------------------
(* What the decision must be. *)

\* The grant of one policy alone.
Alone(p, r) == Evaluate(<<p>>, [r EXCEPT !.channels = Unasked])

\* A decision is the sum of what the policies grant one by one, in whatever order
\* they stand: a channel is granted only if some policy grants it on its own from
\* this source at this time, all of those are, the certificate lives as long as
\* the strictest of them allows, and a command that one of them forces is not lost
\* in the merge.  It is withheld only when nothing asked is left or a policy for
\* the server cannot be read (policy.py:57-61, 117), and then it always is.
TheSumOfThePolicies ==
  userPolicies # << >> => \A r \in Request :
    LET d        == Evaluate(userPolicies, r)
        granting == {p \in ToSet(userPolicies) : Alone(p, r).ok}
        offered  == UNION {p.channels : p \in granting}
        asked    == IF r.channels = Unasked THEN offered
                    ELSE offered \cap r.channels
    IN /\ d.ok <=> /\ asked # {}
                   /\ \A p \in ToSet(userPolicies) : p.covers => ~ Raises(p, r.source)
       /\ d.ok => /\ d.channels = asked
                  /\ \A p \in granting : d.validity <= Alone(p, r).validity
                  /\ \E p \in granting : d.validity = Alone(p, r).validity
                  /\ d.command = NoCommand
                       <=> \A p \in granting : p.command = NoCommand

\* The minutes of a window counted forward from its start to its end.
Span(hours) ==
  {(hours[1] + i) % DayLength :
     i \in 0 .. (hours[2] + DayLength - hours[1]) % DayLength}

\* A policy with hours, midnight in between or not, grants at the minutes
\* from the first to the last of them, both included, and at no other.
HoursAreTheirSpan ==
  \A p \in ToSet(userPolicies) :
    p.window.hours \notin {AllDay, BadHours}
      => (InWindow(p.window)
            <=> /\ p.window.days = {} \/ day \in p.window.days
                /\ minute \in Span(p.window.hours))

-----------------------------------------------------------------------------
(* A claim of the documentation that does not hold                       *)

\* docs/17-operations.md:119 "Multiple rules union", and docs/MIGRATION.md:234:
\* whoever comes from an address and is let in by one of his policies is let in
\* by all of them together.
RulesUnion ==
  \A r \in Request :
    r.source \in Address /\ (\E p \in ToSet(userPolicies) : Alone(p, r).ok)
      => Evaluate(userPolicies, [r EXCEPT !.channels = Unasked]).ok
=============================================================================
