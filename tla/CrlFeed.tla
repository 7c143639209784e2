------------------------------- MODULE CrlFeed -------------------------------
(***************************************************************************)
(* What an issuer's revocation log promises a follower: revocations are    *)
(* published in one order that never changes, and a follower that takes    *)
(* them a page at a time has, at every position, exactly those before it.  *)
(***************************************************************************)
EXTENDS Integers, Sequences

CONSTANTS
  Serial,      \* serials of certs
  FetchLimit   \* the most revocations a page holds

VARIABLES
  feed,   \* the sets of serials revoked, in order
  pos,    \* how many of them the follower has taken
  got     \* the serials the follower has taken

vars == <<feed, pos, got>>

Published(a, b) == UNION {feed[n] : n \in a..b}

Init == feed = <<>> /\ pos = 0 /\ got = {}

Publish(ss) ==
  /\ feed' = Append(feed, ss)
  /\ UNCHANGED <<pos, got>>

Take(n) ==
  /\ n <= pos + FetchLimit
  /\ pos' = n
  /\ got' = got \cup Published(pos + 1, n)
  /\ UNCHANGED feed

Next ==
  \/ \E ss \in SUBSET Serial : Publish(ss)
  \/ \E n \in pos + 1 .. Len(feed) : Take(n)

Spec == Init /\ [][Next]_vars

\* A follower has the serials of every revocation up to its position, and no
\* other (crl.py:131-147, crl_sync.py:124-174).
FollowerExact ==
  /\ feed \in Seq(SUBSET Serial)
  /\ pos \in 0..Len(feed)
  /\ got = Published(1, pos)
=============================================================================
