---------------------------- MODULE ShareTokens ----------------------------
(***************************************************************************)
(* live.py ShareTokens: links that let a viewer in for a while.  Every     *)
(* operation is called by a thread of the HTTP server, reads the wall      *)
(* clock, waits for the lock and only then acts: `now` may be older than   *)
(* another thread's by the time it is used.  The clock may be stepped.     *)
(*                                                                         *)
(* A link is a number, never reused; `born` remembers every link of this   *)
(* process.  Labels, hit counts and the constant-time comparison are left  *)
(* out.                                                                    *)
(***************************************************************************)
EXTENDS Integers, FiniteSets

CONSTANTS
  Handlers,   \* threads of the HTTP server
  MaxActive,  \* max_active
  Ttls,       \* lifetimes the owner asks for
  MaxLinks, MaxClock  \* bounds

ASSUME ShareAssumption ==
  /\ MaxActive \in Nat \ {0} /\ {MaxLinks, MaxClock} \subseteq Nat
  /\ Ttls \subseteq Nat \ {0}

VARIABLES
  clock,    \* the wall clock
  call,     \* per thread: the operation in progress, [op, link, now]
  links,    \* self._tokens: link -> [created, expires]
  born,     \* ghost: every link ever minted, with the same record
  revoked, refused,  \* ghost: links revoked; links a viewer was refused
  latest,   \* ghost: the latest reading of the clock
  setBack   \* bound: the clock has been stepped back, once

shareVars == <<clock, call, links, born, revoked, refused, latest, setBack>>

Idle == [op |-> "none", link |-> 0, now |-> 0]

ShareTypeOK ==
  /\ clock \in 0 .. MaxClock /\ latest \in 0 .. MaxClock
  /\ DOMAIN links \subseteq DOMAIN born
  /\ DOMAIN born \subseteq 1 .. MaxLinks
  /\ Cardinality(DOMAIN links) <= MaxActive
  /\ \A t \in Handlers : call[t].now <= latest

ShareInit ==
  /\ clock = 0 /\ latest = 0 /\ setBack = FALSE
  /\ call = [t \in Handlers |-> Idle]
  /\ links = <<>> /\ born = <<>> /\ revoked = {} /\ refused = {}

Only(m, keys) == [l \in DOMAIN m \cap keys |-> m[l]]

\* _prune
Prune(now) == Only(links, {l \in DOMAIN links : links[l].expires > now})

\* The oldest by `created`: dropped until there is room for one more.
Oldest(m) == {l \in DOMAIN m : \A k \in DOMAIN m : m[l].created <= m[k].created}

\* Mutation: the link made last goes.
EvictYoungest(m) ==
  LET young == {l \in DOMAIN m : \A k \in DOMAIN m : m[l].created >= m[k].created}
  IN IF Cardinality(DOMAIN m) < MaxActive THEN {m}
     ELSE {Only(m, DOMAIN m \ {l}) : l \in young}

Evict(m) ==
  IF Cardinality(DOMAIN m) < MaxActive THEN {m}
  ELSE {Only(m, DOMAIN m \ {l}) : l \in Oldest(m)}

\* A request arrives at a free thread, which reads the clock.
Arrive(t, op, link) ==
  /\ call[t] = Idle
  /\ call' = [call EXCEPT ![t] = [op |-> op, link |-> link, now |-> clock]]
  /\ latest' = IF clock > latest THEN clock ELSE latest
  /\ UNCHANGED <<clock, links, born, revoked, refused, setBack>>

Return(t) == call' = [call EXCEPT ![t] = Idle]

\* POST /api/share
Mint(t) ==
  /\ call[t].op = "mint"
  /\ \E ttl \in Ttls, room \in Evict(Prune(call[t].now)) :
       LET l == Cardinality(DOMAIN born) + 1
           e == [created |-> call[t].now, expires |-> call[t].now + ttl]
       IN /\ l <= MaxLinks
          /\ links' = [k \in DOMAIN room \cup {l} |->
                        IF k = l THEN e ELSE room[k]]
          /\ born' = [k \in DOMAIN born \cup {l} |->
                       IF k = l THEN e ELSE born[k]]
  /\ Return(t)
  /\ UNCHANGED <<clock, revoked, refused, latest, setBack>>

\* Mutation: an expired link is passed over, not dropped.
ValidateInPlace(t) ==
  /\ call[t].op = "validate"
  /\ refused' = IF call[t].link \in DOMAIN Prune(call[t].now) THEN refused
                ELSE refused \cup {call[t].link}
  /\ Return(t)
  /\ UNCHANGED <<clock, links, born, revoked, latest, setBack>>

\* Any request under /s/: who is let in gets the page, the assets, the
\* metadata, a snapshot or the stream; the token is not looked at again.
Validate(t) ==
  /\ call[t].op = "validate"
  /\ links' = Prune(call[t].now)
  /\ refused' = IF call[t].link \in DOMAIN links' THEN refused
                ELSE refused \cup {call[t].link}
  /\ Return(t)
  /\ UNCHANGED <<clock, born, revoked, latest, setBack>>

\* GET /api/share; `remaining`, read for the cookie, changes nothing.
Active(t) ==
  /\ call[t].op = "active"
  /\ links' = Prune(call[t].now)
  /\ Return(t)
  /\ UNCHANGED <<clock, born, revoked, refused, latest, setBack>>

\* POST /api/share/revoke, of one link or of all: it reads no clock.
Revoke(gone) ==
  /\ gone # {}
  /\ links' = Only(links, DOMAIN links \ gone)
  /\ revoked' = revoked \cup gone
  /\ UNCHANGED <<clock, call, born, refused, latest, setBack>>

\* Nothing is persisted: the links of the old process are dead.
RestartProcess ==
  /\ links # <<>>
  /\ links' = <<>> /\ revoked' = DOMAIN born
  /\ call' = [t \in Handlers |-> Idle]
  /\ UNCHANGED <<clock, born, refused, latest, setBack>>

Passes ==
  /\ \E now \in 0 .. MaxClock :
       /\ now = clock + 1 \/ (now < clock /\ ~setBack)
       /\ clock' = now /\ setBack' = (setBack \/ now < clock)
  /\ UNCHANGED <<call, links, born, revoked, refused, latest>>

ShareNext ==
  \/ \E t \in Handlers :
       \/ \E op \in {"mint", "active"} : Arrive(t, op, 0)
       \/ \E l \in DOMAIN born : Arrive(t, "validate", l)
       \/ Mint(t) \/ Validate(t) \/ Active(t)
  \/ \E l \in DOMAIN links : Revoke({l})
  \/ Revoke(DOMAIN links) \/ RestartProcess \/ Passes

ShareSpec == ShareInit /\ [][ShareNext]_shareVars

-----------------------------------------------------------------------------
(* Properties *)

\* A link that was refused once is never honoured again, whatever the clock
\* does afterwards and whichever thread read it earlier: it is gone, not
\* passed over (live.py:3872-3893, 3931-3934).
RefusedForGood == refused \cap DOMAIN links = {}

\* A viewer is refused only for a reason: the link's time was up by some
\* reading of the clock, it was revoked, or as many other links as there is room
\* for, minted after it or stamped no earlier, pushed it out - however the
\* threads' readings of a stepped clock are ordered (live.py:3850-3870).
RefusedForAReason ==
  \A l \in refused :
    \/ l \in revoked \/ born[l].expires <= latest
    \/ Cardinality({k \in DOMAIN born \ {l} :
                      k > l \/ born[k].created >= born[l].created}) >= MaxActive
=============================================================================
