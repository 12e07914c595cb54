---------------------------- MODULE FleetProofs ----------------------------
(***************************************************************************)
(* What the devices of a fleet keep in step, for every fleet and every     *)
(* bound: who owns a machine (Ownership), which version of a file wins     *)
(* (FleetFiles), what an explicit choice of storage is worth (StoragePlan) *)
(* and what stays deleted on the canvas (Canvas).  One section for each:   *)
(* what its inductive invariant says beyond its types, that it holds at    *)
(* first, that every operation keeps it, and the properties it implies.    *)
(* The last three order their records by stamps, whose facts come first;   *)
(* the four side by side come last.                                        *)
(***************************************************************************)
EXTENDS MCFleet, Integers, FiniteFacts, TLAPS

-----------------------------------------------------------------------------
(* Stamps.                                                                 *)

\* The highest of finitely many counters is none below any of them.
LEMMA HighestBounds ==
    ASSUME NEW S \in SUBSET Nat, IsFiniteSet(S)
    PROVE  Highest(S) \in Nat /\ \A c \in S : c <= Highest(S)
  <1>1. CASE S = {}
    BY <1>1 DEF Highest
  <1>2. CASE S # {}
    <2>1. \E c \in S : \A d \in S : d <= c
      BY <1>2, GreatestOfFinite
    <2>2. Highest(S) = CHOOSE c \in S : \A d \in S : d <= c
      BY <1>2 DEF Highest
    <2> QED BY <2>1, <2>2
  <1> QED BY <1>1, <1>2

\* The derived order is total.
LEMMA StampsAreOrdered ==
    ASSUME NEW a \in Stamp, NEW b \in Stamp
    PROVE  /\ StampLess(a, b) \/ a = b \/ StampLess(b, a)
           /\ ~StampLess(a, a)
           /\ StampLess(a, b) => ~StampLess(b, a) /\ a # b
  BY DEF Stamp, StampLess

LEMMA StampsAreTransitive ==
    ASSUME NEW a \in Stamp, NEW b \in Stamp, NEW c \in Stamp, StampLeq(a, b), StampLeq(b, c)
    PROVE  StampLeq(a, c)
  BY DEF Stamp, StampLess, StampLeq

\* Finitely many stamps have a newest one: the greatest actor among those with the greatest
\* counter.
LEMMA NewestOfFinite ==
    ASSUME NEW S \in SUBSET Stamp, IsFiniteSet(S), S # {}
    PROVE  \E s \in S : \A t \in S : StampLeq(t, s)
  <1> DEFINE f == [s \in S |-> s.counter]
             numbers == {f[s] : s \in S}
  <1>1. \A s \in S : f[s] = s.counter
    BY Zenon
  <1>2. \A s \in S : s.counter \in Nat /\ s.actor \in Nat
    BY DEF Stamp
  <1> HIDE DEF f
  <1>3. numbers \in SUBSET Nat /\ numbers # {} /\ \A s \in S : s.counter \in numbers
    BY <1>1, <1>2
  <1>4. IsFiniteSet(numbers)
    BY FiniteImage
  <1> HIDE DEF numbers
  <1>5. PICK c \in numbers : \A d \in numbers : d <= c
    BY <1>3, <1>4, GreatestOfFinite
  <1> DEFINE top == {s \in S : s.counter = c}
             g == [s \in top |-> s.actor]
             actors == {g[s] : s \in top}
  <1>6. top # {} /\ IsFiniteSet(top)
    <2>1. \E s \in S : f[s] = c
      BY <1>5 DEF numbers
    <2>2. top \in SUBSET S
      OBVIOUS
    <2> QED BY <1>1, <2>1, <2>2, FS_Subset
  <1>7. \A s \in top : g[s] = s.actor /\ g[s] \in Nat
    BY <1>2, Zenon
  <1> HIDE DEF g, top
  <1>8. actors \in SUBSET Nat /\ actors # {}
    BY <1>6, <1>7
  <1>9. IsFiniteSet(actors)
    BY <1>6, FiniteImage
  <1>10. \A s \in top : s.actor \in actors
    BY <1>7
  <1>11. \A a \in actors : \E s \in top : s.actor = a
    BY <1>7
  <1> HIDE DEF actors
  <1>12. PICK a \in actors : \A b \in actors : b <= a
    BY <1>8, <1>9, GreatestOfFinite
  <1>13. PICK s \in top : s.actor = a
    BY <1>11
  <1>14. ASSUME NEW t \in S PROVE StampLeq(t, s)
    <2>1. s \in S /\ s.counter = c /\ s \in Stamp /\ t \in Stamp /\ t.counter <= c /\ c \in Nat
      BY <1>3, <1>5 DEF top
    <2>2. CASE t.counter = c
      <3>1. t.actor <= s.actor
        BY <1>10, <1>12, <1>13, <2>2 DEF top
      <3> QED BY <2>1, <2>2, <3>1 DEF StampLeq, StampLess, Stamp
    <2>3. CASE t.counter # c
      BY <2>1, <2>3 DEF StampLeq, StampLess, Stamp
    <2> QED BY <2>2, <2>3
  <1> QED BY <1>14 DEF top

-----------------------------------------------------------------------------
(* Ownership and claims.                                                   *)

USE OwnershipConstants

\* A key in use is recorded at its holder, ...
KeysAreHeld == \A n \in Machines : fleetKey[n] # 0 => n \in holders[fleetKey[n]]

\* ... a key is only handed down by one who has held it, ...
HandoffsAreOfHolders == \A m \in posts : m.kind = "key" => m.from \in holders[m.key]

\* ... and nobody has held one that is not minted.
UnusedKeysAreUnheld == \A k \in Keys : minter[k] = 0 => holders[k] = {}

\* A claim that is waited for has been sent, and not been confirmed.
ClaimsAreSolicited ==
    \A n, m \in Machines :
        /\ admitted[n][m] <= solicited[n][m]
        /\ m \in pending[n] => admitted[n][m] < solicited[n][m]

OwnershipInv ==
    /\ OwnershipTypeOK /\ KeyFollowsOwner
    /\ KeysAreHeld /\ HandoffsAreOfHolders /\ UnusedKeysAreUnheld
    /\ ClaimsAreSolicited

LEMMA MailSends ==
    ASSUME NEW rest, NEW messages, Mail(rest, messages)
    PROVE  posts' \subseteq rest \cup messages
  BY DEF Mail

LEMMA AdvertiseTyped ==
    ASSUME OwnershipTypeOK, NEW n \in Machines, Advertise(n)
    PROVE  offered' \subseteq Machines
  BY DEF Advertise, OwnershipTypeOK

LEMMA NetworkTyped ==
    ASSUME OwnershipTypeOK, NEW n \in Machines, EnsureFleetNetwork(n),
           fleetKey'[n] \in Keys \cup {0}, members'[n] \in SUBSET Machines
    PROVE  /\ signed' \in [Keys -> SUBSET Machines]
           /\ evicted' \in [Keys -> SUBSET Machines]
           /\ founders' \in [Keys -> SUBSET Machines]
  <1> DEFINE k == fleetKey'[n]
             all == IF k # 0 /\ Founder(n)' THEN [founders EXCEPT ![k] = @ \cup {n}] ELSE founders
  <1>1. all \in [Keys -> SUBSET Machines]
    BY DEF OwnershipTypeOK
  <1>2. founders' = all
    BY DEF EnsureFleetNetwork
  <1>3. \/ /\ signed' = [signed EXCEPT ![k] = @ \cup members'[n]]
           /\ evicted' = [evicted EXCEPT ![k] = @ \ members'[n]]
        \/ UNCHANGED <<signed, evicted>>
    BY DEF EnsureFleetNetwork
  <1> HIDE DEF all, k
  <1> QED BY <1>1, <1>2, <1>3 DEF OwnershipTypeOK

LEMMA EvictTyped ==
    ASSUME OwnershipTypeOK, NEW n \in Machines, NEW k \in Keys, NEW m \in Machines, Evict(n, k, m)
    PROVE  /\ signed' \in [Keys -> SUBSET Machines]
           /\ evicted' \in [Keys -> SUBSET Machines]
           /\ founders' \in [Keys -> SUBSET Machines]
  BY DEF Evict, OwnershipTypeOK

LEMMA HandoffsOfHolder ==
    ASSUME NEW n \in Machines, NEW m \in Machines, fleetKey'[n] \in Keys \cup {0},
           fleetKey'[n] # 0 => n \in holders'[fleetKey'[n]]
    PROVE  /\ Handoff(n, m) \subseteq OwnershipMessage
           /\ \A x \in Handoff(n, m) : x.from \in holders'[x.key]
  BY DEF Handoff, OwnershipMessage

\* The relation of keys, holders and owners after a step.
KeysInOrder ==
    /\ KeyFollowsOwner /\ KeysAreHeld /\ HandoffsAreOfHolders /\ UnusedKeysAreUnheld

\* A step that gives no key away and takes none, for messages that hand none down.
LEMMA KeysUntouched ==
    ASSUME OwnershipInv, owner' = owner, fleetKey' = fleetKey, minter' = minter,
           holders' = holders, NEW sent, posts' \subseteq posts \cup sent,
           \A x \in sent : x.kind = "key" => x.from \in holders[x.key]
    PROVE  KeysInOrder'
  BY DEF OwnershipInv, KeysInOrder, KeyFollowsOwner, KeysAreHeld, HandoffsAreOfHolders,
         UnusedKeysAreUnheld

\* A step after which one device has no key any more.
LEMMA KeyDropped ==
    ASSUME OwnershipInv, minter' = minter, holders' = holders, NEW n \in Machines,
           fleetKey' = [fleetKey EXCEPT ![n] = 0],
           \A x \in Machines \ {n} : owner'[x] = owner[x],
           NEW sent, posts' \subseteq posts \cup sent,
           \A x \in sent : x.kind = "key" => x.from \in holders[x.key]
    PROVE  KeysInOrder'
  <1>1. \A x \in Machines : fleetKey'[x] = IF x = n THEN 0 ELSE fleetKey[x]
    BY DEF OwnershipInv, OwnershipTypeOK
  <1> QED BY <1>1 DEF OwnershipInv, KeysInOrder, KeyFollowsOwner, KeysAreHeld, HandoffsAreOfHolders,
         UnusedKeysAreUnheld

LEMMA ClaimsUntouched ==
    ASSUME OwnershipInv, UNCHANGED <<solicited, admitted>>,
           \A n \in Machines : pending'[n] \subseteq pending[n]
    PROVE  ClaimsAreSolicited'
  BY DEF OwnershipInv, ClaimsAreSolicited

LEMMA OwnershipInitially == OwnershipInit => OwnershipInv
  <1>1. SUFFICES ASSUME OwnershipInit PROVE OwnershipInv
    OBVIOUS
  <1>2. OwnershipTypeOK
    BY <1>1 DEF OwnershipInit, OwnershipTypeOK
  <1>3. KeyFollowsOwner /\ KeysAreHeld /\ HandoffsAreOfHolders /\ UnusedKeysAreUnheld
    BY <1>1 DEF OwnershipInit, KeyFollowsOwner, KeysAreHeld, HandoffsAreOfHolders, UnusedKeysAreUnheld
  <1>4. ClaimsAreSolicited
    BY <1>1 DEF OwnershipInit, ClaimsAreSolicited
  <1> QED BY <1>2, <1>3, <1>4 DEF OwnershipInv

LEMMA SetClaimableKeeps ==
    ASSUME OwnershipInv, NEW n \in Machines, NEW on \in BOOLEAN, SetClaimable(n, on)
    PROVE  OwnershipInv'
  <1>1. OwnershipTypeOK'
    <2>1. offered' \subseteq Machines
      BY AdvertiseTyped DEF SetClaimable, OwnershipInv
    <2>2. claimMode' \in [Machines -> BOOLEAN] /\ \A x \in Machines : claimMode'[x] => owner[x] = 0
      BY DEF SetClaimable, OwnershipInv, OwnershipTypeOK
    <2> QED BY <2>1, <2>2 DEF SetClaimable, OwnershipInv, OwnershipTypeOK, governance, witnesses
  <1>2. KeysInOrder'
    <2> DEFINE sent == {}
    <2>1. posts' \subseteq posts \cup sent /\ \A x \in sent : x.kind # "key"
      BY DEF SetClaimable
    <2> HIDE DEF sent
    <2> QED BY <2>1, KeysUntouched DEF SetClaimable, witnesses
  <1>3. ClaimsAreSolicited'
    BY ClaimsUntouched DEF SetClaimable, witnesses
  <1> QED BY <1>1, <1>2, <1>3 DEF OwnershipInv, KeysInOrder

LEMMA SendClaimKeeps ==
    ASSUME OwnershipInv, NEW n \in Machines, NEW m \in Machines, SendClaim(n, m)
    PROVE  OwnershipInv'
  <1> DEFINE sent == {Message("claim", n, m)}
  <1>1. posts' \subseteq posts \cup sent
    BY MailSends DEF SendClaim
  <1>2. sent \subseteq OwnershipMessage /\ \A x \in sent : x.kind # "key"
    BY DEF Message, OwnershipMessage
  <1> HIDE DEF sent
  <1>3. OwnershipTypeOK'
    <2>1. pending' \in [Machines -> SUBSET Machines]
      BY DEF SendClaim, OwnershipInv, OwnershipTypeOK
    <2>2. solicited' \in [Machines -> [Machines -> Nat]]
      BY DEF SendClaim, OwnershipInv, OwnershipTypeOK
    <2>3. claims' \in 0 .. MaxClaims
      BY DEF SendClaim, OwnershipInv, OwnershipTypeOK
    <2> QED BY <1>1, <1>2, <2>1, <2>2, <2>3 DEF SendClaim, OwnershipInv, OwnershipTypeOK, governance
  <1>4. KeysInOrder'
    BY <1>1, <1>2, KeysUntouched DEF SendClaim
  <1>5. ClaimsAreSolicited'
    BY DEF SendClaim, ClaimsAreSolicited, OwnershipInv, OwnershipTypeOK
  <1> QED BY <1>3, <1>4, <1>5 DEF OwnershipInv, KeysInOrder

\* The handlers, for a message that goes or stays.

LEMMA OnClaimKeeps ==
    ASSUME OwnershipInv, NEW m \in posts, NEW rest \in SUBSET posts, OnClaim(m, rest),
           mishaps' \in 0 .. MaxMishaps
    PROVE  OwnershipInv'
  <1>1. m.from \in Machines /\ m.to \in Machines
    BY DEF OwnershipInv, OwnershipTypeOK, OwnershipMessage
  <1> DEFINE sent == {Message("claimed", m.to, m.from)}
  <1>2. sent \subseteq OwnershipMessage /\ \A x \in sent : x.kind # "key"
    BY <1>1 DEF Message, OwnershipMessage
  <1>3. posts' \subseteq posts \cup sent
    BY MailSends DEF OnClaim, AcceptClaim, DeclineClaim
  <1> HIDE DEF sent
  <1>4. ClaimsAreSolicited'
    BY ClaimsUntouched DEF OnClaim, AcceptClaim, DeclineClaim, witnesses, record
  <1>5. CASE AcceptClaim(m, rest)
    <2>1. OwnershipTypeOK'
      <3>1. /\ owner' \in [Machines -> Machines \cup {0}]
            /\ claimMode' \in [Machines -> BOOLEAN]
            /\ \A n \in Machines : claimMode'[n] => owner'[n] = 0
        BY <1>1, <1>5 DEF AcceptClaim, OwnershipInv, OwnershipTypeOK
      <3>2. /\ fleetKey' \in [Machines -> Keys \cup {0}]
            /\ members' \in [Machines -> SUBSET Machines]
        BY <1>1, <1>5 DEF AcceptClaim, OwnershipInv, OwnershipTypeOK
      <3> QED BY <1>2, <1>3, <1>5, <3>1, <3>2
           DEF AcceptClaim, OnClaim, OwnershipInv, OwnershipTypeOK, governance, witnesses
    <2>2. KeysInOrder'
      <3>1. fleetKey' = [fleetKey EXCEPT ![m.to] = 0]
        BY <1>5 DEF AcceptClaim
      <3>2. \A x \in Machines \ {m.to} : owner'[x] = owner[x]
        BY <1>5 DEF AcceptClaim, OwnershipInv, OwnershipTypeOK
      <3> QED BY <1>1, <1>2, <1>3, <3>1, <3>2, KeyDropped DEF OnClaim, witnesses
    <2> QED BY <1>4, <2>1, <2>2 DEF OwnershipInv, KeysInOrder
  <1>6. CASE DeclineClaim(m, rest)
    <2>1. OwnershipTypeOK'
      BY <1>2, <1>3, <1>6
         DEF DeclineClaim, OnClaim, OwnershipInv, OwnershipTypeOK, governance, witnesses, record
    <2>2. KeysInOrder'
      BY <1>2, <1>3, <1>6, KeysUntouched DEF DeclineClaim, OnClaim, witnesses, record
    <2> QED BY <1>4, <2>1, <2>2 DEF OwnershipInv, KeysInOrder
  <1> QED BY <1>5, <1>6 DEF OnClaim

\* The key of n after EnsureKey: the one it has, or one that nobody has held.
LEMMA KeyEnsured ==
    ASSUME OwnershipInv, NEW n \in Machines, EnsureKey(n)
    PROVE  /\ fleetKey' \in [Machines -> Keys \cup {0}] /\ minted' \in [Machines -> BOOLEAN]
           /\ minter' \in [Keys -> Machines \cup {0}] /\ holders' \in [Keys -> SUBSET Machines]
           /\ \A x \in Machines \ {n} : fleetKey'[x] = fleetKey[x]
           /\ fleetKey'[n] # 0
           /\ \/ UNCHANGED <<fleetKey, minter, holders>>
              \/ /\ minter[fleetKey'[n]] = 0
                 /\ minter' = [minter EXCEPT ![fleetKey'[n]] = n]
                 /\ holders' = [holders EXCEPT ![fleetKey'[n]] = {n}]
  <1>1. CASE fleetKey[n] # 0
    BY <1>1 DEF EnsureKey, OwnershipInv, OwnershipTypeOK
  <1>2. CASE fleetKey[n] = 0
    <2> DEFINE k == CHOOSE x \in Unused : \A y \in Unused : x <= y
    <2>1. /\ Unused # {}
          /\ fleetKey' = [fleetKey EXCEPT ![n] = k]
          /\ minted' = [minted EXCEPT ![n] = TRUE]
          /\ minter' = [minter EXCEPT ![k] = n]
          /\ holders' = [holders EXCEPT ![k] = {n}]
      BY <1>2 DEF EnsureKey
    <2>2. Unused \in SUBSET Nat
      BY DEF Unused, Keys
    <2>3. \E x \in Unused : \A y \in Unused : x <= y
      BY <2>1, <2>2, LeastNatural
    <2>4. k \in Unused
      BY <2>3
    <2> HIDE DEF k
    <2>5. k \in Keys /\ minter[k] = 0 /\ k # 0
      BY <2>4 DEF Unused, Keys
    <2>6. fleetKey'[n] = k /\ \A x \in Machines \ {n} : fleetKey'[x] = fleetKey[x]
      BY <2>1 DEF OwnershipInv, OwnershipTypeOK
    <2> QED BY <2>1, <2>5, <2>6 DEF OwnershipInv, OwnershipTypeOK
  <1> QED BY <1>1, <1>2

LEMMA OnClaimedKeeps ==
    ASSUME OwnershipInv, NEW m \in posts, NEW rest \in SUBSET posts, OnClaimed(m, rest),
           mishaps' \in 0 .. MaxMishaps
    PROVE  OwnershipInv'
  <1> DEFINE n == m.to
             sent == Handoff(n, m.from)
  <1>1. m.from \in Machines /\ n \in Machines
    BY DEF OwnershipInv, OwnershipTypeOK, OwnershipMessage
  <1>2. CASE HonourClaimed(m, rest)
    <2>1. EnsureKey(n) /\ EnsureFleetNetwork(n) /\ posts' \subseteq posts \cup sent
      BY <1>2, MailSends DEF HonourClaimed
    <2>2. /\ members' \in [Machines -> SUBSET Machines]
          /\ pending' \in [Machines -> SUBSET Machines]
      <3>1. /\ members' = [members EXCEPT ![n] = @ \cup {n, m.from}]
            /\ pending' = [pending EXCEPT ![n] = @ \ {m.from}]
        BY <1>2 DEF HonourClaimed
      <3> HIDE DEF n, sent
      <3> QED BY <1>1, <3>1 DEF OwnershipInv, OwnershipTypeOK
    <2>3. admitted' \in [Machines -> [Machines -> Nat]]
      <3>1. PICK p : p = m.from
        OBVIOUS
      <3>2. admitted' = [admitted EXCEPT ![n][p] = @ + 1]
        BY <1>2, <3>1 DEF HonourClaimed
      <3> HIDE DEF n, sent
      <3>3. p \in Machines /\ n \in Machines /\ admitted \in [Machines -> [Machines -> Nat]]
        BY <1>1, <3>1 DEF OwnershipInv, OwnershipTypeOK
      <3> QED BY <3>2, <3>3
    <2>4. /\ fleetKey' \in [Machines -> Keys \cup {0}] /\ minted' \in [Machines -> BOOLEAN]
          /\ minter' \in [Keys -> Machines \cup {0}] /\ holders' \in [Keys -> SUBSET Machines]
          /\ \A x \in Machines \ {n} : fleetKey'[x] = fleetKey[x]
          /\ fleetKey'[n] # 0
          /\ \/ UNCHANGED <<fleetKey, minter, holders>>
             \/ /\ minter[fleetKey'[n]] = 0
                /\ minter' = [minter EXCEPT ![fleetKey'[n]] = n]
                /\ holders' = [holders EXCEPT ![fleetKey'[n]] = {n}]
      BY <1>1, <2>1, KeyEnsured
    <2>5. fleetKey'[n] \in Keys /\ n \in holders'[fleetKey'[n]]
      <3> HIDE DEF n, sent
      <3>1. fleetKey'[n] \in Keys
        BY <1>1, <2>4 DEF Keys
      <3>2. CASE UNCHANGED <<fleetKey, minter, holders>>
        BY <1>1, <2>4, <3>2 DEF OwnershipInv, KeysAreHeld
      <3>3. CASE holders' = [holders EXCEPT ![fleetKey'[n]] = {n}]
        BY <3>1, <3>3 DEF OwnershipInv, OwnershipTypeOK
      <3> QED BY <2>4, <3>1, <3>2, <3>3
    <2>6. sent \subseteq OwnershipMessage /\ \A x \in sent : x.from \in holders'[x.key]
      BY <1>1, <2>5, HandoffsOfHolder
    <2> HIDE DEF n, sent
    <2>7. OwnershipTypeOK'
      <3>1. /\ signed' \in [Keys -> SUBSET Machines]
            /\ evicted' \in [Keys -> SUBSET Machines]
            /\ founders' \in [Keys -> SUBSET Machines]
        BY <1>1, <2>1, <2>2, <2>5, NetworkTyped DEF OwnershipInv
      <3>2. posts' \subseteq OwnershipMessage
        BY <2>1, <2>6 DEF OwnershipInv, OwnershipTypeOK
      <3> QED BY <1>2, <2>2, <2>3, <2>4, <3>1, <3>2
           DEF HonourClaimed, OnClaimed, OwnershipInv, OwnershipTypeOK
    <2>8. \A k \in Keys : k # fleetKey'[n] \/ minter' = minter =>
             minter'[k] = minter[k] /\ holders'[k] = holders[k]
      BY <2>4, <2>5 DEF OwnershipInv, OwnershipTypeOK
    <2>9. UNCHANGED <<minter, holders, fleetKey>>
          \/ (minter[fleetKey'[n]] = 0 /\ holders[fleetKey'[n]] = {} /\ minter'[fleetKey'[n]] = n)
      BY <2>4, <2>5 DEF OwnershipInv, OwnershipTypeOK, UnusedKeysAreUnheld
    <2>10. \A k \in Keys : holders[k] \subseteq holders'[k] /\ (minter[k] # 0 => minter'[k] = minter[k])
      BY <2>8, <2>9
    <2>11. KeyFollowsOwner'
      <3>1. SUFFICES ASSUME NEW x \in Machines, fleetKey'[x] # 0
                     PROVE  \/ minter'[fleetKey'[x]] = x
                            \/ owner'[x] # 0 /\ owner'[x] \in holders'[fleetKey'[x]]
        BY DEF KeyFollowsOwner
      <3>2. CASE fleetKey'[x] = fleetKey[x]
        <4>1. fleetKey[x] \in Keys /\ owner' = owner
          BY <1>2, <3>1, <3>2 DEF OwnershipInv, OwnershipTypeOK, HonourClaimed
        <4> QED BY <2>10, <3>1, <3>2, <4>1 DEF OwnershipInv, KeyFollowsOwner
      <3>3. CASE fleetKey'[x] # fleetKey[x]
        BY <2>4, <2>9, <3>1, <3>3
      <3> QED BY <3>2, <3>3
    <2>12. KeysAreHeld'
      <3>1. SUFFICES ASSUME NEW x \in Machines, fleetKey'[x] # 0
                     PROVE  x \in holders'[fleetKey'[x]]
        BY DEF KeysAreHeld
      <3>2. CASE x = n
        BY <2>5, <3>2
      <3>3. CASE x # n
        BY <2>4, <2>10, <3>1, <3>3 DEF OwnershipInv, KeysAreHeld
      <3> QED BY <3>2, <3>3
    <2>13. HandoffsAreOfHolders'
      <3>1. \A x \in posts : x.kind = "key" => x.key \in Keys
        BY DEF OwnershipInv, OwnershipTypeOK, OwnershipMessage
      <3> QED BY <2>1, <2>6, <2>10, <3>1 DEF OwnershipInv, HandoffsAreOfHolders
    <2>14. UnusedKeysAreUnheld'
      BY <1>1, <2>8, <2>9 DEF OwnershipInv, UnusedKeysAreUnheld
    <2>15. ClaimsAreSolicited'
      <3>1. solicited' = solicited
        BY DEF OnClaimed
      <3>2. m.from \in pending[n] /\ pending' = [pending EXCEPT ![n] = @ \ {m.from}]
            /\ admitted' = [admitted EXCEPT ![n][m.from] = @ + 1]
        BY <1>2 DEF HonourClaimed, n
      <3> QED BY <1>1, <3>1, <3>2 DEF OwnershipInv, OwnershipTypeOK, ClaimsAreSolicited
    <2> QED BY <2>7, <2>11, <2>12, <2>13, <2>14, <2>15 DEF OwnershipInv
  <1>3. CASE ~HonourClaimed(m, rest)
    <2>1. /\ posts' = rest
          /\ UNCHANGED <<record, governance, minter, holders, admitted>>
      BY <1>3 DEF OnClaimed
    <2>2. OwnershipTypeOK'
      BY <2>1 DEF OnClaimed, OwnershipInv, OwnershipTypeOK, governance, record
    <2>3. KeysInOrder'
      <3> DEFINE none == {}
      <3>1. posts' \subseteq posts \cup none /\ \A x \in none : x.kind # "key"
        BY <2>1
      <3> HIDE DEF none
      <3> QED BY <2>1, <3>1, KeysUntouched DEF record
    <2>4. ClaimsAreSolicited'
      BY <2>1, ClaimsUntouched DEF OnClaimed, record
    <2> QED BY <2>2, <2>3, <2>4 DEF OwnershipInv, KeysInOrder
  <1> QED BY <1>2, <1>3

LEMMA OnFleetKeyKeeps ==
    ASSUME OwnershipInv, NEW m \in posts, NEW rest \in SUBSET posts, OnFleetKey(m, rest),
           mishaps' \in 0 .. MaxMishaps
    PROVE  OwnershipInv'
  <1> DEFINE none == {}
  <1>1. /\ m.from \in Machines /\ m.to \in Machines
        /\ m.key \in Keys /\ m.key # 0 /\ m.from # 0
    <2>1. m \in OwnershipMessage /\ m.kind = "key"
      BY DEF OnFleetKey, OwnershipInv, OwnershipTypeOK
    <2> QED BY <2>1 DEF OwnershipMessage, Keys
  <1>2. posts' \subseteq posts \cup none /\ \A x \in none : x.kind # "key"
    BY DEF OnFleetKey
  <1> HIDE DEF none
  <1>3. ClaimsAreSolicited'
    BY ClaimsUntouched DEF OnFleetKey, Adopt, record
  <1>4. CASE FromOwner(m)
    <2> DEFINE n == m.to
               k == m.key
    <2>1. Adopt(n, k) /\ owner[n] = m.from
      BY <1>4 DEF OnFleetKey, FromOwner
    <2>2. n \in Machines /\ k \in Keys /\ k # 0
      BY <1>1
    <2> HIDE DEF n, k
    <2>3. /\ fleetKey' \in [Machines -> Keys \cup {0}] /\ minted' \in [Machines -> BOOLEAN]
          /\ holders' \in [Keys -> SUBSET Machines] /\ fleetKey'[n] = k
      BY <2>1, <2>2 DEF Adopt, OwnershipInv, OwnershipTypeOK
    <2>4. /\ signed' \in [Keys -> SUBSET Machines]
          /\ evicted' \in [Keys -> SUBSET Machines]
          /\ founders' \in [Keys -> SUBSET Machines]
      <3>1. CASE fleetKey[n] # k
        <4>1. EnsureFleetNetwork(n) /\ members'[n] \in SUBSET Machines
          BY <2>1, <2>2, <3>1 DEF Adopt, OwnershipInv, OwnershipTypeOK
        <4> QED BY <2>2, <2>3, <4>1, NetworkTyped DEF OwnershipInv
      <3>2. CASE fleetKey[n] = k
        BY <2>1, <3>2 DEF Adopt, governance, OwnershipInv, OwnershipTypeOK
      <3> QED BY <3>1, <3>2
    <2>5. OwnershipTypeOK'
      BY <2>1, <2>3, <2>4 DEF OnFleetKey, Adopt, OwnershipInv, OwnershipTypeOK
    <2>6. KeysInOrder'
      <3>1. /\ fleetKey' = [fleetKey EXCEPT ![n] = k]
            /\ holders' = [holders EXCEPT ![k] = @ \cup {n}]
            /\ owner' = owner /\ minter' = minter
        BY <2>1 DEF Adopt, OnFleetKey
      <3>2. m.from \in holders[k]
        BY DEF OwnershipInv, HandoffsAreOfHolders, OnFleetKey, k
      <3>3. \A x \in Keys : holders'[x] = IF x = k THEN holders[x] \cup {n} ELSE holders[x]
        BY <3>1 DEF OwnershipInv, OwnershipTypeOK
      <3>4. \A x \in Machines : fleetKey'[x] = IF x = n THEN k ELSE fleetKey[x]
        BY <3>1 DEF OwnershipInv, OwnershipTypeOK
      <3>5. KeyFollowsOwner'
        <4>1. \A x \in Machines : fleetKey[x] \in Keys \cup {0}
          BY DEF OwnershipInv, OwnershipTypeOK
        <4> QED BY <1>1, <2>1, <2>2, <3>1, <3>2, <3>3, <3>4, <4>1 DEF OwnershipInv, KeyFollowsOwner
      <3>6. KeysAreHeld'
        <4>1. \A x \in Machines : fleetKey[x] \in Keys \cup {0}
          BY DEF OwnershipInv, OwnershipTypeOK
        <4> QED BY <2>2, <3>3, <3>4, <4>1 DEF OwnershipInv, KeysAreHeld
      <3>7. HandoffsAreOfHolders'
        <4>1. \A x \in posts : x.kind = "key" => x.key \in Keys
          BY DEF OwnershipInv, OwnershipTypeOK, OwnershipMessage
        <4> QED BY <1>2, <3>3, <4>1 DEF OwnershipInv, HandoffsAreOfHolders
      <3>8. UnusedKeysAreUnheld'
        BY <2>2, <3>1, <3>2, <3>3 DEF OwnershipInv, UnusedKeysAreUnheld
      <3> QED BY <3>5, <3>6, <3>7, <3>8 DEF KeysInOrder
    <2> QED BY <1>3, <2>5, <2>6 DEF OwnershipInv, KeysInOrder
  <1>5. CASE ~FromOwner(m)
    <2>1. UNCHANGED <<record, governance, holders>>
      BY <1>5 DEF OnFleetKey
    <2>2. OwnershipTypeOK'
      BY <2>1 DEF OnFleetKey, OwnershipInv, OwnershipTypeOK, governance, record
    <2>3. KeysInOrder'
      BY <1>2, <2>1, KeysUntouched DEF OnFleetKey, record
    <2> QED BY <1>3, <2>2, <2>3 DEF OwnershipInv, KeysInOrder
  <1> QED BY <1>4, <1>5

\* ClearFleet leaves a device without owner and key.
LEMMA FleetCleared ==
    ASSUME OwnershipInv, NEW n \in Machines, ClearFleet(n)
    PROVE  /\ owner' \in [Machines -> Machines \cup {0}]
           /\ fleetKey' \in [Machines -> Keys \cup {0}]
           /\ members' \in [Machines -> SUBSET Machines]
           /\ \A x \in Machines : claimMode[x] => owner'[x] = 0
           /\ fleetKey' = [fleetKey EXCEPT ![n] = 0]
           /\ \A x \in Machines \ {n} : owner'[x] = owner[x]
           /\ UNCHANGED <<claimMode, minted, pending>>
  BY DEF ClearFleet, OwnershipInv, OwnershipTypeOK

LEMMA OnReleaseKeeps ==
    ASSUME OwnershipInv, NEW m \in posts, NEW rest \in SUBSET posts, OnRelease(m, rest),
           mishaps' \in 0 .. MaxMishaps
    PROVE  OwnershipInv'
  <1> DEFINE none == {}
  <1>1. m.from \in Machines /\ m.to \in Machines
    BY DEF OwnershipInv, OwnershipTypeOK, OwnershipMessage
  <1>2. posts' \subseteq posts \cup none /\ \A x \in none : x.kind # "key"
    BY DEF OnRelease
  <1>3. offered' \subseteq Machines
    BY <1>1, AdvertiseTyped DEF OnRelease, OwnershipInv
  <1> HIDE DEF none
  <1>4. CASE FromOwner(m)
    <2>1. ClearFleet(m.to)
      BY <1>4 DEF OnRelease
    <2>2. OwnershipTypeOK'
      <3>1. /\ owner' \in [Machines -> Machines \cup {0}]
            /\ fleetKey' \in [Machines -> Keys \cup {0}]
            /\ members' \in [Machines -> SUBSET Machines]
            /\ \A x \in Machines : claimMode[x] => owner'[x] = 0
            /\ UNCHANGED <<claimMode, minted, pending>>
        BY <1>1, <2>1, FleetCleared
      <3>2. posts' \subseteq OwnershipMessage
        BY DEF OnRelease, OwnershipInv, OwnershipTypeOK
      <3> QED BY <1>3, <3>1, <3>2
           DEF OnRelease, OwnershipInv, OwnershipTypeOK, governance, witnesses
    <2>3. KeysInOrder'
      BY <1>1, <1>2, <2>1, FleetCleared, KeyDropped DEF OnRelease, witnesses
    <2>4. ClaimsAreSolicited'
      BY <1>1, <2>1, FleetCleared, ClaimsUntouched DEF OnRelease, witnesses
    <2> QED BY <2>2, <2>3, <2>4 DEF OwnershipInv, KeysInOrder
  <1>5. CASE ~FromOwner(m)
    <2>1. UNCHANGED record
      BY <1>5 DEF OnRelease
    <2>2. OwnershipTypeOK'
      BY <1>3, <2>1
         DEF OnRelease, OwnershipInv, OwnershipTypeOK, governance, record, witnesses
    <2>3. KeysInOrder'
      BY <1>2, <2>1, KeysUntouched DEF OnRelease, record, witnesses
    <2>4. ClaimsAreSolicited'
      BY <2>1, ClaimsUntouched DEF OnRelease, record, witnesses
    <2> QED BY <2>2, <2>3, <2>4 DEF OwnershipInv, KeysInOrder
  <1> QED BY <1>4, <1>5

LEMMA OnDepartedKeeps ==
    ASSUME OwnershipInv, NEW m \in posts, NEW rest \in SUBSET posts, OnDeparted(m, rest),
           mishaps' \in 0 .. MaxMishaps
    PROVE  OwnershipInv'
  <1> DEFINE none == {}
  <1>1. m.from \in Machines /\ m.to \in Machines
    BY DEF OwnershipInv, OwnershipTypeOK, OwnershipMessage
  <1>2. posts' \subseteq posts \cup none /\ \A x \in none : x.kind # "key"
    BY DEF OnDeparted
  <1> HIDE DEF none
  <1>3. /\ members' \in [Machines -> SUBSET Machines]
        /\ signed' \in [Keys -> SUBSET Machines]
        /\ evicted' \in [Keys -> SUBSET Machines]
        /\ founders' \in [Keys -> SUBSET Machines]
    <2>1. CASE UNCHANGED <<members, governance>>
      BY <2>1 DEF governance, OwnershipInv, OwnershipTypeOK
    <2>2. CASE ~ UNCHANGED <<members, governance>>
      <3>1. /\ fleetKey[m.to] # 0
            /\ members' = [members EXCEPT ![m.to] = @ \ {m.from}]
            /\ Evict(m.to, fleetKey[m.to], m.from)
        BY <2>2 DEF OnDeparted
      <3>2. fleetKey[m.to] \in Keys
        BY <1>1, <3>1 DEF OwnershipInv, OwnershipTypeOK
      <3>3. members' \in [Machines -> SUBSET Machines]
        BY <1>1, <3>1 DEF OwnershipInv, OwnershipTypeOK
      <3> QED BY <1>1, <3>1, <3>2, <3>3, EvictTyped DEF OwnershipInv
    <2> QED BY <2>1, <2>2
  <1>4. OwnershipTypeOK'
    BY <1>3 DEF OnDeparted, OwnershipInv, OwnershipTypeOK, witnesses
  <1>5. KeysInOrder'
    BY <1>2, KeysUntouched DEF OnDeparted, witnesses
  <1>6. ClaimsAreSolicited'
    BY ClaimsUntouched DEF OnDeparted, witnesses
  <1> QED BY <1>4, <1>5, <1>6 DEF OwnershipInv, KeysInOrder

LEMMA HandleOwnershipKeeps ==
    ASSUME OwnershipInv, NEW m \in posts, NEW rest \in SUBSET posts, HandleOwnership(m, rest),
           mishaps' \in 0 .. MaxMishaps
    PROVE  OwnershipInv'
  BY OnClaimKeeps, OnClaimedKeeps, OnFleetKeyKeeps, OnReleaseKeeps, OnDepartedKeeps
     DEF HandleOwnership

\* What a device or its user does.

LEMMA SelfEvictedKeeps ==
    ASSUME OwnershipInv, NEW n \in Machines, SelfEvicted(n)
    PROVE  OwnershipInv'
  <1> DEFINE none == {}
  <1>1. posts' \subseteq posts \cup none /\ \A x \in none : x.kind # "key"
    BY DEF SelfEvicted
  <1> HIDE DEF none
  <1>2. ClearFleet(n) /\ offered' \subseteq Machines
    BY AdvertiseTyped DEF SelfEvicted, OwnershipInv
  <1>3. OwnershipTypeOK'
    BY <1>2, FleetCleared DEF SelfEvicted, OwnershipInv, OwnershipTypeOK, governance, witnesses
  <1>4. KeysInOrder'
    BY <1>1, <1>2, FleetCleared, KeyDropped DEF SelfEvicted, witnesses
  <1>5. ClaimsAreSolicited'
    BY <1>2, FleetCleared, ClaimsUntouched DEF SelfEvicted, witnesses
  <1> QED BY <1>3, <1>4, <1>5 DEF OwnershipInv, KeysInOrder

LEMMA LeaveKeeps ==
    ASSUME OwnershipInv, NEW n \in Machines, Leave(n)
    PROVE  OwnershipInv'
  <1> DEFINE sent == IF StructuralOwner(n)
                     THEN {Message("release", n, m) : m \in members[n] \ {n}}
                     ELSE {Message("departed", n, owner[n])}
  <1>1. sent \subseteq OwnershipMessage /\ \A x \in sent : x.kind # "key"
    <2>1. CASE StructuralOwner(n)
      BY <2>1 DEF Message, OwnershipMessage, OwnershipInv, OwnershipTypeOK
    <2>2. CASE ~StructuralOwner(n)
      <3>1. owner[n] \in Machines
        BY <2>2 DEF StructuralOwner, Leave, OwnershipInv, OwnershipTypeOK
      <3> QED BY <2>2, <3>1 DEF Message, OwnershipMessage
    <2> QED BY <2>1, <2>2
  <1>2. posts' \subseteq posts \cup sent
    BY MailSends DEF Leave
  <1> HIDE DEF sent
  <1>3. ClearFleet(n) /\ offered' \subseteq Machines
    BY AdvertiseTyped DEF Leave, OwnershipInv
  <1>4. OwnershipTypeOK'
    <2>1. partings' \in 0 .. MaxPartings
      BY DEF Leave, OwnershipInv, OwnershipTypeOK
    <2> QED BY <1>1, <1>2, <1>3, <2>1, FleetCleared
            DEF Leave, OwnershipInv, OwnershipTypeOK, governance, witnesses
  <1>5. KeysInOrder'
    BY <1>1, <1>2, <1>3, FleetCleared, KeyDropped DEF Leave, witnesses
  <1>6. ClaimsAreSolicited'
    BY <1>3, FleetCleared, ClaimsUntouched DEF Leave, witnesses
  <1> QED BY <1>4, <1>5, <1>6 DEF OwnershipInv, KeysInOrder

LEMMA KickKeeps ==
    ASSUME OwnershipInv, NEW n \in Machines, NEW m \in Machines, Kick(n, m)
    PROVE  OwnershipInv'
  <1> DEFINE sent == {Message("release", n, m)}
  <1>1. sent \subseteq OwnershipMessage /\ \A x \in sent : x.kind # "key"
    BY DEF Message, OwnershipMessage
  <1>2. posts' \subseteq posts \cup sent
    BY MailSends DEF Kick
  <1> HIDE DEF sent
  <1>3. OwnershipTypeOK'
    <2>1. fleetKey[n] \in Keys
      BY DEF Kick, OwnershipInv, OwnershipTypeOK
    <2>2. /\ signed' \in [Keys -> SUBSET Machines]
          /\ evicted' \in [Keys -> SUBSET Machines]
          /\ founders' \in [Keys -> SUBSET Machines]
      BY <2>1, EvictTyped DEF Kick, OwnershipInv
    <2>3. members' \in [Machines -> SUBSET Machines] /\ partings' \in 0 .. MaxPartings
      BY DEF Kick, OwnershipInv, OwnershipTypeOK
    <2> QED BY <1>1, <1>2, <2>2, <2>3 DEF Kick, OwnershipInv, OwnershipTypeOK, witnesses
  <1>4. KeysInOrder'
    BY <1>1, <1>2, KeysUntouched DEF Kick, witnesses
  <1>5. ClaimsAreSolicited'
    BY ClaimsUntouched DEF Kick, witnesses
  <1> QED BY <1>3, <1>4, <1>5 DEF OwnershipInv, KeysInOrder

LEMMA AppearKeeps ==
    ASSUME OwnershipInv, NEW n \in Machines, NEW m \in Machines, NEW fresh \in BOOLEAN,
           Appear(m, n, fresh)
    PROVE  OwnershipInv'
  <1> DEFINE sent == IF fresh THEN Handoff(n, m) ELSE {}
  <1>1. sent \subseteq OwnershipMessage /\ \A x \in sent : x.from \in holders[x.key]
    BY HandoffsOfHolder DEF Appear, record, witnesses, OwnershipInv, OwnershipTypeOK, KeysAreHeld
  <1>2. posts' \subseteq posts \cup sent
    BY MailSends DEF Appear
  <1> HIDE DEF sent
  <1>3. /\ signed' \in [Keys -> SUBSET Machines]
        /\ evicted' \in [Keys -> SUBSET Machines]
        /\ founders' \in [Keys -> SUBSET Machines]
    <2>1. CASE EnsureFleetNetwork(n)
      BY <2>1, NetworkTyped DEF Appear, record, OwnershipInv, OwnershipTypeOK
    <2>2. CASE ~EnsureFleetNetwork(n)
      BY <2>2 DEF Appear, governance, OwnershipInv, OwnershipTypeOK
    <2> QED BY <2>1, <2>2
  <1>4. OwnershipTypeOK'
    <2>1. offered' \subseteq Machines
      BY AdvertiseTyped DEF Appear, OwnershipInv
    <2> QED BY <1>1, <1>2, <1>3, <2>1 DEF Appear, OwnershipInv, OwnershipTypeOK, record, witnesses
  <1>5. KeysInOrder'
    BY <1>1, <1>2, KeysUntouched DEF Appear, record, witnesses
  <1>6. ClaimsAreSolicited'
    BY ClaimsUntouched DEF Appear, record, witnesses
  <1> QED BY <1>4, <1>5, <1>6 DEF OwnershipInv, KeysInOrder

LEMMA LosePostKeeps ==
    ASSUME OwnershipInv, LosePost
    PROVE  OwnershipInv'
  <1> DEFINE none == {}
  <1>1. posts' \subseteq posts \cup none /\ \A x \in none : x.kind # "key"
    BY DEF LosePost
  <1> HIDE DEF none
  <1>2. OwnershipTypeOK'
    <2>1. posts' \subseteq OwnershipMessage /\ mishaps' \in 0 .. MaxMishaps
      BY DEF LosePost, Mishap, OwnershipInv, OwnershipTypeOK
    <2> QED BY <2>1 DEF LosePost, OwnershipInv, OwnershipTypeOK, record, governance, witnesses
  <1>3. KeysInOrder'
    BY <1>1, KeysUntouched DEF LosePost, record, witnesses
  <1>4. ClaimsAreSolicited'
    BY ClaimsUntouched DEF LosePost, record, witnesses
  <1> QED BY <1>2, <1>3, <1>4 DEF OwnershipInv, KeysInOrder

LEMMA ReloadKeeps ==
    ASSUME OwnershipInv, NEW n \in Machines, Reload(n)
    PROVE  OwnershipInv'
  <1> DEFINE none == {}
  <1>1. posts' \subseteq posts \cup none /\ \A x \in none : x.kind # "key"
    BY DEF Reload
  <1> HIDE DEF none
  <1>2. OwnershipTypeOK'
    <2>1. offered' \subseteq Machines /\ mishaps' \in 0 .. MaxMishaps
      BY AdvertiseTyped DEF Reload, Mishap, OwnershipInv, OwnershipTypeOK
    <2>2. /\ claimMode' \in [Machines -> BOOLEAN]
          /\ \A x \in Machines : claimMode'[x] => owner[x] = 0
          /\ pending' \in [Machines -> SUBSET Machines]
      BY DEF Reload, OwnershipInv, OwnershipTypeOK
    <2> QED BY <2>1, <2>2 DEF Reload, OwnershipInv, OwnershipTypeOK, governance, witnesses
  <1>3. KeysInOrder'
    BY <1>1, KeysUntouched DEF Reload, witnesses
  <1>4. ClaimsAreSolicited'
    BY ClaimsUntouched DEF Reload, witnesses, OwnershipInv, OwnershipTypeOK
  <1> QED BY <1>2, <1>3, <1>4 DEF OwnershipInv, KeysInOrder

LEMMA OwnershipStep == OwnershipInv /\ [OwnershipNext]_ownershipVars => OwnershipInv'
  <1>1. SUFFICES ASSUME OwnershipInv, [OwnershipNext]_ownershipVars PROVE OwnershipInv'
    OBVIOUS
  <1>2. ASSUME NEW n \in Attended, NEW on \in BOOLEAN, SetClaimable(n, on) PROVE OwnershipInv'
    BY <1>1, <1>2, SetClaimableKeeps
  <1>3. ASSUME NEW n \in Machines, Leave(n) \/ SelfEvicted(n) \/ Reload(n) PROVE OwnershipInv'
    BY <1>1, <1>3, LeaveKeeps, SelfEvictedKeeps, ReloadKeeps
  <1>4. ASSUME NEW n \in Machines, NEW m \in Machines, SendClaim(n, m) \/ Kick(n, m)
        PROVE  OwnershipInv'
    BY <1>1, <1>4, SendClaimKeeps, KickKeeps
  <1>9. ASSUME NEW n \in Machines, NEW m \in Machines, NEW fresh \in BOOLEAN,
               Appear(m, n, fresh)
        PROVE  OwnershipInv'
    BY <1>1, <1>9, AppearKeeps
  <1>5. ASSUME NEW n \in Machines, NEW m \in Machines, DeliverPost(n, m) PROVE OwnershipInv'
    <2>1. PICK x \in posts : HandleOwnership(x, posts \ {x})
      BY <1>5 DEF DeliverPost
    <2>2. mishaps' \in 0 .. MaxMishaps
      BY <1>1, <1>5 DEF DeliverPost, OwnershipInv, OwnershipTypeOK
    <2> QED BY <1>1, <2>1, <2>2, HandleOwnershipKeeps
  <1>6. CASE DeliverAgain
    <2>1. PICK x \in posts : HandleOwnership(x, posts)
      BY <1>6 DEF DeliverAgain
    <2>2. mishaps' \in 0 .. MaxMishaps
      BY <1>1, <1>6 DEF DeliverAgain, Mishap, OwnershipInv, OwnershipTypeOK
    <2> QED BY <1>1, <2>1, <2>2, HandleOwnershipKeeps
  <1>7. CASE LosePost
    BY <1>1, <1>7, LosePostKeeps
  <1>8. CASE UNCHANGED ownershipVars
    BY <1>1, <1>8 DEF ownershipVars, record, governance, witnesses, OwnershipInv, OwnershipTypeOK,
       KeyFollowsOwner, KeysAreHeld, HandoffsAreOfHolders, UnusedKeysAreUnheld, ClaimsAreSolicited
  <1> QED BY <1>1, <1>2, <1>3, <1>4, <1>5, <1>6, <1>7, <1>8, <1>9 DEF OwnershipNext

\* Every reachable state of the claims has the shape the runs check.
THEOREM OwnershipTypeHolds == OwnershipSpec => []OwnershipTypeOK
  <1>1. OwnershipInv => OwnershipTypeOK
    BY DEF OwnershipInv
  <1> QED BY <1>1, OwnershipInitially, OwnershipStep, PTL DEF OwnershipSpec

\* Membership follows ownership, for any fleet, however claims, releases, evictions and
\* handoffs are lost, repeated and reordered (FleetKey is heeded from the recorded owner only).
THEOREM KeysFollowOwners == OwnershipSpec => []KeyFollowsOwner
  <1>1. OwnershipInv => KeyFollowsOwner
    BY DEF OwnershipInv
  <1> QED BY <1>1, OwnershipInitially, OwnershipStep, PTL DEF OwnershipSpec

\* A replayed confirmation admits nobody (pending_claims is consumed on use).
THEOREM ClaimsAdmitOnce == OwnershipSpec => []OneAdmissionPerClaim
  <1>1. OwnershipInv => OneAdmissionPerClaim
    BY DEF OwnershipInv, ClaimsAreSolicited, OneAdmissionPerClaim
  <1> QED BY <1>1, OwnershipInitially, OwnershipStep, PTL DEF OwnershipSpec

HIDE OwnershipConstants

-----------------------------------------------------------------------------
(* Fleetfiles.                                                             *)

\* Every version a device has heard of.
Recorded == UNION {history[n] : n \in Members}

LedgersAreFinite == \A n \in Members : IsFiniteSet(history[n])

\* A version that a ledger has, or one of a device that may mint a stamp again.
Traced(v) == v \in Recorded \/ v.stamp.actor \in overtaken

\* A stamp names one content of a path in all ledgers, unless its author was overtaken, ...
LedgersAgree ==
    \A v, w \in Recorded :
        (v.path = w.path /\ v.stamp = w.stamp /\ v.stamp.actor \notin overtaken) => v = w

\* ... its author has it in its own, ...
AuthorsRemember ==
    \A v \in Recorded : /\ v.stamp.actor \in Members
                        /\ v.stamp.actor \notin overtaken => v \in history[v.stamp.actor]

\* ... and so has some device all that is between two steps.
VersionsAreRecorded ==
    \A n \in Members :
        /\ \A q \in metaQueue[n] \cup bodyQueue[n] : Traced(q.version)
        /\ \A t \in inbound[n] : Traced(t.version)
        /\ \A t \in tasks[n] : t.step # "hashed" => Traced(t.version)

LateTransfersAreKnown ==
    \A n \in Members : \A t \in inbound[n] : ~t.materialize => t.version \in history[n]

LedgerInv ==
    /\ LedgersAreFinite /\ LedgersAgree /\ AuthorsRemember
    /\ VersionsAreRecorded /\ LateTransfersAreKnown
    /\ WinnerIsNewest

StoresAreFinite ==
    \A n \in Members : /\ IsFiniteSet(bodies[n]) /\ IsFiniteSet(inbound[n])
                       /\ \A t \in inbound[n] : t.version.body # Gone

FilesInv == FilesTypeOK /\ StoresAreFinite /\ LedgerInv

\* The bodies of what stays queued stay, in the store and among the snapshots.
BodiesStay ==
    \A n \in Members : \A q \in bodyQueue[n] \cap bodyQueue'[n] :
        /\ q.version.body \in bodies[n] => q.version.body \in bodies'[n]
        /\ q.version.body \in outbound[n] => q.version.body \in outbound'[n]

LEMMA NoVersionFits == NoVersion \in [stamp : Stamp, body : Bodies \cup {Gone}]
  BY DEF NoVersion, ZeroStamp, Stamp

LEMMA NextCounterTops ==
    ASSUME FilesTypeOK, NEW n \in Members
    PROVE  /\ NextCounter(n) \in Nat
           /\ \A p \in Paths : row[n][p].stamp.counter < NextCounter(n)
  <1> DEFINE f == [p \in Paths |-> row[n][p].stamp.counter]
             numbers == {f[p] : p \in Paths}
  <1>1. \A p \in Paths : f[p] = row[n][p].stamp.counter
    BY Zenon
  <1>2. \A p \in Paths : row[n][p].stamp.counter \in Nat
    BY DEF FilesTypeOK, Stamp
  <1>3. {row[n][p].stamp.counter : p \in Paths} = numbers
    BY <1>1
  <1>4. IsFiniteSet(Paths)
    BY FilesConstants
  <1> HIDE DEF f
  <1>5. numbers \in SUBSET Nat /\ IsFiniteSet(numbers) /\ \A p \in Paths : row[n][p].stamp.counter \in numbers
    BY <1>1, <1>2, <1>4, FiniteImage
  <1> HIDE DEF numbers
  <1>6. Highest(numbers) \in Nat /\ \A c \in numbers : c <= Highest(numbers)
    BY <1>5, HighestBounds
  <1>7. NextCounter(n) = Highest(numbers) + 1
    BY <1>3 DEF NextCounter
  <1> QED BY <1>2, <1>5, <1>6, <1>7

USE FilesConstants

\* What persist_verified_content leaves in a store: what may not yield, and the new body.
LEMMA PlacedBodies ==
    ASSUME FilesTypeOK, StoresAreFinite, NEW n \in Members, NEW b \in Bodies,
           NEW held \in Placements(n, b)
    PROVE  /\ held \subseteq Bodies /\ IsFiniteSet(held) /\ Cardinality(held) <= Quota
           /\ b \in held
           /\ \A q \in bodyQueue[n] : q.version.body \in bodies[n] => q.version.body \in held
  <1>1. /\ bodies[n] \subseteq Bodies /\ IsFiniteSet(bodies[n]) /\ Cardinality(bodies[n]) <= Quota
        /\ Cardinality(bodies[n]) \in Nat
    BY FS_CardinalityType DEF FilesTypeOK, StoresAreFinite
  <1>2. CASE b \in bodies[n]
    BY <1>1, <1>2 DEF Placements
  <1>3. CASE b \notin bodies[n] /\ Cardinality(bodies[n]) < Quota
    <2>1. held = bodies[n] \cup {b}
      BY <1>3 DEF Placements
    <2>2. IsFiniteSet(held) /\ Cardinality(held) = Cardinality(bodies[n]) + 1
      BY <1>1, <1>3, <2>1, FS_AddElement
    <2> QED BY <1>1, <1>3, <2>1, <2>2
  <1>4. CASE b \notin bodies[n] /\ ~(Cardinality(bodies[n]) < Quota)
    <2>1. PICK old \in Reclaimable(n) : held = (bodies[n] \ {old}) \cup {b}
      BY <1>4 DEF Placements
    <2>2. old \in bodies[n] /\ \A q \in bodyQueue[n] : q.version.body # old
      BY DEF Reclaimable
    <2>3. /\ IsFiniteSet(bodies[n] \ {old})
          /\ Cardinality(bodies[n] \ {old}) = Cardinality(bodies[n]) - 1
      <3>1. PICK S : S = bodies[n]
        OBVIOUS
      <3>2. IsFiniteSet(S) /\ old \in S
        BY <1>1, <2>2, <3>1
      <3>3. IsFiniteSet(S \ {old}) /\ Cardinality(S \ {old}) = Cardinality(S) - 1
        BY <3>2, FS_RemoveElement
      <3> QED BY <3>1, <3>3
    <2>4. b \notin bodies[n] \ {old}
      BY <1>4
    <2>5. IsFiniteSet(held) /\ Cardinality(held) = Cardinality(bodies[n] \ {old}) + 1
      BY <2>1, <2>3, <2>4, FS_AddElement
    <2> QED BY <1>1, <2>1, <2>2, <2>3, <2>5
  <1> QED BY <1>2, <1>3, <1>4

LEMMA LocalBodies ==
    ASSUME FilesTypeOK, StoresAreFinite, NEW n \in Members, NEW v \in Version,
           NEW held \in LocalStores(n, v)
    PROVE  /\ held \subseteq Bodies /\ IsFiniteSet(held) /\ Cardinality(held) <= Quota
           /\ \A q \in bodyQueue[n] : q.version.body \in bodies[n] => q.version.body \in held
  <1>1. CASE held = bodies[n]
    BY <1>1 DEF FilesTypeOK, StoresAreFinite
  <1>2. CASE held # bodies[n]
    <2>1. v.body \in Bodies /\ held \in Placements(n, v.body)
      BY <1>2 DEF LocalStores, Version
    <2> QED BY <2>1, PlacedBodies
  <1> QED BY <1>1, <1>2

\* The replies: a queue only loses the entry answered, and the snapshots others need stay.
LEMMA AnswerKeepsBodies ==
    ASSUME FilesTypeOK, NEW n \in Members, NEW m, NEW v, NEW acked, Answer(n, m, v, acked)
    PROVE  /\ metaQueue' = metaQueue
           /\ \A k \in Members : bodyQueue'[k] \subseteq bodyQueue[k]
           /\ \A k \in Members : \A q \in bodyQueue'[k] :
                 q.version.body \in outbound[k] => q.version.body \in outbound'[k]
  <1>1. CASE acked
    <2> DEFINE rest == bodyQueue[n] \ {[to |-> m, version |-> v]}
    <2>1. /\ bodyQueue' = [bodyQueue EXCEPT ![n] = rest]
          /\ outbound' = [outbound EXCEPT ![n] =
               IF StillQueued(rest, v.body) THEN @ ELSE @ \ {v.body}]
          /\ metaQueue' = metaQueue
      BY <1>1 DEF Answer, Acknowledge
    <2>2. \A k \in Members : bodyQueue'[k] \subseteq bodyQueue[k]
      BY <2>1 DEF FilesTypeOK
    <2>3. ASSUME NEW k \in Members, NEW q \in bodyQueue'[k], q.version.body \in outbound[k]
          PROVE  q.version.body \in outbound'[k]
      <3>1. CASE k # n
        BY <2>1, <2>3, <3>1 DEF FilesTypeOK
      <3>2. CASE k = n
        <4>1. q \in rest
          BY <2>1, <2>3, <3>2 DEF FilesTypeOK
        <4> QED BY <2>1, <2>3, <3>2, <4>1 DEF FilesTypeOK, StillQueued
      <3> QED BY <3>1, <3>2
    <2> QED BY <2>1, <2>2, <2>3
  <1>2. CASE ~acked
    BY <1>2 DEF Answer, queues
  <1> QED BY <1>1, <1>2

\* The ledgers.

LEMMA RecordedVersions ==
    ASSUME FilesTypeOK
    PROVE  Recorded \subseteq Version /\ \A n \in Members : history[n] \subseteq Recorded
  BY DEF FilesTypeOK, Recorded

LEMMA PutTyped ==
    ASSUME FilesTypeOK, NEW n \in Members, NEW v \in Version, PutVersion(n, v)
    PROVE  /\ row' \in [Members -> [Paths -> [stamp : Stamp, body : Bodies \cup {Gone}]]]
           /\ history' \in [Members -> SUBSET Version]
           /\ \A k \in Members : history[k] \subseteq history'[k]
           /\ \A k \in Members \ {n} : row'[k] = row[k] /\ history'[k] = history[k]
           /\ \A p \in Paths : row'[n][p] = IF p = v.path THEN [stamp |-> v.stamp, body |-> v.body]
                                                          ELSE row[n][p]
  <1>1. [stamp |-> v.stamp, body |-> v.body] \in [stamp : Stamp, body : Bodies \cup {Gone}]
        /\ v.path \in Paths
    BY DEF Version
  <1>2. Appended(history[n], {v}) \in SUBSET Version /\ history[n] \subseteq Appended(history[n], {v})
    BY DEF Appended, FilesTypeOK
  <1> QED BY <1>1, <1>2 DEF PutVersion, FilesTypeOK

LEMMA ApplyTyped ==
    ASSUME FilesTypeOK, NEW n \in Members, NEW W \in SUBSET Version, ApplyMetadata(n, W)
    PROVE  /\ row' \in [Members -> [Paths -> [stamp : Stamp, body : Bodies \cup {Gone}]]]
           /\ history' \in [Members -> SUBSET Version]
           /\ \A k \in Members : history[k] \subseteq history'[k]
           /\ \A k \in Members \ {n} : row'[k] = row[k] /\ history'[k] = history[k]
           /\ \A p \in Paths :
                \/ /\ row'[n][p] = row[n][p]
                   /\ ~ \E v \in W : /\ v.path = p /\ NewerThanRow(v, row[n][p])
                                     /\ \A w \in W : w.path = p => StampLeq(w.stamp, v.stamp)
                \/ \E v \in W : /\ v.path = p /\ NewerThanRow(v, row[n][p])
                                /\ \A w \in W : w.path = p => StampLeq(w.stamp, v.stamp)
                                /\ row'[n][p] = [stamp |-> v.stamp, body |-> v.body]
  <1> DEFINE newest(p) == {v \in W : v.path = p /\ NewerThanRow(v, row[n][p])
                             /\ \A w \in W : w.path = p => StampLeq(w.stamp, v.stamp)}
             chosen(p) == CHOOSE v \in newest(p) : TRUE
             new == [p \in Paths |-> IF newest(p) = {} THEN row[n][p]
                       ELSE [stamp |-> chosen(p).stamp, body |-> chosen(p).body]]
  <1>1. row' = [row EXCEPT ![n] = new] /\ history' = [history EXCEPT ![n] = Appended(@, W)]
    BY DEF ApplyMetadata, FilesTypeOK
  <1>2. \A p \in Paths : newest(p) # {} => chosen(p) \in newest(p)
    OBVIOUS
  <1>3. \A p \in Paths : newest(p) # {} =>
           /\ chosen(p) \in W /\ chosen(p).path = p /\ NewerThanRow(chosen(p), row[n][p])
           /\ \A w \in W : w.path = p => StampLeq(w.stamp, chosen(p).stamp)
    BY <1>2
  <1>4. \A p \in Paths : newest(p) = {} =>
           ~ \E v \in W : /\ v.path = p /\ NewerThanRow(v, row[n][p])
                          /\ \A w \in W : w.path = p => StampLeq(w.stamp, v.stamp)
    OBVIOUS
  <1> HIDE DEF newest, chosen
  <1>5. \A p \in Paths : new[p] = IF newest(p) = {} THEN row[n][p]
                                  ELSE [stamp |-> chosen(p).stamp, body |-> chosen(p).body]
    OBVIOUS
  <1>6. new \in [Paths -> [stamp : Stamp, body : Bodies \cup {Gone}]]
    BY <1>3 DEF FilesTypeOK, Version
  <1>7. Appended(history[n], W) \in SUBSET Version /\ history[n] \subseteq Appended(history[n], W)
    BY DEF Appended, FilesTypeOK
  <1> HIDE DEF new
  <1>8. row'[n] = new /\ \A k \in Members \ {n} : row'[k] = row[k] /\ history'[k] = history[k]
    BY <1>1 DEF FilesTypeOK
  <1>9. row' \in [Members -> [Paths -> [stamp : Stamp, body : Bodies \cup {Gone}]]]
    BY <1>1, <1>6 DEF FilesTypeOK
  <1>10. /\ history' \in [Members -> SUBSET Version]
         /\ \A k \in Members : history[k] \subseteq history'[k]
    BY <1>1, <1>7 DEF FilesTypeOK
  <1> QED BY <1>3, <1>4, <1>5, <1>8, <1>9, <1>10

\* A device takes note of versions that are recorded elsewhere, or that it has made up.
LEMMA VersionsLearned ==
    ASSUME FilesTypeOK, LedgerInv, NEW n \in Members, NEW W \in SUBSET Version, IsFiniteSet(W),
           history' = [history EXCEPT ![n] = Appended(@, W)],
           overtaken \subseteq overtaken',
           \A v \in W : \/ Traced(v)
                        \/ /\ v.stamp.actor = n
                           /\ \A w \in Recorded \cup W :
                                (w.path = v.path /\ w.stamp = v.stamp) => w = v
    PROVE  /\ history'[n] = Appended(history[n], W)
           /\ \A k \in Members \ {n} : history'[k] = history[k]
           /\ \A k \in Members : history[k] \subseteq history'[k]
           /\ \A v \in W : Traced(v)'
           /\ LedgersAreFinite' /\ LedgersAgree' /\ AuthorsRemember'
  <1> DEFINE Fresh(v) == /\ v.stamp.actor = n
                         /\ \A w \in Recorded \cup W :
                              (w.path = v.path /\ w.stamp = v.stamp) => w = v
  <1>1. Recorded \subseteq Version /\ \A k \in Members : history[k] \subseteq Recorded
    BY RecordedVersions
  <1>2. /\ history'[n] = Appended(history[n], W)
        /\ \A k \in Members \ {n} : history'[k] = history[k]
    BY DEF FilesTypeOK
  <1>3. \A k \in Members : history[k] \subseteq history'[k]
    BY <1>2 DEF Appended
  <1>4. Recorded \subseteq Recorded'
    BY <1>3 DEF Recorded
  <1>5. Recorded' \subseteq Recorded \cup W
    BY <1>2 DEF Recorded, Appended
  <1>6. \A v \in W : Fresh(v) => v \in history'[n]
    <2>1. ASSUME NEW v \in W, Fresh(v), v \notin history[n] PROVE v \in history'[n]
      <3>1. \A e \in history[n] : e.path = v.path => e.stamp # v.stamp
        BY <1>1, <2>1
      <3> QED BY <1>2, <3>1 DEF Appended
    <2> QED BY <1>3, <2>1
  <1>7. \A v \in W : Traced(v) \/ Fresh(v)
    OBVIOUS
  <1> HIDE DEF Fresh
  <1>8. \A v \in W : Traced(v)'
    <2>1. ASSUME NEW v \in history'[n] PROVE v \in Recorded'
      <3>1. history'[n] \in {history'[k] : k \in Members}
        OBVIOUS
      <3> QED BY <2>1, <3>1 DEF Recorded
    <2> QED BY <1>4, <1>6, <1>7, <2>1 DEF Traced
  <1>9. LedgersAreFinite'
    <2>1. Appended(history[n], W) \subseteq history[n] \cup W
      BY DEF Appended
    <2>2. IsFiniteSet(history[n] \cup W)
      BY FS_Union DEF LedgerInv, LedgersAreFinite
    <2>3. IsFiniteSet(Appended(history[n], W))
      BY <2>1, <2>2, FS_Subset
    <2> QED BY <1>2, <2>3 DEF LedgerInv, LedgersAreFinite
  <1>10. LedgersAgree'
    <2>1. SUFFICES ASSUME NEW v \in Recorded', NEW w \in Recorded',
                          v.path = w.path, v.stamp = w.stamp, v.stamp.actor \notin overtaken'
                   PROVE  v = w
      BY DEF LedgersAgree
    <2>2. v.stamp.actor \notin overtaken /\ w.stamp.actor \notin overtaken
      BY <2>1
    <2>3. /\ v \in Recorded \/ (v \in W /\ Fresh(v))
          /\ w \in Recorded \/ (w \in W /\ Fresh(w))
      BY <1>5, <1>7, <2>2 DEF Traced
    <2>4. CASE v \in Recorded /\ w \in Recorded
      BY <2>1, <2>2, <2>4 DEF LedgerInv, LedgersAgree
    <2>5. CASE v \in W /\ Fresh(v)
      BY <2>1, <2>3, <2>5 DEF Fresh
    <2>6. CASE w \in W /\ Fresh(w)
      BY <2>1, <2>3, <2>6 DEF Fresh
    <2> QED BY <2>3, <2>4, <2>5, <2>6
  <1>11. AuthorsRemember'
    <2>1. SUFFICES ASSUME NEW v \in Recorded'
                   PROVE  /\ v.stamp.actor \in Members
                          /\ v.stamp.actor \notin overtaken' => v \in history'[v.stamp.actor]
      BY DEF AuthorsRemember
    <2>2. CASE v \in Recorded
      BY <1>3, <2>2 DEF LedgerInv, AuthorsRemember
    <2>3. CASE v \in W /\ Fresh(v)
      BY <1>6, <2>3 DEF Fresh
    <2>4. CASE v.stamp.actor \in overtaken
      BY <2>4 DEF FilesTypeOK
    <2> QED BY <1>5, <1>7, <2>2, <2>3, <2>4 DEF Traced
  <1> QED BY <1>2, <1>3, <1>8, <1>9, <1>10, <1>11

\* The row follows what the ledger learns.
LEMMA WinnerFollows ==
    ASSUME FilesTypeOK, LedgerInv, NEW n \in Members, NEW W \in SUBSET Version,
           history'[n] = Appended(history[n], W),
           \A k \in Members \ {n} : history'[k] = history[k] /\ row'[k] = row[k],
           row' \in [Members -> [Paths -> [stamp : Stamp, body : Bodies \cup {Gone}]]],
           overtaken \subseteq overtaken',
           n \notin overtaken' => \A p \in Paths :
             \/ /\ row'[n][p] = row[n][p]
                /\ \A v \in W : v.path = p => StampLeq(v.stamp, row[n][p].stamp)
             \/ \E v \in W : /\ v.path = p /\ row'[n][p] = [stamp |-> v.stamp, body |-> v.body]
                             /\ StampLess(row[n][p].stamp, v.stamp)
                             /\ \A w \in W : w.path = p => StampLeq(w.stamp, v.stamp)
    PROVE  WinnerIsNewest'
  <1> DEFINE Newest(k, p) ==
               LET known == {v \in history[k] : v.path = p} IN
               /\ \A v \in known : StampLeq(v.stamp, row[k][p].stamp)
               /\ row[k][p] # NoVersion =>
                    \E v \in known : v.stamp = row[k][p].stamp /\ v.body = row[k][p].body
  <1>1. \A k \in Members \ overtaken : \A p \in Paths : Newest(k, p)
    BY DEF LedgerInv, WinnerIsNewest
  <1>2. SUFFICES ASSUME n \notin overtaken', NEW p \in Paths
                 PROVE  LET known == {v \in history'[n] : v.path = p} IN
                        /\ \A v \in known : StampLeq(v.stamp, row'[n][p].stamp)
                        /\ row'[n][p] # NoVersion =>
                             \E v \in known : v.stamp = row'[n][p].stamp /\ v.body = row'[n][p].body
    BY <1>1 DEF WinnerIsNewest
  <1>3. /\ \A v \in history[n] : v.path = p => StampLeq(v.stamp, row[n][p].stamp)
        /\ row[n][p] # NoVersion =>
             \E v \in history[n] :
               v.path = p /\ v.stamp = row[n][p].stamp /\ v.body = row[n][p].body
    BY <1>1, <1>2
  <1>4. history[n] \subseteq history'[n] /\ history'[n] \subseteq history[n] \cup W
    BY DEF Appended
  <1>5. CASE /\ row'[n][p] = row[n][p]
             /\ \A v \in W : v.path = p => StampLeq(v.stamp, row[n][p].stamp)
    BY <1>3, <1>4, <1>5
  <1>6. ASSUME NEW v \in W, v.path = p, row'[n][p] = [stamp |-> v.stamp, body |-> v.body],
               StampLess(row[n][p].stamp, v.stamp),
               \A w \in W : w.path = p => StampLeq(w.stamp, v.stamp)
        PROVE  /\ \A w \in history'[n] : w.path = p => StampLeq(w.stamp, row'[n][p].stamp)
               /\ \E w \in history'[n] :
                     w.path = p /\ w.stamp = row'[n][p].stamp /\ w.body = row'[n][p].body
    <2>1. v.stamp \in Stamp /\ row[n][p].stamp \in Stamp
      BY DEF FilesTypeOK, Version
    <2>2. \A w \in history[n] : w.stamp \in Stamp
      BY DEF FilesTypeOK, Version
    <2>3. \A w \in history[n] : w.path = p => StampLeq(w.stamp, v.stamp) /\ w.stamp # v.stamp
      <3>1. SUFFICES ASSUME NEW w \in history[n], w.path = p
                     PROVE  StampLeq(w.stamp, v.stamp) /\ w.stamp # v.stamp
        OBVIOUS
      <3>2. StampLeq(w.stamp, row[n][p].stamp) /\ StampLeq(row[n][p].stamp, v.stamp)
        BY <1>3, <1>6, <3>1 DEF StampLeq
      <3>3. StampLeq(w.stamp, v.stamp)
        BY <2>1, <2>2, <3>2, StampsAreTransitive
      <3>4. w.stamp # v.stamp
        BY <1>6, <2>1, <3>2, StampsAreOrdered DEF StampLeq
      <3> QED BY <3>3, <3>4
    <2>4. v \in history'[n]
      BY <1>6, <2>3 DEF Appended
    <2> QED BY <1>4, <1>6, <2>3, <2>4
  <1> QED BY <1>2, <1>5, <1>6

\* put_version keeps the order where the version is not older than the row, nor collides.
LEMMA PutKeeps ==
    ASSUME FilesTypeOK, LedgerInv, NEW n \in Members, NEW v \in Version, PutVersion(n, v),
           overtaken \subseteq overtaken',
           n \in overtaken' \/ (~Stale(v, row[n][v.path]) /\ ~Collides(n, {v})),
           \/ Traced(v)
           \/ /\ v.stamp.actor = n
              /\ \A w \in Recorded : (w.path = v.path /\ w.stamp = v.stamp) => w = v
    PROVE  /\ \A k \in Members : history[k] \subseteq history'[k]
           /\ Traced(v)'
           /\ LedgersAreFinite' /\ LedgersAgree' /\ AuthorsRemember' /\ WinnerIsNewest'
  <1> DEFINE W == {v}
  <1>1. W \in SUBSET Version /\ IsFiniteSet(W)
    BY FS_Singleton
  <1>2. history' = [history EXCEPT ![n] = Appended(@, W)]
    BY DEF PutVersion
  <1>3. \A x \in W : x = v
    OBVIOUS
  <1>4. v \in W
    OBVIOUS
  <1>collides. n \notin overtaken' => row[n][v.path].stamp # v.stamp \/ row[n][v.path].body = v.body
    BY DEF Collides
  <1> HIDE DEF W
  <1>5. /\ history'[n] = Appended(history[n], W)
        /\ \A k \in Members \ {n} : history'[k] = history[k]
        /\ \A k \in Members : history[k] \subseteq history'[k]
        /\ \A x \in W : Traced(x)'
        /\ LedgersAreFinite' /\ LedgersAgree' /\ AuthorsRemember'
    <2>1. \A x \in W : \/ Traced(x)
                       \/ /\ x.stamp.actor = n
                          /\ \A w \in Recorded \cup W :
                               (w.path = x.path /\ w.stamp = x.stamp) => w = x
      BY <1>3
    <2> QED BY <1>1, <1>2, <2>1, VersionsLearned
  <1>6. /\ row' \in [Members -> [Paths -> [stamp : Stamp, body : Bodies \cup {Gone}]]]
        /\ \A k \in Members \ {n} : row'[k] = row[k]
        /\ \A p \in Paths : row'[n][p] = IF p = v.path THEN [stamp |-> v.stamp, body |-> v.body]
                                                       ELSE row[n][p]
    BY PutTyped
  <1>7. v.path \in Paths /\ row[n][v.path] \in [stamp : Stamp, body : Bodies \cup {Gone}]
        /\ v.stamp \in Stamp
    BY DEF FilesTypeOK, Version
  <1>8. n \notin overtaken' =>
          \/ StampLess(row[n][v.path].stamp, v.stamp)
          \/ row[n][v.path] = [stamp |-> v.stamp, body |-> v.body]
    BY <1>7, <1>collides, StampsAreOrdered DEF Stale
  <1>9. WinnerIsNewest'
    <2>1. ASSUME n \notin overtaken', NEW p \in Paths
          PROVE
             \/ /\ row'[n][p] = row[n][p]
                /\ \A x \in W : x.path = p => StampLeq(x.stamp, row[n][p].stamp)
             \/ \E x \in W : /\ x.path = p /\ row'[n][p] = [stamp |-> x.stamp, body |-> x.body]
                             /\ StampLess(row[n][p].stamp, x.stamp)
                             /\ \A w \in W : w.path = p => StampLeq(w.stamp, x.stamp)
      <3>1. CASE p # v.path
        BY <1>3, <1>6, <3>1
      <3>2. CASE p = v.path /\ StampLess(row[n][p].stamp, v.stamp)
        BY <1>3, <1>4, <1>6, <3>2 DEF StampLeq
      <3>3. CASE p = v.path /\ row[n][p] = [stamp |-> v.stamp, body |-> v.body]
        BY <1>3, <1>6, <3>3 DEF StampLeq
      <3> QED BY <1>8, <2>1, <3>1, <3>2, <3>3
    <2>2. \A k \in Members \ {n} : history'[k] = history[k] /\ row'[k] = row[k]
      BY <1>5, <1>6
    <2>3. history'[n] = Appended(history[n], W)
      BY <1>5
    <2> QED BY <1>1, <1>6, <2>1, <2>2, <2>3, WinnerFollows, Zenon
  <1> QED BY <1>4, <1>5, <1>9

LEMMA ApplyKeeps ==
    ASSUME FilesTypeOK, LedgerInv, NEW n \in Members, NEW W \in SUBSET Version, IsFiniteSet(W),
           \A v \in W : Traced(v),
           ApplyMetadata(n, W), overtaken' = overtaken
    PROVE  /\ \A k \in Members : history[k] \subseteq history'[k]
           /\ LedgersAreFinite' /\ LedgersAgree' /\ AuthorsRemember' /\ WinnerIsNewest'
  <1>2. history' = [history EXCEPT ![n] = Appended(@, W)]
    BY DEF ApplyMetadata
  <1>3. /\ history'[n] = Appended(history[n], W)
        /\ \A k \in Members \ {n} : history'[k] = history[k]
        /\ \A k \in Members : history[k] \subseteq history'[k]
        /\ LedgersAreFinite' /\ LedgersAgree' /\ AuthorsRemember'
    BY <1>2, VersionsLearned
  <1>4. /\ row' \in [Members -> [Paths -> [stamp : Stamp, body : Bodies \cup {Gone}]]]
        /\ \A k \in Members \ {n} : row'[k] = row[k]
    BY ApplyTyped
  <1>5. ASSUME NEW p \in Paths
        PROVE  \/ /\ row'[n][p] = row[n][p]
                  /\ \A v \in W : v.path = p => StampLeq(v.stamp, row[n][p].stamp)
               \/ \E v \in W : /\ v.path = p /\ row'[n][p] = [stamp |-> v.stamp, body |-> v.body]
                               /\ StampLess(row[n][p].stamp, v.stamp)
                               /\ \A w \in W : w.path = p => StampLeq(w.stamp, v.stamp)
    <2>1. CASE \E v \in W : /\ v.path = p /\ NewerThanRow(v, row[n][p])
                            /\ \A w \in W : w.path = p => StampLeq(w.stamp, v.stamp)
                            /\ row'[n][p] = [stamp |-> v.stamp, body |-> v.body]
      BY <2>1 DEF NewerThanRow
    <2>2. CASE /\ row'[n][p] = row[n][p]
               /\ ~ \E v \in W : /\ v.path = p /\ NewerThanRow(v, row[n][p])
                                 /\ \A w \in W : w.path = p => StampLeq(w.stamp, v.stamp)
      <3> DEFINE of == {v \in W : v.path = p}
                 f == [v \in of |-> v.stamp]
                 stamps == {f[v] : v \in of}
      <3>1. \A v \in of : f[v] = v.stamp
        BY Zenon
      <3>2. \A v \in of : v \in W /\ v.path = p /\ v.stamp \in Stamp
        BY DEF Version
      <3>3. IsFiniteSet(of)
        <4>1. of \in SUBSET W
          OBVIOUS
        <4> HIDE DEF of
        <4> QED BY <4>1, FS_Subset
      <3>4. SUFFICES ASSUME NEW w \in of PROVE StampLeq(w.stamp, row[n][p].stamp)
        BY <2>2
      <3> HIDE DEF f
      <3>5. /\ \A v \in of : v.stamp \in stamps
            /\ \A s \in stamps : \E v \in of : v.stamp = s
        BY <3>1
      <3>6. IsFiniteSet(stamps)
        <4> HIDE DEF of
        <4> QED BY <3>3, FiniteImage
      <3>7. stamps \in SUBSET Stamp /\ stamps # {}
        BY <3>1, <3>2, <3>4
      <3> HIDE DEF stamps
      <3>8. PICK s \in stamps : \A t \in stamps : StampLeq(t, s)
        BY <3>6, <3>7, NewestOfFinite
      <3>9. PICK v \in of : v.stamp = s
        BY <3>5
      <3>10. ~StampLess(row[n][p].stamp, v.stamp)
        BY <2>2, <3>2, <3>5, <3>8, <3>9 DEF NewerThanRow
      <3>11. row[n][p].stamp \in Stamp /\ v.stamp \in Stamp /\ w.stamp \in Stamp
        BY <3>2, <3>4 DEF FilesTypeOK
      <3>12. StampLeq(w.stamp, v.stamp) /\ StampLeq(v.stamp, row[n][p].stamp)
        BY <3>4, <3>5, <3>8, <3>9, <3>10, <3>11, StampsAreOrdered DEF StampLeq
      <3> QED BY <3>11, <3>12, StampsAreTransitive
    <2> QED
      <3>1. \/ /\ row'[n][p] = row[n][p]
               /\ ~ \E v \in W : /\ v.path = p /\ NewerThanRow(v, row[n][p])
                                 /\ \A w \in W : w.path = p => StampLeq(w.stamp, v.stamp)
            \/ \E v \in W : /\ v.path = p /\ NewerThanRow(v, row[n][p])
                            /\ \A w \in W : w.path = p => StampLeq(w.stamp, v.stamp)
                            /\ row'[n][p] = [stamp |-> v.stamp, body |-> v.body]
        BY ApplyTyped
      <3> QED BY <2>1, <2>2, <3>1
  <1>6. WinnerIsNewest'
    BY <1>3, <1>4, <1>5, WinnerFollows
  <1> QED BY <1>3, <1>6

\* What a step may do to all but the ledgers themselves.
LEMMA LedgerMoves ==
    ASSUME LedgerInv, overtaken \subseteq overtaken',
           \A k \in Members : history[k] \subseteq history'[k],
           LedgersAreFinite' /\ LedgersAgree' /\ AuthorsRemember' /\ WinnerIsNewest',
           \A k \in Members :
             /\ \A q \in metaQueue'[k] \cup bodyQueue'[k] :
                  q \in metaQueue[k] \cup bodyQueue[k] \/ Traced(q.version)'
             /\ \A t \in inbound'[k] :
                  \/ t \in inbound[k]
                  \/ Traced(t.version)' /\ (~t.materialize => t.version \in history'[k])
             /\ \A t \in tasks'[k] :
                  t \in tasks[k] \/ t.step = "hashed" \/ Traced(t.version)'
    PROVE  LedgerInv'
  <1>1. Recorded \subseteq Recorded'
    BY DEF Recorded
  <1>2. ASSUME NEW v, Traced(v) PROVE Traced(v)'
    BY <1>1, <1>2 DEF Traced
  <1>3. VersionsAreRecorded'
    <2>1. ASSUME NEW k \in Members
          PROVE  /\ \A q \in metaQueue'[k] \cup bodyQueue'[k] : Traced(q.version)'
                 /\ \A t \in inbound'[k] : Traced(t.version)'
                 /\ \A t \in tasks'[k] : t.step # "hashed" => Traced(t.version)'
      BY <1>2 DEF LedgerInv, VersionsAreRecorded
    <2> QED BY <2>1 DEF VersionsAreRecorded
  <1>4. LateTransfersAreKnown'
    BY DEF LedgerInv, LateTransfersAreKnown
  <1> QED BY <1>3, <1>4 DEF LedgerInv

\* A step that leaves the ledgers alone.
LEMMA LedgerRests ==
    ASSUME LedgerInv, row' = row, history' = history, overtaken' = overtaken,
           \A k \in Members :
             /\ \A q \in metaQueue'[k] \cup bodyQueue'[k] :
                  q \in metaQueue[k] \cup bodyQueue[k] \/ Traced(q.version)
             /\ \A t \in inbound'[k] :
                  \/ t \in inbound[k]
                  \/ Traced(t.version) /\ (~t.materialize => t.version \in history[k])
             /\ \A t \in tasks'[k] :
                  t \in tasks[k] \/ t.step = "hashed" \/ Traced(t.version)
    PROVE  LedgerInv'
  <1>1. Recorded' = Recorded /\ WinnerIsNewest'
    BY DEF Recorded, LedgerInv, WinnerIsNewest
  <1>2. LedgersAreFinite' /\ LedgersAgree' /\ AuthorsRemember'
    BY <1>1 DEF LedgerInv, LedgersAreFinite, LedgersAgree, AuthorsRemember
  <1>3. \A v : Traced(v)' <=> Traced(v)
    BY <1>1 DEF Traced
  <1>4. LedgerInv /\ overtaken \subseteq overtaken' /\ \A k \in Members : history[k] \subseteq history'[k]
    OBVIOUS
  <1>5. \A k \in Members :
             /\ \A q \in metaQueue'[k] \cup bodyQueue'[k] :
                  q \in metaQueue[k] \cup bodyQueue[k] \/ Traced(q.version)'
             /\ \A t \in inbound'[k] :
                  \/ t \in inbound[k]
                  \/ Traced(t.version)' /\ (~t.materialize => t.version \in history'[k])
             /\ \A t \in tasks'[k] :
                  t \in tasks[k] \/ t.step = "hashed" \/ Traced(t.version)'
    BY <1>3
  <1> QED BY <1>1, <1>2, <1>4, <1>5, LedgerMoves

LEMMA FilesInitially == FilesInit => FilesInv
  <1>1. SUFFICES ASSUME FilesInit PROVE FilesInv
    OBVIOUS
  <1>2. IsFiniteSet({}) /\ Cardinality({}) = 0
    BY FS_EmptySet
  <1>3. FilesTypeOK
    BY <1>1, <1>2, NoVersionFits DEF FilesInit, FilesTypeOK
  <1>4. StoresAreFinite
    BY <1>1, <1>2 DEF FilesInit, StoresAreFinite
  <1>5. LedgerInv
    <2>1. Recorded = {}
      BY <1>1 DEF FilesInit, Recorded
    <2>2. LedgersAreFinite /\ LedgersAgree /\ AuthorsRemember
      BY <1>1, <1>2, <2>1 DEF FilesInit, LedgersAreFinite, LedgersAgree, AuthorsRemember
    <2>3. VersionsAreRecorded
      BY <1>1 DEF FilesInit, VersionsAreRecorded
    <2>4. LateTransfersAreKnown /\ WinnerIsNewest
      BY <1>1 DEF FilesInit, LateTransfersAreKnown, WinnerIsNewest
    <2> QED BY <2>2, <2>3, <2>4 DEF LedgerInv
  <1> QED BY <1>3, <1>4, <1>5 DEF FilesInv

LEMMA WriteKeeps ==
    ASSUME FilesInv, NEW n \in Members, NEW p \in Paths, NEW b \in Bodies \cup {Gone},
           Write(n, p, b)
    PROVE  FilesInv'
  <1>1. FilesTypeOK'
    BY DEF Write, FilesInv, FilesTypeOK, ledger, queues
  <1>2. StoresAreFinite'
    BY DEF Write, queues, FilesInv, StoresAreFinite
  <1>3. LedgerInv'
    BY LedgerRests DEF FilesInv, Write, ledger, queues
  <1> QED BY <1>1, <1>2, <1>3 DEF FilesInv

LEMMA MaterializeKeeps ==
    ASSUME FilesInv, NEW n \in Members, NEW p \in Paths, Materialize(n, p)
    PROVE  FilesInv'
  <1>1. row[n][p].body \in Bodies \cup {Gone}
    BY DEF FilesInv, FilesTypeOK
  <1>2. FilesTypeOK'
    BY <1>1 DEF Materialize, FilesInv, FilesTypeOK, ledger, queues, bounds
  <1>3. StoresAreFinite'
    BY DEF Materialize, queues, FilesInv, StoresAreFinite
  <1>4. LedgerInv'
    BY LedgerRests DEF FilesInv, Materialize, ledger, queues
  <1> QED BY <1>2, <1>3, <1>4 DEF FilesInv

\* The captures.

LEMMA HashKeeps ==
    ASSUME FilesInv, NEW n \in Members, NEW p \in Paths, Hash(n, p)
    PROVE  FilesInv'
  <1> DEFINE v == [path |-> p, stamp |-> ZeroStamp, body |-> files[n][p]]
             t == [step |-> "hashed", version |-> v, peer |-> n, left |-> {}]
  <1>1. t \in Task
    BY DEF Task, Version, ZeroStamp, Stamp, FilesInv, FilesTypeOK
  <1>2. tasks' = [tasks EXCEPT ![n] = @ \cup {t}] /\ t.step = "hashed"
    BY DEF Hash, Begin
  <1> HIDE DEF t
  <1>3. FilesTypeOK'
    <2>1. tasks' \in [Members -> SUBSET Task] /\ dirty' \in [Members -> SUBSET Paths]
      BY <1>1, <1>2 DEF Hash, FilesInv, FilesTypeOK
    <2> QED BY <2>1 DEF Hash, FilesInv, FilesTypeOK, ledger, queues, bounds
  <1>4. StoresAreFinite'
    BY DEF Hash, queues, FilesInv, StoresAreFinite
  <1>5. LedgerInv'
    <2>1. \A k \in Members : \A x \in tasks'[k] : x \in tasks[k] \/ x.step = "hashed"
      BY <1>2 DEF FilesInv, FilesTypeOK
    <2> QED BY <2>1, LedgerRests DEF Hash, ledger, queues, FilesInv
  <1> QED BY <1>3, <1>4, <1>5 DEF FilesInv

LEMMA MintKeeps ==
    ASSUME FilesInv, NEW n \in Members, Mint(n)
    PROVE  FilesInv'
  <1>1. PICK t \in tasks[n] :
          LET p == t.version.path
              v == [t.version EXCEPT !.stamp = [counter |-> NextCounter(n), actor |-> n]]
          IN  /\ t.step = "hashed"
              /\ IF SameAsRow(n, t.version)
                 THEN tasks' = [tasks EXCEPT ![n] = @ \ {t}] /\ UNCHANGED ledger
                 ELSE /\ PutVersion(n, v)
                      /\ tasks' = [tasks EXCEPT ![n] =
                                     (@ \ {t}) \cup {[t EXCEPT !.step = "minted", !.version = v]}]
              /\ unsaved' = [unsaved EXCEPT ![n] =
                               IF files[n][p] = t.version.body THEN @ \ {p} ELSE @]
    BY DEF Mint, Go, End
  <1>v. PICK v : v = [t.version EXCEPT !.stamp = [counter |-> NextCounter(n), actor |-> n]]
    OBVIOUS
  <1>u. PICK u : u = [t EXCEPT !.step = "minted", !.version = v]
    OBVIOUS
  <1>2. t \in Task /\ t.version \in Version /\ n \in Nat
    BY DEF FilesInv, FilesTypeOK, Task
  <1>3. /\ v \in Version /\ v.path = t.version.path
        /\ v.stamp = [counter |-> NextCounter(n), actor |-> n]
    BY <1>v, <1>2, NextCounterTops DEF Version, Stamp, FilesInv
  <1>4. u \in Task /\ u.version = v
    BY <1>u, <1>2, <1>3 DEF Task
  <1>5. /\ UNCHANGED <<files, dirty, queues, bodies, inbound, overtaken, bounds>>
    BY DEF Mint
  <1>6. unsaved' \in [Members -> SUBSET Paths]
    BY <1>1 DEF FilesInv, FilesTypeOK
  <1>7. StoresAreFinite'
    BY <1>5 DEF FilesInv, StoresAreFinite
  <1>8. CASE SameAsRow(n, t.version)
    <2>1. tasks' = [tasks EXCEPT ![n] = @ \ {t}] /\ UNCHANGED ledger
      BY <1>1, <1>8
    <2>2. FilesTypeOK'
      BY <1>5, <1>6, <2>1 DEF FilesInv, FilesTypeOK, ledger, queues, bounds
    <2>3. \A k \in Members : tasks'[k] \subseteq tasks[k]
      BY <2>1 DEF FilesInv, FilesTypeOK
    <2>4. LedgerInv'
      BY <1>5, <2>1, <2>3, LedgerRests DEF ledger, queues, FilesInv
    <2> QED BY <1>7, <2>2, <2>4 DEF FilesInv
  <1>9. CASE ~SameAsRow(n, t.version)
    <2>1. PutVersion(n, v) /\ tasks' = [tasks EXCEPT ![n] = (@ \ {t}) \cup {u}]
      BY <1>1, <1>9, <1>u, <1>v
    <2>2. FilesTypeOK'
      <3>1. /\ row' \in [Members -> [Paths -> [stamp : Stamp, body : Bodies \cup {Gone}]]]
            /\ history' \in [Members -> SUBSET Version]
        BY <1>3, <2>1, PutTyped DEF FilesInv
      <3>2. tasks' \in [Members -> SUBSET Task]
        BY <1>4, <2>1 DEF FilesInv, FilesTypeOK
      <3> QED BY <1>5, <1>6, <3>1, <3>2 DEF FilesInv, FilesTypeOK, queues, bounds
    <2>3. v.path \in Paths /\ v.stamp.counter = NextCounter(n) /\ v.stamp.actor = n
      BY <1>3 DEF Version
    <2>4. /\ NextCounter(n) \in Nat
          /\ \A p \in Paths : /\ row[n][p].stamp.counter < NextCounter(n)
                              /\ row[n][p].stamp.counter \in Nat
      BY NextCounterTops DEF FilesInv, FilesTypeOK, Stamp
    <2>5. n \in overtaken \/
            \A w \in Recorded : (w.path = v.path /\ w.stamp = v.stamp) => w = v
      <3>1. SUFFICES ASSUME n \notin overtaken,
                            NEW w \in Recorded, w.path = v.path, w.stamp = v.stamp
                     PROVE  FALSE
        OBVIOUS
      <3>2. w \in history[n] /\ w.path \in Paths /\ w.stamp.counter = NextCounter(n)
        BY <2>3, <3>1 DEF FilesInv, LedgerInv, AuthorsRemember
      <3>3. StampLeq(w.stamp, row[n][w.path].stamp)
        BY <3>1, <3>2 DEF FilesInv, LedgerInv, WinnerIsNewest
      <3>4. w.stamp.counter <= row[n][w.path].stamp.counter
        <4>1. w.stamp \in Stamp /\ row[n][w.path].stamp \in Stamp
          BY <3>2 DEF FilesInv, FilesTypeOK, Version
        <4> QED BY <3>3, <4>1 DEF StampLeq, StampLess, Stamp
      <3> QED BY <2>4, <3>2, <3>4
    <2>6. ~Stale(v, row[n][v.path]) /\ ~Collides(n, {v})
      <3>1. ~Stale(v, row[n][v.path])
        BY <2>3, <2>4 DEF Stale, StampLess
      <3>2. row[n][v.path].stamp # v.stamp
        BY <2>3, <2>4
      <3> QED BY <3>1, <3>2 DEF Collides
    <2>7. overtaken \subseteq overtaken'
      BY <1>5
    <2>8. /\ \A k \in Members : history[k] \subseteq history'[k]
          /\ Traced(v)'
          /\ LedgersAreFinite' /\ LedgersAgree' /\ AuthorsRemember' /\ WinnerIsNewest'
      <3>1. Traced(v) \/ (/\ v.stamp.actor = n
                          /\ \A w \in Recorded : (w.path = v.path /\ w.stamp = v.stamp) => w = v)
        BY <2>3, <2>5 DEF Traced
      <3>2. FilesTypeOK /\ LedgerInv
        BY DEF FilesInv
      <3> QED BY <1>3, <2>1, <2>6, <2>7, <3>1, <3>2, PutKeeps
    <2>9. \A k \in Members : \A x \in tasks'[k] : x \in tasks[k] \/ Traced(x.version)'
      <3>1. \A k \in Members : \A x \in tasks'[k] : x \in tasks[k] \/ x = u
        BY <2>1 DEF FilesInv, FilesTypeOK
      <3> QED BY <1>4, <2>8, <3>1
    <2>10. LedgerInv'
      BY <1>5, <2>7, <2>8, <2>9, LedgerMoves DEF queues, FilesInv
    <2> QED BY <1>7, <2>2, <2>10 DEF FilesInv
  <1> QED BY <1>8, <1>9

\* A task takes its next step, with the version it has.
LEMMA TaskGoes ==
    ASSUME FilesInv, NEW n \in Members, NEW t \in tasks[n], t.step # "hashed", NEW u \in Task,
           u.version = t.version, Go(n, t, u)
    PROVE  /\ tasks' \in [Members -> SUBSET Task]
           /\ \A k \in Members : \A x \in tasks'[k] : x \in tasks[k] \/ Traced(x.version)
  <1>1. tasks' = [tasks EXCEPT ![n] = (@ \ {t}) \cup {u}]
    BY DEF Go
  <1>2. Traced(t.version)
    BY DEF FilesInv, LedgerInv, VersionsAreRecorded
  <1> QED BY <1>1, <1>2 DEF FilesInv, FilesTypeOK

LEMMA TaskEnds ==
    ASSUME FilesTypeOK, NEW n \in Members, NEW t, End(n, t)
    PROVE  /\ tasks' \in [Members -> SUBSET Task]
           /\ \A k \in Members : tasks'[k] \subseteq tasks[k]
  BY DEF End, FilesTypeOK

LEMMA PlaceKeeps ==
    ASSUME FilesInv, NEW n \in Members, Place(n)
    PROVE  FilesInv'
  <1>t. PICK t \in tasks[n] : \E held \in LocalStores(n, t.version) :
          \E targets \in SUBSET (stores \ {n}) :
            /\ t.step = "minted"
            /\ bodies' = [bodies EXCEPT ![n] = held]
            /\ Go(n, t, [t EXCEPT !.step = "placed", !.left = targets])
    BY DEF Place
  <1>held. PICK held \in LocalStores(n, t.version) : \E targets \in SUBSET (stores \ {n}) :
            /\ t.step = "minted"
            /\ bodies' = [bodies EXCEPT ![n] = held]
            /\ Go(n, t, [t EXCEPT !.step = "placed", !.left = targets])
    BY <1>t
  <1>targets. PICK targets \in SUBSET (stores \ {n}) :
            /\ t.step = "minted"
            /\ bodies' = [bodies EXCEPT ![n] = held]
            /\ Go(n, t, [t EXCEPT !.step = "placed", !.left = targets])
    BY <1>held
  <1> DEFINE u == [t EXCEPT !.step = "placed", !.left = targets]
  <1>1. t \in Task /\ t.version \in Version /\ targets \subseteq Members
    BY DEF FilesInv, FilesTypeOK, Task
  <1>2. u \in Task /\ u.version = t.version
    BY <1>1 DEF Task
  <1> HIDE DEF u
  <1>3. /\ tasks' \in [Members -> SUBSET Task]
        /\ \A k \in Members : \A x \in tasks'[k] : x \in tasks[k] \/ Traced(x.version)
    BY <1>2, <1>targets, TaskGoes DEF u
  <1>4. held \subseteq Bodies /\ IsFiniteSet(held) /\ Cardinality(held) <= Quota
    BY <1>1, LocalBodies DEF FilesInv
  <1>5. bodies' = [bodies EXCEPT ![n] = held]
        /\ UNCHANGED <<user, ledger, queues, inbound, overtaken, bounds>>
    BY <1>targets DEF Place
  <1>6. FilesTypeOK'
    <2>1. bodies' \in [Members -> SUBSET Bodies] /\ \A k \in Members : Cardinality(bodies'[k]) <= Quota
      BY <1>4, <1>5 DEF FilesInv, FilesTypeOK
    <2> QED BY <1>3, <1>5, <2>1 DEF FilesInv, FilesTypeOK, user, ledger, queues, bounds
  <1>7. StoresAreFinite'
    BY <1>4, <1>5 DEF FilesInv, FilesTypeOK, StoresAreFinite
  <1>8. LedgerInv'
    BY <1>3, <1>5, LedgerRests DEF ledger, queues, FilesInv
  <1> QED BY <1>6, <1>7, <1>8 DEF FilesInv

LEMMA EnsureKeeps ==
    ASSUME FilesInv, NEW n \in Members, Ensure(n)
    PROVE  FilesInv'
  <1> DEFINE AtHand(t) == t.version.body \in {Gone} \cup bodies[n] \cup outbound[n]
  <1>t. PICK t \in tasks[n] : \E m \in t.left :
          /\ t.step = "placed"
          /\ IF AtHand(t) \/ Unchanged(n, t.version)
             THEN Go(n, t, [t EXCEPT !.step = "ensured", !.peer = m])
             ELSE End(n, t)
          /\ outbound' = [outbound EXCEPT ![n] =
                 IF ~AtHand(t) /\ Unchanged(n, t.version) THEN @ \cup {t.version.body} ELSE @]
    BY DEF Ensure
  <1>m. PICK m \in t.left :
          /\ t.step = "placed"
          /\ IF AtHand(t) \/ Unchanged(n, t.version)
             THEN Go(n, t, [t EXCEPT !.step = "ensured", !.peer = m])
             ELSE End(n, t)
          /\ outbound' = [outbound EXCEPT ![n] =
                 IF ~AtHand(t) /\ Unchanged(n, t.version) THEN @ \cup {t.version.body} ELSE @]
    BY <1>t
  <1> DEFINE u == [t EXCEPT !.step = "ensured", !.peer = m]
  <1>1. t \in Task /\ t.version \in Version /\ m \in Members
    BY DEF FilesInv, FilesTypeOK, Task
  <1>2. u \in Task /\ u.version = t.version
    BY <1>1 DEF Task
  <1>3. Go(n, t, u) \/ End(n, t)
    BY <1>m
  <1> HIDE DEF u
  <1>4. /\ tasks' \in [Members -> SUBSET Task]
        /\ \A k \in Members : \A x \in tasks'[k] : x \in tasks[k] \/ Traced(x.version)
    <2>1. CASE Go(n, t, u)
      BY <1>m, <1>2, <2>1, TaskGoes
    <2>2. CASE End(n, t)
      BY <2>2, TaskEnds DEF FilesInv
    <2> QED BY <1>3, <2>1, <2>2
  <1>5. ~AtHand(t) => t.version.body \in Bodies
    BY <1>1 DEF Version
  <1>6. outbound' \in [Members -> SUBSET Bodies]
    BY <1>m, <1>5 DEF FilesInv, FilesTypeOK
  <1>7. UNCHANGED <<user, ledger, metaQueue, bodyQueue, bodies, inbound, overtaken, bounds>>
    BY DEF Ensure
  <1>8. FilesTypeOK'
    BY <1>4, <1>6, <1>7 DEF FilesInv, FilesTypeOK, user, ledger, bounds
  <1>9. StoresAreFinite'
    BY <1>7 DEF FilesInv, StoresAreFinite
  <1>10. LedgerInv'
    BY <1>4, <1>7, LedgerRests DEF ledger, FilesInv
  <1> QED BY <1>8, <1>9, <1>10 DEF FilesInv

LEMMA InsertKeeps ==
    ASSUME FilesInv, NEW n \in Members, Insert(n)
    PROVE  FilesInv'
  <1>1. PICK t \in tasks[n] :
          /\ t.step = "ensured"
          /\ bodyQueue' = [bodyQueue EXCEPT ![n] = @ \cup {[to |-> t.peer, version |-> t.version]}]
          /\ Go(n, t, [t EXCEPT !.step = "placed", !.left = @ \ {t.peer}])
    BY DEF Insert
  <1> DEFINE u == [t EXCEPT !.step = "placed", !.left = @ \ {t.peer}]
             q == [to |-> t.peer, version |-> t.version]
  <1>2. t \in Task /\ t.version \in Version /\ t.peer \in Members /\ t.left \subseteq Members
    BY DEF FilesInv, FilesTypeOK, Task
  <1>3. u \in Task /\ u.version = t.version
    BY <1>2 DEF Task
  <1>4. q \in Queued /\ q.version = t.version
    BY <1>2 DEF Queued
  <1>5. bodyQueue' = [bodyQueue EXCEPT ![n] = @ \cup {q}] /\ Go(n, t, u)
    BY <1>1
  <1> HIDE DEF u, q
  <1>6. /\ tasks' \in [Members -> SUBSET Task]
        /\ \A k \in Members : \A x \in tasks'[k] : x \in tasks[k] \/ Traced(x.version)
    BY <1>1, <1>3, <1>5, TaskGoes
  <1>7. Traced(q.version)
    BY <1>1, <1>4 DEF FilesInv, LedgerInv, VersionsAreRecorded
  <1>8. UNCHANGED <<user, ledger, metaQueue, outbound, bodies, inbound, overtaken, bounds>>
    BY DEF Insert
  <1>9. /\ bodyQueue' \in [Members -> SUBSET Queued]
        /\ \A k \in Members : \A x \in bodyQueue'[k] : x \in bodyQueue[k] \/ x = q
    BY <1>4, <1>5 DEF FilesInv, FilesTypeOK
  <1>10. FilesTypeOK'
    BY <1>6, <1>8, <1>9 DEF FilesInv, FilesTypeOK, user, ledger, bounds
  <1>11. StoresAreFinite'
    BY <1>8 DEF FilesInv, StoresAreFinite
  <1>12. LedgerInv'
    BY <1>6, <1>7, <1>8, <1>9, LedgerRests DEF ledger, FilesInv
  <1> QED BY <1>10, <1>11, <1>12 DEF FilesInv

LEMMA AnnounceKeeps ==
    ASSUME FilesInv, NEW n \in Members, Announce(n)
    PROVE  FilesInv'
  <1>1. PICK t \in tasks[n] :
          /\ t.step = "placed"
          /\ metaQueue' = [metaQueue EXCEPT ![n] =
                             @ \cup {[to |-> m, version |-> t.version] : m \in Members \ {n}}]
          /\ End(n, t)
    BY DEF Announce
  <1> DEFINE told == {[to |-> m, version |-> t.version] : m \in Members \ {n}}
  <1>2. t.version \in Version /\ Traced(t.version)
    <2>1. t.version \in Version
      BY DEF FilesInv, FilesTypeOK, Task
    <2>2. Traced(t.version)
      BY <1>1 DEF FilesInv, LedgerInv, VersionsAreRecorded
    <2> QED BY <2>1, <2>2
  <1>3. told \subseteq Queued /\ \A q \in told : q.version = t.version
    BY <1>2 DEF Queued
  <1>4. metaQueue' = [metaQueue EXCEPT ![n] = @ \cup told]
    BY <1>1
  <1> HIDE DEF told
  <1>5. /\ tasks' \in [Members -> SUBSET Task]
        /\ \A k \in Members : tasks'[k] \subseteq tasks[k]
    BY <1>1, TaskEnds DEF FilesInv
  <1>6. UNCHANGED <<user, ledger, bodyQueue, outbound, bodies, inbound, overtaken, bounds>>
    BY DEF Announce
  <1>7. /\ metaQueue' \in [Members -> SUBSET Queued]
        /\ \A k \in Members : \A q \in metaQueue'[k] : q \in metaQueue[k] \/ Traced(q.version)
    BY <1>2, <1>3, <1>4 DEF FilesInv, FilesTypeOK
  <1>8. FilesTypeOK'
    BY <1>5, <1>6, <1>7 DEF FilesInv, FilesTypeOK, user, ledger, bounds
  <1>9. StoresAreFinite'
    BY <1>6 DEF FilesInv, StoresAreFinite
  <1>10. LedgerInv'
    BY <1>5, <1>6, <1>7, LedgerRests DEF ledger, FilesInv
  <1> QED BY <1>8, <1>9, <1>10 DEF FilesInv

\* Sending.

LEMMA UpsetsCounted ==
    ASSUME FilesTypeOK, NEW acked, MayMiss(acked), Replied(acked)
    PROVE  upsets' \in 0 .. MaxUpsets
  BY DEF FilesTypeOK, MayMiss, Replied

LEMMA SendMetadataKeeps ==
    ASSUME FilesInv, NEW n \in Members, NEW m \in Members, NEW acked, SendMetadata(n, m, acked)
    PROVE  FilesInv'
  <1>1. PICK q \in metaQueue[n] :
          /\ ApplyMetadata(m, {q.version})
          /\ metaQueue' = [metaQueue EXCEPT ![n] = IF acked THEN @ \ {q} ELSE @]
    BY DEF SendMetadata
  <1> DEFINE W == {q.version}
  <1>2. W \in SUBSET Version /\ IsFiniteSet(W) /\ \A w \in W : Traced(w)
    <2>1. q.version \in Version /\ Traced(q.version)
      BY DEF FilesInv, FilesTypeOK, Queued, LedgerInv, VersionsAreRecorded
    <2> QED BY <2>1, FS_Singleton
  <1>3. \A k \in Members : metaQueue'[k] \subseteq metaQueue[k]
    BY <1>1 DEF FilesInv, FilesTypeOK
  <1>4. ApplyMetadata(m, W)
    BY <1>1
  <1> HIDE DEF W
  <1>5. FilesTypeOK'
    <2>1. metaQueue' \in [Members -> SUBSET Queued]
      BY <1>1 DEF FilesInv, FilesTypeOK
    <2>2. upsets' \in 0 .. MaxUpsets
      BY UpsetsCounted DEF SendMetadata, FilesInv
    <2>3. /\ row' \in [Members -> [Paths -> [stamp : Stamp, body : Bodies \cup {Gone}]]]
          /\ history' \in [Members -> SUBSET Version]
      BY <1>2, <1>4, ApplyTyped DEF FilesInv
    <2> QED BY <2>1, <2>2, <2>3 DEF SendMetadata, FilesInv, FilesTypeOK, user
  <1>6. StoresAreFinite'
    BY DEF SendMetadata, FilesInv, StoresAreFinite
  <1>7. LedgerInv'
    <2>1. tasks' = tasks /\ inbound' = inbound /\ bodyQueue' = bodyQueue /\ overtaken' = overtaken
      BY DEF SendMetadata
    <2>2. /\ \A k \in Members : history[k] \subseteq history'[k]
          /\ LedgersAreFinite' /\ LedgersAgree' /\ AuthorsRemember' /\ WinnerIsNewest'
      BY <1>2, <1>4, <2>1, ApplyKeeps DEF FilesInv
    <2> QED BY <1>3, <2>1, <2>2, LedgerMoves DEF FilesInv
  <1> QED BY <1>5, <1>6, <1>7 DEF FilesInv

LEMMA PendingQueued ==
    ASSUME FilesInv, NEW n \in Members, NEW m, NEW v \in PendingFor(n, m)
    PROVE  v \in Version /\ Traced(v)
  <1>1. \E q \in bodyQueue[n] : v = q.version
    BY DEF PendingFor
  <1> QED BY <1>1 DEF FilesInv, FilesTypeOK, Queued, LedgerInv, VersionsAreRecorded

LEMMA BeginFileKeeps ==
    ASSUME FilesInv, NEW n \in Members, NEW m \in Members, BeginFile(n, m)
    PROVE  FilesInv'
  <1>1. PICK v \in PendingFor(n, m) :
          LET same == {t \in inbound[m] : t.from = n /\ t.version = v} IN
          /\ Wanted(m, v) /\ ~AlreadyHeld(m, v)
          /\ same # {} \/ Cardinality(inbound[m]) < MaxInbound
          /\ inbound' = [inbound EXCEPT ![m] = (@ \ same) \cup
               {[from |-> n, version |-> v, materialize |-> ~Stale(v, row[m][v.path])]}]
    BY DEF BeginFile
  <1> DEFINE same == {t \in inbound[m] : t.from = n /\ t.version = v}
             new == [from |-> n, version |-> v, materialize |-> ~Stale(v, row[m][v.path])]
             rest == inbound[m] \ same
  <1>2. v \in Version /\ Traced(v)
    BY PendingQueued
  <1>3. new \in Transfer /\ v.body # Gone /\ new.version = v
    BY <1>1, <1>2 DEF Transfer, Wanted
  <1>4. /\ same # {} \/ Cardinality(inbound[m]) < MaxInbound
        /\ inbound' = [inbound EXCEPT ![m] = rest \cup {new}]
    BY <1>1
  <1>5. ~new.materialize => v \in history[m]
    BY <1>1 DEF Wanted
  <1>6. IsFiniteSet(inbound[m]) /\ Cardinality(inbound[m]) \in Nat
        /\ Cardinality(inbound[m]) <= MaxInbound
    BY FS_CardinalityType DEF FilesInv, FilesTypeOK, StoresAreFinite
  <1>7. rest \in SUBSET inbound[m] /\ same \in SUBSET inbound[m]
    OBVIOUS
  <1> HIDE DEF new, rest
  <1>8. /\ IsFiniteSet(rest) /\ Cardinality(rest) \in Nat
        /\ Cardinality(rest) <= Cardinality(inbound[m])
    BY <1>6, <1>7, FS_Subset, FS_CardinalityType
  <1>9. same # {} => Cardinality(rest) < Cardinality(inbound[m])
    <2>1. same # {} => rest # inbound[m]
      BY DEF rest
    <2> HIDE DEF same
    <2> QED BY <1>6, <1>7, <1>8, <2>1, FS_Subset
  <1> HIDE DEF same
  <1>10. IsFiniteSet(rest \cup {new}) /\ Cardinality(rest \cup {new}) <= MaxInbound
    <2>1. /\ IsFiniteSet(rest \cup {new})
          /\ \/ Cardinality(rest \cup {new}) = Cardinality(rest)
             \/ Cardinality(rest \cup {new}) = Cardinality(rest) + 1
      BY <1>8, FS_AddElement
    <2> QED BY <1>4, <1>6, <1>8, <1>9, <2>1
  <1>11. FilesTypeOK'
    <2>1. inbound' \in [Members -> SUBSET Transfer]
      BY <1>3, <1>4, <1>7 DEF FilesInv, FilesTypeOK
    <2>2. \A k \in Members : Cardinality(inbound'[k]) <= MaxInbound
      BY <1>4, <1>10 DEF FilesInv, FilesTypeOK
    <2> QED BY <2>1, <2>2 DEF BeginFile, FilesInv, FilesTypeOK, user, ledger, queues, bounds
  <1>12. StoresAreFinite'
    <2>1. \A k \in Members : IsFiniteSet(inbound'[k])
      BY <1>4, <1>10 DEF FilesInv, FilesTypeOK, StoresAreFinite
    <2>2. \A k \in Members : \A t \in inbound'[k] : t \in inbound[k] \/ t = new
      BY <1>4, <1>7 DEF FilesInv, FilesTypeOK
    <2> QED BY <1>3, <2>1, <2>2 DEF BeginFile, FilesInv, StoresAreFinite
  <1>13. LedgerInv'
    <2>1. /\ row' = row /\ history' = history /\ tasks' = tasks /\ overtaken' = overtaken
          /\ metaQueue' = metaQueue /\ bodyQueue' = bodyQueue
      BY DEF BeginFile, ledger, queues
    <2>2. \A k \in Members : \A t \in inbound'[k] : t \in inbound[k] \/ (k = m /\ t = new)
      BY <1>4, <1>7 DEF FilesInv, FilesTypeOK
    <2>3. \A k \in Members : \A t \in inbound'[k] :
             \/ t \in inbound[k]
             \/ Traced(t.version) /\ (~t.materialize => t.version \in history[k])
      BY <1>2, <1>3, <1>5, <2>2
    <2> QED BY <2>1, <2>3, LedgerRests DEF FilesInv
  <1> QED BY <1>11, <1>12, <1>13 DEF FilesInv

\* What an answer leaves of types, queues and stores, when nothing else is sent.
LEMMA AnswerTyped ==
    ASSUME FilesTypeOK, NEW n \in Members, NEW m, NEW v, NEW acked, Answer(n, m, v, acked)
    PROVE  /\ bodyQueue' \in [Members -> SUBSET Queued]
           /\ metaQueue' \in [Members -> SUBSET Queued]
           /\ outbound' \in [Members -> SUBSET Bodies]
           /\ upsets' \in 0 .. MaxUpsets
  <1>1. upsets' \in 0 .. MaxUpsets
    BY UpsetsCounted DEF Answer
  <1>2. CASE acked
    BY <1>1, <1>2 DEF Answer, Acknowledge, FilesTypeOK
  <1>3. CASE ~acked
    BY <1>1, <1>3 DEF Answer, queues, FilesTypeOK
  <1> QED BY <1>2, <1>3

LEMMA BareAnswerKeeps ==
    ASSUME FilesInv, NEW n \in Members, NEW m, NEW v, NEW acked, Answer(n, m, v, acked),
           UNCHANGED <<user, tasks, ledger, bodies, inbound, overtaken, stores, writes>>
    PROVE  FilesInv'
  <1>1. FilesTypeOK'
    BY AnswerTyped DEF FilesInv, FilesTypeOK, user, ledger
  <1>2. metaQueue' = metaQueue /\ \A k \in Members : bodyQueue'[k] \subseteq bodyQueue[k]
    BY AnswerKeepsBodies DEF FilesInv
  <1>3. StoresAreFinite'
    BY DEF FilesInv, StoresAreFinite
  <1>4. LedgerInv'
    BY <1>2, LedgerRests DEF ledger, FilesInv
  <1> QED BY <1>1, <1>3, <1>4 DEF FilesInv

LEMMA BeginHeldKeeps ==
    ASSUME FilesInv, NEW n \in Members, NEW m \in Members, NEW acked, BeginHeld(n, m, acked)
    PROVE  FilesInv'
  BY BareAnswerKeeps DEF BeginHeld

LEMMA DeleteSupersededKeeps ==
    ASSUME FilesInv, NEW n \in Members, NEW m \in Members, NEW acked,
           DeleteSuperseded(n, m, acked)
    PROVE  FilesInv'
  BY BareAnswerKeeps DEF DeleteSuperseded

\* A transfer that is over makes room for another.
LEMMA TransferEnds ==
    ASSUME FilesTypeOK, StoresAreFinite, NEW m \in Members, NEW t,
           inbound' = [inbound EXCEPT ![m] = @ \ {t}]
    PROVE  /\ inbound' \in [Members -> SUBSET Transfer]
           /\ \A k \in Members : /\ inbound'[k] \subseteq inbound[k] /\ IsFiniteSet(inbound'[k])
                                 /\ Cardinality(inbound'[k]) <= MaxInbound
  <1>1. inbound' \in [Members -> SUBSET Transfer]
        /\ \A k \in Members : inbound'[k] \in SUBSET inbound[k]
    BY DEF FilesTypeOK
  <1>2. ASSUME NEW k \in Members
        PROVE  IsFiniteSet(inbound'[k]) /\ Cardinality(inbound'[k]) <= MaxInbound
    <2>1. IsFiniteSet(inbound[k]) /\ Cardinality(inbound[k]) <= MaxInbound
      BY DEF FilesTypeOK, StoresAreFinite
    <2>2. /\ IsFiniteSet(inbound'[k]) /\ Cardinality(inbound'[k]) <= Cardinality(inbound[k])
          /\ Cardinality(inbound'[k]) \in Nat /\ Cardinality(inbound[k]) \in Nat
      BY <1>1, <2>1, FS_Subset, FS_CardinalityType
    <2> QED BY <2>1, <2>2
  <1> QED BY <1>1, <1>2

LEMMA CommitFailsKeeps ==
    ASSUME FilesInv, NEW m \in Members, CommitFails(m)
    PROVE  FilesInv'
  <1>1. PICK t \in inbound[m] : inbound' = [inbound EXCEPT ![m] = @ \ {t}]
    BY DEF CommitFails
  <1>2. /\ inbound' \in [Members -> SUBSET Transfer]
        /\ \A k \in Members : /\ inbound'[k] \subseteq inbound[k] /\ IsFiniteSet(inbound'[k])
                              /\ Cardinality(inbound'[k]) <= MaxInbound
    BY <1>1, TransferEnds DEF FilesInv
  <1>3. upsets' \in 0 .. MaxUpsets
    BY DEF CommitFails, FilesInv, FilesTypeOK
  <1>4. UNCHANGED <<user, tasks, ledger, queues, bodies, overtaken, stores, writes>>
    BY DEF CommitFails
  <1>5. FilesTypeOK'
    BY <1>2, <1>3, <1>4 DEF FilesInv, FilesTypeOK, user, ledger, queues
  <1>6. StoresAreFinite'
    BY <1>2, <1>4 DEF FilesInv, StoresAreFinite
  <1>7. LedgerInv'
    BY <1>2, <1>4, LedgerRests DEF ledger, queues, FilesInv
  <1> QED BY <1>5, <1>6, <1>7 DEF FilesInv

LEMMA CommitFileKeeps ==
    ASSUME FilesInv, NEW m \in Members, NEW acked, CommitFile(m, acked)
    PROVE  FilesInv'
  <1>1. PICK t \in inbound[m] : \E held \in Placements(m, t.version.body) :
          /\ ~Collides(m, {t.version})
          /\ inbound' = [inbound EXCEPT ![m] = @ \ {t}]
          /\ bodies' = [bodies EXCEPT ![m] = held]
          /\ IF Superseded(m, t)
             THEN /\ history' = [history EXCEPT ![m] = Appended(@, {t.version})]
                  /\ UNCHANGED <<files, dirty, unsaved, row>>
             ELSE /\ PutVersion(m, t.version)
                  /\ files' = [files EXCEPT ![m][t.version.path] = t.version.body]
                  /\ dirty' = [dirty EXCEPT ![m] = @ \cup {t.version.path}]
                  /\ unsaved' = [unsaved EXCEPT ![m] = @ \ {t.version.path}]
          /\ Answer(t.from, m, t.version, acked)
    BY DEF CommitFile, user
  <1>2. PICK held \in Placements(m, t.version.body) : bodies' = [bodies EXCEPT ![m] = held]
    BY <1>1
  <1> DEFINE v == t.version
  <1>3. t \in Transfer /\ v \in Version /\ t.from \in Members /\ v.body \in Bodies
        /\ v.path \in Paths
    BY DEF FilesInv, FilesTypeOK, StoresAreFinite, Transfer, Version
  <1>4. /\ held \subseteq Bodies /\ IsFiniteSet(held) /\ Cardinality(held) <= Quota
        /\ \A q \in bodyQueue[m] : q.version.body \in bodies[m] => q.version.body \in held
    <2>1. held \in Placements(m, v.body) /\ FilesTypeOK /\ StoresAreFinite
      BY <1>2 DEF FilesInv
    <2> HIDE DEF v
    <2> QED BY <1>3, <2>1, PlacedBodies
  <1>5. /\ ~Collides(m, {v})
        /\ inbound' = [inbound EXCEPT ![m] = @ \ {t}]
        /\ Answer(t.from, m, v, acked)
        /\ UNCHANGED <<tasks, overtaken, stores, writes>>
    BY <1>1 DEF CommitFile
  <1>6. \/ /\ Superseded(m, t)
           /\ history' = [history EXCEPT ![m] = Appended(@, {v})]
           /\ UNCHANGED <<files, dirty, unsaved, row>>
        \/ /\ ~Superseded(m, t)
           /\ PutVersion(m, v)
           /\ files' = [files EXCEPT ![m][v.path] = v.body]
           /\ dirty' = [dirty EXCEPT ![m] = @ \cup {v.path}]
           /\ unsaved' = [unsaved EXCEPT ![m] = @ \ {v.path}]
    BY <1>1
  <1> HIDE DEF v
  <1>7. /\ inbound' \in [Members -> SUBSET Transfer]
        /\ \A k \in Members : /\ inbound'[k] \subseteq inbound[k] /\ IsFiniteSet(inbound'[k])
                              /\ Cardinality(inbound'[k]) <= MaxInbound
    BY <1>5, TransferEnds DEF FilesInv
  <1>8. /\ bodies' \in [Members -> SUBSET Bodies]
        /\ \A k \in Members : IsFiniteSet(bodies'[k]) /\ Cardinality(bodies'[k]) <= Quota
        /\ \A k \in Members : \A q \in bodyQueue[k] :
              q.version.body \in bodies[k] => q.version.body \in bodies'[k]
    BY <1>2, <1>4 DEF FilesInv, FilesTypeOK, StoresAreFinite
  <1>9. FilesTypeOK'
    <2>1. /\ bodyQueue' \in [Members -> SUBSET Queued] /\ metaQueue' \in [Members -> SUBSET Queued]
          /\ outbound' \in [Members -> SUBSET Bodies] /\ upsets' \in 0 .. MaxUpsets
      BY <1>3, <1>5, AnswerTyped DEF FilesInv
    <2>2. /\ row' \in [Members -> [Paths -> [stamp : Stamp, body : Bodies \cup {Gone}]]]
          /\ history' \in [Members -> SUBSET Version]
      <3>1. CASE Superseded(m, t)
        BY <1>3, <1>6, <3>1 DEF FilesInv, FilesTypeOK, Appended
      <3>2. CASE ~Superseded(m, t)
        BY <1>3, <1>6, <3>2, PutTyped DEF FilesInv
      <3> QED BY <3>1, <3>2
    <2>3. /\ files' \in [Members -> [Paths -> Bodies \cup {Gone}]]
          /\ dirty' \in [Members -> SUBSET Paths] /\ unsaved' \in [Members -> SUBSET Paths]
      <3>1. /\ files \in [Members -> [Paths -> Bodies \cup {Gone}]]
            /\ dirty \in [Members -> SUBSET Paths] /\ unsaved \in [Members -> SUBSET Paths]
        BY DEF FilesInv, FilesTypeOK
      <3>2. CASE Superseded(m, t)
        BY <1>6, <3>1, <3>2
      <3>3. CASE ~Superseded(m, t)
        BY <1>3, <1>6, <3>1, <3>3
      <3> QED BY <3>2, <3>3
    <2>4. /\ tasks' \in [Members -> SUBSET Task] /\ overtaken' \subseteq Members
          /\ stores' \in StoreSets /\ writes' \in 0 .. MaxWrites
      BY <1>5 DEF FilesInv, FilesTypeOK
    <2> QED BY <1>7, <1>8, <2>1, <2>2, <2>3, <2>4 DEF FilesTypeOK
  <1>10. StoresAreFinite'
    BY <1>7, <1>8 DEF FilesInv, StoresAreFinite
  <1>11. metaQueue' = metaQueue /\ \A k \in Members : bodyQueue'[k] \subseteq bodyQueue[k]
    BY <1>3, <1>5, AnswerKeepsBodies DEF FilesInv
  <1>12. LedgerInv'
    <2>1. Traced(v) /\ tasks' = tasks /\ overtaken' = overtaken
      BY <1>5 DEF FilesInv, LedgerInv, VersionsAreRecorded, v
    <2>2. /\ \A k \in Members : history[k] \subseteq history'[k]
          /\ LedgersAreFinite' /\ LedgersAgree' /\ AuthorsRemember' /\ WinnerIsNewest'
      <3>1. CASE ~Superseded(m, t)
        <4>1. ~Stale(v, row[m][v.path]) /\ PutVersion(m, v)
          BY <1>6, <3>1 DEF Superseded, v
        <4> QED BY <1>3, <1>5, <2>1, <4>1, PutKeeps DEF FilesInv
      <3>2. CASE Superseded(m, t)
        <4> DEFINE W == {v}
        <4>1. W \in SUBSET Version /\ IsFiniteSet(W) /\ \A w \in W : Traced(w)
          BY <1>3, <2>1, FS_Singleton
        <4>2. \A w \in W : w = v
          OBVIOUS
        <4>3. history' = [history EXCEPT ![m] = Appended(@, W)] /\ row' = row
          BY <1>6, <3>2
        <4> HIDE DEF W
        <4>4. /\ history'[m] = Appended(history[m], W)
              /\ \A k \in Members \ {m} : history'[k] = history[k]
              /\ \A k \in Members : history[k] \subseteq history'[k]
              /\ LedgersAreFinite' /\ LedgersAgree' /\ AuthorsRemember'
          BY <2>1, <4>1, <4>3, VersionsLearned DEF FilesInv
        <4>5. m \notin overtaken => StampLeq(v.stamp, row[m][v.path].stamp)
          <5>1. CASE ~t.materialize
            <6>1. v \in history[m]
              BY <5>1 DEF FilesInv, LedgerInv, LateTransfersAreKnown, v
            <6> QED BY <1>3, <6>1 DEF FilesInv, LedgerInv, WinnerIsNewest
          <5>2. CASE Stale(v, row[m][v.path])
            BY <5>2 DEF Stale, StampLeq
          <5> QED BY <3>2, <5>1, <5>2 DEF Superseded, v
        <4>6. m \notin overtaken' => \A p \in Paths :
                /\ row'[m][p] = row[m][p]
                /\ \A w \in W : w.path = p => StampLeq(w.stamp, row[m][p].stamp)
          BY <2>1, <4>2, <4>3, <4>5
        <4>7. row' \in [Members -> [Paths -> [stamp : Stamp, body : Bodies \cup {Gone}]]]
          BY <4>3 DEF FilesInv, FilesTypeOK
        <4>8. \A k \in Members \ {m} : history'[k] = history[k] /\ row'[k] = row[k]
          BY <4>3, <4>4
        <4>9. WinnerIsNewest'
          BY <2>1, <4>1, <4>4, <4>6, <4>7, <4>8, WinnerFollows DEF FilesInv
        <4> QED BY <4>4, <4>9
      <3> QED BY <3>1, <3>2
    <2> QED BY <1>7, <1>11, <2>1, <2>2, LedgerMoves DEF FilesInv
  <1> QED BY <1>9, <1>10, <1>12 DEF FilesInv

LEMMA RemoveFileKeeps ==
    ASSUME FilesInv, NEW n \in Members, NEW m \in Members, RemoveFile(n, m)
    PROVE  FilesInv'
  <1>1. PICK v \in PendingFor(n, m) :
          /\ v.body = Gone
          /\ ~Collides(m, {v}) /\ ~Stale(v, row[m][v.path])
          /\ files' = [files EXCEPT ![m][v.path] = Gone]
          /\ dirty' = [dirty EXCEPT ![m] =
                          IF files[m][v.path] = Gone THEN @ ELSE @ \cup {v.path}]
          /\ unsaved' = [unsaved EXCEPT ![m] = @ \ {v.path}]
          /\ tasks' = [tasks EXCEPT ![m] =
                         @ \cup {[step |-> "delete", version |-> v, peer |-> n, left |-> {}]}]
    BY DEF RemoveFile, Begin
  <1> DEFINE t == [step |-> "delete", version |-> v, peer |-> n, left |-> {}]
  <1>2. v \in Version /\ v.path \in Paths /\ Traced(v)
    BY PendingQueued DEF Version
  <1>3. t \in Task /\ t.version = v /\ t.step = "delete"
    BY <1>2 DEF Task
  <1>4. tasks' = [tasks EXCEPT ![m] = @ \cup {t}]
    BY <1>1
  <1>5. UNCHANGED <<ledger, queues, bodies, inbound, overtaken, bounds>>
    BY DEF RemoveFile
  <1> HIDE DEF t
  <1>6. FilesTypeOK'
    <2>1. /\ files' \in [Members -> [Paths -> Bodies \cup {Gone}]]
          /\ dirty' \in [Members -> SUBSET Paths] /\ unsaved' \in [Members -> SUBSET Paths]
          /\ tasks' \in [Members -> SUBSET Task]
      <3>1. /\ files' \in [Members -> [Paths -> Bodies \cup {Gone}]]
            /\ dirty' \in [Members -> SUBSET Paths]
        BY <1>1, <1>2 DEF FilesInv, FilesTypeOK
      <3>2. unsaved' \in [Members -> SUBSET Paths] /\ tasks' \in [Members -> SUBSET Task]
        BY <1>1, <1>3, <1>4 DEF FilesInv, FilesTypeOK
      <3> QED BY <3>1, <3>2
    <2> QED BY <1>5, <2>1 DEF FilesInv, FilesTypeOK, ledger, queues, bounds
  <1>7. StoresAreFinite'
    BY <1>5 DEF FilesInv, StoresAreFinite
  <1>8. LedgerInv'
    <2>1. \A k \in Members : \A x \in tasks'[k] : x \in tasks[k] \/ Traced(x.version)
      BY <1>2, <1>3, <1>4 DEF FilesInv, FilesTypeOK
    <2> QED BY <1>5, <2>1, LedgerRests DEF ledger, queues, FilesInv
  <1> QED BY <1>6, <1>7, <1>8 DEF FilesInv

LEMMA RecordDeleteKeeps ==
    ASSUME FilesInv, NEW m \in Members, NEW acked, RecordDelete(m, acked)
    PROVE  FilesInv'
  <1>1. PICK t \in tasks[m] :
          /\ t.step = "delete"
          /\ PutVersion(m, t.version)
          /\ End(m, t)
          /\ overtaken' = IF Stale(t.version, row[m][t.version.path]) \/ Collides(m, {t.version})
                          THEN overtaken \cup {m} ELSE overtaken
          /\ Answer(t.peer, m, t.version, acked)
    BY DEF RecordDelete
  <1> DEFINE v == t.version
  <1>2. t \in Task /\ v \in Version /\ t.peer \in Members /\ Traced(v)
    BY <1>1 DEF FilesInv, FilesTypeOK, Task, LedgerInv, VersionsAreRecorded
  <1>3. /\ PutVersion(m, v) /\ Answer(t.peer, m, v, acked)
        /\ End(m, t)
        /\ overtaken' = IF Stale(v, row[m][v.path]) \/ Collides(m, {v})
                        THEN overtaken \cup {m} ELSE overtaken
        /\ UNCHANGED <<user, bodies, inbound, stores, writes>>
    BY <1>1 DEF RecordDelete
  <1> HIDE DEF v
  <1>4. /\ tasks' \in [Members -> SUBSET Task]
        /\ \A k \in Members : tasks'[k] \subseteq tasks[k]
    BY <1>3, TaskEnds DEF FilesInv
  <1>5. FilesTypeOK'
    <2>1. /\ bodyQueue' \in [Members -> SUBSET Queued] /\ metaQueue' \in [Members -> SUBSET Queued]
          /\ outbound' \in [Members -> SUBSET Bodies] /\ upsets' \in 0 .. MaxUpsets
      BY <1>2, <1>3, AnswerTyped DEF FilesInv
    <2>2. /\ row' \in [Members -> [Paths -> [stamp : Stamp, body : Bodies \cup {Gone}]]]
          /\ history' \in [Members -> SUBSET Version]
      BY <1>2, <1>3, PutTyped DEF FilesInv
    <2>3. overtaken' \subseteq Members
      BY <1>3 DEF FilesInv, FilesTypeOK
    <2> QED BY <1>3, <1>4, <2>1, <2>2, <2>3 DEF FilesInv, FilesTypeOK, user
  <1>6. StoresAreFinite'
    BY <1>3 DEF FilesInv, StoresAreFinite
  <1>7. metaQueue' = metaQueue /\ \A k \in Members : bodyQueue'[k] \subseteq bodyQueue[k]
    BY <1>2, <1>3, AnswerKeepsBodies DEF FilesInv
  <1>8. LedgerInv'
    <2>1. /\ overtaken \subseteq overtaken'
          /\ m \in overtaken' \/ (~Stale(v, row[m][v.path]) /\ ~Collides(m, {v}))
      BY <1>3
    <2>2. /\ \A k \in Members : history[k] \subseteq history'[k]
          /\ LedgersAreFinite' /\ LedgersAgree' /\ AuthorsRemember' /\ WinnerIsNewest'
      BY <1>2, <1>3, <2>1, PutKeeps DEF FilesInv
    <2> QED BY <1>3, <1>4, <1>7, <2>1, <2>2, LedgerMoves DEF FilesInv
  <1> QED BY <1>5, <1>6, <1>8 DEF FilesInv

\* n applies the ledger of m.
LEMMA LedgerAppliedKeeps ==
    ASSUME FilesInv, NEW n \in Members, NEW m \in Members,
           ApplyMetadata(n, history[m]),
           UNCHANGED <<user, tasks, queues, bodies, inbound, overtaken, bounds>>
    PROVE  FilesInv'
  <1>1. history[m] \in SUBSET Version /\ IsFiniteSet(history[m]) /\ \A v \in history[m] : Traced(v)
    BY RecordedVersions DEF FilesInv, FilesTypeOK, LedgerInv, LedgersAreFinite, Traced
  <1>2. FilesTypeOK'
    <2>1. /\ row' \in [Members -> [Paths -> [stamp : Stamp, body : Bodies \cup {Gone}]]]
          /\ history' \in [Members -> SUBSET Version]
      BY <1>1, ApplyTyped DEF FilesInv
    <2> QED BY <2>1 DEF FilesInv, FilesTypeOK, user, queues, bounds
  <1>3. StoresAreFinite'
    BY DEF FilesInv, StoresAreFinite
  <1>4. LedgerInv'
    <2>1. /\ \A k \in Members : history[k] \subseteq history'[k]
          /\ LedgersAreFinite' /\ LedgersAgree' /\ AuthorsRemember' /\ WinnerIsNewest'
      BY <1>1, ApplyKeeps DEF FilesInv
    <2> QED BY <2>1, LedgerMoves DEF FilesInv, queues
  <1> QED BY <1>2, <1>3, <1>4 DEF FilesInv

LEMMA ReconcileKeeps ==
    ASSUME FilesInv, NEW n \in Members, NEW m \in Members, Reconcile(n, m)
    PROVE  FilesInv'
  BY LedgerAppliedKeeps DEF Reconcile, PullLedger, PushLedger

LEMMA RestartFilesKeeps ==
    ASSUME FilesInv, NEW n \in Members, RestartFiles(n)
    PROVE  FilesInv'
  <1>1. files' \in [Members -> [Paths -> Bodies \cup {Gone}]]
    <2>1. CASE UNCHANGED files
      BY <2>1 DEF FilesInv, FilesTypeOK
    <2>2. ASSUME NEW t \in inbound[n],
                 files' = [files EXCEPT ![n][t.version.path] = t.version.body]
          PROVE  files' \in [Members -> [Paths -> Bodies \cup {Gone}]]
      <3>1. t.version.path \in Paths /\ t.version.body \in Bodies \cup {Gone}
        BY DEF FilesInv, FilesTypeOK, Transfer, Version
      <3> QED BY <2>2, <3>1 DEF FilesInv, FilesTypeOK
    <2> QED BY <2>1, <2>2 DEF RestartFiles
  <1>2. /\ tasks' = [tasks EXCEPT ![n] = {}]
        /\ inbound' = [inbound EXCEPT ![n] = {}]
        /\ UNCHANGED <<ledger, queues, bodies, overtaken, stores, writes>>
    BY DEF RestartFiles
  <1>3. /\ dirty' \in [Members -> SUBSET Paths]
        /\ unsaved' \in [Members -> SUBSET Paths]
        /\ upsets' \in 0 .. MaxUpsets
    <2>1. dirty' \in [Members -> SUBSET Paths]
      BY DEF RestartFiles, FilesInv, FilesTypeOK
    <2>2. unsaved' \in [Members -> SUBSET Paths]
      BY DEF RestartFiles, FilesInv, FilesTypeOK
    <2>3. upsets' \in 0 .. MaxUpsets
      BY DEF RestartFiles, FilesInv, FilesTypeOK
    <2> QED BY <2>1, <2>2, <2>3
  <1>4. IsFiniteSet({}) /\ Cardinality({}) = 0
    BY FS_EmptySet
  <1>5. /\ tasks' \in [Members -> SUBSET Task] /\ inbound' \in [Members -> SUBSET Transfer]
        /\ \A k \in Members : /\ tasks'[k] \subseteq tasks[k] /\ inbound'[k] \subseteq inbound[k]
                              /\ IsFiniteSet(inbound'[k])
                              /\ Cardinality(inbound'[k]) <= MaxInbound
    BY <1>2, <1>4 DEF FilesInv, FilesTypeOK, StoresAreFinite
  <1>6. FilesTypeOK'
    BY <1>1, <1>2, <1>3, <1>5 DEF FilesInv, FilesTypeOK, ledger, queues
  <1>7. StoresAreFinite'
    BY <1>2, <1>5 DEF FilesInv, StoresAreFinite
  <1>8. LedgerInv'
    BY <1>2, <1>5, LedgerRests DEF ledger, queues, FilesInv
  <1> QED BY <1>6, <1>7, <1>8 DEF FilesInv

LEMMA FilesStep == FilesInv /\ [FilesNext]_filesVars => FilesInv'
  <1>1. SUFFICES ASSUME FilesInv, [FilesNext]_filesVars PROVE FilesInv'
    OBVIOUS
  <1>2. ASSUME NEW n \in Members, NEW p \in Paths, NEW b \in Bodies \cup {Gone}, Write(n, p, b)
        PROVE  FilesInv'
    BY <1>1, <1>2, WriteKeeps
  <1>3. ASSUME NEW n \in Members, NEW p \in Paths, Materialize(n, p) PROVE FilesInv'
    BY <1>1, <1>3, MaterializeKeeps
  <1>4. ASSUME NEW n \in Members, Capture(n) PROVE FilesInv'
    BY <1>1, <1>4, HashKeeps, MintKeeps, PlaceKeeps, EnsureKeeps, InsertKeeps, AnnounceKeeps
       DEF Capture
  <1>5. ASSUME NEW n \in Members, NEW acked, CommitFile(n, acked) \/ RecordDelete(n, acked)
        PROVE  FilesInv'
    BY <1>1, <1>5, CommitFileKeeps, RecordDeleteKeeps
  <1>6. ASSUME NEW n \in Members, CommitFails(n) \/ RestartFiles(n) PROVE FilesInv'
    BY <1>1, <1>6, CommitFailsKeeps, RestartFilesKeeps
  <1>7. ASSUME NEW n \in Members, NEW m \in Members, NEW acked,
               \/ SendMetadata(n, m, acked) \/ BeginHeld(n, m, acked)
               \/ DeleteSuperseded(n, m, acked)
        PROVE  FilesInv'
    BY <1>1, <1>7, SendMetadataKeeps, BeginHeldKeeps, DeleteSupersededKeeps
  <1>8. ASSUME NEW n \in Members, NEW m \in Members,
               BeginFile(n, m) \/ RemoveFile(n, m) \/ Reconcile(n, m)
        PROVE  FilesInv'
    BY <1>1, <1>8, BeginFileKeeps, RemoveFileKeeps, ReconcileKeeps
  <1>9. CASE UNCHANGED filesVars
    <2>1. /\ row' = row /\ history' = history /\ tasks' = tasks /\ inbound' = inbound
          /\ metaQueue' = metaQueue /\ bodyQueue' = bodyQueue /\ bodies' = bodies
          /\ overtaken' = overtaken
      BY <1>9 DEF filesVars
    <2>2. FilesTypeOK'
      BY <1>1, <1>9 DEF filesVars, FilesInv, FilesTypeOK
    <2>3. StoresAreFinite'
      BY <1>1, <2>1 DEF FilesInv, StoresAreFinite
    <2>4. LedgerInv'
      BY <1>1, <2>1, LedgerRests DEF FilesInv
    <2> QED BY <1>1, <2>2, <2>3, <2>4 DEF FilesInv
  <1>10. CASE FilesNext
    BY <1>2, <1>3, <1>4, <1>5, <1>6, <1>7, <1>8, <1>10 DEF FilesNext, Finish, SendBody
  <1> QED BY <1>1, <1>9, <1>10

\* Every reachable state of the file replication has the shape the runs check, and no store
\* outgrows its quota, whatever is evicted, sent twice or lost.
THEOREM FilesTypeHolds == FilesSpec => []FilesTypeOK
  <1>1. FilesInv => FilesTypeOK
    BY DEF FilesInv
  <1> QED BY <1>1, FilesInitially, FilesStep, PTL DEF FilesSpec

\* No step takes a body away from an entry that stays queued.
LEMMA BodiesStayStep == FilesInv /\ [FilesNext]_filesVars => BodiesStay
  <1>1. SUFFICES ASSUME FilesInv, [FilesNext]_filesVars PROVE BodiesStay
    OBVIOUS
  <1>2. ASSUME bodies' = bodies /\ outbound' = outbound PROVE BodiesStay
    BY <1>2 DEF BodiesStay
  <1>3. ASSUME NEW n \in Members, NEW m, NEW v, NEW acked, Answer(n, m, v, acked), bodies' = bodies
        PROVE  BodiesStay
    BY <1>1, <1>3, AnswerKeepsBodies DEF FilesInv, BodiesStay
  <1>4. ASSUME NEW n \in Members, Place(n) PROVE BodiesStay
    <2>1. PICK t \in tasks[n] : \E held \in LocalStores(n, t.version) :
            bodies' = [bodies EXCEPT ![n] = held]
      BY <1>4 DEF Place
    <2>2. PICK held \in LocalStores(n, t.version) : bodies' = [bodies EXCEPT ![n] = held]
      BY <2>1
    <2>3. t.version \in Version
      BY <1>1 DEF FilesInv, FilesTypeOK, Task
    <2>4. \A q \in bodyQueue[n] : q.version.body \in bodies[n] => q.version.body \in held
      BY <1>1, <2>2, <2>3, LocalBodies DEF FilesInv
    <2>5. outbound' = outbound
      BY <1>4 DEF Place, queues
    <2> QED BY <1>1, <2>2, <2>4, <2>5 DEF FilesInv, FilesTypeOK, BodiesStay
  <1>5. ASSUME NEW n \in Members, Ensure(n) PROVE BodiesStay
    <2>1. bodies' = bodies /\ \A k \in Members : outbound[k] \subseteq outbound'[k]
      BY <1>1, <1>5 DEF Ensure, FilesInv, FilesTypeOK
    <2> QED BY <2>1 DEF BodiesStay
  <1>6. ASSUME NEW m \in Members, NEW acked, CommitFile(m, acked) PROVE BodiesStay
    <2>1. PICK t \in inbound[m] : \E held \in Placements(m, t.version.body) :
            bodies' = [bodies EXCEPT ![m] = held] /\ Answer(t.from, m, t.version, acked)
      BY <1>6 DEF CommitFile
    <2>2. PICK held \in Placements(m, t.version.body) :
            bodies' = [bodies EXCEPT ![m] = held] /\ Answer(t.from, m, t.version, acked)
      BY <2>1
    <2>3. t.from \in Members /\ t.version.body \in Bodies
      BY <1>1 DEF FilesInv, FilesTypeOK, StoresAreFinite, Transfer, Version
    <2>4. \A q \in bodyQueue[m] : q.version.body \in bodies[m] => q.version.body \in held
      <3>1. FilesTypeOK /\ StoresAreFinite
        BY <1>1 DEF FilesInv
      <3>2. PICK b : b = t.version.body
        OBVIOUS
      <3>3. b \in Bodies /\ held \in Placements(m, b)
        BY <2>2, <2>3, <3>2
      <3> QED BY <3>1, <3>3, PlacedBodies
    <2>5. \A k \in Members : \A q \in bodyQueue'[k] :
             q.version.body \in outbound[k] => q.version.body \in outbound'[k]
      BY <1>1, <2>2, <2>3, AnswerKeepsBodies DEF FilesInv
    <2>6. \A k \in Members : \A q \in bodyQueue[k] :
             q.version.body \in bodies[k] => q.version.body \in bodies'[k]
      BY <1>1, <2>2, <2>4 DEF FilesInv, FilesTypeOK
    <2> QED BY <2>5, <2>6 DEF BodiesStay
  <1>7. ASSUME NEW m \in Members, NEW acked, RecordDelete(m, acked) PROVE BodiesStay
    <2>1. PICK t \in tasks[m] : Answer(t.peer, m, t.version, acked)
      BY <1>7 DEF RecordDelete
    <2>2. t.peer \in Members /\ bodies' = bodies
      BY <1>1, <1>7 DEF FilesInv, FilesTypeOK, Task, RecordDelete
    <2> QED BY <1>3, <2>1, <2>2
  <1>8. ASSUME NEW n \in Members, NEW m \in Members, NEW acked,
               \/ SendMetadata(n, m, acked) \/ BeginHeld(n, m, acked)
               \/ DeleteSuperseded(n, m, acked)
        PROVE  BodiesStay
    BY <1>2, <1>3, <1>8 DEF SendMetadata, BeginHeld, DeleteSuperseded
  <1>9. ASSUME NEW n \in Members, Capture(n) PROVE BodiesStay
    BY <1>2, <1>4, <1>5, <1>9 DEF Capture, Hash, Mint, Insert, Announce, queues
  <1>10. ASSUME NEW n \in Members, CommitFails(n) \/ RestartFiles(n) PROVE BodiesStay
    BY <1>2, <1>10 DEF CommitFails, RestartFiles, queues
  <1>11. ASSUME NEW n \in Members, NEW m \in Members,
                BeginFile(n, m) \/ RemoveFile(n, m) \/ Reconcile(n, m)
         PROVE  BodiesStay
    BY <1>2, <1>11 DEF BeginFile, RemoveFile, Reconcile, PullLedger, PushLedger, queues
  <1>12. ASSUME NEW n \in Members, NEW p \in Paths, NEW b \in Bodies \cup {Gone},
                Write(n, p, b) \/ Materialize(n, p)
         PROVE  BodiesStay
    BY <1>2, <1>12 DEF Write, Materialize, queues
  <1>13. CASE UNCHANGED filesVars
    BY <1>2, <1>13 DEF filesVars
  <1>14. CASE FilesNext
    <2>1. Gone \in Bodies \cup {Gone}
      OBVIOUS
    <2> QED BY <1>6, <1>7, <1>8, <1>9, <1>10, <1>11, <1>12, <1>14, <2>1
        DEF FilesNext, Finish, SendBody
  <1> QED BY <1>1, <1>13, <1>14

\* A queued body that can be sent stays so until its target has acknowledged it, whatever
\* else is acknowledged, reclaimed or changed (acknowledge, persist_verified_content), for
\* captures, drains and receptions in any interleaving.
THEOREM QueuedBodiesStay == FilesSpec => HeldBodyStays
  <1>1. BodiesStay => \A n \in Members : \A q \in bodyQueue[n] \cap bodyQueue'[n] :
                         HasBody(n, q) => HasBody(n, q)'
    BY DEF BodiesStay, HasBody
  <1>2. FilesInv /\ [FilesNext]_filesVars =>
          [\A n \in Members : \A q \in bodyQueue[n] \cap bodyQueue'[n] :
             HasBody(n, q) => HasBody(n, q)']_filesVars
    BY <1>1, BodiesStayStep
  <1> QED BY <1>2, FilesInitially, FilesStep, PTL DEF FilesSpec, HeldBodyStays

\* The current version of a path is the newest the device has heard of, on every device whose
\* winner was not overwritten between the two locks of apply_delete, for captures, drains and
\* receptions in any interleaving (apply_metadata, commit_file, apply_delete).
THEOREM WinnersAreNewest == FilesSpec => []WinnerIsNewest
  <1>1. FilesInv => WinnerIsNewest
    BY DEF FilesInv, LedgerInv
  <1> QED BY <1>1, FilesInitially, FilesStep, PTL DEF FilesSpec

\* A stamp of any other device names one version, on all devices and in all queues: a device
\* that mints one knows all it has minted before, restarts and missed replies included.
THEOREM StampsNameOneVersion == FilesSpec => []StampNamesOneVersion
  <1>1. FilesInv => StampNamesOneVersion
    <2>1. SUFFICES ASSUME LedgerInv PROVE StampNamesOneVersion
      BY DEF FilesInv
    <2>2. \A v \in Known : Traced(v)
      BY <2>1 DEF Known, LedgerInv, VersionsAreRecorded, Recorded, Traced
    <2> QED BY <2>1, <2>2 DEF LedgerInv, LedgersAgree, StampNamesOneVersion, Traced
  <1> QED BY <1>1, FilesInitially, FilesStep, PTL DEF FilesSpec

HIDE FilesConstants

-----------------------------------------------------------------------------
(* The storage plan.                                                       *)

LEMMA AllocationIdsFinite == IsFiniteSet(AllocationId)
  <1> DEFINE pairs == Devices \X Volumes
             f == [x \in pairs |-> [device |-> x[1], volume |-> x[2]]]
             ids == {f[x] : x \in pairs}
  <1>1. IsFiniteSet(pairs)
    BY PlanConstants, FS_Product
  <1>2. \A x \in pairs : f[x] = [device |-> x[1], volume |-> x[2]]
    BY Zenon
  <1>3. AllocationId \in SUBSET ids
    <2>1. ASSUME NEW id \in AllocationId PROVE id \in ids
      <3>1. /\ id.device \in Devices /\ id.volume \in Volumes
            /\ id = [device |-> id.device, volume |-> id.volume]
        BY DEF AllocationId
      <3>2. <<id.device, id.volume>> \in pairs
        BY <3>1
      <3>3. f[<<id.device, id.volume>>] = id
        BY <1>2, <3>1, <3>2
      <3> QED BY <3>2, <3>3
    <2> QED BY <2>1
  <1> HIDE DEF f, pairs
  <1>4. IsFiniteSet(ids)
    BY <1>1, FiniteImage
  <1> QED BY <1>3, <1>4, FS_Subset

USE PlanConstants

FinitePlan(plan) == IsFiniteSet(plan.allocations) /\ IsFiniteSet(plan.intents)

PlansAreFinite == \A m \in planNet : m.kind # "request" => FinitePlan(m.plan)

PlanInv == PlanTypeOK /\ PlansAreFinite

LEMMA NextStampTops ==
    ASSUME PlanTypeOK, NEW n \in Devices
    PROVE  /\ NextStamp(n) \in Stamp /\ NextStamp(n).actor = n
           /\ \A id \in AllocationId : StampLess(allocations[n][id].stamp, NextStamp(n))
  <1> DEFINE A == {allocations[n][id].stamp.counter : id \in AllocationId}
             I == {intents[n][d].counter : d \in Devices}
             F == {clocks[n][n], policy[n].counter}
  <1>1. A \in SUBSET Nat /\ I \in SUBSET Nat /\ F \in SUBSET Nat
    BY DEF PlanTypeOK, Allocation, Stamp
  <1>2. IsFiniteSet(A)
    <2> DEFINE f == [id \in AllocationId |-> allocations[n][id].stamp.counter]
    <2>1. \A id \in AllocationId : f[id] = allocations[n][id].stamp.counter
      BY Zenon
    <2> HIDE DEF f
    <2>2. A = {f[id] : id \in AllocationId}
      BY <2>1
    <2> HIDE DEF A
    <2> QED BY <2>2, AllocationIdsFinite, FiniteImage
  <1>3. IsFiniteSet(I)
    <2> DEFINE f == [d \in Devices |-> intents[n][d].counter]
               D == Devices
    <2>1. \A d \in D : f[d] = intents[n][d].counter
      BY Zenon
    <2>2. IsFiniteSet(D)
      OBVIOUS
    <2> HIDE DEF f
    <2>3. I = {f[d] : d \in D}
      BY <2>1
    <2> HIDE DEF I, D
    <2> QED BY <2>2, <2>3, FiniteImage
  <1>4. IsFiniteSet(F)
    <2>1. PICK x, y : x = clocks[n][n] /\ y = policy[n].counter
      OBVIOUS
    <2>2. F = {x} \cup {y}
      BY <2>1
    <2>3. IsFiniteSet({x}) /\ IsFiniteSet({y})
      BY FS_Singleton
    <2> HIDE DEF F
    <2> QED BY <2>2, <2>3, FS_Union
  <1>5. \A id \in AllocationId : allocations[n][id].stamp.counter \in A
    OBVIOUS
  <1>6. NextStamp(n) = [counter |-> Highest(F \cup A \cup I) + 1, actor |-> n]
    BY DEF NextStamp
  <1> HIDE DEF A, I, F
  <1>7. F \cup A \cup I \in SUBSET Nat /\ IsFiniteSet(F \cup A \cup I)
    BY <1>1, <1>2, <1>3, <1>4, FS_Union
  <1>8. Highest(F \cup A \cup I) \in Nat /\ \A c \in F \cup A \cup I : c <= Highest(F \cup A \cup I)
    BY <1>7, HighestBounds
  <1>9. NextStamp(n) \in Stamp /\ NextStamp(n).actor = n
    BY <1>6, <1>8 DEF Stamp
  <1>10. \A id \in AllocationId : allocations[n][id].stamp.counter < NextStamp(n).counter
    <2>1. ASSUME NEW id \in AllocationId
          PROVE  allocations[n][id].stamp.counter < NextStamp(n).counter
      <3>1. PICK c \in Nat : c = allocations[n][id].stamp.counter
        BY <1>1, <1>5
      <3>2. c <= Highest(F \cup A \cup I)
        BY <1>5, <1>8, <3>1
      <3> QED BY <1>6, <1>8, <3>1, <3>2
    <2> QED BY <2>1
  <1> QED BY <1>9, <1>10 DEF StampLess

LEMMA SendSends ==
    ASSUME NEW rest, NEW messages, Send(rest, messages)
    PROVE  planNet' \subseteq rest \cup messages
  BY DEF Send

LEMMA SnapshotFits ==
    ASSUME PlanTypeOK, NEW n \in Devices
    PROVE  Snapshot(n) \in Plan /\ FinitePlan(Snapshot(n))
  <1> DEFINE ids == Effective(allocations[n])
             f == [id \in ids |-> [id |-> id, allocation |-> allocations[n][id]]]
             g == [d \in Decided(n) |-> [device |-> d, stamp |-> intents[n][d]]]
  <1>1. /\ Snapshot(n).policy = policy[n]
        /\ Snapshot(n).allocations = {[id |-> id, allocation |-> allocations[n][id]] : id \in ids}
        /\ Snapshot(n).intents = {[device |-> d, stamp |-> intents[n][d]] : d \in Decided(n)}
    BY DEF Snapshot, Entries
  <1>2. ids \in SUBSET AllocationId /\ Decided(n) \in SUBSET Devices
    BY DEF Effective, Allocated, Decided
  <1>3. Snapshot(n) \in Plan
    <2>1. policy[n] \in Stamp
      BY DEF PlanTypeOK
    <2>2. Snapshot(n).allocations \in SUBSET AllocationEntry
      BY <1>1, <1>2 DEF PlanTypeOK, AllocationEntry
    <2>3. Snapshot(n).intents \in SUBSET IntentEntry
      <3>1. ASSUME NEW x \in Snapshot(n).intents PROVE x \in IntentEntry
        <4>1. PICK d \in Decided(n) : x = [device |-> d, stamp |-> intents[n][d]]
          BY <1>1, <3>1
        <4>2. d \in Devices
          BY <1>2, <4>1
        <4>3. intents[n][d] \in Stamp
          <5>1. intents \in [Devices -> [Devices -> Stamp]]
            BY DEF PlanTypeOK
          <5>2. intents[n] \in [Devices -> Stamp]
            BY <5>1
          <5> QED BY <4>2, <5>2
        <4> QED BY <4>1, <4>2, <4>3 DEF IntentEntry
      <3> QED BY <3>1
    <2>4. Snapshot(n) = [policy |-> policy[n], allocations |-> Snapshot(n).allocations,
                         intents |-> Snapshot(n).intents]
      BY DEF Snapshot
    <2> QED BY <2>1, <2>2, <2>3, <2>4 DEF Plan
  <1>4. /\ \A id \in ids : f[id] = [id |-> id, allocation |-> allocations[n][id]]
        /\ \A d \in Decided(n) : g[d] = [device |-> d, stamp |-> intents[n][d]]
    BY Zenon
  <1>5. IsFiniteSet(ids) /\ IsFiniteSet(Decided(n))
    <2>1. IsFiniteSet(Devices)
      OBVIOUS
    <2> QED BY <1>2, <2>1, AllocationIdsFinite, FS_Subset
  <1> HIDE DEF ids, f, g
  <1>6. /\ Snapshot(n).allocations \in SUBSET {f[id] : id \in ids}
        /\ Snapshot(n).intents \in SUBSET {g[d] : d \in Decided(n)}
    <2>1. ASSUME NEW x \in Snapshot(n).allocations PROVE x \in {f[id] : id \in ids}
      <3>1. PICK id \in ids : x = [id |-> id, allocation |-> allocations[n][id]]
        BY <1>1, <2>1
      <3>2. x = f[id]
        BY <1>4, <3>1
      <3> QED BY <3>2
    <2>2. ASSUME NEW x \in Snapshot(n).intents PROVE x \in {g[d] : d \in Decided(n)}
      <3>1. PICK d \in Decided(n) : x = [device |-> d, stamp |-> intents[n][d]]
        BY <1>1, <2>2
      <3>2. x = g[d]
        BY <1>4, <3>1
      <3> QED BY <3>2
    <2> QED BY <2>1, <2>2
  <1>7. IsFiniteSet({f[id] : id \in ids}) /\ IsFiniteSet({g[d] : d \in Decided(n)})
    BY <1>5, FiniteImage
  <1> QED BY <1>3, <1>6, <1>7, FS_Subset DEF FinitePlan

\* What is sent is of the right kind, and finite.
Sendable(messages) ==
    messages \subseteq PlanMessage /\ \A m \in messages : m.kind # "request" => FinitePlan(m.plan)

LEMMA PatchFits ==
    ASSUME NEW n \in Devices, NEW m \in Devices, NEW plan \in Plan, FinitePlan(plan)
    PROVE  /\ Sendable({Patch(n, m, plan)})
           /\ Patch(n, m, plan) \in PlanMessage /\ Patch(n, m, plan).plan = plan
           /\ Patch(n, m, plan).kind = "patch"
  BY DEF Sendable, Patch, PlanMessage

LEMMA SyncFits ==
    ASSUME PlanTypeOK, NEW n \in Devices, NEW m \in Devices
    PROVE  Sendable(Sync(n, m))
  <1> DEFINE s == Snapshot(n)
             own == [policy      |-> ZeroStamp,
                     allocations |-> {x \in s.allocations :
                                        x.id.device = n /\ x.allocation.stamp.actor = n},
                     intents     |-> {x \in s.intents : x.device = n /\ x.stamp.actor = n}]
  <1>1. s \in Plan /\ FinitePlan(s)
    BY SnapshotFits
  <1>2. own \in Plan
    BY <1>1 DEF Plan, ZeroStamp, Stamp
  <1>3. FinitePlan(own)
    <2>1. own.allocations \in SUBSET s.allocations /\ own.intents \in SUBSET s.intents
      OBVIOUS
    <2> HIDE DEF s, own
    <2> QED BY <1>1, <2>1, FS_Subset DEF FinitePlan
  <1>4. \/ Sync(n, m) = {Patch(n, m, s)} \/ Sync(n, m) = {} \/ Sync(n, m) = {Patch(n, m, own)}
    BY DEF Sync
  <1> HIDE DEF s, own
  <1>5. Sendable({Patch(n, m, s)}) /\ Sendable({Patch(n, m, own)})
    BY <1>1, <1>2, <1>3, PatchFits
  <1>6. Sendable({})
    BY DEF Sendable
  <1> QED BY <1>4, <1>5, <1>6

LEMMA BroadcastFits ==
    ASSUME NEW n \in Devices, NEW plan \in Plan, FinitePlan(plan), Broadcast(n, plan)
    PROVE  \E sent : Sendable(sent) /\ planNet' \subseteq planNet \cup sent
  <1> DEFINE sent == {Patch(n, m, plan) : m \in Devices \ {n}}
  <1>1. planNet' \subseteq planNet \cup sent
    BY SendSends DEF Broadcast
  <1>2. \A m \in Devices \ {n} : /\ Patch(n, m, plan) \in PlanMessage
                                 /\ Patch(n, m, plan).plan = plan
    BY PatchFits
  <1>3. Sendable(sent)
    BY <1>2 DEF Sendable
  <1> HIDE DEF sent
  <1> QED BY <1>1, <1>3

\* Messages between plans.
LEMMA PlanSends ==
    ASSUME PlanInv, NEW sent, Sendable(sent), planNet' \subseteq planNet \cup sent,
           UNCHANGED <<policy, allocations, intents, clocks, controllers>>,
           planEdits' \in 0 .. MaxPlanEdits, planFaults' \in 0 .. MaxPlanFaults
    PROVE  PlanInv'
  <1>2. PlanTypeOK'
    BY DEF PlanInv, PlanTypeOK, Sendable, Decided
  <1>3. PlansAreFinite'
    BY DEF PlanInv, PlansAreFinite, Sendable
  <1> QED BY <1>2, <1>3 DEF PlanInv

\* The state after a step, part by part.
LEMMA PlanChanges ==
    ASSUME PlanInv, NEW sent, Sendable(sent), planNet' \subseteq planNet \cup sent,
           policy' \in [Devices -> Stamp],
           allocations' \in [Devices -> [AllocationId -> Allocation]],
           intents' \in [Devices -> [Devices -> Stamp]],
           clocks' \in [Devices -> [Devices -> Nat]],
           \A k \in Devices : /\ Cardinality(Allocated(allocations'[k])) <= MaxAllocations
                              /\ Cardinality({d \in Devices : intents'[k][d] # ZeroStamp})
                                   <= MaxIntents,
           controllers' = controllers,
           planEdits' \in 0 .. MaxPlanEdits, planFaults' \in 0 .. MaxPlanFaults
    PROVE  PlanInv'
  <1>1. \A k \in Devices : Decided(k)' = {d \in Devices : intents'[k][d] # ZeroStamp}
    BY DEF Decided
  <1>2. planNet' \subseteq PlanMessage
    BY DEF PlanInv, PlanTypeOK, Sendable
  <1>3. \A k \in Devices : Allocated(allocations[k])' = Allocated(allocations'[k])
    BY DEF Allocated, NoAllocation, ZeroStamp, AllocationId
  <1>4. controllers' \in Controllers
    BY DEF PlanInv, PlanTypeOK
  <1>5. PlanTypeOK'
    BY <1>1, <1>2, <1>3, <1>4 DEF PlanTypeOK
  <1>6. PlansAreFinite'
    BY DEF PlanInv, PlansAreFinite, Sendable
  <1> QED BY <1>5, <1>6 DEF PlanInv

LEMMA EditKeeps ==
    ASSUME PlanInv, NEW n \in Devices, Edit(n)
    PROVE  /\ clocks' \in [Devices -> [Devices -> Nat]]
           /\ controllers' = controllers
           /\ planEdits' \in 0 .. MaxPlanEdits /\ planFaults' \in 0 .. MaxPlanFaults
           /\ NextStamp(n) \in Stamp
  <1>1. NextStamp(n) \in Stamp
    BY NextStampTops DEF PlanInv
  <1>2. NextStamp(n).counter \in Nat
    BY <1>1 DEF Stamp
  <1> QED BY <1>1, <1>2 DEF Edit, PlanInv, PlanTypeOK

LEMMA OneRecord ==
    ASSUME NEW part
    PROVE  /\ [NothingToSay EXCEPT !.allocations = part]
                = [policy |-> ZeroStamp, allocations |-> part, intents |-> {}]
           /\ [NothingToSay EXCEPT !.intents = part]
                = [policy |-> ZeroStamp, allocations |-> {}, intents |-> part]
  BY DEF NothingToSay

LEMMA SetPolicyKeeps ==
    ASSUME PlanInv, NEW n \in Devices, SetPolicy(n)
    PROVE  PlanInv'
  <1> DEFINE plan == [NothingToSay EXCEPT !.policy = NextStamp(n)]
  <1>1. Edit(n) /\ Broadcast(n, plan) /\ UNCHANGED <<allocations, intents>>
    BY DEF SetPolicy
  <1>2. policy' \in [Devices -> Stamp]
    BY <1>1, EditKeeps DEF SetPolicy, PlanInv, PlanTypeOK
  <1>3. NextStamp(n) \in Stamp
    BY <1>1, EditKeeps
  <1>4. plan \in Plan /\ FinitePlan(plan)
    BY <1>3, FS_EmptySet DEF NothingToSay, Plan, FinitePlan
  <1> HIDE DEF plan
  <1>5. PICK sent : Sendable(sent) /\ planNet' \subseteq planNet \cup sent
    BY <1>1, <1>4, BroadcastFits
  <1>6. /\ allocations' \in [Devices -> [AllocationId -> Allocation]]
        /\ intents' \in [Devices -> [Devices -> Stamp]]
        /\ \A k \in Devices : /\ Cardinality(Allocated(allocations'[k])) <= MaxAllocations
                              /\ Cardinality({d \in Devices : intents'[k][d] # ZeroStamp})
                                   <= MaxIntents
    BY <1>1 DEF PlanInv, PlanTypeOK, Decided
  <1> QED BY <1>1, <1>2, <1>5, <1>6, EditKeeps, PlanChanges

\* One more choice than the plan held fits where there was room for it.
LEMMA OneMoreFits ==
    ASSUME NEW A, NEW x, NEW C \in SUBSET (A \cup {x}), IsFiniteSet(A), NEW most \in Nat,
           Cardinality(A) <= most, x \in A \/ Cardinality(A) < most
    PROVE  Cardinality(C) <= most
  <1> DEFINE D == A \cup {x}
  <1>1. Cardinality(A) \in Nat
    BY FS_CardinalityType
  <1>2. IsFiniteSet(D) /\ Cardinality(D) <= most /\ Cardinality(D) \in Nat
    <2>1. CASE x \in A
      <3>1. D = A
        BY <2>1
      <3> QED BY <1>1, <3>1
    <2>2. CASE x \notin A
      BY <1>1, <2>2, FS_AddElement
    <2> QED BY <2>1, <2>2
  <1> HIDE DEF D
  <1>3. C \in SUBSET D
    BY DEF D
  <1>4. Cardinality(C) <= Cardinality(D) /\ Cardinality(C) \in Nat
    BY <1>2, <1>3, FS_Subset, FS_CardinalityType
  <1> QED BY <1>2, <1>4

LEMMA DecidedIsFinite ==
    ASSUME NEW n \in Devices
    PROVE  IsFiniteSet(Allocated(allocations[n])) /\ IsFiniteSet(Decided(n))
  <1>1. /\ Allocated(allocations[n]) \in SUBSET AllocationId
        /\ Decided(n) \in SUBSET Devices
    BY DEF Allocated, Decided
  <1>2. IsFiniteSet(Devices)
    OBVIOUS
  <1> QED BY <1>1, <1>2, AllocationIdsFinite, FS_Subset

LEMMA PutAllocationKeeps ==
    ASSUME PlanInv, NEW n \in Devices, NEW id \in AllocationId, NEW automatic \in BOOLEAN,
           RoomForAllocation(n, id), PutAllocation(n, id, automatic)
    PROVE  PlanInv'
  <1> DEFINE a == [stamp |-> NextStamp(n), automatic |-> automatic]
             plan == [NothingToSay EXCEPT !.allocations = {[id |-> id, allocation |-> a]}]
  <1>1. /\ Edit(n) /\ Broadcast(n, plan) /\ UNCHANGED <<policy, intents>>
        /\ allocations' = [allocations EXCEPT ![n][id] = a]
    BY DEF PutAllocation
  <1>2. NextStamp(n) \in Stamp
    BY <1>1, EditKeeps
  <1>3. a \in Allocation
    BY <1>2 DEF Allocation
  <1>4. plan \in Plan /\ FinitePlan(plan)
    <2>1. [id |-> id, allocation |-> a] \in AllocationEntry
      BY <1>3 DEF AllocationEntry
    <2>2. IsFiniteSet({[id |-> id, allocation |-> a]}) /\ IsFiniteSet({})
      BY FS_EmptySet, FS_Singleton
    <2>3. plan = [policy |-> ZeroStamp, allocations |-> {[id |-> id, allocation |-> a]},
                  intents |-> {}]
      BY OneRecord
    <2>4. ZeroStamp \in Stamp
      BY DEF ZeroStamp, Stamp
    <2> HIDE DEF a, plan
    <2> QED BY <2>1, <2>2, <2>3, <2>4 DEF Plan, FinitePlan
  <1> HIDE DEF a, plan
  <1>5. PICK sent : Sendable(sent) /\ planNet' \subseteq planNet \cup sent
    BY <1>1, <1>4, BroadcastFits
  <1>6. allocations' \in [Devices -> [AllocationId -> Allocation]]
    BY <1>1, <1>3 DEF PlanInv, PlanTypeOK
  <1>7. ASSUME NEW k \in Devices
        PROVE  Cardinality(Allocated(allocations'[k])) <= MaxAllocations
    <2>1. /\ Cardinality(Allocated(allocations[k])) <= MaxAllocations
          /\ allocations \in [Devices -> [AllocationId -> Allocation]]
      BY DEF PlanInv, PlanTypeOK
    <2>2. CASE k = n
      <3>1. Allocated(allocations'[n]) \in SUBSET (Allocated(allocations[n]) \cup {id})
        BY <1>1, <2>1 DEF Allocated
      <3>2. id \in Allocated(allocations[n]) \/ Cardinality(Allocated(allocations[n])) < MaxAllocations
        BY DEF RoomForAllocation
      <3> QED BY <2>1, <2>2, <3>1, <3>2, DecidedIsFinite, OneMoreFits
    <2>3. CASE k # n
      <3>1. allocations'[k] = allocations[k]
        BY <1>1, <2>1, <2>3
      <3> QED BY <2>1, <3>1
    <2> QED BY <2>2, <2>3
  <1>8. /\ policy' \in [Devices -> Stamp]
        /\ intents' \in [Devices -> [Devices -> Stamp]]
        /\ \A k \in Devices :
             Cardinality({d \in Devices : intents'[k][d] # ZeroStamp}) <= MaxIntents
    BY <1>1 DEF PlanInv, PlanTypeOK, Decided
  <1> QED BY <1>1, <1>5, <1>6, <1>7, <1>8, EditKeeps, PlanChanges

LEMMA AllocationsKeep ==
    ASSUME PlanInv, NEW n \in Devices
    PROVE  /\ \A volume \in Volumes : EnsureDefaultAllocation(n, volume) => PlanInv'
           /\ \A id \in AllocationId : SetAllocation(n, id) => PlanInv'
  <1>1. ASSUME NEW volume \in Volumes, EnsureDefaultAllocation(n, volume) PROVE PlanInv'
    <2> DEFINE id == [device |-> n, volume |-> volume]
    <2>1. /\ id \in AllocationId /\ RoomForAllocation(n, id)
          /\ PutAllocation(n, id, TRUE)
      BY <1>1 DEF EnsureDefaultAllocation, AllocationId, RoomForAllocation
    <2> HIDE DEF id
    <2> QED BY <2>1, PutAllocationKeeps
  <1>2. ASSUME NEW id \in AllocationId, SetAllocation(n, id) PROVE PlanInv'
    <2>1. RoomForAllocation(n, id) /\ PutAllocation(n, id, FALSE)
      BY <1>2 DEF SetAllocation, RoomForAllocation
    <2> QED BY <2>1, PutAllocationKeeps
  <1> QED BY <1>1, <1>2

LEMMA SetDeviceIntentKeeps ==
    ASSUME PlanInv, NEW n \in Devices, NEW device \in Devices, SetDeviceIntent(n, device)
    PROVE  PlanInv'
  <1> DEFINE plan == [NothingToSay EXCEPT
                        !.intents = {[device |-> device, stamp |-> NextStamp(n)]}]
  <1>1. /\ Edit(n) /\ Broadcast(n, plan) /\ UNCHANGED <<policy, allocations>>
        /\ intents' = [intents EXCEPT ![n][device] = NextStamp(n)]
        /\ device \in Decided(n) \/ Cardinality(Decided(n)) < MaxIntents
    BY DEF SetDeviceIntent
  <1>2. NextStamp(n) \in Stamp
    BY <1>1, EditKeeps
  <1>4. plan \in Plan /\ FinitePlan(plan)
    <2> DEFINE x == [device |-> device, stamp |-> NextStamp(n)]
    <2>1. x \in IntentEntry
      BY <1>2 DEF IntentEntry
    <2>2. IsFiniteSet({x}) /\ IsFiniteSet({})
      BY FS_EmptySet, FS_Singleton
    <2>3. plan = [policy |-> ZeroStamp, allocations |-> {}, intents |-> {x}]
      BY OneRecord
    <2>4. ZeroStamp \in Stamp
      BY DEF ZeroStamp, Stamp
    <2> HIDE DEF x, plan
    <2> QED BY <2>1, <2>2, <2>3, <2>4 DEF Plan, FinitePlan
  <1> HIDE DEF plan
  <1>5. PICK sent : Sendable(sent) /\ planNet' \subseteq planNet \cup sent
    BY <1>1, <1>4, BroadcastFits
  <1>6. intents' \in [Devices -> [Devices -> Stamp]]
    BY <1>1, <1>2 DEF PlanInv, PlanTypeOK
  <1>7. ASSUME NEW k \in Devices
        PROVE  Cardinality({d \in Devices : intents'[k][d] # ZeroStamp}) <= MaxIntents
    <2>1. /\ Cardinality(Decided(k)) <= MaxIntents
          /\ intents \in [Devices -> [Devices -> Stamp]]
      BY DEF PlanInv, PlanTypeOK
    <2>2. CASE k = n
      <3> DEFINE C == {d \in Devices : intents'[n][d] # ZeroStamp}
      <3>1. C \in SUBSET (Decided(n) \cup {device})
        BY <1>1, <2>1 DEF Decided
      <3> HIDE DEF C
      <3>2. Cardinality(C) <= MaxIntents
        BY <1>1, <2>1, <2>2, <3>1, DecidedIsFinite, OneMoreFits
      <3> QED BY <2>2, <3>2 DEF C
    <2>3. CASE k # n
      <3>1. intents'[k] = intents[k]
        BY <1>1, <2>1, <2>3
      <3> QED BY <2>1, <3>1 DEF Decided
    <2> QED BY <2>2, <2>3
  <1>8. /\ policy' \in [Devices -> Stamp]
        /\ allocations' \in [Devices -> [AllocationId -> Allocation]]
        /\ \A k \in Devices : Cardinality(Allocated(allocations'[k])) <= MaxAllocations
    BY <1>1 DEF PlanInv, PlanTypeOK
  <1> QED BY <1>1, <1>5, <1>6, <1>7, <1>8, EditKeeps, PlanChanges


\* The ids a merge adds are no more than there was room for.
LEMMA MergeFits ==
    ASSUME NEW held, IsFiniteSet(held), NEW most \in Nat, Cardinality(held) <= most,
           NEW fresh, IsFiniteSet(fresh), NEW taken, NEW f,
           Cardinality(taken \cap fresh) = Fits(fresh, most - Cardinality(held)),
           NEW C \in SUBSET (held \cup {f[x] : x \in taken \cap fresh})
    PROVE  Cardinality(C) <= most
  <1> DEFINE new == taken \cap fresh
             ids == {f[x] : x \in new}
             D == held \cup ids
  <1>1. IsFiniteSet(new) /\ new = taken \cap fresh
    <2>1. new \in SUBSET fresh
      OBVIOUS
    <2> QED BY <2>1, FS_Subset
  <1>2. /\ Cardinality(held) \in Nat /\ Cardinality(new) \in Nat /\ Cardinality(fresh) \in Nat
    BY <1>1, FS_CardinalityType
  <1>3. Cardinality(new) <= most - Cardinality(held)
    BY <1>2 DEF Fits
  <1> HIDE DEF new
  <1>4. IsFiniteSet(ids) /\ Cardinality(ids) <= Cardinality(new) /\ Cardinality(ids) \in Nat
    BY <1>1, FiniteImage, FS_CardinalityType
  <1>5. C \in SUBSET D
    BY <1>1
  <1> HIDE DEF ids
  <1>6. /\ IsFiniteSet(D)
        /\ Cardinality(D) = Cardinality(held) + Cardinality(ids) - Cardinality(held \cap ids)
    BY <1>4, FS_Union
  <1>7. Cardinality(held \cap ids) \in Nat
    <2>1. held \cap ids \in SUBSET held
      OBVIOUS
    <2> QED BY <2>1, FS_Subset, FS_CardinalityType
  <1> HIDE DEF D
  <1>8. Cardinality(C) <= Cardinality(D) /\ Cardinality(C) \in Nat /\ Cardinality(D) \in Nat
    BY <1>5, <1>6, FS_Subset, FS_CardinalityType
  <1> QED BY <1>2, <1>3, <1>4, <1>6, <1>7, <1>8

\* What is left of a plan's parts by what is taken of a patch.
MergedAllocations(m, chosen) ==
    [allocations EXCEPT ![m.to] = [id \in AllocationId |->
       IF \E x \in chosen : x.id = id THEN (CHOOSE x \in chosen : x.id = id).allocation ELSE @[id]]]

MergedIntents(m, is) ==
    [intents EXCEPT ![m.to] = [d \in Devices |->
       IF \E x \in is : x.device = d THEN (CHOOSE x \in is : x.device = d).stamp ELSE @[d]]]

LEMMA PatchIsPlan ==
    ASSUME PlanInv, NEW m \in planNet, m.kind = "patch"
    PROVE  /\ m.to \in Devices /\ m.from \in Devices /\ m.plan \in Plan
           /\ m.plan.policy \in Stamp
           /\ m.plan.allocations \in SUBSET AllocationEntry
           /\ m.plan.intents \in SUBSET IntentEntry
           /\ IsFiniteSet(m.plan.allocations) /\ IsFiniteSet(m.plan.intents)
  <1>1. m \in [kind : {"patch", "digest"}, from : Devices, to : Devices, plan : Plan]
    BY DEF PlanInv, PlanTypeOK, PlanMessage
  <1>2. m.plan \in Plan /\ m.to \in Devices /\ m.from \in Devices
    BY <1>1
  <1>3. FinitePlan(m.plan)
    BY DEF PlanInv, PlansAreFinite
  <1> QED BY <1>2, <1>3 DEF Plan, FinitePlan

LEMMA MergedAllocationsFit ==
    ASSUME PlanInv, NEW m \in planNet, m.kind = "patch",
           NEW chosen \in SUBSET m.plan.allocations, TakesAllocations(m, chosen),
           allocations' = MergedAllocations(m, chosen)
    PROVE  /\ allocations' \in [Devices -> [AllocationId -> Allocation]]
           /\ \A k \in Devices : Cardinality(Allocated(allocations'[k])) <= MaxAllocations
           /\ \A k \in Devices, id \in AllocationId :
                \/ allocations'[k][id] = allocations[k][id]
                \/ /\ allocations'[k][id] \in Allocation
                   /\ Outranks(allocations'[k][id], allocations[k][id])
  <1> DEFINE held == allocations[m.to]
             authorized == {x \in m.plan.allocations :
                       \/ m.from \in controllers
                       \/ x.id.device = m.from /\ x.allocation.stamp.actor = m.from}
             newer == {x \in authorized : Outranks(x.allocation, held[x.id])}
             fresh == {x \in newer : held[x.id] = NoAllocation}
  <1>1. /\ m.to \in Devices /\ m.plan.allocations \in SUBSET AllocationEntry
        /\ IsFiniteSet(m.plan.allocations)
    BY PatchIsPlan
  <1>2. /\ Cardinality(chosen \cap fresh) = Fits(fresh, MaxAllocations - Cardinality(Allocated(held)))
        /\ chosen \subseteq newer
    BY DEF TakesAllocations
  <1>3. /\ allocations \in [Devices -> [AllocationId -> Allocation]]
        /\ \A k \in Devices : Cardinality(Allocated(allocations[k])) <= MaxAllocations
    BY DEF PlanInv, PlanTypeOK
  <1>4. \A x \in chosen : /\ x.id \in AllocationId /\ x.allocation \in Allocation
                          /\ Outranks(x.allocation, held[x.id])
                          /\ held[x.id] = NoAllocation => x \in fresh
    <2>1. \A x \in chosen : x \in AllocationEntry
      BY <1>1
    <2>2. \A x \in AllocationEntry : x.id \in AllocationId /\ x.allocation \in Allocation
      BY DEF AllocationEntry
    <2>3. \A x \in newer : /\ Outranks(x.allocation, held[x.id])
                           /\ held[x.id] = NoAllocation => x \in fresh
      OBVIOUS
    <2> HIDE DEF authorized, newer, fresh, held
    <2> QED BY <1>2, <2>1, <2>2, <2>3
  <1>5. fresh \in SUBSET m.plan.allocations
    OBVIOUS
  <1> HIDE DEF held, authorized, newer, fresh
  <1>6. /\ \A k \in Devices : k # m.to => allocations'[k] = allocations[k]
        /\ allocations'[m.to] = [id \in AllocationId |->
             IF \E x \in chosen : x.id = id THEN (CHOOSE x \in chosen : x.id = id).allocation
             ELSE held[id]]
        /\ DOMAIN allocations' = Devices
        /\ allocations' = [k \in Devices |-> allocations'[k]]
    BY <1>1, <1>3 DEF MergedAllocations, held
  <1>7. ASSUME NEW id \in AllocationId
        PROVE  \/ (\A x \in chosen : x.id # id) /\ allocations'[m.to][id] = held[id]
               \/ \E x \in chosen : x.id = id /\ allocations'[m.to][id] = x.allocation
    <2>1. CASE \E x \in chosen : x.id = id
      <3>1. PICK y : y = CHOOSE x \in chosen : x.id = id
        OBVIOUS
      <3>2. y \in chosen /\ y.id = id
        BY <2>1, <3>1
      <3>3. allocations'[m.to][id] = y.allocation
        BY <1>6, <2>1, <3>1
      <3> QED BY <3>2, <3>3
    <2>2. CASE ~ \E x \in chosen : x.id = id
      <3>1. allocations'[m.to][id] = held[id]
        BY <1>6, <2>2
      <3> QED BY <2>2, <3>1
    <2> QED BY <2>1, <2>2
  <1>8. \A id \in AllocationId :
          \/ allocations'[m.to][id] = held[id]
          \/ /\ allocations'[m.to][id] \in Allocation
             /\ Outranks(allocations'[m.to][id], held[id])
    BY <1>4, <1>7
  <1>9. \A id \in AllocationId : allocations'[m.to][id] \in Allocation
    <2>1. held \in [AllocationId -> Allocation]
      BY <1>1, <1>3 DEF held
    <2> QED BY <1>8, <2>1
  <1>10. \A k \in Devices : allocations'[k] \in [AllocationId -> Allocation]
    <2>1. ASSUME NEW k \in Devices PROVE allocations'[k] \in [AllocationId -> Allocation]
      <3>1. CASE k = m.to
        BY <1>6, <1>9, <3>1
      <3>2. CASE k # m.to
        BY <1>3, <1>6, <3>2
      <3> QED BY <3>1, <3>2
    <2> QED BY <2>1
  <1>11. allocations' \in [Devices -> [AllocationId -> Allocation]]
    BY <1>6, <1>10
  <1>12. Cardinality(Allocated(allocations'[m.to])) <= MaxAllocations
    <2> DEFINE f == [x \in chosen |-> x.id]
               C == Allocated(allocations'[m.to])
               H == Allocated(held)
    <2>1. \A x \in chosen : f[x] = x.id
      BY Zenon
    <2> HIDE DEF f
    <2>2. ASSUME NEW id \in C PROVE id \in H \cup {f[x] : x \in chosen \cap fresh}
      <3>1. id \in AllocationId /\ allocations'[m.to][id] # NoAllocation
        BY <2>2 DEF Allocated
      <3>2. CASE held[id] = NoAllocation
        <4>1. PICK x \in chosen : x.id = id
          BY <1>7, <3>1, <3>2
        <4>2. x \in chosen \cap fresh /\ f[x] = id
          BY <1>4, <2>1, <3>2, <4>1
        <4> QED BY <4>2
      <3>3. CASE held[id] # NoAllocation
        BY <3>1, <3>3 DEF Allocated
      <3> QED BY <3>2, <3>3
    <2>3. IsFiniteSet(H) /\ Cardinality(H) <= MaxAllocations
      BY <1>1, <1>3, DecidedIsFinite DEF held
    <2>4. IsFiniteSet(fresh)
      BY <1>1, <1>5, FS_Subset
    <2>5. C \in SUBSET (H \cup {f[x] : x \in chosen \cap fresh})
      BY <2>2
    <2>6. Cardinality(chosen \cap fresh) = Fits(fresh, MaxAllocations - Cardinality(H))
      BY <1>2
    <2>7. PICK most \in Nat : most = MaxAllocations
      OBVIOUS
    <2> HIDE DEF C, H
    <2>8. Cardinality(C) <= most
      <3>1. /\ Cardinality(H) <= most /\ IsFiniteSet(H)
            /\ Cardinality(chosen \cap fresh) = Fits(fresh, most - Cardinality(H))
        BY <2>3, <2>6, <2>7
      <3>2. PICK T, F : T = chosen /\ F = fresh
        OBVIOUS
      <3>3. C \in SUBSET (H \cup {f[x] : x \in T \cap F})
        BY <2>5, <3>2
      <3>4. IsFiniteSet(F) /\ Cardinality(T \cap F) = Fits(F, most - Cardinality(H))
        BY <2>4, <3>1, <3>2
      <3> QED BY <3>1, <3>3, <3>4, MergeFits
    <2> QED BY <2>7, <2>8 DEF C
  <1>13. ASSUME NEW k \in Devices
         PROVE  /\ Cardinality(Allocated(allocations'[k])) <= MaxAllocations
                /\ \A id \in AllocationId :
                    \/ allocations'[k][id] = allocations[k][id]
                    \/ /\ allocations'[k][id] \in Allocation
                       /\ Outranks(allocations'[k][id], allocations[k][id])
    <2>1. CASE k = m.to
      BY <1>8, <1>12, <2>1 DEF held
    <2>2. CASE k # m.to
      BY <1>3, <1>6, <2>2
    <2> QED BY <2>1, <2>2
  <1> QED BY <1>11, <1>13

LEMMA MergedIntentsFit ==
    ASSUME PlanInv, NEW m \in planNet, m.kind = "patch",
           NEW is \in SUBSET m.plan.intents, TakesIntents(m, is),
           intents' = MergedIntents(m, is)
    PROVE  /\ intents' \in [Devices -> [Devices -> Stamp]]
           /\ \A k \in Devices :
                Cardinality({d \in Devices : intents'[k][d] # ZeroStamp}) <= MaxIntents
  <1> DEFINE held == intents[m.to]
             authorized == {x \in m.plan.intents :
                       m.from \in controllers \/ (x.device = m.from /\ x.stamp.actor = m.from)}
             newer == {x \in authorized : StampLess(held[x.device], x.stamp)}
             fresh == {x \in newer : held[x.device] = ZeroStamp}
  <1>1. /\ m.to \in Devices /\ m.plan.intents \in SUBSET IntentEntry
        /\ IsFiniteSet(m.plan.intents)
    BY PatchIsPlan
  <1>2. /\ Cardinality(is \cap fresh) = Fits(fresh, MaxIntents - Cardinality(Decided(m.to)))
        /\ is \subseteq newer
    BY DEF TakesIntents
  <1>3. /\ intents \in [Devices -> [Devices -> Stamp]]
        /\ \A k \in Devices : Cardinality(Decided(k)) <= MaxIntents
    BY DEF PlanInv, PlanTypeOK
  <1>4. \A x \in is : /\ x.device \in Devices /\ x.stamp \in Stamp
                      /\ held[x.device] = ZeroStamp => x \in fresh
    BY <1>1, <1>2 DEF IntentEntry
  <1>5. fresh \in SUBSET m.plan.intents
    OBVIOUS
  <1> HIDE DEF held, authorized, newer, fresh
  <1>6. /\ \A k \in Devices : k # m.to => intents'[k] = intents[k]
        /\ intents'[m.to] = [d \in Devices |->
             IF \E x \in is : x.device = d THEN (CHOOSE x \in is : x.device = d).stamp
             ELSE held[d]]
        /\ DOMAIN intents' = Devices
        /\ intents' = [k \in Devices |-> intents'[k]]
    BY <1>1, <1>3 DEF MergedIntents, held
  <1>7. ASSUME NEW d \in Devices
        PROVE  \/ (\A x \in is : x.device # d) /\ intents'[m.to][d] = held[d]
               \/ \E x \in is : x.device = d /\ intents'[m.to][d] = x.stamp
    <2>1. CASE \E x \in is : x.device = d
      <3>1. PICK y : y = CHOOSE x \in is : x.device = d
        OBVIOUS
      <3>2. y \in is /\ y.device = d
        BY <2>1, <3>1
      <3>3. intents'[m.to][d] = y.stamp
        BY <1>6, <2>1, <3>1
      <3> QED BY <3>2, <3>3
    <2>2. CASE \A x \in is : x.device # d
      BY <1>6, <2>2
    <2> QED BY <2>1, <2>2
  <1>9. \A d \in Devices : intents'[m.to][d] \in Stamp
    <2>1. held \in [Devices -> Stamp]
      BY <1>1, <1>3 DEF held
    <2> QED BY <1>4, <1>7, <2>1
  <1>10. ASSUME NEW k \in Devices PROVE intents'[k] \in [Devices -> Stamp]
    <2>1. CASE k = m.to
      BY <1>6, <1>9, <2>1
    <2>2. CASE k # m.to
      BY <1>3, <1>6, <2>2
    <2> QED BY <2>1, <2>2
  <1>11. intents' \in [Devices -> [Devices -> Stamp]]
    BY <1>6, <1>10
  <1>12. Cardinality({d \in Devices : intents'[m.to][d] # ZeroStamp}) <= MaxIntents
    <2> DEFINE f == [x \in is |-> x.device]
               C == {d \in Devices : intents'[m.to][d] # ZeroStamp}
               H == Decided(m.to)
    <2>1. \A x \in is : f[x] = x.device
      BY Zenon
    <2> HIDE DEF f
    <2>2. ASSUME NEW d \in C PROVE d \in H \cup {f[x] : x \in is \cap fresh}
      <3>1. d \in Devices /\ intents'[m.to][d] # ZeroStamp
        BY <2>2
      <3>2. CASE held[d] = ZeroStamp
        <4>1. PICK x \in is : x.device = d
          BY <1>7, <3>1, <3>2
        <4>2. x \in is \cap fresh /\ f[x] = d
          BY <1>4, <2>1, <3>2, <4>1
        <4> QED BY <4>2
      <3>3. CASE held[d] # ZeroStamp
        BY <3>1, <3>3 DEF Decided, held
      <3> QED BY <3>2, <3>3
    <2>3. IsFiniteSet(H) /\ Cardinality(H) <= MaxIntents
      BY <1>1, <1>3, DecidedIsFinite
    <2>4. IsFiniteSet(fresh)
      BY <1>1, <1>5, FS_Subset
    <2>5. C \in SUBSET (H \cup {f[x] : x \in is \cap fresh})
      BY <2>2
    <2>6. Cardinality(is \cap fresh) = Fits(fresh, MaxIntents - Cardinality(H))
      BY <1>2
    <2>7. PICK most \in Nat : most = MaxIntents
      OBVIOUS
    <2> HIDE DEF C, H
    <2>8. Cardinality(C) <= most
      <3>1. /\ Cardinality(H) <= most /\ IsFiniteSet(H)
            /\ Cardinality(is \cap fresh) = Fits(fresh, most - Cardinality(H))
        BY <2>3, <2>6, <2>7
      <3> QED BY <2>4, <2>5, <3>1, MergeFits
    <2> QED BY <2>7, <2>8 DEF C
  <1>13. ASSUME NEW k \in Devices
         PROVE  Cardinality({d \in Devices : intents'[k][d] # ZeroStamp}) <= MaxIntents
    <2>1. CASE k = m.to
      BY <1>12, <2>1
    <2>2. CASE k # m.to
      BY <1>3, <1>6, <2>2 DEF Decided
    <2> QED BY <2>1, <2>2
  <1> QED BY <1>11, <1>13


\* The counters a node remembers stay numbers: what it takes is finite.
LEMMA SeenIsFinite ==
    ASSUME NEW chosen \in SUBSET AllocationEntry, IsFiniteSet(chosen),
           NEW is \in SUBSET IntentEntry, IsFiniteSet(is), NEW a, NEW c \in Nat
    PROVE  Highest({c} \cup Seen({x.allocation.stamp : x \in chosen} \cup {x.stamp : x \in is}, a))
             \in Nat
  <1> DEFINE f == [x \in chosen |-> x.allocation.stamp.counter]
             g == [x \in is |-> x.stamp.counter]
             stamps == {x.allocation.stamp : x \in chosen} \cup {x.stamp : x \in is}
             all == {f[x] : x \in chosen} \cup {g[x] : x \in is}
  <1>1. /\ \A x \in chosen : f[x] = x.allocation.stamp.counter
        /\ \A x \in is : g[x] = x.stamp.counter
    BY Zenon
  <1>2. stamps \in SUBSET Stamp
    BY DEF AllocationEntry, Allocation, IntentEntry
  <1>3. \A s \in stamps : s.counter \in all
    <2>1. ASSUME NEW s \in stamps PROVE s.counter \in all
      <3>1. CASE \E x \in chosen : s = x.allocation.stamp
        <4>1. PICK x \in chosen : s = x.allocation.stamp
          BY <3>1
        <4>2. f[x] = s.counter
          BY <1>1, <4>1
        <4> HIDE DEF f, g
        <4> QED BY <4>2
      <3>2. CASE \E x \in is : s = x.stamp
        <4>1. PICK x \in is : s = x.stamp
          BY <3>2
        <4>2. g[x] = s.counter
          BY <1>1, <4>1
        <4> HIDE DEF f, g
        <4> QED BY <4>2
      <3> QED BY <3>1, <3>2
    <2> QED BY <2>1
  <1> HIDE DEF f, g, stamps
  <1>4. IsFiniteSet(all)
    <2>1. IsFiniteSet({f[x] : x \in chosen}) /\ IsFiniteSet({g[x] : x \in is})
      BY FiniteImage
    <2> QED BY <2>1, FS_Union
  <1> HIDE DEF all
  <1>5. Seen(stamps, a) \in SUBSET Nat /\ Seen(stamps, a) \in SUBSET all
    BY <1>2, <1>3 DEF Seen, Stamp
  <1>6. IsFiniteSet({c} \cup Seen(stamps, a))
    BY <1>4, <1>5, FS_Subset, FS_Singleton, FS_Union
  <1>7. {c} \cup Seen(stamps, a) \in SUBSET Nat
    BY <1>5
  <1>8. Highest({c} \cup Seen(stamps, a)) \in Nat
    BY <1>6, <1>7, HighestBounds
  <1> QED BY <1>8 DEF stamps

\* A merge, by what it takes.
Taking(m, rest, chosen, is) ==
    /\ m.kind = "patch" /\ TakesAllocations(m, chosen) /\ TakesIntents(m, is)
    /\ allocations' = MergedAllocations(m, chosen) /\ intents' = MergedIntents(m, is)
    /\ policy' = [policy EXCEPT ![m.to] =
         IF m.from \in controllers /\ StampLess(@, m.plan.policy)
         THEN m.plan.policy ELSE @]
    /\ clocks' = [clocks EXCEPT ![m.to] = [a \in Devices |->
         Highest({@[a]} \cup Seen({x.allocation.stamp : x \in chosen}
                                  \cup {x.stamp : x \in is}, a))]]
    /\ planNet' = rest /\ UNCHANGED <<controllers, planEdits>>

LEMMA MergeTakes ==
    ASSUME PlanInv, NEW m \in planNet, NEW rest, Merge(m, rest)
    PROVE  \E chosen \in SUBSET m.plan.allocations, is \in SUBSET m.plan.intents :
             Taking(m, rest, chosen, is)
  BY DEF Merge, MergedAllocations, MergedIntents, Taking

LEMMA PlanMergeKeeps ==
    ASSUME PlanInv, NEW m \in planNet, NEW rest \in SUBSET planNet, Merge(m, rest),
           planFaults' \in 0 .. MaxPlanFaults
    PROVE  PlanInv'
  <1>1. PICK chosen \in SUBSET m.plan.allocations, is \in SUBSET m.plan.intents :
             Taking(m, rest, chosen, is)
    BY MergeTakes
  <1>2. /\ m.to \in Devices /\ m.plan.policy \in Stamp
        /\ m.plan.allocations \in SUBSET AllocationEntry
        /\ m.plan.intents \in SUBSET IntentEntry
        /\ IsFiniteSet(m.plan.allocations) /\ IsFiniteSet(m.plan.intents)
    BY <1>1, PatchIsPlan DEF Taking
  <1>3. policy' \in [Devices -> Stamp]
    BY <1>1, <1>2 DEF PlanInv, PlanTypeOK, Taking
  <1>4. /\ allocations' \in [Devices -> [AllocationId -> Allocation]]
        /\ \A k \in Devices : Cardinality(Allocated(allocations'[k])) <= MaxAllocations
    BY <1>1, MergedAllocationsFit DEF Taking
  <1>5. /\ intents' \in [Devices -> [Devices -> Stamp]]
        /\ \A k \in Devices :
             Cardinality({d \in Devices : intents'[k][d] # ZeroStamp}) <= MaxIntents
    BY <1>1, MergedIntentsFit DEF Taking
  <1>6. clocks' \in [Devices -> [Devices -> Nat]]
    <2> DEFINE top(a) == Highest({clocks[m.to][a]} \cup Seen({x.allocation.stamp : x \in chosen}
                                           \cup {x.stamp : x \in is}, a))
    <2>1. /\ chosen \in SUBSET AllocationEntry /\ IsFiniteSet(chosen)
          /\ is \in SUBSET IntentEntry /\ IsFiniteSet(is)
      BY <1>2, FS_Subset
    <2>2. clocks \in [Devices -> [Devices -> Nat]]
      BY DEF PlanInv, PlanTypeOK
    <2>3. \A a \in Devices : top(a) \in Nat
      <3>1. ASSUME NEW a \in Devices PROVE top(a) \in Nat
        <4>1. PICK c \in Nat : c = clocks[m.to][a]
          <5>1. clocks[m.to] \in [Devices -> Nat]
            BY <1>2, <2>2
          <5> QED BY <5>1
        <4>2. Highest({c} \cup Seen({x.allocation.stamp : x \in chosen}
                                    \cup {x.stamp : x \in is}, a)) \in Nat
          BY <2>1, SeenIsFinite
        <4> QED BY <4>1, <4>2
      <3> QED BY <3>1
    <2>4. clocks' = [clocks EXCEPT ![m.to] = [a \in Devices |-> top(a)]]
      BY <1>1 DEF Taking
    <2> HIDE DEF top
    <2>5. [a \in Devices |-> top(a)] \in [Devices -> Nat]
      BY <2>3
    <2> QED BY <1>2, <2>2, <2>4, <2>5
  <1>7. planEdits' \in 0 .. MaxPlanEdits /\ controllers' = controllers
    BY <1>1 DEF PlanInv, PlanTypeOK, Taking
  <1> DEFINE none == {}
  <1>8. Sendable(none) /\ planNet' \subseteq planNet \cup none
    BY <1>1 DEF Sendable, Taking
  <1> HIDE DEF none
  <1> QED BY <1>3, <1>4, <1>5, <1>6, <1>7, <1>8, PlanChanges

LEMMA HandleKeeps ==
    ASSUME PlanInv, NEW m \in planNet, NEW rest \in SUBSET planNet, Handle(m, rest),
           planFaults' \in 0 .. MaxPlanFaults
    PROVE  PlanInv'
  <1>0. PlanTypeOK /\ m \in PlanMessage
    BY DEF PlanInv, PlanTypeOK
  <1>1. CASE Merge(m, rest)
    BY <1>1, PlanMergeKeeps
  <1>2. m.to \in Devices /\ m.from \in Devices
    BY <1>0 DEF PlanMessage
  <1>3. Sendable(Sync(m.to, m.from))
    BY <1>0, <1>2, SyncFits
  <1>4. planEdits \in 0 .. MaxPlanEdits
    BY <1>0 DEF PlanTypeOK
  <1>5. ASSUME NEW messages, Sendable(messages), Send(rest, messages),
               UNCHANGED <<policy, allocations, intents, clocks, controllers, planEdits>>
        PROVE  PlanInv'
    <2>1. planNet' \subseteq planNet \cup messages
      BY <1>5, SendSends
    <2>2. planEdits' \in 0 .. MaxPlanEdits
      BY <1>4, <1>5
    <2> QED BY <1>5, <2>1, <2>2, PlanSends
  <1>6. CASE ReconcileDigest(m, rest)
    <2> DEFINE ask == {SyncRequest(m.to, m.from)}
               none == {}
    <2>1. Sendable(ask) /\ Sendable(none)
      BY <1>2 DEF SyncRequest, Sendable, PlanMessage
    <2>2. /\ UNCHANGED <<policy, allocations, intents, clocks, controllers, planEdits>>
          /\ Send(rest, none) \/ Send(rest, Sync(m.to, m.from)) \/ Send(rest, ask)
      BY <1>6 DEF ReconcileDigest
    <2> HIDE DEF ask, none
    <2> QED BY <1>3, <1>5, <2>1, <2>2
  <1>7. CASE AnswerRequest(m, rest)
    BY <1>3, <1>5, <1>7 DEF AnswerRequest
  <1> QED BY <1>1, <1>6, <1>7 DEF Handle

LEMMA PlanNetworkKeeps ==
    ASSUME PlanInv,
           \/ \E n, m \in Devices :
                PlanPresenceOfNewBoot(n, m) \/ PlanPresenceOfKnown(n, m) \/ DeliverPlan(n, m)
           \/ DeliverPlanTwice
           \/ LosePlan
    PROVE  PlanInv'
  <1>1. PlanTypeOK /\ planEdits \in 0 .. MaxPlanEdits /\ planFaults \in 0 .. MaxPlanFaults
    BY DEF PlanInv, PlanTypeOK
  <1>2. ASSUME NEW n \in Devices, NEW m \in Devices, PlanPresenceOfNewBoot(n, m) PROVE PlanInv'
    <2>1. Sendable(Sync(n, m))
      BY <1>1, SyncFits
    <2>2. planNet' \subseteq planNet \cup Sync(n, m)
      BY <1>2, SendSends DEF PlanPresenceOfNewBoot
    <2>3. /\ UNCHANGED <<policy, allocations, intents, clocks, controllers>>
          /\ planEdits' \in 0 .. MaxPlanEdits /\ planFaults' \in 0 .. MaxPlanFaults
      BY <1>1, <1>2 DEF PlanPresenceOfNewBoot
    <2> QED BY <2>1, <2>2, <2>3, PlanSends
  <1>3. ASSUME NEW n \in Devices, NEW m \in Devices, PlanPresenceOfKnown(n, m) PROVE PlanInv'
    <2> DEFINE sent == {EffectiveDigest(n, m)}
    <2>1. Sendable(sent)
      <3>1. Snapshot(n) \in Plan /\ FinitePlan(Snapshot(n))
        BY <1>1, SnapshotFits
      <3>2. /\ EffectiveDigest(n, m) \in PlanMessage
            /\ EffectiveDigest(n, m).plan = Snapshot(n)
        BY <3>1 DEF EffectiveDigest, PlanMessage
      <3> QED BY <3>1, <3>2 DEF Sendable
    <2>2. planNet' \subseteq planNet \cup sent
      BY <1>3, SendSends DEF PlanPresenceOfKnown
    <2>3. /\ UNCHANGED <<policy, allocations, intents, clocks, controllers>>
          /\ planEdits' \in 0 .. MaxPlanEdits /\ planFaults' \in 0 .. MaxPlanFaults
      BY <1>1, <1>3 DEF PlanPresenceOfKnown
    <2> HIDE DEF sent
    <2> QED BY <2>1, <2>2, <2>3, PlanSends
  <1>4. ASSUME NEW n \in Devices, NEW m \in Devices, DeliverPlan(n, m) PROVE PlanInv'
    <2>1. PICK msg \in Between(planNet, n, m) : Handle(msg, planNet \ {msg})
      BY <1>4 DEF DeliverPlan
    <2>2. msg \in planNet /\ planNet \ {msg} \in SUBSET planNet
      BY DEF Between
    <2>3. planFaults' \in 0 .. MaxPlanFaults
      BY <1>1, <1>4 DEF DeliverPlan
    <2> QED BY <2>1, <2>2, <2>3, HandleKeeps
  <1>5. CASE DeliverPlanTwice
    <2>1. PICK msg \in planNet : Handle(msg, planNet)
      BY <1>5 DEF DeliverPlanTwice
    <2>2. planFaults' \in 0 .. MaxPlanFaults /\ planNet \in SUBSET planNet
      BY <1>1, <1>5 DEF DeliverPlanTwice
    <2> QED BY <2>1, <2>2, HandleKeeps
  <1>6. CASE LosePlan
    <2> DEFINE none == {}
    <2>1. Sendable(none) /\ planNet' \subseteq planNet \cup none
      BY <1>6 DEF LosePlan, Sendable
    <2>2. /\ UNCHANGED <<policy, allocations, intents, clocks, controllers>>
          /\ planEdits' \in 0 .. MaxPlanEdits /\ planFaults' \in 0 .. MaxPlanFaults
      BY <1>1, <1>6 DEF LosePlan
    <2> HIDE DEF none
    <2> QED BY <2>1, <2>2, PlanSends
  <1> QED BY <1>2, <1>3, <1>4, <1>5, <1>6

LEMMA PlanInitially ==
    ASSUME PlanInit
    PROVE  PlanInv
  <1>1. ZeroStamp \in Stamp /\ NoAllocation \in Allocation
    BY DEF ZeroStamp, Stamp, NoAllocation, Allocation
  <1>2. ASSUME NEW n \in Devices
        PROVE  /\ Cardinality(Allocated(allocations[n])) <= MaxAllocations
               /\ Cardinality(Decided(n)) <= MaxIntents
    <2>1. Allocated(allocations[n]) = {} /\ Decided(n) = {}
      BY DEF PlanInit, Allocated, Decided
    <2> QED BY <2>1, FS_EmptySet
  <1>3. /\ policy \in [Devices -> Stamp]
        /\ allocations \in [Devices -> [AllocationId -> Allocation]]
        /\ intents \in [Devices -> [Devices -> Stamp]]
        /\ clocks \in [Devices -> [Devices -> Nat]]
    BY <1>1 DEF PlanInit
  <1>4. /\ planNet \subseteq PlanMessage
        /\ controllers \in Controllers
        /\ planEdits \in 0 .. MaxPlanEdits /\ planFaults \in 0 .. MaxPlanFaults
        /\ PlansAreFinite
    BY DEF PlanInit, PlansAreFinite
  <1> QED BY <1>2, <1>3, <1>4 DEF PlanInv, PlanTypeOK

LEMMA PlanStep ==
    ASSUME PlanInv, [PlanNext]_planVars
    PROVE  PlanInv'
  <1>1. CASE \E n \in Devices : SetPolicy(n)
    BY <1>1, SetPolicyKeeps
  <1>2. CASE \E n \in Devices, volume \in Volumes : EnsureDefaultAllocation(n, volume)
    BY <1>2, AllocationsKeep
  <1>3. CASE \E n \in Devices, id \in AllocationId : SetAllocation(n, id)
    BY <1>3, AllocationsKeep
  <1>4. CASE \E n, device \in Devices : SetDeviceIntent(n, device)
    BY <1>4, SetDeviceIntentKeeps
  <1>5. CASE UNCHANGED planVars
    BY <1>5 DEF PlanInv, PlanTypeOK, PlansAreFinite, Decided, planVars
  <1> QED BY <1>1, <1>2, <1>3, <1>4, <1>5, PlanNetworkKeeps DEF PlanNext

(* Every device's plan stays within the caps on allocations and on roles,  *)
(* in every fleet: what the automatic contribution, a choice and a merge   *)
(* of a whole plan or a part of one add is what there was room for         *)
(* (storage_plan.rs).                                                      *)
THEOREM PlanTypeHolds == PlanSpec => []PlanTypeOK
  <1>1. PlanInv => PlanTypeOK
    BY DEF PlanInv
  <1> QED BY <1>1, PlanInitially, PlanStep, PTL DEF PlanSpec

\* An explicit choice, before and after a step.
Stands(n, id) ==
    ~allocations[n][id].automatic =>
      /\ ~allocations'[n][id].automatic
      /\ StampLeq(allocations[n][id].stamp, allocations'[n][id].stamp)

LEMMA ChoiceStandsOrPutAgain ==
    ASSUME PlanInv, NEW n \in Devices, NEW id \in AllocationId, NEW automatic \in BOOLEAN,
           PutAllocation(n, id, automatic),
           automatic => allocations[n][id] = NoAllocation
    PROVE  \A k \in Devices, other \in AllocationId : Stands(k, other)
  <1> DEFINE a == [stamp |-> NextStamp(n), automatic |-> automatic]
  <1>1. allocations' = [allocations EXCEPT ![n][id] = a]
    BY DEF PutAllocation
  <1>2. allocations \in [Devices -> [AllocationId -> Allocation]]
    BY DEF PlanInv, PlanTypeOK
  <1>3. StampLess(allocations[n][id].stamp, NextStamp(n))
    BY NextStampTops DEF PlanInv
  <1>4. a.stamp = NextStamp(n) /\ a.automatic = automatic
    OBVIOUS
  <1> HIDE DEF a
  <1>5. ASSUME NEW k \in Devices, NEW other \in AllocationId PROVE Stands(k, other)
    <2>1. CASE k = n /\ other = id
      <3>1. allocations'[k][other] = a
        BY <1>1, <1>2, <2>1
      <3>2. CASE automatic
        BY <2>1, <3>2 DEF Stands, NoAllocation
      <3>3. CASE ~automatic
        BY <1>3, <1>4, <2>1, <3>1, <3>3 DEF Stands, StampLeq
      <3> QED BY <3>2, <3>3
    <2>2. CASE ~(k = n /\ other = id)
      <3>1. allocations'[k][other] = allocations[k][other]
        BY <1>1, <1>2, <2>2
      <3> QED BY <3>1 DEF Stands, StampLeq
    <2> QED BY <2>1, <2>2
  <1> QED BY <1>5

LEMMA ChoicesStandThroughHandle ==
    ASSUME PlanInv, NEW m \in planNet, NEW rest, Handle(m, rest)
    PROVE  \A k \in Devices, id \in AllocationId : Stands(k, id)
  <1>1. CASE Merge(m, rest)
    <2>1. \E chosen \in SUBSET m.plan.allocations :
            /\ m.kind = "patch" /\ TakesAllocations(m, chosen)
            /\ allocations' = MergedAllocations(m, chosen)
      BY <1>1, MergeTakes DEF Taking
    <2>2. \A k \in Devices, id \in AllocationId :
                \/ allocations'[k][id] = allocations[k][id]
                \/ /\ allocations'[k][id] \in Allocation
                   /\ Outranks(allocations'[k][id], allocations[k][id])
      BY <2>1, MergedAllocationsFit
    <2>3. ASSUME NEW k \in Devices, NEW id \in AllocationId PROVE Stands(k, id)
      <3>1. CASE allocations'[k][id] = allocations[k][id]
        BY <3>1 DEF Stands, StampLeq
      <3>2. CASE /\ allocations'[k][id] \in Allocation
                 /\ Outranks(allocations'[k][id], allocations[k][id])
        BY <3>2 DEF Stands, StampLeq, Outranks, NoAllocation, Allocation
      <3> QED BY <2>2, <3>1, <3>2
    <2> QED BY <2>3
  <1>2. CASE ReconcileDigest(m, rest) \/ AnswerRequest(m, rest)
    BY <1>2 DEF ReconcileDigest, AnswerRequest, Stands, StampLeq
  <1> QED BY <1>1, <1>2 DEF Handle

LEMMA ChoicesStand ==
    ASSUME PlanInv, [PlanNext]_planVars
    PROVE  \A k \in Devices, id \in AllocationId : Stands(k, id)
  <1>1. ASSUME NEW n \in Devices, NEW volume \in Volumes, EnsureDefaultAllocation(n, volume)
        PROVE  \A k \in Devices, id \in AllocationId : Stands(k, id)
    <2> DEFINE id == [device |-> n, volume |-> volume]
    <2>1. id \in AllocationId /\ id.device = n /\ PutAllocation(n, id, TRUE)
      BY <1>1 DEF EnsureDefaultAllocation, AllocationId
    <2>2. allocations[n][id] = NoAllocation
      BY <1>1, <2>1 DEF EnsureDefaultAllocation, Allocated
    <2> HIDE DEF id
    <2> QED BY <2>1, <2>2, ChoiceStandsOrPutAgain
  <1>2. ASSUME NEW n \in Devices, NEW id \in AllocationId, SetAllocation(n, id)
        PROVE  \A k \in Devices, other \in AllocationId : Stands(k, other)
    BY <1>2, ChoiceStandsOrPutAgain DEF SetAllocation
  <1>3. ASSUME UNCHANGED allocations
        PROVE  \A k \in Devices, id \in AllocationId : Stands(k, id)
    BY <1>3 DEF Stands, StampLeq
  <1>4. ASSUME NEW n \in Devices, NEW m \in Devices, DeliverPlan(n, m)
        PROVE  \A k \in Devices, id \in AllocationId : Stands(k, id)
    <2>1. PICK msg \in Between(planNet, n, m) : Handle(msg, planNet \ {msg})
      BY <1>4 DEF DeliverPlan
    <2>2. msg \in planNet
      BY DEF Between
    <2> QED BY <2>1, <2>2, ChoicesStandThroughHandle
  <1>5. CASE DeliverPlanTwice
    BY <1>5, ChoicesStandThroughHandle DEF DeliverPlanTwice
  <1>6. ASSUME \/ \E n \in Devices : SetPolicy(n)
               \/ \E n, device \in Devices : SetDeviceIntent(n, device)
               \/ \E n, m \in Devices : PlanPresenceOfNewBoot(n, m) \/ PlanPresenceOfKnown(n, m)
               \/ LosePlan
               \/ UNCHANGED planVars
        PROVE  UNCHANGED allocations
    BY <1>6 DEF SetPolicy, SetDeviceIntent, PlanPresenceOfNewBoot, PlanPresenceOfKnown,
                LosePlan, planVars
  <1> QED BY <1>1, <1>2, <1>3, <1>4, <1>5, <1>6 DEF PlanNext

(* An explicit choice of an allocation is never taken back by the automatic *)
(* one of a device, nor by an older choice, in every fleet, whatever        *)
(* reaches a device, twice, late or in part (merge of storage_plan.rs).     *)
THEOREM ExplicitChoicesStand == PlanSpec => ExplicitChoiceStands
  <1>1. ASSUME PlanInv, [PlanNext]_planVars
        PROVE  [\A n \in Devices : \A id \in AllocationId :
                  ~allocations[n][id].automatic =>
                    /\ ~allocations'[n][id].automatic
                    /\ StampLeq(allocations[n][id].stamp, allocations'[n][id].stamp)]_planVars
    BY <1>1, ChoicesStand DEF Stands
  <1> QED BY <1>1, PlanInitially, PlanStep, PTL DEF PlanSpec, ExplicitChoiceStands

HIDE PlanConstants

-----------------------------------------------------------------------------
(* The canvas.                                                             *)

\* A device keeps one counter for every device of the fleet.
LEMMA CountersAreFinite ==
    ASSUME NEW n
    PROVE  IsFiniteSet({counters[n][a] : a \in Nodes})
  <1>1. IsFiniteSet(Nodes)
    BY CanvasConstants
  <1>2. PICK f : f = counters[n]
    OBVIOUS
  <1>3. IsFiniteSet({f[a] : a \in Nodes})
    BY <1>1, FiniteImage
  <1> QED BY <1>2, <1>3

USE CanvasConstants

\* A copy is of epoch e if it was written in it or kept by a purge, one of those known.
OfEpochBy(purged, e, x) ==
    \/ x.record.born = e
    \/ [epoch |-> e, id |-> x.id, stamp |-> x.record.stamp] \in purged

OfEpoch(e, x) == OfEpochBy(kept, e, x)

\* What a device writes: stamps of its own, each for one record, above all it has used.
OwnWrites(n, written) ==
    /\ \A x \in written : /\ x.record.stamp.actor = n
                          /\ x.record.stamp.counter > counters[n][n]
                          /\ x.record.stamp.counter <= counters'[n][n]
    /\ \A x, y \in written : x.record.stamp = y.record.stamp => x = y

PatchesAreOfTheirEpoch == \A m \in Sent : \A x \in m.entries : OfEpoch(m.epoch, x)

DocumentsAreOfTheirEpoch == 
    \A n \in Nodes : \A x \in EntriesOf(records[n]) : OfEpoch(epoch[n], x)

\* No copy carries a counter its author has not reached ...
AuthorLeads ==
    \A x \in Copies :
        /\ x.record.stamp.actor \in Nodes
        /\ x.record.stamp.counter <= counters[x.record.stamp.actor][x.record.stamp.actor]

\* ... and no device holds a record whose counter it has not seen.
ReaderKnows ==
    \A n \in Nodes : \A x \in EntriesOf(records[n]) :
        x.record.stamp.counter <= counters[n][x.record.stamp.actor]

CanvasShapes ==
    /\ epoch \in [Nodes -> Stamp]
    /\ records \in [Nodes -> [Ids -> Record]]
    /\ counters \in [Nodes -> [Nodes -> Nat]]
    /\ canvasNet \subseteq CanvasMessage
    /\ managers \in Roles
    /\ kept \subseteq [epoch : Stamp, id : Ids, stamp : Stamp]
    /\ edits \in 0 .. MaxEdits /\ purges \in 0 .. MaxPurges /\ faults \in 0 .. MaxFaults

DocumentsFit ==
    \A n \in Nodes : IsFiniteSet(Held(records[n])) /\ Cardinality(Held(records[n])) <= MaxRecords

PatchesAreFinite == \A m \in Sent : IsFiniteSet(m.entries)

CanvasInv ==
    /\ CanvasShapes /\ DocumentsFit /\ PatchesAreFinite
    /\ StampNamesOneRecord /\ AuthorLeads /\ ReaderKnows
    /\ PatchesAreOfTheirEpoch /\ DocumentsAreOfTheirEpoch

\* Operators on documents and entries.

LEMMA EntriesAreEntries ==
    ASSUME NEW document \in [Ids -> Record]
    PROVE  /\ EntriesOf(document) \subseteq Entry
           /\ \A x \in EntriesOf(document) : x.id \in Ids /\ x.record = document[x.id]
           /\ \A id \in Held(document) : [id |-> id, record |-> document[id]] \in EntriesOf(document)
  BY DEF EntriesOf, Held, Entry

LEMMA EntriesAreFinite ==
    ASSUME NEW document, IsFiniteSet(Held(document))
    PROVE  IsFiniteSet(EntriesOf(document))
  <1> DEFINE f == [id \in Held(document) |-> [id |-> id, record |-> document[id]]]
  <1>1. EntriesOf(document) = {f[id] : id \in Held(document)}
    BY DEF EntriesOf
  <1> HIDE DEF f
  <1> QED BY <1>1, FiniteImage

LEMMA NoRecordIsRecord == NoRecord \in Record /\ NoRecord.stamp = ZeroStamp /\ ZeroStamp \in Stamp
  BY DEF NoRecord, Record, Stamp, ZeroStamp

\* What a document is with entries laid over it.
LEMMA OverlaidDocument ==
    ASSUME NEW document \in [Ids -> Record], NEW entries \in SUBSET Entry
    PROVE  LET new == Overlaid(document, entries)
           IN  /\ new \in [Ids -> Record]
               /\ \A id \in Ids : \/ new[id] = document[id]
                                  \/ \E x \in entries : x.id = id /\ new[id] = x.record
               /\ \A id \in Ids : (\A x \in entries : x.id # id) => new[id] = document[id]
  <1> DEFINE new == Overlaid(document, entries)
  <1>1. ASSUME NEW id \in Ids, \E x \in entries : x.id = id
        PROVE  \E x \in entries : x.id = id /\ new[id] = x.record /\ x.record \in Record
    <2> DEFINE y == CHOOSE x \in entries : x.id = id
    <2>1. y \in entries /\ y.id = id
      BY <1>1
    <2>2. new[id] = y.record
      BY <1>1 DEF Overlaid
    <2>3. y.record \in Record
      BY <2>1 DEF Entry
    <2> QED BY <2>1, <2>2, <2>3
  <1>2. ASSUME NEW id \in Ids, \A x \in entries : x.id # id PROVE new[id] = document[id]
    BY <1>2 DEF Overlaid
  <1>3. \A id \in Ids : new[id] \in Record
    BY <1>1, <1>2
  <1>4. new \in [Ids -> Record]
    BY <1>3 DEF Overlaid
  <1> HIDE DEF new
  <1>5. QED BY <1>1, <1>2, <1>4 DEF new

LEMMA OverlaidEntries ==
    ASSUME NEW document \in [Ids -> Record], NEW entries \in SUBSET Entry
    PROVE  /\ EntriesOf(Overlaid(document, entries)) \subseteq EntriesOf(document) \cup entries
           /\ Held(Overlaid(document, entries)) \subseteq Held(document) \cup {x.id : x \in entries}
  <1> DEFINE new == Overlaid(document, entries)
  <1>1. \A id \in Ids : \/ new[id] = document[id]
                        \/ \E x \in entries : x.id = id /\ new[id] = x.record
    BY OverlaidDocument
  <1> HIDE DEF new
  <1>2. \A id \in Ids, x \in entries : x.id = id => x = [id |-> id, record |-> x.record]
    BY DEF Entry
  <1>3. ASSUME NEW id \in Held(new)
        PROVE  /\ [id |-> id, record |-> new[id]] \in EntriesOf(document) \cup entries
               /\ id \in Held(document) \cup {x.id : x \in entries}
    <2>1. id \in Ids /\ new[id] # NoRecord
      BY DEF Held
    <2>2. CASE new[id] = document[id]
      BY <2>1, <2>2 DEF EntriesOf, Held
    <2>3. CASE \E x \in entries : x.id = id /\ new[id] = x.record
      BY <1>2, <2>1, <2>3
    <2> QED BY <1>1, <2>1, <2>2, <2>3
  <1>4. \A x \in EntriesOf(new) : \E id \in Held(new) : x = [id |-> id, record |-> new[id]]
    BY DEF EntriesOf
  <1>5. /\ EntriesOf(new) \subseteq EntriesOf(document) \cup entries
        /\ Held(new) \subseteq Held(document) \cup {x.id : x \in entries}
    <2>1. \A x \in EntriesOf(new) : x \in EntriesOf(document) \cup entries
      BY <1>3, <1>4
    <2>2. \A id \in Held(new) : id \in Held(document) \cup {x.id : x \in entries}
      BY <1>3
    <2> QED BY <2>1, <2>2
  <1> QED BY <1>5 DEF new

\* A cleared document.
LEMMA ClearedDocument ==
    LET cleared == [id \in Ids |-> NoRecord]
    IN  /\ cleared \in [Ids -> Record] /\ Held(cleared) = {} /\ EntriesOf(cleared) = {}
        /\ IsFiniteSet(Held(cleared)) /\ Cardinality(Held(cleared)) = 0
  <1> DEFINE cleared == [id \in Ids |-> NoRecord]
  <1>1. cleared \in [Ids -> Record] /\ \A id \in Ids : cleared[id] = NoRecord
    BY NoRecordIsRecord
  <1> HIDE DEF cleared
  <1>2. Held(cleared) = {}
    BY <1>1 DEF Held
  <1>3. EntriesOf(cleared) = {}
    BY <1>2 DEF EntriesOf
  <1>4. IsFiniteSet(Held(cleared)) /\ Cardinality(Held(cleared)) = 0
    BY <1>2, FS_EmptySet
  <1> QED BY <1>1, <1>2, <1>3, <1>4 DEF cleared

LEMMA LivingDocument ==
    ASSUME NEW document \in [Ids -> Record], IsFiniteSet(Held(document))
    PROVE  /\ Living(document) \in [Ids -> Record]
           /\ EntriesOf(Living(document)) \subseteq EntriesOf(document)
           /\ Held(Living(document)) \subseteq Held(document)
           /\ IsFiniteSet(Held(Living(document)))
           /\ Cardinality(Held(Living(document))) <= Cardinality(Held(document))
  <1>1. Living(document) \in [Ids -> Record]
    BY NoRecordIsRecord DEF Living
  <1>2. \A id \in Ids : Living(document)[id] # NoRecord => Living(document)[id] = document[id]
    BY DEF Living
  <1>3. Held(Living(document)) \subseteq Held(document)
    BY <1>2 DEF Held
  <1>4. EntriesOf(Living(document)) \subseteq EntriesOf(document)
    BY <1>2 DEF EntriesOf, Held
  <1> QED BY <1>1, <1>3, <1>4, FS_Subset

\* What is sent is a whole document of its epoch, or a digest of one.

\* A patch carries finitely many copies, of its epoch, that some document or patch holds.
Honest(m) ==
    m.kind = "patch" =>
        /\ m.entries \in SUBSET Copies /\ IsFiniteSet(m.entries)
        /\ \A x \in m.entries : OfEpoch(m.epoch, x)

LEMMA CopiesAreEntries ==
    ASSUME CanvasShapes
    PROVE  /\ Copies \subseteq Entry
           /\ \A m \in Sent : m \in canvasNet /\ m.entries \subseteq Copies /\ m.epoch \in Stamp
                              /\ m.entries \in SUBSET Entry /\ m.to \in Nodes /\ m.from \in Nodes
           /\ \A n \in Nodes : EntriesOf(records[n]) \subseteq Copies
  <1>1. \A m \in Sent : m \in canvasNet /\ m.entries \in SUBSET Entry /\ m.epoch \in Stamp
                        /\ m.to \in Nodes /\ m.from \in Nodes
    BY DEF CanvasShapes, Sent, CanvasMessage
  <1>2. \A n \in Nodes : EntriesOf(records[n]) \subseteq Entry
    BY EntriesAreEntries DEF CanvasShapes
  <1>3. \A x : x \in Copies <=> \/ \E n \in Nodes : x \in EntriesOf(records[n])
                               \/ \E m \in Sent : x \in m.entries
    <2> DEFINE A == UNION {EntriesOf(records[n]) : n \in Nodes}
              B == UNION {m.entries : m \in Sent}
    <2>1. \A x : x \in A <=> \E n \in Nodes : x \in EntriesOf(records[n])
      OBVIOUS
    <2>2. \A x : x \in B <=> \E m \in Sent : x \in m.entries
      OBVIOUS
    <2>3. Copies = A \cup B
      BY DEF Copies
    <2> HIDE DEF A, B
    <2> QED BY <2>1, <2>2, <2>3
  <1>4. \A n \in Nodes : EntriesOf(records[n]) \subseteq Copies
    BY <1>3
  <1>5. \A m \in Sent : m.entries \subseteq Copies
    BY <1>3
  <1>6. Copies \subseteq Entry
    BY <1>1, <1>2, <1>3
  <1> QED BY <1>1, <1>4, <1>5, <1>6

LEMMA PatchesAreMessages ==
    ASSUME NEW n \in Nodes, NEW m \in Nodes, NEW e \in Stamp, NEW entries \in SUBSET Entry
    PROVE  /\ Patches(n, m, e, entries) \subseteq CanvasMessage
           /\ \A x \in Patches(n, m, e, entries) :
                x.kind = "patch" /\ x.entries = entries /\ x.epoch = e
  BY DEF Patches, CanvasMessage

LEMMA BarrierIsMessage ==
    ASSUME NEW n \in Nodes, NEW m \in Nodes, NEW e \in Stamp
    PROVE  Barrier(n, m, e) \in CanvasMessage /\ Barrier(n, m, e).kind = "barrier"
  BY DEF Barrier, CanvasMessage

LEMMA DigestIsHonest ==
    ASSUME CanvasInv, NEW n \in Nodes, NEW m \in Nodes
    PROVE  Digest(n, m) \in CanvasMessage /\ Honest(Digest(n, m))
  <1>1. epoch[n] \in Stamp /\ records[n] \in [Ids -> Record]
    BY DEF CanvasInv, CanvasShapes
  <1>2. Digest(n, m) \in CanvasMessage
    BY <1>1 DEF Digest, CanvasMessage
  <1>3. Digest(n, m).kind = "digest"
    BY DEF Digest
  <1> QED BY <1>2, <1>3 DEF Honest

LEMMA FullDocumentIsHonest ==
    ASSUME CanvasInv, NEW n \in Nodes, NEW m \in Nodes
    PROVE  /\ FullDocument(n, m) \subseteq CanvasMessage
           /\ \A x \in FullDocument(n, m) : Honest(x)
  <1> DEFINE entries == EntriesOf(records[n])
  <1>1. epoch[n] \in Stamp /\ records[n] \in [Ids -> Record]
    BY DEF CanvasInv, CanvasShapes
  <1>2. entries \in SUBSET Entry /\ entries \in SUBSET Copies /\ IsFiniteSet(entries)
    BY <1>1, EntriesAreEntries, CopiesAreEntries, EntriesAreFinite DEF CanvasInv, DocumentsFit
  <1>3. \A x \in entries : OfEpoch(epoch[n], x)
    BY DEF CanvasInv, DocumentsAreOfTheirEpoch
  <1> HIDE DEF entries
  <1>4. /\ Barrier(n, m, epoch[n]) \in CanvasMessage
        /\ Barrier(n, m, epoch[n]).kind = "barrier"
    BY <1>1, BarrierIsMessage
  <1>5. /\ Patches(n, m, epoch[n], entries) \subseteq CanvasMessage
        /\ \A x \in Patches(n, m, epoch[n], entries) :
                x.kind = "patch" /\ x.entries = entries /\ x.epoch = epoch[n]
    <2>1. PICK d \in SUBSET Entry : d = entries
      BY <1>2
    <2>2. PICK e \in Stamp : e = epoch[n]
      BY <1>1
    <2> QED BY <2>1, <2>2, PatchesAreMessages
  <1>6. FullDocument(n, m) = {Barrier(n, m, epoch[n])} \cup Patches(n, m, epoch[n], entries)
    BY DEF FullDocument, entries
  <1> QED BY <1>2, <1>3, <1>4, <1>5, <1>6 DEF Honest

LEMMA PostAdds ==
    ASSUME NEW rest, NEW messages, Post(rest, messages)
    PROVE  canvasNet' \subseteq rest \cup messages
  BY DEF Post

\* A step that only sends or loses messages.
LEMMA SendingKeeps ==
    ASSUME CanvasInv, NEW messages \in SUBSET CanvasMessage, \A x \in messages : Honest(x),
           canvasNet' \subseteq canvasNet \cup messages, faults' \in 0 .. MaxFaults,
           UNCHANGED <<managers, epoch, records, counters, kept, edits, purges>>
    PROVE  CanvasInv'
  <1>1. CanvasShapes'
    BY DEF CanvasInv, CanvasShapes
  <1>2. DocumentsFit' /\ ReaderKnows' /\ DocumentsAreOfTheirEpoch'
    <2>1. DocumentsFit'
      BY DEF CanvasInv, DocumentsFit
    <2>2. ReaderKnows'
      BY DEF CanvasInv, ReaderKnows
    <2>3. DocumentsAreOfTheirEpoch'
      BY DEF CanvasInv, DocumentsAreOfTheirEpoch, OfEpoch, OfEpochBy
    <2> QED BY <2>1, <2>2, <2>3
  <1>3. ASSUME NEW m \in Sent' PROVE m \in Sent \/ (m \in messages /\ m.kind = "patch")
    BY DEF Sent
  <1>4. ASSUME NEW m \in Sent'
        PROVE  /\ m.entries \subseteq Copies /\ IsFiniteSet(m.entries)
               /\ \A x \in m.entries : OfEpoch(m.epoch, x)
    BY <1>3, CopiesAreEntries DEF Honest, CanvasInv, PatchesAreFinite, PatchesAreOfTheirEpoch
  <1>5. Copies' \subseteq Copies
    <2>1. \A x : x \in Copies' <=> \/ \E n \in Nodes : x \in EntriesOf(records[n])
                                  \/ \E m \in Sent' : x \in m.entries
      <3> DEFINE A == UNION {EntriesOf(records[n]) : n \in Nodes}
                B == UNION {m.entries : m \in Sent'}
      <3>1. \A x : x \in A <=> \E n \in Nodes : x \in EntriesOf(records[n])
        OBVIOUS
      <3>2. \A x : x \in B <=> \E m \in Sent' : x \in m.entries
        OBVIOUS
      <3>3. Copies' = A \cup B
        BY DEF Copies
      <3> HIDE DEF A, B
      <3> QED BY <3>1, <3>2, <3>3
    <2>2. \A n \in Nodes : EntriesOf(records[n]) \subseteq Copies
      BY CopiesAreEntries DEF CanvasInv
    <2> QED BY <1>4, <2>1, <2>2
  <1>6. StampNamesOneRecord' /\ AuthorLeads'
    BY <1>5 DEF CanvasInv, StampNamesOneRecord, AuthorLeads
  <1>7. PatchesAreFinite' /\ PatchesAreOfTheirEpoch'
    BY <1>4 DEF PatchesAreFinite, PatchesAreOfTheirEpoch, OfEpoch, OfEpochBy
  <1> QED BY <1>1, <1>2, <1>6, <1>7 DEF CanvasInv

\* A step after which one device has another document, of copies there were and of what
\* it has written, and sends copies of the same.
LEMMA ChangingKeeps ==
    ASSUME CanvasInv, NEW n \in Nodes, NEW document \in [Ids -> Record], NEW e \in Stamp,
           NEW written \in SUBSET Entry, NEW messages \in SUBSET CanvasMessage,
           records' = [records EXCEPT ![n] = document], epoch' = [epoch EXCEPT ![n] = e],
           IsFiniteSet(Held(document)), Cardinality(Held(document)) <= MaxRecords,
           EntriesOf(document) \subseteq Copies \cup written,
           OwnWrites(n, written),
           kept \subseteq kept', kept' \subseteq [epoch : Stamp, id : Ids, stamp : Stamp],
           \A x \in EntriesOf(document) : OfEpochBy(kept', e, x),
           counters' \in [Nodes -> [Nodes -> Nat]],
           \A k, a \in Nodes : counters'[k][a] >= counters[k][a],
           \A x \in EntriesOf(document) :
               x.record.stamp.counter <= counters'[n][x.record.stamp.actor],
           canvasNet' \subseteq canvasNet \cup messages,
           \A m \in messages : m.kind = "patch" =>
               /\ m.entries \subseteq Copies \cup written /\ IsFiniteSet(m.entries)
               /\ \A x \in m.entries : OfEpochBy(kept', m.epoch, x),
           edits' \in 0 .. MaxEdits, purges' \in 0 .. MaxPurges, faults' \in 0 .. MaxFaults,
           UNCHANGED managers
    PROVE  CanvasInv'
  <1>1. \A k \in Nodes : /\ records'[k] = IF k = n THEN document ELSE records[k]
                         /\ epoch'[k] = IF k = n THEN e ELSE epoch[k]
    BY DEF CanvasInv, CanvasShapes
  <1>2. CanvasShapes'
    BY DEF CanvasInv, CanvasShapes
  <1>3. DocumentsFit'
    BY <1>1 DEF CanvasInv, DocumentsFit
  <1>4. \A m \in Sent' : m \in Sent \/ (m \in messages /\ m.kind = "patch")
    BY DEF Sent
  <1>5. \A k \in Nodes : EntriesOf(records'[k]) \subseteq Copies \cup written
    BY <1>1, CopiesAreEntries DEF CanvasInv
  <1>6. Copies' \subseteq Copies \cup written
    <2>1. \A x : x \in Copies' <=> \/ \E k \in Nodes : x \in EntriesOf(records'[k])
                                  \/ \E m \in Sent' : x \in m.entries
      <3> DEFINE A == UNION {EntriesOf(records'[k]) : k \in Nodes}
                 B == UNION {m.entries : m \in Sent'}
      <3>1. \A x : x \in A <=> \E k \in Nodes : x \in EntriesOf(records'[k])
        OBVIOUS
      <3>2. \A x : x \in B <=> \E m \in Sent' : x \in m.entries
        OBVIOUS
      <3>3. Copies' = A \cup B
        BY DEF Copies
      <3> HIDE DEF A, B
      <3> QED BY <3>1, <3>2, <3>3
    <2>2. \A m \in Sent' : m.entries \subseteq Copies \cup written
      BY <1>4, CopiesAreEntries DEF CanvasInv
    <2> QED BY <1>5, <2>1, <2>2
  <1>7. \A x \in Copies \cup written :
            x.record.stamp.actor \in Nodes /\ x.record.stamp.counter \in Nat
    <2>1. \A x \in Entry : x.record.stamp.counter \in Nat
      BY DEF Entry, Record, Stamp
    <2>2. \A x \in Copies : x \in Entry /\ x.record.stamp.actor \in Nodes
      BY CopiesAreEntries DEF CanvasInv, AuthorLeads
    <2> QED BY <2>1, <2>2 DEF OwnWrites
  <1>8. \A k, a \in Nodes : counters[k][a] \in Nat /\ counters'[k][a] \in Nat
    <2>1. counters \in [Nodes -> [Nodes -> Nat]]
      BY DEF CanvasInv, CanvasShapes
    <2> QED BY <2>1
  <1>9. \A x \in Copies : x.record.stamp.counter <=
                             counters[x.record.stamp.actor][x.record.stamp.actor]
    BY DEF CanvasInv, AuthorLeads
  <1>10. StampNamesOneRecord'
    <2>1. SUFFICES ASSUME NEW x \in Copies \cup written, NEW y \in Copies \cup written,
                          x.record.stamp = y.record.stamp
                   PROVE  x = y
      BY <1>6 DEF StampNamesOneRecord
    <2>2. ASSUME NEW v \in Copies, NEW w \in written, v.record.stamp = w.record.stamp
          PROVE  FALSE
      <3>1. PICK c \in Nat : c = w.record.stamp.counter
        BY <1>7
      <3>2. c <= counters[n][n] /\ c > counters[n][n]
        BY <1>9, <2>2, <3>1 DEF OwnWrites
      <3> QED BY <1>8, <3>2
    <2> QED BY <2>1, <2>2 DEF CanvasInv, StampNamesOneRecord, OwnWrites
  <1>11. AuthorLeads'
    <2>1. SUFFICES ASSUME NEW x \in Copies \cup written
                   PROVE  /\ x.record.stamp.actor \in Nodes
                          /\ x.record.stamp.counter <=
                               counters'[x.record.stamp.actor][x.record.stamp.actor]
      BY <1>6 DEF AuthorLeads
    <2>2. CASE x \in written
      BY <1>7, <2>2 DEF OwnWrites
    <2>3. CASE x \in Copies
      <3>1. PICK a \in Nodes : a = x.record.stamp.actor
        BY <1>7
      <3>2. PICK c \in Nat : c = x.record.stamp.counter
        BY <1>7
      <3>3. counters'[a][a] >= counters[a][a] /\ c <= counters[a][a]
        BY <1>9, <2>3, <3>1, <3>2
      <3>4. c <= counters'[a][a]
        BY <1>8, <3>3
      <3> QED BY <3>1, <3>2, <3>4
    <2> QED BY <2>2, <2>3
  <1>12. ReaderKnows'
    <2>1. SUFFICES ASSUME NEW k \in Nodes, NEW x \in EntriesOf(records'[k])
                   PROVE  x.record.stamp.counter <= counters'[k][x.record.stamp.actor]
      BY DEF ReaderKnows, EntriesOf
    <2>2. CASE k = n
      BY <1>1, <2>2
    <2>3. CASE k # n
      <3>1. x \in EntriesOf(records[k]) /\ x \in Copies \cup written
        BY <1>1, <1>5, <2>3
      <3>2. x.record.stamp.counter <= counters[k][x.record.stamp.actor]
        BY <3>1 DEF CanvasInv, ReaderKnows
      <3>3. PICK a \in Nodes : a = x.record.stamp.actor
        BY <1>7, <3>1
      <3>4. PICK c \in Nat : c = x.record.stamp.counter
        BY <1>7, <3>1
      <3>5. PICK old \in Nat : old = counters[k][a]
        BY <1>8
      <3>6. PICK new \in Nat : new = counters'[k][a]
        BY <1>8
      <3>7. c <= old /\ new >= old
        BY <3>2, <3>3, <3>4, <3>5, <3>6
      <3>8. c <= new
        BY <3>7
      <3> QED BY <3>3, <3>4, <3>6, <3>8
    <2> QED BY <2>2, <2>3
  <1>13. PatchesAreFinite'
    BY <1>4 DEF CanvasInv, PatchesAreFinite
  <1>14. PatchesAreOfTheirEpoch'
    <2>1. \A m \in Sent : \A x \in m.entries : OfEpochBy(kept', m.epoch, x)
      BY DEF CanvasInv, PatchesAreOfTheirEpoch, OfEpoch, OfEpochBy
    <2>2. \A m \in Sent' : \A x \in m.entries : OfEpochBy(kept', m.epoch, x)
      BY <1>4, <2>1
    <2> QED BY <2>2 DEF PatchesAreOfTheirEpoch, OfEpoch
  <1>15. DocumentsAreOfTheirEpoch'
    <2>1. ASSUME NEW k \in Nodes, NEW x \in EntriesOf(records'[k])
          PROVE  \/ x.record.born = epoch'[k]
                 \/ [epoch |-> epoch'[k], id |-> x.id, stamp |-> x.record.stamp] \in kept'
      <3>1. CASE k = n
        BY <1>1, <3>1 DEF OfEpoch, OfEpochBy
      <3>2. CASE k # n
        BY <1>1, <2>1, <3>2 DEF CanvasInv, DocumentsAreOfTheirEpoch, OfEpoch, OfEpochBy
      <3> QED BY <3>1, <3>2
    <2> QED BY <2>1 DEF DocumentsAreOfTheirEpoch, OfEpoch, OfEpochBy
  <1> QED BY <1>2, <1>3, <1>10, <1>11, <1>12, <1>13, <1>14, <1>15 DEF CanvasInv

\* The same, when nothing is written or sent.
LEMMA TakingKeeps ==
    ASSUME CanvasInv, NEW n \in Nodes, NEW document \in [Ids -> Record], NEW e \in Stamp,
           records' = [records EXCEPT ![n] = document], epoch' = [epoch EXCEPT ![n] = e],
           IsFiniteSet(Held(document)), Cardinality(Held(document)) <= MaxRecords,
           EntriesOf(document) \subseteq Copies,
           \A x \in EntriesOf(document) : OfEpoch(e, x),
           counters' \in [Nodes -> [Nodes -> Nat]],
           \A k, a \in Nodes : counters'[k][a] >= counters[k][a],
           \A x \in EntriesOf(document) :
               x.record.stamp.counter <= counters'[n][x.record.stamp.actor],
           canvasNet' \subseteq canvasNet, faults' \in 0 .. MaxFaults,
           UNCHANGED <<managers, kept, edits, purges>>
    PROVE  CanvasInv'
  <1>1. /\ kept' \subseteq [epoch : Stamp, id : Ids, stamp : Stamp] /\ kept \subseteq kept'
        /\ edits' \in 0 .. MaxEdits /\ purges' \in 0 .. MaxPurges
    BY DEF CanvasInv, CanvasShapes
  <1> DEFINE none == {}
  <1>2. OwnWrites(n, none)
    BY DEF OwnWrites
  <1>3. /\ none \in SUBSET Entry /\ none \in SUBSET CanvasMessage
        /\ canvasNet' \subseteq canvasNet \cup none
        /\ EntriesOf(document) \subseteq Copies \cup none
    OBVIOUS
  <1>4. \A x \in EntriesOf(document) : OfEpochBy(kept', e, x)
    BY DEF OfEpoch, OfEpochBy
  <1>5. \A m \in none : m.kind = "patch" =>
            /\ m.entries \subseteq Copies \cup none /\ IsFiniteSet(m.entries)
            /\ \A x \in m.entries : OfEpochBy(kept', m.epoch, x)
    OBVIOUS
  <1>6. UNCHANGED managers
    OBVIOUS
  <1> HIDE DEF none
  <1> QED BY ZenonT(60), <1>1, <1>2, <1>3, <1>4, <1>5, <1>6, ChangingKeeps

\* What a device knew of the records it holds it still knows when its counters have grown.
LEMMA StillKnown ==
    ASSUME CanvasInv, NEW n \in Nodes, NEW x \in EntriesOf(records[n]),
           counters' \in [Nodes -> [Nodes -> Nat]],
           \A k, a \in Nodes : counters'[k][a] >= counters[k][a]
    PROVE  x.record.stamp.counter <= counters'[n][x.record.stamp.actor]
  <1>1. x \in Copies /\ x \in Entry
    BY CopiesAreEntries DEF CanvasInv
  <1>2. x.record.stamp.counter <= counters[n][x.record.stamp.actor]
    BY DEF CanvasInv, ReaderKnows
  <1>3. PICK a \in Nodes : a = x.record.stamp.actor
    BY <1>1 DEF CanvasInv, AuthorLeads
  <1>4. PICK c \in Nat : c = x.record.stamp.counter
    BY <1>1 DEF Entry, Record, Stamp
  <1>5. PICK old \in Nat : old = counters[n][a]
    BY DEF CanvasInv, CanvasShapes
  <1>6. PICK new \in Nat : new = counters'[n][a]
    <2>1. counters'[n] \in [Nodes -> Nat]
      OBVIOUS
    <2> QED BY <2>1
  <1>7. c <= old /\ new >= old
    BY <1>2, <1>3, <1>4, <1>5, <1>6
  <1>8. c <= new
    BY <1>7
  <1> QED BY <1>3, <1>4, <1>6, <1>8

\* The steps that send.

LEMMA PresenceKeeps ==
    ASSUME CanvasInv, NEW n \in Nodes, NEW m \in Nodes,
           PresenceOfNewBoot(n, m) \/ PresenceOfKnown(n, m)
    PROVE  CanvasInv'
  <1>1. CASE PresenceOfNewBoot(n, m)
    <2>1. canvasNet' \subseteq canvasNet \cup FullDocument(n, m)
      BY <1>1, PostAdds DEF PresenceOfNewBoot
    <2>2. faults' \in 0 .. MaxFaults
      BY <1>1 DEF PresenceOfNewBoot, CanvasInv, CanvasShapes
    <2> QED BY <1>1, <2>1, <2>2, FullDocumentIsHonest, SendingKeeps DEF PresenceOfNewBoot
  <1>2. CASE PresenceOfKnown(n, m)
    <2>1. canvasNet' \subseteq canvasNet \cup {Digest(n, m)}
      BY <1>2, PostAdds DEF PresenceOfKnown
    <2>2. faults' \in 0 .. MaxFaults
      BY <1>2 DEF PresenceOfKnown, CanvasInv, CanvasShapes
    <2> QED BY <1>2, <2>1, <2>2, DigestIsHonest, SendingKeeps DEF PresenceOfKnown
  <1> QED BY <1>1, <1>2

LEMMA ReceiveDigestKeeps ==
    ASSUME CanvasInv, NEW m \in canvasNet, NEW rest \in SUBSET canvasNet,
           ReceiveDigest(m, rest), faults' \in 0 .. MaxFaults
    PROVE  CanvasInv'
  <1>1. m.to \in Nodes /\ m.from \in Nodes
    BY DEF CanvasInv, CanvasShapes, CanvasMessage
  <1> DEFINE full == FullDocument(m.to, m.from)
             digest == Digest(m.to, m.from)
  <1>2. full \subseteq CanvasMessage /\ \A x \in full : Honest(x)
    BY <1>1, FullDocumentIsHonest
  <1>3. digest \in CanvasMessage /\ Honest(digest)
    BY <1>1, DigestIsHonest
  <1>4. \E messages \in {full, {digest}, {}} : Post(rest, messages)
    BY DEF ReceiveDigest
  <1> HIDE DEF full, digest
  <1>5. PICK messages \in {full, {digest}, {}} : Post(rest, messages)
    BY <1>4
  <1>6. messages \in SUBSET CanvasMessage /\ \A x \in messages : Honest(x)
    BY <1>2, <1>3
  <1>7. canvasNet' \subseteq canvasNet \cup messages
    BY <1>5, PostAdds
  <1> QED BY <1>6, <1>7, SendingKeeps DEF ReceiveDigest

LEMMA LoseKeeps ==
    ASSUME CanvasInv, Lose
    PROVE  CanvasInv'
  <1>1. canvasNet' \subseteq canvasNet \cup {} /\ {} \in SUBSET CanvasMessage
    BY DEF Lose
  <1>2. faults' \in 0 .. MaxFaults
    BY DEF Lose, CanvasInv, CanvasShapes
  <1> QED BY <1>1, <1>2, SendingKeeps DEF Lose

\* The steps that change a document.

LEMMA ReceiveBarrierKeeps ==
    ASSUME CanvasInv, NEW m \in canvasNet, NEW rest \in SUBSET canvasNet,
           ReceiveBarrier(m, rest), faults' \in 0 .. MaxFaults
    PROVE  CanvasInv'
  <1> DEFINE cleared == [id \in Ids |-> NoRecord]
  <1>1. m.to \in Nodes /\ m.epoch \in Stamp
    BY DEF CanvasInv, CanvasShapes, CanvasMessage, ReceiveBarrier
  <1>2. /\ cleared \in [Ids -> Record] /\ EntriesOf(cleared) = {}
        /\ IsFiniteSet(Held(cleared)) /\ Cardinality(Held(cleared)) <= MaxRecords
    BY ClearedDocument
  <1>3. counters \in [Nodes -> [Nodes -> Nat]] /\ UNCHANGED counters
    BY DEF CanvasInv, CanvasShapes, ReceiveBarrier
  <1>4. \A k, a \in Nodes : counters'[k][a] >= counters[k][a]
    BY <1>3
  <1>5. CASE StampLess(epoch[m.to], m.epoch) /\ m.from \in managers
    <2>1. records' = [records EXCEPT ![m.to] = cleared] /\ epoch' = [epoch EXCEPT ![m.to] = m.epoch]
      BY <1>5 DEF ReceiveBarrier
    <2> HIDE DEF cleared
    <2>2. /\ EntriesOf(cleared) \subseteq Copies
          /\ \A x \in EntriesOf(cleared) : OfEpoch(m.epoch, x)
          /\ \A x \in EntriesOf(cleared) :
                x.record.stamp.counter <= counters'[m.to][x.record.stamp.actor]
      BY <1>2
    <2>3. canvasNet' \subseteq canvasNet /\ UNCHANGED <<managers, kept, edits, purges>>
      BY DEF ReceiveBarrier
    <2>4. counters' \in [Nodes -> [Nodes -> Nat]]
      BY <1>3
    <2> QED BY <1>1, <1>2, <1>4, <2>1, <2>2, <2>3, <2>4, TakingKeeps
  <1>6. CASE ~(StampLess(epoch[m.to], m.epoch) /\ m.from \in managers)
    <2>1. UNCHANGED <<records, epoch>>
      BY <1>1, <1>6 DEF ReceiveBarrier, CanvasInv, CanvasShapes
    <2>2. canvasNet' \subseteq canvasNet \cup {} /\ {} \in SUBSET CanvasMessage
      BY DEF ReceiveBarrier
    <2> QED BY <2>1, <2>2, SendingKeeps DEF ReceiveBarrier
  <1> QED BY <1>5, <1>6

\* What a merge starts from, and what it makes of it.
LEMMA BaseDocument ==
    ASSUME CanvasInv, NEW m \in Sent, ~Refused(m)
    PROVE  /\ Base(m) \in [Ids -> Record] /\ EntriesOf(Base(m)) \subseteq EntriesOf(records[m.to])
           /\ IsFiniteSet(Held(Base(m))) /\ Cardinality(Held(Base(m))) <= MaxRecords
           /\ \A x \in EntriesOf(Base(m)) : OfEpoch(m.epoch, x)
           /\ \/ StampLess(epoch[m.to], m.epoch)
              \/ epoch[m.to] = m.epoch /\ Base(m) = records[m.to]
  <1>1. m.to \in Nodes /\ m.epoch \in Stamp
    BY CopiesAreEntries DEF CanvasInv
  <1>2. epoch[m.to] \in Stamp /\ records[m.to] \in [Ids -> Record]
    BY <1>1 DEF CanvasInv, CanvasShapes
  <1>3. CASE StampLess(epoch[m.to], m.epoch)
    <2>1. Base(m) = [id \in Ids |-> NoRecord]
      BY <1>3 DEF Base
    <2> QED BY <1>3, <2>1, ClearedDocument
  <1>4. CASE ~StampLess(epoch[m.to], m.epoch)
    <2>1. epoch[m.to] = m.epoch
      BY <1>1, <1>2, <1>4, StampsAreOrdered DEF Refused
    <2>2. Base(m) = records[m.to]
      BY <1>4 DEF Base
    <2> QED BY <1>1, <1>2, <2>1, <2>2 DEF CanvasInv, DocumentsFit, DocumentsAreOfTheirEpoch
  <1> QED BY <1>3, <1>4

LEMMA MergedCounters ==
    ASSUME NEW old \in [Nodes -> Nat], NEW new, NEW taken \in SUBSET Entry, IsFiniteSet(taken),
           \A x \in taken : x.record.stamp.actor \in Nodes,
           new = [a \in Nodes |-> Highest({old[a]} \cup
                     {x.record.stamp.counter : x \in {y \in taken : y.record.stamp.actor = a}})]
    PROVE  /\ new \in [Nodes -> Nat]
           /\ \A a \in Nodes : new[a] >= old[a]
           /\ \A x \in taken : x.record.stamp.counter <= new[x.record.stamp.actor]
  <1> DEFINE Of(a) == {y \in taken : y.record.stamp.actor = a}
             SeenOf(a) == {x.record.stamp.counter : x \in Of(a)}
             All(a) == {old[a]} \cup SeenOf(a)
  <1>1. \A x \in taken : x.record.stamp.counter \in Nat
    BY DEF Entry, Record, Stamp
  <1>2. ASSUME NEW a \in Nodes
        PROVE  /\ Highest(All(a)) \in Nat /\ Highest(All(a)) >= old[a]
               /\ \A x \in Of(a) : x.record.stamp.counter <= Highest(All(a))
    <2>1. IsFiniteSet(Of(a))
      <3>1. Of(a) \in SUBSET taken
        OBVIOUS
      <3> HIDE DEF Of
      <3> QED BY <3>1, FS_Subset
    <2>2. IsFiniteSet(SeenOf(a))
      <3> DEFINE f == [x \in Of(a) |-> x.record.stamp.counter]
      <3>1. \A x \in Of(a) : f[x] = x.record.stamp.counter
        BY Zenon
      <3> HIDE DEF f, Of
      <3>2. SeenOf(a) = {f[x] : x \in Of(a)}
        BY <3>1
      <3> HIDE DEF SeenOf
      <3> QED BY <2>1, <3>2, FiniteImage
    <2>3. All(a) \in SUBSET Nat
      BY <1>1
    <2>4. IsFiniteSet(All(a))
      <3>1. All(a) = SeenOf(a) \cup {old[a]}
        OBVIOUS
      <3> HIDE DEF SeenOf, All
      <3> QED BY <2>2, <3>1, FS_AddElement
    <2>5. old[a] \in All(a) /\ \A x \in Of(a) : x.record.stamp.counter \in All(a)
      OBVIOUS
    <2> HIDE DEF All, Of
    <2>6. Highest(All(a)) \in Nat /\ \A c \in All(a) : c <= Highest(All(a))
      BY <2>3, <2>4, HighestBounds
    <2> QED BY <2>5, <2>6
  <1>3. \A a \in Nodes : new[a] = Highest(All(a))
    OBVIOUS
  <1>4. \A x \in taken : x \in Of(x.record.stamp.actor)
    OBVIOUS
  <1>5. DOMAIN new = Nodes /\ new = [a \in Nodes |-> new[a]]
    OBVIOUS
  <1> HIDE DEF All, Of
  <1>6. new \in [Nodes -> Nat]
    BY <1>2, <1>3, <1>5
  <1>7. \A a \in Nodes : new[a] >= old[a]
    BY <1>2, <1>3
  <1>8. \A x \in taken : x.record.stamp.counter <= new[x.record.stamp.actor]
    BY <1>2, <1>3, <1>4
  <1> QED BY <1>6, <1>7, <1>8

LEMMA MergeKeeps ==
    ASSUME CanvasInv, NEW m \in Sent, NEW rest \in SUBSET canvasNet,
           MergeAtEpoch(m, rest), faults' \in 0 .. MaxFaults,
           UNCHANGED <<managers, kept, edits, purges>>
    PROVE  /\ CanvasInv'
           /\ \A k \in Nodes \ {m.to} : epoch'[k] = epoch[k] /\ records'[k] = records[k]
           /\ \/ StampLess(epoch[m.to], epoch'[m.to])
              \/ /\ epoch'[m.to] = epoch[m.to]
                 /\ \A id \in Ids : StampLeq(records[m.to][id].stamp, records'[m.to][id].stamp)
  <1> DEFINE n == m.to
             base == Base(m)
             newer == Newer(base, m.entries)
             fresh == {x \in newer : base[x.id] = NoRecord}
             Taken(allowed) == allowed \cup (newer \ fresh)
             SeenOf(taken, a) ==
                 {x.record.stamp.counter : x \in {y \in taken : y.record.stamp.actor = a}}
  <1>1. /\ n \in Nodes /\ m.epoch \in Stamp /\ m.entries \in SUBSET Entry
        /\ m.entries \subseteq Copies /\ IsFiniteSet(m.entries)
        /\ \A x \in m.entries : OfEpoch(m.epoch, x)
    BY CopiesAreEntries DEF CanvasInv, PatchesAreFinite, PatchesAreOfTheirEpoch
  <1>2. /\ base \in [Ids -> Record] /\ EntriesOf(base) \subseteq EntriesOf(records[n])
        /\ IsFiniteSet(Held(base)) /\ Cardinality(Held(base)) <= MaxRecords
        /\ \A x \in EntriesOf(base) : OfEpoch(m.epoch, x)
        /\ \/ StampLess(epoch[n], m.epoch)
           \/ epoch[n] = m.epoch /\ base = records[n]
    BY BaseDocument DEF MergeAtEpoch
  <1>3. newer \subseteq m.entries /\ IsFiniteSet(newer) /\ IsFiniteSet(fresh)
    <2>1. newer \in SUBSET m.entries /\ fresh \in SUBSET newer
      BY DEF Newer
    <2> HIDE DEF newer, fresh
    <2>2. IsFiniteSet(newer)
      BY <1>1, <2>1, FS_Subset
    <2> QED BY <2>1, <2>2, FS_Subset
  <1>4. PICK allowed \in SUBSET fresh :
            /\ Cardinality(allowed) = IF Cardinality(fresh) <= Room(base)
                                       THEN Cardinality(fresh) ELSE Room(base)
            /\ records' = [records EXCEPT ![n] = Overlaid(base, Taken(allowed))]
            /\ counters' = [counters EXCEPT ![n] = [a \in Nodes |->
                   Highest({counters[n][a]} \cup SeenOf(Taken(allowed), a))]]
    BY DEF MergeAtEpoch
  <1>5. epoch' = [epoch EXCEPT ![n] = m.epoch] /\ canvasNet' \subseteq canvasNet
    BY DEF MergeAtEpoch
  <1> DEFINE taken == Taken(allowed)
             document == Overlaid(base, taken)
             new == [a \in Nodes |-> Highest({counters[n][a]} \cup SeenOf(taken, a))]
  <1>6. taken \subseteq newer /\ taken \in SUBSET Entry /\ IsFiniteSet(taken)
    <2>1. taken \in SUBSET newer
      OBVIOUS
    <2> HIDE DEF taken, newer
    <2> QED BY <1>1, <1>3, <2>1, FS_Subset
  <1>7. /\ document \in [Ids -> Record]
        /\ EntriesOf(document) \subseteq EntriesOf(base) \cup taken
        /\ Held(document) \subseteq Held(base) \cup {x.id : x \in taken}
        /\ \A id \in Ids : \/ document[id] = base[id]
                           \/ \E x \in taken : x.id = id /\ document[id] = x.record
    <2> HIDE DEF taken, base
    <2> QED BY <1>2, <1>6, OverlaidDocument, OverlaidEntries
  <1>8. IsFiniteSet(Held(document)) /\ Cardinality(Held(document)) <= MaxRecords
    <2> DEFINE ids == {x.id : x \in allowed}
    <2>1. IsFiniteSet(allowed) /\ Cardinality(allowed) \in Nat
      <3> HIDE DEF fresh
      <3> QED BY <1>3, <1>4, FS_Subset, FS_CardinalityType
    <2>2. IsFiniteSet(ids) /\ Cardinality(ids) <= Cardinality(allowed)
      <3> DEFINE f == [x \in allowed |-> x.id]
      <3>1. \A x \in allowed : f[x] = x.id
        BY Zenon
      <3> HIDE DEF f
      <3>2. ids = {f[x] : x \in allowed}
        BY <3>1
      <3> HIDE DEF ids
      <3> QED BY <2>1, <3>2, FiniteImage
    <2>3. \A x \in taken \ allowed : x.id \in Held(base)
      <3>1. \A x \in taken \ allowed : x \in newer /\ x \notin fresh
        OBVIOUS
      <3>2. \A x \in newer : x.id \in Ids
        BY <1>1, <1>3 DEF Entry
      <3> QED BY <3>1, <3>2 DEF Held
    <2>4. Held(document) \in SUBSET (Held(base) \cup ids)
      <3> HIDE DEF document, base, taken
      <3> QED BY <1>7, <2>3
    <2>5. /\ Cardinality(Held(base)) \in Nat /\ Cardinality(ids) \in Nat
          /\ Cardinality(fresh) \in Nat
      <3> HIDE DEF base, ids, fresh
      <3> QED BY <1>2, <1>3, <2>2, FS_CardinalityType
    <2>6. Cardinality(allowed) <= MaxRecords - Cardinality(Held(base))
      <3> HIDE DEF fresh, base
      <3> QED BY <1>4, <2>5 DEF Room
    <2> HIDE DEF document, base, ids, taken
    <2>7. /\ IsFiniteSet(Held(base) \cup ids)
          /\ Cardinality(Held(base) \cup ids) <= Cardinality(Held(base)) + Cardinality(ids)
      <3>1. IsFiniteSet(Held(base) \cap ids) /\ Cardinality(Held(base) \cap ids) \in Nat
        BY <1>2, FS_Intersection, FS_CardinalityType
      <3>2. /\ IsFiniteSet(Held(base) \cup ids)
            /\ Cardinality(Held(base) \cup ids)
                 = Cardinality(Held(base)) + Cardinality(ids) - Cardinality(Held(base) \cap ids)
        BY <1>2, <2>2, FS_Union
      <3> QED BY <2>5, <3>1, <3>2
    <2>8. /\ IsFiniteSet(Held(document))
          /\ Cardinality(Held(document)) <= Cardinality(Held(base) \cup ids)
      BY <2>4, <2>7, FS_Subset
    <2>9. Cardinality(Held(document)) \in Nat /\ Cardinality(Held(base) \cup ids) \in Nat
      BY <2>7, <2>8, FS_CardinalityType
    <2> QED BY <2>1, <2>2, <2>5, <2>6, <2>7, <2>8, <2>9
  <1>9. /\ new \in [Nodes -> Nat]
        /\ \A a \in Nodes : new[a] >= counters[n][a]
        /\ \A x \in taken : x.record.stamp.counter <= new[x.record.stamp.actor]
    <2>1. counters[n] \in [Nodes -> Nat]
      BY <1>1 DEF CanvasInv, CanvasShapes
    <2>2. \A x \in taken : x.record.stamp.actor \in Nodes
      <3> HIDE DEF taken, newer
      <3> QED BY <1>1, <1>3, <1>6 DEF CanvasInv, AuthorLeads
    <2> HIDE DEF taken
    <2> QED BY <1>6, <2>1, <2>2, MergedCounters
  <1>10. /\ counters' \in [Nodes -> [Nodes -> Nat]]
         /\ \A k, a \in Nodes : counters'[k][a] >= counters[k][a]
         /\ counters'[n] = new
    <2> HIDE DEF new
    <2>1. counters' = [counters EXCEPT ![n] = new]
      BY <1>4 DEF new
    <2>2. counters \in [Nodes -> [Nodes -> Nat]]
      BY DEF CanvasInv, CanvasShapes
    <2>3. \A k \in Nodes : counters'[k] = IF k = n THEN new ELSE counters[k]
      BY <2>1, <2>2
    <2>4. \A k, a \in Nodes : counters[k][a] \in Nat
      <3> HIDE CanvasConstants
      <3> QED BY <2>2
    <2>5. counters' \in [Nodes -> [Nodes -> Nat]] /\ counters'[n] = new
      BY <1>1, <1>9, <2>1, <2>2
    <2>6. ASSUME NEW k \in Nodes, NEW a \in Nodes PROVE counters'[k][a] >= counters[k][a]
      <3>1. CASE k = n
        BY <1>9, <2>5, <3>1
      <3>2. CASE k # n
        <4>1. counters'[k] = counters[k] /\ counters[k][a] \in Nat
          BY <2>3, <2>4, <3>2
        <4> QED BY <4>1
      <3> QED BY <3>1, <3>2
    <2> QED BY <2>5, <2>6
  <1> HIDE DEF n, base, newer, fresh, Taken, taken, document, new
  <1>11. EntriesOf(document) \subseteq Copies
    <2>1. EntriesOf(records[n]) \subseteq Copies
      BY <1>1, CopiesAreEntries DEF CanvasInv
    <2> QED BY <1>1, <1>2, <1>3, <1>6, <1>7, <2>1
  <1>12. \A x \in EntriesOf(document) : OfEpoch(m.epoch, x)
    BY <1>1, <1>2, <1>3, <1>6, <1>7
  <1>13. \A x \in EntriesOf(document) :
            x.record.stamp.counter <= counters'[n][x.record.stamp.actor]
    <2>1. \A x \in EntriesOf(base) : x.record.stamp.counter <= counters'[n][x.record.stamp.actor]
      BY <1>1, <1>2, <1>10, StillKnown
    <2> QED BY <1>7, <1>9, <1>10, <2>1
  <1>14. records' = [records EXCEPT ![n] = document]
    BY <1>4 DEF document, taken
  <1>15. CanvasInv'
    BY <1>1, <1>5, <1>7, <1>8, <1>10, <1>11, <1>12, <1>13, <1>14, TakingKeeps
  <1>16. /\ epoch'[n] = m.epoch /\ records'[n] = document
         /\ \A k \in Nodes \ {n} : epoch'[k] = epoch[k] /\ records'[k] = records[k]
    BY <1>1, <1>5, <1>14 DEF CanvasInv, CanvasShapes
  <1>17. \A id \in Ids : StampLeq(base[id].stamp, document[id].stamp)
    <2>1. \A x \in taken : StampLess(base[x.id].stamp, x.record.stamp)
      BY <1>6 DEF newer, Newer
    <2> QED BY <1>7, <2>1 DEF StampLeq
  <1> QED BY <1>2, <1>15, <1>16, <1>17 DEF n

LEMMA ApplyLocalKeeps ==
    ASSUME CanvasInv, NEW n \in Nodes, NEW batch \in Batches, ApplyLocal(n, batch)
    PROVE  /\ CanvasInv' /\ UNCHANGED epoch
           /\ \A k \in Nodes \ {n} : records'[k] = records[k]
           /\ \A id \in Ids : StampLeq(records[n][id].stamp, records'[n][id].stamp)
  <1> DEFINE I == DOMAIN batch
             E(i) == [id |-> batch[i].id, record |-> Written(n, batch, i)]
             entries == {E(i) : i \in I}
             document == Overlaid(records[n], entries)
             messages == UNION {Patches(n, m, epoch[n], entries) : m \in Nodes \ {n}}
             base == Observed(n)
  <1>1. /\ epoch[n] \in Stamp /\ records[n] \in [Ids -> Record]
        /\ counters \in [Nodes -> [Nodes -> Nat]]
    BY DEF CanvasInv, CanvasShapes
  <1>2. /\ base \in Nat /\ \A a \in Nodes : counters[n][a] <= base
        /\ epoch[n].counter <= base
    <2> DEFINE seen == {counters[n][a] : a \in Nodes}
    <2>1. seen \cup {epoch[n].counter} \in SUBSET Nat
      BY <1>1 DEF Stamp
    <2>2. IsFiniteSet(seen)
      <3> HIDE CanvasConstants
      <3> QED BY CountersAreFinite
    <2>3. base = Highest(seen \cup {epoch[n].counter})
      BY DEF Observed
    <2>4. \A a \in Nodes : counters[n][a] \in seen
      OBVIOUS
    <2> HIDE DEF seen, base
    <2>5. IsFiniteSet(seen \cup {epoch[n].counter})
      BY <2>2, FS_AddElement
    <2>6. base \in Nat /\ \A c \in seen \cup {epoch[n].counter} : c <= base
      BY <2>1, <2>3, <2>5, HighestBounds
    <2> QED BY <2>4, <2>6
  <1>3. /\ IsFiniteSet(I) /\ I = 1 .. Cardinality(I) /\ Cardinality(I) \in Nat
        /\ \A i \in I : batch[i] \in Mutation /\ i \in Nat \ {0} /\ i <= Cardinality(I)
    <2>1. IsFiniteSet(I) /\ I = 1 .. Cardinality(I) /\ \A i \in I : batch[i] \in Mutation
      BY CanvasBatches
    <2> HIDE DEF I
    <2>2. Cardinality(I) \in Nat
      BY <2>1, FS_CardinalityType
    <2> QED BY <2>1, <2>2
  <1> HIDE DEF base, I
  <1>4. \A i \in I : /\ E(i) \in Entry
                     /\ E(i).record.stamp = [counter |-> base + i, actor |-> n]
                     /\ E(i).record.born = epoch[n]
    <2>1. SUFFICES ASSUME NEW i \in I
                   PROVE  /\ E(i) \in Entry
                          /\ E(i).record.stamp = [counter |-> base + i, actor |-> n]
                          /\ E(i).record.born = epoch[n]
      OBVIOUS
    <2>2. batch[i].id \in Ids /\ batch[i].deleted \in BOOLEAN
      BY <1>3 DEF Mutation
    <2>3. Written(n, batch, i) = [stamp |-> [counter |-> base + i, actor |-> n],
                                  deleted |-> batch[i].deleted, born |-> epoch[n]]
      BY DEF Written, base
    <2>4. base + i \in Nat /\ n \in Nat
      <3>1. base \in Nat /\ i \in Nat
        BY <1>2, <1>3
      <3> QED BY <3>1
    <2>5. Written(n, batch, i) \in Record
      BY <1>1, <2>2, <2>3, <2>4 DEF Record, Stamp
    <2> QED BY <2>2, <2>3, <2>5 DEF Entry
  <1> HIDE DEF E
  <1>5. entries \in SUBSET Entry /\ IsFiniteSet(entries)
    <2>1. entries \in SUBSET Entry
      <3>1. \A x \in entries : \E i \in I : x = E(i)
        OBVIOUS
      <3> HIDE DEF entries
      <3>2. ASSUME NEW x \in entries PROVE x \in Entry
        <4>1. PICK i \in I : x = E(i)
          BY <3>1
        <4> QED BY <1>4, <4>1
      <3> QED BY <3>2
    <2> DEFINE f == [i \in I |-> E(i)]
    <2>2. \A i \in I : f[i] = E(i)
      BY Zenon
    <2> HIDE DEF f
    <2>3. entries = {f[i] : i \in I}
      BY <2>2
    <2> HIDE DEF entries
    <2> QED BY <1>3, <2>1, <2>3, FiniteImage
  <1>6. \A x \in entries : \E i \in I : x.record.stamp = [counter |-> base + i, actor |-> n]
                                        /\ x = E(i) /\ x.record.born = epoch[n]
    BY <1>4
  <1>7. /\ records' = [records EXCEPT ![n] = document]
        /\ counters' = [counters EXCEPT ![n][n] = base + Cardinality(I)]
        /\ Cardinality(Held(records[n]) \cup {x.id : x \in entries}) <= MaxRecords
        /\ edits < MaxEdits /\ edits' = edits + 1
        /\ Post(canvasNet, messages)
        /\ UNCHANGED <<managers, epoch, kept, purges, faults>>
    BY DEF ApplyLocal, E, I, base
  <1> HIDE DEF entries
  <1>8. /\ document \in [Ids -> Record]
        /\ EntriesOf(document) \subseteq EntriesOf(records[n]) \cup entries
        /\ Held(document) \subseteq Held(records[n]) \cup {x.id : x \in entries}
        /\ \A id \in Ids : \/ document[id] = records[n][id]
                           \/ \E x \in entries : x.id = id /\ document[id] = x.record
    BY <1>1, <1>5, OverlaidDocument, OverlaidEntries
  <1>9. \A k, a \in Nodes :
            counters'[k][a] = IF k = n /\ a = n THEN base + Cardinality(I) ELSE counters[k][a]
    BY <1>1, <1>7
  <1>10. counters' \in [Nodes -> [Nodes -> Nat]]
    BY <1>1, <1>2, <1>3, <1>7
  <1>11. \A k, a \in Nodes : counters[k][a] \in Nat /\ counters'[k][a] >= counters[k][a]
    <2>1. SUFFICES ASSUME NEW k \in Nodes, NEW a \in Nodes
                   PROVE  counters[k][a] \in Nat /\ counters'[k][a] >= counters[k][a]
      OBVIOUS
    <2>2. PICK old \in Nat : old = counters[k][a]
      <3>1. counters[k] \in [Nodes -> Nat]
        BY <1>1, <2>1
      <3> QED BY <2>1, <3>1
    <2>3. CASE k = n /\ a = n
      <3>1. old <= base /\ counters'[k][a] = base + Cardinality(I)
        BY <1>2, <1>9, <2>1, <2>2, <2>3
      <3> QED BY <1>2, <1>3, <2>2, <3>1
    <2>4. CASE ~(k = n /\ a = n)
      BY <1>9, <2>1, <2>2, <2>4
    <2> QED BY <2>3, <2>4
  <1>12. OwnWrites(n, entries)
    <2>1. ASSUME NEW x \in entries
          PROVE  /\ x.record.stamp.actor = n
                 /\ x.record.stamp.counter > counters[n][n]
                 /\ x.record.stamp.counter <= counters'[n][n]
      <3>1. PICK i \in I : x.record.stamp = [counter |-> base + i, actor |-> n]
        BY <1>6
      <3>2. x.record.stamp.actor = n /\ x.record.stamp.counter = base + i
        BY <3>1
      <3>3. counters[n][n] \in Nat /\ counters[n][n] <= base /\ i \in Nat \ {0}
        BY <1>2, <1>3, <1>11
      <3>4. counters'[n][n] = base + Cardinality(I) /\ i <= Cardinality(I)
        BY <1>3, <1>9
      <3> QED BY <1>2, <1>3, <3>2, <3>3, <3>4
    <2>2. ASSUME NEW x \in entries, NEW y \in entries, x.record.stamp = y.record.stamp
          PROVE  x = y
      <3>1. PICK i \in I : x.record.stamp = [counter |-> base + i, actor |-> n] /\ x = E(i)
        BY <1>6
      <3>2. PICK j \in I : y.record.stamp = [counter |-> base + j, actor |-> n] /\ y = E(j)
        BY <1>6
      <3>3. x.record.stamp.counter = base + i /\ y.record.stamp.counter = base + j
        BY <3>1, <3>2
      <3>4. base + i = base + j /\ i \in Nat /\ j \in Nat
        BY <1>3, <2>2, <3>3
      <3>5. i = j
        BY <1>2, <3>4
      <3> QED BY <3>1, <3>2, <3>5
    <2> QED BY <2>1, <2>2 DEF OwnWrites
  <1>13. \A x \in EntriesOf(document) : OfEpochBy(kept', epoch[n], x)
    <2>1. \A x \in EntriesOf(records[n]) : OfEpoch(epoch[n], x)
      BY DEF CanvasInv, DocumentsAreOfTheirEpoch
    <2>2. \A x \in entries : x.record.born = epoch[n]
      BY <1>6
    <2> QED BY <1>7, <1>8, <2>1, <2>2 DEF OfEpoch, OfEpochBy
  <1>14. IsFiniteSet(Held(document)) /\ Cardinality(Held(document)) <= MaxRecords
    <2> DEFINE ids == {x.id : x \in entries}
               f == [x \in entries |-> x.id]
    <2>1. \A x \in entries : f[x] = x.id
      BY Zenon
    <2> HIDE DEF f
    <2>2. ids = {f[x] : x \in entries}
      BY <2>1
    <2>3. Cardinality(Held(records[n]) \cup ids) <= MaxRecords
      BY <1>7
    <2>4. Held(document) \in SUBSET (Held(records[n]) \cup ids)
      BY <1>8
    <2> HIDE DEF ids
    <2>5. IsFiniteSet(ids) /\ IsFiniteSet(Held(records[n]))
      BY <1>5, <2>2, FiniteImage DEF CanvasInv, DocumentsFit
    <2>6. IsFiniteSet(Held(records[n]) \cup ids)
      BY <2>5, FS_Union
    <2> HIDE DEF document
    <2>7. /\ IsFiniteSet(Held(document))
          /\ Cardinality(Held(document)) <= Cardinality(Held(records[n]) \cup ids)
      BY <2>4, <2>6, FS_Subset
    <2>8. Cardinality(Held(document)) \in Nat /\ Cardinality(Held(records[n]) \cup ids) \in Nat
      BY <2>6, <2>7, FS_CardinalityType
    <2> QED BY <2>3, <2>7, <2>8
  <1> HIDE DEF document
  <1>15. \A x \in EntriesOf(document) :
            x.record.stamp.counter <= counters'[n][x.record.stamp.actor]
    <2>1. \A x \in EntriesOf(records[n]) :
              x.record.stamp.counter <= counters'[n][x.record.stamp.actor]
      BY <1>10, <1>11, StillKnown
    <2> QED BY <1>8, <1>12, <2>1 DEF OwnWrites
  <1>16. /\ messages \in SUBSET CanvasMessage
         /\ \A m \in messages : m.kind = "patch" =>
               /\ m.entries \subseteq Copies \cup entries /\ IsFiniteSet(m.entries)
               /\ \A x \in m.entries : OfEpochBy(kept', m.epoch, x)
    <2>1. \A x \in entries : OfEpochBy(kept', epoch[n], x)
      BY <1>6, <1>7 DEF OfEpoch, OfEpochBy
    <2>2. ASSUME NEW msg \in messages
          PROVE  msg \in CanvasMessage /\ msg.entries = entries /\ msg.epoch = epoch[n]
      <3>1. PICK m \in Nodes : msg \in Patches(n, m, epoch[n], entries)
        OBVIOUS
      <3>2. PICK e \in Stamp : e = epoch[n]
        BY <1>1
      <3> QED BY <1>5, <3>1, <3>2, PatchesAreMessages
    <2> HIDE DEF messages
    <2> QED BY <1>5, <2>1, <2>2
  <1>17. canvasNet' \subseteq canvasNet \cup messages
    BY <1>7, PostAdds
  <1>18. EntriesOf(document) \subseteq Copies \cup entries
    BY <1>8, CopiesAreEntries DEF CanvasInv
  <1>19. /\ edits' \in 0 .. MaxEdits /\ purges' \in 0 .. MaxPurges /\ faults' \in 0 .. MaxFaults
         /\ kept' \subseteq [epoch : Stamp, id : Ids, stamp : Stamp] /\ kept \subseteq kept'
         /\ UNCHANGED managers
    BY <1>7 DEF CanvasInv, CanvasShapes
  <1>20. epoch' = [epoch EXCEPT ![n] = epoch[n]]
    BY <1>7 DEF CanvasInv, CanvasShapes
  <1> HIDE DEF messages
  <1>21. CanvasInv'
    <2>1. PICK d \in [Ids -> Record] : d = document
      BY <1>8
    <2>2. PICK e \in Stamp : e = epoch[n]
      BY <1>1
    <2>3. PICK written \in SUBSET Entry : written = entries
      BY <1>5
    <2>4. PICK sent \in SUBSET CanvasMessage : sent = messages
      BY <1>16
    <2>5. /\ records' = [records EXCEPT ![n] = d] /\ epoch' = [epoch EXCEPT ![n] = e]
          /\ IsFiniteSet(Held(d)) /\ Cardinality(Held(d)) <= MaxRecords
          /\ EntriesOf(d) \subseteq Copies \cup written
          /\ \A x \in EntriesOf(d) : OfEpochBy(kept', e, x)
          /\ \A x \in EntriesOf(d) : x.record.stamp.counter <= counters'[n][x.record.stamp.actor]
      BY <1>7, <1>13, <1>14, <1>15, <1>18, <1>20, <2>1, <2>2, <2>3
    <2>6. OwnWrites(n, written)
      BY <1>12, <2>3
    <2>7. /\ canvasNet' \subseteq canvasNet \cup sent
          /\ \A m \in sent : m.kind = "patch" =>
               /\ m.entries \subseteq Copies \cup written /\ IsFiniteSet(m.entries)
               /\ \A x \in m.entries : OfEpochBy(kept', m.epoch, x)
      BY <1>16, <1>17, <2>3, <2>4
    <2>8. \A k, a \in Nodes : counters'[k][a] >= counters[k][a]
      BY <1>11
    <2> QED BY ZenonT(60), <1>10, <1>19, <2>5, <2>6, <2>7, <2>8, ChangingKeeps
  <1>22. /\ records'[n] = document
         /\ \A k \in Nodes \ {n} : records'[k] = records[k]
    BY <1>7 DEF CanvasInv, CanvasShapes
  <1>23. ASSUME NEW id \in Ids, NEW x \in entries, document[id] = x.record
         PROVE  StampLess(records[n][id].stamp, document[id].stamp)
    <2>1. PICK i \in I : x.record.stamp = [counter |-> base + i, actor |-> n]
      BY <1>6
    <2>2. x.record.stamp.counter = base + i
      BY <2>1
    <2>3. records[n][id].stamp.counter \in Nat /\ records[n][id].stamp.counter <= base
      <3>1. records[n][id] \in Record
        BY <1>1
      <3>2. CASE records[n][id] = NoRecord
        BY <1>2, <3>2 DEF NoRecord, ZeroStamp
      <3>3. CASE records[n][id] # NoRecord
        <4> DEFINE y == [id |-> id, record |-> records[n][id]]
        <4>1. y \in EntriesOf(records[n]) /\ y.record = records[n][id]
          BY <3>3 DEF EntriesOf, Held
        <4>2. y \in Copies
          BY <4>1, CopiesAreEntries DEF CanvasInv
        <4>3. /\ y.record.stamp.actor \in Nodes
              /\ y.record.stamp.counter <= counters[n][y.record.stamp.actor]
          BY <4>1, <4>2 DEF CanvasInv, AuthorLeads, ReaderKnows
        <4> HIDE DEF y
        <4>4. PICK a \in Nodes : a = records[n][id].stamp.actor
          BY <4>1, <4>3
        <4>5. PICK c \in Nat : c = records[n][id].stamp.counter
          BY <3>1 DEF Record, Stamp
        <4>6. c <= counters[n][a]
          BY <4>1, <4>3, <4>4, <4>5
        <4>7. counters[n][a] <= base /\ counters[n][a] \in Nat
          BY <1>2, <1>11
        <4> QED BY <1>2, <4>5, <4>6, <4>7
      <3> QED BY <3>2, <3>3
    <2>4. i \in Nat \ {0}
      BY <1>3
    <2> QED BY <1>2, <1>23, <2>2, <2>3, <2>4 DEF StampLess
  <1>24. \A id \in Ids : StampLeq(records[n][id].stamp, document[id].stamp)
    BY <1>8, <1>23 DEF StampLeq
  <1> QED BY <1>7, <1>21, <1>22, <1>24

LEMMA PurgeKeeps ==
    ASSUME CanvasInv, NEW n \in Nodes, PurgeTombstones(n)
    PROVE  /\ CanvasInv'
           /\ StampLess(epoch[n], epoch'[n])
           /\ \A k \in Nodes \ {n} : epoch'[k] = epoch[k] /\ records'[k] = records[k]
  <1> DEFINE e0 == NextEpoch(n)
             living == Living(records[n])
             Messages(e) ==
                 UNION {{Barrier(n, m, e)} \cup Patches(n, m, e, EntriesOf(living)) : m \in Nodes \ {n}}
             purged == {[epoch |-> e0, id |-> id, stamp |-> living[id].stamp] : id \in Held(living)}
  <1>1. /\ epoch[n] \in Stamp /\ records[n] \in [Ids -> Record]
        /\ counters \in [Nodes -> [Nodes -> Nat]] /\ counters[n][n] \in Nat
        /\ epoch \in [Nodes -> Stamp] /\ records \in [Nodes -> [Ids -> Record]]
    BY DEF CanvasInv, CanvasShapes
  <1>2. /\ e0 \in Stamp /\ e0.counter > epoch[n].counter /\ e0.counter >= counters[n][n]
    <2> DEFINE seen == {epoch[n].counter, counters[n][n]}
    <2>1. seen \in SUBSET Nat /\ IsFiniteSet(seen)
      <3>1. seen \in SUBSET Nat
        BY <1>1 DEF Stamp
      <3>2. seen = {epoch[n].counter} \cup {counters[n][n]}
        OBVIOUS
      <3> HIDE DEF seen
      <3> QED BY <3>1, <3>2, FS_Singleton, FS_Union
    <2>2. epoch[n].counter \in seen /\ counters[n][n] \in seen /\ n \in Nat
      OBVIOUS
    <2>3. e0.counter = Highest(seen) + 1 /\ e0 = [counter |-> Highest(seen) + 1, actor |-> n]
      BY DEF NextEpoch
    <2> HIDE DEF seen, e0
    <2>4. Highest(seen) \in Nat /\ \A c \in seen : c <= Highest(seen)
      BY <2>1, HighestBounds
    <2>5. epoch[n].counter \in Nat
      BY <1>1 DEF Stamp
    <2> QED BY <1>1, <2>2, <2>3, <2>4, <2>5 DEF Stamp
  <1>3. /\ living \in [Ids -> Record] /\ EntriesOf(living) \subseteq EntriesOf(records[n])
        /\ IsFiniteSet(Held(living)) /\ Cardinality(Held(living)) <= MaxRecords
    <2> HIDE DEF living
    <2>1. IsFiniteSet(Held(records[n])) /\ Cardinality(Held(records[n])) <= MaxRecords
      BY DEF CanvasInv, DocumentsFit
    <2>2. /\ living \in [Ids -> Record] /\ EntriesOf(living) \subseteq EntriesOf(records[n])
          /\ IsFiniteSet(Held(living)) /\ Cardinality(Held(living)) <= Cardinality(Held(records[n]))
      BY <1>1, <2>1, LivingDocument DEF living
    <2>3. Cardinality(Held(living)) \in Nat /\ Cardinality(Held(records[n])) \in Nat
      BY <2>1, <2>2, FS_CardinalityType
    <2> QED BY <2>1, <2>2, <2>3
  <1>4. /\ epoch' = [epoch EXCEPT ![n] = e0]
        /\ counters' = [counters EXCEPT ![n][n] = e0.counter]
        /\ records' = [records EXCEPT ![n] = living]
        /\ kept' = kept \cup purged
        /\ Post(canvasNet, Messages(e0))
        /\ purges < MaxPurges /\ purges' = purges + 1
        /\ UNCHANGED <<managers, edits, faults>>
    BY DEF PurgeTombstones
  <1> HIDE DEF e0, living
  <1>5. PICK e \in Stamp : e = e0
    BY <1>2
  <1>6. \A k, a \in Nodes :
            counters'[k][a] = IF k = n /\ a = n THEN e0.counter ELSE counters[k][a]
    BY <1>1, <1>4
  <1>7. counters' \in [Nodes -> [Nodes -> Nat]]
    BY <1>1, <1>2, <1>4 DEF Stamp
  <1>8. \A k, a \in Nodes : counters'[k][a] >= counters[k][a]
    <2>1. \A k, a \in Nodes : counters[k][a] \in Nat
      BY <1>1
    <2> QED BY <1>2, <1>6, <2>1 DEF Stamp
  <1>9. \A x \in EntriesOf(living) : x.record.stamp.counter <= counters'[n][x.record.stamp.actor]
    BY <1>3, <1>7, <1>8, StillKnown
  <1>10. \A x \in EntriesOf(living) : OfEpochBy(kept', e, x)
    <2>1. ASSUME NEW x \in EntriesOf(living)
          PROVE  [epoch |-> e, id |-> x.id, stamp |-> x.record.stamp] \in purged
      <3>1. PICK id \in Held(living) : x = [id |-> id, record |-> living[id]]
        BY DEF EntriesOf
      <3>2. x.id = id /\ x.record.stamp = living[id].stamp
        BY <3>1
      <3> QED BY <1>5, <3>1, <3>2
    <2> HIDE DEF purged
    <2> QED BY <1>4, <2>1 DEF OfEpochBy
  <1>11. kept' \subseteq [epoch : Stamp, id : Ids, stamp : Stamp] /\ kept \subseteq kept'
    <2>1. \A id \in Held(living) : id \in Ids /\ living[id].stamp \in Stamp
      BY <1>3 DEF Held, Record
    <2>2. purged \subseteq [epoch : Stamp, id : Ids, stamp : Stamp]
      BY <1>2, <2>1
    <2> HIDE DEF purged
    <2> QED BY <1>4, <2>2 DEF CanvasInv, CanvasShapes
  <1> DEFINE entries == EntriesOf(living)
  <1>12. entries \in SUBSET Entry /\ entries \subseteq Copies /\ IsFiniteSet(entries)
    BY <1>3, CopiesAreEntries, EntriesAreEntries, EntriesAreFinite DEF CanvasInv
  <1> HIDE DEF entries
  <1> DEFINE none == {}
  <1>13. /\ Messages(e) \in SUBSET CanvasMessage
         /\ \A m \in Messages(e) : m.kind = "patch" => m.entries = entries /\ m.epoch = e
    <2>1. ASSUME NEW msg \in Messages(e)
          PROVE  /\ msg \in CanvasMessage
                 /\ msg.kind = "patch" => msg.entries = entries /\ msg.epoch = e
      <3>1. PICK m \in Nodes : msg \in {Barrier(n, m, e)} \cup Patches(n, m, e, entries)
        BY DEF entries
      <3>2. CASE msg = Barrier(n, m, e)
        BY <3>2, BarrierIsMessage
      <3>3. CASE msg \in Patches(n, m, e, entries)
        BY <1>12, <3>3, PatchesAreMessages
      <3> QED BY <3>1, <3>2, <3>3
    <2> HIDE DEF Messages
    <2> QED BY <2>1
  <1> HIDE DEF Messages
  <1>14. canvasNet' \subseteq canvasNet \cup Messages(e)
    BY <1>4, <1>5, PostAdds
  <1>15. CanvasInv'
    <2>1. PICK d \in [Ids -> Record] : d = living
      BY <1>3
    <2>2. PICK sent \in SUBSET CanvasMessage : sent = Messages(e)
      BY <1>13
    <2>3. /\ records' = [records EXCEPT ![n] = d] /\ epoch' = [epoch EXCEPT ![n] = e]
          /\ IsFiniteSet(Held(d)) /\ Cardinality(Held(d)) <= MaxRecords
          /\ \A x \in EntriesOf(d) : OfEpochBy(kept', e, x)
          /\ \A x \in EntriesOf(d) : x.record.stamp.counter <= counters'[n][x.record.stamp.actor]
      BY <1>3, <1>4, <1>5, <1>9, <1>10, <2>1
    <2>4. none \in SUBSET Entry /\ OwnWrites(n, none)
      BY DEF OwnWrites
    <2> HIDE DEF none
    <2>5. EntriesOf(d) \subseteq Copies \cup none
      BY <1>12, <2>1 DEF entries
    <2>6. /\ canvasNet' \subseteq canvasNet \cup sent
          /\ \A m \in sent : m.kind = "patch" =>
               /\ m.entries \subseteq Copies \cup none /\ IsFiniteSet(m.entries)
               /\ \A x \in m.entries : OfEpochBy(kept', m.epoch, x)
      BY <1>10, <1>12, <1>13, <1>14, <2>2 DEF entries
    <2>7. edits' \in 0 .. MaxEdits /\ purges' \in 0 .. MaxPurges /\ faults' \in 0 .. MaxFaults
      BY <1>4 DEF CanvasInv, CanvasShapes
    <2>8. UNCHANGED managers
      BY <1>4
    <2> QED BY ZenonT(60), <1>7, <1>8, <1>11, <2>3, <2>4, <2>5, <2>6, <2>7, <2>8, ChangingKeeps
  <1>16. /\ epoch'[n] = e0
         /\ \A k \in Nodes \ {n} : epoch'[k] = epoch[k] /\ records'[k] = records[k]
    BY <1>1, <1>4
  <1> QED BY <1>2, <1>15, <1>16 DEF StampLess

-----------------------------------------------------------------------------
(* The theorems of the canvas.                                             *)

\* What a device shows does not go back in a step.
NeverGoesBack(n) ==
    \/ StampLess(epoch[n], epoch'[n])
    \/ /\ epoch'[n] = epoch[n]
       /\ \A id \in Ids : StampLeq(records[n][id].stamp, records'[n][id].stamp)

LEMMA UnchangedDocument ==
    ASSUME NEW n \in Nodes, epoch'[n] = epoch[n], records'[n] = records[n]
    PROVE  NeverGoesBack(n)
  BY DEF NeverGoesBack, StampLeq

LEMMA ReceiveKeeps ==
    ASSUME CanvasInv, NEW m \in canvasNet, NEW rest \in SUBSET canvasNet,
           Receive(m, rest), faults' \in 0 .. MaxFaults
    PROVE  CanvasInv' /\ \A n \in Nodes : NeverGoesBack(n)
  <1>0. m.to \in Nodes
    BY DEF CanvasInv, CanvasShapes, CanvasMessage
  <1>1. CASE ReceivePatch(m, rest)
    <2>1. CASE MergeAtEpoch(m, rest)
      <3>1. m \in Sent /\ UNCHANGED <<managers, kept, edits, purges>>
        BY <1>1 DEF ReceivePatch, Sent
      <3> QED BY <2>1, <3>1, MergeKeeps, UnchangedDocument DEF NeverGoesBack
    <2>2. CASE Refused(m) /\ canvasNet' = rest /\ UNCHANGED <<epoch, records, counters>>
      <3>1. canvasNet' \subseteq canvasNet \cup {} /\ {} \in SUBSET CanvasMessage
        BY <2>2
      <3>2. CanvasInv'
        BY <1>1, <2>2, <3>1, SendingKeeps DEF ReceivePatch
      <3> QED BY <2>2, <3>2, UnchangedDocument
    <2> QED BY <1>1, <2>1, <2>2 DEF ReceivePatch
  <1>2. CASE ReceiveBarrier(m, rest)
    <2>1. CanvasInv'
      BY <1>2, ReceiveBarrierKeeps
    <2>2. \A n \in Nodes : NeverGoesBack(n)
      <3>1. \A n \in Nodes \ {m.to} : epoch'[n] = epoch[n] /\ records'[n] = records[n]
        BY <1>2 DEF ReceiveBarrier, CanvasInv, CanvasShapes
      <3>2. \/ StampLess(epoch[m.to], epoch'[m.to])
            \/ epoch'[m.to] = epoch[m.to] /\ records'[m.to] = records[m.to]
        BY <1>0, <1>2 DEF ReceiveBarrier, CanvasInv, CanvasShapes
      <3> QED BY <3>1, <3>2, UnchangedDocument DEF NeverGoesBack
    <2> QED BY <2>1, <2>2
  <1>3. CASE ReceiveDigest(m, rest)
    BY <1>3, ReceiveDigestKeeps, UnchangedDocument DEF ReceiveDigest
  <1> QED BY <1>1, <1>2, <1>3 DEF Receive

LEMMA CanvasStepKeeps ==
    ASSUME CanvasInv, [CanvasNext]_canvasVars
    PROVE  CanvasInv' /\ \A n \in Nodes : NeverGoesBack(n)
  <1>1. ASSUME NEW n \in Nodes, NEW batch \in Batches, ApplyLocal(n, batch)
        PROVE  CanvasInv' /\ \A k \in Nodes : NeverGoesBack(k)
    BY <1>1, ApplyLocalKeeps, UnchangedDocument DEF NeverGoesBack
  <1>2. ASSUME NEW n \in Nodes, PurgeTombstones(n)
        PROVE  CanvasInv' /\ \A k \in Nodes : NeverGoesBack(k)
    BY <1>2, PurgeKeeps, UnchangedDocument DEF NeverGoesBack
  <1>3. ASSUME NEW n \in Nodes, NEW m \in Nodes,
               PresenceOfNewBoot(n, m) \/ PresenceOfKnown(n, m)
        PROVE  CanvasInv' /\ \A k \in Nodes : NeverGoesBack(k)
    <2>1. UNCHANGED <<epoch, records>>
      BY <1>3 DEF PresenceOfNewBoot, PresenceOfKnown
    <2> QED BY <1>3, <2>1, PresenceKeeps, UnchangedDocument
  <1>4. ASSUME NEW n \in Nodes, NEW m \in Nodes, Deliver(n, m)
        PROVE  CanvasInv' /\ \A k \in Nodes : NeverGoesBack(k)
    <2>1. PICK msg \in canvasNet : Receive(msg, canvasNet \ {msg})
      BY <1>4 DEF Deliver, OnLink
    <2>2. faults' \in 0 .. MaxFaults /\ canvasNet \ {msg} \in SUBSET canvasNet
      BY <1>4 DEF Deliver, CanvasInv, CanvasShapes
    <2> QED BY <2>1, <2>2, ReceiveKeeps
  <1>5. CASE DeliverTwice
    <2>1. PICK msg \in canvasNet : Receive(msg, canvasNet)
      BY <1>5 DEF DeliverTwice
    <2>2. faults' \in 0 .. MaxFaults
      BY <1>5 DEF DeliverTwice, CanvasInv, CanvasShapes
    <2> QED BY <2>1, <2>2, ReceiveKeeps
  <1>6. CASE Lose
    BY <1>6, LoseKeeps, UnchangedDocument DEF Lose
  <1>7. CASE UNCHANGED canvasVars
    <2>1. /\ UNCHANGED <<managers, epoch, records, counters, kept, edits, purges>>
          /\ canvasNet' \subseteq canvasNet \cup {} /\ {} \in SUBSET CanvasMessage
          /\ faults' \in 0 .. MaxFaults
      BY <1>7 DEF canvasVars, CanvasInv, CanvasShapes
    <2> QED BY <2>1, SendingKeeps, UnchangedDocument
  <1> QED BY <1>1, <1>2, <1>3, <1>4, <1>5, <1>6, <1>7 DEF CanvasNext

LEMMA CanvasInitHolds == CanvasInit => CanvasInv
  <1> SUFFICES ASSUME CanvasInit PROVE CanvasInv
    OBVIOUS
  <1> DEFINE cleared == [id \in Ids |-> NoRecord]
  <1>1. /\ cleared \in [Ids -> Record] /\ EntriesOf(cleared) = {}
        /\ IsFiniteSet(Held(cleared)) /\ Cardinality(Held(cleared)) = 0
    BY ClearedDocument
  <1>2. records = [n \in Nodes |-> cleared]
    BY DEF CanvasInit
  <1> HIDE DEF cleared
  <1>3. CanvasShapes
    BY <1>1, <1>2, NoRecordIsRecord DEF CanvasInit, CanvasShapes
  <1>4. \A n \in Nodes : /\ EntriesOf(records[n]) = {}
                         /\ IsFiniteSet(Held(records[n])) /\ Cardinality(Held(records[n])) = 0
    BY <1>1, <1>2
  <1>5. Sent = {} /\ DocumentsFit
    BY <1>4 DEF CanvasInit, Sent, DocumentsFit
  <1>6. Copies = {}
    BY <1>4, <1>5 DEF Copies
  <1> QED BY <1>3, <1>4, <1>5, <1>6 DEF CanvasInv, PatchesAreFinite, StampNamesOneRecord,
             AuthorLeads, ReaderKnows, PatchesAreOfTheirEpoch, DocumentsAreOfTheirEpoch

LEMMA CanvasInvHolds == CanvasSpec => []CanvasInv
  BY CanvasInitHolds, CanvasStepKeeps, PTL DEF CanvasSpec

\* Every variable holds what its type says, and no document outgrows MAX_RECORDS.
THEOREM CanvasTypeHolds == CanvasSpec => []CanvasTypeOK
  <1>1. CanvasInv => CanvasTypeOK
    BY DEF CanvasInv, CanvasShapes, DocumentsFit, CanvasTypeOK
  <1> QED BY <1>1, CanvasInvHolds, PTL

\* Two copies with one stamp are the same record, in whatever documents or patches.
THEOREM StampsNameOneRecord == CanvasSpec => []StampNamesOneRecord
  <1>1. CanvasInv => StampNamesOneRecord
    BY DEF CanvasInv
  <1> QED BY <1>1, CanvasInvHolds, PTL

\* No document holds a record from before the purge that opened its epoch.
THEOREM PurgesStand == CanvasSpec => []NothingFromBeforeThePurge
  <1>1. CanvasInv => NothingFromBeforeThePurge
    <2>1. SUFFICES ASSUME CanvasInv, NEW n \in Nodes, NEW id \in Held(records[n])
                   PROVE  \/ records[n][id].born = epoch[n]
                          \/ [epoch |-> epoch[n], id |-> id, stamp |-> records[n][id].stamp] \in kept
      BY DEF NothingFromBeforeThePurge
    <2> DEFINE x == [id |-> id, record |-> records[n][id]]
    <2>2. x \in EntriesOf(records[n]) /\ x.id = id /\ x.record = records[n][id]
      BY DEF EntriesOf
    <2>3. OfEpoch(epoch[n], x)
      BY <2>1, <2>2 DEF CanvasInv, DocumentsAreOfTheirEpoch
    <2> HIDE DEF x
    <2> QED BY <2>2, <2>3 DEF OfEpoch, OfEpochBy
  <1> QED BY <1>1, CanvasInvHolds, PTL

\* A device's epoch never goes back, nor within an epoch any record of it.
THEOREM DocumentsNeverGoBack == CanvasSpec => DocumentNeverGoesBack
  <1>1. CanvasInv /\ [CanvasNext]_canvasVars =>
          [\A n \in Nodes : NeverGoesBack(n)]_canvasVars
    BY CanvasStepKeeps
  <1>2. CanvasSpec => [][\A n \in Nodes : NeverGoesBack(n)]_canvasVars
    BY <1>1, CanvasInvHolds, PTL DEF CanvasSpec
  <1> QED BY <1>2 DEF DocumentNeverGoesBack, NeverGoesBack

-----------------------------------------------------------------------------
(* The four side by side. *)

\* A fleet's behaviour is, to each part of it, one of that part's own or a stutter.
LEMMA PartsOfFleet ==
    FleetSpec => OwnershipSpec /\ CanvasSpec /\ PlanSpec /\ FilesSpec
<1>1. FleetInit => OwnershipInit /\ CanvasInit /\ PlanInit /\ FilesInit
  BY DEF FleetInit
<1>2. [FleetNext]_fleetVars =>
          [OwnershipNext]_ownershipVars /\ [CanvasNext]_canvasVars /\ [PlanNext]_planVars
          /\ [FilesNext]_filesVars
  <2> SUFFICES ASSUME [FleetNext]_fleetVars
               PROVE  /\ [OwnershipNext]_ownershipVars /\ [CanvasNext]_canvasVars
                      /\ [PlanNext]_planVars /\ [FilesNext]_filesVars
    OBVIOUS
  <2>1. CASE UNCHANGED fleetVars
    BY <2>1 DEF fleetVars
  <2>2. CASE OnOwnership(OwnershipNext)
    BY <2>2 DEF OnOwnership
  <2>3. CASE OnCanvas(CanvasNext)
    BY <2>3 DEF OnCanvas
  <2>4. CASE OnPlan(PlanNext)
    BY <2>4 DEF OnPlan
  <2>5. CASE OnFiles(FilesNext)
    BY <2>5 DEF OnFiles
  <2> QED BY <2>1, <2>2, <2>3, <2>4, <2>5 DEF FleetNext
<1> QED BY <1>1, <1>2, PTL DEF FleetSpec, OwnershipSpec, CanvasSpec, PlanSpec, FilesSpec

\* The four stores of a fleet hold what their code can write, whatever is lost, comes late or
\* starts again: documents and plans keep to their limits, and a store to its quota.
THEOREM FleetTypesHold == FleetSpec => []FleetTypeOK
<1>1. OwnershipTypeOK /\ CanvasTypeOK /\ PlanTypeOK /\ FilesTypeOK => FleetTypeOK
  BY DEF FleetTypeOK
<1> QED BY <1>1, PartsOfFleet, OwnershipTypeHolds, CanvasTypeHolds, PlanTypeHolds,
           FilesTypeHolds, PTL
=============================================================================
