----------------------------- MODULE Ownership -----------------------------
(***************************************************************************)
(* Claiming a device into a fleet and letting it go again: the record each *)
(* device keeps (node/src/ownership.rs) and the handlers of the ownership  *)
(* messages (node/src/mesh.rs).  A fleet is named by its key, a number     *)
(* here; 0 is no key and no device.  The signed roster of a fleet's closed *)
(* network is the mesh daemon's: `signed` and `evicted` are its converged  *)
(* log, without the role grants an owner may add.  Messages may be lost,   *)
(* reordered and delivered twice.                                          *)
(***************************************************************************)
EXTENDS Naturals, FiniteSets

CONSTANTS Machines,     \* the devices, as numbers
          Headless,     \* those started with ALLMYSTUFF_CLAIMABLE
          Attended,     \* those whose user turns claim mode on and off
          MaxKeys,      \* bound: fleet keys minted
          MaxClaims,    \* bound: claims sent
          MaxPartings,  \* bound: leaves and kicks
          MaxMishaps,   \* bound: restarts, lost and repeated messages, failed saves
          MaxPosts      \* bound: ownership messages in flight, a further send fails

ASSUME OwnershipConstants ==
  /\ Machines \subseteq Nat \ {0}
  /\ Headless \subseteq Machines /\ Attended \subseteq Machines
  /\ MaxKeys \in Nat /\ MaxClaims \in Nat /\ MaxPartings \in Nat
  /\ MaxMishaps \in Nat /\ MaxPosts \in Nat

VARIABLES owner,      \* Persisted.owner, 0 if unowned
          claimMode,  \* Inner.claim_mode, not saved
          fleetKey,   \* Persisted.fleet_key
          minted,     \* Persisted.minted
          members,    \* Persisted.fleet_members
          pending,    \* Mesh.pending_claims, not saved
          posts,      \* ownership messages and presence frames in flight
          offered,    \* devices that have advertised themselves as claimable
          signed,     \* the members the signed log of a fleet carries
          evicted,    \* those it has removed
          founders,   \* history: who founded the closed network of a key
          minter,     \* history: who minted a key, 0 if nobody has yet
          holders,    \* history: who ever held a key
          solicited,  \* history: claims sent, by claimer and device
          admitted,   \* history: confirmations honoured, by claimer and device
          claims, partings, mishaps   \* how much of each bound is used

record == <<owner, claimMode, fleetKey, minted, members, pending>>

governance == <<signed, evicted, founders>>

witnesses == <<minter, holders, solicited, admitted>>

ownershipVars == <<record, posts, offered, governance, witnesses, claims, partings, mishaps>>
-----------------------------------------------------------------------------
Keys == 1 .. MaxKeys

Unused == {k \in Keys : minter[k] = 0}

OwnershipMessage ==
       [kind : {"claim", "claimed", "release", "departed"}, from : Machines, to : Machines]
  \cup [kind : {"key"}, from : Machines, to : Machines, key : Keys]

Message(kind, n, m) == [kind |-> kind, from |-> n, to |-> m]

Handoff(n, m) ==
  IF fleetKey'[n] = 0 THEN {}
  ELSE {[kind |-> "key", from |-> n, to |-> m, key |-> fleetKey'[n]]}

(* sending, or failing to when too much is in flight                        *)
Mail(rest, messages) ==
  posts' = IF Cardinality(rest \cup messages) <= MaxPosts THEN rest \cup messages ELSE rest

(* claimable()                                                              *)
Claimable(n) == owner[n] = 0 /\ claimMode[n] /\ fleetKey[n] = 0

Advertise(n) == offered' = IF Claimable(n)' THEN offered \cup {n} ELSE offered

(* is_fleet_owner, is_fleet_founder                                         *)
StructuralOwner(n) == owner[n] = 0 /\ fleetKey[n] # 0

Founder(n) == StructuralOwner(n) /\ minted[n]

(* ensure_fleet_network after the record has changed: the founder founds    *)
(* the closed network, an owner signs the members it lists; the daemon      *)
(* refuses what an unfounded or foreign log does not let n author           *)
EnsureFleetNetwork(n) ==
  LET k == fleetKey'[n]
      all == IF k # 0 /\ Founder(n)' THEN [founders EXCEPT ![k] = @ \cup {n}] ELSE founders
  IN  /\ founders' = all
      /\ IF k # 0 /\ n \in all[k]
         THEN /\ signed' = [signed EXCEPT ![k] = @ \cup members'[n]]
              /\ evicted' = [evicted EXCEPT ![k] = @ \ members'[n]]
         ELSE UNCHANGED <<signed, evicted>>

(* GovernanceProposeEvict, refused unless n is an owner of the network      *)
Evict(n, k, m) ==
  /\ IF n \in founders[k]
     THEN /\ signed' = [signed EXCEPT ![k] = @ \ {m}]
          /\ evicted' = [evicted EXCEPT ![k] = @ \cup {m}]
     ELSE UNCHANGED <<signed, evicted>>
  /\ UNCHANGED founders
-----------------------------------------------------------------------------
(* set_claimable: only a device that is free to be adopted turns it on      *)
SetClaimable(n, on) ==
  /\ claimMode[n] # (on /\ owner[n] = 0 /\ fleetKey[n] = 0)
  /\ claimMode' = [claimMode EXCEPT ![n] = ~@]
  /\ UNCHANGED <<owner, fleetKey, minted, members, pending, posts,
                 governance, witnesses, claims, partings, mishaps>>
  /\ Advertise(n)

(* claim: of a device that was seen to be claimable, perhaps a while ago    *)
SendClaim(n, m) ==
  /\ n # m /\ m \in offered
  /\ claims < MaxClaims /\ claims' = claims + 1
  /\ pending' = [pending EXCEPT ![n] = @ \cup {m}]
  /\ solicited' = [solicited EXCEPT ![n][m] = @ + 1]
  /\ Mail(posts, {Message("claim", n, m)})
  /\ UNCHANGED <<owner, claimMode, fleetKey, minted, members, offered, governance,
                 minter, holders, admitted, partings, mishaps>>

(* try_accept_claim and the reply.  A failed save rolls everything back.    *)
Adoptable(n) == owner[n] = 0 /\ claimMode[n]

(* mutant: an adopted device stays claimable                                *)
AcceptClaim_StaysOpen(m, rest) ==
  /\ Adoptable(m.to)
  /\ owner' = [owner EXCEPT ![m.to] = m.from]
  /\ fleetKey' = [fleetKey EXCEPT ![m.to] = 0]
  /\ members' = [members EXCEPT ![m.to] = {}]
  /\ Mail(rest, {Message("claimed", m.to, m.from)})
  /\ UNCHANGED <<minted, pending, claimMode>>

AcceptClaim(m, rest) ==
  /\ Adoptable(m.to)
  /\ owner' = [owner EXCEPT ![m.to] = m.from]
  /\ claimMode' = [claimMode EXCEPT ![m.to] = FALSE]
  /\ fleetKey' = [fleetKey EXCEPT ![m.to] = 0]
  /\ members' = [members EXCEPT ![m.to] = {}]
  /\ Mail(rest, {Message("claimed", m.to, m.from)})
  /\ UNCHANGED <<minted, pending>>

DeclineClaim(m, rest) ==
  /\ ~Adoptable(m.to)
  /\ posts' = rest
  /\ UNCHANGED record

OnClaim(m, rest) ==
  /\ m.kind = "claim"
  /\ AcceptClaim(m, rest) \/ DeclineClaim(m, rest)
  /\ UNCHANGED <<offered, governance, witnesses, claims, partings>>

(* Claimed: honoured once for a claim sent.  The key is minted on the first *)
(* adoption, both devices are listed, the network is founded and signed,    *)
(* the key handed down.                                                     *)
EnsureKey(n) ==
  IF fleetKey[n] # 0
  THEN UNCHANGED <<fleetKey, minted, minter, holders>>
  ELSE LET k == CHOOSE x \in Unused : \A y \in Unused : x <= y IN
       /\ Unused # {}
       /\ fleetKey' = [fleetKey EXCEPT ![n] = k]
       /\ minted' = [minted EXCEPT ![n] = TRUE]
       /\ minter' = [minter EXCEPT ![k] = n]
       /\ holders' = [holders EXCEPT ![k] = {n}]

(* mutant: the pending claim is looked up and not consumed                  *)
HonourClaimed_Replayed(m, rest) ==
  LET n == m.to IN
  /\ m.from \in pending[n]
  /\ EnsureKey(n)
  /\ members' = [members EXCEPT ![n] = @ \cup {n, m.from}]
  /\ admitted' = [admitted EXCEPT ![n][m.from] = @ + 1]
  /\ UNCHANGED <<owner, claimMode, pending>>
  /\ EnsureFleetNetwork(n)
  /\ Mail(rest, Handoff(n, m.from))

HonourClaimed(m, rest) ==
  LET n == m.to IN
  /\ m.from \in pending[n]
  /\ pending' = [pending EXCEPT ![n] = @ \ {m.from}]
  /\ EnsureKey(n)
  /\ members' = [members EXCEPT ![n] = @ \cup {n, m.from}]
  /\ admitted' = [admitted EXCEPT ![n][m.from] = @ + 1]
  /\ UNCHANGED <<owner, claimMode>>
  /\ EnsureFleetNetwork(n)
  /\ Mail(rest, Handoff(n, m.from))

OnClaimed(m, rest) ==
  /\ m.kind = "claimed"
  /\ \/ HonourClaimed(m, rest)
     \/ /\ m.from \notin pending[m.to]
        /\ posts' = rest
        /\ UNCHANGED <<record, governance, minter, holders, admitted>>
  /\ UNCHANGED <<offered, solicited, claims, partings>>

(* FleetKey, from the recorded owner only; adopt_fleet_key, and the network *)
(* when the key is new.  (The owner is read and the key adopted under two   *)
(* locks with nothing awaited in between.)                                  *)
(* mutant: any sender will do once there is an owner                        *)
FromOwner_Any(m) == owner[m.to] # 0

FromOwner(m) == owner[m.to] = m.from

Adopt(n, k) ==
  /\ fleetKey' = [fleetKey EXCEPT ![n] = k]
  /\ minted' = [minted EXCEPT ![n] = fleetKey[n] = k /\ @]
  /\ holders' = [holders EXCEPT ![k] = @ \cup {n}]
  /\ UNCHANGED <<owner, claimMode, members, pending>>
  /\ IF fleetKey[n] # k THEN EnsureFleetNetwork(n) ELSE UNCHANGED governance

OnFleetKey(m, rest) ==
  /\ m.kind = "key"
  /\ posts' = rest
  /\ IF FromOwner(m) THEN Adopt(m.to, m.key) ELSE UNCHANGED <<record, governance, holders>>
  /\ UNCHANGED <<offered, minter, solicited, admitted, claims, partings>>
-----------------------------------------------------------------------------
(* set_owner(None) and leave_fleet: everything but the minted flag goes     *)
ClearFleet(n) ==
  /\ owner' = [owner EXCEPT ![n] = 0]
  /\ fleetKey' = [fleetKey EXCEPT ![n] = 0]
  /\ members' = [members EXCEPT ![n] = {}]
  /\ UNCHANGED <<claimMode, minted, pending>>

(* Release is heeded from the recorded owner only                           *)
OnRelease(m, rest) ==
  /\ m.kind = "release"
  /\ posts' = rest
  /\ IF FromOwner(m) THEN ClearFleet(m.to) ELSE UNCHANGED record
  /\ Advertise(m.to)
  /\ UNCHANGED <<governance, witnesses, claims, partings>>

(* the daemon has verified that the fleet's own log evicted this device     *)
SelfEvicted(n) ==
  /\ fleetKey[n] # 0 /\ n \in evicted[fleetKey[n]]
  /\ ClearFleet(n)
  /\ Advertise(n)
  /\ UNCHANGED <<posts, governance, witnesses, claims, partings, mishaps>>

(* fleet_leave: a fleet's owner dissolves it, a member tells its owner      *)
Leave(n) ==
  /\ owner[n] # 0 \/ fleetKey[n] # 0
  /\ partings < MaxPartings /\ partings' = partings + 1
  /\ Mail(posts, IF StructuralOwner(n)
                 THEN {Message("release", n, m) : m \in members[n] \ {n}}
                 ELSE {Message("departed", n, owner[n])})
  /\ ClearFleet(n)
  /\ Advertise(n)
  /\ UNCHANGED <<governance, witnesses, claims, mishaps>>

(* fleet_kick: forget the device, tell it, then evict it                    *)
Kick(n, m) ==
  /\ n # m /\ fleetKey[n] # 0
  /\ StructuralOwner(n) \/ n \in founders[fleetKey[n]]
  /\ m \in members[n] \cup signed[fleetKey[n]]
  /\ partings < MaxPartings /\ partings' = partings + 1
  /\ members' = [members EXCEPT ![n] = @ \ {m}]
  /\ Mail(posts, {Message("release", n, m)})
  /\ Evict(n, fleetKey[n], m)
  /\ UNCHANGED <<owner, claimMode, fleetKey, minted, pending, offered,
                 witnesses, claims, mishaps>>

(* FleetDeparted, recorded by an owner of the signed log                    *)
OnDeparted(m, rest) ==
  /\ m.kind = "departed"
  /\ posts' = rest
  /\ IF fleetKey[m.to] # 0 /\ m.to \in founders[fleetKey[m.to]]
     THEN /\ members' = [members EXCEPT ![m.to] = @ \ {m.from}]
          /\ Evict(m.to, fleetKey[m.to], m.from)
     ELSE UNCHANGED <<members, governance>>
  /\ UNCHANGED <<owner, claimMode, fleetKey, minted, pending, offered,
                 witnesses, claims, partings>>
-----------------------------------------------------------------------------
(* A presence frame of m arrives at n.  If m is in n's fleet and names n as *)
(* its owner it is signed if it is not, and the key is handed to it again   *)
(* if it is fresh: sent by a boot of m, or to a session of n, that have not *)
(* met.  When that is so is not modelled here, so that any frame may be     *)
(* fresh and none need be.  Bound: the frame arrives at once, when nothing  *)
(* else is in flight between the two.                                       *)
DirectlyClaimed(n, m) ==
  /\ owner[m] = n
  /\ m \in members[n] \/ (fleetKey[n] # 0 /\ m \in signed[fleetKey[n]])

Appear(m, n, fresh) ==
  /\ n # m
  /\ \A x \in posts : {x.from, x.to} # {n, m}
  /\ UNCHANGED record
  /\ Advertise(m)
  /\ IF DirectlyClaimed(n, m)
     THEN /\ Mail(posts, IF fresh THEN Handoff(n, m) ELSE {})
          /\ IF fleetKey[n] # 0 /\ m \notin signed[fleetKey[n]]
             THEN EnsureFleetNetwork(n) ELSE UNCHANGED governance
     ELSE UNCHANGED <<posts, governance>>
  /\ UNCHANGED <<witnesses, claims, partings, mishaps>>

HandleOwnership(m, rest) ==
  \/ OnClaim(m, rest) \/ OnClaimed(m, rest) \/ OnFleetKey(m, rest)
  \/ OnRelease(m, rest) \/ OnDeparted(m, rest)

DeliverPost(n, m) ==
  /\ \E x \in posts : x.from = n /\ x.to = m /\ HandleOwnership(x, posts \ {x})
  /\ UNCHANGED mishaps

Mishap == mishaps < MaxMishaps /\ mishaps' = mishaps + 1

DeliverAgain == Mishap /\ \E m \in posts : HandleOwnership(m, posts)

(* a lost message, or a claim whose save failed and was rolled back         *)
LosePost ==
  /\ Mishap
  /\ \E m \in posts : posts' = posts \ {m}
  /\ UNCHANGED <<record, offered, governance, witnesses, claims, partings>>

(* load: the start-time flag turns claim mode on while there is no owner    *)
Reload(n) ==
  /\ Mishap
  /\ claimMode' = [claimMode EXCEPT ![n] = (owner[n] = 0 /\ n \in Headless)]
  /\ pending' = [pending EXCEPT ![n] = {}]
  /\ UNCHANGED <<owner, fleetKey, minted, members, posts, governance, witnesses, claims, partings>>
  /\ Advertise(n)
-----------------------------------------------------------------------------
OwnershipInit ==
  /\ owner = [n \in Machines |-> 0]
  /\ claimMode = [n \in Machines |-> n \in Headless]
  /\ fleetKey = [n \in Machines |-> 0]
  /\ minted = [n \in Machines |-> FALSE]
  /\ members = [n \in Machines |-> {}]
  /\ pending = [n \in Machines |-> {}]
  /\ posts = {}
  /\ offered = Headless
  /\ signed = [k \in Keys |-> {}]
  /\ evicted = [k \in Keys |-> {}]
  /\ founders = [k \in Keys |-> {}]
  /\ minter = [k \in Keys |-> 0]
  /\ holders = [k \in Keys |-> {}]
  /\ solicited = [n \in Machines |-> [m \in Machines |-> 0]]
  /\ admitted = [n \in Machines |-> [m \in Machines |-> 0]]
  /\ claims = 0 /\ partings = 0 /\ mishaps = 0

OwnershipNext ==
  \/ \E n \in Attended, on \in BOOLEAN : SetClaimable(n, on)
  \/ \E n \in Machines : Leave(n) \/ SelfEvicted(n) \/ Reload(n)
  \/ \E n, m \in Machines : SendClaim(n, m) \/ Kick(n, m) \/ DeliverPost(n, m)
  \/ \E n, m \in Machines, fresh \in BOOLEAN : Appear(m, n, fresh)
  \/ DeliverAgain
  \/ LosePost

OwnershipSpec == OwnershipInit /\ [][OwnershipNext]_ownershipVars

-----------------------------------------------------------------------------
(* Every variable holds what its type says; only an unowned device is in    *)
(* claim mode.                                                              *)
OwnershipTypeOK ==
  /\ owner \in [Machines -> Machines \cup {0}]
  /\ claimMode \in [Machines -> BOOLEAN]
  /\ \A n \in Machines : claimMode[n] => owner[n] = 0
  /\ fleetKey \in [Machines -> Keys \cup {0}]
  /\ minted \in [Machines -> BOOLEAN]
  /\ members \in [Machines -> SUBSET Machines]
  /\ pending \in [Machines -> SUBSET Machines]
  /\ posts \subseteq OwnershipMessage
  /\ offered \subseteq Machines
  /\ signed \in [Keys -> SUBSET Machines]
  /\ evicted \in [Keys -> SUBSET Machines]
  /\ founders \in [Keys -> SUBSET Machines]
  /\ minter \in [Keys -> Machines \cup {0}]
  /\ holders \in [Keys -> SUBSET Machines]
  /\ solicited \in [Machines -> [Machines -> Nat]]
  /\ admitted \in [Machines -> [Machines -> Nat]]
  /\ claims \in 0 .. MaxClaims /\ partings \in 0 .. MaxPartings /\ mishaps \in 0 .. MaxMishaps

(* Membership follows ownership: the key a device holds is one it minted,   *)
(* or one that its owner of now has held.  A key of an earlier owner that   *)
(* arrives late, or one left over from an earlier fleet, would put it into  *)
(* the closed network of strangers.                                         *)
KeyFollowsOwner ==
  \A n \in Machines : fleetKey[n] # 0 =>
    \/ minter[fleetKey[n]] = n
    \/ owner[n] # 0 /\ owner[n] \in holders[fleetKey[n]]

(* A claim admits at most once: however often a confirmation is delivered,  *)
(* no device is listed, signed and handed the key more often than it was    *)
(* claimed ("consumed on use, so a replayed or duplicate confirmation is    *)
(* ignored").                                                               *)
OneAdmissionPerClaim ==
  \A n, m \in Machines : admitted[n][m] <= solicited[n][m]

(* A device is never adopted while it holds a fleet key: claimable() is     *)
(* "the *only* condition under which a claim is accepted", and the founder  *)
(* of a fleet "is never claimable".                                         *)
FounderNotConscripted ==
  [][\A n \in Machines : owner[n] = 0 /\ owner'[n] # 0 => fleetKey[n] = 0]_ownershipVars
=============================================================================
