----------------------------- MODULE LinkProofs -----------------------------
(***************************************************************************)
(* What is proved of two parts of MCLink beside its route: for any number  *)
(* of dials, messages on the wire, restarts, sweeps and decisions, what    *)
(* SupportDial's properties say; for any queue, lags and troubles of the   *)
(* stream, that no window of VideoPipe gets a delta it cannot decode.      *)
(* At the end, the three side by side.                                     *)
(***************************************************************************)
EXTENDS MCLink, RouteLinkProofs, FiniteFacts

\* A dial whose session is not made yet is known to nobody.
UnknownBeforeLinked ==
    \A d \in Dials : task[d] \in {"none", "linking"} =>
        verdict[d] = "none" /\ waiting # d /\ \A m \in wire : m.dial # d

\* Under a standing grant nobody is asked.
StandingAsksNobody == waiting # 0 => ~standing

TaskShapes ==
    /\ task \in [Dials -> {"none", "linking", "offer", "beat", "over"}]
    /\ state \in [Dials -> {"none", "requested", "active", "denied", "ended"}]
    /\ verdict \in [Dials -> {"none", "active", "denied", "ended"}]

SetShapes ==
    /\ stopped \subseteq {d \in Dials : task[d] \in Running}
    /\ ready \subseteq {d \in Dials : verdict[d] = "active"}
    /\ waiting \in Dials \cup {0} /\ standing \in BOOLEAN

WireShapes ==
    /\ wire \subseteq [kind : Kinds, dial : Dials]
    /\ IsFiniteSet(wire) /\ Cardinality(wire) <= OnWire

Shapes == TaskShapes /\ SetShapes /\ WireShapes

\* What the other conjuncts need of each other.
Matters ==
    /\ UnknownBeforeLinked /\ StandingAsksNobody
    /\ OnlyOpenDialsWait /\ KvmAwaitsTechnician /\ WaitingDialIsDriven

DialInv == Shapes /\ Matters

USE DialAssumption

\* What is sent is on the wire or pushes another message out.
LEMMA PostedFits ==
    ASSUME NEW there, IsFiniteSet(there), Cardinality(there) <= OnWire,
           NEW m, Posted(there, m)
    PROVE  /\ wire' \subseteq there \cup {m}
           /\ IsFiniteSet(wire') /\ Cardinality(wire') <= OnWire
<1> DEFINE all == there \cup {m}
<1>1. CASE Cardinality(all) <= OnWire
  <2>1. wire' = all
    BY <1>1 DEF Posted
  <2>2. IsFiniteSet(all)
    BY FS_AddElement
  <2> QED BY <1>1, <2>1, <2>2
<1>2. CASE ~(Cardinality(all) <= OnWire)
  <2>1. PICK x \in there : wire' = (there \ {x}) \cup {m}
    BY <1>2 DEF Posted
  <2>2. m \notin there
    <3> SUFFICES ASSUME m \in there PROVE FALSE
      OBVIOUS
    <3>1. all = there
      OBVIOUS
    <3> QED BY <1>2, <3>1
  <2>3. /\ IsFiniteSet(there \ {x}) /\ Cardinality(there \ {x}) = Cardinality(there) - 1
    BY FS_RemoveElement
  <2>4. /\ IsFiniteSet((there \ {x}) \cup {m})
        /\ Cardinality((there \ {x}) \cup {m}) = Cardinality(there \ {x}) + 1
    BY <2>2, <2>3, FS_AddElement
  <2>5. Cardinality(there) \in Nat
    BY FS_CardinalityType
  <2> QED BY <2>1, <2>3, <2>4, <2>5
<1> QED BY <1>1, <1>2

\* What is taken off the wire leaves a smaller wire.
LEMMA LeftFits ==
    ASSUME IsFiniteSet(wire), Cardinality(wire) <= OnWire, NEW m
    PROVE  IsFiniteSet(wire \ {m}) /\ Cardinality(wire \ {m}) <= OnWire
<1>1. /\ IsFiniteSet(wire \ {m}) /\ Cardinality(wire \ {m}) <= Cardinality(wire)
  BY FS_Subset, FS_CardinalityType
<1>2. Cardinality(wire) \in Nat /\ Cardinality(wire \ {m}) \in Nat
  BY <1>1, FS_CardinalityType
<1> QED BY <1>1, <1>2

LEMMA ShapesAreTypes == Shapes <=> DialTypeOK /\ IsFiniteSet(wire)
  BY DEF Shapes, TaskShapes, SetShapes, WireShapes, DialTypeOK

LEMMA DialInvInit == DialInit => DialInv
<1> SUFFICES ASSUME DialInit PROVE DialInv
  OBVIOUS
<1>1. IsFiniteSet(wire) /\ Cardinality(wire) = 0
  BY FS_EmptySet DEF DialInit
<1>2. WireShapes
  BY <1>1 DEF DialInit, WireShapes
<1>3. TaskShapes
  BY DEF DialInit, TaskShapes
<1>4. SetShapes
  BY DEF DialInit, SetShapes
<1>5. Matters
  BY <1>3, <1>4 DEF DialInit, Matters, SetShapes, UnknownBeforeLinked, StandingAsksNobody,
     OnlyOpenDialsWait, KvmAwaitsTechnician, WaitingDialIsDriven
<1> QED BY <1>2, <1>3, <1>4, <1>5 DEF DialInv, Shapes

\* One step per action.
LEMMA DialInvNext == DialInv /\ [DialNext]_dialVars => DialInv'
<1> SUFFICES ASSUME DialInv, [DialNext]_dialVars PROVE DialInv'
  OBVIOUS
<1> USE DEF DialInv, Shapes
<1>1. ASSUME NEW d \in Dials, Dial(d) PROVE DialInv'
  <2>1. WireShapes'
    BY <1>1 DEF Dial, customer, Running, WireShapes
  <2>2. TaskShapes'
    BY <1>1 DEF Dial, customer, Running, TaskShapes, SetShapes
  <2>3. SetShapes'
    BY <1>1 DEF Dial, customer, Running, TaskShapes, SetShapes
  <2>4. Matters'
    BY <1>1, <2>2, <2>3
       DEF Dial, customer, Running, TaskShapes, SetShapes, Matters, UnknownBeforeLinked,
           StandingAsksNobody, OnlyOpenDialsWait, KvmAwaitsTechnician, WaitingDialIsDriven
  <2> QED BY <2>1, <2>2, <2>3, <2>4 DEF DialInv, Shapes
<1>2. ASSUME NEW d \in Dials, NEW ok \in BOOLEAN, Linked(d, ok)
       PROVE  DialInv'
  <2>1. WireShapes'
    BY <1>2 DEF Linked, customer, Running, WireShapes
  <2>2. TaskShapes'
    BY <1>2 DEF Linked, customer, Running, TaskShapes, SetShapes
  <2>3. SetShapes'
    BY <1>2 DEF Linked, customer, Running, TaskShapes, SetShapes
  <2>4. Matters'
    BY <1>2, <2>2, <2>3
       DEF Linked, customer, Running, TaskShapes, SetShapes, Matters, UnknownBeforeLinked,
           StandingAsksNobody, OnlyOpenDialsWait, KvmAwaitsTechnician, WaitingDialIsDriven
  <2> QED BY <2>1, <2>2, <2>3, <2>4 DEF DialInv, Shapes
<1>3. ASSUME NEW d \in Dials, CancelDial(d) PROVE DialInv'
  <2>1. WireShapes'
    BY <1>3 DEF CancelDial, customer, WireShapes
  <2>2. TaskShapes'
    BY <1>3 DEF CancelDial, customer, TaskShapes, SetShapes
  <2>3. SetShapes'
    BY <1>3 DEF CancelDial, customer, TaskShapes, SetShapes
  <2>4. Matters'
    BY <1>3, <2>2, <2>3
       DEF CancelDial, customer, TaskShapes, SetShapes, Matters, UnknownBeforeLinked,
           StandingAsksNobody, OnlyOpenDialsWait, KvmAwaitsTechnician, WaitingDialIsDriven
  <2> QED BY <2>1, <2>2, <2>3, <2>4 DEF DialInv, Shapes
<1>4. ASSUME NEW d \in Dials, SendRequest(d) PROVE DialInv'
  <2>0. /\ wire' \subseteq wire \cup {Word("request", d)}
        /\ IsFiniteSet(wire') /\ Cardinality(wire') <= OnWire
    BY <1>4, PostedFits DEF SendRequest, Post, WireShapes
  <2>1. WireShapes'
    BY <2>0 DEF WireShapes, Word, Kinds
  <2>2. TaskShapes'
    BY <1>4 DEF SendRequest, technician, customer, Word, TaskShapes, SetShapes
  <2>3. SetShapes'
    BY <1>4 DEF SendRequest, technician, customer, Word, TaskShapes, SetShapes
  <2>4. Matters'
    BY <1>4, <2>2, <2>3, <2>0
       DEF SendRequest, technician, customer, Word, TaskShapes, SetShapes, Matters,
           UnknownBeforeLinked, StandingAsksNobody, OnlyOpenDialsWait, KvmAwaitsTechnician,
           WaitingDialIsDriven
  <2> QED BY <2>1, <2>2, <2>3, <2>4 DEF DialInv, Shapes
<1>5. ASSUME NEW d \in Dials, GiveUp(d) PROVE DialInv'
  <2>0. /\ wire' \subseteq wire \cup {Word("end", d)}
        /\ IsFiniteSet(wire') /\ Cardinality(wire') <= OnWire
    <3>1. CASE UNCHANGED wire
      BY <3>1 DEF WireShapes
    <3>2. CASE Post(Word("end", d))
      BY <3>2, PostedFits DEF Post, WireShapes
    <3> QED BY <1>5, <3>1, <3>2 DEF GiveUp
  <2>1. WireShapes'
    BY <2>0 DEF WireShapes, Word, Kinds
  <2>2. TaskShapes'
    BY <1>5 DEF GiveUp, GoesOn, customer, Running, Word, TaskShapes, SetShapes
  <2>3. SetShapes'
    BY <1>5 DEF GiveUp, GoesOn, customer, Running, Word, TaskShapes, SetShapes
  <2>4. Matters'
    BY <1>5, <2>2, <2>3, <2>0
       DEF GiveUp, GoesOn, customer, Running, Word, TaskShapes, SetShapes, Matters,
           UnknownBeforeLinked, StandingAsksNobody, OnlyOpenDialsWait, KvmAwaitsTechnician,
           WaitingDialIsDriven
  <2> QED BY <2>1, <2>2, <2>3, <2>4 DEF DialInv, Shapes
<1>6. ASSUME TechnicianRestarts PROVE DialInv'
  <2>1. WireShapes'
    BY <1>6 DEF TechnicianRestarts, customer, WireShapes
  <2>2. TaskShapes'
    BY <1>6 DEF TechnicianRestarts, customer, TaskShapes, SetShapes
  <2>3. SetShapes'
    BY <1>6 DEF TechnicianRestarts, customer, TaskShapes, SetShapes
  <2>4. Matters'
    BY <1>6, <2>2, <2>3
       DEF TechnicianRestarts, customer, TaskShapes, SetShapes, Matters,
           UnknownBeforeLinked, StandingAsksNobody, OnlyOpenDialsWait, KvmAwaitsTechnician,
           WaitingDialIsDriven
  <2> QED BY <2>1, <2>2, <2>3, <2>4 DEF DialInv, Shapes
<1>7. ASSUME NEW d \in Dials, NEW stands \in BOOLEAN, ApproveDial(d, stands)
       PROVE  DialInv'
  <2>0. /\ wire' \subseteq wire \cup {Word("approve", d)}
        /\ IsFiniteSet(wire') /\ Cardinality(wire') <= OnWire
    BY <1>7, PostedFits DEF ApproveDial, Approves, Post, WireShapes
  <2>1. WireShapes'
    BY <2>0 DEF WireShapes, Word, Kinds
  <2>2. TaskShapes'
    BY <1>7 DEF ApproveDial, Approves, technician, Word, TaskShapes, SetShapes
  <2>3. SetShapes'
    BY <1>7 DEF ApproveDial, Approves, technician, Word, TaskShapes, SetShapes
  <2>4. Matters'
    BY <1>7, <2>2, <2>3, <2>0
       DEF ApproveDial, Approves, technician, Word, TaskShapes, SetShapes, Matters,
           UnknownBeforeLinked, StandingAsksNobody, OnlyOpenDialsWait, KvmAwaitsTechnician,
           WaitingDialIsDriven
  <2> QED BY <2>1, <2>2, <2>3, <2>4 DEF DialInv, Shapes
<1>8. ASSUME NEW d \in Dials, DenyDial(d) PROVE DialInv'
  <2>0. /\ wire' \subseteq wire \cup {Word("deny", d)}
        /\ IsFiniteSet(wire') /\ Cardinality(wire') <= OnWire
    BY <1>8, PostedFits DEF DenyDial, Post, WireShapes
  <2>1. WireShapes'
    BY <2>0 DEF WireShapes, Word, Kinds
  <2>2. TaskShapes'
    BY <1>8 DEF DenyDial, technician, Word, TaskShapes, SetShapes
  <2>3. SetShapes'
    BY <1>8 DEF DenyDial, technician, TaskShapes, SetShapes, Matters, OnlyOpenDialsWait
  <2>4. Matters'
    BY <1>8, <2>2, <2>3, <2>0
       DEF DenyDial, technician, Word, TaskShapes, SetShapes, Matters, UnknownBeforeLinked,
           StandingAsksNobody, OnlyOpenDialsWait, KvmAwaitsTechnician, WaitingDialIsDriven
  <2> QED BY <2>1, <2>2, <2>3, <2>4 DEF DialInv, Shapes
<1>9. ASSUME NEW revoked \in BOOLEAN, Lapse(revoked) PROVE DialInv'
  <2>1. WireShapes'
    BY <1>9 DEF Lapse, technician, WireShapes
  <2>2. TaskShapes'
    BY <1>9 DEF Lapse, technician, TaskShapes, SetShapes
  <2>3. SetShapes'
    BY <1>9 DEF Lapse, technician, TaskShapes, SetShapes
  <2>4. Matters'
    BY <1>9, <2>2, <2>3
       DEF Lapse, technician, TaskShapes, SetShapes, Matters, UnknownBeforeLinked,
           StandingAsksNobody, OnlyOpenDialsWait, KvmAwaitsTechnician, WaitingDialIsDriven
  <2> QED BY <2>1, <2>2, <2>3, <2>4 DEF DialInv, Shapes
<1>10. ASSUME SweepDials PROVE DialInv'
  <2>1. WireShapes'
    BY <1>10 DEF SweepDials, technician, WireShapes
  <2>2. TaskShapes'
    BY <1>10 DEF SweepDials, technician, TaskShapes, SetShapes
  <2>3. SetShapes'
    BY <1>10 DEF SweepDials, technician, TaskShapes, SetShapes
  <2>4. Matters'
    BY <1>10, <2>2, <2>3
       DEF SweepDials, technician, TaskShapes, SetShapes, Matters, UnknownBeforeLinked,
           StandingAsksNobody, OnlyOpenDialsWait, KvmAwaitsTechnician, WaitingDialIsDriven
  <2> QED BY <2>1, <2>2, <2>3, <2>4 DEF DialInv, Shapes
<1>11. ASSUME CustomerRestarts PROVE DialInv'
  <2>1. WireShapes'
    BY <1>11 DEF CustomerRestarts, technician, WireShapes
  <2>2. TaskShapes'
    BY <1>11 DEF CustomerRestarts, technician, TaskShapes, SetShapes
  <2>3. SetShapes'
    BY <1>11 DEF CustomerRestarts, technician, TaskShapes, SetShapes
  <2>4. Matters'
    BY <1>11, <2>2, <2>3
       DEF CustomerRestarts, technician, TaskShapes, SetShapes, Matters,
           UnknownBeforeLinked, StandingAsksNobody, OnlyOpenDialsWait, KvmAwaitsTechnician,
           WaitingDialIsDriven
  <2> QED BY <2>1, <2>2, <2>3, <2>4 DEF DialInv, Shapes
<1>12. ASSUME NEW d \in Dials, TakeEnd(d) PROVE DialInv'
  <2>0. wire' \subseteq wire /\ IsFiniteSet(wire') /\ Cardinality(wire') <= OnWire
    BY <1>12, LeftFits DEF TakeEnd, Left, WireShapes
  <2>1. WireShapes'
    BY <2>0 DEF WireShapes
  <2>2. TaskShapes'
    BY <1>12 DEF TakeEnd, technician, Word, TaskShapes, SetShapes
  <2>3. SetShapes'
    BY <1>12 DEF TakeEnd, technician, Word, TaskShapes, SetShapes
  <2>4. Matters'
    BY <1>12, <2>2, <2>3, <2>0
       DEF TakeEnd, technician, Word, TaskShapes, SetShapes, Matters, UnknownBeforeLinked,
           StandingAsksNobody, OnlyOpenDialsWait, KvmAwaitsTechnician, WaitingDialIsDriven
  <2> QED BY <2>1, <2>2, <2>3, <2>4 DEF DialInv, Shapes
<1>13. ASSUME NEW d \in Dials, NEW told \in BOOLEAN, TakeApprove(d, told)
       PROVE  DialInv'
  <2>0. wire' \subseteq wire /\ IsFiniteSet(wire') /\ Cardinality(wire') <= OnWire
    BY <1>13, LeftFits DEF TakeApprove, Left, WireShapes
  <2>1. WireShapes'
    BY <2>0 DEF WireShapes
  <2>2. TaskShapes'
    BY <1>13 DEF TakeApprove, AcceptApproval, Word, TaskShapes, SetShapes
  <2>3. SetShapes'
    BY <1>13 DEF TakeApprove, AcceptApproval, Word, TaskShapes, SetShapes
  <2>4. Matters'
    BY <1>13, <2>2, <2>3, <2>0
       DEF TakeApprove, AcceptApproval, Word, TaskShapes, SetShapes, Matters,
           UnknownBeforeLinked, StandingAsksNobody, OnlyOpenDialsWait, KvmAwaitsTechnician,
           WaitingDialIsDriven
  <2> QED BY <2>1, <2>2, <2>3, <2>4 DEF DialInv, Shapes
<1>14. ASSUME NEW d \in Dials, TakeDeny(d) PROVE DialInv'
  <2>0. wire' \subseteq wire /\ IsFiniteSet(wire') /\ Cardinality(wire') <= OnWire
    BY <1>14, LeftFits DEF TakeDeny, Left, WireShapes
  <2>1. WireShapes'
    BY <2>0 DEF WireShapes
  <2>2. TaskShapes'
    BY <1>14 DEF TakeDeny, customer, Word, TaskShapes, SetShapes
  <2>3. SetShapes'
    BY <1>14 DEF TakeDeny, customer, Word, TaskShapes, SetShapes
  <2>4. Matters'
    BY <1>14, <2>2, <2>3, <2>0
       DEF TakeDeny, customer, Word, TaskShapes, SetShapes, Matters, UnknownBeforeLinked,
           StandingAsksNobody, OnlyOpenDialsWait, KvmAwaitsTechnician, WaitingDialIsDriven
  <2> QED BY <2>1, <2>2, <2>3, <2>4 DEF DialInv, Shapes
<1>15. ASSUME NEW m \in wire, LoseWord(m) PROVE DialInv'
  <2>0. wire' \subseteq wire /\ IsFiniteSet(wire') /\ Cardinality(wire') <= OnWire
    BY <1>15, LeftFits DEF LoseWord, Left, WireShapes
  <2>1. WireShapes'
    BY <2>0 DEF WireShapes
  <2>2. TaskShapes'
    BY <1>15 DEF LoseWord, technician, customer, TaskShapes, SetShapes
  <2>3. SetShapes'
    BY <1>15 DEF LoseWord, technician, customer, TaskShapes, SetShapes
  <2>4. Matters'
    BY <1>15, <2>2, <2>3, <2>0
       DEF LoseWord, technician, customer, TaskShapes, SetShapes, Matters,
           UnknownBeforeLinked, StandingAsksNobody, OnlyOpenDialsWait, KvmAwaitsTechnician,
           WaitingDialIsDriven
  <2> QED BY <2>1, <2>2, <2>3, <2>4 DEF DialInv, Shapes
<1>16. ASSUME NEW d \in Dials, NEW told \in BOOLEAN, NEW heard \in BOOLEAN,
              TakeRequest(d, told, heard)
       PROVE  DialInv'
  <2>0. /\ wire' \subseteq wire \cup {Word("approve", d)}
        /\ IsFiniteSet(wire') /\ Cardinality(wire') <= OnWire
    <3>1. /\ IsFiniteSet(Left(Word("request", d)))
          /\ Cardinality(Left(Word("request", d))) <= OnWire
      BY LeftFits DEF Left, WireShapes
    <3>2. CASE wire' = Left(Word("request", d))
      BY <3>1, <3>2 DEF Left
    <3>3. CASE Posted(Left(Word("request", d)), Word("approve", d))
      BY <3>1, <3>3, PostedFits DEF Left
    <3> QED BY <1>16, <3>2, <3>3 DEF TakeRequest, Approves
  <2>1. WireShapes'
    BY <2>0 DEF WireShapes, Word, Kinds
  <2>2. TaskShapes'
    BY <1>16
       DEF TakeRequest, Delivered, AcceptApproval, Approves, Prompts, Left, customer,
           Running, Word, TaskShapes, SetShapes
  <2>3. SetShapes'
    BY <1>16
       DEF TakeRequest, Delivered, AcceptApproval, Approves, Prompts, Left, customer,
           Running, Word, TaskShapes, SetShapes
  <2>4. Matters'
    BY <1>16, <2>2, <2>3, <2>0
       DEF TakeRequest, Delivered, AcceptApproval, Approves, Prompts, Left, customer,
           Running, Word, TaskShapes, SetShapes, Matters, UnknownBeforeLinked,
           StandingAsksNobody, OnlyOpenDialsWait, KvmAwaitsTechnician, WaitingDialIsDriven
  <2> QED BY <2>1, <2>2, <2>3, <2>4 DEF DialInv, Shapes
<1>17. CASE UNCHANGED dialVars
  BY <1>17
     DEF dialVars, TaskShapes, SetShapes, WireShapes, Matters, UnknownBeforeLinked,
         StandingAsksNobody, OnlyOpenDialsWait, KvmAwaitsTechnician, WaitingDialIsDriven
<1> QED
  BY <1>1, <1>2, <1>3, <1>4, <1>5, <1>6, <1>7, <1>8, <1>9, <1>10, <1>11, <1>12, <1>13,
     <1>14,
     <1>15, <1>16, <1>17
     DEF DialNext, Technician, Decides, RequestTaken, ApproveTaken

LEMMA DialInvHolds == DialSpec => []DialInv
  BY DialInvInit, DialInvNext, PTL DEF DialSpec

\* No dial that the customer's session calls approved, denied or ended is in the list, for any
\* number of dials, repeats, restarts and decisions.
THEOREM NoDecidedDialWaits == DialSpec => []OnlyOpenDialsWait
<1>1. DialInv => OnlyOpenDialsWait
  BY DEF DialInv, Matters
<1> QED BY <1>1, DialInvHolds, PTL

\* A KVM is announced to a technician who has the session, whatever comes late or is lost.
THEOREM KvmFollowsApproval == DialSpec => []KvmAwaitsTechnician
<1>1. DialInv => KvmAwaitsTechnician
  BY DEF DialInv, Matters
<1> QED BY <1>1, DialInvHolds, PTL

\* No dial waits without the task that asks again.
THEOREM NoDialLeftWaiting == DialSpec => []WaitingDialIsDriven
<1>1. DialInv => WaitingDialIsDriven
  BY DEF DialInv, Matters
<1> QED BY <1>1, DialInvHolds, PTL

\* The steps of the tasks, the sessions of both sides and the messages are those of
\* DialTypeOK; the wire never holds more than OnWire.
THEOREM DialTypeHolds == DialSpec => []DialTypeOK
<1>1. DialInv => DialTypeOK
  BY ShapesAreTypes DEF DialInv
<1> QED BY <1>1, DialInvHolds, PTL

HIDE DialAssumption
-----------------------------------------------------------------------------
(* The picture. *)

USE VideoAssumption

Whole(queue) == \A i \in DOMAIN queue : queue[i].entry \/ queue[i].follows

\* A lag grows by two with a trouble at most: what is accepted has the lag it came with.
MarkIsBounded == mark <= MaxLag + 2 * snags

\* The scalar parts of the type.
FlagsOK ==
    /\ gradual \in BOOLEAN /\ owed \in BOOLEAN
    /\ echo \in Unit \cup {NoUnit} /\ pending \in {NoUnit, Newest(TRUE), Newest(FALSE)}
    /\ mark \in {NoMark} \cup Nat /\ MarkIsBounded
    /\ tip \in {"fresh", "mark", "other"}
    /\ started \in BOOLEAN /\ awaiting \in BOOLEAN /\ quiet \in BOOLEAN /\ inflight \in BOOLEAN
    /\ snags \in 0 .. MaxSnags

AsksOK == asks \in [Asker -> {None, "due", "sent", "resting"}]

Fits(to) == to \in Pane /\ Len(to.queue) <= Room /\ to.stale <= Len(to.queue)

\* While deltas of a reset stream are let through, the unit marked last is the one its
\* window has, or the window takes nothing but an entry.
ChainHolds ==
    ~gradual /\ started /\ ~awaiting =>
        mark # NoMark /\ (tip = "other" => pane.fence \/ ~pane.open)

PictureInv == FlagsOK /\ AsksOK /\ Fits(pane) /\ ChainHolds /\ PictureIsWhole

LEMMA TypesFromInv == PictureInv => VideoTypeOK
<1> SUFFICES ASSUME PictureInv PROVE VideoTypeOK
  OBVIOUS
<1>1. mark \in {NoMark} \cup 0 .. 2 * MaxSnags + MaxLag
  BY DEF PictureInv, FlagsOK, MarkIsBounded
<1> QED BY <1>1 DEF PictureInv, FlagsOK, AsksOK, Fits, VideoTypeOK

\* What is left of a queue from one of its places on is a queue, and whole if the unit
\* at that place is an entry.
LEMMA FromFits ==
    ASSUME Fits(pane), NEW k \in DOMAIN pane.queue
    PROVE  /\ From(k) \in Seq(Packet) /\ Len(From(k)) = Len(pane.queue) - k + 1
           /\ From(k) # <<>>
           /\ Whole(pane.queue) /\ pane.queue[k].entry => Whole(From(k))
<1> DEFINE q == pane.queue
           rest == SubSeq(q, k, Len(q))
<1>1. q \in Seq(Packet) /\ Len(q) \in Nat /\ k \in 1 .. Len(q)
  BY DEF Fits, Pane
<1>2. /\ rest \in Seq(Packet) /\ Len(rest) = Len(q) - k + 1
      /\ \A i \in 1 .. Len(rest) : rest[i] = q[k + i - 1]
  BY <1>1, SubSeqProperties
<1>f. From(k) = IF k = 1 THEN rest ELSE [rest EXCEPT ![1].follows = FALSE]
  BY DEF From
<1>w. Whole(pane.queue) <=> \A i \in 1 .. Len(q) : q[i].entry \/ q[i].follows
  BY <1>1 DEF Whole
<1> HIDE DEF rest, q
<1>3. Len(rest) \in Nat \ {0} /\ 1 \in 1 .. Len(rest)
  BY <1>1, <1>2
<1>4. rest[1] \in Packet /\ rest[1] = q[k]
  BY <1>1, <1>2, <1>3
<1>5. CASE k = 1
  <2>1. From(k) = rest
    BY <1>5, <1>f
  <2>2. Whole(pane.queue) => Whole(rest)
    BY <1>1, <1>2, <1>3, <1>5, <1>w DEF Whole
  <2>3. rest # <<>>
    BY <1>2, <1>3
  <2> QED BY <2>1, <2>2, <2>3, <1>2 DEF q
<1>6. CASE k # 1
  <2> DEFINE cut == [rest EXCEPT ![1].follows = FALSE]
  <2>1. From(k) = cut
    BY <1>6, <1>f
  <2>2. [rest[1] EXCEPT !.follows = FALSE] \in Packet
    BY <1>4 DEF Packet
  <2>3. /\ cut \in Seq(Packet) /\ Len(cut) = Len(rest)
        /\ \A i \in 1 .. Len(rest) :
               cut[i] = IF i = 1 THEN [rest[1] EXCEPT !.follows = FALSE] ELSE rest[i]
    <3> DEFINE e == [rest[1] EXCEPT !.follows = FALSE]
    <3>1. cut = [rest EXCEPT ![1] = e]
      OBVIOUS
    <3>2. e \in Packet
      BY <2>2
    <3> HIDE DEF e
    <3>3. [rest EXCEPT ![1] = e] \in Seq(Packet) /\ Len([rest EXCEPT ![1] = e]) = Len(rest)
          /\ \A i \in 1 .. Len(rest) : [rest EXCEPT ![1] = e][i] = IF i = 1 THEN e ELSE rest[i]
      BY <1>2, <1>3, <3>2, ExceptSeq
    <3> HIDE DEF cut
    <3> QED BY <3>1, <3>3 DEF e
  <2> HIDE DEF cut
  <2>4. ASSUME Whole(pane.queue), q[k].entry PROVE Whole(cut)
    <3>1. cut[1].entry
      BY <1>3, <1>4, <2>3, <2>4 DEF Packet
    <3>2. ASSUME NEW i \in 1 .. Len(rest), i # 1 PROVE cut[i].entry \/ cut[i].follows
      <4>1. cut[i] = q[k + i - 1] /\ k + i - 1 \in 1 .. Len(q)
        BY <1>1, <1>2, <2>3, <3>2
      <4> QED BY <4>1, <2>4, <1>w
    <3>3. Len(cut) \in Nat /\ DOMAIN cut = 1 .. Len(rest)
      BY <1>2, <1>3, <2>3
    <3> QED BY <3>1, <3>2, <3>3 DEF Whole
  <2>5. cut # <<>> /\ Len(cut) = Len(q) - k + 1
    BY <1>2, <1>3, <2>3
  <2> QED BY <2>1, <2>3, <2>4, <2>5 DEF q
<1> QED BY <1>5, <1>6

\* Only a suffix that starts with an entry is kept, and it leaves a place.
LEMMA SuffixFits ==
    ASSUME Fits(pane), FreshSuffix # <<>>
    PROVE  /\ FreshSuffix \in Seq(Packet) /\ Len(FreshSuffix) < Room
           /\ Whole(pane.queue) => Whole(FreshSuffix)
<1> DEFINE keys == {i \in DOMAIN pane.queue : KeyBit(pane.queue[i])}
           k == Max(keys)
<1>1. keys # {} /\ k > pane.stale /\ Len(pane.queue) - k + 2 <= Room /\ FreshSuffix = From(k)
  BY DEF FreshSuffix
<1>2. pane.queue \in Seq(Packet) /\ Len(pane.queue) \in Nat
      /\ DOMAIN pane.queue = 1 .. Len(pane.queue)
  BY DEF Fits, Pane
<1>3. IsFiniteSet(keys) /\ keys \in SUBSET Nat
  <2>1. IsFiniteSet(1 .. Len(pane.queue))
    <3>1. 1 \in Int /\ Len(pane.queue) \in Int
      BY <1>2
    <3> HIDE VideoAssumption
    <3> QED BY <3>1, FS_Interval
  <2>2. keys \subseteq 1 .. Len(pane.queue)
    BY <1>2
  <2> QED BY <2>1, <2>2, FS_Subset
<1>4. \E m \in keys : \A x \in keys : x <= m
  BY <1>1, <1>3, GreatestOfFinite
<1>5. k \in keys
  <2> HIDE DEF keys
  <2>1. \E m \in keys : \A x \in keys : m >= x
    BY <1>3, <1>4
  <2> QED BY <2>1 DEF Max
<1> HIDE DEF k
<1>6. k \in DOMAIN pane.queue /\ pane.queue[k].entry
  BY <1>5 DEF KeyBit
<1> QED BY <1>1, <1>2, <1>6, FromFits

\* A push leaves a queue that fits, and with a unit that is an entry or follows, a whole one.
LEMMA PushedFits ==
    ASSUME Fits(pane), gradual \in BOOLEAN, NEW p \in Packet
    PROVE  /\ Fits(Pushed(p)) /\ Pushed(p).open = pane.open
           /\ ~Bars(p) /\ Pushed(p).queue = <<>> => Pushed(p).fence
           /\ ~gradual /\ Whole(pane.queue) /\ (Bars(p) \/ p.entry \/ p.follows)
                  => Whole(Pushed(p).queue)
<1>0. pane \in Pane /\ pane.queue \in Seq(Packet) /\ Len(pane.queue) \in Nat
      /\ Len(pane.queue) <= Room /\ pane.stale \in 0 .. Room /\ pane.stale <= Len(pane.queue)
  BY DEF Fits, Pane
<1>1. CASE Bars(p)
  BY <1>1 DEF Pushed
<1>2. CASE ~Bars(p) /\ ~Gives
  <2> DEFINE grown == Append(pane.queue, p)
  <2>1. /\ grown \in Seq(Packet) /\ Len(grown) = Len(pane.queue) + 1
        /\ \A i \in 1 .. Len(pane.queue) : grown[i] = pane.queue[i]
        /\ grown[Len(pane.queue) + 1] = p /\ grown # <<>>
    BY <1>0, AppendProperties
  <2>2. Pushed(p) = [pane EXCEPT !.queue = Append(@, p)]
    BY <1>2 DEF Pushed
  <2>3. Pushed(p).queue = grown /\ Pushed(p) \in Pane /\ Pushed(p).stale = pane.stale
        /\ Pushed(p).open = pane.open
    BY <1>0, <2>1, <2>2 DEF Pane
  <2>4. Len(pane.queue) # Room
    BY <1>2 DEF Gives
  <2>5. Fits(Pushed(p))
    BY <1>0, <2>1, <2>3, <2>4 DEF Fits
  <2>6. ASSUME Whole(pane.queue), p.entry \/ p.follows PROVE Whole(grown)
    <3>1. ASSUME NEW i \in 1 .. Len(pane.queue) PROVE grown[i].entry \/ grown[i].follows
      BY <1>0, <2>1, <2>6 DEF Whole
    <3>2. \A i \in DOMAIN grown : i \in 1 .. Len(pane.queue) \/ i = Len(pane.queue) + 1
      BY <2>1, <1>0
    <3> QED BY <3>1, <3>2, <2>1, <2>6 DEF Whole
  <2> QED BY <1>2, <2>1, <2>3, <2>5, <2>6
<1>3. CASE ~Bars(p) /\ Gives
  <2> DEFINE kept == Yielded(p)
  <2>1. Pushed(p) = [pane EXCEPT !.queue = kept, !.stale = 0, !.fence = kept = <<>>,
                         !.converging = IF Len(kept) = 1 THEN ~KeyBit(p) ELSE @]
    BY <1>3 DEF Pushed
  <2>2. /\ kept \in Seq(Packet) /\ Len(kept) \in Nat /\ Len(kept) <= Room
        /\ ~gradual /\ Whole(pane.queue) /\ (p.entry \/ p.follows) => Whole(kept)
    <3>1. CASE ~KeyBit(p) /\ ~pane.fence /\ FreshSuffix # <<>>
      <4> DEFINE suffix == FreshSuffix
                 grown == Append(suffix, p)
      <4>1. kept = grown
        BY <3>1 DEF Yielded
      <4>2. suffix \in Seq(Packet) /\ Len(suffix) < Room
            /\ (Whole(pane.queue) => Whole(suffix))
        BY <3>1, SuffixFits
      <4> HIDE DEF suffix
      <4>3. /\ grown \in Seq(Packet) /\ Len(grown) = Len(suffix) + 1 /\ Len(suffix) \in Nat
            /\ \A i \in 1 .. Len(suffix) : grown[i] = suffix[i]
            /\ grown[Len(suffix) + 1] = p
        BY <4>2, AppendProperties
      <4>4. ASSUME Whole(suffix), p.entry \/ p.follows PROVE Whole(grown)
        <5>1. ASSUME NEW i \in 1 .. Len(suffix) PROVE grown[i].entry \/ grown[i].follows
          BY <4>2, <4>3, <4>4 DEF Whole
        <5>2. \A i \in DOMAIN grown : i \in 1 .. Len(suffix) \/ i = Len(suffix) + 1
          BY <4>3
        <5> QED BY <5>1, <5>2, <4>3, <4>4 DEF Whole
      <4> HIDE DEF grown, kept
      <4> QED BY <4>1, <4>2, <4>3, <4>4
    <3>2. CASE ~(~KeyBit(p) /\ ~pane.fence /\ FreshSuffix # <<>>) /\ (KeyBit(p) \/ gradual)
      <4> DEFINE q == [p EXCEPT !.follows = @ /\ pane.queue = <<>>]
      <4>1. kept = <<q>>
        BY <3>2 DEF Yielded
      <4>2. q \in Packet /\ q.entry = p.entry
        BY DEF Packet
      <4> HIDE DEF q
      <4>3. <<q>> \in Seq(Packet) /\ Len(<<q>>) = 1
        BY <4>2
      <4>4. KeyBit(p) => Whole(<<q>>)
        <5>1. SUFFICES ASSUME KeyBit(p) PROVE Whole(<<q>>)
          OBVIOUS
        <5>2. q.entry
          BY <4>2, <5>1 DEF KeyBit
        <5>3. DOMAIN <<q>> = {1} /\ <<q>>[1] = q
          OBVIOUS
        <5> QED BY <5>2, <5>3 DEF Whole
      <4> HIDE DEF kept
      <4> QED BY <3>2, <4>1, <4>3, <4>4
    <3>3. CASE ~(~KeyBit(p) /\ ~pane.fence /\ FreshSuffix # <<>>) /\ ~(KeyBit(p) \/ gradual)
      <4>1. kept = <<>>
        BY <3>3 DEF Yielded
      <4>2. <<>> \in Seq(Packet) /\ Len(<<>>) = 0 /\ Whole(<<>>)
        BY DEF Whole
      <4> HIDE DEF kept
      <4> QED BY <4>1, <4>2
    <3> QED BY <3>1, <3>2, <3>3
  <2>3. KeyBit(p) \in BOOLEAN
    BY DEF KeyBit, Packet
  <2> HIDE DEF kept
  <2>4. /\ Pushed(p) \in Pane /\ Pushed(p).queue = kept /\ Pushed(p).stale = 0
        /\ Pushed(p).open = pane.open /\ Pushed(p).fence = (kept = <<>>)
    <3> DEFINE e == kept = <<>>
               c == IF Len(kept) = 1 THEN ~KeyBit(p) ELSE pane.converging
    <3>1. /\ e \in BOOLEAN
          /\ c \in BOOLEAN
      BY <1>0, <2>3 DEF Pane
    <3>2. Pushed(p) = [pane EXCEPT !.queue = kept, !.stale = 0, !.fence = e, !.converging = c]
      BY <2>1
    <3>3. 0 \in 0 .. Room
      OBVIOUS
    <3> HIDE DEF e, c
    <3>4. Pushed(p) \in Pane /\ Pushed(p).queue = kept /\ Pushed(p).stale = 0
          /\ Pushed(p).open = pane.open /\ Pushed(p).fence = e
      BY <1>0, <2>2, <3>1, <3>2, <3>3 DEF Pane
    <3> QED BY <3>4 DEF e
  <2>5. kept = <<>> => Pushed(p).fence
    BY <2>4
  <2> QED BY <1>3, <2>2, <2>4, <2>5 DEF Fits
<1> QED BY <1>1, <1>2, <1>3

\* A request changes who asks, and the fence only from down to up.
LEMMA DiscontinuityFits ==
    ASSUME AsksOK, NEW was \in BOOLEAN, NEW soft \in BOOLEAN, NEW request \in BOOLEAN,
           Discontinuity(was, soft, request)
    PROVE  AsksOK' /\ awaiting' \in BOOLEAN /\ (~soft \/ ~request => awaiting')
  BY DEF Discontinuity, AsksOK, Asker, Spawn, Ensured

\* What deliver_video_au does to a unit leaves the invariant, given the mark it finds.
LEMMA DeliverKeeps ==
    ASSUME FlagsOK, AsksOK, Fits(pane), ChainHolds, PictureIsWhole,
           NEW u \in Unit, NEW high \in {NoMark} \cup Nat,
           mark # NoMark => high # NoMark,
           high <= MaxLag + 2 * snags \/ u.lag = 0,
           DeliverUnit(u, high), snags' \in {snags, snags + 1}
    PROVE  /\ gradual' = gradual /\ mark' \in {NoMark} \cup Nat
           /\ mark' <= MaxLag + 2 * snags'
           /\ tip' \in {"fresh", "mark", "other"}
           /\ started' \in BOOLEAN /\ awaiting' \in BOOLEAN /\ quiet' \in BOOLEAN
           /\ inflight' \in BOOLEAN
           /\ AsksOK' /\ Fits(pane)' /\ ChainHolds' /\ PictureIsWhole'
<1> DEFINE observed == Observe(u, high)
<1>0. /\ u.lag \in 0 .. MaxLag /\ u.entry \in BOOLEAN /\ NoMark = -1
      /\ gradual \in BOOLEAN /\ snags \in Nat
      /\ gradual' = gradual /\ inflight' = inflight /\ inflight \in BOOLEAN
      /\ mark' = IF observed = "drop" THEN high ELSE u.lag
  BY DEF Unit, NoMark, FlagsOK, DeliverUnit
<1>1. /\ observed \in {"accept", "drop", "gap"}
      /\ observed = "drop" => high # NoMark /\ (u.lag = 0 => high = 0)
      /\ observed = "gap" => high # NoMark
      /\ observed = "accept" /\ high # NoMark /\ ~u.entry => high - u.lag = 1
  BY <1>0 DEF Observe
<1>2. mark' \in {NoMark} \cup Nat /\ mark' <= MaxLag + 2 * snags' /\ mark' # NoMark
  BY <1>0, <1>1
<1>3. CASE observed = "gap"
  <2>1. Discontinuity(awaiting, gradual, TRUE) /\ Withheld
    BY <1>3 DEF DeliverUnit
  <2>2. AsksOK' /\ awaiting' \in BOOLEAN /\ (~gradual => awaiting')
    BY <2>1, <1>0, DiscontinuityFits DEF FlagsOK
  <2>3. ChainHolds'
    BY <2>2, <1>0 DEF ChainHolds
  <2> QED BY <2>1, <2>2, <2>3, <1>0, <1>2 DEF Withheld, FlagsOK, Fits, PictureIsWhole
<1>4. CASE observed = "drop"
  <2>1. /\ asks' = IF u.entry /\ awaiting THEN Spawn("task") ELSE asks
        /\ UNCHANGED <<tip, started, awaiting, quiet, pane>>
    BY <1>4 DEF DeliverUnit
  <2>2. AsksOK'
    BY <2>1 DEF AsksOK, Spawn, Asker
  <2>3. ChainHolds'
    BY <2>1, <1>0, <1>2 DEF ChainHolds
  <2> QED BY <2>1, <2>2, <2>3, <1>0, <1>2 DEF FlagsOK, Fits, PictureIsWhole
<1>5. CASE observed = "accept" /\ Holds(u)
  <2>1. /\ awaiting' = TRUE
        /\ asks' = IF awaiting THEN asks ELSE Ensured(TRUE)
        /\ Withheld
    BY <1>5 DEF DeliverUnit
  <2>2. AsksOK'
    BY <2>1 DEF AsksOK, Ensured, Asker
  <2>3. ChainHolds'
    BY <2>1 DEF ChainHolds
  <2> QED BY <2>1, <2>2, <2>3, <1>0, <1>2 DEF Withheld, FlagsOK, Fits, PictureIsWhole
<1>6. CASE observed = "accept" /\ ~Holds(u)
  <2> DEFINE follows == tip = "fresh" \/ (tip = "mark" /\ high - u.lag = 1)
             p == [entry |-> u.entry, follows |-> follows]
             to == Pushed(p)
  <2>1. Hand(u, high)
    BY <1>6 DEF DeliverUnit
  <2>2. /\ pane' = to
        /\ tip' = IF Bars(p) \/ to.queue = <<>> THEN "other" ELSE "mark"
        /\ started' = TRUE
        /\ quiet' = (quiet /\ ~awaiting)
        /\ IF Breaks(to) THEN Discontinuity(FALSE, gradual, TRUE)
           ELSE awaiting' = FALSE /\ UNCHANGED asks
    BY <2>1 DEF Hand
  <2>3. p \in Packet /\ p.entry = u.entry /\ p.follows = follows
    BY <1>0 DEF Packet
  <2>4. ~gradual => Bars(p) \/ p.entry \/ p.follows
    <3>1. SUFFICES ASSUME ~gradual, ~Bars(p), ~u.entry PROVE follows
      BY <2>3
    <3>2. started /\ ~awaiting
      BY <1>6, <3>1 DEF Holds
    <3>3. mark # NoMark /\ (tip = "other" => pane.fence \/ ~pane.open)
      BY <3>1, <3>2 DEF ChainHolds
    <3>4. ~KeyBit(p)
      BY <2>3, <3>1 DEF KeyBit
    <3>5. pane.open /\ ~pane.fence
      BY <3>1, <3>4 DEF Bars
    <3>6. high - u.lag = 1
      BY <1>1, <1>6, <3>1, <3>3
    <3> QED BY <3>3, <3>5, <3>6 DEF FlagsOK
  <2>5. ~gradual => Whole(pane.queue)
    BY DEF PictureIsWhole, Whole
  <2> HIDE DEF p, follows
  <2>6. /\ Fits(to) /\ to.open = pane.open
        /\ ~Bars(p) /\ to.queue = <<>> => to.fence
        /\ ~gradual => Whole(to.queue)
    BY <1>0, <2>3, <2>4, <2>5, PushedFits
  <2>7. Bars(p) => to = pane /\ (~pane.open \/ pane.fence)
    BY DEF Bars, Pushed
  <2> HIDE DEF to
  <2>8. AsksOK' /\ awaiting' \in BOOLEAN
    <3>1. CASE Breaks(to)
      BY <2>2, <3>1, <1>0, DiscontinuityFits
    <3>2. CASE ~Breaks(to)
      BY <2>2, <3>2 DEF AsksOK
    <3> QED BY <3>1, <3>2
  <2>9. Fits(pane)'
    BY <2>2, <2>6 DEF Fits
  <2>10. PictureIsWhole'
    BY <2>2, <2>6, <1>0 DEF PictureIsWhole, Whole
  <2>11. ChainHolds'
    <3>1. tip' = "other" => pane'.fence \/ ~pane'.open
      BY <2>2, <2>6, <2>7
    <3> QED BY <3>1, <1>2 DEF ChainHolds, NoMark
  <2>12. quiet' \in BOOLEAN /\ tip' \in {"fresh", "mark", "other"} /\ started' \in BOOLEAN
    BY <2>2
  <2> QED BY <2>8, <2>9, <2>10, <2>11, <2>12, <1>0, <1>2
<1> QED BY <1>1, <1>3, <1>4, <1>5, <1>6

LEMMA PictureInvInit == VideoInit => PictureInv
<1> SUFFICES ASSUME VideoInit PROVE PictureInv
  OBVIOUS
<1>1. FlagsOK
  <2>1. MarkIsBounded
    BY DEF VideoInit, MarkIsBounded, NoMark
  <2>2. snags \in 0 .. MaxSnags
    BY DEF VideoInit
  <2>3. echo \in Unit \cup {NoUnit} /\ pending \in {NoUnit, Newest(TRUE), Newest(FALSE)}
    BY DEF VideoInit
  <2>4. mark \in {NoMark} \cup Nat /\ tip \in {"fresh", "mark", "other"}
    BY DEF VideoInit
  <2>5. /\ gradual \in BOOLEAN /\ owed \in BOOLEAN /\ started \in BOOLEAN
        /\ awaiting \in BOOLEAN /\ quiet \in BOOLEAN /\ inflight \in BOOLEAN
    BY DEF VideoInit
  <2> QED BY <2>1, <2>2, <2>3, <2>4, <2>5 DEF FlagsOK
<1>2. AsksOK
  BY DEF VideoInit, AsksOK, None
<1>3. Fits(pane) /\ pane.queue = <<>>
  <2>1. <<>> \in Seq(Packet) /\ Len(<<>>) = 0
    OBVIOUS
  <2> QED BY <2>1 DEF VideoInit, FreshPane, Fits, Pane
<1>4. PictureIsWhole
  BY <1>3 DEF PictureIsWhole
<1>5. ChainHolds
  BY DEF VideoInit, ChainHolds
<1> QED BY <1>1, <1>2, <1>3, <1>4, <1>5 DEF PictureInv

\* The unit sent next is one unit newer.
LEMMA LagsGrow ==
    ASSUME FlagsOK, NEW n \in Nat
    PROVE  /\ Older(mark, n) \in {NoMark} \cup Nat
           /\ mark # NoMark => Older(mark, n) # NoMark /\ Older(mark, n) = mark + n
           /\ mark = NoMark => Older(mark, n) = NoMark
           /\ Echo(n) \in Unit \cup {NoUnit}
           /\ owed \in BOOLEAN /\ Newest(owed) \in Unit /\ Newest(owed).lag = 0
           /\ Newest(owed) \in {NoUnit, Newest(TRUE), Newest(FALSE)}
<1>1. /\ Older(mark, n) \in {NoMark} \cup Nat
      /\ mark # NoMark => Older(mark, n) # NoMark /\ Older(mark, n) = mark + n
      /\ mark = NoMark => Older(mark, n) = NoMark
  BY DEF FlagsOK, Older, NoMark
<1>2. owed \in BOOLEAN /\ Newest(owed) \in Unit /\ Newest(owed).lag = 0
  BY DEF FlagsOK, Newest, Unit
<1>3. Newest(owed) \in {NoUnit, Newest(TRUE), Newest(FALSE)}
  BY <1>2
<1>4. Echo(n) \in Unit \cup {NoUnit}
  <2>1. CASE echo = NoUnit \/ echo.lag + n > MaxLag
    BY <2>1 DEF Echo
  <2>2. CASE ~(echo = NoUnit \/ echo.lag + n > MaxLag)
    <3>1. echo \in Unit /\ echo.lag + n \in 0 .. MaxLag
      BY <2>2 DEF FlagsOK, Unit
    <3>2. Echo(n) = [echo EXCEPT !.lag = @ + n]
      BY <2>2 DEF Echo
    <3> QED BY <3>1, <3>2 DEF Unit
  <2> QED BY <2>1, <2>2
<1> QED BY <1>1, <1>2, <1>3, <1>4

\* A unit of the wire: one step per way it can go.
LEMMA StreamKeeps ==
    ASSUME PictureInv,
           Arrive \/ Stray \/ ArriveLate \/ Torn \/ Shed \/ Follow
    PROVE  PictureInv'
<1> USE DEF PictureInv
<1>0. /\ gradual \in BOOLEAN /\ snags \in 0 .. MaxSnags /\ awaiting \in BOOLEAN
      /\ Soft \in BOOLEAN /\ (Soft => gradual) /\ mark <= MaxLag + 2 * snags
  BY DEF FlagsOK, Soft, MarkIsBounded
<1>d. ASSUME NEW u \in Unit, NEW high \in {NoMark} \cup Nat,
             mark # NoMark => high # NoMark,
             high <= MaxLag + 2 * snags \/ u.lag = 0,
             DeliverUnit(u, high),
             snags' \in {snags, snags + 1}, snags' \in 0 .. MaxSnags,
             owed' \in BOOLEAN, echo' \in Unit \cup {NoUnit},
             pending' \in {NoUnit, Newest(TRUE), Newest(FALSE)}
      PROVE  PictureInv'
  <2>1. /\ gradual' = gradual /\ mark' \in {NoMark} \cup Nat
        /\ mark' <= MaxLag + 2 * snags'
        /\ tip' \in {"fresh", "mark", "other"}
        /\ started' \in BOOLEAN /\ awaiting' \in BOOLEAN /\ quiet' \in BOOLEAN
        /\ inflight' \in BOOLEAN
        /\ AsksOK' /\ Fits(pane)' /\ ChainHolds' /\ PictureIsWhole'
    BY <1>d, DeliverKeeps
  <2>2. FlagsOK'
    BY <1>0, <1>d, <2>1 DEF FlagsOK, MarkIsBounded
  <2> QED BY <2>1, <2>2
\* The unit is not delivered: the mark falls behind, and a fence may go up.
<1>l. ASSUME NEW n \in {1, 2}, mark' = Older(mark, n), Untouched, Snag,
             AsksOK', awaiting' \in BOOLEAN, awaiting => awaiting',
             owed' \in BOOLEAN, echo' \in Unit \cup {NoUnit},
             pending' \in {NoUnit, Newest(TRUE), Newest(FALSE)}
      PROVE  PictureInv'
  <2>1. /\ mark' \in {NoMark} \cup Nat /\ (mark # NoMark => mark' # NoMark /\ mark' = mark + n)
        /\ (mark = NoMark => mark' = NoMark)
    <3>1. n \in Nat
      OBVIOUS
    <3> QED BY <1>l, <3>1, LagsGrow
  <2>2. snags' = snags + 1 /\ snags' \in 0 .. MaxSnags
    BY <1>0, <1>l DEF Snag
  <2>3. mark' <= MaxLag + 2 * snags'
    <3>1. CASE mark = NoMark
      BY <3>1, <2>1, <2>2 DEF NoMark
    <3>2. CASE mark # NoMark
      <4>1. mark \in Nat /\ snags \in Nat /\ mark' = mark + n
        BY <1>0, <2>1, <3>2 DEF FlagsOK
      <4> QED BY <1>0, <2>2, <4>1
    <3> QED BY <3>1, <3>2
  <2>4. FlagsOK'
    BY <1>0, <1>l, <2>1, <2>2, <2>3 DEF FlagsOK, MarkIsBounded, Untouched
  <2>5. ChainHolds' /\ PictureIsWhole' /\ Fits(pane)'
    BY <1>l, <2>1 DEF Untouched, ChainHolds, PictureIsWhole, Fits
  <2> QED BY <1>l, <2>4, <2>5
<1>1. CASE Arrive
  <2> DEFINE u == Newest(owed)
             high == Older(mark, 1)
  <2>1. u \in Unit /\ u.lag = 0 /\ high \in {NoMark} \cup Nat
        /\ (mark # NoMark => high # NoMark) /\ Echo(1) \in Unit \cup {NoUnit}
    BY LagsGrow
  <2>2. /\ DeliverUnit(u, high) /\ snags' = snags /\ owed' = FALSE
        /\ echo' = Echo(1) /\ pending' = pending
    BY <1>1 DEF Arrive, Sends
  <2> HIDE DEF u, high
  <2> QED BY <2>1, <2>2, <1>0, <1>d DEF FlagsOK
<1>2. CASE Stray
  <2> DEFINE u == Newest(owed)
             high == Older(mark, 1)
  <2>1. u \in Unit /\ u.lag = 0 /\ high \in {NoMark} \cup Nat
        /\ (mark # NoMark => high # NoMark) /\ Echo(1) \in Unit \cup {NoUnit}
    BY LagsGrow
  <2>2. Snag /\ owed' = FALSE /\ pending' = pending /\ echo' \in {Echo(1), u}
    BY <1>2 DEF Stray, Sends
  <2>3. snags' = snags + 1 /\ snags' \in 0 .. MaxSnags
    BY <1>0, <2>2 DEF Snag
  <2>4. CASE DeliverUnit(u, high)
    <3> HIDE DEF u, high
    <3> QED BY <2>1, <2>2, <2>3, <2>4, <1>d DEF FlagsOK
  <2>5. CASE mark' = high /\ Untouched /\ UNCHANGED <<awaiting, asks>>
    <3>1. AsksOK'
      BY <2>5 DEF AsksOK
    <3> HIDE DEF u
    <3> QED BY <2>1, <2>2, <2>5, <3>1, <1>0, <1>l DEF FlagsOK
  <2> QED BY <1>2, <2>4, <2>5 DEF Stray
<1>3. CASE ArriveLate
  <2>1. echo \in Unit /\ mark \in {NoMark} \cup Nat
    BY <1>3 DEF ArriveLate, FlagsOK
  <2>2. /\ DeliverUnit(echo, mark) /\ snags' = snags /\ owed' = owed
        /\ echo' = NoUnit /\ pending' = pending
    BY <1>3 DEF ArriveLate
  <2> QED BY <2>1, <2>2, <1>0, <1>d DEF FlagsOK
<1>4. CASE Torn
  <2>1. /\ Snag /\ owed' = FALSE /\ pending' = pending /\ echo' = Echo(1)
        /\ mark' = Older(mark, 1) /\ Untouched
        /\ Discontinuity(awaiting, Soft, TRUE)
    BY <1>4 DEF Torn, Sends
  <2>2. AsksOK' /\ awaiting' \in BOOLEAN
    BY <2>1, <1>0, DiscontinuityFits
  <2>3. awaiting => awaiting'
    BY <2>1 DEF Discontinuity
  <2>4. Echo(1) \in Unit \cup {NoUnit}
    BY LagsGrow
  <2> QED BY <2>1, <2>2, <2>3, <2>4, <1>l DEF FlagsOK
<1>5. CASE Shed
  <2>1. /\ Snag /\ owed' = FALSE /\ pending' = Newest(owed) /\ echo' = Echo(2)
        /\ mark' = Older(mark, 2) /\ Untouched
        /\ Discontinuity(awaiting, Soft, ~owed)
    BY <1>5 DEF Shed, Sends
  <2>2. AsksOK' /\ awaiting' \in BOOLEAN
    BY <2>1, <1>0, DiscontinuityFits
  <2>3. awaiting => awaiting'
    BY <2>1 DEF Discontinuity
  <2>4. Echo(2) \in Unit \cup {NoUnit} /\ Newest(owed) \in {NoUnit, Newest(TRUE), Newest(FALSE)}
    BY LagsGrow
  <2> QED BY <2>1, <2>2, <2>3, <2>4, <1>l
<1>6. CASE Follow
  <2>1. pending \in Unit /\ mark \in {NoMark} \cup Nat
    <3>1. pending = Newest(TRUE) \/ pending = Newest(FALSE)
      BY <1>6 DEF Follow, FlagsOK
    <3>2. Newest(TRUE) \in Unit /\ Newest(FALSE) \in Unit
      BY DEF Newest, Unit
    <3> QED BY <3>1, <3>2 DEF FlagsOK
  <2>2. /\ DeliverUnit(pending, mark) /\ snags' = snags /\ owed' = owed
        /\ echo' = echo /\ pending' = NoUnit
    BY <1>6 DEF Follow
  <2> QED BY <2>1, <2>2, <1>0, <1>d DEF FlagsOK
<1> QED BY <1>1, <1>2, <1>3, <1>4, <1>5, <1>6

\* The route is offered anew, its requests go on, and the window takes or leaves.
LEMMA AroundKeeps ==
    ASSUME PictureInv,
           \/ Rebound
           \/ \E a \in Asker : Ask(a) \/ \E delivered \in BOOLEAN : Answered(a, delivered)
           \/ Rested \/ QuietEnds
           \/ Watch \/ Unwatch \/ Poll \/ Stall \/ WindowAsks
    PROVE  PictureInv'
<1> USE DEF PictureInv
<1>e. <<>> \in Seq(Packet) /\ Len(<<>>) = 0 /\ DOMAIN <<>> = {}
  OBVIOUS
<1>0. pane \in Pane /\ pane.queue \in Seq(Packet) /\ Len(pane.queue) \in Nat
      /\ Len(pane.queue) <= Room /\ pane.stale \in 0 .. Room /\ pane.stale <= Len(pane.queue)
  BY DEF Fits, Pane
\* The window's part, when nothing of the route but the requests is touched.
<1>w. ASSUME PaneOnly, gradual' = gradual, AsksOK', tip' \in {tip, "fresh"},
             snags' \in {snags, snags + 1}, snags' \in 0 .. MaxSnags, Fits(pane'),
             pane'.queue = <<>> \/ pane'.queue = pane.queue,
             tip' = tip => pane'.open = FALSE \/ (pane'.open = pane.open /\ pane'.fence = pane.fence)
      PROVE  PictureInv'
  <2>1. FlagsOK'
    <3>1. MarkIsBounded'
      BY <1>w DEF PaneOnly, FlagsOK, MarkIsBounded, NoMark
    <3> QED BY <1>w, <3>1 DEF PaneOnly, FlagsOK
  <2>2. ChainHolds'
    BY <1>w DEF PaneOnly, ChainHolds
  <2>3. PictureIsWhole'
    BY <1>w, <1>e DEF PictureIsWhole, PaneOnly
  <2> QED BY <1>w, <2>1, <2>2, <2>3 DEF Fits
\* The route's part, when nothing of it but the requests is touched.
<1>r. ASSUME UNCHANGED <<gradual, echo, pending, mark, tip, started, awaiting, pane, snags>>,
             owed' \in BOOLEAN, quiet' \in BOOLEAN, inflight' \in BOOLEAN, AsksOK'
      PROVE  PictureInv'
  <2>1. FlagsOK'
    BY <1>r DEF FlagsOK, MarkIsBounded
  <2> QED BY <1>r, <2>1 DEF ChainHolds, PictureIsWhole, Fits
<1>f. \A open \in BOOLEAN : Fits(FreshPane(open)) /\ FreshPane(open).queue = <<>>
  BY <1>e DEF FreshPane, Fits, Pane
<1>1. CASE Rebound
  <2>1. FlagsOK'
    <3>1. MarkIsBounded'
      BY <1>1 DEF Rebound, Snag, FlagsOK, MarkIsBounded, NoMark
    <3>2. tip' \in {"fresh", "mark", "other"} /\ snags' \in 0 .. MaxSnags
      BY <1>1 DEF Rebound, Snag, FlagsOK
    <3> QED BY <1>1, <3>1, <3>2 DEF Rebound, FlagsOK
  <2> QED BY <1>1, <2>1 DEF Rebound, ChainHolds, PictureIsWhole, Fits, AsksOK
<1>2. ASSUME NEW a \in Asker, Ask(a) PROVE PictureInv'
  <2>1. AsksOK' /\ quiet' \in BOOLEAN /\ inflight' \in BOOLEAN
    BY <1>2 DEF Ask, Begin, AsksOK, FlagsOK
  <2>2. UNCHANGED <<gradual, owed, echo, pending, mark, tip, started, awaiting, pane, snags>>
    BY <1>2 DEF Ask
  <2> QED BY <2>1, <2>2, <1>r DEF FlagsOK
<1>3. ASSUME NEW a \in Asker, NEW delivered \in BOOLEAN, Answered(a, delivered)
      PROVE  PictureInv'
  <2>1. AsksOK' /\ quiet' \in BOOLEAN /\ inflight' \in BOOLEAN /\ owed' \in BOOLEAN
    BY <1>3 DEF Answered, AsksOK, FlagsOK
  <2>2. UNCHANGED <<gradual, echo, pending, mark, tip, started, awaiting, pane, snags>>
    BY <1>3 DEF Answered
  <2> QED BY <2>1, <2>2, <1>r
<1>4. CASE Rested
  <2>1. AsksOK'
    BY <1>4 DEF Rested, AsksOK
  <2> QED BY <1>4, <2>1, <1>r DEF Rested, FlagsOK
<1>5. CASE QuietEnds
  <2>1. AsksOK'
    BY <1>5 DEF QuietEnds, AsksOK
  <2> QED BY <1>5, <2>1, <1>r DEF QuietEnds, FlagsOK
<1>6. CASE Watch
  <2>1. AsksOK' /\ snags' = snags + 1 /\ snags' \in 0 .. MaxSnags
    BY <1>6 DEF Watch, AsksOK, Snag, FlagsOK
  <2>2. FlagsOK'
    <3>1. MarkIsBounded'
      BY <1>6, <2>1 DEF Watch, PaneOnly, FlagsOK, MarkIsBounded, NoMark
    <3> QED BY <1>6, <2>1, <3>1 DEF Watch, PaneOnly, FlagsOK
  <2>3. Fits(pane') /\ pane'.queue = <<>>
    BY <1>6, <1>f DEF Watch
  <2>4. ChainHolds' /\ PictureIsWhole'
    BY <1>6, <2>3, <1>e DEF Watch, PaneOnly, ChainHolds, PictureIsWhole
  <2> QED BY <2>1, <2>2, <2>3, <2>4 DEF Fits
<1>7. CASE Unwatch
  <2>1. AsksOK' /\ snags' = snags /\ tip' = tip /\ pane' = FreshPane(FALSE) /\ PaneOnly
    BY <1>7 DEF Unwatch, AsksOK
  <2>2. pane'.open = FALSE
    BY <2>1 DEF FreshPane
  <2>3. Fits(pane') /\ pane'.queue = <<>>
    BY <2>1, <1>f
  <2> QED BY <2>1, <2>2, <2>3, <1>w DEF PaneOnly, FlagsOK
<1>8. CASE Poll
  <2>1. AsksOK' /\ snags' = snags /\ tip' = tip /\ PaneOnly
        /\ pane' = [pane EXCEPT !.queue = <<>>, !.stale = 0, !.converging = FALSE]
    BY <1>8 DEF Poll, AsksOK
  <2>2. 0 \in 0 .. Room /\ Len(<<>>) = 0
    OBVIOUS
  <2>3. /\ pane'.queue = <<>> /\ pane'.stale = 0 /\ pane' \in Pane
        /\ pane'.open = pane.open /\ pane'.fence = pane.fence
    BY <2>1, <2>2, <1>0, <1>e DEF Pane
  <2>4. Fits(pane')
    BY <2>2, <2>3 DEF Fits
  <2> QED BY <2>1, <2>3, <2>4, <1>w DEF PaneOnly, FlagsOK
<1>9. CASE Stall
  <2>1. PICK k \in pane.stale + 1 .. Len(pane.queue) : pane' = [pane EXCEPT !.stale = k]
    BY <1>9 DEF Stall
  <2>2. AsksOK' /\ snags' = snags /\ tip' = tip /\ PaneOnly
    BY <1>9 DEF Stall, AsksOK
  <2>3. k \in 0 .. Room /\ k <= Len(pane.queue)
    BY <2>1, <1>0
  <2>4. /\ pane'.queue = pane.queue /\ pane'.stale = k /\ pane' \in Pane
        /\ pane'.open = pane.open /\ pane'.fence = pane.fence
    BY <2>1, <2>3, <1>0 DEF Pane
  <2>5. Fits(pane')
    BY <2>3, <2>4, <1>0 DEF Fits
  <2> QED BY <2>2, <2>4, <2>5, <1>w DEF PaneOnly, FlagsOK
<1>10. CASE WindowAsks
  <2>1. AsksOK' /\ snags' = snags + 1 /\ snags' \in 0 .. MaxSnags
    BY <1>10 DEF WindowAsks, AsksOK, Spawn, Asker, Snag, FlagsOK
  <2>2. PaneOnly /\ tip' = tip /\ pane' = pane
    BY <1>10 DEF WindowAsks
  <2> QED BY <2>1, <2>2, <1>w DEF PaneOnly
<1> QED BY <1>1, <1>2, <1>3, <1>4, <1>5, <1>6, <1>7, <1>8, <1>9, <1>10

LEMMA PictureInvNext == PictureInv /\ [VideoNext]_videoVars => PictureInv'
<1> SUFFICES ASSUME PictureInv, [VideoNext]_videoVars PROVE PictureInv'
  OBVIOUS
<1>1. CASE UNCHANGED videoVars
  BY <1>1 DEF videoVars, PictureInv, FlagsOK, MarkIsBounded, AsksOK, Fits, ChainHolds,
     PictureIsWhole
<1>2. CASE VideoNext
  BY <1>2, StreamKeeps, AroundKeeps DEF VideoNext
<1> QED BY <1>1, <1>2

LEMMA PictureInvHolds == VideoSpec => []PictureInv
<1>1. VideoInit => PictureInv
  BY PictureInvInit
<1>2. PictureInv /\ [VideoNext]_videoVars => PictureInv'
  BY PictureInvNext
<1> QED BY <1>1, <1>2, PTL DEF VideoSpec

\* However units are lost, late, torn or repeated, queues overflow, windows come and go and
\* routes are offered anew: no window of a reset stream is left a delta that does not
\* follow what it was given before (deliver_video_au, push_h264).
THEOREM PictureStaysWhole == VideoSpec => []PictureIsWhole
<1>1. PictureInv => PictureIsWhole
  BY DEF PictureInv
<1> QED BY <1>1, PictureInvHolds, PTL

\* The stream, its marks, requests and the window's queue have only the shapes the code
\* makes: the queue keeps to its room, the mark to the lags there are.
THEOREM VideoTypeHolds == VideoSpec => []VideoTypeOK
<1>1. PictureInv => VideoTypeOK
  BY TypesFromInv
<1> QED BY <1>1, PictureInvHolds, PTL

HIDE VideoAssumption
-----------------------------------------------------------------------------
(* The three side by side. *)

\* A behaviour of the composition is, to each part of it, one of that part's own or a stutter.
LEMMA LinkParts ==
    [MCNext]_mcVars => [Next]_vars /\ [VideoNext]_videoVars /\ [DialNext]_dialVars
<1> SUFFICES ASSUME [MCNext]_mcVars
             PROVE  [Next]_vars /\ [VideoNext]_videoVars /\ [DialNext]_dialVars
  OBVIOUS
<1>1. CASE UNCHANGED mcVars
  BY <1>1 DEF mcVars
<1>2. CASE OnControl(Next)
  BY <1>2 DEF OnControl
<1>3. CASE OnPicture(VideoNext)
  BY <1>3 DEF OnPicture
<1>4. CASE OnDial(DialNext)
  BY <1>4 DEF OnDial
<1> QED BY <1>1, <1>2, <1>3, <1>4 DEF MCNext

\* What two machines keep and send of a route, its picture and a support dial has only the
\* shapes their code makes, whatever is lost and however often either side starts again.
THEOREM LinkShapesHold == MCSafety => []LinkShapesOK
<1>1. MCInit => TypeOK /\ PictureInv /\ DialInv
  BY InitTypes, PictureInvInit, DialInvInit DEF MCInit
<1>2. /\ TypeOK /\ [Next]_vars => TypeOK'
      /\ PictureInv /\ [VideoNext]_videoVars => PictureInv'
      /\ DialInv /\ [DialNext]_dialVars => DialInv'
  BY StepTypes, PictureInvNext, DialInvNext
<1>3. TypeOK /\ PictureInv /\ DialInv => LinkShapesOK
  BY TypesFromInv, ShapesAreTypes DEF DialInv, LinkShapesOK
<1> QED BY <1>1, <1>2, <1>3, LinkParts, PTL DEF MCSafety
=============================================================================
