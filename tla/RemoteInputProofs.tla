-------------------------- MODULE RemoteInputProofs --------------------------
(***************************************************************************)
(* For any number of control routes, keys, desktops, queued events and     *)
(* leases: a key that is down is remembered by a lease, or by one whose    *)
(* release is on its way, under the settings with which the code keeps     *)
(* that promise.  At the end, keys and consent side by side.               *)
(***************************************************************************)
EXTENDS MCSupport, CecConsentProofs

\* A key injects the same with and without a modifier, and the native desktop takes every event.
InputSettings == SteadyFaces /\ "native" \notin Refusing

-----------------------------------------------------------------------------
(* Types.                                                                                *)

\* Nothing is of a generation that is not minted yet.
AllMinted ==
    /\ \A i \in 1 .. Len(events) : events[i].lease <= minted
    /\ \A g \in Generations : waiting[g] # <<>> => g <= minted

\* What is to be tried waits, and outside of a flush there is nothing to try.
FlushingWaits ==
    /\ worker # "flush" => flushing = {}
    /\ \A g \in flushing : waiting[g] # <<>>

ShapeInv == InputTypeOK /\ AllMinted /\ FlushingWaits

\* The head and the tail of a queue that holds something.
LEMMA HeadTail ==
    ASSUME NEW S, NEW q \in Seq(S), q # <<>>
    PROVE  /\ Head(q) \in S /\ Head(q) = q[1] /\ Len(q) \in Nat /\ 1 \in 1 .. Len(q)
           /\ Tail(q) \in Seq(S) /\ Len(Tail(q)) = Len(q) - 1
           /\ \A i \in 1 .. Len(Tail(q)) : i + 1 \in 1 .. Len(q) /\ Tail(q)[i] = q[i + 1]
  OBVIOUS

\* What a press and a release make of a tracker is of its type.
LEMMA TrackerTyped ==
    ASSUME NEW pressed \in SUBSET (Codes \X Key), NEW code \in Codes
    PROVE  /\ Resolve(pressed, code) \in Key
           /\ Press(pressed, code) \in SUBSET (Codes \X Key)
           /\ Others(pressed, code) \in SUBSET (Codes \X Key)
  BY DEF Resolve, Key, Press, Others

\* A key event names a key.
LEMMA KeyEvent ==
    ASSUME NEW e \in Event
    PROVE  /\ e.control \in Controls /\ e.lease \in Generations
           /\ e.kind \in {"down", "up"} => e.code \in Codes
           /\ e.kind \notin {"down", "up"} => e.kind = "move"
  BY DEF Event

\* Lifting leaves every variable that it writes in its type.
LEMMA LiftTyped ==
    ASSUME InputTypeOK, NEW rs, Lift(rs)
    PROVE  /\ held' \in [Generations -> SUBSET (Codes \X Key)]
           /\ down' \in [Captures \cup {Desk} -> SUBSET Key]
           /\ desktop' \in [Controls -> Captures \cup {0}]
  BY DEF InputTypeOK, Lift

LEMMA ShapeInit ==
    ASSUME InputInit
    PROVE  ShapeInv
  BY InputAssumption DEF InputInit, ShapeInv, InputTypeOK, AllMinted, FlushingWaits, Generations

\* A cancelled release is of the lease that there was.
LEMMA CancelledTyped ==
    ASSUME InputTypeOK, NEW r \in Controls
    PROVE  Cancelled(r) \subseteq Controls \X (1 .. minted)
  <1>1. lease[r] \in 0 .. minted /\ minted \in Nat
    BY InputAssumption DEF InputTypeOK
  <1> QED BY <1>1 DEF Cancelled

LEMMA ShapeRoutes ==
    ASSUME ShapeInv, Routes
    PROVE  ShapeInv'
  <1> USE DEF ShapeInv, Generations
  <1>0. MaxLeases \in Nat /\ minted \in 0 .. MaxLeases /\ EventCap \in Nat
    BY InputAssumption DEF InputTypeOK
  <1>1. ASSUME NEW r \in Controls, BeginControl(r) PROVE ShapeInv'
    <2>1. InputTypeOK'
      <3>1. Cancelled(r) \subseteq Controls \X (1 .. minted)
        BY CancelledTyped
      <3>2. posting' \subseteq Controls \X (1 .. minted') /\ minted' \in 0 .. MaxLeases
        BY <1>0, <1>1, <3>1 DEF BeginControl, InputTypeOK
      <3>3. lease' \in [Controls -> 0 .. minted'] /\ current' \in [Controls -> 0 .. minted']
        BY <1>0, <1>1 DEF BeginControl, InputTypeOK, wayland
      <3> QED BY <1>0, <1>1, <3>2, <3>3 DEF BeginControl, InputTypeOK, wayland, keys
    <2>2. AllMinted' /\ FlushingWaits'
      <3>1. minted' = minted + 1 /\ events' = events /\ UNCHANGED <<waiting, flushing, worker>>
        BY <1>1 DEF BeginControl, wayland
      <3>2. \A i \in 1 .. Len(events) : events[i].lease \in Nat
        BY <1>0 DEF InputTypeOK, Event
      <3> QED BY <1>0, <3>1, <3>2 DEF AllMinted, FlushingWaits
    <2> QED BY <2>1, <2>2
  <1>2. ASSUME NEW r \in Controls, EndControl(r) \/ DisconnectControl(r) \/ FrameDropped(r)
        PROVE  ShapeInv'
    BY <1>0, <1>2 DEF EndControl, DisconnectControl, FrameDropped, InputTypeOK, AllMinted,
                 FlushingWaits, leases, keys, wayland, routes, inputVars
  <1>3. ASSUME NEW r \in Controls, StopControl(r) PROVE ShapeInv'
    <2>1. posting' \subseteq Controls \X (1 .. minted) /\ lease' \in [Controls -> 0 .. minted]
      BY <1>0, <1>3, CancelledTyped DEF StopControl, InputTypeOK
    <2> QED BY <1>0, <1>3, <2>1
            DEF StopControl, InputTypeOK, AllMinted, FlushingWaits, keys, wayland
  <1>4. ASSUME NEW p \in rejecting, RejectControl(p) PROVE ShapeInv'
    BY <1>0, <1>4 DEF RejectControl, InputTypeOK, AllMinted, FlushingWaits, leases, keys, wayland
  <1>5. ASSUME NEW p \in posting, PostRelease(p) PROVE ShapeInv'
    BY <1>0, <1>5 DEF PostRelease, InputTypeOK, AllMinted, FlushingWaits, routes, keys, wayland
  <1>6. ASSUME NEW r \in Controls, NEW kind \in {"down", "up", "move"},
               NEW code \in IF kind = "move" THEN Captures ELSE Codes, Frame(r, code, kind)
        PROVE  ShapeInv'
    <2> DEFINE e == [control |-> r, lease |-> lease[r], code |-> code, kind |-> kind]
    <2>1. /\ lease[r] \in 1 .. minted /\ Len(events) < EventCap /\ events' = Append(events, e)
          /\ worker' \in {worker, "drain"} /\ (worker = "off" => worker' = "drain")
          /\ (worker # "off" => worker' = worker)
          /\ UNCHANGED <<backend, routes, leases, rejecting, releases, keys, wayland, capture>>
      BY <1>0, <1>6 DEF Frame, Admits, InputTypeOK
    <2>2. e \in Event /\ e.lease = lease[r]
      BY <1>0, <1>6, <2>1 DEF Event
    <2>3. events' \in Seq(Event) /\ Len(events') = Len(events) + 1 /\ Len(events) \in Nat
      BY <2>1, <2>2 DEF InputTypeOK
    <2>4. \A i \in 1 .. Len(events') : events'[i] \in {events[j] : j \in 1 .. Len(events)} \cup {e}
      BY <2>1, <2>2, <2>3 DEF InputTypeOK
    <2>5. InputTypeOK'
      BY <1>0, <2>1, <2>3 DEF InputTypeOK, routes, leases, keys, wayland
    <2>6. AllMinted' /\ FlushingWaits'
      <3> HIDE DEF e
      <3>1. minted' = minted /\ waiting' = waiting /\ flushing' = flushing
        BY <2>1 DEF leases, wayland
      <3>2. \A i \in 1 .. Len(events') : events'[i].lease <= minted
        BY <1>0, <2>1, <2>2, <2>4 DEF AllMinted
      <3> QED BY <2>1, <3>1, <3>2 DEF AllMinted, FlushingWaits
    <2> QED BY <2>5, <2>6
  <1> HIDE DEF ShapeInv
  <1>7. ASSUME NEW r \in Controls, NEW k \in Codes, Frame(r, k, "down") \/ Frame(r, k, "up")
        PROVE  ShapeInv'
    <2>1. CASE Frame(r, k, "down")  BY <2>1, <1>6
    <2>2. CASE Frame(r, k, "up")    BY <2>2, <1>6
    <2> QED BY <1>7, <2>1, <2>2
  <1>8. \A r \in Controls : \A c \in Captures : Frame(r, c, "move") => ShapeInv'
    BY <1>6
  <1> QED BY <1>1, <1>2, <1>3, <1>4, <1>5, <1>7, <1>8 DEF Routes

LEMMA ShapeDesktops ==
    ASSUME ShapeInv, Desktops
    PROVE  ShapeInv'
  <1> USE DEF ShapeInv
  <1>1. ASSUME NEW c \in Captures, OpenCapture(c) \/ SessionDies(c) \/ Unregister(c)
        PROVE  ShapeInv'
    BY <1>1 DEF OpenCapture, SessionDies, Unregister, InputTypeOK, AllMinted, FlushingWaits,
                routes, leases, keys, wayland
  <1>2. ASSUME NEW c \in Captures, LiftCapture(c) PROVE ShapeInv'
    BY <1>2, LiftTyped DEF LiftCapture, InputTypeOK, AllMinted, FlushingWaits, routes, leases
  <1> QED BY <1>1, <1>2 DEF Desktops

\* What every action of the worker keeps but for its queues.
LEMMA ShapeNative ==
    ASSUME ShapeInv, DrainNative \/ TakeNothing \/ \E refused \in BOOLEAN : TakeNative(refused)
    PROVE  ShapeInv'
  <1> USE DEF ShapeInv, Generations
  <1>0. MaxLeases \in Nat /\ minted \in 0 .. MaxLeases /\ EventCap \in Nat
    BY InputAssumption DEF InputTypeOK
  <1>1. CASE DrainNative
    BY <1>0, <1>1 DEF DrainNative, InputTypeOK, AllMinted, FlushingWaits, routes, leases, wayland
  <1>2. CASE TakeNothing
    BY <1>0, <1>2 DEF TakeNothing, InputTypeOK, AllMinted, FlushingWaits, routes, leases, keys
  <1>3. ASSUME NEW refused \in BOOLEAN, TakeNative(refused)
        PROVE  ShapeInv'
    <2> DEFINE e == Head(events)
    <2>1. /\ e \in Event /\ e = events[1] /\ Len(events) \in Nat /\ 1 \in 1 .. Len(events)
          /\ events' \in Seq(Event) /\ Len(events') = Len(events) - 1
          /\ \A i \in 1 .. Len(events') : i + 1 \in 1 .. Len(events) /\ events'[i] = events[i + 1]
      BY <1>3, HeadTail DEF TakeNative, InputTypeOK
    <2>2. /\ e.control \in Controls /\ e.lease \in Generations /\ e.lease <= minted
          /\ e.kind \in {"down", "up"} => e.code \in Codes
      BY <2>1, KeyEvent DEF AllMinted
    <2>3. e.kind = "down" => Press(held[e.lease], e.code) \in SUBSET (Codes \X Key)
      BY <2>2, TrackerTyped DEF InputTypeOK
    <2>4. e.kind = "up" => Others(held[e.lease], e.code) \in SUBSET (Codes \X Key)
      BY <2>2, TrackerTyped DEF InputTypeOK
    <2>5. e.kind = "down" => Resolve(held[e.lease], e.code) \in Key
      BY <2>2, TrackerTyped DEF InputTypeOK
    <2>6. rejecting' \subseteq Controls \X (1 .. minted)
      BY <1>0, <1>3, <2>2 DEF TakeNative, InputTypeOK
    <2>7. held' \in [Generations -> SUBSET (Codes \X Key)]
      <3> HIDE DEF Generations
      <3> QED BY <1>3, <2>2, <2>3, <2>4 DEF TakeNative, InputTypeOK
    <2>8. down' \in [Captures \cup {Desk} -> SUBSET Key]
      BY <1>3, <2>5 DEF TakeNative, InputTypeOK
    <2>9. InputTypeOK'
      BY <1>0, <1>3, <2>1, <2>6, <2>7, <2>8 DEF TakeNative, InputTypeOK, routes, leases, wayland
    <2>10. AllMinted' /\ FlushingWaits'
      BY <1>0, <1>3, <2>1 DEF TakeNative, AllMinted, FlushingWaits, routes, leases, wayland
    <2> QED BY <2>9, <2>10
  <1> QED BY <1>1, <1>2, <1>3

\* A route's failure leaves the shapes, whatever the state it is in.
LEMMA FailsTyped ==
    ASSUME InputTypeOK, NEW r \in Controls, NEW g \in 1 .. minted, NEW rs, Fails(r, g, rs)
    PROVE  /\ held' \in [Generations -> SUBSET (Codes \X Key)]
           /\ down' \in [Captures \cup {Desk} -> SUBSET Key]
           /\ desktop' \in [Controls -> Captures \cup {0}]
           /\ current' \in [Controls -> 0 .. minted]
           /\ failed' \subseteq 1 .. minted /\ rejecting' \subseteq Controls \X (1 .. minted)
           /\ waiting' \in [Generations -> Seq(Event)]
           /\ waiting' = [waiting EXCEPT ![g] = <<>>]
  <1>1. minted \in Nat /\ Lift(rs)
    BY InputAssumption DEF InputTypeOK, Fails
  <1>2. /\ held' \in [Generations -> SUBSET (Codes \X Key)]
        /\ down' \in [Captures \cup {Desk} -> SUBSET Key]
        /\ desktop' \in [Controls -> Captures \cup {0}]
    BY <1>1, LiftTyped
  <1>3. waiting' = [waiting EXCEPT ![g] = <<>>] /\ waiting' \in [Generations -> Seq(Event)]
    <2>1. <<>> \in Seq(Event)
      OBVIOUS
    <2> QED BY <2>1 DEF Fails, InputTypeOK
  <1> QED BY <1>1, <1>2, <1>3 DEF Fails, InputTypeOK

LEMMA ShapeTake ==
    ASSUME ShapeInv, DrainWayland \/ TakeWayland
    PROVE  ShapeInv'
  <1> USE DEF ShapeInv, Generations
  <1>0. MaxLeases \in Nat /\ minted \in 0 .. MaxLeases /\ EventCap \in Nat
    BY InputAssumption DEF InputTypeOK
  <1>1. CASE DrainWayland
    <2>1. PICK rs : Lift(rs) /\ current' = [r \in Controls |-> IF r \in rs THEN 0 ELSE current[r]]
      BY <1>1 DEF DrainWayland
    <2>2. /\ held' \in [Generations -> SUBSET (Codes \X Key)]
          /\ down' \in [Captures \cup {Desk} -> SUBSET Key]
          /\ desktop' \in [Controls -> Captures \cup {0}]
      BY <2>1, LiftTyped
    <2>3. current' \in [Controls -> 0 .. minted]
      BY <1>0, <2>1 DEF InputTypeOK
    <2>4. /\ waiting' \in [Generations -> Seq(Event)]
          /\ \A g \in Generations : waiting'[g] \in {<<>>, waiting[g]}
      BY <1>1 DEF DrainWayland, InputTypeOK
    <2>5. InputTypeOK'
      BY <1>0, <1>1, <2>2, <2>3, <2>4 DEF DrainWayland, InputTypeOK, routes, leases
    <2> QED BY <1>0, <1>1, <2>4, <2>5 DEF DrainWayland, AllMinted, FlushingWaits, leases
  <1>2. CASE TakeWayland
    <2> DEFINE e == Head(events)
    <2>1. /\ e \in Event /\ e = events[1] /\ Len(events) \in Nat /\ 1 \in 1 .. Len(events)
          /\ events' \in Seq(Event) /\ Len(events') = Len(events) - 1
          /\ \A i \in 1 .. Len(events') : i + 1 \in 1 .. Len(events) /\ events'[i] = events[i + 1]
      BY <1>2, HeadTail DEF TakeWayland, InputTypeOK
    <2>2. e.control \in Controls /\ e.lease \in 1 .. minted /\ e.lease \in Generations
      BY <1>0, <2>1, KeyEvent DEF AllMinted
    <2>3. UNCHANGED <<backend, routes, leases, releases, capture>> /\ flushing = {} /\ worker = "take"
      BY <1>2 DEF TakeWayland, FlushingWaits
    <2>4. \A i \in 1 .. Len(events') : events'[i].lease <= minted
      BY <1>0, <2>1 DEF AllMinted
    <2>5. CASE worker' = "drain" /\ UNCHANGED <<wayland, keys, rejecting>>
      BY <1>0, <2>1, <2>3, <2>4, <2>5
         DEF InputTypeOK, AllMinted, FlushingWaits, routes, leases, keys, wayland
    <2>6. CASE /\ worker' = "drain" /\ flushing' = flushing
               /\ Fails(e.control, e.lease, {r \in {e.control} : current[r] = e.lease})
      <3>1. /\ held' \in [Generations -> SUBSET (Codes \X Key)]
            /\ down' \in [Captures \cup {Desk} -> SUBSET Key]
            /\ desktop' \in [Controls -> Captures \cup {0}]
            /\ current' \in [Controls -> 0 .. minted]
            /\ failed' \subseteq 1 .. minted /\ rejecting' \subseteq Controls \X (1 .. minted)
            /\ waiting' \in [Generations -> Seq(Event)]
            /\ waiting' = [waiting EXCEPT ![e.lease] = <<>>]
        <4> HIDE DEF e, Generations
        <4> QED BY <2>2, <2>6, FailsTyped
      <3>2. InputTypeOK'
        BY <1>0, <2>1, <2>3, <2>6, <3>1 DEF InputTypeOK, routes, leases
      <3> QED BY <1>0, <2>2, <2>3, <2>4, <2>6, <3>1, <3>2
              DEF AllMinted, FlushingWaits, InputTypeOK, leases
    <2>7. CASE /\ waiting' = [waiting EXCEPT ![e.lease] = Append(@, e)]
               /\ flushing' = {h \in Generations : waiting'[h] # <<>>} /\ worker' = "flush"
               /\ UNCHANGED <<current, failed, desktop, keys, rejecting>>
      <3>1. waiting' \in [Generations -> Seq(Event)]
        BY <2>1, <2>2, <2>7 DEF InputTypeOK
      <3>2. \A h \in Generations : waiting'[h] # <<>> => h <= minted
        <4>1. \A h \in Generations \ {e.lease} : waiting'[h] = waiting[h]
          BY <2>7 DEF InputTypeOK
        <4> QED BY <1>0, <2>2, <4>1 DEF AllMinted
      <3>3. flushing' \subseteq 1 .. minted
        BY <1>0, <2>7, <3>2
      <3>4. InputTypeOK'
        BY <1>0, <2>1, <2>3, <2>7, <3>1, <3>3 DEF InputTypeOK, routes, leases, keys
      <3> QED BY <2>3, <2>4, <2>7, <3>2, <3>4 DEF AllMinted, FlushingWaits, leases
    <2> QED BY <1>2, <2>5, <2>6, <2>7 DEF TakeWayland
  <1> QED BY <1>1, <1>2

LEMMA ShapeFlush ==
    ASSUME ShapeInv, NEW g \in flushing,
           \/ FlushDrops(g) \/ FlushReplaces(g) \/ FlushWaits(g) \/ FlushFails(g)
           \/ \E c \in Captures : FlushApplies(g, c)
    PROVE  ShapeInv'
  <1> USE DEF ShapeInv
  <1> DEFINE e == Head(waiting[g])
  <1>0. MaxLeases \in Nat /\ minted \in 0 .. MaxLeases /\ EventCap \in Nat
    BY InputAssumption DEF InputTypeOK
  <1>1. /\ g \in 1 .. minted /\ g \in Generations /\ waiting[g] \in Seq(Event) /\ waiting[g] # <<>>
        /\ worker = "flush"
    BY <1>0 DEF InputTypeOK, Generations, FlushingWaits
  <1>2. /\ e \in Event /\ e.control \in Controls /\ (e.kind \in {"down", "up"} => e.code \in Codes)
        /\ Tail(waiting[g]) \in Seq(Event) /\ <<>> \in Seq(Event)
    BY <1>1, HeadTail, KeyEvent
  <1>3. ASSUME NEW over \in BOOLEAN, Tried(g, over)
        PROVE  /\ UNCHANGED <<backend, routes, leases, events, releases, capture>>
               /\ flushing' \in {flushing, flushing \ {g}} /\ (over => flushing' = flushing \ {g})
               /\ worker' = IF flushing' = {} THEN "drain" ELSE "flush"
    BY <1>3 DEF Tried
  <1>4. ASSUME /\ held' \in [Generations -> SUBSET (Codes \X Key)]
               /\ down' \in [Captures \cup {Desk} -> SUBSET Key]
               /\ desktop' \in [Controls -> Captures \cup {0}]
               /\ current' \in [Controls -> 0 .. minted]
               /\ failed' \subseteq 1 .. minted /\ rejecting' \subseteq Controls \X (1 .. minted)
               /\ waiting' \in [Generations -> Seq(Event)]
               /\ \A h \in Generations \ {g} : waiting'[h] = waiting[h],
               NEW over \in BOOLEAN, Tried(g, over),
               ~over => waiting'[g] # <<>>
        PROVE  ShapeInv'
    <2>1. InputTypeOK'
      BY <1>0, <1>3, <1>4 DEF InputTypeOK, routes, leases
    <2>2. AllMinted'
      BY <1>0, <1>1, <1>3, <1>4 DEF AllMinted, leases, Generations
    <2>3. FlushingWaits'
      <3>1. /\ flushing' \in {flushing, flushing \ {g}} /\ (over => flushing' = flushing \ {g})
            /\ worker' = IF flushing' = {} THEN "drain" ELSE "flush"
        BY <1>3, <1>4
      <3>2. \A h \in flushing : waiting[h] # <<>> /\ h \in Generations
        BY <1>0 DEF FlushingWaits, InputTypeOK, Generations
      <3> QED BY <1>4, <3>1, <3>2 DEF FlushingWaits
    <2> QED BY <2>1, <2>2, <2>3
  <1>5. ASSUME NEW rs, Lift(rs)
        PROVE  /\ held' \in [Generations -> SUBSET (Codes \X Key)]
               /\ down' \in [Captures \cup {Desk} -> SUBSET Key]
               /\ desktop' \in [Controls -> Captures \cup {0}]
    BY <1>5, LiftTyped
  <1>6. CASE FlushDrops(g)
    <2>1. PICK rs : Lift(rs) /\ current' = [r \in Controls |-> IF r \in rs THEN 0 ELSE current[r]]
      BY <1>6 DEF FlushDrops
    <2>2. /\ waiting' = [waiting EXCEPT ![g] = <<>>] /\ Tried(g, TRUE)
          /\ UNCHANGED <<rejecting, failed>>
      BY <1>6 DEF FlushDrops
    <2>3. /\ waiting' \in [Generations -> Seq(Event)]
          /\ \A h \in Generations \ {g} : waiting'[h] = waiting[h]
      BY <1>1, <1>2, <2>2 DEF InputTypeOK
    <2>4. /\ current' \in [Controls -> 0 .. minted]
          /\ failed' \subseteq 1 .. minted /\ rejecting' \subseteq Controls \X (1 .. minted)
      BY <1>0, <2>1, <2>2 DEF InputTypeOK
    <2> QED BY <1>4, <1>5, <2>1, <2>2, <2>3, <2>4
  <1>7. CASE FlushReplaces(g)
    <2>1. /\ Lift({e.control}) /\ current' = [current EXCEPT ![e.control] = g]
          /\ Tried(g, FALSE) /\ UNCHANGED <<rejecting, failed, waiting>>
      BY <1>7 DEF FlushReplaces
    <2>2. /\ current' \in [Controls -> 0 .. minted] /\ waiting' \in [Generations -> Seq(Event)]
          /\ failed' \subseteq 1 .. minted /\ rejecting' \subseteq Controls \X (1 .. minted)
      <3>1. g \in 0 .. minted
        BY <1>0, <1>1
      <3>2. current' \in [Controls -> 0 .. minted]
        BY <2>1, <3>1 DEF InputTypeOK
      <3> QED BY <2>1, <3>2 DEF InputTypeOK
    <2>3. waiting'[g] # <<>> /\ \A h \in Generations \ {g} : waiting'[h] = waiting[h]
      BY <1>1, <2>1
    <2>4. /\ held' \in [Generations -> SUBSET (Codes \X Key)]
          /\ down' \in [Captures \cup {Desk} -> SUBSET Key]
          /\ desktop' \in [Controls -> Captures \cup {0}]
      BY <1>5, <2>1
    <2>5. Tried(g, FALSE)
      BY <2>1
    <2> HIDE DEF e
    <2> QED BY <1>4, <2>2, <2>3, <2>4, <2>5
  <1>8. CASE FlushWaits(g)
    <2>1. /\ current' = [current EXCEPT ![e.control] = g]
          /\ Tried(g, TRUE) /\ UNCHANGED <<rejecting, held, down, failed, desktop, waiting>>
      BY <1>8 DEF FlushWaits, keys
    <2>2. /\ current' \in [Controls -> 0 .. minted] /\ waiting' \in [Generations -> Seq(Event)]
          /\ failed' \subseteq 1 .. minted /\ rejecting' \subseteq Controls \X (1 .. minted)
          /\ held' \in [Generations -> SUBSET (Codes \X Key)]
          /\ down' \in [Captures \cup {Desk} -> SUBSET Key]
          /\ desktop' \in [Controls -> Captures \cup {0}]
      <3>1. g \in 0 .. minted
        BY <1>0, <1>1
      <3>2. current' \in [Controls -> 0 .. minted]
        BY <2>1, <3>1 DEF InputTypeOK
      <3> QED BY <2>1, <3>2 DEF InputTypeOK
    <2>3. \A h \in Generations \ {g} : waiting'[h] = waiting[h]
      BY <2>1
    <2>4. Tried(g, TRUE)
      BY <2>1
    <2> HIDE DEF e
    <2> QED BY <1>4, <2>2, <2>3, <2>4
  <1>9. CASE FlushFails(g)
    <2> HIDE DEF ShapeInv
    <2>1. InputTypeOK /\ Fails(e.control, g, {e.control}) /\ Tried(g, TRUE)
      BY <1>9 DEF FlushFails, ShapeInv
    <2>2. /\ held' \in [Generations -> SUBSET (Codes \X Key)]
          /\ down' \in [Captures \cup {Desk} -> SUBSET Key]
          /\ desktop' \in [Controls -> Captures \cup {0}]
          /\ current' \in [Controls -> 0 .. minted]
          /\ failed' \subseteq 1 .. minted /\ rejecting' \subseteq Controls \X (1 .. minted)
          /\ waiting' \in [Generations -> Seq(Event)]
          /\ waiting' = [waiting EXCEPT ![g] = <<>>]
      <3> HIDE DEF e
      <3> QED BY <1>1, <1>2, <2>1, FailsTyped
    <2>3. \A h \in Generations \ {g} : waiting'[h] = waiting[h]
      BY <2>1, <2>2 DEF InputTypeOK
    <2> QED BY <1>4, <2>1, <2>2, <2>3
  <1>10. ASSUME NEW c \in Captures, FlushApplies(g, c)
         PROVE  ShapeInv'
    <2> DEFINE left == IF desktop[e.control] \in {0, c} THEN {} ELSE held[g]
               kept == held[g] \ left
    <2>1. kept \in SUBSET (Codes \X Key)
      BY <1>1 DEF InputTypeOK
    <2>2. e.kind = "down" => /\ Press(kept, e.code) \in SUBSET (Codes \X Key)
                             /\ Resolve(kept, e.code) \in Key
      BY <1>2, <2>1, TrackerTyped
    <2>3. e.kind = "up" => Others(kept, e.code) \in SUBSET (Codes \X Key)
      BY <1>2, <2>1, TrackerTyped
    <2>4. held' \in [Generations -> SUBSET (Codes \X Key)]
      BY <1>1, <1>10, <2>1, <2>2, <2>3 DEF FlushApplies, InputTypeOK
    <2>5. down' \in [Captures \cup {Desk} -> SUBSET Key]
      <3>1. \A d \in Captures \cup {Desk} : down[d] \in SUBSET Key
        BY DEF InputTypeOK
      <3>2. DOMAIN down = Captures \cup {Desk}
        BY DEF InputTypeOK
      <3> QED BY <1>10, <2>2, <3>1, <3>2 DEF FlushApplies
    <2>6. /\ desktop' \in [Controls -> Captures \cup {0}] /\ current' \in [Controls -> 0 .. minted]
          /\ UNCHANGED <<rejecting, failed>>
          /\ waiting' \in [Generations -> Seq(Event)] /\ waiting'[g] = Tail(waiting[g])
          /\ \A h \in Generations \ {g} : waiting'[h] = waiting[h]
          /\ Tried(g, waiting'[g] = <<>>)
      <3>1. /\ desktop' = [desktop EXCEPT ![e.control] = c]
            /\ current' = [current EXCEPT ![e.control] = g]
            /\ waiting' = [waiting EXCEPT ![g] = Tail(@)]
            /\ Tried(g, waiting'[g] = <<>>) /\ UNCHANGED <<rejecting, failed>>
        BY <1>10 DEF FlushApplies
      <3>2. /\ desktop \in [Controls -> Captures \cup {0}] /\ current \in [Controls -> 0 .. minted]
            /\ waiting \in [Generations -> Seq(Event)]
        BY DEF InputTypeOK
      <3> QED BY <1>0, <1>1, <1>2, <3>1, <3>2
    <2>7. failed' \subseteq 1 .. minted /\ rejecting' \subseteq Controls \X (1 .. minted)
      BY <2>6 DEF InputTypeOK
    <2> QED BY <1>4, <2>4, <2>5, <2>6, <2>7
  <1> QED BY <1>6, <1>7, <1>8, <1>9, <1>10

LEMMA ShapeStep ==
    ASSUME ShapeInv, [InputNext]_inputVars
    PROVE  ShapeInv'
  <1>1. CASE Routes
    BY <1>1, ShapeRoutes
  <1>2. CASE Worker
    BY <1>2, ShapeNative, ShapeTake, ShapeFlush DEF Worker
  <1>3. CASE Desktops
    BY <1>3, ShapeDesktops
  <1>4. CASE UNCHANGED inputVars
    BY <1>4 DEF inputVars, ShapeInv, InputTypeOK, AllMinted, FlushingWaits, routes, leases, keys,
                wayland
  <1> QED BY <1>1, <1>2, <1>3, <1>4 DEF InputNext

\* The leases, the queues and the trackers keep the shapes that the code gives them, whatever
\* the settings: the queue is within INPUT_QUEUE_CAP, and nothing is of a lease never minted.
THEOREM InputTypeHolds == InputSpec => []InputTypeOK
  <1>1. InputSpec => []ShapeInv
    BY ShapeInit, ShapeStep, PTL DEF InputSpec
  <1>2. ShapeInv => InputTypeOK
    BY DEF ShapeInv
  <1> QED BY <1>1, <1>2, PTL

-----------------------------------------------------------------------------
(* Keys.                                                                                 *)

\* f says which route each generation was minted for: all that is on its way agrees.
Owners(f) ==
    /\ \A r \in Controls : lease[r] # 0 => f[lease[r]] = r
    /\ \A r \in Controls : current[r] # 0 => f[current[r]] = r
    /\ \A i \in 1 .. Len(events) : f[events[i].lease] = events[i].control
    /\ \A g \in Generations : \A i \in 1 .. Len(waiting[g]) : waiting[g][i].control = f[g]

HaveOwners == \E f \in [Generations -> Controls \cup {0}] : Owners(f)

\* What each backend leaves alone, and a worker that was never started.
OtherIdle ==
    /\ backend = "native" => \A r \in Controls : desktop[r] = 0
    /\ worker = "off" => \A g \in Generations : held[g] = {}

BoundIsCurrent == \A r \in Controls : desktop[r] # 0 => current[r] # 0

HeldByFace == \A g \in Generations : \A p \in held[g] : p[2] = <<p[1], "face">>

\* Route r answers for generation g: it has its lease, or its release is on the way.
Answering(r, g) == lease[r] = g \/ <<r, g>> \in posting \cup releases

HeldIsAnswered ==
    \A g \in Generations : held[g] # {} =>
        \E r \in Controls : Answering(r, g) /\ (backend = "wayland" => current[r] = g)

\* Generation g has its keys on desktop d.
HeldAt(g, d) ==
    IF d = Desk THEN backend = "native" ELSE \E r \in Controls : desktop[r] = d /\ current[r] = g

DownIsHeld ==
    \A d \in Captures \cup {Desk} : \A k \in down[d] :
        \E g \in Generations : k \in Held(g) /\ HeldAt(g, d)

KeyFacts == BoundIsCurrent /\ HeldByFace /\ HeldIsAnswered /\ DownIsHeld

KeyInv == ShapeInv /\ HaveOwners /\ OtherIdle /\ KeyFacts

LEMMA KeyInit ==
    ASSUME InputInit, InputSettings
    PROVE  KeyInv
  <1>1. ShapeInv
    BY ShapeInit
  <1>2. HaveOwners
    <2> DEFINE f == [g \in Generations |-> 0]
    <2>1. f \in [Generations -> Controls \cup {0}] /\ Owners(f)
      BY DEF InputInit, Owners
    <2> QED BY <2>1 DEF HaveOwners
  <1>3. OtherIdle /\ KeyFacts
    BY DEF InputInit, OtherIdle, KeyFacts, BoundIsCurrent, HeldByFace, HeldIsAnswered, DownIsHeld
  <1> QED BY <1>1, <1>2, <1>3 DEF KeyInv

\* What is on its way from one owner leads to one owner: nothing but a new lease needs a new f.
LEMMA OwnersKept ==
    ASSUME ShapeInv, NEW f \in [Generations -> Controls \cup {0}], Owners(f),
           \A r \in Controls : lease'[r] \in {0, lease[r]},
           \A r \in Controls : current'[r] # 0 => f[current'[r]] = r,
           \A i \in 1 .. Len(events') : f[events'[i].lease] = events'[i].control,
           \A g \in Generations : \A i \in 1 .. Len(waiting'[g]) : waiting'[g][i].control = f[g]
    PROVE  Owners(f)' /\ HaveOwners'
  <1>1. Owners(f)'
    BY DEF Owners
  <1> QED BY <1>1 DEF HaveOwners, Generations

LEMMA OwnersRoutes ==
    ASSUME ShapeInv, HaveOwners, Routes
    PROVE  HaveOwners'
  <1>0. PICK f \in [Generations -> Controls \cup {0}] : Owners(f)
    BY DEF HaveOwners
  <1>1. /\ \A r \in Controls : lease[r] \in 0 .. minted /\ current[r] \in 0 .. minted
        /\ minted \in 0 .. MaxLeases /\ MaxLeases \in Nat
        /\ \A i \in 1 .. Len(events) : events[i].lease \in Generations /\ events[i].lease <= minted
        /\ \A g \in Generations : waiting[g] # <<>> => g <= minted
        /\ lease \in [Controls -> 0 .. minted] /\ events \in Seq(Event)
    BY InputAssumption, KeyEvent DEF ShapeInv, InputTypeOK, AllMinted
  <1>2. ASSUME NEW r \in Controls, BeginControl(r) PROVE HaveOwners'
    <2> DEFINE m == minted + 1
               f2 == [f EXCEPT ![m] = r]
    <2>1. /\ m \in Generations /\ lease' = [lease EXCEPT ![r] = m]
          /\ UNCHANGED <<current, events, waiting>>
      BY <1>1, <1>2 DEF BeginControl, Generations, wayland
    <2>2. f2 \in [Generations -> Controls \cup {0}] /\ f2[m] = r
      BY <2>1
    <2>3. \A g \in Generations : g # m => f2[g] = f[g]
      BY <2>1
    <2>4. \A q \in Controls : lease'[q] # 0 => f2[lease'[q]] = q
      <3>1. ASSUME NEW q \in Controls, q # r, lease'[q] # 0 PROVE f2[lease'[q]] = q
        <4>1. lease'[q] = lease[q] /\ lease[q] # m /\ lease[q] \in Generations
          BY <1>1, <2>1, <3>1 DEF Generations
        <4> QED BY <1>0, <2>3, <3>1, <4>1 DEF Owners
      <3>2. lease'[r] = m
        BY <1>1, <2>1
      <3> QED BY <2>2, <3>1, <3>2
    <2>5. \A q \in Controls : current'[q] # 0 => f2[current'[q]] = q
      <3>1. ASSUME NEW q \in Controls, current'[q] # 0 PROVE f2[current'[q]] = q
        <4>1. current'[q] = current[q] /\ current[q] # m /\ current[q] \in Generations
          BY <1>1, <2>1, <3>1 DEF Generations
        <4> QED BY <1>0, <2>3, <3>1, <4>1 DEF Owners
      <3> QED BY <3>1
    <2>6. \A i \in 1 .. Len(events') : f2[events'[i].lease] = events'[i].control
      <3>1. ASSUME NEW i \in 1 .. Len(events) PROVE f2[events[i].lease] = events[i].control
        <4>1. events[i].lease # m /\ events[i].lease \in Generations
          BY <1>1
        <4> QED BY <1>0, <2>3, <4>1 DEF Owners
      <3> QED BY <2>1, <3>1
    <2>7. \A g \in Generations : \A i \in 1 .. Len(waiting'[g]) : waiting'[g][i].control = f2[g]
      <3>1. ASSUME NEW g \in Generations, NEW i \in 1 .. Len(waiting[g])
            PROVE  waiting[g][i].control = f2[g]
        <4>1. waiting[g] # <<>>
          OBVIOUS
        <4>2. g # m
          BY <1>1, <4>1
        <4> QED BY <1>0, <2>3, <4>2 DEF Owners
      <3> QED BY <2>1, <3>1
    <2>8. PICK h \in [Generations -> Controls \cup {0}] :
             /\ \A q \in Controls : lease'[q] # 0 => h[lease'[q]] = q
             /\ \A q \in Controls : current'[q] # 0 => h[current'[q]] = q
             /\ \A i \in 1 .. Len(events') : h[events'[i].lease] = events'[i].control
             /\ \A g \in Generations : \A i \in 1 .. Len(waiting'[g]) : waiting'[g][i].control = h[g]
      <3> HIDE DEF f2
      <3> QED BY <2>2, <2>4, <2>5, <2>6, <2>7
    <2>9. Owners(h)'
      BY <2>8 DEF Owners
    <2> QED BY <2>9 DEF HaveOwners, Generations
  <1>3. ASSUME NEW r \in Controls,
               \/ EndControl(r) \/ DisconnectControl(r) \/ FrameDropped(r) \/ StopControl(r)
               \/ \E p \in rejecting : RejectControl(p)
               \/ \E p \in posting : PostRelease(p)
        PROVE  HaveOwners'
    <2>1. /\ \A q \in Controls : lease'[q] \in {0, lease[q]}
          /\ UNCHANGED <<current, events, waiting>>
      BY <1>1, <1>3 DEF EndControl, DisconnectControl, FrameDropped, StopControl, RejectControl,
                   PostRelease, leases, wayland, inputVars
    <2> QED BY <1>0, <2>1, OwnersKept DEF Owners
  <1>4. ASSUME NEW r \in Controls, NEW code, NEW kind, Frame(r, code, kind)
        PROVE  HaveOwners'
    <2> DEFINE e == [control |-> r, lease |-> lease[r], code |-> code, kind |-> kind]
    <2>1. lease[r] # 0 /\ events' = Append(events, e) /\ UNCHANGED <<lease, current, waiting>>
      BY <1>4 DEF Frame, Admits, leases, wayland
    <2>2. \A i \in 1 .. Len(events') :
             (i \in 1 .. Len(events) /\ events'[i] = events[i]) \/ events'[i] = e
      BY <1>1, <2>1
    <2>3. f[e.lease] = e.control
      BY <1>0, <2>1 DEF Owners
    <2>4. \A i \in 1 .. Len(events') : f[events'[i].lease] = events'[i].control
      <3> HIDE DEF e
      <3> QED BY <1>0, <2>2, <2>3 DEF Owners
    <2>5. UNCHANGED <<lease, current, waiting>>
      BY <2>1
    <2> QED BY <1>0, <2>4, <2>5, OwnersKept DEF Owners
  <1>5. \A p \in posting \cup rejecting : Controls # {}
    BY DEF ShapeInv, InputTypeOK
  <1> QED BY <1>2, <1>3, <1>4, <1>5 DEF Routes

LEMMA OwnersRest ==
    ASSUME ShapeInv, HaveOwners, Worker \/ Desktops \/ UNCHANGED inputVars
    PROVE  HaveOwners'
  <1>0. PICK f \in [Generations -> Controls \cup {0}] : Owners(f)
    BY DEF HaveOwners
  <1> USE DEF ShapeInv
  <1>1. /\ \A r \in Controls : lease[r] \in 0 .. minted /\ current[r] \in 0 .. minted
        /\ minted \in 0 .. MaxLeases /\ MaxLeases \in Nat
        /\ events \in Seq(Event) /\ \A g \in Generations : waiting[g] \in Seq(Event)
        /\ lease \in [Controls -> 0 .. minted] /\ waiting \in [Generations -> Seq(Event)]
        /\ current \in [Controls -> 0 .. minted]
    BY InputAssumption DEF InputTypeOK
  <1>2. CASE UNCHANGED inputVars \/ TakeNothing \/ Desktops
    <2>1. UNCHANGED <<lease, current, events, waiting>>
      BY <1>2 DEF inputVars, leases, wayland, TakeNothing, Desktops, OpenCapture, SessionDies,
                  Unregister, LiftCapture
    <2> QED BY <1>0, <2>1, OwnersKept DEF Owners
  <1>3. CASE DrainNative \/ DrainWayland
    <2>1. /\ UNCHANGED <<lease, events>>
          /\ \A r \in Controls : current'[r] \in {0, current[r]}
          /\ \A g \in Generations : waiting'[g] \in {<<>>, waiting[g]}
      BY <1>3 DEF DrainNative, DrainWayland, leases, wayland
    <2>2. \A g \in Generations : \A i \in 1 .. Len(waiting'[g]) : waiting'[g][i].control = f[g]
      <3>1. ASSUME NEW g \in Generations, NEW i \in 1 .. Len(waiting'[g])
            PROVE  waiting'[g][i].control = f[g]
        <4>1. waiting'[g] = waiting[g]
          BY <2>1
        <4> QED BY <1>0, <3>1, <4>1 DEF Owners
      <3> QED BY <3>1
    <2>3. \A r \in Controls : current'[r] # 0 => f[current'[r]] = r
      BY <1>0, <2>1 DEF Owners
    <2>4. \A i \in 1 .. Len(events') : f[events'[i].lease] = events'[i].control
      BY <1>0, <2>1 DEF Owners
    <2>5. UNCHANGED lease
      BY <2>1
    <2> QED BY <1>0, <2>2, <2>3, <2>4, <2>5, OwnersKept
  <1>4. CASE TakeWayland \/ \E refused \in BOOLEAN : TakeNative(refused)
    <2> DEFINE e == Head(events)
    <2>1. /\ e \in Event /\ e = events[1] /\ 1 \in 1 .. Len(events)
          /\ \A i \in 1 .. Len(events') : i + 1 \in 1 .. Len(events) /\ events'[i] = events[i + 1]
      BY <1>1, <1>4, HeadTail DEF TakeWayland, TakeNative
    <2>2. e.lease \in Generations /\ f[e.lease] = e.control
      BY <1>0, <2>1, KeyEvent DEF Owners
    <2>3. \A i \in 1 .. Len(events') : f[events'[i].lease] = events'[i].control
      BY <1>0, <2>1 DEF Owners
    <2>4. UNCHANGED lease /\ \A r \in Controls : current'[r] \in {0, current[r]}
      BY <1>4 DEF TakeWayland, TakeNative, Fails, leases, wayland
    <2>5. \/ waiting' = waiting \/ waiting' = [waiting EXCEPT ![e.lease] = <<>>]
          \/ waiting' = [waiting EXCEPT ![e.lease] = Append(@, e)]
      BY <1>4 DEF TakeWayland, TakeNative, Fails, wayland
    <2>6. \A g \in Generations : \A i \in 1 .. Len(waiting'[g]) : waiting'[g][i].control = f[g]
      <3>1. ASSUME NEW g \in Generations, NEW i \in 1 .. Len(waiting'[g])
            PROVE  waiting'[g][i].control = f[g]
        <4>1. CASE waiting'[g] = waiting[g]
          BY <1>0, <3>1, <4>1 DEF Owners
        <4>2. CASE waiting'[g] # waiting[g]
          <5>1. g = e.lease /\ waiting'[g] \in {<<>>, Append(waiting[g], e)}
            BY <1>1, <2>2, <2>5, <4>2
          <5>2. waiting'[g] = Append(waiting[g], e)
            BY <3>1, <5>1
          <5>3. (i \in 1 .. Len(waiting[g]) /\ waiting'[g][i] = waiting[g][i]) \/ waiting'[g][i] = e
            BY <1>1, <2>1, <3>1, <5>2
          <5> QED BY <1>0, <2>2, <3>1, <5>1, <5>3 DEF Owners
        <4> QED BY <4>1, <4>2
      <3> QED BY <3>1
    <2>7. \A r \in Controls : current'[r] # 0 => f[current'[r]] = r
      BY <1>0, <2>4 DEF Owners
    <2>8. \A r \in Controls : lease'[r] \in {0, lease[r]}
      BY <2>4
    <2> QED BY <1>0, <2>3, <2>6, <2>7, <2>8, OwnersKept
  <1>5. ASSUME NEW g \in flushing,
               \/ FlushDrops(g) \/ FlushReplaces(g) \/ FlushWaits(g) \/ FlushFails(g)
               \/ \E c \in Captures : FlushApplies(g, c)
        PROVE  HaveOwners'
    <2> DEFINE e == Head(waiting[g])
    <2>1. /\ g \in Generations /\ waiting[g] \in Seq(Event) /\ waiting[g] # <<>>
      BY <1>1 DEF InputTypeOK, FlushingWaits, Generations
    <2>2. e = waiting[g][1] /\ e.control \in Controls /\ 1 \in 1 .. Len(waiting[g])
      BY <2>1, HeadTail, KeyEvent
    <2>3. f[g] = e.control
      BY <1>0, <2>1, <2>2 DEF Owners
    <2>4. UNCHANGED <<lease, events>>
      BY <1>5 DEF FlushDrops, FlushReplaces, FlushWaits, FlushFails, FlushApplies, Tried, leases
    <2>5. \A r \in Controls : current'[r] \in {0, current[r]} \/ (r = e.control /\ current'[r] = g)
      <3>1. CASE FlushDrops(g)     BY <3>1 DEF FlushDrops
      <3>2. CASE FlushReplaces(g)  BY <1>1, <2>2, <3>2 DEF FlushReplaces
      <3>3. CASE FlushWaits(g)     BY <1>1, <2>2, <3>3 DEF FlushWaits
      <3>4. CASE FlushFails(g)     BY <1>1, <2>2, <3>4 DEF FlushFails, Fails
      <3>5. ASSUME NEW c \in Captures, FlushApplies(g, c)
            PROVE  \A r \in Controls : current'[r] = current[r] \/ (r = e.control /\ current'[r] = g)
        BY <1>1, <2>2, <3>5 DEF FlushApplies
      <3> QED BY <1>5, <3>1, <3>2, <3>3, <3>4, <3>5
    <2>6. \/ waiting' = waiting \/ waiting' = [waiting EXCEPT ![g] = <<>>]
          \/ waiting' = [waiting EXCEPT ![g] = Tail(@)]
      BY <1>5 DEF FlushDrops, FlushReplaces, FlushWaits, FlushFails, FlushApplies, Fails
    <2>7. \A h \in Generations : \A i \in 1 .. Len(waiting'[h]) : waiting'[h][i].control = f[h]
      <3>1. ASSUME NEW h \in Generations, NEW i \in 1 .. Len(waiting'[h])
            PROVE  waiting'[h][i].control = f[h]
        <4>1. CASE waiting'[h] = waiting[h]
          BY <1>0, <3>1, <4>1 DEF Owners
        <4>2. CASE waiting'[h] # waiting[h]
          <5>1. h = g /\ waiting'[h] \in {<<>>, Tail(waiting[g])}
            BY <1>1, <2>1, <2>6, <4>2
          <5>2. waiting'[h] = Tail(waiting[g])
            <6>1. waiting'[h] # <<>>
              BY <3>1
            <6> QED BY <5>1, <6>1
          <5>3. i + 1 \in 1 .. Len(waiting[g]) /\ waiting'[h][i] = waiting[g][i + 1]
            BY <2>1, <3>1, <5>2, HeadTail
          <5> QED BY <1>0, <2>1, <5>1, <5>3 DEF Owners
        <4> QED BY <4>1, <4>2
      <3> QED BY <3>1
    <2>8. \A r \in Controls : current'[r] # 0 => f[current'[r]] = r
      BY <1>0, <2>3, <2>5 DEF Owners
    <2>9. \A i \in 1 .. Len(events') : f[events'[i].lease] = events'[i].control
      BY <1>0, <2>4 DEF Owners
    <2>10. \A r \in Controls : lease'[r] \in {0, lease[r]}
      BY <2>4
    <2> QED BY <1>0, <2>7, <2>8, <2>9, <2>10, OwnersKept
  <1> HIDE DEF ShapeInv
  <1> QED BY <1>2, <1>3, <1>4, <1>5 DEF Worker

\* With steady faces a key is its code and its face, whatever is pressed beside it.
LEMMA Faces ==
    ASSUME SteadyFaces, NEW pressed, NEW code, \A p \in pressed : p[2] = <<p[1], "face">>
    PROVE  /\ Resolve(pressed, code) = <<code, "face">>
           /\ Released(pressed, code) = {<<code, "face">>}
           /\ \A p \in Press(pressed, code) \cup Others(pressed, code) : p[2] = <<p[1], "face">>
           /\ \A p \in pressed : p[1] = code \/ p \in Others(pressed, code)
           /\ <<code, <<code, "face">>>> \in Press(pressed, code)
           /\ Others(pressed, code) \subseteq Press(pressed, code)
  <1>1. Resolve(pressed, code) = <<code, "face">>
    BY DEF Resolve
  <1>2. Released(pressed, code) = {<<code, "face">>}
    <2>1. CASE \E p \in pressed : p[1] = code
      BY <2>1 DEF Released, Others
    <2>2. CASE ~ \E p \in pressed : p[1] = code
      BY <1>1, <2>2 DEF Released
    <2> QED BY <2>1, <2>2
  <1> QED BY <1>1, <1>2 DEF Press, Others

\* A step that neither presses nor forgets keeps what is known of them, when whoever answers for
\* keys goes on answering.
LEMMA Undisturbed ==
    ASSUME KeyFacts, UNCHANGED <<backend, held, current, desktop>>,
           \A d \in Captures \cup {Desk} : down'[d] \subseteq down[d],
           \A r \in Controls : \A g \in Generations :
               held[g] # {} /\ Answering(r, g) => Answering(r, g)'
    PROVE  KeyFacts'
  <1>1. BoundIsCurrent' /\ HeldByFace'
    BY DEF KeyFacts, BoundIsCurrent, HeldByFace, Generations
  <1>2. HeldIsAnswered'
    BY DEF KeyFacts, HeldIsAnswered, Generations
  <1>3. DownIsHeld'
    BY DEF KeyFacts, DownIsHeld, HeldAt, Held, Generations, Desk
  <1> QED BY <1>1, <1>2, <1>3 DEF KeyFacts

\* Lifting the keys of the routes rs leaves nothing down that no other route remembers: no two
\* routes have one generation.
LEMMA LiftKeeps ==
    ASSUME ShapeInv, HaveOwners, KeyFacts, NEW rs \in SUBSET Controls, Lift(rs),
           backend = "wayland", backend' = backend,
           \A q \in Controls \ rs : current'[q] = current[q],
           \A q \in Controls \ rs : Answering(q, current[q]) => Answering(q, current[q])'
    PROVE  KeyFacts'
  <1>1. /\ \A r \in Controls : current[r] \in 0 .. minted
        /\ held \in [Generations -> SUBSET (Codes \X Key)]
        /\ down \in [Captures \cup {Desk} -> SUBSET Key]
        /\ desktop \in [Controls -> Captures \cup {0}]
    BY DEF ShapeInv, InputTypeOK
  <1>2. /\ held' = [g \in Generations |-> IF g \in {current[r] : r \in rs} THEN {} ELSE held[g]]
        /\ desktop' = [r \in Controls |-> IF r \in rs THEN 0 ELSE desktop[r]]
    BY DEF Lift
  <1>3. \A q, r \in Controls : current[q] # 0 /\ current[q] = current[r] => q = r
    BY DEF HaveOwners, Owners
  <1>4. BoundIsCurrent'
    BY <1>2 DEF KeyFacts, BoundIsCurrent
  <1>5. HeldByFace'
    BY <1>1, <1>2 DEF KeyFacts, HeldByFace, Generations
  <1>6. HeldIsAnswered'
    <2>1. ASSUME NEW g \in Generations, held'[g] # {}
          PROVE  \E r \in Controls : Answering(r, g)' /\ current'[r] = g
      <3>1. held[g] # {} /\ g \notin {current[r] : r \in rs}
        BY <1>2, <2>1
      <3>2. PICK r \in Controls : Answering(r, g) /\ current[r] = g
        BY <3>1 DEF KeyFacts, HeldIsAnswered
      <3>3. r \notin rs
        BY <3>1, <3>2
      <3> QED BY <3>2, <3>3
    <2> QED BY <2>1 DEF HeldIsAnswered, Generations
  <1>7. DownIsHeld'
    <2>1. ASSUME NEW d \in Captures \cup {Desk}, NEW k \in down'[d]
          PROVE  \E g \in Generations : k \in Held(g)' /\ HeldAt(g, d)'
      <3>1. k \in down[d] \ UNION {Held(current[r]) : r \in {q \in rs : desktop[q] = d /\ current[q] # 0}}
        BY <1>1, <2>1 DEF Lift
      <3>2. PICK g \in Generations : k \in Held(g) /\ HeldAt(g, d)
        BY <3>1 DEF KeyFacts, DownIsHeld
      <3>3. d # Desk
        BY <3>2 DEF HeldAt
      <3>4. PICK q \in Controls : desktop[q] = d /\ current[q] = g
        BY <3>2, <3>3 DEF HeldAt
      <3>5. g # 0
        BY InputAssumption DEF Generations
      <3>6. q \notin rs
        BY <3>1, <3>2, <3>4, <3>5
      <3>7. g \notin {current[r] : r \in rs}
        BY <1>3, <3>4, <3>5, <3>6
      <3>8. held'[g] = held[g] /\ desktop'[q] = d /\ current'[q] = g
        BY <1>2, <3>4, <3>6, <3>7
      <3> QED BY <3>2, <3>3, <3>8 DEF HeldAt, Held
    <2> QED BY <2>1 DEF DownIsHeld, Generations, Desk
  <1> QED BY <1>4, <1>5, <1>6, <1>7 DEF KeyFacts

\* The routes, the leases and the queues: a lease that goes leaves its release on the way.
LEMMA KeysRoutes ==
    ASSUME KeyInv, Routes
    PROVE  OtherIdle' /\ KeyFacts'
  <1> USE DEF KeyInv
  <1>1. ASSUME UNCHANGED <<backend, held, current, desktop, down>>,
               worker' = "off" => worker = "off",
               \A r \in Controls : \A g \in Generations :
                   held[g] # {} /\ Answering(r, g) => Answering(r, g)'
        PROVE  OtherIdle' /\ KeyFacts'
    <2>1. OtherIdle'
      BY <1>1 DEF OtherIdle, Generations
    <2>2. KeyFacts'
      BY <1>1, Undisturbed
    <2> QED BY <2>1, <2>2
  <1>2. ASSUME NEW r \in Controls, BeginControl(r) \/ StopControl(r)
        PROVE  OtherIdle' /\ KeyFacts'
    <2>1. /\ UNCHANGED <<backend, held, current, desktop, down, worker, releases>>
          /\ posting' = posting \cup Cancelled(r)
          /\ \A q \in Controls : q # r => lease'[q] = lease[q]
      BY <1>2 DEF BeginControl, StopControl, keys, wayland, ShapeInv, InputTypeOK
    <2>2. lease[r] # 0 => <<r, lease[r]>> \in Cancelled(r)
      BY DEF Cancelled
    <2>3. \A q \in Controls : \A g \in Generations : Answering(q, g) => Answering(q, g)'
      BY InputAssumption, <2>1, <2>2 DEF Answering, Generations
    <2> QED BY <1>1, <2>1, <2>3
  <1>3. ASSUME NEW r \in Controls, EndControl(r) \/ DisconnectControl(r) \/ FrameDropped(r)
        PROVE  OtherIdle' /\ KeyFacts'
    <2>1. UNCHANGED <<backend, held, current, desktop, down, worker, lease, posting, releases>>
      BY <1>3 DEF EndControl, DisconnectControl, FrameDropped, inputVars, leases, keys, wayland
    <2> QED BY <1>1, <2>1 DEF Answering
  <1>4. ASSUME NEW p \in rejecting, RejectControl(p)
        PROVE  OtherIdle' /\ KeyFacts'
    <2>1. UNCHANGED <<backend, held, current, desktop, down, worker, lease, posting, releases>>
      BY <1>4 DEF RejectControl, leases, keys, wayland
    <2> QED BY <1>1, <2>1 DEF Answering
  <1>5. ASSUME NEW p \in posting, PostRelease(p)
        PROVE  OtherIdle' /\ KeyFacts'
    <2>1. UNCHANGED <<backend, held, current, desktop, down, worker, lease>>
      BY <1>5 DEF PostRelease, keys, wayland
    <2>2. worker # "off" => posting' \cup releases' = posting \cup releases
      BY <1>5 DEF PostRelease
    <2>3. worker = "off" => \A g \in Generations : held[g] = {}
      BY DEF OtherIdle
    <2> QED BY <1>1, <2>1, <2>2, <2>3 DEF Answering
  <1>6. ASSUME NEW r \in Controls, NEW code, NEW kind, Frame(r, code, kind)
        PROVE  OtherIdle' /\ KeyFacts'
    <2>1. /\ UNCHANGED <<backend, held, current, desktop, down, lease, posting, releases>>
          /\ worker' = "off" => worker = "off"
      BY <1>6 DEF Frame, leases, keys, wayland
    <2> QED BY <1>1, <2>1 DEF Answering
  <1> HIDE DEF KeyInv
  <1> QED BY <1>2, <1>3, <1>4, <1>5, <1>6 DEF Routes

\* The native worker: what it takes from the desktop it takes from the tracker.
LEMMA KeysNative ==
    ASSUME KeyInv, InputSettings,
           DrainNative \/ TakeNothing \/ \E refused \in BOOLEAN : TakeNative(refused)
    PROVE  OtherIdle' /\ KeyFacts'
  <1> USE DEF KeyInv
  <1>1. /\ held \in [Generations -> SUBSET (Codes \X Key)]
        /\ down \in [Captures \cup {Desk} -> SUBSET Key]
        /\ 0 \notin Captures
    BY InputAssumption DEF ShapeInv, InputTypeOK
  <1>2. CASE TakeNothing
    <2>1. /\ UNCHANGED <<backend, held, current, desktop, down, lease, posting, releases>>
          /\ worker # "off" /\ worker' # "off"
      BY <1>2 DEF TakeNothing, leases, keys
    <2>2. KeyFacts'
      BY <2>1, Undisturbed DEF Answering
    <2> QED BY <2>1, <2>2 DEF OtherIdle
  <1>3. ASSUME backend = "native", backend' = backend, UNCHANGED <<current, desktop>>,
               worker' # "off", HeldByFace', HeldIsAnswered',
               \A d \in Captures : down'[d] = down[d],
               \A k \in down'[Desk] : \E g \in Generations : k \in Held(g)'
        PROVE  OtherIdle' /\ KeyFacts'
    <2>1. BoundIsCurrent' /\ OtherIdle'
      BY <1>3 DEF OtherIdle, BoundIsCurrent, KeyFacts
    <2>2. \A d \in Captures : down[d] = {}
      BY <1>1, <1>3 DEF KeyFacts, DownIsHeld, HeldAt, OtherIdle, Desk
    <2>3. DownIsHeld'
      BY <1>1, <1>3, <2>2 DEF DownIsHeld, HeldAt, Desk, Generations
    <2> QED BY <1>3, <2>1, <2>3 DEF KeyFacts
  <1>4. CASE DrainNative
    <2> DEFINE gone == {p[2] : p \in releases}
    <2>1. /\ backend = "native" /\ worker' = "take" /\ releases' = {}
          /\ down' = [down EXCEPT ![Desk] = @ \ UNION {Held(g) : g \in gone}]
          /\ held' = [g \in Generations |-> IF g \in gone THEN {} ELSE held[g]]
          /\ UNCHANGED <<backend, lease, posting, current, desktop>>
      BY <1>4 DEF DrainNative, leases, wayland
    <2>2. HeldByFace'
      BY <2>1 DEF HeldByFace, KeyFacts, Generations
    <2>3. HeldIsAnswered'
      <3>1. ASSUME NEW g \in Generations, held'[g] # {}
            PROVE  \E r \in Controls : Answering(r, g)'
        <4>1. g \notin gone /\ held[g] # {}
          BY <2>1, <3>1
        <4>2. PICK r \in Controls : Answering(r, g)
          BY <4>1 DEF KeyFacts, HeldIsAnswered
        <4>3. <<r, g>> \notin releases
          BY <4>1
        <4> QED BY <2>1, <4>2, <4>3 DEF Answering
      <3> QED BY <2>1, <3>1 DEF HeldIsAnswered, Generations
    <2>4. \A k \in down'[Desk] : \E g \in Generations : k \in Held(g)'
      <3>1. ASSUME NEW k \in down'[Desk] PROVE \E g \in Generations : k \in Held(g)'
        <4>1. k \in down[Desk] /\ k \notin UNION {Held(g) : g \in gone}
          BY <1>1, <2>1, <3>1
        <4>2. PICK g \in Generations : k \in Held(g)
          BY <4>1 DEF KeyFacts, DownIsHeld
        <4>3. g \notin gone
          BY <4>1, <4>2
        <4>4. held'[g] = held[g]
          BY <2>1, <4>3
        <4> QED BY <4>2, <4>4 DEF Held
      <3> QED BY <3>1
    <2>5. \A d \in Captures : down'[d] = down[d]
      BY <1>1, <2>1 DEF Desk
    <2>6. UNCHANGED <<backend, current, desktop>> /\ worker' # "off"
      BY <2>1
    <2> QED BY <1>3, <2>1, <2>2, <2>3, <2>4, <2>5, <2>6
  <1>5. ASSUME NEW refused \in BOOLEAN, TakeNative(refused)
        PROVE  OtherIdle' /\ KeyFacts'
    <2> DEFINE e == Head(events)
               g == e.lease
               key == <<e.code, "face">>
    <2>1. e \in Event /\ g \in Generations /\ (e.kind \in {"down", "up", "move"})
      BY <1>5, HeadTail, KeyEvent DEF TakeNative, ShapeInv, InputTypeOK
    <2>2. ~refused
      BY <1>5 DEF TakeNative, InputSettings
    <2>3. /\ backend = "native" /\ worker' = "drain"
          /\ UNCHANGED <<backend, lease, posting, releases, current, desktop>>
      BY <1>5 DEF TakeNative, leases, wayland
    <2>4. \A p \in held[g] : p[2] = <<p[1], "face">>
      BY <2>1 DEF KeyFacts, HeldByFace
    <2>5. /\ Resolve(held[g], e.code) = key
          /\ Released(held[g], e.code) = {key}
          /\ \A p \in Press(held[g], e.code) \cup Others(held[g], e.code) : p[2] = <<p[1], "face">>
          /\ \A p \in held[g] : p[1] = e.code \/ p \in Others(held[g], e.code)
          /\ <<e.code, key>> \in Press(held[g], e.code)
          /\ Others(held[g], e.code) \subseteq Press(held[g], e.code)
      <3> HIDE DEF e
      <3> QED BY <2>4, Faces DEF InputSettings
    <2>6. CASE ~(Live(g) /\ e.kind # "move")
      <3>1. held' = held /\ down' = down
        BY <1>5, <2>6 DEF TakeNative
      <3>2. KeyFacts'
        BY <2>3, <3>1, Undisturbed DEF Answering
      <3> QED BY <2>3, <3>2 DEF OtherIdle
    <2>7. CASE Live(g) /\ e.kind # "move"
      <3>1. PICK x : /\ x = IF e.kind = "down" THEN Press(held[g], e.code) ELSE Others(held[g], e.code)
                     /\ held' = [held EXCEPT ![g] = x]
        BY <1>5, <2>1, <2>7 DEF TakeNative
      <3>2. /\ \A h \in Generations : h # g => held'[h] = held[h]
            /\ held'[g] = x
        BY <1>1, <2>1, <3>1
      <3>3. HeldByFace'
        BY <2>5, <3>1, <3>2 DEF HeldByFace, KeyFacts, Generations
      <3>4. HeldIsAnswered'
        <4>1. ASSUME NEW h \in Generations, held'[h] # {}
              PROVE  \E r \in Controls : Answering(r, h)'
          <5>1. CASE h = g
            BY <2>3, <2>7, <5>1 DEF Live, Answering
          <5>2. CASE h # g
            BY <2>3, <3>2, <4>1, <5>2 DEF KeyFacts, HeldIsAnswered, Answering
          <5> QED BY <5>1, <5>2
        <4> QED BY <2>3, <4>1 DEF HeldIsAnswered, Generations
      <3>5. \A k \in down'[Desk] : \E h \in Generations : k \in Held(h)'
        <4>1. ASSUME NEW k \in down'[Desk], k # key
              PROVE  \E h \in Generations : k \in Held(h)'
          <5>1. k \in down[Desk]
            BY <1>1, <1>5, <2>1, <2>2, <2>5, <2>7, <4>1 DEF TakeNative
          <5>2. PICK h \in Generations : k \in Held(h)
            BY <5>1 DEF KeyFacts, DownIsHeld
          <5>3. PICK p \in held[h] : k = p[2]
            BY <5>2 DEF Held
          <5>4. p \in held'[h]
            BY <2>4, <2>5, <3>1, <3>2, <4>1, <5>3
          <5> QED BY <5>3, <5>4 DEF Held
        <4>2. CASE e.kind = "down"
          <5>1. <<e.code, key>> \in held'[g]
            BY <2>5, <3>1, <3>2, <4>2
          <5>2. \E h \in Generations : \E p \in held'[h] : p[2] = key
            BY <2>1, <5>1
          <5> QED BY <4>1, <5>2 DEF Held
        <4>3. CASE e.kind = "up"
          <5>1. key \notin down'[Desk]
            BY <1>1, <1>5, <2>2, <2>5, <2>7, <4>3 DEF TakeNative
          <5> QED BY <4>1, <5>1
        <4> QED BY <2>1, <2>7, <4>2, <4>3
      <3>6. \A d \in Captures : down'[d] = down[d]
        BY <1>1, <1>5 DEF TakeNative, Desk
      <3>7. worker' # "off" /\ UNCHANGED <<backend, current, desktop>>
        BY <2>3
      <3> QED BY <1>3, <2>3, <3>3, <3>4, <3>5, <3>6, <3>7
    <2> QED BY <2>6, <2>7
  <1> HIDE DEF KeyInv
  <1> QED BY <1>2, <1>4, <1>5

LEMMA KeysDesktops ==
    ASSUME KeyInv, Desktops
    PROVE  OtherIdle' /\ KeyFacts'
  <1> USE DEF KeyInv
  <1>1. /\ held \in [Generations -> SUBSET (Codes \X Key)]
        /\ down \in [Captures \cup {Desk} -> SUBSET Key]
        /\ desktop \in [Controls -> Captures \cup {0}]
        /\ 0 \notin Captures
    BY InputAssumption DEF ShapeInv, InputTypeOK
  <1>2. ASSUME NEW c \in Captures, OpenCapture(c) \/ SessionDies(c) \/ Unregister(c)
        PROVE  OtherIdle' /\ KeyFacts'
    <2>1. /\ UNCHANGED <<backend, held, current, desktop, worker, lease, posting, releases>>
          /\ \A d \in Captures \cup {Desk} : down'[d] \subseteq down[d]
      BY <1>1, <1>2 DEF OpenCapture, SessionDies, Unregister, leases, keys, wayland
    <2>2. KeyFacts'
      BY <2>1, Undisturbed DEF Answering
    <2> QED BY <2>1, <2>2 DEF OtherIdle, Generations
  <1>3. ASSUME NEW c \in Captures, LiftCapture(c)
        PROVE  OtherIdle' /\ KeyFacts'
    <2> DEFINE rs == {r \in Controls : desktop[r] = c}
    <2>1. Lift(rs) /\ UNCHANGED <<backend, current, worker, lease, posting, releases>>
      BY <1>3 DEF LiftCapture, leases
    <2>2. OtherIdle'
      <3>1. worker' = "off" => \A g \in Generations : held'[g] = {}
        BY <2>1 DEF OtherIdle, Lift
      <3>2. backend' = "native" => \A r \in Controls : desktop'[r] = 0
        BY <2>1 DEF OtherIdle, Lift
      <3> QED BY <3>1, <3>2 DEF OtherIdle, Generations
    <2>3. CASE backend = "wayland"
      <3>1. rs \in SUBSET Controls /\ \A q \in Controls : Answering(q, current[q]) => Answering(q, current[q])'
        BY <2>1 DEF Answering
      <3> HIDE DEF rs
      <3> QED BY <2>1, <2>2, <2>3, <3>1, LiftKeeps
    <2>4. CASE backend # "wayland"
      <3>1. rs = {}
        BY <1>1, <2>4 DEF OtherIdle, ShapeInv, InputTypeOK
      <3>2. held' = held /\ down' = down /\ desktop' = desktop
        BY <1>1, <2>1, <3>1 DEF Lift
      <3>3. KeyFacts'
        BY <2>1, <3>2, Undisturbed DEF Answering
      <3> QED BY <2>2, <3>3
    <2> QED BY <2>3, <2>4
  <1> HIDE DEF KeyInv
  <1> QED BY <1>2, <1>3 DEF Desktops

LEMMA KeysTake ==
    ASSUME KeyInv, DrainWayland \/ TakeWayland
    PROVE  OtherIdle' /\ KeyFacts'
  <1> USE DEF KeyInv
  <1>1. backend = "wayland" /\ backend' = backend /\ worker' # "off"
    BY DEF DrainWayland, TakeWayland
  <1>2. OtherIdle'
    BY <1>1 DEF OtherIdle
  <1>3. CASE DrainWayland
    <2> DEFINE mine == {r \in Controls : <<r, current[r]>> \in releases}
    <2>1. /\ mine \in SUBSET Controls /\ Lift(mine) /\ UNCHANGED <<lease, posting>>
          /\ current' = [r \in Controls |-> IF r \in mine THEN 0 ELSE current[r]]
      BY <1>3 DEF DrainWayland, leases
    <2>2. \A q \in Controls \ mine : current'[q] = current[q]
      BY <2>1
    <2>3. \A q \in Controls \ mine : Answering(q, current[q]) => Answering(q, current[q])'
      <3>1. ASSUME NEW q \in Controls \ mine, Answering(q, current[q])
            PROVE  Answering(q, current[q])'
        <4>1. <<q, current[q]>> \notin releases /\ current'[q] = current[q]
          BY <2>2, <3>1
        <4>2. lease[q] = current[q] \/ <<q, current[q]>> \in posting
          BY <3>1, <4>1 DEF Answering
        <4> QED BY <2>1, <4>1, <4>2 DEF Answering
      <3> QED BY <3>1
    <2> HIDE DEF mine
    <2> QED BY <1>1, <1>2, <2>1, <2>2, <2>3, LiftKeeps
  <1>4. CASE TakeWayland
    <2> DEFINE e == Head(events)
    <2>1. UNCHANGED <<lease, posting, releases>> /\ events # <<>>
      BY <1>4 DEF TakeWayland, leases
    <2>2. CASE UNCHANGED <<held, down, current, desktop>>
      BY <1>1, <1>2, <2>1, <2>2, Undisturbed DEF Answering
    <2>3. CASE Fails(e.control, e.lease, {r \in {e.control} : current[r] = e.lease})
      <3>1. e.control \in Controls
        BY <2>1, HeadTail, KeyEvent DEF ShapeInv, InputTypeOK
      <3>2. PICK rs \in SUBSET Controls :
               Lift(rs) /\ current' = [q \in Controls |-> IF q \in rs THEN 0 ELSE current[q]]
        BY <2>3, <3>1 DEF Fails
      <3>3. \A q \in Controls \ rs : current'[q] = current[q]
        BY <3>2
      <3>4. \A q \in Controls \ rs : Answering(q, current[q]) => Answering(q, current[q])'
        BY <2>1, <3>3 DEF Answering
      <3> QED BY <1>1, <1>2, <3>2, <3>3, <3>4, LiftKeeps
    <2> QED BY <1>4, <2>2, <2>3 DEF TakeWayland, keys, wayland
  <1> HIDE DEF KeyInv
  <1> QED BY <1>3, <1>4

\* The worker for Wayland: a generation that is live has one route, and that route's state is
\* the generation's once it is applied.
LEMMA KeysFlush ==
    ASSUME KeyInv, InputSettings, NEW g \in flushing,
           \/ FlushDrops(g) \/ FlushReplaces(g) \/ FlushWaits(g) \/ FlushFails(g)
           \/ \E c \in Captures : FlushApplies(g, c)
    PROVE  OtherIdle' /\ KeyFacts'
  <1> USE DEF KeyInv
  <1> DEFINE e == Head(waiting[g])
  <1>1. /\ backend = "wayland" /\ backend' = backend /\ worker' # "off"
        /\ UNCHANGED <<lease, posting, releases>>
    BY DEF FlushDrops, FlushReplaces, FlushWaits, FlushFails, FlushApplies, Flushing, Tried, leases
  <1>2. OtherIdle'
    BY <1>1 DEF OtherIdle
  <1>3. /\ held \in [Generations -> SUBSET (Codes \X Key)]
        /\ down \in [Captures \cup {Desk} -> SUBSET Key]
        /\ desktop \in [Controls -> Captures \cup {0}]
        /\ current \in [Controls -> 0 .. minted] /\ 0 \notin Captures
        /\ g \in Generations /\ g # 0 /\ e \in Event /\ waiting[g] # <<>>
    <2>1. /\ held \in [Generations -> SUBSET (Codes \X Key)]
          /\ down \in [Captures \cup {Desk} -> SUBSET Key]
          /\ desktop \in [Controls -> Captures \cup {0}]
          /\ current \in [Controls -> 0 .. minted] /\ 0 \notin Captures
          /\ minted \in 0 .. MaxLeases /\ MaxLeases \in Nat /\ g \in 1 .. minted
          /\ waiting \in [Generations -> Seq(Event)] /\ waiting[g] # <<>>
      BY InputAssumption DEF ShapeInv, InputTypeOK, FlushingWaits
    <2>2. g \in Generations /\ g # 0
      BY <2>1 DEF Generations
    <2> QED BY <2>1, <2>2, HeadTail
  <1>4. PICK r \in Controls : r = e.control
    BY <1>3, KeyEvent
  <1>5. /\ \A q \in Controls : current[q] = g => q = r
        /\ \A q \in Controls : lease[q] = g => q = r
    <2>1. e = waiting[g][1] /\ 1 \in 1 .. Len(waiting[g])
      BY <1>3, HeadTail DEF ShapeInv, InputTypeOK
    <2> QED BY <1>3, <1>4, <2>1 DEF HaveOwners, Owners
  <1>6. ASSUME NEW rs \in SUBSET Controls, Lift(rs),
               \A q \in Controls \ rs : current'[q] = current[q]
        PROVE  OtherIdle' /\ KeyFacts'
    <2>1. \A q \in Controls \ rs : Answering(q, current[q]) => Answering(q, current[q])'
      BY <1>1, <1>6 DEF Answering
    <2> QED BY <1>1, <1>2, <1>6, <2>1, LiftKeeps
  <1>7. CASE FlushDrops(g)
    <2>1. PICK rs \in SUBSET Controls :
             Lift(rs) /\ current' = [q \in Controls |-> IF q \in rs THEN 0 ELSE current[q]]
      BY <1>7 DEF FlushDrops
    <2> QED BY <1>6, <2>1
  <1>8. CASE FlushReplaces(g)
    <2>1. Lift({r}) /\ current' = [current EXCEPT ![r] = g]
      BY <1>4, <1>8 DEF FlushReplaces
    <2>2. {r} \in SUBSET Controls /\ \A q \in Controls \ {r} : current'[q] = current[q]
      BY <1>3, <2>1
    <2> QED BY <1>6, <2>1, <2>2
  <1>9. CASE FlushFails(g)
    <2>1. Lift({r}) /\ current' = [q \in Controls |-> IF q \in {r} THEN 0 ELSE current[q]]
      BY <1>4, <1>9 DEF FlushFails, Fails
    <2>2. {r} \in SUBSET Controls /\ \A q \in Controls \ {r} : current'[q] = current[q]
      BY <2>1
    <2> QED BY <1>6, <2>1, <2>2
  <1>10. ASSUME Live(g), current[r] \in {0, g}, current' = [current EXCEPT ![r] = g]
         PROVE  /\ lease[r] = g /\ current'[r] = g
                /\ \A q \in Controls : current[q] # 0 => current'[q] = current[q]
    BY <1>3, <1>5, <1>10 DEF Live
  <1>11. CASE FlushWaits(g)
    <2>1. /\ Live(g) /\ current[r] \in {0, g} /\ current' = [current EXCEPT ![r] = g]
          /\ UNCHANGED <<held, down, desktop>>
      BY <1>4, <1>11 DEF FlushWaits, keys
    <2>2. /\ lease[r] = g /\ current'[r] = g
          /\ \A q \in Controls : current[q] # 0 => current'[q] = current[q]
      BY <1>10, <2>1
    <2>3. \A h \in Generations : h # 0
      BY InputAssumption DEF Generations
    <2>4. BoundIsCurrent' /\ HeldByFace'
      BY <2>1, <2>2 DEF KeyFacts, BoundIsCurrent, HeldByFace, Generations
    <2>5. HeldIsAnswered'
      BY <1>1, <2>1, <2>2, <2>3 DEF KeyFacts, HeldIsAnswered, Answering, Generations
    <2>6. DownIsHeld'
      BY <1>1, <2>1, <2>2, <2>3 DEF KeyFacts, DownIsHeld, HeldAt, Held, Generations, Desk
    <2> QED BY <1>2, <2>4, <2>5, <2>6 DEF KeyFacts
  <1>12. ASSUME NEW c \in Captures, FlushApplies(g, c)
         PROVE  OtherIdle' /\ KeyFacts'
    <2> DEFINE left == IF desktop[r] \in {0, c} THEN {} ELSE held[g]
               kept == held[g] \ left
               key  == <<e.code, "face">>
               after  == CASE e.kind = "down" -> Press(kept, e.code)
                         [] e.kind = "up"   -> Others(kept, e.code)
                         [] OTHER           -> kept
    <2>1. /\ Live(g) /\ current[r] \in {0, g} /\ current' = [current EXCEPT ![r] = g]
          /\ desktop' = [desktop EXCEPT ![r] = c] /\ held' = [held EXCEPT ![g] = after]
          /\ down' = [d \in DOMAIN down |->
                        CASE d = c /\ e.kind = "down" -> down[d] \cup {Resolve(kept, e.code)}
                          [] d = c /\ e.kind = "up"   -> down[d] \ Released(kept, e.code)
                          [] d # c /\ d = desktop[r]  -> down[d] \ {p[2] : p \in left}
                          [] OTHER                    -> down[d]]
      BY <1>4, <1>12 DEF FlushApplies
    <2>2. /\ lease[r] = g /\ current'[r] = g
          /\ \A q \in Controls : current[q] # 0 => current'[q] = current[q]
      BY <1>10, <2>1
    <2>3. /\ Resolve(kept, e.code) = key
          /\ Released(kept, e.code) = {key}
          /\ \A p \in Press(kept, e.code) \cup Others(kept, e.code) : p[2] = <<p[1], "face">>
          /\ \A p \in kept : p[1] = e.code \/ p \in Others(kept, e.code)
          /\ <<e.code, key>> \in Press(kept, e.code)
          /\ Others(kept, e.code) \subseteq Press(kept, e.code)
      <3>1. \A p \in kept : p[2] = <<p[1], "face">>
        BY <1>3 DEF KeyFacts, HeldByFace
      <3> HIDE DEF kept, e
      <3> QED BY <3>1, Faces DEF InputSettings
    <2>4. PICK x : x = after
      OBVIOUS
    <2>5. /\ held'[g] = x /\ \A h \in Generations : h # g => held'[h] = held[h]
          /\ desktop'[r] = c /\ \A q \in Controls : q # r => desktop'[q] = desktop[q]
      BY <1>3, <2>1, <2>4
    <2>6. HeldByFace'
      <3>1. \A p \in x : p[2] = <<p[1], "face">>
        BY <1>3, <2>3, <2>4 DEF KeyFacts, HeldByFace
      <3> QED BY <2>5, <3>1 DEF HeldByFace, KeyFacts, Generations
    <2>7. BoundIsCurrent'
      BY <1>3, <2>2, <2>5 DEF BoundIsCurrent, KeyFacts
    <2>8. HeldIsAnswered'
      <3>1. ASSUME NEW h \in Generations, held'[h] # {}
            PROVE  \E q \in Controls : Answering(q, h)' /\ current'[q] = h
        <4>1. CASE h = g
          BY <1>1, <2>2, <4>1 DEF Answering
        <4>2. CASE h # g
          <5>1. h # 0 /\ held[h] # {}
            BY InputAssumption, <2>5, <3>1, <4>2 DEF Generations
          <5>2. PICK q \in Controls : Answering(q, h) /\ current[q] = h
            BY <1>1, <5>1 DEF KeyFacts, HeldIsAnswered
          <5> QED BY <1>1, <2>2, <5>1, <5>2 DEF Answering
        <4> QED BY <4>1, <4>2
      <3> QED BY <3>1 DEF HeldIsAnswered, Generations
    <2>9. DownIsHeld'
      <3>1. ASSUME NEW d \in Captures \cup {Desk}, NEW k \in down'[d]
            PROVE  \E h \in Generations : k \in Held(h)' /\ HeldAt(h, d)'
        <4>1. CASE k \in down[d]
          <5>1. PICK h \in Generations : k \in Held(h) /\ HeldAt(h, d)
            BY <4>1 DEF KeyFacts, DownIsHeld
          <5>2. d # Desk /\ h # 0
            BY InputAssumption, <1>1, <5>1 DEF HeldAt, Generations
          <5>3. PICK q \in Controls : desktop[q] = d /\ current[q] = h
            BY <5>1, <5>2 DEF HeldAt
          <5>4. CASE h # g
            <6>1. q # r
              BY <2>1, <5>2, <5>3, <5>4
            <6> QED BY <2>2, <2>5, <5>1, <5>2, <5>3, <5>4, <6>1 DEF HeldAt, Held
          <5>5. CASE h = g
            <6>1. q = r /\ desktop[r] = d
              BY <1>5, <5>3, <5>5
            <6>2. PICK p \in held[g] : k = p[2]
              BY <5>1, <5>5 DEF Held
            <6>3. d = c
              BY <1>3, <2>1, <3>1, <5>2, <6>1, <6>2 DEF Desk
            <6>4. kept = held[g]
              BY <6>1, <6>3
            <6>5. e.kind = "up" => k # key
              BY <1>3, <2>1, <2>3, <3>1, <6>3
            <6>6. p[1] = e.code => p[2] = key
              BY <1>3, <6>2 DEF KeyFacts, HeldByFace
            <6>7. \E z \in x : z[2] = k
              BY <2>3, <2>4, <6>2, <6>4, <6>5, <6>6
            <6>8. k \in Held(h)'
              BY <2>5, <5>5, <6>7 DEF Held
            <6> QED BY <2>2, <2>5, <5>2, <5>5, <6>3, <6>8 DEF HeldAt
          <5> QED BY <5>4, <5>5
        <4>2. CASE k \notin down[d]
          <5>1. d = c /\ e.kind = "down" /\ k = key
            BY <1>3, <2>1, <2>3, <3>1, <4>2
          <5>2. <<e.code, key>> \in held'[g]
            BY <2>3, <2>4, <2>5, <5>1
          <5>3. k \in Held(g)'
            BY <5>1, <5>2 DEF Held
          <5> QED BY <1>3, <2>2, <2>5, <5>1, <5>3 DEF HeldAt, Desk
        <4> QED BY <4>1, <4>2
      <3> QED BY <3>1 DEF DownIsHeld, Generations, Desk
    <2> QED BY <1>2, <2>6, <2>7, <2>8, <2>9 DEF KeyFacts
  <1> HIDE DEF KeyInv
  <1> QED BY <1>7, <1>8, <1>9, <1>11, <1>12

LEMMA KeyStep ==
    ASSUME KeyInv, InputSettings, [InputNext]_inputVars
    PROVE  KeyInv'
  <1>1. ShapeInv'
    BY ShapeStep DEF KeyInv
  <1>2. HaveOwners'
    BY OwnersRoutes, OwnersRest DEF KeyInv, InputNext
  <1>3. OtherIdle' /\ KeyFacts'
    <2>1. CASE Routes
      BY <2>1, KeysRoutes
    <2>2. CASE Worker
      BY <2>2, KeysNative, KeysTake, KeysFlush DEF Worker
    <2>3. CASE Desktops
      BY <2>3, KeysDesktops
    <2>4. CASE UNCHANGED inputVars
      <3>1. /\ UNCHANGED <<backend, held, current, desktop, down, lease, posting, releases, worker>>
        BY <2>4 DEF inputVars, leases, keys, wayland
      <3>2. KeyFacts'
        BY <3>1, Undisturbed DEF KeyInv, Answering
      <3> QED BY <3>1, <3>2 DEF KeyInv, OtherIdle, Generations
    <2> QED BY <2>1, <2>2, <2>3, <2>4 DEF InputNext
  <1> QED BY <1>1, <1>2, <1>3 DEF KeyInv

LEMMA KeyInvRemembers ==
    ASSUME KeyInv
    PROVE  NoKeyForgotten
  <1>1. ASSUME NEW d \in DOMAIN down, NEW k \in down[d]
        PROVE  \E g \in HoldersOn(d) \ {0} : k \in Held(g) /\ (Live(g) \/ Due(g))
    <2>1. d \in Captures \cup {Desk} /\ 0 \notin Captures
      BY InputAssumption DEF KeyInv, ShapeInv, InputTypeOK
    <2>2. PICK g \in Generations : k \in Held(g) /\ HeldAt(g, d)
      BY <2>1 DEF KeyInv, KeyFacts, DownIsHeld
    <2>3. g \in HoldersOn(d) /\ g # 0
      BY InputAssumption, <2>2 DEF HoldersOn, HeldAt, Generations
    <2>4. held[g] # {}
      BY <2>2 DEF Held
    <2>5. PICK r \in Controls : Answering(r, g)
      BY <2>4 DEF KeyInv, KeyFacts, HeldIsAnswered
    <2>6. Live(g) \/ Due(g)
      BY <2>5 DEF Answering, Live, Due
    <2> QED BY <2>2, <2>3, <2>6
  <1> QED BY <1>1 DEF NoKeyForgotten

LEMMA KeyInvHolds == ASSUME InputSettings PROVE InputSpec => []KeyInv
  <1>1. InputInit => KeyInv
    BY KeyInit
  <1>2. KeyInv /\ [InputNext]_inputVars => KeyInv'
    BY KeyStep
  <1> QED BY <1>1, <1>2, PTL DEF InputSpec

\* A key that is pressed on a desktop is remembered by an incarnation that has a lease, or whose
\* release is on its way: however routes, frames, releases, the worker and captures interleave.
THEOREM KeysRemembered == ASSUME InputSettings PROVE InputSpec => []NoKeyForgotten
  <1>1. KeyInv => NoKeyForgotten
    BY KeyInvRemembers
  <1> QED BY KeyInvHolds, <1>1, PTL

-----------------------------------------------------------------------------
(* Routes that only their viewer or the worker ends.                                     *)

\* A lease outlasts its route's activity only until StopMedia.
LeaseIsWanted == \A r \in Controls : lease[r] # 0 => r \in admitted \cup stopping

LEMMA WantedStep ==
    ASSUME ShapeInv, LeaseIsWanted, ~LocalEnds, [InputNext]_inputVars
    PROVE  LeaseIsWanted'
  <1>0. lease \in [Controls -> 0 .. minted]
    BY DEF ShapeInv, InputTypeOK
  <1>1. ASSUME NEW r \in Controls, BeginControl(r) \/ StopControl(r) \/ EndControl(r)
        PROVE  LeaseIsWanted'
    BY <1>0, <1>1 DEF BeginControl, StopControl, EndControl, leases, LeaseIsWanted
  <1>2. ASSUME NEW p \in rejecting, RejectControl(p) PROVE LeaseIsWanted'
    BY <1>2 DEF RejectControl, leases, LeaseIsWanted
  <1>3. ASSUME UNCHANGED <<lease, admitted, stopping>> PROVE LeaseIsWanted'
    BY <1>3 DEF LeaseIsWanted
  <1>4. CASE Worker \/ Desktops \/ UNCHANGED inputVars
    <2>1. ASSUME DrainNative \/ DrainWayland \/ TakeNothing \/ TakeWayland
                 \/ \E refused \in BOOLEAN : TakeNative(refused)
          PROVE  UNCHANGED <<lease, admitted, stopping>>
      BY <2>1 DEF DrainNative, DrainWayland, TakeNothing, TakeWayland, TakeNative, routes, leases
    <2>2. ASSUME NEW g, NEW over, Tried(g, over) PROVE UNCHANGED <<lease, admitted, stopping>>
      BY <2>2 DEF Tried, routes, leases
    <2>3. ASSUME NEW g,
                 FlushDrops(g) \/ FlushReplaces(g) \/ FlushWaits(g) \/ FlushFails(g)
                 \/ \E c \in Captures : FlushApplies(g, c)
          PROVE  UNCHANGED <<lease, admitted, stopping>>
      BY <2>2, <2>3 DEF FlushDrops, FlushReplaces, FlushWaits, FlushFails, FlushApplies
    <2>4. CASE Worker
      BY <1>3, <2>1, <2>3, <2>4 DEF Worker
    <2>5. CASE Desktops \/ UNCHANGED inputVars
      BY <1>3, <2>5 DEF Desktops, inputVars, routes, leases, OpenCapture, SessionDies, Unregister,
                        LiftCapture
    <2> QED BY <1>4, <2>4, <2>5
  <1>5. CASE Routes
    <2>1. ASSUME NEW r \in Controls, DisconnectControl(r) PROVE FALSE
      BY <2>1 DEF DisconnectControl
    <2>2. ASSUME NEW r \in Controls, FrameDropped(r) PROVE LeaseIsWanted'
      BY <1>3, <2>2 DEF FrameDropped, inputVars, routes, leases
    <2>3. ASSUME NEW p \in posting, PostRelease(p) PROVE LeaseIsWanted'
      BY <1>3, <2>3 DEF PostRelease, routes
    <2>4. ASSUME NEW r \in Controls, NEW code, NEW kind, Frame(r, code, kind) PROVE LeaseIsWanted'
      BY <1>3, <2>4 DEF Frame, routes, leases
    <2> QED BY <1>1, <1>2, <1>5, <2>1, <2>2, <2>3, <2>4 DEF Routes
  <1> QED BY <1>4, <1>5 DEF InputNext

\* Unless the controlled machine itself disconnects a route, nothing that a viewer pressed stays
\* down when his route is over: it is his still, or its release is on its way.
THEOREM KeysLifted == ASSUME InputSettings, ~LocalEnds PROVE InputSpec => []NoKeyStuck
  <1>1. InputInit => LeaseIsWanted
    BY DEF InputInit, LeaseIsWanted
  <1>2. ShapeInv /\ LeaseIsWanted /\ [InputNext]_inputVars => LeaseIsWanted'
    BY WantedStep
  <1>3. KeyInv => ShapeInv
    BY DEF KeyInv
  <1>4. NoKeyForgotten /\ LeaseIsWanted => NoKeyStuck
    BY DEF NoKeyForgotten, NoKeyStuck, LeaseIsWanted, Live, Wanted, HoldersOn
  <1> QED BY KeyInvHolds, KeysRemembered, <1>1, <1>2, <1>3, <1>4, PTL DEF InputSpec

-----------------------------------------------------------------------------
(* Consent and keys side by side.                                                        *)

\* The composition's behaviour is, to each part of it, one of that part's own or a stutter.
LEMMA PartsOfSupport == SupportSpec => Spec /\ InputSpec
  <1>1. SupportInit => Init /\ InputInit
    BY DEF SupportInit
  <1>2. [SupportNext]_supportVars => [Next]_vars /\ [InputNext]_inputVars
    <2> SUFFICES ASSUME [SupportNext]_supportVars
                 PROVE  [Next]_vars /\ [InputNext]_inputVars
      OBVIOUS
    <2>1. CASE UNCHANGED supportVars
      BY <2>1 DEF supportVars
    <2>2. CASE OnConsent(Next)
      BY <2>2 DEF OnConsent
    <2>3. CASE OnInput(InputNext)
      BY <2>3 DEF OnInput
    <2> QED BY <2>1, <2>2, <2>3 DEF SupportNext
  <1> QED BY <1>1, <1>2, PTL DEF SupportSpec, Spec, InputSpec

\* What a customer's machine keeps of its technicians and of their keys has only the shapes
\* its code makes, whatever the settings.
THEOREM SupportTypesHold == SupportSpec => []SupportTypeOK
  <1>1. TypeOK /\ InputTypeOK => SupportTypeOK
    BY DEF SupportTypeOK
  <1> QED BY <1>1, PartsOfSupport, ConsentTypeHolds, InputTypeHolds, PTL
=============================================================================
