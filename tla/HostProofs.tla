----------------------------- MODULE HostProofs -----------------------------
(***************************************************************************)
(* What one machine keeps for itself besides its route table, proved for   *)
(* any number of viewers, shells, items, releases and troubles: the shells *)
(* it hosts (Terminal), the record of a transfer and its destination       *)
(* (Transfer), and that no binary is rolled back behind its marker         *)
(* (Updater).                                                              *)
(***************************************************************************)
EXTENDS Terminal, Transfer, Updater, FiniteFacts, TLAPS

-----------------------------------------------------------------------------
(* The hosted shells (Terminal): a shell and its viewers.                  *)

\* Min of a set of natural numbers is its least.
LEMMA MinOfNaturals ==
    ASSUME NEW S \in SUBSET Nat, S # {}
    PROVE  Min(S) \in S /\ \A x \in S : Min(S) <= x
  <1>1. \E m \in S : \A x \in S : m <= x
    BY LeastNatural
  <1> QED BY <1>1 DEF Min

\* The size told of this shell is the least that an attached viewer can show.
Fitted(sh) ==
    Attached(sh) # {} =>
        /\ \A v \in Attached(sh) : sh.size <= sh.wants[v]
        /\ \E v \in Attached(sh) : sh.size = sh.wants[v]

LEMMA ReconcileSizeFits ==
    ASSUME NEW wants \in [Viewers -> AnySize \cup {0}]
    PROVE  /\ ReconcileSize(wants) \in AnySize
           /\ \A v \in Viewers : wants[v] # 0 => ReconcileSize(wants) <= wants[v]
           /\ (\E v \in Viewers : wants[v] # 0) =>
                  \E v \in Viewers : wants[v] # 0 /\ ReconcileSize(wants) = wants[v]
  <1> DEFINE shown == {wants[v] : v \in Viewers} \ {0}
  <1>1. shown \in SUBSET Nat /\ shown \subseteq AnySize /\ Placeholder \in AnySize
    BY TerminalAssumption DEF AnySize
  <1>2. ReconcileSize(wants) = IF shown = {} THEN Placeholder ELSE Min(shown)
    BY DEF ReconcileSize
  <1>3. shown # {} => Min(shown) \in shown /\ \A x \in shown : Min(shown) <= x
    BY <1>1, MinOfNaturals
  <1>4. \A v \in Viewers : wants[v] # 0 => wants[v] \in shown
    OBVIOUS
  <1>5. \A x \in shown : \E v \in Viewers : wants[v] # 0 /\ x = wants[v]
    OBVIOUS
  <1> HIDE DEF shown
  <1> QED BY <1>1, <1>2, <1>3, <1>4, <1>5

\* What attaching, resizing and detaching a viewer make of a shell that is listed.
LEMMA WantsShell ==
    ASSUME NEW sh \in Shell, NEW v \in Viewers, NEW size \in AnySize \cup {0}
    PROVE  /\ Wants(sh, v, size) \in Shell
           /\ Wants(sh, v, size).size = sh.size
           /\ \A w \in Viewers :
                Wants(sh, v, size).wants[w] = IF w = v THEN size ELSE sh.wants[w]
  BY DEF Wants, Shell

LEMMA ReconcileShell ==
    ASSUME NEW sh \in Shell, NEW new \in Reconcile(sh)
    PROVE  /\ new \in Shell /\ new.wants = sh.wants
           /\ Attached(new) = Attached(sh)
           /\ Fitted(new)
  <1>1. /\ ReconcileSize(sh.wants) \in AnySize
        /\ \A v \in Viewers : sh.wants[v] # 0 => ReconcileSize(sh.wants) <= sh.wants[v]
        /\ (\E v \in Viewers : sh.wants[v] # 0) =>
               \E v \in Viewers : sh.wants[v] # 0 /\ ReconcileSize(sh.wants) = sh.wants[v]
    BY ReconcileSizeFits DEF Shell
  <1>2. PICK owed \in BOOLEAN :
            new = [[sh EXCEPT !.size = ReconcileSize(sh.wants)] EXCEPT !.owed = owed]
    BY DEF Reconcile, Shell
  <1>3. /\ new \in Shell /\ new.wants = sh.wants
        /\ new.size = ReconcileSize(sh.wants)
    BY <1>1, <1>2 DEF Shell
  <1> QED BY <1>1, <1>3 DEF Fitted, Attached

\* A listed shell has a size, which none has that is not.
LEMMA ListedIsShell ==
    ASSUME NEW sh \in Shell \cup {NoShell}
    PROVE  sh \in Shell <=> sh # NoShell
  BY TerminalAssumption DEF Shell, NoShell, AnySize

-----------------------------------------------------------------------------
(* The inductive invariant: the sizes fit, and the control loop opens     *)
(* one shell at a time.                                                    *)

TermShapes ==
    /\ shells \in [ShellIds -> Shell \cup {NoShell}]
    /\ mapped \in [Viewers -> ShellIds \cup {0}]
    /\ minted \in 0 .. MaxShells
    /\ timers \in [ShellIds -> Nat]
    /\ routes \subseteq Viewers /\ claims \subseteq Viewers
    /\ pumps \subseteq Pump /\ opening \subseteq Opening /\ leaving \subseteq Leaving

OneOpening == opening = {} \/ \E o \in Opening : opening = {o}

SizesFit == \A s \in Listed : Fitted(shells[s])

TermInv == TermShapes /\ OneOpening /\ NoShellForgotten /\ SizesFit

\* What one shell may become without a timer of it being taken away.
LEMMA ShellReplaced ==
    ASSUME TermInv, NEW s \in ShellIds, NEW sh \in Shell,
           shells' = [shells EXCEPT ![s] = sh], Fitted(sh),
           timers' \in [ShellIds -> Nat], \A x \in ShellIds : timers'[x] >= timers[x],
           Attached(sh) = {} => timers'[s] > 0
    PROVE  /\ shells' \in [ShellIds -> Shell \cup {NoShell}]
           /\ NoShellForgotten' /\ SizesFit'
  <1>1. /\ shells' \in [ShellIds -> Shell \cup {NoShell}]
        /\ \A x \in ShellIds : shells'[x] = IF x = s THEN sh ELSE shells[x]
    BY DEF TermInv, TermShapes
  <1>2. ASSUME NEW x \in ShellIds, shells'[x] # NoShell
        PROVE  /\ Attached(shells'[x]) = {} => timers'[x] > 0
               /\ Fitted(shells'[x])
    <2>1. CASE x = s
      BY <1>1, <2>1
    <2>2. CASE x # s
      <3>1. shells'[x] = shells[x] /\ x \in Listed
        BY <1>1, <1>2, <2>2 DEF Listed
      <3>2. Attached(shells[x]) = {} => timers[x] > 0
        BY <3>1 DEF TermInv, NoShellForgotten
      <3>3. timers[x] \in Nat /\ timers'[x] \in Nat
        BY DEF TermInv, TermShapes
      <3>4. Fitted(shells[x])
        BY <3>1 DEF TermInv, SizesFit
      <3> QED BY <3>1, <3>2, <3>3, <3>4
    <2> QED BY <2>1, <2>2
  <1>3. NoShellForgotten'
    BY <1>2 DEF NoShellForgotten, Listed
  <1>4. SizesFit'
    BY <1>2 DEF SizesFit, Listed
  <1> QED BY <1>1, <1>3, <1>4

\* A shell that is ended takes nothing from the others.
LEMMA ShellEnded ==
    ASSUME TermInv, NEW s \in ShellIds, shells' = [shells EXCEPT ![s] = NoShell],
           timers' \in [ShellIds -> Nat], \A x \in ShellIds \ {s} : timers'[x] = timers[x]
    PROVE  /\ shells' \in [ShellIds -> Shell \cup {NoShell}]
           /\ NoShellForgotten' /\ SizesFit'
  <1>1. /\ shells' \in [ShellIds -> Shell \cup {NoShell}]
        /\ \A x \in ShellIds : shells'[x] = IF x = s THEN NoShell ELSE shells[x]
    BY DEF TermInv, TermShapes
  <1>2. \A x \in Listed' : x # s /\ x \in Listed /\ shells'[x] = shells[x]
    BY <1>1 DEF Listed
  <1>3. NoShellForgotten'
    <2>1. SUFFICES ASSUME NEW x \in Listed', Attached(shells'[x]) = {}
                   PROVE  timers'[x] > 0
      BY DEF NoShellForgotten, Attached
    <2> QED BY <1>2, <2>1 DEF TermInv, NoShellForgotten, Listed
  <1>4. SizesFit'
    <2>1. \A x \in Listed' : Fitted(shells'[x])
      BY <1>2 DEF TermInv, SizesFit
    <2> QED BY <2>1 DEF SizesFit, Fitted, Attached
  <1> QED BY <1>1, <1>3, <1>4

\* A step that leaves the shells alone and takes no timer away.
LEMMA ShellsKept ==
    ASSUME TermInv, UNCHANGED shells, UNCHANGED timers
    PROVE  NoShellForgotten' /\ SizesFit'
  BY DEF TermInv, NoShellForgotten, SizesFit, Listed, Attached, Fitted

LEMMA ToldPumps ==
    ASSUME TermShapes, NEW s \in ShellIds
    PROVE  Told(s) \subseteq Pump
  <1>1. \A p \in pumps : p \in Pump /\ [p EXCEPT !.over = TRUE] \in Pump
    BY DEF TermShapes, Pump
  <1> QED BY <1>1 DEF Told

LEMMA StopsLeave ==
    ASSUME TermShapes, NEW v \in Viewers
    PROVE  Stops(v) \subseteq Leaving
  <1>1. mapped[v] \in ShellIds \cup {0} /\ 0 \notin ShellIds
    BY DEF TermShapes, ShellIds
  <1>2. mapped[v] # 0 =>
            [route |-> v, shell |-> mapped[v], next |-> "kill", loop |-> FALSE] \in Leaving
    BY <1>1 DEF Leaving
  <1> QED BY <1>2 DEF Stops

LEMMA UnmapsLeave ==
    ASSUME TermShapes, NEW v \in Viewers, NEW l \in BOOLEAN, Unmaps(v, l)
    PROVE  /\ mapped' \in [Viewers -> ShellIds \cup {0}]
           /\ leaving' \subseteq Leaving
  <1>1. mapped[v] \in ShellIds \cup {0} /\ 0 \notin ShellIds
    BY DEF TermShapes, ShellIds
  <1>2. mapped' \in [Viewers -> ShellIds \cup {0}]
    BY <1>1 DEF Unmaps, TermShapes
  <1>3. mapped[v] # 0 =>
            [route |-> v, shell |-> mapped[v], next |-> "drop", loop |-> l] \in Leaving
    BY <1>1 DEF Leaving
  <1>4. leaving' \subseteq Leaving
    BY <1>3 DEF Unmaps, TermShapes
  <1> QED BY <1>2, <1>4

-----------------------------------------------------------------------------
(* Opening a shell.                                                        *)

LEMMA AttachKeeps ==
    ASSUME TermInv, NEW v \in Viewers, NEW s \in ShellIds, ~Loop, Attach(v, s),
           routes' = routes \cup {v}
    PROVE  TermInv'
  <1> DEFINE size == ReconcileSize(shells[s].wants)
             sh == Wants(shells[s], v, size)
             o == [route |-> v, shell |-> s, next |-> "map"]
             p == [route |-> v, to |-> s, over |-> FALSE]
  <1>1. shells[s] \in Shell
    BY ListedIsShell DEF TermInv, TermShapes, Attach, Listed
  <1>2. size \in AnySize /\ size # 0
    <2>1. shells[s].wants \in [Viewers -> AnySize \cup {0}]
      BY <1>1 DEF Shell
    <2>2. size \in AnySize
      BY <2>1, ReconcileSizeFits
    <2> QED BY <2>2, TerminalAssumption DEF AnySize
  <1>3. sh \in Shell /\ sh.wants[v] = size
    BY <1>1, <1>2, WantsShell
  <1>4. \A x \in Reconcile(sh) : x \in Shell /\ Fitted(x) /\ Attached(x) # {}
    <2> HIDE DEF sh, size
    <2> QED BY <1>2, <1>3, ReconcileShell DEF Attached
  <1>5. PICK new \in Reconcile(sh) : shells' = [shells EXCEPT ![s] = new]
    BY DEF Attach, Becomes
  <1>6. /\ UNCHANGED timers /\ timers \in [ShellIds -> Nat]
        /\ \A x \in ShellIds : timers'[x] >= timers[x]
    BY DEF Attach, TermInv, TermShapes
  <1> HIDE DEF sh, size
  <1>7. /\ shells' \in [ShellIds -> Shell \cup {NoShell}]
        /\ NoShellForgotten' /\ SizesFit'
    BY <1>4, <1>5, <1>6, ShellReplaced
  <1>8. o \in Opening /\ p \in Pump
    BY DEF Opening, Pump
  <1>9. OneOpening' /\ opening' \subseteq Opening
    BY <1>8 DEF Attach, Loop, OneOpening, TermInv, TermShapes
  <1>10. TermShapes'
    BY <1>7, <1>8, <1>9, <1>6 DEF Attach, TermInv, TermShapes
  <1> QED BY <1>7, <1>9, <1>10 DEF TermInv

LEMMA CreateKeeps ==
    ASSUME TermInv, NEW v \in Viewers, NEW s \in ShellIds, ~Loop, Create(v, s),
           routes' = routes \cup {v}, minted' \in 0 .. MaxShells
    PROVE  TermInv'
  <1>1. [route |-> v, shell |-> s, next |-> "insert"] \in Opening
    BY DEF Opening
  <1>2. OneOpening' /\ opening' \subseteq Opening
    BY <1>1 DEF Create, Loop, OneOpening, TermInv, TermShapes
  <1>3. TermShapes'
    BY <1>2 DEF Create, TermInv, TermShapes
  <1> QED BY <1>2, <1>3, ShellsKept DEF Create, TermInv

LEMMA StartHostKeeps ==
    ASSUME TermInv, NEW v \in Viewers, NEW named \in ShellIds \cup {0}, StartHost(v, named)
    PROVE  TermInv'
  <1>1. CASE routes' = routes \cup {v} /\ Attach(v, named)
    <2>1. named \in ShellIds
      BY <1>1 DEF Attach, Listed
    <2> QED BY <1>1, <2>1, AttachKeeps DEF StartHost
  <1>2. CASE /\ routes' = routes \cup {v} /\ named \in ShellIds \ Listed
             /\ Create(v, named) /\ UNCHANGED minted
    <2>1. minted' \in 0 .. MaxShells
      BY <1>2 DEF TermInv, TermShapes
    <2> QED BY <1>2, <2>1, CreateKeeps DEF StartHost
  <1>3. CASE /\ routes' = routes \cup {v} /\ named = 0 /\ minted < MaxShells
             /\ Create(v, minted + 1) /\ minted' = minted + 1
    <2>1. minted + 1 \in ShellIds /\ minted' \in 0 .. MaxShells
      BY <1>3, TerminalAssumption DEF TermInv, TermShapes, ShellIds
    <2> QED BY <1>3, <2>1, CreateKeeps DEF StartHost
  <1>4. CASE /\ named \notin Listed /\ TooMany(v)
             /\ routes' = routes \ {v} /\ leaving' = leaving \cup Stops(v)
    <2>1. leaving' \subseteq Leaving
      BY <1>4, StopsLeave DEF TermInv, TermShapes
    <2>2. TermShapes' /\ OneOpening'
      BY <1>4, <2>1 DEF TooMany, TermInv, TermShapes, OneOpening
    <2> QED BY <1>4, <2>2, ShellsKept DEF TooMany, TermInv
  <1> QED BY <1>1, <1>2, <1>3, <1>4 DEF StartHost

LEMMA InsertShellKeeps ==
    ASSUME TermInv, NEW o \in opening, InsertShell(o)
    PROVE  TermInv'
  <1> DEFINE new == [NoShell EXCEPT !.over = FALSE, !.size = Placeholder]
             sh == Wants(new, o.route, Placeholder)
             p == [route |-> o.route, to |-> o.shell, over |-> FALSE]
             q == [o EXCEPT !.next = "map"]
  <1>1. o \in Opening /\ o.route \in Viewers /\ o.shell \in ShellIds
    BY DEF TermInv, TermShapes, Opening
  <1>2. /\ new \in Shell /\ new.size = Placeholder
        /\ new.wants = [v \in Viewers |-> 0]
    BY DEF NoShell, Shell, AnySize
  <1>3. Placeholder \in AnySize /\ Placeholder \in Nat \ {0}
    BY TerminalAssumption DEF AnySize
  <1>4. /\ sh \in Shell /\ sh.size = Placeholder
        /\ \A v \in Viewers : sh.wants[v] = IF v = o.route THEN Placeholder ELSE 0
    <2> HIDE DEF new
    <2> QED BY <1>1, <1>2, <1>3, WantsShell
  <1>5. Attached(sh) = {o.route}
    BY <1>1, <1>3, <1>4 DEF Attached
  <1>6. Fitted(sh)
    BY <1>1, <1>3, <1>4, <1>5 DEF Fitted
  <1>7. /\ UNCHANGED timers /\ timers \in [ShellIds -> Nat]
        /\ \A x \in ShellIds : timers'[x] >= timers[x]
    BY DEF InsertShell, TermInv, TermShapes
  <1>8. shells' = [shells EXCEPT ![o.shell] = sh]
    BY DEF InsertShell
  <1> HIDE DEF sh, new
  <1>9. /\ shells' \in [ShellIds -> Shell \cup {NoShell}]
        /\ NoShellForgotten' /\ SizesFit'
    BY <1>1, <1>4, <1>5, <1>6, <1>7, <1>8, ShellReplaced
  <1>10. q \in Opening /\ p \in Pump
    BY <1>1 DEF Opening, Pump
  <1>11. opening' = {q}
    BY DEF InsertShell, TermInv, OneOpening
  <1>12. pumps' \subseteq Pump
    BY <1>1, <1>10, ToldPumps DEF InsertShell, TermInv
  <1>13. OneOpening' /\ opening' \subseteq Opening
    BY <1>10, <1>11 DEF OneOpening
  <1>14. TermShapes'
    BY <1>7, <1>9, <1>12, <1>13 DEF InsertShell, TermInv, TermShapes
  <1> QED BY <1>9, <1>13, <1>14 DEF TermInv

LEMMA MapRouteKeeps ==
    ASSUME TermInv, NEW o \in opening, MapRoute(o)
    PROVE  TermInv'
  <1>1. o.route \in Viewers /\ o.shell \in ShellIds
    BY DEF TermInv, TermShapes, Opening
  <1>2. mapped' \in [Viewers -> ShellIds \cup {0}]
    BY <1>1 DEF MapRoute, TermInv, TermShapes
  <1>3. opening' = {} /\ OneOpening'
    BY DEF MapRoute, TermInv, OneOpening
  <1>4. TermShapes'
    BY <1>2, <1>3 DEF MapRoute, TermInv, TermShapes
  <1> QED BY <1>3, <1>4, ShellsKept DEF MapRoute, TermInv

-----------------------------------------------------------------------------
(* Leaving one.                                                            *)

LEMMA DropKeeps ==
    ASSUME TermInv, NEW d \in leaving, Drop(d)
    PROVE  TermInv'
  <1>1. d.route \in Viewers /\ d.shell \in ShellIds
    BY DEF TermInv, TermShapes, Leaving
  <1>2. leaving' \subseteq Leaving /\ OneOpening'
    BY DEF Drop, TermInv, TermShapes, OneOpening
  <1>3. CASE d.shell \notin Listed
    <2>1. TermShapes'
      BY <1>2, <1>3 DEF Drop, TermInv, TermShapes
    <2> QED BY <1>2, <1>3, <2>1, ShellsKept DEF Drop, TermInv
  <1>4. CASE d.shell \in Listed
    <2> DEFINE sh == shells[d.shell]
    <2>1. sh \in Shell
      BY <1>1, <1>4, ListedIsShell DEF TermInv, TermShapes, Listed
    <2>2. Without(d) \in Shell
      BY <1>1, <2>1, WantsShell DEF Without
    <2>3. \A x \in Remaining(d) : x \in Shell /\ Attached(x) = Attached(Without(d)) /\ Fitted(x)
      <3>1. CASE Attached(Without(d)) = {}
        BY <2>2, <3>1 DEF Remaining, Fitted
      <3>2. CASE Attached(Without(d)) # {}
        BY <2>2, <3>2, ReconcileShell DEF Remaining
      <3> QED BY <3>1, <3>2
    <2>5. timers \in [ShellIds -> Nat]
      BY DEF TermInv, TermShapes
    <2>4. PICK new \in Remaining(d) : shells' = [shells EXCEPT ![d.shell] = new]
      BY <1>4 DEF Drop, Becomes
    <2>6. /\ new \in Shell /\ Attached(new) = Attached(Without(d)) /\ Fitted(new)
          /\ timers' = [timers EXCEPT ![d.shell] = IF LastLeaves(d) THEN @ + 1 ELSE @]
      BY <1>4, <2>3 DEF Drop
    <2>7. /\ timers' \in [ShellIds -> Nat] /\ \A x \in ShellIds : timers'[x] >= timers[x]
          /\ LastLeaves(d) => timers'[d.shell] > 0
      BY <1>1, <2>5, <2>6
    <2>8. /\ shells' \in [ShellIds -> Shell \cup {NoShell}]
          /\ NoShellForgotten' /\ SizesFit'
      BY <1>1, <2>4, <2>6, <2>7, ShellReplaced DEF LastLeaves
    <2>9. TermShapes'
      BY <1>2, <2>7, <2>8 DEF Drop, TermInv, TermShapes
    <2> QED BY <1>2, <2>8, <2>9 DEF TermInv
  <1> QED BY <1>3, <1>4

LEMMA KillKeeps ==
    ASSUME TermInv, NEW d \in leaving, Kill(d)
    PROVE  TermInv'
  <1>1. d \in Leaving /\ d.shell \in ShellIds
    BY DEF TermInv, TermShapes, Leaving
  <1>2. [d EXCEPT !.next = "forget"] \in Leaving
    BY <1>1 DEF Leaving
  <1>3. timers' \in [ShellIds -> Nat] /\ UNCHANGED timers
    BY DEF Kill, TermInv, TermShapes
  <1>4. /\ shells' \in [ShellIds -> Shell \cup {NoShell}]
        /\ NoShellForgotten' /\ SizesFit'
    BY <1>1, <1>3, ShellEnded DEF Kill
  <1>5. pumps' \subseteq Pump /\ leaving' \subseteq Leaving
    BY <1>1, <1>2, ToldPumps DEF Kill, TermInv, TermShapes
  <1>6. TermShapes' /\ OneOpening'
    BY <1>3, <1>4, <1>5 DEF Kill, TermInv, TermShapes, OneOpening
  <1> QED BY <1>4, <1>6 DEF TermInv

LEMMA ForgetKeeps ==
    ASSUME TermInv, NEW d \in leaving, Forget(d)
    PROVE  TermInv'
  <1>1. mapped' \in [Viewers -> ShellIds \cup {0}]
    BY DEF Forget, TermInv, TermShapes
  <1>2. TermShapes' /\ OneOpening'
    BY <1>1 DEF Forget, TermInv, TermShapes, OneOpening
  <1> QED BY <1>2, ShellsKept DEF Forget, TermInv

LEMMA ReaperFiresKeeps ==
    ASSUME TermInv, NEW s \in ShellIds, ReaperFires(s)
    PROVE  TermInv'
  <1>1. /\ timers' \in [ShellIds -> Nat]
        /\ \A x \in ShellIds \ {s} : timers'[x] = timers[x]
    BY DEF ReaperFires, TermInv, TermShapes
  <1>2. CASE s \in Listed /\ Attached(shells[s]) = {}
    <2>1. /\ shells' \in [ShellIds -> Shell \cup {NoShell}]
          /\ NoShellForgotten' /\ SizesFit'
      BY <1>1, <1>2, ShellEnded DEF ReaperFires
    <2>2. pumps' \subseteq Pump
      BY <1>2, ToldPumps DEF ReaperFires, TermInv
    <2>3. TermShapes' /\ OneOpening'
      BY <1>1, <2>1, <2>2 DEF ReaperFires, TermInv, TermShapes, OneOpening
    <2> QED BY <2>1, <2>3 DEF TermInv
  <1>3. CASE ~(s \in Listed /\ Attached(shells[s]) = {})
    <2>1. UNCHANGED <<shells, pumps>>
      BY <1>3 DEF ReaperFires
    <2>2. TermShapes' /\ OneOpening'
      BY <1>1, <2>1 DEF ReaperFires, TermInv, TermShapes, OneOpening
    <2>3. NoShellForgotten'
      BY <1>1, <1>3, <2>1 DEF TermInv, NoShellForgotten, Listed, Attached
    <2>4. SizesFit'
      BY <2>1 DEF TermInv, SizesFit, Fitted, Listed, Attached
    <2> QED BY <2>2, <2>3, <2>4 DEF TermInv
  <1> QED BY <1>2, <1>3

-----------------------------------------------------------------------------
(* The other steps.                                                        *)

LEMMA ResizeKeeps ==
    ASSUME TermInv, NEW v \in Viewers, NEW size \in Sizes, Resize(v, size)
    PROVE  TermInv'
  <1> DEFINE s == mapped[v]
             sh == Wants(shells[s], v, size)
  <1>1. s \in ShellIds /\ shells[s] \in Shell
    <2>1. s \in Listed /\ s \in ShellIds
      BY DEF Resize, Listed
    <2> QED BY <2>1, ListedIsShell DEF TermInv, TermShapes, Listed
  <1>2. size \in AnySize /\ size # 0
    BY TerminalAssumption DEF AnySize
  <1>3. sh \in Shell /\ sh.wants[v] = size
    BY <1>1, <1>2, WantsShell
  <1>4. \A x \in Reconcile(sh) : x \in Shell /\ Fitted(x) /\ Attached(x) # {}
    <2> HIDE DEF sh, s
    <2> QED BY <1>2, <1>3, ReconcileShell DEF Attached
  <1>5. PICK new \in Reconcile(sh) : shells' = [shells EXCEPT ![s] = new]
    BY DEF Resize, Becomes
  <1>6. /\ UNCHANGED timers /\ timers \in [ShellIds -> Nat]
        /\ \A x \in ShellIds : timers'[x] >= timers[x]
    BY DEF Resize, TermInv, TermShapes
  <1>7. PICK t \in ShellIds : t = s
    BY <1>1
  <1>8. new \in Shell /\ Fitted(new) /\ Attached(new) # {}
    BY <1>4
  <1>9. shells' = [shells EXCEPT ![t] = new]
    BY <1>5, <1>7
  <1>10. /\ shells' \in [ShellIds -> Shell \cup {NoShell}]
         /\ NoShellForgotten' /\ SizesFit'
    BY <1>6, <1>8, <1>9, ShellReplaced
  <1>11. TermShapes' /\ OneOpening'
    BY <1>6, <1>10 DEF Resize, TermInv, TermShapes, OneOpening
  <1> QED BY <1>10, <1>11 DEF TermInv

LEMMA StopMediaKeeps ==
    ASSUME TermInv, NEW v \in Viewers, StopMedia(v)
    PROVE  TermInv'
  <1>1. /\ mapped' \in [Viewers -> ShellIds \cup {0}]
        /\ leaving' \subseteq Leaving
    BY UnmapsLeave DEF StopMedia, TermInv
  <1>2. TermShapes' /\ OneOpening'
    BY <1>1 DEF StopMedia, TermInv, TermShapes, OneOpening
  <1> QED BY <1>2, ShellsKept DEF StopMedia, TermInv

LEMMA DisconnectKeeps ==
    ASSUME TermInv, NEW v \in Viewers, Disconnect(v)
    PROVE  TermInv'
  <1>1. leaving' \subseteq Leaving
    BY StopsLeave DEF Disconnect, TermInv, TermShapes
  <1>2. TermShapes' /\ OneOpening'
    BY <1>1 DEF Disconnect, TermInv, TermShapes, OneOpening
  <1> QED BY <1>2, ShellsKept DEF Disconnect, TermInv

LEMMA ShellExitsKeeps ==
    ASSUME TermInv, NEW s \in ShellIds, ShellExits(s)
    PROVE  TermInv'
  <1> DEFINE sh == [shells[s] EXCEPT !.over = TRUE]
  <1>1. shells[s] \in Shell /\ s \in Listed
    BY ListedIsShell DEF ShellExits, TermInv, TermShapes, Listed
  <1>2. sh \in Shell /\ sh.wants = shells[s].wants /\ sh.size = shells[s].size
    BY <1>1 DEF Shell
  <1>3. Attached(sh) = Attached(shells[s])
    BY <1>2 DEF Attached
  <1>4. Fitted(sh)
    BY <1>1, <1>2, <1>3 DEF Fitted, TermInv, SizesFit
  <1>5. Attached(sh) = {} => timers[s] > 0
    BY <1>1, <1>3 DEF TermInv, NoShellForgotten
  <1>6. /\ UNCHANGED timers /\ timers \in [ShellIds -> Nat]
        /\ \A x \in ShellIds : timers'[x] >= timers[x]
    BY DEF ShellExits, TermInv, TermShapes
  <1>7. shells' = [shells EXCEPT ![s] = sh]
    BY DEF ShellExits
  <1> HIDE DEF sh
  <1>8. \A x \in ShellIds : timers'[x] >= timers[x]
    BY <1>6
  <1>9. /\ shells' \in [ShellIds -> Shell \cup {NoShell}]
        /\ NoShellForgotten' /\ SizesFit'
    BY <1>2, <1>4, <1>5, <1>6, <1>7, <1>8, ShellReplaced
  <1>10. pumps' \subseteq Pump
    BY ToldPumps DEF ShellExits, TermInv
  <1>11. TermShapes' /\ OneOpening'
    BY <1>6, <1>9, <1>10 DEF ShellExits, TermInv, TermShapes, OneOpening
  <1> QED BY <1>9, <1>11 DEF TermInv

LEMMA PumpsKeep ==
    ASSUME TermInv, NEW p \in pumps, PumpDetached(p) \/ PumpExits(p) \/ PumpGivesUp(p)
    PROVE  TermInv'
  <1>1. p.route \in Viewers
    BY DEF TermInv, TermShapes, Pump
  <1>2. PumpEnds(p) /\ routes' \subseteq Viewers
    BY DEF PumpDetached, PumpExits, PumpGivesUp, TermInv, TermShapes
  <1>3. mapped' \in [Viewers -> ShellIds \cup {0}] /\ leaving' \subseteq Leaving
    <2>1. CASE PumpDetached(p)
      BY <2>1 DEF PumpDetached, TermInv, TermShapes
    <2>2. CASE PumpExits(p)
      BY <1>1, <2>2, StopsLeave DEF PumpExits, TermInv, TermShapes
    <2>3. CASE PumpGivesUp(p)
      BY <1>1, <2>3, UnmapsLeave DEF PumpGivesUp, TermInv
    <2> QED BY <2>1, <2>2, <2>3
  <1>4. TermShapes' /\ OneOpening'
    BY <1>2, <1>3 DEF PumpEnds, TermInv, TermShapes, OneOpening
  <1> QED BY <1>2, <1>4, ShellsKept DEF PumpEnds, TermInv

-----------------------------------------------------------------------------
LEMMA TermInitHolds == TermInit => TermInv
  <1> SUFFICES ASSUME TermInit PROVE TermInv
    OBVIOUS
  <1>1. Listed = {}
    BY DEF TermInit, Listed
  <1>2. TermShapes
    BY TerminalAssumption DEF TermInit, TermShapes
  <1> QED BY <1>1, <1>2 DEF TermInit, TermInv, OneOpening, NoShellForgotten, SizesFit

LEMMA TermStepKeeps == TermInv /\ [TermNext]_termVars => TermInv'
  <1> SUFFICES ASSUME TermInv, [TermNext]_termVars PROVE TermInv'
    OBVIOUS
  <1>1. CASE UNCHANGED termVars
    <2>1. TermShapes' /\ OneOpening'
      BY <1>1 DEF termVars, TermInv, TermShapes, OneOpening
    <2> QED BY <1>1, <2>1, ShellsKept DEF termVars, TermInv
  <1>2. ASSUME NEW v \in Viewers, NEW n \in ShellIds \cup {0}, StartHost(v, n)
        PROVE TermInv'
    BY <1>2, StartHostKeeps
  <1>3. ASSUME NEW v \in Viewers, NEW size \in Sizes, Resize(v, size) PROVE TermInv'
    BY <1>3, ResizeKeeps
  <1>4. ASSUME NEW v \in Viewers, StopMedia(v) \/ Disconnect(v) PROVE TermInv'
    BY <1>4, StopMediaKeeps, DisconnectKeeps
  <1>5. ASSUME NEW o \in opening, InsertShell(o) \/ MapRoute(o) PROVE TermInv'
    BY <1>5, InsertShellKeeps, MapRouteKeeps
  <1>6. ASSUME NEW d \in leaving, Drop(d) \/ Kill(d) \/ Forget(d) PROVE TermInv'
    BY <1>6, DropKeeps, KillKeeps, ForgetKeeps
  <1>7. ASSUME NEW s \in ShellIds, ReaperFires(s) \/ ShellExits(s) PROVE TermInv'
    BY <1>7, ReaperFiresKeeps, ShellExitsKeeps
  <1>8. ASSUME NEW p \in pumps, PumpDetached(p) \/ PumpExits(p) \/ PumpGivesUp(p)
        PROVE TermInv'
    BY <1>8, PumpsKeep
  <1> QED BY <1>1, <1>2, <1>3, <1>4, <1>5, <1>6, <1>7, <1>8 DEF TermNext

LEMMA TermInvHolds == TermSpec => []TermInv
  BY TermInitHolds, TermStepKeeps, PTL DEF TermSpec

\* The routes, pumps and shells have only the shapes the host makes, and its control loop
\* is in the middle of at most one open.
THEOREM TermTypeHolds == TermSpec => []TermTypeOK
  <1>1. TermInv => TermTypeOK
    <2>1. SUFFICES ASSUME TermInv PROVE Cardinality(opening) <= 1
      BY DEF TermInv, TermShapes, TermTypeOK
    <2>2. Cardinality({}) = 0 /\ \A o \in opening : Cardinality({o}) = 1
      BY FS_EmptySet, FS_Singleton
    <2> QED BY <2>1, <2>2 DEF TermInv, OneOpening
  <1> QED BY <1>1, TermInvHolds, PTL

\* A shell nobody is attached to has a timer that will end it (TerminalHost::detach,
\* arm_idle_reaper, close, open), for any viewers, sizes and sessions.
THEOREM NoShellIsForgotten == TermSpec => []NoShellForgotten
  <1>1. TermInv => NoShellForgotten
    BY DEF TermInv
  <1> QED BY <1>1, TermInvHolds, PTL

\* The viewers of a shell are told the size of the smallest of the windows attached to it,
\* whether or not its child could be sent that (reconcile, reconcile_size).
THEOREM ToldSizesAlwaysFit == TermSpec => []ToldSizeFits
  <1>1. TermInv => ToldSizeFits
    BY DEF TermInv, SizesFit, Fitted, ToldSizeFits
  <1> QED BY <1>1, TermInvHolds, PTL

-----------------------------------------------------------------------------
(* The record of a transfer and its destination (Transfer). The inductive  *)
(* invariant says, of each step of the task, what is at the destination    *)
(* and what may be in the record.                                          *)

\* Before the commit: nothing has been placed yet.
Early == {"review", "stage", "begin", "upload", "verify", "recheck", "publish"}

\* After it: the outcome is known and not yet recorded.
Late == {"clean", "close", "record"}

\* Without a record there is nothing of the transfer anywhere.
NothingWithoutRecord ==
    op = "none" =>
        /\ step \in {"idle", "insert"}
        /\ placed = {} /\ staged = {} /\ ~area /\ ~attempt

\* The record is unfinished while the task is at work, and says so of a commit.
PhaseFollowsTask ==
    /\ step \notin {"idle", "insert"} => op \in Working
    /\ step \in {"rename", "rollback"} => op = "committing"

\* Items are placed in their order, taken back in the reverse one.
PlacedInOrder ==
    /\ step \in Early => placed = {}
    /\ step \in {"begin", "upload", "verify", "recheck", "publish", "rename", "rollback"} => area
    /\ step = "rename" /\ ~doubt => placed = 1 .. (at - 1)
    /\ step = "rollback" => /\ outcome \in {"failed", "attention"}
                            /\ outcome = "failed" /\ ~doubt => placed = 1 .. at

\* What the task will report, or has reported, is so.
ReportIsTrue ==
    /\ step \in Late =>
         /\ outcome \in {"ok", "failed", "cancelled", "attention"}
         /\ outcome \in {"ok", "attention"} => op = "committing"
         /\ outcome # "attention" /\ ~doubt =>
                placed = IF outcome = "ok" THEN Item ELSE {}
    /\ step \in {"idle", "insert"} /\ op # "none" /\ ~doubt =>
         \/ placed = Item /\ op \in {"committing", "complete"}
         \/ placed = {} /\ op # "complete"
         \/ outcome = "attention" /\ op \in {"committing", "failed"}

TransferInv ==
    TransferTypeOK /\ NothingWithoutRecord /\ PhaseFollowsTask /\ PlacedInOrder /\ ReportIsTrue

USE TransferAssumption

\* The first state.
LEMMA TransferInvInit == TransferInit => TransferInv
  <1> SUFFICES ASSUME TransferInit PROVE TransferInv
    OBVIOUS
  <1> USE DEF TransferInit
  <1>1. TransferTypeOK
    <2>1. /\ op \in Phase \cup {"none"} /\ step \in Step /\ outcome \in Outcome
      BY DEF Phase, Step, Outcome
    <2>2. at \in 0 .. Items + 1 /\ troubles \in 0 .. MaxTroubles
      OBVIOUS
    <2>3. /\ attempt \in BOOLEAN /\ job \in BOOLEAN /\ cancel \in BOOLEAN /\ cancelling \in BOOLEAN
          /\ area \in BOOLEAN /\ doubt \in BOOLEAN
      OBVIOUS
    <2>4. staged \subseteq Item /\ placed \subseteq Item /\ taken \subseteq Item
      OBVIOUS
    <2> QED BY <2>1, <2>2, <2>3, <2>4 DEF TransferTypeOK
  <1>2. NothingWithoutRecord /\ PhaseFollowsTask /\ PlacedInOrder /\ ReportIsTrue
    BY DEF NothingWithoutRecord, PhaseFollowsTask, PlacedInOrder, ReportIsTrue, Early, Late
  <1> QED BY <1>1, <1>2 DEF TransferInv

\* Every step of the task, of a cancel command, of the node and of other writers keeps it.
LEMMA TransferInvNext == TransferInv /\ [TransferNext]_transferVars => TransferInv'
  <1> SUFFICES ASSUME TransferInv, [TransferNext]_transferVars
               PROVE  TransferInv'
    OBVIOUS
  <1>0. TransferTypeOK /\ NothingWithoutRecord /\ PhaseFollowsTask /\ PlacedInOrder /\ ReportIsTrue
    BY DEF TransferInv
  <1>1. CASE StartTransfer
    <2>1. TransferTypeOK'
      <3>1. /\ op' \in Phase \cup {"none"} /\ step' \in Step /\ outcome' \in Outcome
            /\ job' <=> step' \notin {"idle", "record"}
            /\ attempt' => op' # "none"
        BY <1>0, <1>1 DEF StartTransfer, TransferTypeOK, NothingWithoutRecord, PhaseFollowsTask,
           Phase, Working, Finished, Step, Outcome
      <3>2. at' \in 0 .. Items + 1 /\ troubles' \in 0 .. MaxTroubles
        BY <1>0, <1>1 DEF StartTransfer, TransferTypeOK, Item
      <3>3. /\ attempt' \in BOOLEAN /\ job' \in BOOLEAN /\ cancel' \in BOOLEAN /\ cancelling' \in BOOLEAN
            /\ area' \in BOOLEAN /\ doubt' \in BOOLEAN
        BY <1>0, <1>1 DEF StartTransfer, TransferTypeOK
      <3>4. /\ staged' \subseteq Item /\ placed' \subseteq Item /\ taken' \subseteq Item
            /\ staged' \cap placed' = {} /\ placed' \cap taken' = {} /\ (staged' # {} => area')
        BY <1>0, <1>1 DEF StartTransfer, TransferTypeOK, PlacedInOrder, Early
      <3> QED BY <3>1, <3>2, <3>3, <3>4 DEF TransferTypeOK
    <2>2. NothingWithoutRecord' /\ PhaseFollowsTask'
      BY <1>0, <1>1 DEF StartTransfer, NothingWithoutRecord, PhaseFollowsTask, Working, Finished,
         Early, TransferTypeOK
    <2>3. PlacedInOrder'
      BY <1>0, <1>1 DEF StartTransfer, NothingWithoutRecord, PhaseFollowsTask, PlacedInOrder,
         Early, Item, TransferTypeOK
    <2>4. ReportIsTrue'
      BY <1>0, <1>1 DEF StartTransfer, NothingWithoutRecord, PhaseFollowsTask, PlacedInOrder,
         ReportIsTrue, Working, Finished, Early, Late, Item, TransferTypeOK
    <2> QED BY <2>1, <2>2, <2>3, <2>4 DEF TransferInv
  <1>2. CASE InsertRecord
    <2>1. TransferTypeOK'
      <3>1. /\ op' \in Phase \cup {"none"} /\ step' \in Step /\ outcome' \in Outcome
            /\ job' <=> step' \notin {"idle", "record"}
            /\ attempt' => op' # "none"
        <4>1. op' \in {op, "none", "staging", "failed"} /\ outcome' \in {outcome, "none"}
          BY <1>2 DEF InsertRecord
        <4>2. op' \in Phase \cup {"none"} /\ outcome' \in Outcome
          BY <1>0, <4>1 DEF TransferTypeOK, Phase, Working, Finished, Outcome
        <4>3. \/ step' = "review" /\ job' = job /\ job = TRUE /\ op' = "staging"
              \/ /\ step' = "idle" /\ job' = FALSE /\ attempt' = attempt
                 /\ (op' = op \/ ~attempt)
          BY <1>0, <1>2 DEF InsertRecord, TransferTypeOK, NothingWithoutRecord
        <4> QED BY <1>0, <4>2, <4>3 DEF Step, TransferTypeOK
      <3>2. at' \in 0 .. Items + 1 /\ troubles' \in 0 .. MaxTroubles
        <4>1. at' = at /\ (Trouble \/ UNCHANGED troubles)
          BY <1>2 DEF InsertRecord
        <4> QED BY <1>0, <4>1 DEF Trouble, TransferTypeOK
      <3>3. /\ attempt' \in BOOLEAN /\ job' \in BOOLEAN /\ cancel' \in BOOLEAN /\ cancelling' \in BOOLEAN
            /\ area' \in BOOLEAN /\ doubt' \in BOOLEAN
        BY <1>0, <1>2 DEF InsertRecord, Trouble, TransferTypeOK
      <3>4. /\ staged' \subseteq Item /\ placed' \subseteq Item /\ taken' \subseteq Item
            /\ staged' \cap placed' = {} /\ placed' \cap taken' = {} /\ (staged' # {} => area')
        BY <1>0, <1>2 DEF InsertRecord, Trouble, TransferTypeOK, PlacedInOrder, Early
      <3> QED BY <3>1, <3>2, <3>3, <3>4 DEF TransferTypeOK
    <2>2. NothingWithoutRecord' /\ PhaseFollowsTask'
      <3>1. \/ op' = "staging" /\ step' = "review"
            \/ step' = "idle" /\ op' = op /\ op # "none"
            \/ step' = "idle" /\ op = "none" /\ UNCHANGED attempt
        BY <1>2 DEF InsertRecord
      <3>2. UNCHANGED <<placed, staged, area>>
        BY <1>2 DEF InsertRecord
      <3> QED BY <1>0, <3>1, <3>2 DEF NothingWithoutRecord, PhaseFollowsTask, Working
    <2>3. PlacedInOrder'
      BY <1>0, <1>2 DEF InsertRecord, Trouble, NothingWithoutRecord, PhaseFollowsTask, PlacedInOrder,
         Early, Item, TransferTypeOK
    <2>4. ReportIsTrue'
      BY <1>0, <1>2 DEF InsertRecord, Trouble, NothingWithoutRecord, PhaseFollowsTask, PlacedInOrder,
         ReportIsTrue, Working, Finished, Early, Late, Item, TransferTypeOK
    <2> QED BY <2>1, <2>2, <2>3, <2>4 DEF TransferInv
  <1>3. CASE Review
    <2>1. TransferTypeOK'
      BY <1>0, <1>3 DEF Review, RecordSame, Goes, Trouble, TransferTypeOK, Phase, Working,
         Finished, Step, Outcome, Item, PlacedInOrder
    <2>2. NothingWithoutRecord' /\ PhaseFollowsTask'
      BY <1>0, <1>3 DEF Review, RecordSame, Goes, Trouble, NothingWithoutRecord, PhaseFollowsTask,
         Working, Finished, Early, TransferTypeOK
    <2>3. PlacedInOrder'
      BY <1>0, <1>3 DEF Review, RecordSame, Goes, Trouble, NothingWithoutRecord, PhaseFollowsTask,
         PlacedInOrder, Early, Item, TransferTypeOK
    <2>4. ReportIsTrue'
      BY <1>0, <1>3 DEF Review, RecordSame, Goes, Trouble, NothingWithoutRecord, PhaseFollowsTask,
         PlacedInOrder, ReportIsTrue, Working, Finished, Early, Late, Item, TransferTypeOK
    <2> QED BY <2>1, <2>2, <2>3, <2>4 DEF TransferInv
  <1>4. CASE Stage
    <2>1. TransferTypeOK'
      <3>1. /\ op' \in Phase \cup {"none"} /\ step' \in Step /\ outcome' \in Outcome
            /\ job' <=> step' \notin {"idle", "record"}
            /\ attempt' => op' # "none"
        BY <1>0, <1>4 DEF Stage, RecordSame, Goes, Trouble, Answered, Fails, TransferTypeOK,
           NothingWithoutRecord, PhaseFollowsTask, Phase, Working, Finished, Step, Outcome
      <3>2. at' \in 0 .. Items + 1 /\ troubles' \in 0 .. MaxTroubles
        BY <1>0, <1>4 DEF Stage, RecordSame, Goes, Trouble, Answered, Fails, TransferTypeOK, Item
      <3>3. /\ attempt' \in BOOLEAN /\ job' \in BOOLEAN /\ cancel' \in BOOLEAN /\ cancelling' \in BOOLEAN
            /\ area' \in BOOLEAN /\ doubt' \in BOOLEAN
        BY <1>0, <1>4 DEF Stage, RecordSame, Goes, Trouble, Answered, Fails, TransferTypeOK
      <3>4. /\ staged' \subseteq Item /\ placed' \subseteq Item /\ taken' \subseteq Item
            /\ staged' \cap placed' = {} /\ placed' \cap taken' = {} /\ (staged' # {} => area')
        BY <1>0, <1>4 DEF Stage, RecordSame, Goes, Trouble, Answered, Fails, TransferTypeOK,
           PlacedInOrder, Early
      <3> QED BY <3>1, <3>2, <3>3, <3>4 DEF TransferTypeOK
    <2>2. NothingWithoutRecord' /\ PhaseFollowsTask'
      BY <1>0, <1>4 DEF Stage, RecordSame, Goes, Trouble, Answered, Fails, NothingWithoutRecord,
         PhaseFollowsTask, Working, Finished, Early, TransferTypeOK
    <2>3. PlacedInOrder'
      BY <1>0, <1>4 DEF Stage, RecordSame, Goes, Trouble, Answered, Fails, NothingWithoutRecord,
         PhaseFollowsTask, PlacedInOrder, Early, Item, TransferTypeOK
    <2>4. ReportIsTrue'
      BY <1>0, <1>4 DEF Stage, RecordSame, Goes, Trouble, Answered, Fails, NothingWithoutRecord,
         PhaseFollowsTask, PlacedInOrder, ReportIsTrue, Working, Finished, Early, Late, Item,
         TransferTypeOK
    <2> QED BY <2>1, <2>2, <2>3, <2>4 DEF TransferInv
  <1>5. CASE Begin
    <2>1. TransferTypeOK'
      <3>1. /\ op' \in Phase \cup {"none"} /\ step' \in Step /\ outcome' \in Outcome
            /\ job' <=> step' \notin {"idle", "record"}
            /\ attempt' => op' # "none"
        BY <1>0, <1>5 DEF Begin, Advances, Goes, Trouble, Permits, TransferTypeOK,
           Phase, Working, Finished, Step, Outcome
      <3>2. at' \in 0 .. Items + 1 /\ troubles' \in 0 .. MaxTroubles
        BY <1>0, <1>5 DEF Begin, Advances, Goes, Trouble, Permits, TransferTypeOK, Item
      <3>3. /\ attempt' \in BOOLEAN /\ job' \in BOOLEAN /\ cancel' \in BOOLEAN /\ cancelling' \in BOOLEAN
            /\ area' \in BOOLEAN /\ doubt' \in BOOLEAN
        BY <1>0, <1>5 DEF Begin, Advances, Goes, Trouble, Permits, TransferTypeOK
      <3>4. /\ staged' \subseteq Item /\ placed' \subseteq Item /\ taken' \subseteq Item
            /\ staged' \cap placed' = {} /\ placed' \cap taken' = {} /\ (staged' # {} => area')
        BY <1>0, <1>5 DEF Begin, Advances, Goes, Trouble, Permits, TransferTypeOK
      <3> QED BY <3>1, <3>2, <3>3, <3>4 DEF TransferTypeOK
    <2>2. NothingWithoutRecord' /\ PhaseFollowsTask'
      BY <1>0, <1>5 DEF Begin, Advances, Goes, Trouble, Permits, NothingWithoutRecord,
         PhaseFollowsTask, Working, Finished, TransferTypeOK
    <2>3. PlacedInOrder'
      BY <1>0, <1>5 DEF Begin, Advances, Goes, Trouble, Permits, PlacedInOrder, Early,
         Item, TransferTypeOK
    <2>4. ReportIsTrue'
      BY <1>0, <1>5 DEF Begin, Advances, Goes, Trouble, Permits, PlacedInOrder, ReportIsTrue,
         Working, Finished, Early, Late, Item, TransferTypeOK
    <2> QED BY <2>1, <2>2, <2>3, <2>4 DEF TransferInv
  <1>6. CASE Upload
    <2>1. TransferTypeOK'
      <3>1. /\ op' \in Phase \cup {"none"} /\ step' \in Step /\ outcome' \in Outcome
            /\ job' <=> step' \notin {"idle", "record"}
            /\ attempt' => op' # "none"
        BY <1>0, <1>6 DEF Upload, RecordSame, Goes, Trouble, Answered, Fails, TransferTypeOK,
           NothingWithoutRecord, PhaseFollowsTask, Phase, Working, Finished, Step, Outcome
      <3>2. at' \in 0 .. Items + 1 /\ troubles' \in 0 .. MaxTroubles
        BY <1>0, <1>6 DEF Upload, RecordSame, Goes, Trouble, Answered, Fails, TransferTypeOK, Item
      <3>3. /\ attempt' \in BOOLEAN /\ job' \in BOOLEAN /\ cancel' \in BOOLEAN /\ cancelling' \in BOOLEAN
            /\ area' \in BOOLEAN /\ doubt' \in BOOLEAN
        BY <1>0, <1>6 DEF Upload, RecordSame, Goes, Trouble, Answered, Fails, TransferTypeOK
      <3>4. /\ staged' \subseteq Item /\ placed' \subseteq Item /\ taken' \subseteq Item
            /\ staged' \cap placed' = {} /\ placed' \cap taken' = {} /\ (staged' # {} => area')
        BY <1>0, <1>6 DEF Upload, RecordSame, Goes, Trouble, Answered, Fails, TransferTypeOK,
           PlacedInOrder, Early
      <3> QED BY <3>1, <3>2, <3>3, <3>4 DEF TransferTypeOK
    <2>2. NothingWithoutRecord' /\ PhaseFollowsTask'
      BY <1>0, <1>6 DEF Upload, RecordSame, Goes, Trouble, Answered, Fails, NothingWithoutRecord,
         PhaseFollowsTask, Working, Finished, Early, TransferTypeOK
    <2>3. PlacedInOrder'
      BY <1>0, <1>6 DEF Upload, RecordSame, Goes, Trouble, Answered, Fails, NothingWithoutRecord,
         PhaseFollowsTask, PlacedInOrder, Early, Item, TransferTypeOK
    <2>4. ReportIsTrue'
      BY <1>0, <1>6 DEF Upload, RecordSame, Goes, Trouble, Answered, Fails, NothingWithoutRecord,
         PhaseFollowsTask, PlacedInOrder, ReportIsTrue, Working, Finished, Early, Late, Item,
         TransferTypeOK
    <2> QED BY <2>1, <2>2, <2>3, <2>4 DEF TransferInv
  <1>7. CASE Verify
    <2>1. TransferTypeOK'
      <3>1. /\ op' \in Phase \cup {"none"} /\ step' \in Step /\ outcome' \in Outcome
            /\ job' <=> step' \notin {"idle", "record"}
            /\ attempt' => op' # "none"
        <4>1. op' \in {op, "verifying"} /\ outcome' \in {outcome, "cancelled", "failed"}
              /\ step' \in {"recheck", "clean"} /\ UNCHANGED <<job, attempt>>
          BY <1>7 DEF Verify, Advances, Goes, ProgressFails, RecordSame
        <4> QED BY <1>0, <1>7, <4>1 DEF Verify, TransferTypeOK, Phase, Working, Step, Outcome
      <3>2. at' \in 0 .. Items + 1 /\ troubles' \in 0 .. MaxTroubles
        <4>1. at' = at /\ (Trouble \/ UNCHANGED troubles)
          BY <1>7 DEF Verify, Advances, Goes, ProgressFails
        <4> QED BY <1>0, <4>1 DEF Trouble, TransferTypeOK
      <3>3. /\ attempt' \in BOOLEAN /\ job' \in BOOLEAN /\ cancel' \in BOOLEAN /\ cancelling' \in BOOLEAN
            /\ area' \in BOOLEAN /\ doubt' \in BOOLEAN
        BY <1>0, <1>7 DEF Verify, Advances, Goes, Trouble, Permits, ProgressFails, RecordSame, TransferTypeOK
      <3>4. /\ staged' \subseteq Item /\ placed' \subseteq Item /\ taken' \subseteq Item
            /\ staged' \cap placed' = {} /\ placed' \cap taken' = {} /\ (staged' # {} => area')
        BY <1>0, <1>7 DEF Verify, Advances, Goes, Trouble, Permits, ProgressFails, RecordSame, TransferTypeOK
      <3> QED BY <3>1, <3>2, <3>3, <3>4 DEF TransferTypeOK
    <2>2. NothingWithoutRecord' /\ PhaseFollowsTask'
      BY <1>0, <1>7 DEF Verify, Advances, Goes, Trouble, Permits, ProgressFails, RecordSame, NothingWithoutRecord,
         PhaseFollowsTask, Working, Finished, TransferTypeOK
    <2>3. PlacedInOrder'
      BY <1>0, <1>7 DEF Verify, Advances, Goes, Trouble, Permits, ProgressFails, RecordSame, PlacedInOrder, Early,
         Item, TransferTypeOK
    <2>4. ReportIsTrue'
      BY <1>0, <1>7 DEF Verify, Advances, Goes, Trouble, Permits, ProgressFails, RecordSame, PlacedInOrder, ReportIsTrue,
         Working, Finished, Early, Late, Item, TransferTypeOK
    <2> QED BY <2>1, <2>2, <2>3, <2>4 DEF TransferInv
  <1>8. CASE Recheck
    <2>1. TransferTypeOK'
      BY <1>0, <1>8 DEF Recheck, RecordSame, Goes, Trouble, TransferTypeOK, Phase, Working,
         Finished, Step, Outcome, Item, PlacedInOrder
    <2>2. NothingWithoutRecord' /\ PhaseFollowsTask'
      BY <1>0, <1>8 DEF Recheck, RecordSame, Goes, Trouble, NothingWithoutRecord,
         PhaseFollowsTask, Working, Finished, Early, TransferTypeOK
    <2>3. PlacedInOrder'
      BY <1>0, <1>8 DEF Recheck, RecordSame, Goes, Trouble, NothingWithoutRecord,
         PhaseFollowsTask, PlacedInOrder, Early, Item, TransferTypeOK
    <2>4. ReportIsTrue'
      BY <1>0, <1>8 DEF Recheck, RecordSame, Goes, Trouble, NothingWithoutRecord,
         PhaseFollowsTask, PlacedInOrder, ReportIsTrue, Working, Finished, Early, Late, Item,
         TransferTypeOK
    <2> QED BY <2>1, <2>2, <2>3, <2>4 DEF TransferInv
  <1>9. CASE Publish
    <2>1. TransferTypeOK'
      <3>1. /\ op' \in Phase \cup {"none"} /\ step' \in Step /\ outcome' \in Outcome
            /\ job' <=> step' \notin {"idle", "record"}
            /\ attempt' => op' # "none"
        BY <1>0, <1>9 DEF Publish, Advances, Goes, Trouble, Permits, TransferTypeOK,
           Phase, Working, Finished, Step, Outcome
      <3>2. at' \in 0 .. Items + 1 /\ troubles' \in 0 .. MaxTroubles
        BY <1>0, <1>9 DEF Publish, Advances, Goes, Trouble, Permits, TransferTypeOK, Item
      <3>3. /\ attempt' \in BOOLEAN /\ job' \in BOOLEAN /\ cancel' \in BOOLEAN /\ cancelling' \in BOOLEAN
            /\ area' \in BOOLEAN /\ doubt' \in BOOLEAN
        BY <1>0, <1>9 DEF Publish, Advances, Goes, Trouble, Permits, TransferTypeOK
      <3>4. /\ staged' \subseteq Item /\ placed' \subseteq Item /\ taken' \subseteq Item
            /\ staged' \cap placed' = {} /\ placed' \cap taken' = {} /\ (staged' # {} => area')
        BY <1>0, <1>9 DEF Publish, Advances, Goes, Trouble, Permits, TransferTypeOK
      <3> QED BY <3>1, <3>2, <3>3, <3>4 DEF TransferTypeOK
    <2>2. NothingWithoutRecord' /\ PhaseFollowsTask'
      BY <1>0, <1>9 DEF Publish, Advances, Goes, Trouble, Permits, NothingWithoutRecord,
         PhaseFollowsTask, Working, Finished, TransferTypeOK
    <2>3. PlacedInOrder'
      <3>1. placed = {} /\ area /\ UNCHANGED <<placed, area, doubt>>
        BY <1>0, <1>9 DEF Publish, Advances, PlacedInOrder, Early
      <3>2. \/ step' = "rename" /\ at' = 1
            \/ step' = "clean"
        BY <1>9 DEF Publish, Advances, Goes
      <3>3. 1 .. (1 - 1) = {}
        OBVIOUS
      <3> QED BY <3>1, <3>2, <3>3 DEF PlacedInOrder, Early
    <2>4. ReportIsTrue'
      BY <1>0, <1>9 DEF Publish, Advances, Goes, Trouble, Permits, PlacedInOrder, ReportIsTrue,
         Working, Finished, Early, Late, Item, TransferTypeOK
    <2> QED BY <2>1, <2>2, <2>3, <2>4 DEF TransferInv
  <1>10. CASE Rename
    <2>1. TransferTypeOK'
      <3>1. /\ op' \in Phase \cup {"none"} /\ step' \in Step /\ outcome' \in Outcome
            /\ job' <=> step' \notin {"idle", "record"}
            /\ attempt' => op' # "none"
        BY <1>0, <1>10 DEF Rename, RecordSame, Trouble, Answered, Fails, Moves, Stays,
           TransferTypeOK, NothingWithoutRecord, PhaseFollowsTask, Phase, Working, Finished, Step,
           Outcome
      <3>2. at' \in 0 .. Items + 1 /\ troubles' \in 0 .. MaxTroubles
        BY <1>0, <1>10 DEF Rename, RecordSame, Trouble, Answered, Fails, Moves, Stays,
           TransferTypeOK, Item
      <3>3. /\ attempt' \in BOOLEAN /\ job' \in BOOLEAN /\ cancel' \in BOOLEAN /\ cancelling' \in BOOLEAN
            /\ area' \in BOOLEAN /\ doubt' \in BOOLEAN
        BY <1>0, <1>10 DEF Rename, RecordSame, Trouble, Answered, Fails, Moves, Stays,
           TransferTypeOK
      <3>4. /\ staged' \subseteq Item /\ placed' \subseteq Item /\ taken' \subseteq Item
            /\ staged' \cap placed' = {} /\ placed' \cap taken' = {} /\ (staged' # {} => area')
        BY <1>0, <1>10 DEF Rename, RecordSame, Trouble, Answered, Fails, Moves, Stays,
           TransferTypeOK, PlacedInOrder, Early
      <3> QED BY <3>1, <3>2, <3>3, <3>4 DEF TransferTypeOK
    <2>2. NothingWithoutRecord' /\ PhaseFollowsTask'
      BY <1>0, <1>10 DEF Rename, RecordSame, Trouble, Answered, Fails, Moves, Stays,
         NothingWithoutRecord, PhaseFollowsTask, Working, Finished, Early, TransferTypeOK
    <2>3. PlacedInOrder'
      <3>1. at \in 1 .. Items /\ area /\ UNCHANGED area
            /\ (~doubt => placed = 1 .. (at - 1))
        BY <1>0, <1>10 DEF Rename, PlacedInOrder, Item
      <3>2. \/ /\ step' \in {"clean", "rename"} /\ at' = at + 1 /\ doubt' = doubt
               /\ placed' = placed \cup {at}
            \/ step' = "rollback" /\ at' = at - 1 /\ outcome' = "failed"
               /\ (doubt' = TRUE \/ (doubt' = doubt /\ placed' = placed))
        BY <1>0, <1>10 DEF Rename, Answered, Fails, Moves, Stays, TransferTypeOK
      <3>3. ((at + 1) - 1) = at /\ (1 .. (at - 1)) \cup {at} = 1 .. at
        BY <3>1
      <3> QED BY <3>1, <3>2, <3>3 DEF PlacedInOrder, Early
    <2>4. ReportIsTrue'
      <3>1. step = "rename" /\ op = "committing" /\ UNCHANGED op
            /\ at \in 1 .. Items /\ (~doubt => placed = 1 .. (at - 1))
        BY <1>0, <1>10 DEF Rename, RecordSame, PlacedInOrder, PhaseFollowsTask, Item
      <3>2. \/ step' \in {"rename", "rollback"}
            \/ /\ step' = "clean" /\ at = Items /\ outcome' = "ok" /\ doubt' = doubt
               /\ placed' = placed \cup {at}
        BY <1>0, <1>10 DEF Rename, Answered, Fails, Moves, Stays
      <3>3. (1 .. (at - 1)) \cup {at} = 1 .. at
        BY <3>1
      <3> QED BY <3>1, <3>2, <3>3 DEF ReportIsTrue, Late, Item
    <2> QED BY <2>1, <2>2, <2>3, <2>4 DEF TransferInv
  <1>11. CASE Rollback
    <2>1. TransferTypeOK'
      <3>1. /\ op' \in Phase \cup {"none"} /\ step' \in Step /\ outcome' \in Outcome
            /\ job' <=> step' \notin {"idle", "record"}
            /\ attempt' => op' # "none"
        BY <1>0, <1>11 DEF Rollback, RecordSame, Goes, Trouble, Answered, Fails, Returns, Stays,
           TransferTypeOK, NothingWithoutRecord, PhaseFollowsTask, Phase, Working, Finished, Step,
           Outcome
      <3>2. at' \in 0 .. Items + 1 /\ troubles' \in 0 .. MaxTroubles
        BY <1>0, <1>11 DEF Rollback, RecordSame, Goes, Trouble, Answered, Fails, Returns, Stays,
           TransferTypeOK, Item
      <3>3. /\ attempt' \in BOOLEAN /\ job' \in BOOLEAN /\ cancel' \in BOOLEAN /\ cancelling' \in BOOLEAN
            /\ area' \in BOOLEAN /\ doubt' \in BOOLEAN
        BY <1>0, <1>11 DEF Rollback, RecordSame, Goes, Trouble, Answered, Fails, Returns, Stays,
           TransferTypeOK
      <3>4. /\ staged' \subseteq Item /\ placed' \subseteq Item /\ taken' \subseteq Item
            /\ staged' \cap placed' = {} /\ placed' \cap taken' = {} /\ (staged' # {} => area')
        BY <1>0, <1>11 DEF Rollback, RecordSame, Goes, Trouble, Answered, Fails, Returns, Stays,
           TransferTypeOK, PlacedInOrder, Early
      <3> QED BY <3>1, <3>2, <3>3, <3>4 DEF TransferTypeOK
    <2>2. NothingWithoutRecord' /\ PhaseFollowsTask'
      BY <1>0, <1>11 DEF Rollback, RecordSame, Goes, Trouble, Answered, Fails, Returns, Stays,
         NothingWithoutRecord, PhaseFollowsTask, Working, Finished, Early, TransferTypeOK
    <2>3. PlacedInOrder'
      <3>1. outcome \in {"failed", "attention"} /\ (outcome = "failed" /\ ~doubt => placed = 1 .. at)
        BY <1>0, <1>11 DEF Rollback, PlacedInOrder
      <3>2. area /\ UNCHANGED area /\ at \in Int
        BY <1>0, <1>11 DEF Rollback, PlacedInOrder, TransferTypeOK
      <3>3. \/ step' \in {"close", "clean"}
            \/ /\ step' = "rollback" /\ at' = at - 1 /\ outcome' = outcome /\ doubt' = doubt
               /\ placed' = placed \ {at}
            \/ step' = "rollback" /\ outcome' = "attention"
        BY <1>0, <1>11 DEF Rollback, Goes, Answered, Fails, Returns, Stays
      <3>4. (1 .. at) \ {at} = 1 .. (at - 1)
        BY <3>2
      <3> QED BY <3>1, <3>2, <3>3, <3>4 DEF PlacedInOrder, Early
    <2>4. ReportIsTrue'
      BY <1>0, <1>11 DEF Rollback, RecordSame, Goes, Trouble, Answered, Fails, Returns, Stays,
         NothingWithoutRecord, PhaseFollowsTask, PlacedInOrder, ReportIsTrue, Working, Finished,
         Early, Late, Item, TransferTypeOK
    <2> QED BY <2>1, <2>2, <2>3, <2>4 DEF TransferInv
  <1>12. CASE Clean
    <2>1. TransferTypeOK'
      <3>1. /\ op' \in Phase \cup {"none"} /\ step' \in Step /\ outcome' \in Outcome
            /\ job' <=> step' \notin {"idle", "record"}
            /\ attempt' => op' # "none"
        BY <1>0, <1>12 DEF Clean, RecordSame, Goes, Trouble, TransferTypeOK, NothingWithoutRecord,
           PhaseFollowsTask, Phase, Working, Finished, Step, Outcome
      <3>2. at' \in 0 .. Items + 1 /\ troubles' \in 0 .. MaxTroubles
        BY <1>0, <1>12 DEF Clean, RecordSame, Goes, Trouble, TransferTypeOK, Item
      <3>3. /\ attempt' \in BOOLEAN /\ job' \in BOOLEAN /\ cancel' \in BOOLEAN /\ cancelling' \in BOOLEAN
            /\ area' \in BOOLEAN /\ doubt' \in BOOLEAN
        BY <1>0, <1>12 DEF Clean, RecordSame, Goes, Trouble, TransferTypeOK
      <3>4. /\ staged' \subseteq Item /\ placed' \subseteq Item /\ taken' \subseteq Item
            /\ staged' \cap placed' = {} /\ placed' \cap taken' = {} /\ (staged' # {} => area')
        BY <1>0, <1>12 DEF Clean, RecordSame, Goes, Trouble, TransferTypeOK, PlacedInOrder, Early
      <3> QED BY <3>1, <3>2, <3>3, <3>4 DEF TransferTypeOK
    <2>2. NothingWithoutRecord' /\ PhaseFollowsTask'
      BY <1>0, <1>12 DEF Clean, RecordSame, Goes, Trouble, NothingWithoutRecord, PhaseFollowsTask,
         Working, Finished, Early, TransferTypeOK
    <2>3. PlacedInOrder'
      BY <1>0, <1>12 DEF Clean, RecordSame, Goes, Trouble, NothingWithoutRecord, PhaseFollowsTask,
         PlacedInOrder, Early, Item, TransferTypeOK
    <2>4. ReportIsTrue'
      BY <1>0, <1>12 DEF Clean, RecordSame, Goes, Trouble, NothingWithoutRecord, PhaseFollowsTask,
         PlacedInOrder, ReportIsTrue, Working, Finished, Early, Late, Item, TransferTypeOK
    <2> QED BY <2>1, <2>2, <2>3, <2>4 DEF TransferInv
  <1>13. CASE Close
    <2>1. TransferTypeOK'
      BY <1>0, <1>13 DEF Close, TransferTypeOK, Phase, Working, Finished, Step, Outcome, Item,
         PlacedInOrder
    <2>2. NothingWithoutRecord' /\ PhaseFollowsTask'
      BY <1>0, <1>13 DEF Close, NothingWithoutRecord, PhaseFollowsTask, Working, Finished, Early,
         TransferTypeOK
    <2>3. PlacedInOrder'
      BY <1>0, <1>13 DEF Close, NothingWithoutRecord, PhaseFollowsTask, PlacedInOrder, Early,
         Item, TransferTypeOK
    <2>4. ReportIsTrue'
      BY <1>0, <1>13 DEF Close, NothingWithoutRecord, PhaseFollowsTask, PlacedInOrder,
         ReportIsTrue, Working, Finished, Early, Late, Item, TransferTypeOK
    <2> QED BY <2>1, <2>2, <2>3, <2>4 DEF TransferInv
  <1>14. CASE RecordOutcome
    <2>1. TransferTypeOK'
      <3>1. /\ op' \in Phase \cup {"none"} /\ step' \in Step /\ outcome' \in Outcome
            /\ job' <=> step' \notin {"idle", "record"}
            /\ attempt' => op' # "none"
        BY <1>0, <1>14 DEF RecordOutcome, Trouble, SetPhase, Permits, LastPhase, TransferTypeOK,
           NothingWithoutRecord, PhaseFollowsTask, Phase, Working, Finished, Step, Outcome
      <3>2. at' \in 0 .. Items + 1 /\ troubles' \in 0 .. MaxTroubles
        <4>1. at' = at /\ (Trouble \/ UNCHANGED troubles)
          BY <1>14 DEF RecordOutcome
        <4> QED BY <1>0, <4>1 DEF Trouble, TransferTypeOK
      <3>3. /\ attempt' \in BOOLEAN /\ job' \in BOOLEAN /\ cancel' \in BOOLEAN /\ cancelling' \in BOOLEAN
            /\ area' \in BOOLEAN /\ doubt' \in BOOLEAN
        BY <1>0, <1>14 DEF RecordOutcome, Trouble, SetPhase, Permits, LastPhase, TransferTypeOK
      <3>4. /\ staged' \subseteq Item /\ placed' \subseteq Item /\ taken' \subseteq Item
            /\ staged' \cap placed' = {} /\ placed' \cap taken' = {} /\ (staged' # {} => area')
        BY <1>0, <1>14 DEF RecordOutcome, Trouble, SetPhase, Permits, LastPhase, TransferTypeOK
      <3> QED BY <3>1, <3>2, <3>3, <3>4 DEF TransferTypeOK
    <2>2. NothingWithoutRecord' /\ PhaseFollowsTask'
      BY <1>0, <1>14 DEF RecordOutcome, Trouble, SetPhase, Permits, LastPhase, NothingWithoutRecord,
         PhaseFollowsTask, Working, Finished, TransferTypeOK
    <2>3. PlacedInOrder'
      BY <1>0, <1>14 DEF RecordOutcome, Trouble, SetPhase, Permits, LastPhase, PlacedInOrder, Early, Item, TransferTypeOK
    <2>4. ReportIsTrue'
      BY <1>0, <1>14 DEF RecordOutcome, Trouble, SetPhase, Permits, LastPhase, NothingWithoutRecord,
         PhaseFollowsTask, PlacedInOrder, ReportIsTrue, Working, Finished, Early, Late, Item,
         TransferTypeOK
    <2> QED BY <2>1, <2>2, <2>3, <2>4 DEF TransferInv
  <1>15. CASE AskCancel
    <2>1. TransferTypeOK'
      BY <1>0, <1>15 DEF AskCancel, TransferTypeOK, Phase, Working, Finished, Step, Outcome, Item,
         PlacedInOrder
    <2>2. NothingWithoutRecord' /\ PhaseFollowsTask'
      BY <1>0, <1>15 DEF AskCancel, NothingWithoutRecord, PhaseFollowsTask, Working, Finished,
         Early, TransferTypeOK
    <2>3. PlacedInOrder'
      BY <1>0, <1>15 DEF AskCancel, NothingWithoutRecord, PhaseFollowsTask, PlacedInOrder, Early,
         Item, TransferTypeOK
    <2>4. ReportIsTrue'
      BY <1>0, <1>15 DEF AskCancel, NothingWithoutRecord, PhaseFollowsTask, PlacedInOrder,
         ReportIsTrue, Working, Finished, Early, Late, Item, TransferTypeOK
    <2> QED BY <2>1, <2>2, <2>3, <2>4 DEF TransferInv
  <1>16. CASE MarkCancelling
    <2>1. TransferTypeOK'
      <3>1. /\ op' \in Phase \cup {"none"} /\ step' \in Step /\ outcome' \in Outcome
            /\ job' <=> step' \notin {"idle", "record"}
            /\ attempt' => op' # "none"
        BY <1>0, <1>16 DEF MarkCancelling, Trouble, SetPhase, Permits, TransferTypeOK,
           NothingWithoutRecord, PhaseFollowsTask, Phase, Working, Finished, Step, Outcome
      <3>2. at' \in 0 .. Items + 1 /\ troubles' \in 0 .. MaxTroubles
        BY <1>0, <1>16 DEF MarkCancelling, Trouble, SetPhase, Permits, TransferTypeOK, Item
      <3>3. /\ attempt' \in BOOLEAN /\ job' \in BOOLEAN /\ cancel' \in BOOLEAN /\ cancelling' \in BOOLEAN
            /\ area' \in BOOLEAN /\ doubt' \in BOOLEAN
        BY <1>0, <1>16 DEF MarkCancelling, Trouble, SetPhase, Permits, TransferTypeOK
      <3>4. /\ staged' \subseteq Item /\ placed' \subseteq Item /\ taken' \subseteq Item
            /\ staged' \cap placed' = {} /\ placed' \cap taken' = {} /\ (staged' # {} => area')
        BY <1>0, <1>16 DEF MarkCancelling, Trouble, SetPhase, Permits, TransferTypeOK
      <3> QED BY <3>1, <3>2, <3>3, <3>4 DEF TransferTypeOK
    <2>2. NothingWithoutRecord' /\ PhaseFollowsTask'
      BY <1>0, <1>16 DEF MarkCancelling, Trouble, SetPhase, Permits, NothingWithoutRecord,
         PhaseFollowsTask, Working, Finished, TransferTypeOK
    <2>3. PlacedInOrder'
      BY <1>0, <1>16 DEF MarkCancelling, Trouble, SetPhase, Permits, PlacedInOrder, Early, Item, TransferTypeOK
    <2>4. ReportIsTrue'
      BY <1>0, <1>16 DEF MarkCancelling, Trouble, SetPhase, Permits, NothingWithoutRecord,
         PhaseFollowsTask, PlacedInOrder, ReportIsTrue, Working, Finished, Early, Late, Item,
         TransferTypeOK
    <2> QED BY <2>1, <2>2, <2>3, <2>4 DEF TransferInv
  <1>17. CASE Dismiss
    <2>1. TransferTypeOK'
      BY <1>0, <1>17 DEF Dismiss, TransferTypeOK, Phase, Working, Finished, Step, Outcome, Item,
         PlacedInOrder
    <2>2. NothingWithoutRecord' /\ PhaseFollowsTask'
      BY <1>0, <1>17 DEF Dismiss, NothingWithoutRecord, PhaseFollowsTask, Working, Finished,
         Early, TransferTypeOK
    <2>3. PlacedInOrder'
      BY <1>0, <1>17 DEF Dismiss, NothingWithoutRecord, PhaseFollowsTask, PlacedInOrder, Early,
         Item, TransferTypeOK
    <2>4. ReportIsTrue'
      BY <1>0, <1>17 DEF Dismiss, NothingWithoutRecord, PhaseFollowsTask, PlacedInOrder,
         ReportIsTrue, Working, Finished, Early, Late, Item, TransferTypeOK
    <2> QED BY <2>1, <2>2, <2>3, <2>4 DEF TransferInv
  <1>18. CASE RestartNode
    <2>1. TransferTypeOK'
      <3>1. /\ op' \in Phase \cup {"none"} /\ step' \in Step /\ outcome' \in Outcome
            /\ job' <=> step' \notin {"idle", "record"}
            /\ attempt' => op' # "none"
        BY <1>0, <1>18 DEF RestartNode, Trouble, TransferTypeOK, NothingWithoutRecord,
           PhaseFollowsTask, Phase, Working, Finished, Step, Outcome
      <3>2. at' \in 0 .. Items + 1 /\ troubles' \in 0 .. MaxTroubles
        BY <1>0, <1>18 DEF RestartNode, Trouble, TransferTypeOK, Item
      <3>3. /\ attempt' \in BOOLEAN /\ job' \in BOOLEAN /\ cancel' \in BOOLEAN /\ cancelling' \in BOOLEAN
            /\ area' \in BOOLEAN /\ doubt' \in BOOLEAN
        BY <1>0, <1>18 DEF RestartNode, Trouble, TransferTypeOK
      <3>4. /\ staged' \subseteq Item /\ placed' \subseteq Item /\ taken' \subseteq Item
            /\ staged' \cap placed' = {} /\ placed' \cap taken' = {} /\ (staged' # {} => area')
        BY <1>0, <1>18 DEF RestartNode, Trouble, TransferTypeOK, PlacedInOrder, Early
      <3> QED BY <3>1, <3>2, <3>3, <3>4 DEF TransferTypeOK
    <2>2. NothingWithoutRecord' /\ PhaseFollowsTask'
      BY <1>0, <1>18 DEF RestartNode, Trouble, NothingWithoutRecord, PhaseFollowsTask, Working,
         Finished, Early, TransferTypeOK
    <2>3. PlacedInOrder'
      BY <1>0, <1>18 DEF RestartNode, Trouble, NothingWithoutRecord, PhaseFollowsTask,
         PlacedInOrder, Early, Item, TransferTypeOK
    <2>4. ReportIsTrue'
      <3>1. /\ step' = "idle" /\ UNCHANGED placed
            /\ op' = IF op \in Working THEN "failed" ELSE op
            /\ doubt' = (doubt \/ op = "committing")
            /\ op \notin Working => outcome' = outcome
        BY <1>18 DEF RestartNode
      <3>2. CASE op \notin Working
        <4>1. step \in {"idle", "insert"}
          BY <1>0, <3>2 DEF PhaseFollowsTask
        <4> QED BY <1>0, <3>1, <3>2, <4>1 DEF ReportIsTrue, Late
      <3>3. CASE op \in Working /\ ~doubt'
        <4>1. ~doubt /\ op # "committing" /\ op # "none" /\ op' = "failed"
          BY <1>0, <3>1, <3>3 DEF TransferTypeOK, Working
        <4>2. placed = {}
          <5>1. CASE step \in {"idle", "insert"}
            BY <1>0, <3>3, <4>1, <5>1 DEF ReportIsTrue, Working
          <5>2. CASE step \in Early
            BY <1>0, <5>2 DEF PlacedInOrder
          <5>3. CASE step \in Late
            BY <1>0, <4>1, <5>3 DEF ReportIsTrue
          <5>4. step \notin {"rename", "rollback"}
            BY <1>0, <4>1 DEF PhaseFollowsTask
          <5> QED BY <1>0, <5>1, <5>2, <5>3, <5>4 DEF TransferTypeOK, Step, Early, Late
        <4> QED BY <3>1, <4>1, <4>2 DEF ReportIsTrue, Late
      <3>4. CASE doubt'
        BY <3>1, <3>4 DEF ReportIsTrue, Late
      <3> QED BY <1>0, <3>1, <3>2, <3>3, <3>4 DEF TransferTypeOK
    <2> QED BY <2>1, <2>2, <2>3, <2>4 DEF TransferInv
  <1>19. ASSUME NEW i \in Item, OthersWrite(i) PROVE TransferInv'
    <2>1. TransferTypeOK'
      <3>1. /\ op' \in Phase \cup {"none"} /\ step' \in Step /\ outcome' \in Outcome
            /\ job' <=> step' \notin {"idle", "record"}
            /\ attempt' => op' # "none"
        BY <1>0, <1>19 DEF OthersWrite, Trouble, TransferTypeOK, NothingWithoutRecord,
           PhaseFollowsTask, Phase, Working, Finished, Step, Outcome
      <3>2. at' \in 0 .. Items + 1 /\ troubles' \in 0 .. MaxTroubles
        BY <1>0, <1>19 DEF OthersWrite, Trouble, TransferTypeOK, Item
      <3>3. /\ attempt' \in BOOLEAN /\ job' \in BOOLEAN /\ cancel' \in BOOLEAN /\ cancelling' \in BOOLEAN
            /\ area' \in BOOLEAN /\ doubt' \in BOOLEAN
        BY <1>0, <1>19 DEF OthersWrite, Trouble, TransferTypeOK
      <3>4. /\ staged' \subseteq Item /\ placed' \subseteq Item /\ taken' \subseteq Item
            /\ staged' \cap placed' = {} /\ placed' \cap taken' = {} /\ (staged' # {} => area')
        BY <1>0, <1>19 DEF OthersWrite, Trouble, TransferTypeOK, PlacedInOrder, Early
      <3> QED BY <3>1, <3>2, <3>3, <3>4 DEF TransferTypeOK
    <2>2. NothingWithoutRecord' /\ PhaseFollowsTask'
      BY <1>0, <1>19 DEF OthersWrite, Trouble, NothingWithoutRecord, PhaseFollowsTask, Working,
         Finished, Early, TransferTypeOK
    <2>3. PlacedInOrder'
      BY <1>0, <1>19 DEF OthersWrite, Trouble, NothingWithoutRecord, PhaseFollowsTask,
         PlacedInOrder, Early, Item, TransferTypeOK
    <2>4. ReportIsTrue'
      BY <1>0, <1>19 DEF OthersWrite, Trouble, NothingWithoutRecord, PhaseFollowsTask,
         PlacedInOrder, ReportIsTrue, Working, Finished, Early, Late, Item, TransferTypeOK
    <2> QED BY <2>1, <2>2, <2>3, <2>4 DEF TransferInv
  <1>20. CASE UNCHANGED transferVars
    <2>1. TransferTypeOK'
      BY <1>0, <1>20 DEF transferVars, TransferTypeOK, Phase, Working, Finished, Step, Outcome,
         Item, PlacedInOrder
    <2>2. NothingWithoutRecord' /\ PhaseFollowsTask'
      BY <1>0, <1>20 DEF transferVars, NothingWithoutRecord, PhaseFollowsTask, Working, Finished,
         Early, TransferTypeOK
    <2>3. PlacedInOrder'
      BY <1>0, <1>20 DEF transferVars, NothingWithoutRecord, PhaseFollowsTask, PlacedInOrder,
         Early, Item, TransferTypeOK
    <2>4. ReportIsTrue'
      BY <1>0, <1>20 DEF transferVars, NothingWithoutRecord, PhaseFollowsTask, PlacedInOrder,
         ReportIsTrue, Working, Finished, Early, Late, Item, TransferTypeOK
    <2> QED BY <2>1, <2>2, <2>3, <2>4 DEF TransferInv
  <1> QED
    BY <1>1, <1>2, <1>3, <1>4, <1>5, <1>6, <1>7, <1>8, <1>9, <1>10, <1>11, <1>12, <1>13, <1>14,
       <1>15, <1>16, <1>17, <1>18, <1>19, <1>20 DEF TransferNext

\* Once its task is gone a transfer has placed all of its items or none, or asks for
\* attention, and its record, if it could be finished, says which.
THEOREM OutcomeHolds == TransferSpec => []OutcomeIsTrue
  <1>1. TransferInv => OutcomeIsTrue
    BY DEF TransferInv, ReportIsTrue, OutcomeIsTrue
  <1> QED
    BY <1>1, TransferInvInit, TransferInvNext, PTL DEF TransferSpec

\* The record, the job, the attempt and the staging folder have only the shapes the code makes.
THEOREM TransferTypeHolds == TransferSpec => []TransferTypeOK
  <1>1. TransferInv => TransferTypeOK
    BY DEF TransferInv
  <1> QED
    BY <1>1, TransferInvInit, TransferInvNext, PTL DEF TransferSpec

-----------------------------------------------------------------------------
(* The releases of this machine's own binaries (Updater).                  *)

\* A binary is bound to its marker, or is still that of the fresh install, or is torn.
BoundOrFresh ==
    \A h \in Halves \ torn : marker[h] = installed[h] \/ (marker[h] = 0 /\ installed[h] = 1)

UpdaterInv == UpdaterTypeOK /\ BoundOrFresh

USE UpdaterAssumption

-----------------------------------------------------------------------------
(* What apply_pending's comparison gives. *)

\* A manifest that names an artifact is a release's.
LEMMA ManifestIsReleased ==
    ASSUME UpdaterTypeOK, NEW h \in manifest.artifacts
    PROVE  h \in Halves /\ manifest.version \in Release
  <1>1. manifest # NoManifest
    BY DEF NoManifest
  <1> QED
    BY <1>1 DEF UpdaterTypeOK

\* What is brought to the manifest's release is a release again.
LEMMA BroughtIsReleased ==
    ASSUME UpdaterTypeOK, NEW r \in Halves, NEW done \in SUBSET Behind(r)
    PROVE  /\ Brought(installed, done) \in [Halves -> Release]
           /\ Brought(marker, done) \in [Halves -> Release \cup {0}]
  <1>1. \A h \in done : manifest.version \in Release
    BY ManifestIsReleased DEF Behind
  <1> QED
    BY <1>1 DEF UpdaterTypeOK, Brought

\* A half that is not torn and found behind the manifest is older than it, or as old.
LEMMA BehindIsOlder ==
    ASSUME UpdaterInv, NEW r \in Halves, NEW h \in Behind(r), h \notin torn
    PROVE  manifest.version >= installed[h]
  <1>1. h \in Halves /\ manifest.version \in Release
    BY ManifestIsReleased DEF Behind, UpdaterInv
  <1>2. installed[h] \in Release
    BY <1>1 DEF UpdaterInv, UpdaterTypeOK
  <1>3. CASE marker[h] = installed[h]
    <2>1. manifest.version > installed[h]
      BY <1>3 DEF Behind, NeedsApply, EffectiveVersion
    <2> QED
      BY <1>1, <1>2, <2>1 DEF Release
  <1>4. CASE marker[h] = 0 /\ installed[h] = 1
    BY <1>1, <1>4 DEF Release
  <1> QED
    BY <1>1, <1>3, <1>4 DEF UpdaterInv, BoundOrFresh

\* So it is with all that are brought to it.
LEMMA BroughtIsNoOlder ==
    ASSUME UpdaterInv, NEW r \in Halves, NEW done \in SUBSET Behind(r)
    PROVE  \A h \in Halves \ torn : Brought(installed, done)[h] >= installed[h]
  <1> SUFFICES ASSUME NEW h \in Halves \ torn
               PROVE  Brought(installed, done)[h] >= installed[h]
    OBVIOUS
  <1>1. CASE h \in done
    BY <1>1, BehindIsOlder DEF Brought
  <1>2. CASE h \notin done
    <2>1. installed[h] \in Nat
      BY DEF UpdaterInv, UpdaterTypeOK, Release
    <2> QED
      BY <1>2, <2>1 DEF Brought
  <1> QED
    BY <1>1, <1>2

\* The manifest keeps its shape when only a part of its artifacts is left.
LEMMA RestIsManifest ==
    ASSUME UpdaterTypeOK, NEW rest \in SUBSET manifest.artifacts
    PROVE  Manifest(rest) \in
               [version : Release, artifacts : (SUBSET Halves) \ {{}}] \cup {NoManifest}
  <1>1. CASE rest = {}
    BY <1>1 DEF Manifest
  <1>2. CASE rest # {}
    <2>1. manifest \in [version : Release, artifacts : (SUBSET Halves) \ {{}}]
      BY <1>2 DEF UpdaterTypeOK, NoManifest
    <2> QED
      BY <1>2, <2>1 DEF Manifest
  <1> QED
    BY <1>1, <1>2

-----------------------------------------------------------------------------
(* The inductive invariant. *)

LEMMA InitEstablishes == ASSUME UpdaterInit PROVE UpdaterInv
  <1>1. 1 \in Release
    BY DEF Release
  <1>2. UpdaterTypeOK
    BY <1>1 DEF UpdaterInit, UpdaterTypeOK, Rests
  <1> QED
    BY <1>2 DEF UpdaterInit, UpdaterInv, BoundOrFresh

\* What a process's errand may be.
ErrandsFit(e, reaching) ==
    /\ e \in [Halves -> [at : {"rest", "apply", "download"}, version : Release \cup {0},
                         want : SUBSET Halves, now : BOOLEAN]]
    /\ \A r \in Halves :
         IF e[r].at = "download"
         THEN e[r].version # 0 /\ e[r].want # {} /\ e[r].want \subseteq reaching[r]
         ELSE e[r] \in {Rests, Applies}

\* A process that rests or is about to apply keeps them so.
LEMMA ErrandEnds ==
    ASSUME ErrandsFit(errand, reach), NEW r \in Halves, NEW next \in {Rests, Applies}
    PROVE  ErrandsFit([errand EXCEPT ![r] = next], reach)
  <1>1. next \in [at : {"rest", "apply", "download"}, version : Release \cup {0},
                  want : SUBSET Halves, now : BOOLEAN]
    <2> DEFINE Errands == [at : {"rest", "apply", "download"}, version : Release \cup {0},
                           want : SUBSET Halves, now : BOOLEAN]
    <2>1. Rests \in Errands
      BY DEF Rests
    <2>2. Applies \in Errands
      BY <2>1 DEF Applies
    <2> QED
      BY <2>1, <2>2
  <1>2. next.at # "download"
    BY DEF Rests, Applies
  <1> QED
    BY <1>1, <1>2 DEF ErrandsFit

\* Every step keeps the types.
LEMMA TypeStep == ASSUME UpdaterInv, [UpdaterNext]_updaterVars PROVE UpdaterTypeOK'
  <1> USE DEF UpdaterInv
  <1>0. ErrandsFit(errand, reach) /\ UpdaterTypeOK
    BY DEF UpdaterTypeOK, ErrandsFit
  <1>1. ASSUME NEW r \in Halves, NEW now \in BOOLEAN, Check(r, now)
        PROVE  UpdaterTypeOK'
    <2> DEFINE order == Downloads(latest, WantedArtifacts(r, latest), now \/ r \notin {Window, Cli})
    <2>1. /\ WantedArtifacts(r, latest) \subseteq reach[r] /\ WantedArtifacts(r, latest) # {}
          /\ reach[r] \subseteq Halves /\ latest \in Release /\ latest # 0
      BY <1>1 DEF Check, WantedArtifacts, UpdaterTypeOK, Release
    <2>2. order \in [at : {"rest", "apply", "download"}, version : Release \cup {0},
                     want : SUBSET Halves, now : BOOLEAN]
      BY <2>1 DEF Downloads
    <2>3. order.version # 0 /\ order.want # {} /\ order.want \subseteq reach[r]
          /\ order.at = "download"
      BY <2>1 DEF Downloads
    <2>4. ErrandsFit([errand EXCEPT ![r] = order], reach)
      BY <1>0, <2>2, <2>3 DEF ErrandsFit
    <2> QED
      BY <1>1, <2>4 DEF Check, UpdaterTypeOK, ErrandsFit
  <1>2. ASSUME NEW r \in Halves, NEW got \in SUBSET Halves, StageRelease(r, got)
        PROVE  UpdaterTypeOK'
    <2>1. errand[r].version \in Release
      BY <1>2 DEF StageRelease, UpdaterTypeOK
    <2>2. manifest' \in [version : Release, artifacts : (SUBSET Halves) \ {{}}]
      <3>1. got \in (SUBSET Halves) \ {{}}
        BY <1>2 DEF StageRelease
      <3>2. manifest' = [version |-> errand[r].version, artifacts |-> got]
        BY <1>2 DEF StageRelease
      <3> QED
        BY <2>1, <3>1, <3>2
    <2>3. ErrandsFit(errand', reach)
      <3>1. errand' = [errand EXCEPT ![r] = IF errand[r].now THEN Applies ELSE Rests]
        BY <1>2 DEF StageRelease
      <3> QED
        BY <1>0, <3>1, ErrandEnds
    <2> QED
      BY <1>2, <2>2, <2>3 DEF StageRelease, UpdaterTypeOK, ErrandsFit
  <1>3. ASSUME NEW r \in Halves, StagingFails(r)
        PROVE  UpdaterTypeOK'
    <2>1. ErrandsFit(errand', reach)
      BY <1>0, <1>3, ErrandEnds DEF StagingFails
    <2> QED
      BY <1>3, <2>1 DEF StagingFails, UpdaterTypeOK, ErrandsFit
  <1>4. ASSUME NEW r \in Halves, ApplyNow(r)
        PROVE  UpdaterTypeOK'
    <2>1. ErrandsFit(errand', reach)
      BY <1>0, <1>4, ErrandEnds DEF ApplyNow
    <2> QED
      BY <1>4, <2>1 DEF ApplyNow, UpdaterTypeOK, ErrandsFit
  <1>5. ASSUME NEW r \in Halves, Launch(r)
        PROVE  UpdaterTypeOK'
    <2>1. ErrandsFit(errand', reach)
      BY <1>0, <1>5, ErrandEnds DEF Launch
    <2>2. image' \in [Halves -> Release]
      BY <1>5 DEF Launch, UpdaterTypeOK
    <2> QED
      BY <1>5, <2>1, <2>2 DEF Launch, UpdaterTypeOK, ErrandsFit
  <1>6. ASSUME NEW r \in Halves, EndsInManifest(r)
        PROVE  UpdaterTypeOK'
    <2>1. ErrandsFit(errand', reach)
      BY <1>0, <1>6, ErrandEnds DEF EndsInManifest
    <2>2. wrecks' \in 0 .. MaxWrecks
      BY <1>6 DEF EndsInManifest, Wreck, UpdaterTypeOK
    <2> QED
      BY <1>6, <2>1, <2>2 DEF EndsInManifest, UpdaterTypeOK, ErrandsFit
  <1>7. ASSUME NEW r \in Halves, NEW failed \in SUBSET Halves, Apply(r, failed)
        PROVE  UpdaterTypeOK'
    <2>1. Behind(r) \ failed \in SUBSET Behind(r)
      OBVIOUS
    <2>2. installed' \in [Halves -> Release] /\ marker' \in [Halves -> Release \cup {0}]
          /\ torn' \subseteq Halves
      BY <1>0, <1>7, <2>1, BroughtIsReleased DEF Apply, Replaced, UpdaterTypeOK
    <2>3. Beyond(r) \cup failed \in SUBSET manifest.artifacts
      BY <1>7 DEF Apply, Behind, Beyond
    <2>4. manifest' \in [version : Release, artifacts : (SUBSET Halves) \ {{}}] \cup {NoManifest}
      BY <1>0, <1>7, <2>3, RestIsManifest DEF Apply
    <2>5. ErrandsFit(errand', reach)
      BY <1>0, <1>7, ErrandEnds DEF Apply
    <2> QED
      BY <1>7, <2>2, <2>4, <2>5 DEF Apply, UpdaterTypeOK, ErrandsFit
  <1>8. ASSUME NEW r \in Halves, NEW done \in SUBSET Halves, ApplyFails(r, done)
        PROVE  UpdaterTypeOK'
    <2>1. installed' \in [Halves -> Release] /\ marker' \in [Halves -> Release \cup {0}]
          /\ torn' \subseteq Halves
      BY <1>0, <1>8, BroughtIsReleased DEF ApplyFails, Replaced, UpdaterTypeOK
    <2>2. ErrandsFit(errand', reach)
      BY <1>0, <1>8, ErrandEnds DEF ApplyFails
    <2> QED
      BY <1>8, <2>1, <2>2 DEF ApplyFails, UpdaterTypeOK, ErrandsFit
  <1>9. ASSUME NEW r \in Halves, NEW done \in SUBSET Halves, NEW h \in Halves,
               EndsBeforeMarker(r, done, h)
        PROVE  UpdaterTypeOK'
    <2>1. done \in SUBSET Behind(r) /\ done \cup {h} \in SUBSET Behind(r)
      BY <1>9 DEF EndsBeforeMarker
    <2>2. installed' \in [Halves -> Release] /\ marker' \in [Halves -> Release \cup {0}]
      BY <1>0, <1>9, <2>1, BroughtIsReleased DEF EndsBeforeMarker
    <2>3. torn' \subseteq Halves /\ wrecks' \in 0 .. MaxWrecks
      BY <1>9 DEF EndsBeforeMarker, Wreck, UpdaterTypeOK
    <2>4. ErrandsFit(errand', reach)
      BY <1>0, <1>9, ErrandEnds DEF EndsBeforeMarker
    <2> QED
      BY <1>9, <2>2, <2>3, <2>4 DEF EndsBeforeMarker, UpdaterTypeOK, ErrandsFit
  <1>10. CASE NewRelease
    <2>1. latest' \in Release
      BY <1>10 DEF NewRelease, UpdaterTypeOK, Release
    <2> QED
      BY <1>10, <2>1 DEF NewRelease, UpdaterTypeOK
  <1>11. ASSUME NEW h \in Halves, NEW version \in Release, Reinstall(h, version)
         PROVE  UpdaterTypeOK'
    <2>1. installed' \in [Halves -> Release] /\ torn' \subseteq Halves
          /\ wrecks' \in 0 .. MaxWrecks
      BY <1>11 DEF Reinstall, Wreck, UpdaterTypeOK
    <2> QED
      BY <1>11, <2>1 DEF Reinstall, UpdaterTypeOK
  <1>12. ASSUME NEW r \in Halves, NEW done \in SUBSET Halves, EndsBeforeManifest(r, done)
         PROVE  UpdaterTypeOK'
    <2>1. installed' \in [Halves -> Release] /\ marker' \in [Halves -> Release \cup {0}]
          /\ torn' \subseteq Halves
      BY <1>0, <1>12, BroughtIsReleased DEF EndsBeforeManifest, Replaced, UpdaterTypeOK
    <2>2. ErrandsFit(errand', reach)
      BY <1>0, <1>12, ErrandEnds DEF EndsBeforeManifest
    <2>3. wrecks' \in 0 .. MaxWrecks
      BY <1>12 DEF EndsBeforeManifest, Wreck, UpdaterTypeOK
    <2> QED
      BY <1>12, <2>1, <2>2, <2>3 DEF EndsBeforeManifest, UpdaterTypeOK, ErrandsFit
  <1>13. CASE UNCHANGED updaterVars
    BY <1>13 DEF updaterVars, UpdaterTypeOK
  <1> QED
    BY <1>1, <1>2, <1>3, <1>4, <1>5, <1>6, <1>7, <1>8, <1>9, <1>10, <1>11, <1>12, <1>13
    DEF UpdaterNext

\* What a step does to the binaries and their markers.
Bound ==
    /\ BoundOrFresh'
    /\ \A h \in Halves : h \notin torn \cup torn' => installed'[h] >= installed[h]

\* A step that leaves the binaries alone.
LEMMA SameBinaries ==
    ASSUME UpdaterInv, UNCHANGED <<installed, marker, torn>>
    PROVE  Bound
  BY DEF UpdaterInv, UpdaterTypeOK, BoundOrFresh, Bound, Release

\* One that replaces some that it found behind, and writes their markers.
LEMMA ReplacedIsBound ==
    ASSUME UpdaterInv, NEW r \in Halves, NEW done \in SUBSET Behind(r), Replaced(done)
    PROVE  Bound
  <1>1. BoundOrFresh'
    <2> SUFFICES ASSUME NEW h \in Halves, h \notin torn'
                 PROVE  marker'[h] = installed'[h] \/ (marker'[h] = 0 /\ installed'[h] = 1)
      BY DEF BoundOrFresh
    <2>1. CASE h \in done
      <3>1. marker'[h] = manifest.version /\ installed'[h] = manifest.version
        BY <2>1 DEF Replaced, Brought
      <3> QED
        BY <3>1
    <2>2. CASE h \notin done
      <3>1. marker'[h] = marker[h] /\ installed'[h] = installed[h] /\ h \notin torn
        BY <2>2 DEF Replaced, Brought
      <3> QED
        BY <3>1 DEF UpdaterInv, BoundOrFresh
    <2> QED
      BY <2>1, <2>2
  <1>2. \A h \in Halves \ torn : installed'[h] >= installed[h]
    BY BroughtIsNoOlder DEF Replaced
  <1> QED
    BY <1>1, <1>2 DEF Bound

\* Every step keeps the binaries bound, and rolls none back.
LEMMA BoundStep == ASSUME UpdaterInv, [UpdaterNext]_updaterVars PROVE Bound
  <1>1. ASSUME NEW r \in Halves, NEW now \in BOOLEAN, Check(r, now)
        PROVE  Bound
    BY <1>1, SameBinaries DEF Check
  <1>2. ASSUME NEW r \in Halves, NEW got \in SUBSET Halves, StageRelease(r, got)
        PROVE  Bound
    BY <1>2, SameBinaries DEF StageRelease
  <1>3. ASSUME NEW r \in Halves, StagingFails(r) \/ ApplyNow(r) \/ Launch(r) \/ EndsInManifest(r)
        PROVE  Bound
    BY <1>3, SameBinaries DEF StagingFails, ApplyNow, Launch, EndsInManifest
  <1>4. ASSUME NEW r \in Halves, NEW failed \in SUBSET Halves, Apply(r, failed)
        PROVE  Bound
    <2>1. Behind(r) \ failed \in SUBSET Behind(r)
      OBVIOUS
    <2> QED
      BY <1>4, <2>1, ReplacedIsBound DEF Apply
  <1>5. ASSUME NEW r \in Halves, NEW done \in SUBSET Halves,
               ApplyFails(r, done) \/ EndsBeforeManifest(r, done)
        PROVE  Bound
    BY <1>5, ReplacedIsBound DEF ApplyFails, EndsBeforeManifest
  <1>6. ASSUME NEW r \in Halves, NEW done \in SUBSET Halves, NEW h \in Halves,
               EndsBeforeMarker(r, done, h)
        PROVE  Bound
    <2>1. done \cup {h} \in SUBSET Behind(r) /\ h \in torn'
      BY <1>6 DEF EndsBeforeMarker
    <2>2. \A b \in Halves \ torn : installed'[b] >= installed[b]
      BY <1>6, <2>1, BroughtIsNoOlder DEF EndsBeforeMarker
    <2>3. BoundOrFresh'
      <3> SUFFICES ASSUME NEW b \in Halves, b \notin torn'
                   PROVE  marker'[b] = installed'[b] \/ (marker'[b] = 0 /\ installed'[b] = 1)
        BY DEF BoundOrFresh
      <3>1. b # h
        BY <2>1
      <3>2. CASE b \in done
        <4>1. b \in done \cup {h}
          BY <3>2
        <4>2. marker'[b] = manifest.version
          BY <1>6, <3>2 DEF EndsBeforeMarker, Brought
        <4>3. installed'[b] = manifest.version
          BY <1>6, <4>1 DEF EndsBeforeMarker, Brought
        <4> QED
          BY <4>2, <4>3
      <3>3. CASE b \notin done
        <4>1. b \notin torn
          BY <1>6, <3>3 DEF EndsBeforeMarker
        <4> QED
          BY <1>6, <3>1, <3>3, <4>1 DEF EndsBeforeMarker, Brought, UpdaterInv, BoundOrFresh
      <3> QED
        BY <3>2, <3>3
    <2> QED
      BY <2>2, <2>3 DEF Bound
  <1>7. CASE NewRelease
    BY <1>7, SameBinaries DEF NewRelease
  <1>8. ASSUME NEW h \in Halves, NEW version \in Release, Reinstall(h, version)
        PROVE  Bound
    <2>1. /\ torn' = torn \cup {h} /\ marker' = marker
          /\ \A b \in Halves : b # h => installed'[b] = installed[b]
      BY <1>8 DEF Reinstall, UpdaterInv, UpdaterTypeOK
    <2>2. \A b \in Halves : installed[b] \in Nat
      BY DEF UpdaterInv, UpdaterTypeOK, Release
    <2> QED
      BY <2>1, <2>2 DEF Bound, UpdaterInv, BoundOrFresh
  <1>9. CASE UNCHANGED updaterVars
    BY <1>9, SameBinaries DEF updaterVars
  <1> QED
    BY <1>1, <1>2, <1>3, <1>4, <1>5, <1>6, <1>7, <1>8, <1>9 DEF UpdaterNext

-----------------------------------------------------------------------------
(* The theorems. *)

\* Always: the types, and every binary is bound, fresh or torn.
LEMMA UpdaterInvHolds == UpdaterSpec => []UpdaterInv
  <1>1. UpdaterInit => UpdaterInv
    BY InitEstablishes
  <1>2. UpdaterInv /\ [UpdaterNext]_updaterVars => UpdaterInv'
    BY TypeStep, BoundStep DEF UpdaterInv, Bound
  <1> QED
    BY <1>1, <1>2, PTL DEF UpdaterSpec

\* The manifest, the markers and every process's errand have only the shapes that
\* apply_pending and stage_release make (crates/allmystuff-updater/src/lib.rs).
THEOREM UpdaterTypeHolds == UpdaterSpec => []UpdaterTypeOK
  <1>1. UpdaterInv => UpdaterTypeOK
    BY DEF UpdaterInv
  <1> QED
    BY <1>1, UpdaterInvHolds, PTL

\* However many halves, releases, stale downloads, crashes and foreign installers: no binary
\* that has its marker is replaced by an older one (apply_pending, reconcile_artifact_version).
THEOREM NeverRolledBack == UpdaterSpec => NeverRollsBack
  <1>1. UpdaterInv /\ [UpdaterNext]_updaterVars
        => [\A h \in Halves : h \notin torn \cup torn' => installed'[h] >= installed[h]]_updaterVars
    BY BoundStep DEF Bound
  <1> QED
    BY <1>1, UpdaterInvHolds, PTL DEF UpdaterSpec, NeverRollsBack

=============================================================================
