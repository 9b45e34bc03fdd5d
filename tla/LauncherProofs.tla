---------------------------- MODULE LauncherProofs ----------------------------
(***************************************************************************)
(* The safety properties of Launcher, for any signals, any number of them, *)
(* and any order of their handlers.                                        *)
(***************************************************************************)
EXTENDS Launcher, TLAPS

\* A child that leaves has a code, one that is dead a wait status.
ChildInv ==
  /\ child = "leaving" => code.kind = "code"
  /\ child = "dead" => ended.kind \in {"code", "signal"}

\* The child by the launcher's phase; a launcher past the spawn that has all
\* its handlers cannot be struck dead.
PhaseInv ==
  /\ launcher = "loading" => child = "none"
  /\ launcher = "closing" => ~Alive /\ status.kind # "signal"
  /\ launcher = "waiting" => handled = Signals

\* A launcher that has set its status, and was not struck, tells the truth
\* about a child that is no more.
TruthInv ==
  launcher \in {"closing", "ended"} =>
    /\ status.kind # "signal" => ~Alive
    /\ status.kind = "code" => IF child \in {"none", "failed"} THEN status = Exit(1)
                                                               ELSE status = ended
    /\ status.kind = "128+signal" => ended = Killed(status.of) /\ status.of \in Ignored
    /\ status.kind = "signal" => sent > 0 \/ (status = ended /\ ~Alive)

IInv == ChildInv /\ PhaseInv /\ TruthInv /\ NoOrphan

-----------------------------------------------------------------------------
(* Wait statuses. *)

LEMMA StatusTypes ==
  /\ NoStatus \in Statuses
  /\ \A c \in Codes \cup {Dumped} : Exit(c) \in Statuses
  /\ \A s \in Signals \cup Fatal : Killed(s) \in Statuses /\ Plus(s) \in Statuses
BY DEF Statuses

LEMMA StatusKinds ==
  /\ \A c : Exit(c).kind = "code"
  /\ \A s : Killed(s).kind = "signal" /\ Killed(s).of = s
  /\ \A s : Plus(s).kind = "128+signal" /\ Plus(s).of = s
  /\ NoStatus.kind = "none"
BY DEF Exit, Killed, Plus, NoStatus

LEMMA SignalStatus ==
  ASSUME NEW w \in Statuses, w.kind = "signal"
  PROVE  w.of \in Signals \cup Fatal /\ w = Killed(w.of)
BY StatusKinds DEF Statuses, Codes

\* A child dies of a signal with a code or a signal.
LEMMA DeathTypes ==
  ASSUME NEW s \in Signals \cup Fatal, NEW w \in Deaths(s)
  PROVE  w \in Statuses /\ w.kind \in {"code", "signal"}
BY StatusTypes, StatusKinds DEF Deaths

\* What a signal does to the child.
LEMMA Received ==
  ASSUME TypeOK, NEW s \in Signals \cup Fatal, Receive(s)
  PROVE  \/ UNCHANGED <<child, ended>>
         \/ child' = "stopping" /\ ended' = ended /\ Alive
         \/ /\ child' = "dead" /\ Alive
            /\ ended' \in Statuses /\ ended'.kind \in {"code", "signal"}
BY DeathTypes DEF Receive, Alive

\* What a signal does to the launcher.
LEMMA Struck ==
  ASSUME TypeOK, NEW s \in Signals \cup Fatal, Strike(s)
  PROVE  \/ s \in handled /\ caught' = Append(caught, s)
            /\ UNCHANGED <<launcher, handled, status, early>>
         \/ s \notin handled /\ launcher' = "ended" /\ status' = Killed(s)
            /\ handled' = {} /\ caught' = <<>> /\ early' = (launcher = "spawned")
BY DEF Strike

-----------------------------------------------------------------------------
(* Type correctness. *)

LEMMA TypeInit == Init => TypeOK
<1> SUFFICES ASSUME Init PROVE TypeOK
  OBVIOUS
<1>1. caught \in Seq(Signals)
  BY DEF Init
<1>2. 0 \in 0..MaxSent
  BY SignalsAssumption
<1>. QED BY <1>1, <1>2, StatusTypes DEF Init, TypeOK

LEMMA TypeNext == TypeOK /\ ChildInv /\ [Next]_vars => TypeOK'
<1> SUFFICES ASSUME TypeOK, ChildInv, [Next]_vars PROVE TypeOK'
  OBVIOUS
<1> USE StatusTypes DEF TypeOK
<1>1. CASE Start
  BY <1>1 DEF Start, own
<1>2. CASE Finish
  <2>1. code' \in Statuses
    BY <1>2 DEF Finish
  <2>. QED BY <1>2, <2>1 DEF Finish, own
<1>3. CASE Leave
  BY <1>3 DEF Leave, own
<1>4. ASSUME NEW s \in Fatal, Crash(s) PROVE TypeOK'
  BY <1>4, DeathTypes DEF Crash, own
<1>5. CASE Unloadable
  BY <1>5 DEF Unloadable, theirs, Codes
<1>6. CASE Spawn
  BY <1>6 DEF Spawn
<1>7. CASE SpawnFailed
  BY <1>7 DEF SpawnFailed, theirs, Codes
<1>8. CASE Forward
  <2>1. Head(caught) \in Signals /\ caught' \in Seq(Signals)
    BY <1>8 DEF Forward
  <2>2. child' \in {child, "stopping", "dead"} /\ ended' \in Statuses
    BY <1>8, <2>1, Received DEF Forward
  <2>. QED BY <1>8, <2>1, <2>2 DEF Forward
<1>9. CASE ChildExits
  <2>1. status' \in Statuses
    <3>1. CASE ended.kind = "signal"
      BY <1>9, <3>1, SignalStatus DEF ChildExits
    <3>2. CASE ended.kind = "code"
      BY <1>9, <3>2 DEF ChildExits
    <3>. QED BY <1>9, <3>1, <3>2 DEF ChildExits, ChildInv
  <2>. QED BY <1>9, <2>1 DEF ChildExits, theirs
<1>10. CASE Close
  BY <1>10 DEF Close, theirs
<1>11. ASSUME NEW i \in DOMAIN Order, Install(i) PROVE TypeOK'
  BY <1>11 DEF Install, theirs, Signals
<1>12. ASSUME NEW s \in (Signals \cup Fatal) \ Ignored, Signal(s) PROVE TypeOK'
  <2>1. child' \in {child, "stopping", "dead"} /\ ended' \in Statuses /\ code' = code /\ waits' = waits
    BY <1>12, Received DEF Signal, theirs
  <2>2. sent' \in 0..MaxSent
    BY <1>12, SignalsAssumption DEF Signal
  <2>3. /\ launcher' \in {launcher, "ended"} /\ handled' \subseteq Signals
        /\ caught' \in Seq(Signals) /\ status' \in Statuses /\ early' \in BOOLEAN
        /\ launcher' \notin {"spawned", "waiting"} => handled' = {} /\ caught' = <<>>
    <3>1. CASE s \in handled
      <4>1. caught' = Append(caught, s) /\ UNCHANGED <<launcher, handled, status, early>>
        BY <1>12, <3>1 DEF Signal, Strike
      <4>2. launcher \in {"spawned", "waiting"} /\ s \in Signals
        BY <3>1
      <4>. QED BY <4>1, <4>2
    <3>2. CASE s \notin handled
      <4>1. /\ launcher' = "ended" /\ status' = Killed(s)
            /\ handled' = {} /\ caught' = <<>> /\ early' = (launcher = "spawned")
        BY <1>12, <3>2 DEF Signal, Strike
      <4>2. early' \in BOOLEAN
        BY <4>1
      <4>3. caught' \in Seq(Signals)
        BY <4>1
      <4>. QED BY <4>1, <4>2, <4>3
    <3>. QED BY <3>1, <3>2
  <2>. QED BY <2>1, <2>2, <2>3
<1>13. CASE UNCHANGED vars
  BY <1>13 DEF vars
<1>. QED BY <1>1, <1>2, <1>3, <1>4, <1>5, <1>6, <1>7, <1>8, <1>9, <1>10, <1>11, <1>12,
            <1>13 DEF Next

-----------------------------------------------------------------------------
(* The other parts. *)

LEMMA ChildNext == TypeOK /\ ChildInv /\ [Next]_vars => ChildInv'
<1> SUFFICES ASSUME TypeOK, ChildInv, [Next]_vars PROVE ChildInv'
  OBVIOUS
<1> USE StatusKinds DEF ChildInv
<1>1. CASE Start \/ Leave \/ Unloadable \/ Spawn \/ SpawnFailed \/ ChildExits \/ Close
  BY <1>1 DEF Start, Leave, Unloadable, Spawn, SpawnFailed, ChildExits, Close, own, theirs
<1>2. CASE Finish
  BY <1>2 DEF Finish
<1>3. ASSUME NEW s \in Fatal, Crash(s) PROVE ChildInv'
  BY <1>3, DeathTypes DEF Crash, own
<1>4. CASE Forward
  <2>1. Head(caught) \in Signals
    BY <1>4 DEF Forward, TypeOK
  <2>. QED BY <1>4, <2>1, Received DEF Forward
<1>5. ASSUME NEW i \in DOMAIN Order, Install(i) PROVE ChildInv'
  BY <1>5 DEF Install, theirs
<1>6. ASSUME NEW s \in (Signals \cup Fatal) \ Ignored, Signal(s) PROVE ChildInv'
  BY <1>6, Received DEF Signal, theirs
<1>7. CASE UNCHANGED vars
  BY <1>7 DEF vars
<1>. QED BY <1>1, <1>2, <1>3, <1>4, <1>5, <1>6, <1>7 DEF Next

LEMMA PhaseNext == TypeOK /\ ChildInv /\ PhaseInv /\ [Next]_vars => PhaseInv'
<1> SUFFICES ASSUME TypeOK, ChildInv, PhaseInv, [Next]_vars PROVE PhaseInv'
  OBVIOUS
<1> USE StatusKinds DEF PhaseInv, Alive
<1>1. CASE Start \/ Finish \/ Leave \/ Unloadable \/ Spawn \/ SpawnFailed \/ Close
  BY <1>1 DEF Start, Finish, Leave, Unloadable, Spawn, SpawnFailed, Close, own, theirs
<1>2. ASSUME NEW s \in Fatal, Crash(s) PROVE PhaseInv'
  BY <1>2 DEF Crash, own
<1>3. CASE Forward
  BY <1>3 DEF Forward
<1>4. CASE ChildExits
  BY <1>4 DEF ChildExits, theirs, ChildInv
<1>5. ASSUME NEW i \in DOMAIN Order, Install(i) PROVE PhaseInv'
  BY <1>5 DEF Install, theirs
<1>6. ASSUME NEW s \in (Signals \cup Fatal) \ Ignored, Signal(s) PROVE PhaseInv'
  <2>1. UNCHANGED <<launcher, handled, status>> \/ launcher' = "ended"
    BY <1>6, Struck DEF Signal
  <2>2. UNCHANGED child \/ Alive
    BY <1>6, Received DEF Signal, theirs
  <2>. QED BY <2>1, <2>2 DEF TypeOK
<1>7. CASE UNCHANGED vars
  BY <1>7 DEF vars
<1>. QED BY <1>1, <1>2, <1>3, <1>4, <1>5, <1>6, <1>7 DEF Next

LEMMA TruthStruck ==
  ASSUME status'.kind = "signal", sent' > 0
  PROVE  TruthInv'
<1>1. status'.kind # "code" /\ status'.kind # "128+signal"
  OBVIOUS
<1>. QED BY <1>1 DEF TruthInv

LEMMA TruthNext ==
  TypeOK /\ ChildInv /\ PhaseInv /\ TruthInv /\ NoOrphan /\ [Next]_vars
    => TruthInv' /\ NoOrphan'
<1> SUFFICES ASSUME TypeOK, ChildInv, PhaseInv, TruthInv, NoOrphan, [Next]_vars
             PROVE  TruthInv' /\ NoOrphan'
  OBVIOUS
<1> USE StatusKinds DEF TruthInv, NoOrphan, Unforwarded
\* The child goes on: it was alive, so the status is that of a signal.
<1>0. ASSUME Alive, UNCHANGED <<launcher, status, sent, early>>,
             Alive' => Alive
      PROVE  TruthInv' /\ NoOrphan'
  <2>1. launcher \in {"closing", "ended"} => status.kind = "signal" /\ sent > 0
    BY <1>0
  <2>. QED BY <1>0, <2>1
<1>1. CASE Start \/ Finish \/ Leave
  BY <1>0, <1>1 DEF Start, Finish, Leave, own, Alive
<1>2. ASSUME NEW s \in Fatal, Crash(s) PROVE TruthInv' /\ NoOrphan'
  BY <1>0, <1>2 DEF Crash, own, Alive
<1>3. CASE Forward
  BY <1>3 DEF Forward
<1>4. CASE Unloadable
  BY <1>4 DEF Unloadable, theirs, PhaseInv, Alive
<1>5. CASE SpawnFailed
  BY <1>5 DEF SpawnFailed, theirs, Alive
<1>6. CASE Spawn
  BY <1>6 DEF Spawn
<1>7. CASE ChildExits
  <2>1. child' = "dead" /\ ended' = ended /\ launcher' \in {"closing", "ended"} /\ ~Alive'
    BY <1>7 DEF ChildExits, theirs, Alive
  <2>2. CASE ended.kind = "code"
    BY <1>7, <2>1, <2>2 DEF ChildExits
  <2>3. CASE ended.kind = "signal" /\ ended.of \notin Ignored
    BY <1>7, <2>1, <2>3 DEF ChildExits
  <2>4. CASE ended.kind = "signal" /\ ended.of \in Ignored
    <3>1. status' = Plus(ended.of) /\ ended = Killed(ended.of)
      BY <1>7, <2>4, SignalStatus DEF ChildExits, TypeOK
    <3>. QED BY <2>1, <2>4, <3>1
  <2>. QED BY <1>7, <2>2, <2>3, <2>4 DEF ChildExits, ChildInv
<1>8. CASE Close
  <2>1. launcher = "closing" /\ ~Alive /\ status.kind # "signal"
    BY <1>8 DEF Close, PhaseInv
  <2>2. UNCHANGED <<status, child, ended>>
    BY <1>8 DEF Close, theirs
  <2>3. ~Alive'
    BY <2>1, <2>2 DEF Alive
  <2>4. TruthInv'
    BY <2>1, <2>2, <2>3
  <2>. QED BY <2>3, <2>4
<1>9. ASSUME NEW i \in DOMAIN Order, Install(i) PROVE TruthInv' /\ NoOrphan'
  BY <1>9 DEF Install
<1>10. ASSUME NEW s \in (Signals \cup Fatal) \ Ignored, Signal(s) PROVE TruthInv' /\ NoOrphan'
  <2>1. /\ launcher # "ended" /\ sent' > 0
        /\ (UNCHANGED child /\ UNCHANGED ended) \/ Alive
    BY <1>10, Received DEF Signal, theirs, TypeOK
  <2>2. CASE s \in handled
    <3>1. UNCHANGED <<launcher, handled, status>> /\ launcher \in {"spawned", "waiting"}
      BY <1>10, <2>2 DEF Signal, Strike, TypeOK
    <3>. QED BY <3>1
  <2>3. CASE s \notin handled
    <3>1. launcher' = "ended" /\ status' = Killed(s) /\ early' = (launcher = "spawned")
      BY <1>10, <2>3 DEF Signal, Strike
    <3>2. Alive' /\ s \in Signals => launcher = "spawned"
      <4>1. s \in Signals => launcher # "waiting"
        BY <2>3 DEF PhaseInv
      <4>2. Alive' => Alive
        BY <2>1 DEF Alive
      <4>. QED BY <2>1, <4>1, <4>2 DEF PhaseInv, Alive, TypeOK
    <3>3. TruthInv'
      <4>1. status'.kind = "signal"
        BY <3>1
      <4>. QED BY <2>1, <4>1, TruthStruck
    <3>4. NoOrphan'
      <4>1. status'.kind = "signal" /\ status'.of = s
        BY <3>1
      <4>. QED BY <3>1, <3>2, <4>1 DEF Unforwarded
    <3>. QED BY <3>3, <3>4
  <2>. QED BY <2>2, <2>3
<1>11. CASE UNCHANGED vars
  BY <1>11 DEF vars, Alive
<1>. QED BY <1>1, <1>2, <1>3, <1>4, <1>5, <1>6, <1>7, <1>8, <1>9, <1>10, <1>11 DEF Next

LEMMA Invariant == Spec => [](TypeOK /\ IInv)
<1>1. Init => TypeOK /\ IInv
  <2>1. Init => IInv
    BY DEF Init, IInv, ChildInv, PhaseInv, TruthInv, NoOrphan, Alive
  <2>. QED BY <2>1, TypeInit
<1>2. TypeOK /\ IInv /\ [Next]_vars => TypeOK' /\ IInv'
  BY TypeNext, ChildNext, PhaseNext, TruthNext DEF IInv
<1>. QED BY <1>1, <1>2, PTL DEF Spec

-----------------------------------------------------------------------------
(* The properties. *)

\* Every variable keeps its type, and no handler outlives the child.
THEOREM TypeCorrect == Spec => []TypeOK
<1>. QED BY Invariant, PTL

\* The launcher's wait status is the child's, or says why there is none.
THEOREM StatusTrue == Spec => []StatusIsTrue
<1>1. IInv => StatusIsTrue
  BY DEF IInv, TruthInv, StatusIsTrue
<1>. QED BY <1>1, Invariant, PTL

\* A child outlives the launcher only if a signal that is not forwarded struck
\* the launcher: one without a handler, or one before the last handler was on.
THEOREM NoOrphans == Spec => []NoOrphan
<1>1. IInv => NoOrphan
  BY DEF IInv
<1>. QED BY <1>1, Invariant, PTL
=============================================================================
