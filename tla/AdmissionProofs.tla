-------------------------- MODULE AdmissionProofs --------------------------
(***************************************************************************)
(* Proofs about Admission, for any number of listeners, connections and    *)
(* addresses and any caps.                                                 *)
(***************************************************************************)
EXTENDS Admission, FiniteSetTheorems, SequenceTheorems, WellFoundedInduction, TLAPS

-----------------------------------------------------------------------------
(* Type correctness.                                                       *)

LEMMA NoneTyped == NoPort \in Listeners /\ NoAddr \in Addrs
  BY SetsAssumption DEF NoPort, NoAddr

LEMMA InitTyped == Init => TypeOK
  BY NoneTyped DEF Init, TypeOK, Phases, Resources, Setup, Unwinding

LEMMA NextTyped == TypeOK /\ [Next]_vars => TypeOK'
  <1> SUFFICES ASSUME TypeOK, [Next]_vars PROVE TypeOK'
    OBVIOUS
  <1> USE DEF TypeOK, Goto, Phases, Resources, Setup, Unwinding, Events,
              connVars, capVars, shedVars, mainVars
  <1>1. ASSUME NEW c \in Conns, NEW l \in Listeners, NEW a \in Addrs, Accept(c, l, a)
        PROVE  TypeOK'
    BY <1>1 DEF Accept
  <1>2. ASSUME NEW c \in Conns, TakeNotice(c, shedN[port[c]] + 1) PROVE TypeOK'
    BY <1>2 DEF TakeNotice
  <1>3. ASSUME NEW c \in Conns, NEW a \in Addrs, Attribute(c, a) PROVE TypeOK'
    BY <1>3 DEF Attribute
  <1>4. ASSUME NEW c \in Conns, Admit(c) PROVE TypeOK'
    BY <1>4 DEF Admit
  <1>5. ASSUME NEW c \in Conns, Refuse(c) PROVE TypeOK'
    BY <1>5 DEF Refuse
  <1>6. ASSUME NEW c \in Conns, CountShed(c) PROVE TypeOK'
    BY <1>6 DEF CountShed
  <1>7. ASSUME NEW c \in Conns, LogNotice(c) PROVE TypeOK'
    BY <1>7 DEF LogNotice
  <1>8. ASSUME NEW c \in Conns, HeaderBad(c) PROVE TypeOK'
    BY <1>8 DEF HeaderBad
  <1>9. ASSUME NEW c \in Conns, AdmitSource(c) PROVE TypeOK'
    BY <1>9 DEF AdmitSource
  <1>10. ASSUME NEW c \in Conns, RefuseSource(c) PROVE TypeOK'
    BY <1>10 DEF RefuseSource
  <1>11. ASSUME NEW c \in Conns, FirstByte(c) PROVE TypeOK'
    BY <1>11 DEF FirstByte
  <1>12. ASSUME NEW c \in Conns, BareScan(c) PROVE TypeOK'
    BY <1>12 DEF BareScan, Log
  <1>13. ASSUME NEW c \in Conns, Record(c) PROVE TypeOK'
    BY <1>13 DEF Record
  <1>14. ASSUME NEW c \in Conns, NoRecord(c) PROVE TypeOK'
    BY <1>14 DEF NoRecord
  <1>15. ASSUME NEW c \in Conns, SetupPanic(c) PROVE TypeOK'
    BY <1>15 DEF SetupPanic
  <1>16. ASSUME NEW c \in Conns, SessionStart(c) PROVE TypeOK'
    BY <1>16 DEF SessionStart, Log
  <1>17. ASSUME NEW c \in Conns, HandlerReturns(c) PROVE TypeOK'
    BY <1>17 DEF HandlerReturns
  <1>18. ASSUME NEW c \in Conns, HandlerPanics(c) PROVE TypeOK'
    BY <1>18 DEF HandlerPanics, Log
  <1>19. ASSUME NEW c \in Conns, SessionEnd(c) PROVE TypeOK'
    BY <1>19 DEF SessionEnd, Log
  <1>20. ASSUME NEW c \in Conns, CloseRecorder(c) PROVE TypeOK'
    BY <1>20 DEF CloseRecorder
  <1>21. ASSUME NEW c \in Conns, ReleaseSource(c) PROVE TypeOK'
    BY <1>21 DEF ReleaseSource
  <1>22. ASSUME NEW c \in Conns, ReleaseGlobal(c) PROVE TypeOK'
    BY <1>22 DEF ReleaseGlobal
  <1>23. ASSUME NEW c \in Conns, CloseConn(c) PROVE TypeOK'
    BY <1>23, NoneTyped DEF CloseConn, Close
  <1>24. ASSUME NEW c \in Conns, RecoverAndClose(c) PROVE TypeOK'
    BY <1>24, NoneTyped, SMTT(30) DEF RecoverAndClose, Close, Log
  <1>25. ASSUME NEW l \in Listeners, ShedIntervalOver(l) PROVE TypeOK'
    BY <1>25 DEF ShedIntervalOver
  <1>26. ASSUME NEW l \in Listeners, CloseListener(l) PROVE TypeOK'
    BY <1>26 DEF CloseListener
  <1>27. CASE Signal
    BY <1>27 DEF Signal
  <1>28. CASE CloseLogger
    BY <1>28 DEF CloseLogger
  <1>29. CASE Exit
    BY <1>29 DEF Exit
  <1>30. CASE UNCHANGED vars
    BY <1>30 DEF vars
  <1> HIDE DEF TypeOK
  <1>31. ASSUME NEW c \in Conns, Handle(c) PROVE TypeOK'
    <2>1. peer[c] \in Addrs
      BY DEF TypeOK
    <2> QED
      BY <1>31, <2>1, <1>2, <1>3, <1>4, <1>5, <1>6, <1>7, <1>8, <1>9, <1>10, <1>11, <1>12, <1>13, <1>14, <1>15, <1>16, <1>17, <1>18, <1>19, <1>20, <1>21, <1>22, <1>23, <1>24
         DEF Handle, TryAcquire, NoteShed, ReadHeader, AcquireSource
  <1> QED
    BY <1>1, <1>15, <1>25, <1>26, <1>27, <1>28, <1>29, <1>30, <1>31
       DEF Next, Shutdown

\* Every reachable state of the connection server is well typed.
THEOREM TypeCorrect == Spec => []TypeOK
  BY InitTyped, NextTyped, PTL DEF Spec

-----------------------------------------------------------------------------
(* Slots.                                                                  *)

\* What a connection holds while its goroutine is on the way to a slot.  The
\* accounting of slots is inductive only together with this: an acquisition
\* must add a new holder, and a change of port or source must not move one.
HeldShape ==
  \A c \in Conns :
    /\ pc[c] = "absent" => held[c] = {}
    /\ pc[c] = "start" => held[c] = {"conn"}
    /\ pc[c] \in {"header", "source"} => held[c] = {"conn", "global"}

\* The counters never pass the caps.
WithinCaps ==
  /\ global <= MaxConns
  /\ \A l \in Listeners, a \in Addrs : conns[l][a] <= MaxConnsPerIP

SlotInv == TypeOK /\ HeldShape /\ SlotAccounting /\ WithinCaps

\* A step that neither takes nor gives back a slot, nor moves a held one.
KeepsSlots ==
  /\ global' = global /\ conns' = conns
  /\ \A d \in Conns :
       /\ "global" \in held'[d] <=> "global" \in held[d]
       /\ "source" \in held'[d] <=> "source" \in held[d]
       /\ "source" \in held[d] => port'[d] = port[d] /\ src'[d] = src[d]

LEMMA HoldersFinite ==
  /\ IsFiniteSet(GlobalHolders)
  /\ \A l, a : IsFiniteSet(SourceHolders(l, a))
  <1>1. GlobalHolders \subseteq Conns
    BY DEF GlobalHolders
  <1>2. \A l, a : SourceHolders(l, a) \subseteq Conns
    BY DEF SourceHolders
  <1> QED
    BY <1>1, <1>2, SetsAssumption, FS_Subset

\* Such a step keeps the accounting.
LEMMA KeepsAccounting ==
  ASSUME SlotAccounting, WithinCaps, KeepsSlots
  PROVE  SlotAccounting' /\ WithinCaps'
  <1>1. GlobalHolders' = GlobalHolders
    BY DEF GlobalHolders, KeepsSlots
  <1>2. ASSUME NEW l \in Listeners, NEW a \in Addrs
        PROVE  SourceHolders(l, a)' = SourceHolders(l, a)
    BY DEF SourceHolders, KeepsSlots
  <1>3. global' = Cardinality(GlobalHolders')
    BY <1>1 DEF SlotAccounting, KeepsSlots
  <1>4. ASSUME NEW l \in Listeners, NEW a \in Addrs
        PROVE  conns'[l][a] = Cardinality(SourceHolders(l, a)')
    BY <1>2 DEF SlotAccounting, KeepsSlots
  <1>5. WithinCaps'
    BY DEF WithinCaps, KeepsSlots
  <1> QED
    BY <1>3, <1>4, <1>5 DEF SlotAccounting

\* Every action but the four that acquire and release is such a step.
LEMMA QuietSteps ==
  ASSUME TypeOK, HeldShape, [Next]_vars
  PROVE  \/ KeepsSlots
         \/ \E c \in Conns : \/ global < MaxConns /\ Admit(c)
                             \/ /\ conns[port[c]][src[c]] < MaxConnsPerIP
                                /\ AdmitSource(c)
                             \/ ReleaseSource(c) \/ ReleaseGlobal(c)
  <1> USE DEF TypeOK, HeldShape, KeepsSlots, Goto, connVars, capVars
  <1>1. ASSUME NEW c \in Conns, NEW l \in Listeners, NEW a \in Addrs, Accept(c, l, a)
        PROVE  KeepsSlots
    BY <1>1 DEF Accept
  <1>2. ASSUME NEW c \in Conns, TakeNotice(c, shedN[port[c]] + 1) PROVE KeepsSlots
    BY <1>2 DEF TakeNotice
  <1>3. ASSUME NEW c \in Conns, NEW a \in Addrs, Attribute(c, a) PROVE KeepsSlots
    <2>0. pc[c] = "header"
      BY <1>3 DEF Attribute
    <2>1. held[c] = {"conn", "global"}
      BY <2>0
    <2>2. \A d \in Conns : d # c => src'[d] = src[d]
      BY <1>3 DEF Attribute
    <2>3. held' = held /\ port' = port /\ global' = global /\ conns' = conns
      BY <1>3 DEF Attribute
    <2>4. "global" \in held'[c] <=> "global" \in held[c]
      BY <2>1, <2>3
    <2>5. "source" \notin held[c] /\ "source" \notin held'[c]
      BY <2>1, <2>3
    <2> HIDE DEF TypeOK, HeldShape, Goto
    <2> QED
      BY <2>2, <2>3, <2>4, <2>5 DEF KeepsSlots
  <1>4. ASSUME NEW c \in Conns, Refuse(c) PROVE KeepsSlots
    BY <1>4 DEF Refuse
  <1>5. ASSUME NEW c \in Conns, CountShed(c) PROVE KeepsSlots
    BY <1>5 DEF CountShed
  <1>6. ASSUME NEW c \in Conns, LogNotice(c) PROVE KeepsSlots
    BY <1>6 DEF LogNotice
  <1>7. ASSUME NEW c \in Conns, HeaderBad(c) PROVE KeepsSlots
    BY <1>7 DEF HeaderBad
  <1>8. ASSUME NEW c \in Conns, RefuseSource(c) PROVE KeepsSlots
    BY <1>8 DEF RefuseSource
  <1>9. ASSUME NEW c \in Conns, FirstByte(c) PROVE KeepsSlots
    BY <1>9 DEF FirstByte
  <1>10. ASSUME NEW c \in Conns, BareScan(c) PROVE KeepsSlots
    BY <1>10 DEF BareScan
  <1>11. ASSUME NEW c \in Conns, Record(c) PROVE KeepsSlots
    BY <1>11 DEF Record
  <1>12. ASSUME NEW c \in Conns, NoRecord(c) PROVE KeepsSlots
    BY <1>12 DEF NoRecord
  <1>13. ASSUME NEW c \in Conns, SetupPanic(c) PROVE KeepsSlots
    BY <1>13 DEF SetupPanic
  <1>14. ASSUME NEW c \in Conns, SessionStart(c) PROVE KeepsSlots
    BY <1>14 DEF SessionStart
  <1>15. ASSUME NEW c \in Conns, HandlerReturns(c) PROVE KeepsSlots
    BY <1>15 DEF HandlerReturns
  <1>16. ASSUME NEW c \in Conns, HandlerPanics(c) PROVE KeepsSlots
    BY <1>16 DEF HandlerPanics
  <1>17. ASSUME NEW c \in Conns, SessionEnd(c) PROVE KeepsSlots
    BY <1>17 DEF SessionEnd
  <1>18. ASSUME NEW c \in Conns, CloseRecorder(c) PROVE KeepsSlots
    BY <1>18 DEF CloseRecorder
  <1>19. ASSUME NEW c \in Conns, Close(c) PROVE KeepsSlots
    <2>1. held[c] = {"conn"} /\ held'[c] = {}
      BY <1>19 DEF Close
    <2>2. \A d \in Conns : d # c => /\ held'[d] = held[d]
                                   /\ port'[d] = port[d]
                                   /\ src'[d] = src[d]
      BY <1>19 DEF Close
    <2>3. global' = global /\ conns' = conns
      BY <1>19 DEF Close
    <2>4. "global" \in held'[c] <=> "global" \in held[c]
      BY <2>1, <2>3
    <2>5. "source" \notin held[c] /\ "source" \notin held'[c]
      BY <2>1, <2>3
    <2> HIDE DEF TypeOK, HeldShape, Goto
    <2> QED
      BY <2>2, <2>3, <2>4, <2>5 DEF KeepsSlots
  <1>20. ASSUME NEW l \in Listeners, ShedIntervalOver(l) \/ CloseListener(l) PROVE KeepsSlots
    BY <1>20 DEF ShedIntervalOver, CloseListener
  <1>21. ASSUME Signal \/ CloseLogger \/ Exit PROVE KeepsSlots
    BY <1>21 DEF Signal, CloseLogger, Exit
  <1>22. ASSUME UNCHANGED vars PROVE KeepsSlots
    BY <1>22 DEF vars
  <1> HIDE DEF KeepsSlots
  <1>23. ASSUME NEW c \in Conns, Handle(c)
        PROVE  \/ KeepsSlots
               \/ global < MaxConns /\ Admit(c)
               \/ conns[port[c]][src[c]] < MaxConnsPerIP /\ AdmitSource(c)
               \/ ReleaseSource(c) \/ ReleaseGlobal(c)
    BY <1>23, <1>2, <1>3, <1>4, <1>5, <1>6, <1>7, <1>8, <1>9, <1>10, <1>11, <1>12, <1>13, <1>14, <1>15, <1>16, <1>17, <1>18, <1>19
       DEF Handle, TryAcquire, NoteShed, ReadHeader, AcquireSource, CloseConn, RecoverAndClose
  <1> QED
    BY <1>1, <1>13, <1>20, <1>21, <1>22, <1>23
       DEF Next, Shutdown

LEMMA ShapeKept ==
  ASSUME TypeOK, HeldShape, [Next]_vars
  PROVE  HeldShape'
  <1> USE DEF TypeOK, HeldShape, Goto, connVars, Setup, Unwinding
  <1>1. ASSUME NEW c \in Conns, NEW l \in Listeners, NEW a \in Addrs, Accept(c, l, a)
        PROVE  HeldShape'
    BY <1>1 DEF Accept
  <1>2. ASSUME NEW c \in Conns, TakeNotice(c, shedN[port[c]] + 1) PROVE HeldShape'
    BY <1>2 DEF TakeNotice
  <1>3. ASSUME NEW c \in Conns, NEW a \in Addrs, Attribute(c, a) PROVE HeldShape'
    BY <1>3 DEF Attribute
  <1>4. ASSUME NEW c \in Conns, Refuse(c) PROVE HeldShape'
    BY <1>4 DEF Refuse
  <1>5. ASSUME NEW c \in Conns, CountShed(c) PROVE HeldShape'
    BY <1>5 DEF CountShed
  <1>6. ASSUME NEW c \in Conns, LogNotice(c) PROVE HeldShape'
    BY <1>6 DEF LogNotice
  <1>7. ASSUME NEW c \in Conns, HeaderBad(c) PROVE HeldShape'
    BY <1>7 DEF HeaderBad
  <1>8. ASSUME NEW c \in Conns, RefuseSource(c) PROVE HeldShape'
    BY <1>8 DEF RefuseSource
  <1>9. ASSUME NEW c \in Conns, FirstByte(c) PROVE HeldShape'
    BY <1>9 DEF FirstByte
  <1>10. ASSUME NEW c \in Conns, BareScan(c) PROVE HeldShape'
    BY <1>10 DEF BareScan
  <1>11. ASSUME NEW c \in Conns, Record(c) PROVE HeldShape'
    BY <1>11 DEF Record
  <1>12. ASSUME NEW c \in Conns, NoRecord(c) PROVE HeldShape'
    BY <1>12 DEF NoRecord
  <1>13. ASSUME NEW c \in Conns, SetupPanic(c) PROVE HeldShape'
    BY <1>13 DEF SetupPanic
  <1>14. ASSUME NEW c \in Conns, SessionStart(c) PROVE HeldShape'
    BY <1>14 DEF SessionStart
  <1>15. ASSUME NEW c \in Conns, HandlerReturns(c) PROVE HeldShape'
    BY <1>15 DEF HandlerReturns
  <1>16. ASSUME NEW c \in Conns, HandlerPanics(c) PROVE HeldShape'
    BY <1>16 DEF HandlerPanics
  <1>17. ASSUME NEW c \in Conns, SessionEnd(c) PROVE HeldShape'
    BY <1>17 DEF SessionEnd
  <1>18. ASSUME NEW c \in Conns, CloseRecorder(c) PROVE HeldShape'
    BY <1>18 DEF CloseRecorder
  <1>19. ASSUME NEW c \in Conns, ReleaseSource(c) PROVE HeldShape'
    BY <1>19 DEF ReleaseSource
  <1>20. ASSUME NEW c \in Conns, ReleaseGlobal(c) PROVE HeldShape'
    BY <1>20 DEF ReleaseGlobal
  <1>21. ASSUME NEW c \in Conns, CloseConn(c) PROVE HeldShape'
    BY <1>21 DEF CloseConn, Close
  <1>22. ASSUME NEW c \in Conns, RecoverAndClose(c) PROVE HeldShape'
    BY <1>22 DEF RecoverAndClose, Close
  <1>23. ASSUME NEW c \in Conns, Admit(c) PROVE HeldShape'
    BY <1>23 DEF Admit
  <1>24. ASSUME NEW c \in Conns, AdmitSource(c) PROVE HeldShape'
    BY <1>24 DEF AdmitSource
  <1>25. ASSUME NEW l \in Listeners, ShedIntervalOver(l) \/ CloseListener(l) PROVE HeldShape'
    BY <1>25 DEF ShedIntervalOver, CloseListener
  <1>26. ASSUME Signal \/ CloseLogger \/ Exit PROVE HeldShape'
    BY <1>26 DEF Signal, CloseLogger, Exit
  <1>27. ASSUME UNCHANGED vars PROVE HeldShape'
    BY <1>27 DEF vars
  <1> HIDE DEF HeldShape
  <1>28. ASSUME NEW c \in Conns, Handle(c) PROVE HeldShape'
    BY <1>28, <1>2, <1>3, <1>4, <1>5, <1>6, <1>7, <1>8, <1>9, <1>10, <1>11, <1>12, <1>13, <1>14, <1>15, <1>16, <1>17, <1>18, <1>19, <1>20, <1>21, <1>22, <1>23, <1>24
       DEF Handle, TryAcquire, NoteShed, ReadHeader, AcquireSource
  <1> QED
    BY <1>1, <1>13, <1>25, <1>26, <1>27, <1>28
       DEF Next, Shutdown

\* tryAcquire adds one token and one holder.
LEMMA AdmitSlots ==
  ASSUME SlotInv, NEW c \in Conns, global < MaxConns, Admit(c)
  PROVE  SlotAccounting' /\ WithinCaps'
  <1> USE DEF SlotInv
  <1>1. held[c] = {"conn"}
    BY DEF HeldShape, Admit, Goto
  <1>2. c \notin GlobalHolders
    BY <1>1 DEF GlobalHolders
  <1>3. GlobalHolders' = GlobalHolders \cup {c}
    BY DEF GlobalHolders, Admit, TypeOK
  <1>4. Cardinality(GlobalHolders') = Cardinality(GlobalHolders) + 1
    BY <1>2, <1>3, HoldersFinite, FS_AddElement
  <1>5. ASSUME NEW l \in Listeners, NEW a \in Addrs
        PROVE  SourceHolders(l, a)' = SourceHolders(l, a)
    BY DEF SourceHolders, Admit, TypeOK
  <1>6. global' = Cardinality(GlobalHolders')
    BY <1>4 DEF SlotAccounting, Admit
  <1>7. ASSUME NEW l \in Listeners, NEW a \in Addrs
        PROVE  conns'[l][a] = Cardinality(SourceHolders(l, a)')
    BY <1>5 DEF SlotAccounting, Admit
  <1>8. WithinCaps'
    BY CapsAssumption DEF WithinCaps, Admit, TypeOK
  <1> QED
    BY <1>6, <1>7, <1>8 DEF SlotAccounting

\* The deferred release takes one token from a connection that holds one.
LEMMA ReleaseGlobalSlots ==
  ASSUME SlotInv, NEW c \in Conns, ReleaseGlobal(c)
  PROVE  SlotAccounting' /\ WithinCaps'
  <1> USE DEF SlotInv
  <1>2. c \in GlobalHolders
    BY DEF GlobalHolders, ReleaseGlobal
  <1>3. GlobalHolders' = GlobalHolders \ {c}
    BY DEF GlobalHolders, ReleaseGlobal, TypeOK
  <1>4. Cardinality(GlobalHolders') = Cardinality(GlobalHolders) - 1
    BY <1>2, <1>3, HoldersFinite, FS_RemoveElement
  <1>5. ASSUME NEW l \in Listeners, NEW a \in Addrs
        PROVE  SourceHolders(l, a)' = SourceHolders(l, a)
    BY DEF SourceHolders, ReleaseGlobal, TypeOK
  <1>6. global' = Cardinality(GlobalHolders')
    BY <1>4 DEF SlotAccounting, ReleaseGlobal
  <1>7. ASSUME NEW l \in Listeners, NEW a \in Addrs
        PROVE  conns'[l][a] = Cardinality(SourceHolders(l, a)')
    BY <1>5 DEF SlotAccounting, ReleaseGlobal
  <1>8. WithinCaps'
    BY CapsAssumption DEF WithinCaps, ReleaseGlobal, TypeOK
  <1> QED
    BY <1>6, <1>7, <1>8 DEF SlotAccounting

\* Server.acquire counts the connection under its own listener and source.
LEMMA AdmitSourceSlots ==
  ASSUME SlotInv, NEW c \in Conns,
         conns[port[c]][src[c]] < MaxConnsPerIP, AdmitSource(c)
  PROVE  SlotAccounting' /\ WithinCaps'
  <1> DEFINE p == port[c]
             s == src[c]
  <1> USE DEF SlotInv
  <1>1. held[c] = {"conn", "global"}
    BY DEF HeldShape, AdmitSource, Goto
  <1>2. p \in Listeners /\ s \in Addrs
    BY DEF TypeOK
  <1>3. \A d \in Conns : held'[d] = IF d = c THEN held[c] \cup {"source"} ELSE held[d]
    BY DEF AdmitSource, TypeOK
  <1>4. \A d \in Conns : port'[d] = port[d] /\ src'[d] = src[d]
    BY DEF AdmitSource
  <1>5. conns'[p][s] = conns[p][s] + 1
    BY <1>2 DEF AdmitSource, TypeOK
  <1>6. ASSUME NEW l \in Listeners, NEW a \in Addrs, l # p \/ a # s
        PROVE  conns'[l][a] = conns[l][a]
    BY <1>6, <1>2 DEF AdmitSource, TypeOK
  <1>7. GlobalHolders' = GlobalHolders
    BY <1>3 DEF GlobalHolders
  <1>8. global' = Cardinality(GlobalHolders')
    BY <1>7 DEF SlotAccounting, AdmitSource
  <1>9. ASSUME NEW l \in Listeners, NEW a \in Addrs
        PROVE  conns'[l][a] = Cardinality(SourceHolders(l, a)')
    <2>1. CASE l = p /\ a = s
      <3>1. c \notin SourceHolders(l, a)
        BY <1>1, <2>1 DEF SourceHolders
      <3>2. SourceHolders(l, a)' = SourceHolders(l, a) \cup {c}
        BY <1>3, <1>4, <2>1 DEF SourceHolders
      <3>3. Cardinality(SourceHolders(l, a)') = Cardinality(SourceHolders(l, a)) + 1
        BY <3>1, <3>2, HoldersFinite, FS_AddElement
      <3> QED
        BY <2>1, <3>3, <1>5 DEF SlotAccounting
    <2>2. CASE l # p \/ a # s
      <3>1. SourceHolders(l, a)' = SourceHolders(l, a)
        BY <2>2, <1>3, <1>4 DEF SourceHolders
      <3> QED
        BY <2>2, <3>1, <1>6 DEF SlotAccounting
    <2> QED
      BY <2>1, <2>2
  <1>10. global' <= MaxConns
    BY DEF WithinCaps, AdmitSource
  <1>11. ASSUME NEW l \in Listeners, NEW a \in Addrs PROVE conns'[l][a] <= MaxConnsPerIP
    <2>1. conns[p][s] \in Nat
      BY <1>2 DEF TypeOK
    <2>2. conns'[p][s] <= MaxConnsPerIP
      BY <2>1, <1>5, CapsAssumption
    <2> QED
      BY <2>2, <1>6 DEF WithinCaps
  <1> QED
    BY <1>8, <1>9, <1>10, <1>11 DEF SlotAccounting, WithinCaps

\* Server.release uncounts it under the same listener and source.
LEMMA ReleaseSourceSlots ==
  ASSUME SlotInv, NEW c \in Conns, ReleaseSource(c)
  PROVE  SlotAccounting' /\ WithinCaps'
  <1> DEFINE p == port[c]
             s == src[c]
  <1> USE DEF SlotInv
  <1>1. "source" \in held[c]
    BY DEF ReleaseSource
  <1>2. p \in Listeners /\ s \in Addrs
    BY DEF TypeOK
  <1>3. \A d \in Conns : held'[d] = IF d = c THEN held[c] \ {"source"} ELSE held[d]
    BY DEF ReleaseSource, TypeOK
  <1>4. \A d \in Conns : port'[d] = port[d] /\ src'[d] = src[d]
    BY DEF ReleaseSource
  <1>5. conns'[p][s] = IF conns[p][s] <= 1 THEN 0 ELSE conns[p][s] - 1
    BY <1>2 DEF ReleaseSource, TypeOK
  <1>6. ASSUME NEW l \in Listeners, NEW a \in Addrs, l # p \/ a # s
        PROVE  conns'[l][a] = conns[l][a]
    BY <1>6, <1>2 DEF ReleaseSource, TypeOK
  <1>7. GlobalHolders' = GlobalHolders
    BY <1>3 DEF GlobalHolders
  <1>8. global' = Cardinality(GlobalHolders')
    BY <1>7 DEF SlotAccounting, ReleaseSource
  <1>n. conns[p][s] \in Nat
    BY <1>2 DEF TypeOK
  <1>9. ASSUME NEW l \in Listeners, NEW a \in Addrs
        PROVE  conns'[l][a] = Cardinality(SourceHolders(l, a)')
    <2>1. CASE l = p /\ a = s
      <3>1. c \in SourceHolders(l, a)
        BY <1>1, <2>1 DEF SourceHolders
      <3>2. SourceHolders(l, a)' = SourceHolders(l, a) \ {c}
        BY <1>3, <1>4, <2>1 DEF SourceHolders
      <3>3. /\ Cardinality(SourceHolders(l, a)') = Cardinality(SourceHolders(l, a)) - 1
            /\ Cardinality(SourceHolders(l, a)') \in Nat
        BY <3>1, <3>2, HoldersFinite, FS_RemoveElement, FS_CardinalityType
      <3>4. conns[p][s] = Cardinality(SourceHolders(l, a))
        BY <2>1 DEF SlotAccounting
      <3> QED
        BY <2>1, <3>3, <3>4, <1>5, <1>n
    <2>2. CASE l # p \/ a # s
      <3>1. SourceHolders(l, a)' = SourceHolders(l, a)
        BY <2>2, <1>3, <1>4 DEF SourceHolders
      <3> QED
        BY <2>2, <3>1, <1>6 DEF SlotAccounting
    <2> QED
      BY <2>1, <2>2
  <1>10. global' <= MaxConns
    BY DEF WithinCaps, ReleaseSource
  <1>11. ASSUME NEW l \in Listeners, NEW a \in Addrs PROVE conns'[l][a] <= MaxConnsPerIP
    <2>1. conns[p][s] <= MaxConnsPerIP
      BY <1>2 DEF WithinCaps
    <2>2. conns'[p][s] <= MaxConnsPerIP
      BY <2>1, <1>n, <1>5, CapsAssumption
    <2> QED
      BY <2>2, <1>6 DEF WithinCaps
  <1> QED
    BY <1>8, <1>9, <1>10, <1>11 DEF SlotAccounting, WithinCaps

LEMMA InitSlots == Init => SlotInv
  <1> SUFFICES ASSUME Init PROVE SlotInv
    OBVIOUS
  <1>1. HeldShape
    BY DEF Init, HeldShape
  <1>2. GlobalHolders = {}
    BY DEF Init, GlobalHolders
  <1>3. ASSUME NEW l \in Listeners, NEW a \in Addrs PROVE SourceHolders(l, a) = {}
    BY DEF Init, SourceHolders
  <1>4. SlotAccounting
    BY <1>2, <1>3, FS_EmptySet DEF Init, SlotAccounting
  <1>5. WithinCaps
    BY CapsAssumption DEF Init, WithinCaps
  <1> QED
    BY <1>1, <1>4, <1>5, InitTyped DEF SlotInv

LEMMA NextSlots == SlotInv /\ [Next]_vars => SlotInv'
  <1> SUFFICES ASSUME SlotInv, [Next]_vars PROVE SlotInv'
    OBVIOUS
  <1>1. TypeOK /\ HeldShape /\ SlotAccounting /\ WithinCaps
    BY DEF SlotInv
  <1>2. TypeOK' /\ HeldShape'
    BY <1>1, NextTyped, ShapeKept
  <1>3. SlotAccounting' /\ WithinCaps'
    BY <1>1, QuietSteps, KeepsAccounting, AdmitSlots, AdmitSourceSlots,
       ReleaseSourceSlots, ReleaseGlobalSlots
  <1> QED
    BY <1>2, <1>3 DEF SlotInv

\* No path through Server.handle leaks or double-frees a slot: the limiter's
\* channel and the per-source tables always count exactly the connections
\* that hold a slot.
THEOREM SlotsAccounted == Spec => []SlotAccounting
  <1>1. SlotInv => SlotAccounting
    BY DEF SlotInv
  <1> QED
    BY <1>1, InitSlots, NextSlots, PTL DEF Spec

\* A step that makes a connection "shed" is one of the two refusals.
LEMMA ShedByRefusal ==
  ASSUME TypeOK, Next, NEW c \in Conns, pc'[c] = "shed", pc[c] # "shed"
  PROVE  \/ global >= MaxConns /\ pc[c] = "start"
         \/ conns[port[c]][src[c]] >= MaxConnsPerIP /\ pc[c] = "source"
  <1> DEFINE Refused(d) == \/ global >= MaxConns /\ pc[d] = "start" /\ pc' = [pc EXCEPT ![d] = "shed"]
                           \/ /\ conns[port[d]][src[d]] >= MaxConnsPerIP
                              /\ pc[d] = "source" /\ pc' = [pc EXCEPT ![d] = "shed"]
             Other(d) == \E p \in Phases \ {"shed"} : pc' = [pc EXCEPT ![d] = p]
  <1>1. ASSUME NEW d \in Conns, NEW l \in Listeners, NEW a \in Addrs, Accept(d, l, a) PROVE Other(d)
    BY <1>1 DEF Accept, Goto, Phases
  <1>2. ASSUME NEW d \in Conns, TryAcquire(d) \/ AcquireSource(d) PROVE Refused(d) \/ Other(d)
    BY <1>2 DEF TryAcquire, Admit, Refuse, AcquireSource, AdmitSource, RefuseSource, Goto, Phases, Setup
  <1>3. ASSUME NEW d \in Conns,
               NoteShed(d) \/ LogNotice(d) \/ ReadHeader(d) \/ FirstByte(d) \/ BareScan(d)
        PROVE  Other(d)
    BY <1>3 DEF NoteShed, CountShed, TakeNotice, LogNotice, ReadHeader, HeaderBad, Attribute,
                FirstByte, BareScan, Goto, Phases, Setup, Unwinding
  <1>4. ASSUME NEW d \in Conns,
               \/ Record(d) \/ NoRecord(d) \/ SetupPanic(d) \/ SessionStart(d)
               \/ HandlerReturns(d) \/ HandlerPanics(d) \/ SessionEnd(d)
        PROVE  Other(d)
    BY <1>4 DEF Record, NoRecord, SetupPanic, SessionStart, HandlerReturns, HandlerPanics,
                SessionEnd, Goto, Phases, Setup, Unwinding
  <1>5. ASSUME NEW d \in Conns, CloseConn(d) \/ RecoverAndClose(d) PROVE Other(d)
    BY <1>5 DEF CloseConn, RecoverAndClose, Goto, Phases
  <1>6. ASSUME NEW d \in Conns, CloseRecorder(d) \/ ReleaseSource(d) \/ ReleaseGlobal(d)
        PROVE  pc' = pc
    BY <1>6 DEF CloseRecorder, ReleaseSource, ReleaseGlobal
  <1>7. ASSUME (\E l \in Listeners : ShedIntervalOver(l)) \/ Signal \/ Shutdown PROVE pc' = pc
    BY <1>7 DEF ShedIntervalOver, Signal, Shutdown, CloseListener, CloseLogger, Exit, connVars
  <1>8. PICK d \in Conns : Refused(d) \/ Other(d) \/ pc' = pc
    <2> HIDE DEF Refused, Other
    <2> QED
      BY <1>1, <1>2, <1>3, <1>4, <1>5, <1>6, <1>7 DEF Next, Handle
  <1>9. pc \in [Conns -> Phases]
    BY DEF TypeOK
  <1> QED
    BY <1>8, <1>9

\* A connection is shed only when the cap that refuses it is full of live
\* connections at that moment: the counters that decide are exact.
THEOREM ShedsAreJust == Spec => ShedOnlyWhenFull
  <1> DEFINE Just == \A c \in Conns :
                       pc'[c] = "shed" =>
                         \/ pc[c] = "shed"
                         \/ pc[c] = "start" /\ Cardinality(GlobalHolders) = MaxConns
                         \/ /\ pc[c] = "source"
                            /\ Cardinality(SourceHolders(port[c], src[c])) = MaxConnsPerIP
  <1>1. SlotInv /\ [Next]_vars => [Just]_vars
    <2> SUFFICES ASSUME SlotInv, Next, NEW c \in Conns, pc'[c] = "shed", pc[c] # "shed"
                 PROVE  \/ pc[c] = "start" /\ Cardinality(GlobalHolders) = MaxConns
                        \/ /\ pc[c] = "source"
                           /\ Cardinality(SourceHolders(port[c], src[c])) = MaxConnsPerIP
      OBVIOUS
    <2>1. port[c] \in Listeners /\ src[c] \in Addrs /\ TypeOK
      BY DEF SlotInv, TypeOK
    <2>2. CASE global >= MaxConns /\ pc[c] = "start"
      BY <2>2, CapsAssumption DEF SlotInv, TypeOK, SlotAccounting, WithinCaps
    <2>3. CASE conns[port[c]][src[c]] >= MaxConnsPerIP /\ pc[c] = "source"
      BY <2>1, <2>3, CapsAssumption DEF SlotInv, TypeOK, SlotAccounting, WithinCaps
    <2> QED
      BY <2>1, <2>2, <2>3, ShedByRefusal
  <1> QED
    BY <1>1, InitSlots, NextSlots, PTL DEF Spec, ShedOnlyWhenFull

-----------------------------------------------------------------------------
(* The caps implement Limiter.                                             *)

\* What a step does to the holders of the process-wide slots.
LEMMA GlobalHolderSteps ==
  ASSUME SlotInv, [Next]_vars
  PROVE  [GlobalLimiter!Next]_GlobalHolders
  <1> USE DEF SlotInv
  <1>1. CASE KeepsSlots
    BY <1>1 DEF KeepsSlots, GlobalHolders
  <1>2. ASSUME NEW c \in Conns, global < MaxConns, Admit(c) PROVE GlobalLimiter!Next
    <2>1. c \notin GlobalHolders
      BY <1>2 DEF GlobalHolders, HeldShape, Admit, Goto
    <2>2. GlobalHolders' = GlobalHolders \cup {c}
      BY <1>2 DEF GlobalHolders, Admit, TypeOK
    <2>3. Cardinality(GlobalHolders) < MaxConns
      BY <1>2 DEF SlotAccounting
    <2> QED
      BY <2>1, <2>2, <2>3
         DEF GlobalLimiter!Next, GlobalLimiter!Acquire, GlobalLimiter!Cardinality, Cardinality
  <1>3. ASSUME NEW c \in Conns, AdmitSource(c) \/ ReleaseSource(c) PROVE UNCHANGED GlobalHolders
    <2>1. CASE AdmitSource(c)
      BY <2>1 DEF AdmitSource, GlobalHolders, TypeOK
    <2>2. CASE ReleaseSource(c)
      BY <2>2 DEF ReleaseSource, GlobalHolders, TypeOK
    <2> QED
      BY <1>3, <2>1, <2>2
  <1>4. ASSUME NEW c \in Conns, ReleaseGlobal(c) PROVE GlobalLimiter!Next
    <2>1. c \in GlobalHolders /\ GlobalHolders' = GlobalHolders \ {c}
      BY <1>4 DEF GlobalHolders, ReleaseGlobal, TypeOK
    <2> QED
      BY <2>1 DEF GlobalLimiter!Next, GlobalLimiter!Release
  <1> QED
    BY <1>1, <1>2, <1>3, <1>4, QuietSteps

\* What it does to the holders of a source's slots on a listener.
LEMMA SourceHolderSteps ==
  ASSUME SlotInv, [Next]_vars, NEW l \in Listeners, NEW a \in Addrs
  PROVE  SourceLimiter(l, a)!Next \/ UNCHANGED SourceHolders(l, a)
  <1> USE DEF SlotInv
  <1>1. CASE KeepsSlots
    BY <1>1 DEF KeepsSlots, SourceHolders
  <1>2. ASSUME NEW c \in Conns, Admit(c) \/ ReleaseGlobal(c) PROVE UNCHANGED SourceHolders(l, a)
    <2>1. CASE Admit(c)
      BY <2>1 DEF Admit, SourceHolders, TypeOK
    <2>2. CASE ReleaseGlobal(c)
      BY <2>2 DEF ReleaseGlobal, SourceHolders, TypeOK
    <2> QED
      BY <1>2, <2>1, <2>2
  <1>3. ASSUME NEW c \in Conns, conns[port[c]][src[c]] < MaxConnsPerIP, AdmitSource(c)
        PROVE  SourceLimiter(l, a)!Next \/ UNCHANGED SourceHolders(l, a)
    <2>1. held[c] = {"conn", "global"}
      BY <1>3 DEF HeldShape, AdmitSource, Goto
    <2>2. /\ \A d \in Conns : held'[d] = IF d = c THEN held[c] \cup {"source"} ELSE held[d]
          /\ port' = port /\ src' = src
      BY <1>3 DEF AdmitSource, TypeOK
    <2>3. CASE port[c] = l /\ src[c] = a
      <3>1. c \notin SourceHolders(l, a) /\ SourceHolders(l, a)' = SourceHolders(l, a) \cup {c}
        BY <2>1, <2>2, <2>3 DEF SourceHolders
      <3>2. Cardinality(SourceHolders(l, a)) < MaxConnsPerIP
        BY <1>3, <2>3 DEF SlotAccounting
      <3> QED
        BY <3>1, <3>2
           DEF SourceLimiter!Next, SourceLimiter!Acquire, SourceLimiter!Cardinality, Cardinality
    <2>4. CASE ~(port[c] = l /\ src[c] = a)
      BY <2>2, <2>4 DEF SourceHolders
    <2> QED
      BY <2>3, <2>4
  <1>4. ASSUME NEW c \in Conns, ReleaseSource(c)
        PROVE  SourceLimiter(l, a)!Next \/ UNCHANGED SourceHolders(l, a)
    <2>1. "source" \in held[c]
      BY <1>4 DEF ReleaseSource
    <2>2. /\ \A d \in Conns : held'[d] = IF d = c THEN held[c] \ {"source"} ELSE held[d]
          /\ port' = port /\ src' = src
      BY <1>4 DEF ReleaseSource, TypeOK
    <2>3. CASE port[c] = l /\ src[c] = a
      <3>1. c \in SourceHolders(l, a) /\ SourceHolders(l, a)' = SourceHolders(l, a) \ {c}
        BY <2>1, <2>2, <2>3 DEF SourceHolders
      <3> QED
        BY <3>1 DEF SourceLimiter!Next, SourceLimiter!Release
    <2>4. CASE ~(port[c] = l /\ src[c] = a)
      BY <2>2, <2>4 DEF SourceHolders
    <2> QED
      BY <2>3, <2>4
  <1> QED
    BY <1>1, <1>2, <1>3, <1>4, QuietSteps

\* The process-wide connLimiter and every entry of every Server.conns
\* implement the abstract cap: a slot is taken one at a time and only while
\* one is free, and is given back only by its holder.
THEOREM CapsRefineLimiter == Spec => LimitersAreCaps
  <1> DEFINE Sources == \A l \in Listeners, a \in Addrs :
                          SourceLimiter(l, a)!Next \/ UNCHANGED SourceHolders(l, a)
             Empty == \A l \in Listeners, a \in Addrs : SourceLimiter(l, a)!Init
  <1>1. Init => GlobalLimiter!Init /\ Empty
    BY DEF Init, GlobalHolders, SourceHolders, GlobalLimiter!Init, SourceLimiter!Init
  <1>2. SlotInv /\ [Next]_vars => [GlobalLimiter!Next]_GlobalHolders
    BY GlobalHolderSteps
  <1>3. SlotInv /\ [Next]_vars => [Sources]_vars
    BY SourceHolderSteps
  <1> QED
    BY <1>1, <1>2, <1>3, InitSlots, NextSlots, PTL
       DEF Spec, LimitersAreCaps, GlobalLimiter!Spec

-----------------------------------------------------------------------------
(* Forged headers.                                                         *)

\* A connection from a peer that is not trusted is attributed to that peer,
\* at every point of Server.handle.
OwnSource == \A c \in Conns : peer[c] \notin TrustedPeers => src[c] = peer[c]

LEMMA NextOwnSource ==
  ASSUME TypeOK, OwnSource, [Next]_vars
  PROVE  OwnSource'
  <1> USE DEF TypeOK, OwnSource
  <1>1. ASSUME NEW c \in Conns, NEW l \in Listeners, NEW a \in Addrs, Accept(c, l, a)
        PROVE  OwnSource'
    BY <1>1 DEF Accept
  <1>2. ASSUME NEW c \in Conns, NEW a \in Addrs, Attribute(c, a),
               a = peer[c] \/ peer[c] \in TrustedPeers
        PROVE  OwnSource'
    BY <1>2 DEF Attribute
  <1>3. ASSUME NEW c \in Conns, Close(c) PROVE OwnSource'
    BY <1>3 DEF Close
  <1>4. ASSUME UNCHANGED <<peer, src>> PROVE OwnSource'
    BY <1>4
  <1>5. ASSUME NEW c \in Conns, TryAcquire(c) \/ NoteShed(c) \/ LogNotice(c) \/ AcquireSource(c)
                                \/ FirstByte(c) \/ BareScan(c) \/ Record(c) \/ NoRecord(c)
        PROVE  UNCHANGED <<peer, src>>
    BY <1>5 DEF TryAcquire, Admit, Refuse, NoteShed, CountShed, TakeNotice, LogNotice,
                AcquireSource, AdmitSource, RefuseSource, FirstByte, BareScan, Record, NoRecord
  <1>6. ASSUME NEW c \in Conns, SetupPanic(c) \/ SessionStart(c) \/ HandlerReturns(c)
                                \/ HandlerPanics(c) \/ SessionEnd(c) \/ HeaderBad(c)
                                \/ CloseRecorder(c) \/ ReleaseSource(c) \/ ReleaseGlobal(c)
        PROVE  UNCHANGED <<peer, src>>
    BY <1>6 DEF SetupPanic, SessionStart, HandlerReturns, HandlerPanics, SessionEnd, HeaderBad,
                CloseRecorder, ReleaseSource, ReleaseGlobal
  <1>7. ASSUME (\E l \in Listeners : ShedIntervalOver(l)) \/ Signal \/ Shutdown \/ UNCHANGED vars
        PROVE  UNCHANGED <<peer, src>>
    BY <1>7 DEF ShedIntervalOver, Signal, Shutdown, CloseListener, CloseLogger, Exit, connVars, vars
  <1>8. ASSUME NEW c \in Conns, ReadHeader(c) PROVE OwnSource'
    <2>1. peer[c] \in Addrs
      OBVIOUS
    <2> HIDE DEF OwnSource
    <2> QED
      BY <1>2, <1>4, <1>6, <1>8, <2>1 DEF ReadHeader, Trusts
  <1> HIDE DEF OwnSource
  <1> QED
    BY <1>1, <1>3, <1>4, <1>5, <1>6, <1>7, <1>8 DEF Next, Handle, CloseConn, RecoverAndClose

\* No peer outside trusted_proxies holds more than maxConnsPerIP connections
\* on a listener, whatever headers it sends.
THEOREM ForgeryIsCapped == Spec => []UntrustedPeerCapped
  <1>1. Init => OwnSource
    BY DEF Init, OwnSource
  <1>2. SlotInv /\ OwnSource => UntrustedPeerCapped
    <2> SUFFICES ASSUME SlotInv, OwnSource, NEW l \in Listeners, NEW a \in Addrs \ TrustedPeers
                 PROVE  Cardinality({c \in Conns : /\ "source" \in held[c]
                                                   /\ port[c] = l /\ peer[c] = a}) <= MaxConnsPerIP
      BY DEF UntrustedPeerCapped
    <2> DEFINE mine == {c \in Conns : "source" \in held[c] /\ port[c] = l /\ peer[c] = a}
    <2>1. mine \subseteq SourceHolders(l, a)
      BY DEF OwnSource, SourceHolders
    <2>2. IsFiniteSet(SourceHolders(l, a))
      BY HoldersFinite
    <2>3. /\ Cardinality(mine) <= Cardinality(SourceHolders(l, a))
          /\ Cardinality(mine) \in Nat /\ Cardinality(SourceHolders(l, a)) \in Nat
      BY <2>1, <2>2, FS_Subset, FS_CardinalityType
    <2>4. Cardinality(SourceHolders(l, a)) <= MaxConnsPerIP
      BY DEF SlotInv, SlotAccounting, WithinCaps
    <2> QED
      BY <2>3, <2>4, CapsAssumption
  <1>3. SlotInv /\ OwnSource /\ [Next]_vars => OwnSource'
    BY NextOwnSource DEF SlotInv
  <1> QED
    BY <1>1, <1>2, <1>3, InitSlots, NextSlots, PTL DEF Spec

-----------------------------------------------------------------------------
(* What the log says of a connection.                                      *)

\* How far a trail is at each point of handle: nothing before the session, and
\* nothing when a panic of the setup unwinds.
TrailAt(p) ==
  CASE p = "running" -> {<<"SESSION_START">>}
    [] p = "ending"  -> {<<"SESSION_START">>, <<"SESSION_START", "PANIC">>}
    [] p \in {"return", "done"} -> Whole
    [] OTHER -> {<<>>}

TrailInv == logger = "open" => \A c \in Conns : trail[c] \in TrailAt(pc[c])

\* The records, whole or cut off at their end.
Cut == Whole \cup {<<"SESSION_START">>, <<"SESSION_START", "PANIC">>}

\* Where a connection is never matters to its record being one of these.
LEMMA TrailsAreCut == \A p : TrailAt(p) \subseteq Cut
  BY DEF TrailAt, Cut, Whole

\* Once the log is closed nothing is written, and closing it writes nothing.
LEMMA ClosedIsSilent ==
  ASSUME [Next]_vars, logger' # "open"
  PROVE  trail' = trail
  <1>1. ASSUME NEW c \in Conns, NEW e, Log(c, e), logger' = logger PROVE trail' = trail
    BY <1>1 DEF Log
  <1>2. ASSUME NEW c \in Conns, NEW l \in Listeners, NEW a \in Addrs, Accept(c, l, a)
        PROVE  trail' = trail
    BY <1>2 DEF Accept
  <1>3. ASSUME NEW c \in Conns,
               TryAcquire(c) \/ NoteShed(c) \/ LogNotice(c) \/ ReadHeader(c) \/ AcquireSource(c)
        PROVE  trail' = trail
    BY <1>3 DEF TryAcquire, Admit, Refuse, NoteShed, CountShed, TakeNotice, LogNotice,
                ReadHeader, HeaderBad, Attribute, AcquireSource, AdmitSource, RefuseSource
  <1>4. ASSUME NEW c \in Conns,
               FirstByte(c) \/ Record(c) \/ NoRecord(c) \/ HandlerReturns(c) \/ SetupPanic(c)
                 \/ CloseRecorder(c) \/ ReleaseSource(c) \/ ReleaseGlobal(c) \/ CloseConn(c)
        PROVE  trail' = trail
    BY <1>4 DEF FirstByte, Record, NoRecord, HandlerReturns, SetupPanic, CloseRecorder,
                ReleaseSource, ReleaseGlobal, CloseConn
  <1>5. ASSUME NEW c \in Conns,
               BareScan(c) \/ SessionStart(c) \/ HandlerPanics(c) \/ SessionEnd(c)
                 \/ RecoverAndClose(c)
        PROVE  trail' = trail
    <2>1. PICK e : Log(c, e) /\ logger' = logger
      BY <1>5 DEF BareScan, SessionStart, HandlerPanics, SessionEnd, RecoverAndClose, Close, mainVars
    <2> QED
      BY <1>1, <2>1
  <1>6. ASSUME \/ \E l \in Listeners : ShedIntervalOver(l)
               \/ Signal \/ Shutdown \/ UNCHANGED vars
        PROVE  trail' = trail
    BY <1>6 DEF ShedIntervalOver, Signal, Shutdown, CloseListener, CloseLogger, Exit, vars
  <1> QED
    BY <1>2, <1>3, <1>4, <1>5, <1>6 DEF Next, Handle

\* A step keeps every record whole or cut off at its end.
LEMMA NextCut ==
  ASSUME TrailInv', \A c \in Conns : trail[c] \in Cut, [Next]_vars
  PROVE  \A c \in Conns : trail'[c] \in Cut
  <1>1. CASE logger' = "open"
    <2> TAKE c \in Conns
    <2>1. trail'[c] \in TrailAt(pc'[c])
      BY <1>1 DEF TrailInv
    <2> QED
      BY <2>1, TrailsAreCut
  <1>2. CASE logger' # "open"
    BY <1>2, ClosedIsSilent
  <1> QED
    BY <1>1, <1>2

LEMMA EndOfPanic ==
  Append(<<"SESSION_START", "PANIC">>, "SESSION_END") = <<"SESSION_START", "PANIC", "SESSION_END">>
  <1> DEFINE t == Append(<<"SESSION_START", "PANIC">>, "SESSION_END")
             u == <<"SESSION_START", "PANIC", "SESSION_END">>
  <1>1. t \in Seq(Events) /\ Len(t) = 3
        /\ t[1] = "SESSION_START" /\ t[2] = "PANIC" /\ t[3] = "SESSION_END"
    BY DEF Events
  <1>2. u \in Seq(Events) /\ Len(u) = 3
        /\ u[1] = "SESSION_START" /\ u[2] = "PANIC" /\ u[3] = "SESSION_END"
    BY DEF Events
  <1> HIDE DEF t, u
  <1>3. \A i \in 1..Len(t) : t[i] = u[i]
    BY <1>1, <1>2
  <1>4. t = u
    BY <1>1, <1>2, <1>3, SeqEqual
  <1> QED
    BY <1>4 DEF t, u

LEMMA NextTrail ==
  ASSUME TypeOK, TrailInv, [Next]_vars
  PROVE  TrailInv'
  <1>t. pc \in [Conns -> Phases] /\ trail \in [Conns -> Seq(Events)]
    BY DEF TypeOK
  \* One connection moves and its trail with it.
  <1>s. ASSUME NEW c \in Conns, NEW p \in Phases, logger' = logger,
               pc' = [pc EXCEPT ![c] = p], trail' = [trail EXCEPT ![c] = trail'[c]],
               logger = "open" => trail'[c] \in TrailAt(p)
        PROVE  TrailInv'
    BY <1>s, <1>t DEF TrailInv
  \* It moves and logs nothing.
  <1>q. ASSUME NEW c \in Conns, NEW p \in Phases, logger' = logger, trail' = trail,
               pc' = [pc EXCEPT ![c] = p],
               trail[c] \in TrailAt(pc[c]) => trail[c] \in TrailAt(p)
        PROVE  TrailInv'
    BY <1>q, <1>t DEF TrailInv
  \* Before the session starts nothing is logged.
  <1>0. \A p \in {"absent", "start", "shed", "notice", "panicking"} \cup Setup : TrailAt(p) = {<<>>}
    BY DEF TrailAt, Setup
  <1>w. <<>> \in TrailAt("return") /\ TrailAt("return") = Whole /\ TrailAt("done") = Whole
    BY DEF TrailAt, Whole
  <1>l. ASSUME NEW c \in Conns, NEW e \in Events, Log(c, e)
        PROVE  /\ trail' = [trail EXCEPT ![c] = trail'[c]]
               /\ logger = "open" => trail'[c] = Append(trail[c], e)
    BY <1>l, <1>t DEF Log
  <1>1. ASSUME NEW c \in Conns, NEW l \in Listeners, NEW a \in Addrs, Accept(c, l, a)
        PROVE  TrailInv'
    <2>1. /\ pc[c] = "absent" /\ pc' = [pc EXCEPT ![c] = "start"]
          /\ trail' = trail /\ logger' = logger
      BY <1>1 DEF Accept, Goto, mainVars
    <2> QED
      BY <1>q, <1>0, <2>1 DEF Phases
  <1>2. ASSUME NEW c \in Conns, TryAcquire(c) \/ AcquireSource(c) \/ SetupPanic(c) \/ FirstByte(c)
                                \/ Record(c) \/ NoRecord(c) \/ \E a \in Addrs : Attribute(c, a)
        PROVE  TrailInv'
    <2>1. PICK p \in {"shed", "panicking"} \cup Setup :
            /\ pc[c] \in {"start"} \cup Setup /\ pc' = [pc EXCEPT ![c] = p]
            /\ trail' = trail /\ logger' = logger
      BY <1>2 DEF TryAcquire, Admit, Refuse, AcquireSource, AdmitSource, RefuseSource, SetupPanic,
                  FirstByte, Record, NoRecord, Attribute, Goto, Setup, mainVars
    <2>2. p \in Phases
      BY DEF Phases, Unwinding
    <2> QED
      BY <1>q, <1>0, <2>1, <2>2
  <1>3. ASSUME NEW c \in Conns, NoteShed(c) \/ LogNotice(c) \/ HeaderBad(c) PROVE TrailInv'
    <2>1. PICK p \in {"notice", "return"} :
            /\ pc[c] \in {"shed", "notice", "header"} /\ pc' = [pc EXCEPT ![c] = p]
            /\ trail' = trail /\ logger' = logger
      BY <1>3 DEF NoteShed, CountShed, TakeNotice, LogNotice, HeaderBad, Goto, mainVars
    <2>2. TrailAt(pc[c]) = {<<>>}
      BY <1>0, <2>1 DEF Setup
    <2>3. <<>> \in TrailAt(p)
      BY <1>0, <1>w
    <2> QED
      BY <1>q, <2>1, <2>2, <2>3 DEF Phases, Unwinding
  <1>4. ASSUME NEW c \in Conns, BareScan(c) PROVE TrailInv'
    <2>1. /\ pc[c] = "scan" /\ pc' = [pc EXCEPT ![c] = "return"] /\ logger' = logger
          /\ Log(c, "PORT_SCAN")
      BY <1>4 DEF BareScan, Goto, mainVars
    <2>2. logger = "open" => trail'[c] = <<"PORT_SCAN">>
      <3>1. logger = "open" => trail[c] = <<>>
        BY <1>0, <2>1 DEF TrailInv, Setup
      <3> QED
        BY <1>l, <2>1, <3>1 DEF Events
    <2> QED
      BY <1>s, <1>l, <1>w, <2>1, <2>2 DEF Phases, Unwinding, Events, Whole
  <1>5. ASSUME NEW c \in Conns, SessionStart(c) PROVE TrailInv'
    <2>1. /\ pc[c] = "session" /\ pc' = [pc EXCEPT ![c] = "running"] /\ logger' = logger
          /\ Log(c, "SESSION_START")
      BY <1>5 DEF SessionStart, Goto, mainVars
    <2>2. logger = "open" => trail'[c] = <<"SESSION_START">>
      <3>1. logger = "open" => trail[c] = <<>>
        BY <1>0, <2>1 DEF TrailInv, Setup
      <3> QED
        BY <1>l, <2>1, <3>1 DEF Events
    <2> QED
      BY <1>s, <1>l, <2>1, <2>2 DEF Phases, Events, TrailAt
  <1>6. ASSUME NEW c \in Conns, HandlerReturns(c) PROVE TrailInv'
    <2>1. /\ pc[c] = "running" /\ pc' = [pc EXCEPT ![c] = "ending"]
          /\ trail' = trail /\ logger' = logger
      BY <1>6 DEF HandlerReturns, Goto, mainVars
    <2>2. TrailAt("running") \subseteq TrailAt("ending")
      BY DEF TrailAt
    <2> QED
      BY <1>q, <2>1, <2>2 DEF Phases
  <1>7. ASSUME NEW c \in Conns, HandlerPanics(c) PROVE TrailInv'
    <2>1. /\ pc[c] = "running" /\ pc' = [pc EXCEPT ![c] = "ending"] /\ logger' = logger
          /\ Log(c, "PANIC")
      BY <1>7 DEF HandlerPanics, Goto, mainVars
    <2>2. logger = "open" => trail'[c] = <<"SESSION_START", "PANIC">>
      <3>1. logger = "open" => trail[c] = <<"SESSION_START">>
        BY <2>1 DEF TrailInv, TrailAt
      <3> QED
        BY <1>l, <2>1, <3>1 DEF Events
    <2> QED
      BY <1>s, <1>l, <2>1, <2>2 DEF Phases, Events, TrailAt
  <1>8. ASSUME NEW c \in Conns, SessionEnd(c) PROVE TrailInv'
    <2>1. /\ pc[c] = "ending" /\ pc' = [pc EXCEPT ![c] = "return"] /\ logger' = logger
          /\ Log(c, "SESSION_END")
      BY <1>8 DEF SessionEnd, Goto, mainVars
    <2>2. logger = "open" => trail'[c] \in Whole
      <3>1. logger = "open" => trail[c] \in {<<"SESSION_START">>, <<"SESSION_START", "PANIC">>}
        BY <2>1 DEF TrailInv, TrailAt
      <3>2. logger = "open" /\ trail[c] = <<"SESSION_START">>
              => trail'[c] = <<"SESSION_START", "SESSION_END">>
        BY <1>l, <2>1 DEF Events
      <3>3. logger = "open" /\ trail[c] = <<"SESSION_START", "PANIC">>
              => trail'[c] = <<"SESSION_START", "PANIC", "SESSION_END">>
        BY <1>l, <2>1, EndOfPanic DEF Events
      <3> QED
        BY <3>1, <3>2, <3>3 DEF Whole
    <2> QED
      BY <1>s, <1>l, <1>w, <2>1, <2>2 DEF Phases, Unwinding, Events
  <1>9. ASSUME NEW c \in Conns, CloseConn(c) PROVE TrailInv'
    <2>1. /\ pc[c] = "return" /\ pc' = [pc EXCEPT ![c] = "done"]
          /\ trail' = trail /\ logger' = logger
      BY <1>9 DEF CloseConn, Close, Goto, mainVars
    <2> QED
      BY <1>q, <1>w, <2>1 DEF Phases
  <1>10. ASSUME NEW c \in Conns, RecoverAndClose(c) PROVE TrailInv'
    <2>1. /\ pc[c] = "panicking" /\ pc' = [pc EXCEPT ![c] = "done"] /\ logger' = logger
          /\ Log(c, "RECOVERED")
      BY <1>10 DEF RecoverAndClose, Close, Goto, mainVars
    <2>2. logger = "open" => trail'[c] = <<"RECOVERED">>
      <3>1. logger = "open" => trail[c] = <<>>
        BY <1>0, <2>1 DEF TrailInv
      <3> QED
        BY <1>l, <2>1, <3>1 DEF Events
    <2> QED
      BY <1>s, <1>l, <1>w, <2>1, <2>2 DEF Phases, Events, Whole
  <1>11. ASSUME NEW c \in Conns, CloseRecorder(c) \/ ReleaseSource(c) \/ ReleaseGlobal(c)
         PROVE  TrailInv'
    BY <1>11 DEF CloseRecorder, ReleaseSource, ReleaseGlobal, mainVars, TrailInv
  <1>12. ASSUME \/ \E l \in Listeners : ShedIntervalOver(l)
                \/ Signal \/ Shutdown \/ UNCHANGED vars
         PROVE  TrailInv'
    <2>1. pc' = pc /\ trail' = trail /\ (logger' = "open" => logger = "open")
      BY <1>12 DEF ShedIntervalOver, Signal, Shutdown, CloseListener, CloseLogger, Exit,
                   connVars, mainVars, vars
    <2> QED
      BY <2>1 DEF TrailInv
  <1>13. ASSUME NEW c \in Conns, ReadHeader(c) PROVE TrailInv'
    <2>1. peer[c] \in Addrs
      BY DEF TypeOK
    <2> QED
      BY <1>2, <1>3, <1>13, <2>1 DEF ReadHeader
  <1> QED
    BY <1>1, <1>2, <1>3, <1>4, <1>5, <1>6, <1>7, <1>8, <1>9, <1>10, <1>11, <1>12, <1>13
       DEF Next, Handle

\* While the log is open, a connection that is over has left a whole record:
\* one scan, one session with its end, one recovered panic, or nothing.  A log
\* closed, or a process ended, under a running connection cuts its record off
\* at the end and nowhere else.
THEOREM RecordsAreWhole == Spec => []RecordIsWhole
  <1> DEFINE AllCut == \A c \in Conns : trail[c] \in Cut
  <1>1. Init => TrailInv /\ AllCut
    BY DEF Init, TrailInv, TrailAt, Cut, Whole
  <1>2. TrailInv /\ AllCut => RecordIsWhole
    <2>1. TrailAt("done") = Whole
      BY DEF TrailAt
    <2> QED
      BY <2>1 DEF TrailInv, Cut, RecordIsWhole
  <1>3. TypeOK /\ TrailInv /\ [Next]_vars => TrailInv'
    BY NextTrail
  <1>4. TrailInv' /\ AllCut /\ [Next]_vars => AllCut'
    BY NextCut
  <1> HIDE DEF AllCut
  <1> QED
    BY <1>1, <1>2, <1>3, <1>4, InitTyped, NextTyped, PTL DEF Spec

-----------------------------------------------------------------------------
(* Sums over finite sets.                                                  *)

\* A set of naturals has a least element.
LEMMA LeastNat ==
  ASSUME NEW T \in SUBSET Nat, T # {}
  PROVE  \E m \in T : \A n \in T : m <= n
  <1> DEFINE R == OpToRel(<, Nat)
  <1>1. IsWellFoundedOn(R, Nat)
    BY NatLessThanWellFounded
  <1>2. \A x, y \in Nat : x < y => <<x, y>> \in R
    BY DEF OpToRel
  <1> HIDE DEF R
  <1>3. PICK m \in T : \A y \in T : ~(<<y, m>> \in R)
    BY <1>1, WFMin
  <1>4. \A n \in T : ~(n < m)
    BY <1>2, <1>3
  <1>5. \A n \in T : m <= n
    BY <1>4
  <1> QED
    BY <1>5, Zenon

\* The sum of f over S, and the units it counts.
Sum(f, S) == MapThenSumSet(LAMBDA c : f[c], S)
Units(f, S) == UNION {{c} \X (1..f[c]) : c \in S}

LEMMA UnitsOfOne ==
  ASSUME NEW c, NEW n \in Nat
  PROVE  IsFiniteSet({c} \X (1..n)) /\ Cardinality({c} \X (1..n)) = n
  <1>1. IsFiniteSet(1..n) /\ Cardinality(1..n) = n
    BY FS_Interval
  <1>2. IsFiniteSet({c}) /\ Cardinality({c}) = 1
    BY FS_Singleton
  <1>3. /\ IsFiniteSet({c} \X (1..n))
        /\ Cardinality({c} \X (1..n)) = Cardinality({c}) * Cardinality(1..n)
    BY <1>1, <1>2, FS_Product
  <1> QED
    BY <1>1, <1>2, <1>3

LEMMA UnitsFinite ==
  ASSUME NEW S, IsFiniteSet(S), NEW f, \A c \in S : f[c] \in Nat
  PROVE  IsFiniteSet(Units(f, S)) /\ Cardinality(Units(f, S)) \in Nat
  <1> DEFINE q == [c \in S |-> {c} \X (1..f[c])]
             P == {q[c] : c \in S}
  <1>0. \A c \in S : q[c] = {c} \X (1..f[c]) /\ IsFiniteSet(q[c])
    BY UnitsOfOne
  <1>4. Units(f, S) = UNION P
    BY <1>0 DEF Units
  <1> HIDE DEF q
  <1>5. q \in Surjection(S, P)
    BY DEF Surjection, q
  <1>1. IsFiniteSet(P)
    BY <1>5, FS_Surjection DEF ExistsSurjection
  <1>2. \A T \in P : IsFiniteSet(T)
    BY <1>0
  <1> HIDE DEF P
  <1>3. IsFiniteSet(UNION P)
    BY <1>1, <1>2, FS_UNION
  <1> QED
    BY <1>3, <1>4, FS_CardinalityType

\* One more element adds its value.
LEMMA UnitsAdd ==
  ASSUME NEW S, IsFiniteSet(S), NEW c, c \notin S, NEW f, \A d \in S \cup {c} : f[d] \in Nat
  PROVE  Cardinality(Units(f, S \cup {c})) = Cardinality(Units(f, S)) + f[c]
  <1> DEFINE A == Units(f, S)
             B == {c} \X (1..f[c])
  <1>1. Units(f, S \cup {c}) = A \cup B
    BY DEF Units
  <1>2. A \cap B = {}
    BY DEF Units
  <1>3. IsFiniteSet(A) /\ Cardinality(A) \in Nat
    BY UnitsFinite
  <1>4. IsFiniteSet(B) /\ Cardinality(B) = f[c]
    BY UnitsOfOne
  <1> HIDE DEF A, B
  <1>5. Cardinality(A \cup B) = Cardinality(A) + Cardinality(B) - Cardinality(A \cap B)
    BY <1>3, <1>4, FS_Union
  <1>6. Cardinality(A \cap B) = 0
    BY <1>2, FS_EmptySet
  <1>7. Cardinality(A \cup B) = Cardinality(A) + f[c]
    BY <1>3, <1>4, <1>5, <1>6
  <1> QED
    BY <1>1, <1>7 DEF A

Pick(s) == CHOOSE x \in s : TRUE
Sums(f, S, g) == g = [s \in SUBSET S |-> IF s = {} THEN 0 ELSE f[Pick(s)] + g[s \ {Pick(s)}]]

\* The fold over a finite set counts its units, in whatever order it goes.
LEMMA SumCounts ==
  ASSUME NEW S, IsFiniteSet(S), NEW f, \A c \in S : f[c] \in Nat
  PROVE  Sum(f, S) = Cardinality(Units(f, S))
  <1> DEFINE N(s) == Cardinality(Units(f, s))
             h == [s \in SUBSET S |-> N(s)]
  <1>1. \A s \in SUBSET S : IsFiniteSet(s) /\ Cardinality(s) \in Nat
    BY FS_Subset, FS_CardinalityType
  <1>2. N({}) = 0
    <2>1. Units(f, {}) = {}
      BY DEF Units
    <2> QED
      BY <2>1, FS_EmptySet
  <1>3. ASSUME NEW s \in SUBSET S, s # {}
        PROVE  /\ Pick(s) \in s /\ N(s) = f[Pick(s)] + N(s \ {Pick(s)})
               /\ Cardinality(s \ {Pick(s)}) < Cardinality(s)
    <2> DEFINE x == Pick(s)
    <2>1. x \in s
      BY <1>3 DEF Pick
    <2> HIDE DEF x
    <2> DEFINE t == s \ {x}
    <2>2. t \cup {x} = s /\ x \notin t /\ IsFiniteSet(t) /\ \A d \in t \cup {x} : f[d] \in Nat
      BY <1>1, <2>1
    <2> HIDE DEF t
    <2>3. N(t \cup {x}) = N(t) + f[x]
      BY <2>2, UnitsAdd
    <2>4. N(t) \in Nat /\ f[x] \in Nat
      BY <2>2, UnitsFinite
    <2>5. Cardinality(s \ {x}) = Cardinality(s) - 1
      BY <1>1, <2>1, FS_RemoveElement
    <2>6. Cardinality(s \ {x}) < Cardinality(s)
      BY <1>1, <2>5
    <2>7. N(s) = f[x] + N(t)
      <3>1. N(t \cup {x}) = N(s)
        BY <2>2
      <3> HIDE DEF N
      <3> QED
        BY <2>3, <2>4, <3>1
    <2> QED
      BY <2>1, <2>6, <2>7 DEF t, x
  <1> HIDE DEF N
  <1>4. Sums(f, S, h)
    BY <1>2, <1>3 DEF Sums
  <1>5. ASSUME NEW g, Sums(f, S, g) PROVE g[S] = N(S)
    <2> SUFFICES ASSUME g[S] # N(S) PROVE FALSE
      OBVIOUS
    <2> DEFINE T == {n \in Nat : \E s \in SUBSET S : Cardinality(s) = n /\ g[s] # N(s)}
    <2>1. Cardinality(S) \in T
      BY <1>1
    <2>2. PICK m \in T : \A n \in T : m <= n
      BY <2>1, LeastNat
    <2>3. PICK s \in SUBSET S : Cardinality(s) = m /\ g[s] # N(s)
      BY <2>2
    <2>4. \A t \in SUBSET S : Cardinality(t) < Cardinality(s) => g[t] = N(t)
      BY <1>1, <2>2, <2>3
    <2>5. g[s] = IF s = {} THEN 0 ELSE f[Pick(s)] + g[s \ {Pick(s)}]
      BY <1>5 DEF Sums
    <2>6. CASE s = {}
      BY <1>2, <2>3, <2>5, <2>6
    <2>7. CASE s # {}
      <3>1. s \ {Pick(s)} \in SUBSET S /\ Cardinality(s \ {Pick(s)}) < Cardinality(s)
        BY <1>3, <2>7
      <3>2. g[s \ {Pick(s)}] = N(s \ {Pick(s)})
        BY <2>4, <3>1
      <3> QED
        BY <1>3, <2>3, <2>5, <2>7, <3>2
    <2> QED
      BY <2>6, <2>7
  <1>6. \E g : Sums(f, S, g) /\ Sum(f, S) = g[S]
    BY <1>4 DEF Sum, MapThenSumSet, MapThenFoldSet, Sums, Pick
  <1> QED
    BY <1>5, <1>6 DEF N

LEMMA SumAdd ==
  ASSUME NEW S, IsFiniteSet(S), NEW c, c \notin S, NEW f, NEW g,
         \A d \in S : g[d] = f[d] /\ f[d] \in Nat, g[c] \in Nat
  PROVE  Sum(g, S \cup {c}) = Sum(f, S) + g[c] /\ Sum(f, S) \in Nat
  <1>1. Units(g, S) = Units(f, S)
    BY DEF Units
  <1>2. IsFiniteSet(S \cup {c})
    BY FS_AddElement
  <1>3. Sum(g, S \cup {c}) = Cardinality(Units(g, S \cup {c})) /\ Sum(f, S) = Cardinality(Units(f, S))
    BY <1>2, SumCounts
  <1>4. Cardinality(Units(g, S \cup {c})) = Cardinality(Units(g, S)) + g[c]
    BY UnitsAdd
  <1> QED
    BY <1>1, <1>3, <1>4, UnitsFinite

-----------------------------------------------------------------------------
(* Shed connections.                                                       *)

At(phase, l) == {c \in Conns : port[c] = l /\ pc[c] = phase}

\* The sheds of listener l that are in no notice yet.
Pending(l) == shedN[l] + Cardinality(At("shed", l)) + Sum(owed, At("notice", l))

ShedInv == logger = "open" => \A l \in Listeners : shed[l] = told[l] + Pending(l)

LEMMA AtFacts ==
  ASSUME TypeOK, NEW l
  PROVE  /\ \A p : IsFiniteSet(At(p, l)) /\ Cardinality(At(p, l)) \in Nat
         /\ \A c \in At("notice", l) : owed[c] \in Nat
         /\ Sum(owed, At("notice", l)) \in Nat
  <1>1. \A p : At(p, l) \subseteq Conns
    BY DEF At
  <1>2. \A p : IsFiniteSet(At(p, l)) /\ Cardinality(At(p, l)) \in Nat
    BY <1>1, SetsAssumption, FS_Subset, FS_CardinalityType
  <1>3. \A c \in At("notice", l) : owed[c] \in Nat
    BY <1>1 DEF TypeOK
  <1> QED
    BY <1>2, <1>3, SumCounts, UnitsFinite

\* A step that sheds no connection and settles none.
KeepsSheds ==
  /\ shed' = shed /\ told' = told /\ shedN' = shedN /\ owed' = owed
  /\ logger' = "open" => logger = "open"
  /\ \A d \in Conns :
       /\ pc'[d] = "shed" <=> pc[d] = "shed"
       /\ pc'[d] = "notice" <=> pc[d] = "notice"
       /\ pc[d] \in {"shed", "notice"} => port'[d] = port[d]

LEMMA KeepsPending ==
  ASSUME ShedInv, KeepsSheds
  PROVE  ShedInv'
  <1>1. \A l : At("shed", l)' = At("shed", l) /\ At("notice", l)' = At("notice", l)
    BY DEF At, KeepsSheds
  <1>2. \A l : Pending(l)' = Pending(l)
    BY <1>1 DEF Pending, KeepsSheds
  <1> QED
    BY <1>2 DEF ShedInv, KeepsSheds

\* Every step but those of a shed connection is such a step.
LEMMA UnrelatedSteps ==
  ASSUME TypeOK, [Next]_vars
  PROVE  \/ KeepsSheds
         \/ \E c \in Conns : \/ Refuse(c) \/ RefuseSource(c) \/ LogNotice(c) \/ CountShed(c)
                             \/ TakeNotice(c, shedN[port[c]] + 1)
  <1> USE DEF TypeOK, KeepsSheds, Goto, connVars, shedVars, mainVars
  <1>1. ASSUME NEW c \in Conns, NEW l \in Listeners, NEW a \in Addrs, Accept(c, l, a)
        PROVE  KeepsSheds
    BY <1>1 DEF Accept
  <1>2. ASSUME NEW c \in Conns, NEW a \in Addrs, Attribute(c, a) PROVE KeepsSheds
    BY <1>2 DEF Attribute
  <1>3. ASSUME NEW c \in Conns, Admit(c) \/ AdmitSource(c) PROVE KeepsSheds
    BY <1>3 DEF Admit, AdmitSource
  <1>4. ASSUME NEW c \in Conns, HeaderBad(c) \/ FirstByte(c) \/ BareScan(c) PROVE KeepsSheds
    BY <1>4 DEF HeaderBad, FirstByte, BareScan
  <1>5. ASSUME NEW c \in Conns, Record(c) \/ NoRecord(c) PROVE KeepsSheds
    BY <1>5 DEF Record, NoRecord
  <1>6. ASSUME NEW c \in Conns, SetupPanic(c) PROVE KeepsSheds
    BY <1>6 DEF SetupPanic, Setup
  <1>7. ASSUME NEW c \in Conns,
               SessionStart(c) \/ HandlerReturns(c) \/ HandlerPanics(c) \/ SessionEnd(c)
        PROVE  KeepsSheds
    BY <1>7 DEF SessionStart, HandlerReturns, HandlerPanics, SessionEnd
  <1>8. ASSUME NEW c \in Conns, CloseRecorder(c) \/ ReleaseSource(c) \/ ReleaseGlobal(c)
        PROVE  KeepsSheds
    BY <1>8 DEF CloseRecorder, ReleaseSource, ReleaseGlobal
  <1>9. ASSUME NEW c \in Conns, CloseConn(c) \/ RecoverAndClose(c) PROVE KeepsSheds
    BY <1>9 DEF CloseConn, RecoverAndClose, Close
  <1>10. ASSUME NEW l \in Listeners, ShedIntervalOver(l) \/ CloseListener(l) PROVE KeepsSheds
    BY <1>10 DEF ShedIntervalOver, CloseListener
  <1>11. ASSUME Signal \/ CloseLogger \/ Exit PROVE KeepsSheds
    BY <1>11 DEF Signal, CloseLogger, Exit
  <1>12. ASSUME UNCHANGED vars PROVE KeepsSheds
    BY <1>12 DEF vars
  <1> HIDE DEF KeepsSheds
  <1>13. ASSUME NEW c \in Conns, Handle(c)
         PROVE  \/ KeepsSheds
                \/ Refuse(c) \/ RefuseSource(c) \/ LogNotice(c) \/ CountShed(c)
                \/ TakeNotice(c, shedN[port[c]] + 1)
    <2>1. peer[c] \in Addrs
      BY DEF TypeOK
    <2> QED
      BY <1>13, <2>1, <1>2, <1>3, <1>4, <1>5, <1>7, <1>8, <1>9
         DEF Handle, TryAcquire, NoteShed, ReadHeader, AcquireSource
  <1> QED
    BY <1>1, <1>6, <1>10, <1>11, <1>12, <1>13 DEF Next, Shutdown

\* A refusal: one more shed, and one more goroutine on its way to count it.
LEMMA RefusePending ==
  ASSUME TypeOK, ShedInv, NEW c \in Conns, Refuse(c) \/ RefuseSource(c)
  PROVE  ShedInv'
  <1> DEFINE q == port[c]
  <1>1. /\ q \in Listeners /\ pc[c] \in {"start", "source"} /\ pc' = [pc EXCEPT ![c] = "shed"]
        /\ port' = port /\ told' = told /\ shedN' = shedN /\ owed' = owed /\ logger' = logger
        /\ shed' = [shed EXCEPT ![q] = @ + 1]
    BY DEF TypeOK, Refuse, RefuseSource, Goto, mainVars
  <1>2. ASSUME NEW l \in Listeners
        PROVE  /\ At("shed", l)' = IF l = q THEN At("shed", l) \cup {c} ELSE At("shed", l)
               /\ At("notice", l)' = At("notice", l) /\ c \notin At("shed", l)
    BY <1>1 DEF At, TypeOK
  <1>3. ASSUME NEW l \in Listeners
        PROVE  Cardinality(At("shed", l)')
                 = IF l = q THEN Cardinality(At("shed", l)) + 1 ELSE Cardinality(At("shed", l))
    BY <1>2, AtFacts, FS_AddElement
  <1>4. ASSUME NEW l \in Listeners
        PROVE  Pending(l)' = IF l = q THEN Pending(l) + 1 ELSE Pending(l)
    <2>1. Sum(owed, At("notice", l))' = Sum(owed, At("notice", l))
      BY <1>1, <1>2
    <2>2. shedN[l] \in Nat
      BY DEF TypeOK
    <2> QED
      BY <1>1, <1>3, <2>1, <2>2, AtFacts DEF Pending
  <1>5. ASSUME NEW l \in Listeners
        PROVE  Pending(l) \in Nat /\ told[l] \in Nat /\ shed[l] \in Nat
    <2>1. shedN[l] \in Nat /\ told[l] \in Nat /\ shed[l] \in Nat
      BY DEF TypeOK
    <2>2. Cardinality(At("shed", l)) \in Nat /\ Sum(owed, At("notice", l)) \in Nat
      BY AtFacts
    <2> QED
      BY <2>1, <2>2 DEF Pending
  <1> HIDE DEF q
  <1>6. \A l \in Listeners : shed'[l] = IF l = q THEN shed[l] + 1 ELSE shed[l]
    BY <1>1 DEF TypeOK
  <1> QED
    BY <1>1, <1>4, <1>5, <1>6 DEF ShedInv

\* noteShed within the interval: the goroutine's own shed moves to shedN.
LEMMA CountPending ==
  ASSUME TypeOK, ShedInv, NEW c \in Conns, CountShed(c)
  PROVE  ShedInv'
  <1> DEFINE q == port[c]
  <1>1. /\ q \in Listeners /\ pc[c] = "shed" /\ pc' = [pc EXCEPT ![c] = "return"]
        /\ port' = port /\ told' = told /\ shed' = shed /\ owed' = owed /\ logger' = logger
        /\ shedN' = [shedN EXCEPT ![q] = @ + 1]
    BY DEF TypeOK, CountShed, Goto, mainVars
  <1>2. ASSUME NEW l \in Listeners
        PROVE  /\ At("shed", l)' = IF l = q THEN At("shed", l) \ {c} ELSE At("shed", l)
               /\ At("notice", l)' = At("notice", l) /\ (l = q => c \in At("shed", l))
    BY <1>1 DEF At, TypeOK
  <1>3. ASSUME NEW l \in Listeners
        PROVE  Cardinality(At("shed", l)')
                 = IF l = q THEN Cardinality(At("shed", l)) - 1 ELSE Cardinality(At("shed", l))
    <2>1. CASE l = q
      <3>1. IsFiniteSet(At("shed", l)) /\ c \in At("shed", l)
        BY <1>2, <2>1, AtFacts
      <3>2. Cardinality(At("shed", l) \ {c}) = Cardinality(At("shed", l)) - 1
        BY <3>1, FS_RemoveElement
      <3> QED
        BY <1>2, <2>1, <3>2
    <2>2. CASE l # q
      BY <1>2, <2>2
    <2> QED
      BY <2>1, <2>2
  <1>4. ASSUME NEW l \in Listeners PROVE Pending(l)' = Pending(l)
    <2>1. Sum(owed, At("notice", l))' = Sum(owed, At("notice", l))
      BY <1>1, <1>2
    <2>2. shedN[l] \in Nat /\ shedN'[l] = IF l = q THEN shedN[l] + 1 ELSE shedN[l]
      BY <1>1 DEF TypeOK
    <2> QED
      BY <1>3, <2>1, <2>2, AtFacts DEF Pending
  <1> QED
    BY <1>1, <1>4 DEF ShedInv

\* noteShed when a notice is due: the whole count and the own shed move to the
\* goroutine's own number.
LEMMA TakePending ==
  ASSUME TypeOK, ShedInv, NEW c \in Conns, TakeNotice(c, shedN[port[c]] + 1)
  PROVE  ShedInv'
  <1> DEFINE q == port[c]
  <1>1. /\ q \in Listeners /\ pc[c] = "shed" /\ pc' = [pc EXCEPT ![c] = "notice"]
        /\ port' = port /\ told' = told /\ shed' = shed /\ logger' = logger
        /\ owed' = [owed EXCEPT ![c] = shedN[q] + 1]
        /\ shedN' = [shedN EXCEPT ![q] = 0]
    BY DEF TypeOK, TakeNotice, Goto, mainVars
  <1>2. ASSUME NEW l \in Listeners
        PROVE  /\ At("shed", l)' = IF l = q THEN At("shed", l) \ {c} ELSE At("shed", l)
               /\ At("notice", l)' = IF l = q THEN At("notice", l) \cup {c} ELSE At("notice", l)
               /\ c \notin At("notice", l) /\ (l = q => c \in At("shed", l))
    BY <1>1 DEF At, TypeOK
  <1>3. ASSUME NEW l \in Listeners
        PROVE  Cardinality(At("shed", l)')
                 = IF l = q THEN Cardinality(At("shed", l)) - 1 ELSE Cardinality(At("shed", l))
    <2>1. CASE l = q
      <3>1. IsFiniteSet(At("shed", l)) /\ c \in At("shed", l)
        BY <1>2, <2>1, AtFacts
      <3>2. Cardinality(At("shed", l) \ {c}) = Cardinality(At("shed", l)) - 1
        BY <3>1, FS_RemoveElement
      <3> QED
        BY <1>2, <2>1, <3>2
    <2>2. CASE l # q
      BY <1>2, <2>2
    <2> QED
      BY <2>1, <2>2
  <1>5. shedN[q] \in Nat /\ owed'[c] = shedN[q] + 1 /\ owed'[c] \in Nat
    BY <1>1 DEF TypeOK
  <1>6. \A l \in Listeners : \A d \in At("notice", l) : owed'[d] = owed[d] /\ owed[d] \in Nat
    BY <1>1, <1>2 DEF TypeOK, At
  <1>7. ASSUME NEW l \in Listeners, l = q PROVE Pending(l)' = Pending(l)
    <2>1. Sum(owed', At("notice", l) \cup {c}) = Sum(owed, At("notice", l)) + owed'[c]
      <3>1. IsFiniteSet(At("notice", l)) /\ c \notin At("notice", l) /\ owed'[c] \in Nat
        BY <1>2, <1>5, AtFacts
      <3> QED
        BY <1>6, <3>1, SumAdd
    <2>2. Sum(owed, At("notice", l))' = Sum(owed, At("notice", l)) + (shedN[l] + 1)
      BY <1>2, <1>5, <1>7, <2>1
    <2>3. shedN'[l] = 0
      BY <1>1, <1>7 DEF TypeOK
    <2> QED
      BY <1>3, <1>5, <1>7, <2>2, <2>3, AtFacts DEF Pending
  <1>8. ASSUME NEW l \in Listeners, l # q PROVE Pending(l)' = Pending(l)
    <2>1. Units(owed', At("notice", l)) = Units(owed, At("notice", l))
      BY <1>6 DEF Units
    <2>2. Sum(owed', At("notice", l)) = Sum(owed, At("notice", l))
      BY <1>6, <2>1, AtFacts, SumCounts
    <2>3. Sum(owed, At("notice", l))' = Sum(owed, At("notice", l))
      BY <1>2, <1>8, <2>2
    <2>4. shedN'[l] = shedN[l]
      BY <1>1, <1>8 DEF TypeOK
    <2> QED
      BY <1>3, <1>8, <2>3, <2>4 DEF Pending
  <1> QED
    BY <1>1, <1>7, <1>8 DEF ShedInv

\* The notice is written: the number it gives is told.
LEMMA NoticePending ==
  ASSUME TypeOK, ShedInv, NEW c \in Conns, LogNotice(c)
  PROVE  ShedInv'
  <1> SUFFICES ASSUME logger = "open", NEW l \in Listeners
               PROVE  shed'[l] = told'[l] + Pending(l)'
    BY DEF ShedInv, LogNotice, mainVars
  <1> DEFINE q == port[c]
  <1>1. /\ q \in Listeners /\ pc[c] = "notice" /\ pc' = [pc EXCEPT ![c] = "return"]
        /\ port' = port /\ shed' = shed /\ shedN' = shedN
        /\ owed' = [owed EXCEPT ![c] = 0]
        /\ told' = [told EXCEPT ![q] = @ + owed[c]]
    BY DEF TypeOK, LogNotice, Goto
  <1>2. /\ At("shed", l)' = At("shed", l)
        /\ At("notice", l)' = At("notice", l) \ {c}
        /\ c \in At("notice", l) <=> l = q
    BY <1>1 DEF At, TypeOK
  <1>3. /\ \A d \in At("notice", l) \ {c} : owed'[d] = owed[d] /\ owed[d] \in Nat
        /\ owed[c] \in Nat /\ told[l] \in Nat /\ shedN[l] \in Nat /\ shed[l] \in Nat
        /\ told'[l] = IF l = q THEN told[l] + owed[c] ELSE told[l]
    BY <1>1 DEF TypeOK, At
  <1> DEFINE S == At("notice", l) \ {c}
  <1>4. IsFiniteSet(S) /\ c \notin S
    BY AtFacts, FS_Subset
  <1>5. Units(owed', S) = Units(owed, S)
    BY <1>3 DEF Units
  <1>6. Sum(owed, At("notice", l))' = Sum(owed, S) /\ Sum(owed, S) \in Nat
    <2>1. Sum(owed', S) = Sum(owed, S)
      BY <1>3, <1>4, <1>5, SumCounts
    <2>2. Sum(owed, S) \in Nat
      BY <1>3, <1>4, SumCounts, UnitsFinite
    <2> QED
      BY <1>2, <2>1, <2>2
  <1>7. Sum(owed, At("notice", l)) = Sum(owed, S) + (IF l = q THEN owed[c] ELSE 0)
    <2>1. CASE l = q
      <3>1. Sum(owed, S \cup {c}) = Sum(owed, S) + owed[c]
        BY <1>3, <1>4, SumAdd
      <3>2. S \cup {c} = At("notice", l)
        BY <1>2, <2>1
      <3> QED
        BY <2>1, <3>1, <3>2
    <2>2. CASE l # q
      <3>1. S = At("notice", l)
        BY <1>2, <2>2
      <3> QED
        BY <1>6, <2>2, <3>1
    <2> QED
      BY <2>1, <2>2
  <1>8. shed[l] = told[l] + Pending(l)
    BY DEF ShedInv
  <1>9. Pending(l)' = shedN[l] + Cardinality(At("shed", l)) + Sum(owed, S)
    BY <1>1, <1>2, <1>6 DEF Pending
  <1> HIDE DEF S, q
  <1> QED
    BY <1>1, <1>3, <1>6, <1>7, <1>8, <1>9, AtFacts DEF Pending

\* ShedAccounting for any number of listeners and connections: no shed of the
\* two caps is lost between noteShed and the notice, or told twice.
THEOREM ShedsAreCounted == Spec => []ShedAccounting
  <1>1. Init => ShedInv
    <2> SUFFICES ASSUME Init, NEW l \in Listeners
                 PROVE  shed[l] = 0 /\ told[l] = 0 /\ Pending(l) = 0
      BY DEF ShedInv
    <2>1. At("shed", l) = {} /\ At("notice", l) = {}
      BY DEF Init, At
    <2>2. Units(owed, {}) = {} /\ IsFiniteSet({}) /\ Cardinality({}) = 0
      BY FS_EmptySet DEF Units
    <2>3. Sum(owed, {}) = 0
      BY <2>2, SumCounts
    <2>4. Pending(l) = shedN[l] + Cardinality({}) + Sum(owed, {})
      BY <2>1 DEF Pending
    <2> QED
      BY <2>2, <2>3, <2>4 DEF Init
  <1>2. TypeOK /\ ShedInv /\ [Next]_vars => ShedInv'
    BY UnrelatedSteps, KeepsPending, RefusePending, CountPending, TakePending, NoticePending
  <1>3. TypeOK /\ ShedInv => ShedAccounting
    <2> SUFFICES ASSUME TypeOK, ShedInv, logger = "open", NEW l \in Listeners
                 PROVE  LET On(S) == {c \in Conns : port[c] = l /\ pc[c] \in S} IN
                        shed[l] = told[l] + shedN[l] + Cardinality(On({"shed"}))
                                  + MapThenSumSet(LAMBDA c : owed[c], On({"notice"}))
      BY DEF ShedAccounting
    <2>1. /\ At("shed", l) = {c \in Conns : port[c] = l /\ pc[c] \in {"shed"}}
          /\ At("notice", l) = {c \in Conns : port[c] = l /\ pc[c] \in {"notice"}}
      BY DEF At
    <2>2. shed[l] = told[l] + shedN[l] + Cardinality(At("shed", l)) + Sum(owed, At("notice", l))
      BY AtFacts, SMTT(30) DEF ShedInv, Pending, TypeOK
    <2> QED
      BY <2>1, <2>2 DEF Sum
  <1> QED
    BY <1>1, <1>2, <1>3, InitTyped, NextTyped, PTL DEF Spec

============================================================================
