--------------------------- MODULE SignalsProofs ---------------------------
(***************************************************************************)
(* Proofs about Signals, for every number of signals, every width of       *)
(* sigset_t and of a word, and every depth of handlers inside one another. *)
(***************************************************************************)
EXTENDS Signals, WellFoundedInduction, SequenceTheorems, TLAPS

\* A call that raises signals and is in no handler has a signal to raise.
FramesInv == \A i \in 1 .. Len(frames) :
                frames[i].inHandler \/ frames[i].left # {}

SigInv == SigTypeOK /\ HandlersRestored /\ NothingLost /\ FramesInv

\* Some call is on its way to raise s.
Underway(s) == \E i \in 1 .. Len(frames) : s \in frames[i].left
-----------------------------------------------------------------------------
\* A set of signals that is not empty has a lowest one.
LEMMA LowestSignal ==
    ASSUME NEW T \in SUBSET Signal, T # {}
    PROVE  \E s \in T : \A t \in T : s <= t
<1> DEFINE R == OpToRel(<, Nat)
<1>1. T \subseteq Nat
  BY SignalsAssumption DEF Signal
<1>2. PICK s \in T : \A t \in T : ~(<<t, s>> \in R)
  BY <1>1, NatLessThanWellFounded, WFMin
<1>3. ASSUME NEW t \in T PROVE s <= t
  <2>1. t \in Nat /\ s \in Nat
    BY <1>1
  <2>2. t < s => <<t, s>> \in R
    BY <2>1 DEF OpToRel
  <2> HIDE DEF R
  <2>3. ~(t < s)
    BY <1>2, <2>2
  <2> QED BY <2>1, <2>3
<1> QED BY <1>3

\* The calls in progress without the innermost one.
LEMMA OuterFrames ==
    ASSUME frames \in Seq(Frame), frames # <<>>
    PROVE  /\ Len(frames) \in Nat \ {0} /\ Top \in Frame
           /\ Outer \in Seq(Frame) /\ Len(Outer) = Len(frames) - 1
           /\ \A i \in 1 .. Len(frames) - 1 : Outer[i] = frames[i]
<1>1. Len(frames) \in Nat \ {0}
  BY EmptySeq
<1>2. Top \in Frame
  BY <1>1, ElementOfSeq DEF Top
<1>3. ASSUME NEW i \in 1 .. Len(frames) - 1 PROVE frames[i] \in Frame
  <2>1. i \in 1 .. Len(frames)
    BY <1>1
  <2> QED BY <2>1, ElementOfSeq
<1>4. 1 \in Int /\ Len(frames) - 1 \in Int /\ (1 <= Len(frames) - 1 \/ Len(frames) = 1)
  BY <1>1
<1>5. /\ Outer \in Seq(Frame)
      /\ Len(Outer) = IF 1 <= Len(frames) - 1 THEN (Len(frames) - 1) - 1 + 1 ELSE 0
      /\ \A i \in 1 .. (Len(frames) - 1) - 1 + 1 : Outer[i] = frames[1 + i - 1]
  BY <1>3, <1>4, SubSeqProperties DEF Outer
<1>6. Len(Outer) = Len(frames) - 1
  <2>1. CASE 1 <= Len(frames) - 1
    BY <1>1, <1>5, <2>1
  <2>2. CASE Len(frames) = 1
    BY <1>1, <1>5, <2>2
  <2> QED BY <1>4, <2>1, <2>2
<1>7. ASSUME NEW i \in 1 .. Len(frames) - 1 PROVE Outer[i] = frames[i]
  <2>1. i \in 1 .. (Len(frames) - 1) - 1 + 1 /\ 1 + i - 1 = i
    BY <1>1
  <2> QED BY <1>5, <2>1
<1> QED BY <1>1, <1>2, <1>5, <1>6, <1>7

\* The innermost call in progress is replaced by another.
LEMMA ReplaceTop ==
    ASSUME frames \in Seq(Frame), frames # <<>>, NEW f \in Frame
    PROVE  /\ Append(Outer, f) \in Seq(Frame)
           /\ Len(Append(Outer, f)) = Len(frames)
           /\ Append(Outer, f)[Len(frames)] = f
           /\ \A i \in 1 .. Len(frames) - 1 : Append(Outer, f)[i] = frames[i]
<1> DEFINE o == Outer
<1>1. /\ o \in Seq(Frame) /\ Len(o) = Len(frames) - 1 /\ Len(frames) \in Nat \ {0}
      /\ \A i \in 1 .. Len(frames) - 1 : o[i] = frames[i]
  BY OuterFrames
<1> HIDE DEF o
<1>2. /\ Append(o, f) \in Seq(Frame) /\ Len(Append(o, f)) = Len(o) + 1
      /\ \A i \in 1 .. Len(o) : Append(o, f)[i] = o[i]
      /\ Append(o, f)[Len(o) + 1] = f
  BY <1>1, AppendProperties
<1>3. Len(o) + 1 = Len(frames)
  BY <1>1
<1> QED BY <1>1, <1>2, <1>3 DEF o

\* A call that goes on to the signals left keeps the calls around it, and the
\* signals that are under way.
LEMMA GoOnFrames ==
    ASSUME frames \in Seq(Frame), frames # <<>>, NEW left \in SUBSET Signal,
           FramesInv, frames' = GoOn(left)
    PROVE  /\ frames' \in Seq(Frame) /\ Len(frames') <= Len(frames) /\ FramesInv'
           /\ \A s : Underway(s) /\ (s \in Top.left => s \in left) => Underway(s)'
<1>1. /\ Len(frames) \in Nat \ {0} /\ Outer \in Seq(Frame)
      /\ Len(Outer) = Len(frames) - 1
      /\ \A i \in 1 .. Len(frames) - 1 : Outer[i] = frames[i]
  BY OuterFrames
<1>2. CASE left = {}
  <2>1. frames' = Outer
    BY <1>2 DEF GoOn
  <2>2. ASSUME NEW s, Underway(s), s \in Top.left => s \in left PROVE Underway(s)'
    <3>1. PICK i \in 1 .. Len(frames) : s \in frames[i].left
      BY <2>2 DEF Underway
    <3>2. i # Len(frames)
      BY <1>2, <2>2, <3>1 DEF Top
    <3>3. i \in 1 .. Len(frames) - 1
      BY <1>1, <3>2
    <3> QED BY <1>1, <2>1, <3>1, <3>3 DEF Underway
  <2>3. FramesInv'
    BY <1>1, <2>1 DEF FramesInv
  <2> QED BY <1>1, <2>1, <2>2, <2>3
<1>3. CASE left # {}
  <2> DEFINE f == [left |-> left, inHandler |-> FALSE]
  <2>1. f \in Frame /\ f.left = left
    BY DEF Frame
  <2> HIDE DEF f
  <2>2. frames' = Append(Outer, f)
    BY <1>3 DEF GoOn, f
  <2>3. /\ frames' \in Seq(Frame) /\ Len(frames') = Len(frames)
        /\ frames'[Len(frames)] = f
        /\ \A i \in 1 .. Len(frames) - 1 : frames'[i] = frames[i]
    BY <2>1, <2>2, ReplaceTop
  <2>4. ASSUME NEW s, Underway(s), s \in Top.left => s \in left PROVE Underway(s)'
    <3>1. PICK i \in 1 .. Len(frames) : s \in frames[i].left
      BY <2>4 DEF Underway
    <3>2. CASE i = Len(frames)
      BY <2>1, <2>3, <2>4, <3>1, <3>2 DEF Top, Underway
    <3>3. CASE i # Len(frames)
      <4>1. i \in 1 .. Len(frames) - 1 /\ i \in 1 .. Len(frames')
        BY <1>1, <2>3, <3>3
      <4> QED BY <2>3, <3>1, <4>1 DEF Underway
    <3> QED BY <3>2, <3>3
  <2>5. FramesInv'
    <3> SUFFICES ASSUME NEW i \in 1 .. Len(frames)
                 PROVE  frames'[i].inHandler \/ frames'[i].left # {}
      BY <2>3 DEF FramesInv
    <3>1. i = Len(frames) \/ i \in 1 .. Len(frames) - 1
      BY <1>1
    <3> QED BY <1>3, <2>1, <2>3, <3>1 DEF FramesInv
  <2> QED BY <1>1, <2>3, <2>4, <2>5
<1> QED BY <1>2, <1>3

\* A call that begins to raise signals leaves the others under way.
LEMMA PushFrames ==
    ASSUME frames \in Seq(Frame), NEW raised \in SUBSET Signal, FramesInv,
           frames' = Push(raised)
    PROVE  /\ frames' \in Seq(Frame) /\ Len(frames') <= Len(frames) + 1
           /\ FramesInv'
           /\ \A s : Underway(s) \/ s \in raised => Underway(s)'
<1>0. Len(frames) \in Nat
  OBVIOUS
<1>1. CASE raised = {}
  BY <1>0, <1>1 DEF Push, FramesInv, Underway
<1>2. CASE raised # {}
  <2> DEFINE f == [left |-> raised, inHandler |-> FALSE]
  <2>1. f \in Frame /\ f.left = raised
    BY DEF Frame
  <2> HIDE DEF f
  <2>2. frames' = Append(frames, f)
    BY <1>2 DEF Push, f
  <2>3. /\ frames' \in Seq(Frame) /\ Len(frames') = Len(frames) + 1
        /\ \A i \in 1 .. Len(frames) : frames'[i] = frames[i]
        /\ frames'[Len(frames) + 1] = f
    BY <2>1, <2>2, AppendProperties
  <2>4. ASSUME NEW i \in 1 .. Len(frames')
        PROVE  i = Len(frames) + 1 \/ i \in 1 .. Len(frames)
    BY <1>0, <2>3
  <2>5. FramesInv'
    BY <1>2, <2>1, <2>3, <2>4 DEF FramesInv
  <2>6. ASSUME NEW s, Underway(s) PROVE Underway(s)'
    <3>1. PICK i \in 1 .. Len(frames) : s \in frames[i].left
      BY <2>6 DEF Underway
    <3>2. i \in 1 .. Len(frames')
      BY <1>0, <2>3
    <3> QED BY <2>3, <3>1, <3>2 DEF Underway
  <2>7. ASSUME NEW s, s \in raised PROVE Underway(s)'
    <3>1. Len(frames) + 1 \in 1 .. Len(frames')
      BY <1>0, <2>3
    <3> QED BY <2>1, <2>3, <2>7, <3>1 DEF Underway
  <2> QED BY <1>0, <2>3, <2>5, <2>6, <2>7
<1> QED BY <1>1, <1>2

\* The innermost call that is in no handler raises one of its signals next.
LEMMA NextUpLeft ==
    ASSUME SigTypeOK, FramesInv, Raising
    PROVE  /\ Top \in Frame /\ Top.left \subseteq Signal
           /\ NextUp \in Top.left /\ NextUp \in Signal
<1>1. frames \in Seq(Frame) /\ frames # <<>> /\ ~Top.inHandler
  BY DEF SigTypeOK, Raising
<1>2. Len(frames) \in 1 .. Len(frames) /\ Top \in Frame
  BY <1>1, OuterFrames
<1>3. Top.left \in SUBSET Signal
  BY <1>2 DEF Frame
<1>4. Top.left # {}
  BY <1>1, <1>2 DEF FramesInv, Top
<1>5. \E s \in Top.left : \A t \in Top.left : s <= t
  BY <1>3, <1>4, LowestSignal
<1>6. NextUp \in Top.left
  BY <1>5 DEF NextUp
<1> QED BY <1>2, <1>3, <1>6
-----------------------------------------------------------------------------
\* The invariant holds when the process starts.
LEMMA SigInvInit == SigInit => SigInv
<1> SUFFICES ASSUME SigInit PROVE SigInv OBVIOUS
<1>1. frames \in Seq(Frame) /\ Len(frames) = 0
  BY EmptySeq DEF SigInit
<1>2. SigTypeOK
  <2>1. handlers \in [Signal -> Own] /\ handlers \in [Signal -> Own \cup {"blocked_handler"}]
    BY DEF SigInit, Own
  <2>2. Len(frames) <= MaxDepth
    BY <1>1, SignalsAssumption
  <2> QED BY <1>1, <2>1, <2>2 DEF SigInit, SigTypeOK
<1>3. FramesInv
  BY <1>1 DEF FramesInv
<1> QED
  BY <1>2, <1>3 DEF SigInv, SigInit, HandlersRestored, NothingLost, IsBlocked

\* Signals that are not blocked after sigprocmask are those it has unblocked and
\* those that were not blocked and are not now; what shares a bit goes together.
LEMMA BlockedAfter ==
    ASSUME SigTypeOK, NEW op \in Operation, Sigprocmask(op), NEW s \in Signal
    PROVE  /\ s \in In(ToBlock(op)) => ~IsBlocked(s) /\ IsBlocked(s)'
           /\ s \in In(ToUnblock(op)) => IsBlocked(s) /\ ~IsBlocked(s)'
           /\ s \notin In(ToBlock(op)) \cup In(ToUnblock(op)) =>
                  (IsBlocked(s)' <=> IsBlocked(s))
           /\ blocked_set' \in SUBSET Bit
<1>1. NewBlockedSet(op) \in SUBSET Bit
  BY DEF NewBlockedSet, SigTypeOK, Operation
<1>2. blocked_set' = (blocked_set \ ToUnblock(op))
                        \cup {BitOf(t) : t \in In(ToBlock(op))}
  BY DEF Sigprocmask
<1>3. {BitOf(t) : t \in In(ToBlock(op))} \subseteq ToBlock(op)
  BY DEF In
<1>4. BitOf(s) \in ToBlock(op) <=> s \in In(ToBlock(op))
  BY DEF In
<1>5. BitOf(s) \in ToUnblock(op) <=> s \in In(ToUnblock(op))
  BY DEF In
<1>6. BitOf(s) \in blocked_set' <=>
          \/ BitOf(s) \in blocked_set /\ BitOf(s) \notin ToUnblock(op)
          \/ BitOf(s) \in ToBlock(op)
  BY <1>2, <1>3, <1>4
<1> QED
  BY <1>1, <1>2, <1>3, <1>4, <1>5, <1>6
     DEF ToBlock, ToUnblock, IsBlocked, SigTypeOK

\* Every step keeps the invariant, one step of the proof per action.
LEMMA SigInvStep == SigInv /\ [SigNext]_sigVars => SigInv'
<1> SUFFICES ASSUME SigInv, [SigNext]_sigVars PROVE SigInv' OBVIOUS
<1> USE DEF SigInv
<1>a. /\ frames \in Seq(Frame) /\ Len(frames) \in Nat /\ Len(frames) <= MaxDepth
      /\ MaxDepth \in Nat
  BY SignalsAssumption DEF SigTypeOK
<1>b. ASSUME NEW bits \in SUBSET Bit, Changes(bits) PROVE SigInv'
  BY <1>b DEF Changes, mask, history, SigTypeOK, HandlersRestored, NothingLost,
              FramesInv, IsBlocked
<1>c. ASSUME UNCHANGED <<mask, installed, bypassed>> PROVE HandlersRestored'
  BY <1>c DEF mask, HandlersRestored, IsBlocked
<1>d. ASSUME UNCHANGED <<mask, history, sigEnded>>,
             \A s \in owed : Underway(s) => Underway(s)'
      PROVE  NothingLost'
  BY <1>d DEF mask, history, NothingLost, IsBlocked, Underway
<1>e. ASSUME Raising PROVE /\ Top \in Frame /\ Top.left \subseteq Signal
                           /\ NextUp \in Top.left /\ NextUp \in Signal
                           /\ frames # <<>> /\ ~sigEnded
  BY <1>e, NextUpLeft DEF Raising
<1>1. CASE Sigemptyset \/ Sigfillset \/ Sigquery
  BY <1>1, <1>b DEF Sigemptyset, Sigfillset, Sigquery, SigTypeOK
<1>2. ASSUME NEW s \in 0 .. NSIG, Sigaddset(s) \/ Sigdelset(s) PROVE SigInv'
  <2>1. set \cup Mask(s) \in SUBSET Bit /\ set \ Mask(s) \in SUBSET Bit
    BY DEF Mask, SigTypeOK
  <2> QED BY <1>2, <1>b, <2>1 DEF Sigaddset, Sigdelset, SigTypeOK
<1>3. ASSUME NEW s \in Signal, Raise(s) PROVE SigInv'
  <2>1. frames' = Push({s}) /\ {s} \in SUBSET Signal /\ Len(frames) < MaxDepth
    BY <1>3 DEF Raise
  <2>2. /\ frames' \in Seq(Frame) /\ Len(frames') <= Len(frames) + 1
        /\ FramesInv' /\ \A t : Underway(t) => Underway(t)'
    BY <1>a, <2>1, PushFrames
  <2>3. Len(frames') <= MaxDepth
    BY <1>a, <2>1, <2>2
  <2>4. SigTypeOK'
    BY <1>3, <2>2, <2>3 DEF Raise, SigTypeOK, mask, history
  <2> QED BY <1>3, <1>c, <1>d, <2>2, <2>4 DEF Raise, history
<1>4. ASSUME NEW s \in Signal, NEW h \in Own, SetHandler(s, h) PROVE SigInv'
  <2>1. SigTypeOK'
    BY <1>4 DEF SetHandler, SigTypeOK, Own
  <2>2. HandlersRestored'
    BY <1>4 DEF SetHandler, SigTypeOK, HandlersRestored, IsBlocked
  <2>3. NothingLost' /\ FramesInv'
    BY <1>4 DEF SetHandler, NothingLost, FramesInv, IsBlocked
  <2> QED BY <2>1, <2>2, <2>3
<1>5. ASSUME NEW op \in Operation, Sigprocmask(op) PROVE SigInv'
  <2> DEFINE block   == In(ToBlock(op))
             unblock == In(ToUnblock(op))
  <2>1. /\ Len(frames) < MaxDepth
        /\ pending_array' = pending_array \ (block \cup unblock)
        /\ old_handlers' = [s \in Signal |->
              IF s \in block THEN handlers[s] ELSE old_handlers[s]]
        /\ handlers' = [s \in Signal |->
              CASE s \in block   -> "blocked_handler"
                [] s \in unblock -> old_handlers[s]
                [] OTHER         -> handlers[s]]
        /\ frames' = Push(Received(unblock))
        /\ UNCHANGED <<set, sigEnded, installed, owed, bypassed>>
    BY <1>5 DEF Sigprocmask, history
  <2>2. \A s \in Signal :
           /\ s \in block => ~IsBlocked(s) /\ IsBlocked(s)'
           /\ s \in unblock => IsBlocked(s) /\ ~IsBlocked(s)'
           /\ s \notin block \cup unblock => (IsBlocked(s)' <=> IsBlocked(s))
    BY <1>5, BlockedAfter
  <2>3. blocked_set' \in SUBSET Bit
    <3>1. 0 \in Signal
      BY SignalsAssumption DEF Signal
    <3> QED BY <1>5, <3>1, BlockedAfter
  <2>4. Received(unblock) \in SUBSET Signal
    BY DEF Received, SigTypeOK
  <2> HIDE DEF block, unblock
  <2>5. /\ frames' \in Seq(Frame) /\ Len(frames') <= Len(frames) + 1 /\ FramesInv'
        /\ \A s : Underway(s) \/ s \in Received(unblock) => Underway(s)'
    BY <1>a, <2>1, <2>4, PushFrames
  <2>6. Len(frames') <= MaxDepth
    BY <1>a, <2>1, <2>5
  <2>7. handlers' \in [Signal -> Own \cup {"blocked_handler"}]
    BY <2>1 DEF SigTypeOK
  <2>8. old_handlers' \in [Signal -> Own \cup {"blocked_handler"}]
    BY <2>1 DEF SigTypeOK
  <2>9. SigTypeOK'
    BY <2>1, <2>3, <2>5, <2>6, <2>7, <2>8 DEF SigTypeOK
  <2>10. HandlersRestored'
    <3> SUFFICES ASSUME ~bypassed, NEW s \in Signal
                 PROVE  IF IsBlocked(s)'
                        THEN handlers'[s] = "blocked_handler"
                             /\ old_handlers'[s] = installed[s]
                        ELSE handlers'[s] = installed[s]
      BY <2>1 DEF HandlersRestored, IsBlocked
    <3>1. IF IsBlocked(s)
          THEN handlers[s] = "blocked_handler" /\ old_handlers[s] = installed[s]
          ELSE handlers[s] = installed[s]
      BY DEF HandlersRestored
    <3>2. CASE s \in block
      BY <2>1, <2>2, <3>1, <3>2
    <3>3. CASE s \in unblock
      BY <2>1, <2>2, <3>1, <3>3
    <3>4. CASE s \notin block \cup unblock
      BY <2>1, <2>2, <3>1, <3>4
    <3> QED BY <3>2, <3>3, <3>4
  <2>11. NothingLost'
    <3> SUFFICES ASSUME ~bypassed, ~sigEnded, NEW s \in owed
                 PROVE  (s \in pending_array' /\ IsBlocked(s)') \/ Underway(s)'
      BY <2>1 DEF NothingLost, Underway, IsBlocked
    <3>1. (s \in pending_array /\ IsBlocked(s)) \/ Underway(s)
      BY DEF NothingLost, Underway
    <3>2. s \in Signal
      BY DEF SigTypeOK
    <3>3. CASE s \in pending_array /\ IsBlocked(s)
      BY <2>1, <2>2, <2>5, <3>2, <3>3 DEF Received
    <3> QED BY <2>5, <3>1, <3>3
  <2> QED BY <2>5, <2>9, <2>10, <2>11
<1>6. ASSUME NEW op \in Operation, SigprocmaskAborts(op) PROVE SigInv'
  <2>1. SigTypeOK' /\ FramesInv'
    BY <1>6 DEF SigprocmaskAborts, SigTypeOK, FramesInv, mask, history
  <2>2. HandlersRestored' /\ NothingLost'
    BY <1>6, <1>c DEF SigprocmaskAborts, history, NothingLost
  <2> QED BY <2>1, <2>2
<1>7. CASE BlockedHandler
  <2>1. /\ Raising /\ handlers[NextUp] = "blocked_handler"
        /\ pending_array' = pending_array \cup {NextUp}
        /\ owed' = owed \cup {NextUp}
        /\ frames' = GoOn(Top.left \ {NextUp})
        /\ UNCHANGED <<set, blocked_set, old_handlers, handlers, sigEnded, installed,
                       bypassed>>
    BY <1>7 DEF BlockedHandler
  <2>2. /\ frames' \in Seq(Frame) /\ Len(frames') <= Len(frames) /\ FramesInv'
        /\ \A s : Underway(s) /\ (s \in Top.left => s \in Top.left \ {NextUp})
                    => Underway(s)'
    BY <1>a, <1>e, <2>1, GoOnFrames
  <2>3. SigTypeOK'
    <3>1. Len(frames') <= MaxDepth
      BY <1>a, <2>2
    <3> QED BY <1>e, <2>1, <2>2, <3>1 DEF SigTypeOK
  <2>4. HandlersRestored'
    BY <2>1 DEF HandlersRestored, IsBlocked
  <2>5. ~bypassed => IsBlocked(NextUp)
    BY <1>e, <2>1 DEF HandlersRestored, SigTypeOK, Own
  <2>6. NothingLost'
    <3> SUFFICES ASSUME ~bypassed, NEW s \in owed'
                 PROVE  (s \in pending_array' /\ IsBlocked(s)) \/ Underway(s)'
      BY <2>1 DEF NothingLost, Underway, IsBlocked
    <3>1. CASE s = NextUp
      BY <2>1, <2>5, <3>1
    <3>2. CASE s # NextUp
      <4>1. (s \in pending_array /\ IsBlocked(s)) \/ Underway(s)
        BY <1>e, <2>1, <3>2 DEF NothingLost, Underway
      <4> QED BY <2>1, <2>2, <3>2, <4>1
    <3> QED BY <3>1, <3>2
  <2> QED BY <2>2, <2>3, <2>4, <2>6
<1>8. CASE HandlerCalled
  <2> DEFINE f == [left |-> Top.left \ {NextUp}, inHandler |-> TRUE]
  <2>1. /\ Raising /\ owed' = owed \ {NextUp}
        /\ frames' = Append(Outer, f)
        /\ UNCHANGED <<set, mask, sigEnded, installed, bypassed>>
    BY <1>8 DEF HandlerCalled
  <2>2. f \in Frame /\ f.left = Top.left \ {NextUp} /\ f.inHandler
    BY <1>e, <2>1 DEF Frame
  <2> HIDE DEF f
  <2>3. /\ frames' \in Seq(Frame) /\ Len(frames') = Len(frames)
        /\ frames'[Len(frames)] = f
        /\ \A i \in 1 .. Len(frames) - 1 : frames'[i] = frames[i]
    BY <1>a, <1>e, <2>1, <2>2, ReplaceTop
  <2>4. \A i \in 1 .. Len(frames) : i = Len(frames) \/ i \in 1 .. Len(frames) - 1
    BY <1>a
  <2>5. FramesInv'
    <3> SUFFICES ASSUME NEW i \in 1 .. Len(frames)
                 PROVE  frames'[i].inHandler \/ frames'[i].left # {}
      BY <2>3 DEF FramesInv
    <3> QED BY <2>2, <2>3, <2>4 DEF FramesInv
  <2>6. ASSUME NEW s, Underway(s), s # NextUp PROVE Underway(s)'
    <3>1. PICK i \in 1 .. Len(frames) : s \in frames[i].left
      BY <2>6 DEF Underway
    <3>2. s \in frames'[i].left
      BY <2>2, <2>3, <2>4, <2>6, <3>1 DEF Top
    <3> QED BY <2>3, <3>2 DEF Underway
  <2>7. SigTypeOK'
    <3>1. Len(frames') <= MaxDepth
      BY <1>a, <2>3
    <3> QED BY <2>1, <2>3, <3>1 DEF SigTypeOK, mask
  <2>8. HandlersRestored'
    BY <1>c, <2>1
  <2>9. NothingLost'
    <3> SUFFICES ASSUME ~bypassed, NEW s \in owed, s # NextUp
                 PROVE  (s \in pending_array /\ IsBlocked(s)) \/ Underway(s)'
      BY <2>1 DEF NothingLost, Underway, IsBlocked, mask
    <3>1. (s \in pending_array /\ IsBlocked(s)) \/ Underway(s)
      BY <1>e, <2>1 DEF NothingLost, Underway
    <3> QED BY <2>6, <3>1
  <2> QED BY <2>5, <2>7, <2>8, <2>9
<1>9. CASE HandlerReturns
  <2>1. /\ frames # <<>> /\ frames' = GoOn(Top.left)
        /\ UNCHANGED <<set, mask, sigEnded, history>>
    BY <1>9 DEF HandlerReturns
  <2>2. Top.left \in SUBSET Signal
    BY <1>a, <2>1, OuterFrames DEF Frame
  <2>3. /\ frames' \in Seq(Frame) /\ Len(frames') <= Len(frames) /\ FramesInv'
        /\ \A s : Underway(s) => Underway(s)'
    BY <1>a, <2>1, <2>2, GoOnFrames
  <2>4. SigTypeOK'
    <3>1. Len(frames') <= MaxDepth
      BY <1>a, <2>3
    <3> QED BY <2>1, <2>3, <3>1 DEF SigTypeOK, mask, history
  <2> QED BY <1>c, <1>d, <2>1, <2>3, <2>4 DEF history
<1>10. CASE DefaultAction
  <2>1. /\ Raising /\ owed' = owed \ {NextUp}
        /\ frames' = GoOn(Top.left \ {NextUp}) /\ sigEnded' \in BOOLEAN
        /\ UNCHANGED <<set, mask, installed, bypassed>>
    BY <1>10 DEF DefaultAction
  <2>2. /\ frames' \in Seq(Frame) /\ Len(frames') <= Len(frames) /\ FramesInv'
        /\ \A s : Underway(s) /\ (s \in Top.left => s \in Top.left \ {NextUp})
                    => Underway(s)'
    BY <1>a, <1>e, <2>1, GoOnFrames
  <2>3. SigTypeOK'
    <3>1. Len(frames') <= MaxDepth
      BY <1>a, <2>2
    <3> QED BY <2>1, <2>2, <3>1 DEF SigTypeOK, mask
  <2>4. HandlersRestored'
    BY <1>c, <2>1
  <2>5. NothingLost'
    <3> SUFFICES ASSUME ~bypassed, NEW s \in owed, s # NextUp
                 PROVE  (s \in pending_array /\ IsBlocked(s)) \/ Underway(s)'
      BY <2>1 DEF NothingLost, Underway, IsBlocked, mask
    <3>1. (s \in pending_array /\ IsBlocked(s)) \/ Underway(s)
      BY <1>e, <2>1 DEF NothingLost, Underway
    <3> QED BY <2>2, <3>1
  <2> QED BY <2>2, <2>3, <2>4, <2>5
<1>11. CASE UNCHANGED sigVars
  BY <1>11 DEF sigVars, mask, history, SigTypeOK, HandlersRestored, NothingLost,
               FramesInv, IsBlocked
<1> QED
  BY <1>1, <1>2, <1>3, <1>4, <1>5, <1>6, <1>7, <1>8, <1>9, <1>10, <1>11
     DEF SigNext, Sigaction, Sigwaits, Sigpending

\* Hence it holds in every reachable state.
LEMMA SigInvariance == SigSpec => []SigInv
  BY SigInvInit, SigInvStep, PTL DEF SigSpec
-----------------------------------------------------------------------------
\* Every variable of the emulated signals keeps its type.
THEOREM SignalsTypeCorrect == SigSpec => []SigTypeOK
<1>1. SigInv => SigTypeOK
  BY DEF SigInv
<1> QED BY <1>1, SigInvariance, PTL

\* sigprocmask never loses a handler of the program, for every width of
\* sigset_t: signals that share a bit are blocked and unblocked together.
THEOREM SignalsRestoreHandlers == SigSpec => []HandlersRestored
<1>1. SigInv => HandlersRestored
  BY DEF SigInv
<1> QED BY <1>1, SigInvariance, PTL

\* No signal that came while it was blocked is forgotten, however deep handlers
\* call sigprocmask and raise inside one another.
THEOREM SignalsLoseNothing == SigSpec => []NothingLost
<1>1. SigInv => NothingLost
  BY DEF SigInv
<1> QED BY <1>1, SigInvariance, PTL
=============================================================================
