--------------------------- MODULE CuThreadProofs ---------------------------
(***************************************************************************)
(* For every group size and every kernel whose work-items execute the same *)
(* number of barriers.  First, of WorkGroup: the round robin of the CU is  *)
(* a barrier, nobody overtakes, nobody is entered twice, everybody is      *)
(* executed once.  Then, of CuThread: its thread is such a work-group and  *)
(* has these properties; no message is lost, printed twice or let through  *)
(* by the mask unexplained; and the floating-point flags of a work-item    *)
(* are its own.                                                            *)
(***************************************************************************)
EXTENDS CuThread, FiniteSetTheorems, SequenceTheorems, TLAPS

----------------------------------------------------------------------------
(* The work-group *)

\* The round of the work-item at the cursor is the round of the group: the
\* items before the cursor are through with it, the others are about to do it.
Round == ctx[i]
LastRound == Round = barriers[i]
Through(w) == /\ ctx[w] = IF LastRound THEN Round ELSE Round + 1
              /\ returned[w] = IF LastRound THEN 1 ELSE 0
Waiting(w) == ctx[w] = Round /\ returned[w] = 0
InRound ==
    /\ Round <= barriers[i]
    /\ \A w \in Items : IF w < i THEN Through(w) ELSE Waiting(w)
    /\ finish_id = IF LastRound THEN i ELSE 0

AllDone == finish_id = flat_group_size /\ \A w \in Items : returned[w] = 1

IInv ==
    /\ TypeOK
    /\ \A v, w \in Items : barriers[v] = barriers[w]
    /\ pc = "item" => InRound
    /\ pc = "loop" => InRound \/ AllDone
    /\ pc = "end" => AllDone

USE GroupSizeAssumption, KernelsAssumption DEF Items

LEMMA InitIInv ==
  ASSUME UniformKernels
  PROVE  Init => IInv
BY DEF Init, IInv, TypeOK, Zero, UniformKernels

\* A cursor that moves on: it leaves the round, or ends it and starts the next.
LEMMA BarrierStep == IInv /\ Barrier => IInv'
<1> SUFFICES ASSUME IInv, Barrier PROVE IInv'
  OBVIOUS
<1>1. /\ i \in Items /\ ~LastRound /\ Round < barriers[i] /\ InRound
      /\ ctx \in [Items -> Nat] /\ barriers \in [Items -> Nat]
  BY DEF IInv, TypeOK, Barrier, InRound, LastRound, Round
<1>2. ctx' = [ctx EXCEPT ![i] = @ + 1] /\ UNCHANGED <<barriers, finish_id, returned>>
  BY DEF Barrier, SavedAtBarrier
<1>3. TypeOK'
  BY <1>1, <1>2 DEF IInv, TypeOK, Barrier, NextItem
<1>4. finish_id = 0 /\ \A w \in Items : returned[w] = 0
  BY <1>1 DEF InRound, Through, Waiting
<1>5. \A w \in Items : ctx[w] = IF w < i THEN Round + 1 ELSE Round
  BY <1>1 DEF InRound, Through, Waiting
<1>6. \A w \in Items : barriers[w] = barriers[i]
  BY <1>1 DEF IInv
<1>7. \A w \in Items : ctx'[w] = IF w <= i THEN Round + 1 ELSE Round
  BY <1>1, <1>2, <1>5 DEF Round
<1>8. InRound'
  <2>1. CASE i < flat_group_size - 1
    <3>1. i' = i + 1 /\ Round' = Round /\ i' \in Items
      BY <1>1, <1>7, <2>1 DEF Barrier, NextItem, Round
    <3>2. ~LastRound'
      BY <1>1, <1>2, <1>6, <3>1 DEF LastRound
    <3> QED BY <1>1, <1>2, <1>4, <1>6, <1>7, <3>1, <3>2
            DEF InRound, Through, Waiting
  <2>2. CASE i = flat_group_size - 1
    <3>1. i' = 0 /\ Round' = Round + 1 /\ i' \in Items
      BY <1>1, <1>7, <2>2 DEF Barrier, NextItem, Round
    <3>2. \A w \in Items : ctx'[w] = Round' /\ returned'[w] = 0
      BY <1>2, <1>4, <1>7, <2>2, <3>1
    <3>3. Round' <= barriers'[i']
      BY <1>1, <1>2, <1>6, <3>1 DEF Round
    <3> QED BY <1>2, <1>4, <3>1, <3>2, <3>3 DEF InRound, Through, Waiting
  <2> QED BY <1>1, <2>1, <2>2
<1> QED BY <1>2, <1>3, <1>8 DEF IInv, Barrier

LEMMA ReturnStep == IInv /\ Return => IInv'
<1> SUFFICES ASSUME IInv, Return PROVE IInv'
  OBVIOUS
<1>1. /\ i \in Items /\ InRound /\ LastRound
      /\ ctx \in [Items -> Nat] /\ barriers \in [Items -> Nat]
      /\ returned \in [Items -> Nat]
  BY DEF IInv, TypeOK, Return, InRound, LastRound, Round
<1>2. /\ returned' = [returned EXCEPT ![i] = @ + 1] /\ finish_id' = finish_id + 1
      /\ UNCHANGED <<barriers, ctx>>
  BY DEF Return
<1>3. finish_id = i /\ \A w \in Items : ctx[w] = Round
  BY <1>1 DEF InRound, Through, Waiting
<1>4. \A w \in Items : returned[w] = IF w < i THEN 1 ELSE 0
  BY <1>1 DEF InRound, Through, Waiting
<1>5. \A w \in Items : barriers[w] = barriers[i]
  BY <1>1 DEF IInv
<1>6. \A w \in Items : returned'[w] = IF w <= i THEN 1 ELSE 0
  BY <1>1, <1>2, <1>4
<1>7. TypeOK'
  BY <1>1, <1>2, <1>3 DEF IInv, TypeOK, Return, NextItem
<1>8. InRound' \/ AllDone'
  <2>1. CASE i < flat_group_size - 1
    <3>1. i' = i + 1 /\ i' \in Items /\ Round' = Round
      BY <1>1, <1>2, <1>3, <2>1 DEF Return, NextItem, Round
    <3>2. LastRound'
      BY <1>1, <1>2, <1>5, <3>1 DEF LastRound
    <3> QED BY <1>1, <1>2, <1>3, <1>5, <1>6, <3>1, <3>2
            DEF InRound, Through, Waiting, LastRound
  <2>2. CASE i = flat_group_size - 1
    BY <1>2, <1>3, <1>6, <2>2 DEF AllDone
  <2> QED BY <1>1, <2>1, <2>2
<1> QED BY <1>2, <1>7, <1>8 DEF IInv, Return

LEMMA NextIInv ==
  ASSUME UniformKernels
  PROVE  IInv /\ [Next]_vars => IInv'
<1> SUFFICES ASSUME IInv, [Next]_vars PROVE IInv'
  OBVIOUS
<1>1. CASE BeginGroup
  <2>1. \A v, w \in Items : barriers'[v] = barriers'[w]
    BY <1>1 DEF BeginGroup, UniformKernels
  <2>2. TypeOK'
    BY <1>1 DEF BeginGroup, TypeOK, Zero, FreshContexts
  <2>3. InRound'
    BY <1>1, <2>2 DEF BeginGroup, InRound, Waiting, Round, LastRound, Zero,
       FreshContexts, TypeOK
  <2> QED BY <1>1, <2>1, <2>2, <2>3 DEF IInv, BeginGroup
<1>2. CASE SwitchIn
  <2>1. TypeOK' /\ UNCHANGED <<InRound, AllDone, barriers>>
    BY <1>2 DEF SwitchIn, IInv, TypeOK, InRound, AllDone, Round, LastRound,
       Through, Waiting
  <2>2. CASE finish_id < flat_group_size
    BY <1>2, <2>1, <2>2 DEF SwitchIn, IInv, Unfinished, AllDone
  <2>3. CASE ~(finish_id < flat_group_size)
    <3>1. ~InRound
      BY <2>3 DEF InRound, IInv, TypeOK
    <3> QED BY <1>2, <2>1, <2>3, <3>1 DEF SwitchIn, IInv, Unfinished
  <2> QED BY <2>2, <2>3
<1>3. CASE Barrier
  BY <1>3, BarrierStep
<1>4. CASE Return
  BY <1>4, ReturnStep
<1>5. CASE Fault
  BY <1>5 DEF Fault, IInv, TypeOK
<1>6. CASE EndGroup
  BY <1>6 DEF EndGroup, IInv, TypeOK
<1>7. CASE UNCHANGED vars
  BY <1>7 DEF vars, IInv, TypeOK, InRound, AllDone, Round, LastRound, Through,
     Waiting
<1> QED BY <1>1, <1>2, <1>3, <1>4, <1>5, <1>6, <1>7 DEF Next

LEMMA Invariance ==
  ASSUME UniformKernels
  PROVE  Spec => []IInv
BY InitIInv, NextIInv, PTL DEF Spec

\* The variables keep their types: the cursor stays inside the work-group and
\* finish_id never passes flat_group_size.
THEOREM TypeCorrect ==
  ASSUME UniformKernels
  PROVE  Spec => []TypeOK
<1>1. IInv => TypeOK
  BY DEF IInv
<1> QED BY <1>1, Invariance, PTL

\* Switching to the CU and round again is a barrier, for any number of
\* work-items (hsa_helper_barrier).
THEOREM BarrierIsABarrier ==
  ASSUME UniformKernels
  PROVE  Spec => []BarrierSync
<1>1. IInv => BarrierSync
  <2> SUFFICES ASSUME IInv, pc = "item", NEW w \in Items PROVE ctx[w] >= ctx[i]
    BY DEF BarrierSync
  <2>1. InRound /\ ctx \in [Items -> Nat] /\ i \in Items
    BY DEF IInv, TypeOK
  <2> QED BY <2>1 DEF InRound, Through, Waiting, Round
<1> QED BY <1>1, Invariance, PTL

\* No work-item is switched into after it has returned.
THEOREM NoneReentered ==
  ASSUME UniformKernels
  PROVE  Spec => []NoReentry
<1>1. IInv => NoReentry
  BY DEF IInv, TypeOK, NoReentry, InRound, Waiting
<1> QED BY <1>1, Invariance, PTL

\* A work-group whose loop has ended has executed each work-item once.
THEOREM AllAreExecuted ==
  ASSUME UniformKernels
  PROVE  Spec => []AllExecutedOnce
<1>1. IInv => AllExecutedOnce
  BY DEF IInv, AllDone, AllExecutedOnce
<1> QED BY <1>1, Invariance, PTL

----------------------------------------------------------------------------
(* A CU thread's work-group is a work-group *)

\* What kernels call, and how they fail, never disturbs the loop over the
\* work-items: a CU thread does what WorkGroup allows (hsa_cu.c:183-240).
THEOREM CuThreadIsWorkGroup == CuSpec => Spec
<1>1. CuInit => Init
  BY DEF CuInit
<1>2. [CuNext]_cuVars => [Next]_vars
  <2> SUFFICES ASSUME [CuNext]_cuVars PROVE [Next]_vars
    OBVIOUS
  <2>1. CASE Begin
    BY <2>1 DEF Begin, Next
  <2>2. CASE Switch
    BY <2>2 DEF Switch, Next
  <2>3. CASE AtBarrier
    BY <2>3 DEF AtBarrier, Next
  <2>4. CASE ItemReturns
    BY <2>4 DEF ItemReturns, Next
  <2>5. CASE End
    BY <2>5 DEF End, Next
  <2>6. CASE PageFault \/ FloatingDump
    BY <2>6 DEF PageFault, FloatingDump, Next
  <2>7. CASE Prints \/ Compares \/ Excepts \/ Killed \/ Console
    BY <2>7 DEF Prints, Compares, Excepts, Killed, Console
  <2>8. CASE UNCHANGED cuVars
    BY <2>8 DEF cuVars
  <2> QED BY <2>1, <2>2, <2>3, <2>4, <2>5, <2>6, <2>7, <2>8 DEF CuNext, CuStep
<1> QED BY <1>1, <1>2, PTL DEF CuSpec, Spec

----------------------------------------------------------------------------
(* The invariant of the rest *)

\* A call that has still to compare keeps its work-item in the kernel, has seen
\* the mask switched on, and remembers the settings its comparisons read.
Calling ==
    check # "none" =>
        /\ pc = "item"
        /\ debug \in seen /\ \E d \in seen : d.enable = "on"
        /\ check = "tid" => \E d \in seen : eq = Sign(d.gid, group)

Messages ==
    /\ owed = Cardinality(DueIn(ccmsg_q))
    /\ pc = "fetch" /\ abandoned = "no" => ccmsg_q = <<>>

\* The flags of a work-item: of the one in execution in the processor, of the
\* others in their contexts.
FlagsOf(w) == IF pc = "item" /\ w = i THEN fpu ELSE saved[w]
Flagged ==
    /\ IF pc = "item" THEN ret_flags \subseteq left ELSE fpu \subseteq left
    /\ pc \in {"loop", "item"} => \A w \in Items :
           returned[w] = 0 => own[w] \subseteq FlagsOf(w) /\ FlagsOf(w) \subseteq own[w] \cup left

CuIInv == CuTypeOK /\ Calling /\ Messages /\ Flagged

USE ItemsAssumption, CallsAssumption, MessagesAssumption

Settings == {"selected", "off", "masked"}

LEMMA AnswersTyped ==
  ASSUME NEW S, NEW t
  PROVE  Answers(S, t) \in SUBSET Settings
BY DEF Answers, Answer, Settings

LEMMA DueFinite ==
  ASSUME NEW q \in Seq(SUBSET Settings)
  PROVE  /\ IsFiniteSet(DueIn(q)) /\ Cardinality(DueIn(q)) \in Nat
         /\ Len(q) + 1 \notin DueIn(q)
<1>1. DueIn(q) \subseteq 1 .. Len(q) /\ Len(q) \in Nat
  BY DEF DueIn
<1>2. IsFiniteSet(1 .. Len(q))
  BY <1>1, FS_Interval
<1>3. IsFiniteSet(DueIn(q))
  BY <1>1, <1>2, FS_Subset
<1> QED BY <1>1, <1>3, FS_CardinalityType

\* A message more in the queue is one more to be shown, if it is due.
LEMMA DueAppend ==
  ASSUME NEW q \in Seq(SUBSET Settings), NEW m \in SUBSET Settings
  PROVE  Cardinality(DueIn(Append(q, m))) =
           IF Due(m) THEN Cardinality(DueIn(q)) + 1 ELSE Cardinality(DueIn(q))
<1>1. /\ DOMAIN Append(q, m) = DOMAIN q \cup {Len(q) + 1}
      /\ \A k \in DOMAIN q : Append(q, m)[k] = q[k]
      /\ Append(q, m)[Len(q) + 1] = m
  OBVIOUS
<1>2. DueIn(Append(q, m)) = IF Due(m) THEN DueIn(q) \cup {Len(q) + 1} ELSE DueIn(q)
  <2>1. Len(q) + 1 \notin DOMAIN q
    OBVIOUS
  <2> QED BY <1>1, <2>1 DEF DueIn
<1> QED BY <1>2, DueFinite, FS_AddElement

LEMMA DueInEmpty == DueIn(<<>>) = {} /\ Cardinality(DueIn(<<>>)) = 0
<1>1. DueIn(<<>>) = {}
  BY DEF DueIn
<1> QED BY <1>1, FS_EmptySet

\* The end of a call that has added the message to the queue, or not.
LEMMA InsertStep ==
  ASSUME CuTypeOK, Messages, NEW S, NEW t, Insert(S, t)
  PROVE  /\ owed' = Cardinality(DueIn(ccmsg_q))'
         /\ owed' \in Nat /\ ccmsg_q' \in Seq(SUBSET Settings)
         /\ process' \in {"up", "exited"}
         /\ \/ UNCHANGED <<check, eq, seen>>
            \/ check' = "none" /\ eq' = 0 /\ seen' = {}
<1> DEFINE m == Answers(S, t)
<1>0. /\ ccmsg_q \in Seq(SUBSET Settings) /\ owed = Cardinality(DueIn(ccmsg_q)) /\ owed \in Nat
      /\ process \in {"up", "exited"}
  BY DEF CuTypeOK, MsgTypeOK, Messages, ProcessTypeOK, Settings
<1>1. m \in SUBSET Settings
  BY AnswersTyped
<1>2. CASE ccmsg_q' = Append(ccmsg_q, m) /\ Ends(S, t) /\ process' = process
  <2>1. owed' = IF Due(m) THEN owed + 1 ELSE owed
    BY <1>2 DEF Ends
  <2>2. Cardinality(DueIn(ccmsg_q))' = IF Due(m) THEN owed + 1 ELSE owed
    BY <1>0, <1>1, <1>2, DueAppend
  <2>3. ccmsg_q' \in Seq(SUBSET Settings)
    BY <1>0, <1>1, <1>2
  <2>4. check' = "none" /\ eq' = 0 /\ seen' = {}
    BY <1>2 DEF Ends
  <2> QED BY <1>0, <1>2, <2>1, <2>2, <2>3, <2>4
<1>3. CASE HSA_DEBUG_LOG /\ UNCHANGED <<ccmsg_q, check, eq, seen, owed>>
  BY <1>0, <1>3 DEF HSA_DEBUG_LOG
<1> QED BY <1>2, <1>3 DEF Insert

\* The filter never drops a message that is due.
LEMMA DropStep ==
  ASSUME CuTypeOK, Calling, check = "tid", Filtered(eq, Sign(debug.tid, i))
  PROVE  ~Due(Answers(seen, i))
<1>1. debug \in seen
  BY DEF Calling
<1>2. PICK on \in seen : on.enable = "on"
  BY DEF Calling
<1>3. PICK first \in seen : eq = Sign(first.gid, group)
  BY DEF Calling
<1>4. Answer(on, i) # "off"
  BY <1>2 DEF Answer
<1>5. Answers(seen, i) # {"off"}
  BY <1>2, <1>4 DEF Answers
<1>6. ASSUME Answers(seen, i) = {"selected"} PROVE FALSE
  <2>1. \A d \in seen : Answer(d, i) = "selected"
    BY <1>6 DEF Answers
  <2>2. \A d \in seen : d.gid = group /\ d.tid = i
    BY <2>1 DEF Answer
  <2>3. group \in Nat /\ i \in Nat
    BY GroupSizeAssumption DEF CuTypeOK, MsgTypeOK, TypeOK, Items
  <2>4. first.gid = group /\ debug.tid = i
    BY <1>1, <1>3, <2>2
  <2>5. eq = 0 /\ Sign(debug.tid, i) = 0
    BY <1>3, <2>3, <2>4 DEF Sign
  <2> QED BY <2>5 DEF Filtered
<1> QED BY <1>5, <1>6 DEF Due

----------------------------------------------------------------------------
(* Each action preserves the invariant *)

LEMMA CuInitIInv ==
  ASSUME UniformKernels
  PROVE  CuInit => CuIInv
<1> SUFFICES ASSUME CuInit PROVE CuIInv
  OBVIOUS
<1>1. TypeOK
  BY InitIInv DEF CuInit, IInv
<1>2. MsgTypeOK
  BY DEF CuInit, MsgInit, MsgTypeOK, Debug
<1>3. FpTypeOK
  BY DEF CuInit, FpInit, FpTypeOK, NoFlags
<1>4. CuTypeOK
  BY <1>1, <1>2, <1>3 DEF CuInit, CuTypeOK, ProcessTypeOK
<1>5. Calling
  BY DEF CuInit, MsgInit, Calling
<1>6. Messages
  BY DueInEmpty DEF CuInit, MsgInit, Messages
<1>7. Flagged
  BY DEF CuInit, Init, FpInit, Flagged
<1> QED BY <1>4, <1>5, <1>6, <1>7 DEF CuIInv

\* A dump empties the queue and owes nothing any more.
LEMMA DumpStep ==
  ASSUME CuTypeOK, Messages, dump_ccmsg
  PROVE  ccmsg_q' = <<>> /\ owed' = 0 /\ Cardinality(DueIn(ccmsg_q))' = 0
<1>1. owed \in Nat /\ Cardinality(DueIn(ccmsg_q)) = owed /\ ccmsg_q' = <<>>
  BY DEF CuTypeOK, MsgTypeOK, Messages, dump_ccmsg
<1>2. owed' = 0
  BY <1>1 DEF dump_ccmsg
<1> QED BY <1>1, <1>2, DueInEmpty

LEMMA CallingNext == IInv /\ CuIInv /\ [CuNext]_cuVars => Calling'
<1> SUFFICES ASSUME IInv, CuIInv, [CuNext]_cuVars PROVE Calling'
  OBVIOUS
<1> USE DEF Calling, CuIInv
<1>1. CASE Begin \/ Switch \/ AtBarrier \/ ItemReturns \/ End \/ Excepts \/ PageFault \/ FloatingDump
  <2>1. check = "none"
    BY <1>1 DEF Begin, Switch, AtBarrier, ItemReturns, End, Excepts, PageFault, FloatingDump,
       BeginGroup, SwitchIn, EndGroup
  <2>2. check' = check
    BY <1>1 DEF Begin, Switch, AtBarrier, ItemReturns, End, Excepts, PageFault, FloatingDump,
       SameMessages, msgVars, Dumps
  <2> QED BY <2>1, <2>2
<1>2. CASE Killed \/ UNCHANGED cuVars
  BY <1>2 DEF Killed, Dumps, SameMessages, msgVars, vars, cuVars
<1>3. CASE Prints
  <2>1. pc' = "item" /\ check = "none" /\ UNCHANGED <<debug, group>>
    BY <1>3 DEF Prints, vars, hsa_printf_32, hsa_printf_64
  <2>2. CASE check' = "gid" /\ seen' = {debug} /\ debug.enable = "on"
    BY <2>1, <2>2
  <2>3. CASE Insert({debug}, i)
    BY <2>1, <2>3 DEF Insert, Ends
  <2> QED BY <1>3, <2>2, <2>3 DEF Prints, hsa_printf_32, hsa_printf_64
<1>4. CASE CompareGroup /\ UNCHANGED vars
  BY <1>4 DEF CompareGroup, vars
<1>5. CASE CompareItem(i) /\ UNCHANGED vars
  <2>1. UNCHANGED <<debug, group, pc>>
    BY <1>5 DEF CompareItem, vars
  <2>2. CASE Insert(seen, i)
    BY <2>1, <2>2 DEF Insert, Ends
  <2>3. CASE Drop(seen, i)
    BY <2>3 DEF Drop, Ends
  <2> QED BY <1>5, <2>2, <2>3 DEF CompareItem
<1>6. CASE Console
  <2>1. UNCHANGED <<check, eq, group, pc>> /\ Noticed
    BY <1>6 DEF Console, ConsoleStep, hsa_set_debug, SetGroupMask, SetItemMask, vars
  <2> QED BY <2>1 DEF Noticed
<1> QED BY <1>1, <1>2, <1>3, <1>4, <1>5, <1>6 DEF CuNext, CuStep, Compares

LEMMA MessagesNext == IInv /\ CuIInv /\ [CuNext]_cuVars => Messages'
<1> SUFFICES ASSUME IInv, CuIInv, [CuNext]_cuVars PROVE Messages'
  OBVIOUS
<1>0. CuTypeOK /\ Calling /\ Messages
  BY DEF CuIInv
<1>1. CASE Begin \/ Switch \/ AtBarrier \/ ItemReturns \/ Excepts
  <2>1. UNCHANGED <<ccmsg_q, owed>> /\ pc' # "fetch"
    BY <1>0, <1>1 DEF Begin, Switch, AtBarrier, ItemReturns, Excepts, SameMessages, msgVars,
       BeginGroup, SwitchIn, Barrier, Return, vars
  <2> QED BY <1>0, <2>1 DEF Messages
<1>2. CASE PageFault
  BY <1>0, <1>2 DEF PageFault, Messages, SameMessages, msgVars
<1>3. CASE End \/ FloatingDump
  <2>1. dump_ccmsg
    BY <1>3 DEF End, FloatingDump, Dumps
  <2> QED BY <1>0, <2>1, DumpStep DEF Messages
<1>4. CASE Killed
  <2>1. CASE Dumps
    BY <1>0, <2>1, DumpStep DEF Messages, Dumps
  <2>2. CASE UNCHANGED abandoned /\ SameMessages
    BY <1>0, <1>4, <2>2 DEF Killed, SameMessages, msgVars, vars, Messages
  <2> QED BY <1>4, <2>1, <2>2 DEF Killed
<1>5. CASE Prints
  <2>1. pc' # "fetch"
    BY <1>5 DEF Prints, vars
  <2>2. CASE Insert({debug}, i)
    BY <1>0, <2>1, <2>2, InsertStep DEF Messages
  <2>3. CASE UNCHANGED <<ccmsg_q, owed>>
    BY <1>0, <2>1, <2>3 DEF Messages
  <2> QED BY <1>5, <2>2, <2>3 DEF Prints, hsa_printf_32, hsa_printf_64
<1>6. CASE CompareGroup /\ UNCHANGED <<vars, abandoned>>
  BY <1>0, <1>6 DEF CompareGroup, vars, Messages
<1>7. CASE CompareItem(i) /\ UNCHANGED vars
  <2>1. pc' # "fetch"
    BY <1>0, <1>7 DEF CompareItem, vars, Calling
  <2>2. CASE Insert(seen, i)
    BY <1>0, <2>1, <2>2, InsertStep DEF Messages
  <2>3. CASE Filtered(eq, Sign(debug.tid, i)) /\ Drop(seen, i)
    <3>1. ~Due(Answers(seen, i))
      BY <1>0, <1>7, <2>3, DropStep DEF CompareItem
    <3> QED BY <1>0, <2>1, <2>3, <3>1 DEF Drop, Ends, Messages
  <2> QED BY <1>7, <2>2, <2>3 DEF CompareItem
<1>8. CASE Console
  BY <1>0, <1>8 DEF Console, ConsoleStep, hsa_set_debug, SetGroupMask, SetItemMask, vars, Messages
<1>9. CASE UNCHANGED cuVars
  BY <1>0, <1>9 DEF cuVars, vars, msgVars, Messages
<1> QED BY <1>1, <1>2, <1>3, <1>4, <1>5, <1>6, <1>7, <1>8, <1>9 DEF CuNext, CuStep, Compares

LEMMA FlaggedNext == IInv /\ CuIInv /\ [CuNext]_cuVars => Flagged'
<1> SUFFICES ASSUME IInv, CuIInv, [CuNext]_cuVars PROVE Flagged'
  OBVIOUS
<1>0. /\ Flagged /\ i \in Items /\ WorkItems = Items
      /\ saved \in [Items -> SUBSET Flags] /\ own \in [Items -> SUBSET Flags]
      /\ returned \in [Items -> Nat]
  BY DEF CuIInv, CuTypeOK, FpTypeOK, TypeOK
<1> USE DEF Flagged, FlagsOf
<1>1. CASE Begin
  <2>1. pc = "fetch" /\ pc' = "loop" /\ UNCHANGED <<fpu, left>>
    BY <1>1 DEF Begin, BeginGroup, GetContexts
  <2>2. \A w \in Items : saved'[w] = fpu /\ own'[w] = {}
    BY <1>0, <1>1 DEF Begin, GetContexts, NoFlags
  <2> QED BY <1>0, <2>1, <2>2
<1>2. CASE Switch
  <2>1. pc = "loop" /\ UNCHANGED <<i, returned, saved, own, left>>
    BY <1>2 DEF Switch, SwitchIn, SwapIn, fpVars
  <2>2. CASE Unfinished
    <3>1. pc' = "item" /\ ret_flags' = fpu /\ fpu' = saved[i]
      BY <1>2, <2>2 DEF Switch, SwitchIn, SwapIn
    <3> QED BY <1>0, <2>1, <3>1
  <2>3. CASE ~Unfinished
    <3>1. pc' = "end" /\ fpu' = fpu
      BY <1>2, <2>3 DEF Switch, SwitchIn, fpVars
    <3> QED BY <1>0, <2>1, <3>1
  <2> QED BY <2>2, <2>3
<1>3. CASE AtBarrier
  <2>1. /\ pc = "item" /\ pc' = "loop" /\ fpu' = ret_flags /\ UNCHANGED <<returned, own, left>>
        /\ saved' = [saved EXCEPT ![i] = fpu]
    BY <1>3 DEF AtBarrier, Barrier, SwapOut
  <2>2. \A w \in Items : saved'[w] = FlagsOf(w)
    BY <1>0, <2>1
  <2> QED BY <1>0, <2>1, <2>2
<1>4. CASE ItemReturns
  <2>1. /\ pc = "item" /\ pc' = "loop" /\ fpu' = ret_flags /\ UNCHANGED <<saved, left>>
        /\ own' = [own EXCEPT ![i] = {}] /\ returned' = [returned EXCEPT ![i] = @ + 1]
    BY <1>4 DEF ItemReturns, Return, LinkBack
  <2>2. \A w \in Items : returned'[w] = 0 => w # i /\ returned[w] = 0 /\ own'[w] = own[w]
    BY <1>0, <2>1
  <2> QED BY <1>0, <2>1, <2>2
<1>5. CASE End
  BY <1>0, <1>5 DEF End, EndGroup, fpVars
<1>6. CASE Excepts
  <2>1. /\ pc = "item" /\ pc' = "item" /\ UNCHANGED <<i, returned, saved, ret_flags, left>>
    BY <1>6 DEF Excepts, vars, helper_SetDetectExcept, helper_ClearDetectExcept
  <2>2. PICK n \in exceptionsNumbers : helper_SetDetectExcept(i, n) \/ helper_ClearDetectExcept(i, n)
    BY <1>6 DEF Excepts
  <2>3. \A w \in Items : w # i => own'[w] = own[w]
    BY <1>0, <2>2 DEF helper_SetDetectExcept, helper_ClearDetectExcept
  <2>4. \/ fpu' = fpu \cup Named(n) /\ own'[i] = own[i] \cup Named(n)
        \/ fpu' = fpu \ Named(n) /\ own'[i] = own[i] \ Named(n)
    BY <1>0, <2>2 DEF helper_SetDetectExcept, helper_ClearDetectExcept
  <2> QED BY <1>0, <2>1, <2>3, <2>4
<1>7. CASE PageFault
  BY <1>0, <1>7 DEF PageFault, Fault, AbandonItem
<1>8. CASE FloatingDump
  BY <1>0, <1>8 DEF FloatingDump, Fault, AbandonHandler
<1>9. CASE UNCHANGED <<vars, fpVars>>
  BY <1>0, <1>9 DEF vars, fpVars
<1> QED BY <1>1, <1>2, <1>3, <1>4, <1>5, <1>6, <1>7, <1>8, <1>9
        DEF CuNext, CuStep, Compares, Prints, Killed, Console, cuVars

\* The variables that the work-group does not have.
LEMMA CuTypesNext == IInv' /\ CuIInv /\ [CuNext]_cuVars => CuTypeOK'
<1> SUFFICES ASSUME IInv', CuIInv, [CuNext]_cuVars PROVE CuTypeOK'
  OBVIOUS
<1>0. CuTypeOK /\ Messages /\ Calling
  BY DEF CuIInv
<1>1. TypeOK' /\ i \in Items /\ WorkItems = Items
  <2>1. TypeOK'
    BY DEF IInv
  <2>2. i \in Items
    BY <1>0 DEF CuTypeOK, TypeOK
  <2> QED BY <2>1, <2>2
<1>2. ProcessTypeOK' /\ sigfpe' \in {"open", "blocked"} /\ abandoned' \in {"no", "yes"}
  <2>1. ProcessTypeOK /\ sigfpe \in {"open", "blocked"} /\ abandoned \in {"no", "yes"}
    BY <1>0 DEF CuTypeOK
  <2>2. process' \in {process, "exited"}
    BY DEF CuNext, CuStep, Begin, Switch, AtBarrier, ItemReturns, End, Excepts, PageFault,
       FloatingDump, Killed, Prints, Compares, Console, SameCu, cuVars,
       ConsoleStep, hsa_set_debug, SetGroupMask, SetItemMask,
       hsa_printf_32, hsa_printf_64, CompareGroup, CompareItem, Insert, Drop, HSA_DEBUG_LOG
  <2>3. sigfpe' \in {sigfpe, "blocked"}
    BY DEF CuNext, CuStep, Begin, Switch, AtBarrier, ItemReturns, End, Excepts, PageFault,
       FloatingDump, Killed, Prints, Compares, Console, SameCu, cuVars
  <2>4. abandoned' \in {abandoned, "no", "yes"}
    BY DEF CuNext, CuStep, Begin, Switch, AtBarrier, ItemReturns, End, Excepts, PageFault,
       FloatingDump, Killed, Prints, Compares, Console, Dumps, cuVars
  <2> QED BY <2>1, <2>2, <2>3, <2>4 DEF ProcessTypeOK
<1>3. calls' \in 0 .. MaxCalls
  <2>1. calls \in 0 .. MaxCalls
    BY <1>0 DEF CuTypeOK
  <2>2. \/ calls' \in {0, calls}
        \/ calls < MaxCalls /\ calls' = calls + 1
    BY DEF CuNext, CuStep, Begin, Switch, AtBarrier, ItemReturns, End, Excepts, PageFault,
       FloatingDump, Killed, Prints, Compares, Console, Dumps, cuVars
  <2> QED BY <2>1, <2>2
<1>4. FpTypeOK'
  <2>1. FpTypeOK
    BY <1>0 DEF CuTypeOK
  <2> USE <1>1, <2>1 DEF FpTypeOK
  <2>2. CASE Begin
    BY <2>2 DEF Begin, GetContexts, NoFlags
  <2>3. CASE Switch
    BY <2>3 DEF Switch, SwapIn, fpVars
  <2>4. CASE AtBarrier
    BY <2>4 DEF AtBarrier, SwapOut
  <2>5. CASE ItemReturns
    BY <2>5 DEF ItemReturns, LinkBack
  <2>6. CASE Excepts
    <3>1. PICK n \in exceptionsNumbers : helper_SetDetectExcept(i, n) \/ helper_ClearDetectExcept(i, n)
      BY <2>6 DEF Excepts
    <3>2. Named(n) \subseteq Flags
      BY DEF Named
    <3> QED BY <3>1, <3>2 DEF helper_SetDetectExcept, helper_ClearDetectExcept
  <2>7. CASE PageFault \/ FloatingDump
    BY <2>7 DEF PageFault, FloatingDump, AbandonItem, AbandonHandler
  <2>8. CASE UNCHANGED fpVars
    BY <2>8 DEF fpVars
  <2> QED BY <2>2, <2>3, <2>4, <2>5, <2>6, <2>7, <2>8
          DEF CuNext, CuStep, Compares, Prints, Killed, Console, End, cuVars
<1>5. MsgTypeOK'
  <2>1. MsgTypeOK /\ debug \in Debug /\ seen \subseteq Debug /\ ccmsg_q \in Seq(SUBSET Settings)
    BY <1>0 DEF CuTypeOK, MsgTypeOK, Settings
  <2> USE DEF MsgTypeOK
  <2>2. CASE Begin
    BY <2>1, <2>2 DEF Begin
  <2>3. CASE Prints
    <3>1. UNCHANGED <<debug, console, group>>
      BY <2>3 DEF Prints, hsa_printf_32, hsa_printf_64
    <3>2. CASE Insert({debug}, i)
      <4>1. owed' \in Nat /\ ccmsg_q' \in Seq(SUBSET Settings)
        BY <1>0, <3>2, InsertStep
      <4>2. UNCHANGED <<check, eq, seen>> \/ (check' = "none" /\ eq' = 0 /\ seen' = {})
        BY <1>0, <3>2, InsertStep
      <4> QED BY <2>1, <3>1, <4>1, <4>2 DEF Settings
    <3>3. CASE check' = "gid" /\ seen' = {debug} /\ UNCHANGED <<eq, ccmsg_q, owed, process>>
      BY <2>1, <3>1, <3>3
    <3> QED BY <2>3, <3>2, <3>3 DEF Prints, hsa_printf_32, hsa_printf_64
  <2>4. CASE CompareGroup
    BY <2>1, <2>4 DEF CompareGroup, Sign
  <2>5. CASE CompareItem(i)
    <3>1. UNCHANGED <<debug, console, group>>
      BY <2>5 DEF CompareItem
    <3>2. CASE Insert(seen, i)
      <4>1. owed' \in Nat /\ ccmsg_q' \in Seq(SUBSET Settings)
        BY <1>0, <3>2, InsertStep
      <4>2. UNCHANGED <<check, eq, seen>> \/ (check' = "none" /\ eq' = 0 /\ seen' = {})
        BY <1>0, <3>2, InsertStep
      <4> QED BY <2>1, <3>1, <4>1, <4>2 DEF Settings
    <3>3. CASE Drop(seen, i)
      BY <2>1, <3>1, <3>3 DEF Drop, Ends
    <3> QED BY <2>5, <3>2, <3>3 DEF CompareItem
  <2>6. CASE Console
    <3>1. \A m \in Masks : m.gid \in Nat /\ m.tid \in Nat
      OBVIOUS
    <3>2. debug' \in Debug /\ console' \in Nat \cup {NoCommand}
      BY <2>1, <2>6, <3>1 DEF Console, ConsoleStep, hsa_set_debug, SetGroupMask, SetItemMask, Debug
    <3>3. UNCHANGED <<group, check, eq, ccmsg_q, owed>> /\ Noticed
      BY <2>6 DEF Console, ConsoleStep, hsa_set_debug, SetGroupMask, SetItemMask
    <3> QED BY <2>1, <3>2, <3>3 DEF Noticed
  <2>7. CASE Dumps
    <3>1. ccmsg_q' = <<>> /\ owed' = 0
      BY <1>0, <2>7, DumpStep DEF Dumps
    <3> QED BY <2>1, <2>7, <3>1 DEF Dumps
  <2>8. CASE UNCHANGED msgVars
    BY <2>1, <2>8 DEF msgVars
  <2> QED BY <2>2, <2>3, <2>4, <2>5, <2>6, <2>7, <2>8
          DEF CuNext, CuStep, Compares, Switch, AtBarrier, ItemReturns, End, Excepts, PageFault,
              FloatingDump, Killed, SameMessages, cuVars
<1> QED BY <1>1, <1>2, <1>3, <1>4, <1>5 DEF CuTypeOK

LEMMA CuInvariance ==
  ASSUME UniformKernels
  PROVE  CuSpec => [](IInv /\ CuIInv)
<1>1. CuInit => CuIInv
  BY CuInitIInv
<1>2. IInv /\ IInv' /\ CuIInv /\ [CuNext]_cuVars => CuIInv'
  BY CallingNext, MessagesNext, FlaggedNext, CuTypesNext DEF CuIInv
<1>3. CuSpec => []IInv
  BY CuThreadIsWorkGroup, Invariance, PTL
<1> QED BY <1>1, <1>2, <1>3, PTL DEF CuSpec

----------------------------------------------------------------------------
(* What follows from it *)

\* The variables keep their types: the cursor stays inside the work-group,
\* finish_id never passes flat_group_size, and owed is never negative, so that
\* no message is printed that was not sent.
THEOREM CuTypesHold ==
  ASSUME UniformKernels
  PROVE  CuSpec => []CuTypeOK
<1>1. CuIInv => CuTypeOK
  BY DEF CuIInv
<1> QED BY <1>1, CuInvariance, PTL

\* The barrier is one in a thread with messages, flags and faults, too
\* (hsa_helper_barrier), and none is entered twice or left out.
THEOREM CuExecutesTheGroup ==
  ASSUME UniformKernels
  PROVE  CuSpec => [](BarrierSync /\ NoReentry /\ AllExecutedOnce)
<1>1. Spec => []BarrierSync
  BY BarrierIsABarrier
<1>2. Spec => []NoReentry
  BY NoneReentered
<1>3. Spec => []AllExecutedOnce
  BY AllAreExecuted
<1> QED BY <1>1, <1>2, <1>3, CuThreadIsWorkGroup, PTL

\* No message that should be shown is lost or printed twice, whatever the
\* console does in the middle of a call, and all are printed when the CU asks
\* for its next group, unless a page fault abandoned the last one (hsa_printf_32,
\* dump_ccmsg).
THEOREM MessagesPrintedOnceHolds ==
  ASSUME UniformKernels
  PROVE  CuSpec => []MessagesPrintedOnce
<1>1. CuIInv => MessagesPrintedOnce
  <2> SUFFICES ASSUME CuIInv PROVE MessagesPrintedOnce
    OBVIOUS
  <2>1. Messages
    BY DEF CuIInv
  <2>2. NoMessageLost
    BY <2>1 DEF Messages, NoMessageLost
  <2>3. ASSUME pc = "fetch", abandoned = "no" PROVE ccmsg_q = <<>> /\ owed = 0
    BY <2>1, <2>3, DueInEmpty DEF Messages
  <2> QED BY <2>2, <2>3 DEF MessagesPrintedOnce, PrintedAtEnd
<1> QED BY <1>1, CuInvariance, PTL

\* A work-item reads the flags it has raised, and none but those that a page
\* fault left in the processor (the helpers of hsa_fexcept.c, swapcontext in
\* hsa_cu.c).
THEOREM FlagsAreOwnHolds ==
  ASSUME UniformKernels
  PROVE  CuSpec => []FlagsAreOwn
<1>1. IInv /\ CuIInv => FlagsAreOwn
  <2> SUFFICES ASSUME IInv, CuIInv, pc = "item"
               PROVE  own[i] \subseteq fpu /\ fpu \subseteq own[i] \cup left
    BY DEF FlagsAreOwn
  <2>1. i \in Items /\ returned[i] = 0
    BY DEF IInv, TypeOK, InRound, Waiting
  <2> QED BY <2>1 DEF CuIInv, Flagged, FlagsOf
<1> QED BY <1>1, CuInvariance, PTL

\* The mask lets a message of an unselected work-item pass only where the
\* comparisons have opposite signs or read different settings (hsa_printf_32).
THEOREM StraysAreExplained ==
  ASSUME UniformKernels
  PROVE  CuSpec => StraysExplained
<1>1. ASSUME CuIInv, [CuNext]_cuVars, NEW k \in DOMAIN ccmsg_q' \ DOMAIN ccmsg_q,
             check = "tid", Stray(ccmsg_q'[k]), seen \subseteq {debug}
      PROVE  Sign(debug.gid, group) * Sign(debug.tid, i) = -1
  <2>1. CuTypeOK /\ Calling
    BY <1>1 DEF CuIInv
  <2>2. seen = {debug} /\ eq = Sign(debug.gid, group) /\ pc = "item"
    BY <1>1, <2>1 DEF Calling
  <2>3. CompareItem(i)
    <3>1. ccmsg_q' # ccmsg_q /\ ccmsg_q' # <<>>
      BY <1>1
    <3>2. ~Dumps
      BY <3>1 DEF Dumps, dump_ccmsg
    <3> QED BY <1>1, <2>2, <3>1, <3>2
            DEF CuNext, CuStep, Begin, Switch, AtBarrier, ItemReturns, End, Prints, Compares,
                Excepts, PageFault, FloatingDump, Killed, Console, SameMessages, msgVars, cuVars,
                hsa_printf_32, hsa_printf_64, CompareGroup, ConsoleStep, hsa_set_debug,
                SetGroupMask, SetItemMask
  <2>4. ccmsg_q' # ccmsg_q
    BY <1>1
  <2>5. Passes(eq, Sign(debug.tid, i)) /\ Insert(seen, i)
    BY <2>3, <2>4 DEF CompareItem, Drop
  <2>6. ccmsg_q' = Append(ccmsg_q, Answers(seen, i))
    BY <2>4, <2>5 DEF Insert
  <2>7. ccmsg_q'[k] = Answers(seen, i)
    <3>1. ccmsg_q \in Seq(SUBSET Settings)
      BY <2>1 DEF CuTypeOK, MsgTypeOK, Settings
    <3> QED BY <1>1, <2>6, <3>1, AnswersTyped
  <2>8. Answer(debug, i) = "masked"
    BY <1>1, <2>2, <2>7 DEF Stray, Answers
  <2>9. debug.gid # group \/ debug.tid # i
    BY <2>8 DEF Answer
  <2>10. debug.gid \in Nat /\ debug.tid \in Nat /\ group \in Nat /\ i \in Nat
    BY <2>1 DEF CuTypeOK, MsgTypeOK, TypeOK, Debug
  <2>11. Sign(debug.gid, group) # 0 \/ Sign(debug.tid, i) # 0
    BY <2>9, <2>10 DEF Sign
  <2>12. /\ Sign(debug.gid, group) \in {-1, 0, 1} /\ Sign(debug.tid, i) \in {-1, 0, 1}
         /\ Sign(debug.gid, group) + Sign(debug.tid, i) = 0
    BY <2>2, <2>5 DEF Sign, Passes
  <2>13. \/ Sign(debug.gid, group) = 1 /\ Sign(debug.tid, i) = -1
         \/ Sign(debug.gid, group) = -1 /\ Sign(debug.tid, i) = 1
    BY <2>11, <2>12
  <2> QED BY <2>13
<1>2. CuIInv /\ [CuNext]_cuVars =>
        [\A k \in DOMAIN ccmsg_q' \ DOMAIN ccmsg_q :
           check = "tid" /\ Stray(ccmsg_q'[k]) =>
              \/ \E d \in seen : d # debug
              \/ Sign(debug.gid, group) * Sign(debug.tid, i) = -1]_cuVars
  <2> SUFFICES ASSUME CuIInv, [CuNext]_cuVars, NEW k \in DOMAIN ccmsg_q' \ DOMAIN ccmsg_q,
                      check = "tid", Stray(ccmsg_q'[k]), ~ \E d \in seen : d # debug
               PROVE  Sign(debug.gid, group) * Sign(debug.tid, i) = -1
    OBVIOUS
  <2>1. seen \subseteq {debug}
    OBVIOUS
  <2> QED BY <1>1, <2>1
<1> QED BY <1>2, CuInvariance, PTL DEF CuSpec, StraysExplained

=============================================================================
