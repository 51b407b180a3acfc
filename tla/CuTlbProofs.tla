---------------------------- MODULE CuTlbProofs ----------------------------
(***************************************************************************)
(* For any number of CUs, virtual CPUs, pages and slots: the translations  *)
(* of the compute units are right, although a flush takes its lock anew    *)
(* for each slot and the copy of a whole TLB takes none.                   *)
(***************************************************************************)
EXTENDS CuTlb, FiniteSetTheorems, TLAPS

----------------------------------------------------------------------------
(* The inductive invariant *)

\* The lock: a virtual CPU inside an entry is the writer; the CUs and the other
\* threads inside a translation are the readers.
Readers == {c \in CU : cu_pc[c] \in LookupPcs}
Locked ==
    /\ \A v \in VCPU : v_pc[v] \in {"tag", "addend"} <=> writer = v
    /\ readers = Cardinality(Readers) + Cardinality(accessing)
    /\ writer # "none" => Readers = {} /\ accessing = {}

\* Has the flush of v, when it stands at an entry, still to come to slot j of CU c?
Before(at, c, j) == at[1] < c \/ (at[1] = c /\ at[2] <= j)
Pending(c, j) == \E v \in VCPU : v_pc[v] # "guest" /\ Before(v_at[v], c, j)

\* The slots of a CU that are not in the middle of a memcpy.
Settled(c) == {j \in Slots : cu_pc[c] \in CopyPcs => j < cu_slot[c]}

\* What is stale is either on the way of a flush or was copied stale.
Flushing ==
    /\ \A v \in VCPU : v_pc[v] = "guest" => v_at[v] = <<0, 0>>
    /\ \A c \in CU \ suspect : \A j \in Settled(c) : Stale(tlb[c][j]) => Pending(c, j)
    /\ \A c \in CU : cu_pc[c] = "fill" /\ page_table[cu_page[c]] # cu_walked[c] =>
                       Pending(c, Index(cu_page[c]))

\* The two words of an entry belong together, except that one of a pair may be
\* gone where a flush met a memcpy.
Genuine(c, e) ==
    \/ e.addr_read = Invalid
    \/ <<e.addr_read, e.addend>> \in mapped
    \/ c \in overlapped /\ e.addend = Invalid
Paired ==
    /\ \A c \in CU : \A j \in Settled(c) : Genuine(c, tlb[c][j])
    /\ \A v \in VCPU : LET c == v_at[v][1]
                           j == v_at[v][2]
                       IN  v_pc[v] = "addend" /\ cu_pc[c] \notin CopyPcs =>
                             tlb[c][j].addr_read = Invalid \/ c \in overlapped
    /\ \A c \in CU : cu_pc[c] = "copy_addend" =>
         tlb[c][cu_slot[c]].addr_read \in {snap[cu_slot[c]].addr_read, Invalid}
    /\ \A c \in CU : cu_pc[c] = "fill" => <<cu_page[c], cu_walked[c]>> \in mapped
    /\ \A j \in Slots : snap[j] = Empty \/ <<snap[j].addr_read, snap[j].addend>> \in mapped
    /\ \A p \in Page : page_table[p] # NoFrame => <<p, page_table[p]>> \in mapped

\* A CU inside a translation has a page to translate.
Translating == \A c \in CU : cu_pc[c] \in LookupPcs => cu_page[c] \in Page

IInv == TypeOK /\ Translating /\ Locked /\ Flushing /\ Paired

USE TlbAssumption DEF lock, flush, walk, history, CopyPcs, LookupPcs

----------------------------------------------------------------------------
(* The words of an entry *)

Tables == [CU -> [Slots -> Entry]]

\* Only entry j of the table of CU c may differ.
OnlyEntry(old, new, c, j) ==
    \A d \in CU : \A k \in Slots : d # c \/ k # j => new[d][k] = old[d][k]

LEMMA TagWritten ==
  ASSUME NEW t \in Tables, NEW c \in CU, NEW j \in Slots, NEW tag \in Page \cup {Invalid},
         NEW u, u = [t EXCEPT ![c][j].addr_read = tag]
  PROVE  /\ u \in Tables /\ OnlyEntry(t, u, c, j)
         /\ u[c][j].addr_read = tag /\ u[c][j].addend = t[c][j].addend
BY DEF Tables, Entry, OnlyEntry

LEMMA AddendWritten ==
  ASSUME NEW t \in Tables, NEW c \in CU, NEW j \in Slots,
         NEW addend \in Frame \cup {Invalid},
         NEW u, u = [t EXCEPT ![c][j].addend = addend]
  PROVE  /\ u \in Tables /\ OnlyEntry(t, u, c, j)
         /\ u[c][j].addr_read = t[c][j].addr_read /\ u[c][j].addend = addend
BY DEF Tables, Entry, OnlyEntry

LEMMA EntryWritten ==
  ASSUME NEW t \in Tables, NEW c \in CU, NEW j \in Slots, NEW e \in Entry,
         NEW u, u = [t EXCEPT ![c][j] = e]
  PROVE  u \in Tables /\ OnlyEntry(t, u, c, j) /\ u[c][j] = e
BY DEF Tables, OnlyEntry

\* What the two words of a flush write.
LEMMA FieldFlushed ==
  ASSUME TypeOK, NEW v \in VCPU, NEW c, NEW j, c = v_at[v][1], j = v_at[v][2]
  PROVE  /\ c \in CU /\ j \in Slots /\ v_at[v] \in CU \X Slots
         /\ FlushField(v, "tag") => /\ tlb' \in Tables /\ OnlyEntry(tlb, tlb', c, j)
                                    /\ tlb'[c][j].addr_read = Invalid
         /\ FlushField(v, "addend") => /\ tlb' \in Tables /\ OnlyEntry(tlb, tlb', c, j)
                                       /\ tlb'[c][j].addr_read = tlb[c][j].addr_read
                                       /\ tlb'[c][j].addend = Invalid
<1>1. c \in CU /\ j \in Slots /\ v_at[v] \in CU \X Slots /\ tlb \in Tables
  BY DEF TypeOK, Tables
<1>2. FlushField(v, "tag") => tlb' = [tlb EXCEPT ![c][j].addr_read = Invalid]
  BY DEF FlushField
<1>3. FlushField(v, "addend") => tlb' = [tlb EXCEPT ![c][j].addend = Invalid]
  BY DEF FlushField
<1>4. ASSUME FlushField(v, "tag")
      PROVE  tlb' \in Tables /\ OnlyEntry(tlb, tlb', c, j) /\ tlb'[c][j].addr_read = Invalid
  BY <1>1, <1>2, <1>4, TagWritten
<1>5. ASSUME FlushField(v, "addend")
      PROVE  /\ tlb' \in Tables /\ OnlyEntry(tlb, tlb', c, j)
             /\ tlb'[c][j].addr_read = tlb[c][j].addr_read
             /\ tlb'[c][j].addend = Invalid
  BY <1>1, <1>3, <1>5, AddendWritten
<1> QED
  BY <1>1, <1>4, <1>5

\* A page has its slot, and the flush goes from slot to slot.
LEMMA IndexIsSlot ==
  ASSUME NEW p \in Page
  PROVE  Index(p) \in Slots
BY DEF Index, Slots

LEMMA NextSlotType ==
  ASSUME NEW at \in CU \X Slots
  PROVE  NextSlot(at) \in CU \X Slots
BY DEF NextSlot, CU, Slots

\* The flush is over only after the last slot of the last CU.
LEMMA NextSlotBefore ==
  ASSUME NEW at \in CU \X Slots, NEW c \in CU, NEW j \in Slots,
         Before(at, c, j), c # at[1] \/ j # at[2]
  PROVE  NextSlot(at) # <<0, 0>> /\ Before(NextSlot(at), c, j)
BY DEF NextSlot, Before, CU, Slots

----------------------------------------------------------------------------

LEMMA InitIInv == Init => IInv
<1> SUFFICES ASSUME Init PROVE IInv
  OBVIOUS
<1>1. 0 \in CU /\ 0 \in Slots /\ ReaderWidth \in Nat \ {0}
  BY DEF CU, Slots
<1>2. TypeOK
  BY <1>1 DEF Init, TypeOK, Entry, Empty
<1>3. Readers = {} /\ accessing = {} /\ Cardinality({}) = 0
  BY FS_EmptySet DEF Init, Readers
<1>4. Locked
  BY <1>3 DEF Init, Locked
<1>5. Translating /\ Flushing
  BY DEF Init, Translating, Flushing, Settled, Stale, Empty
<1>6. Paired
  BY DEF Init, Paired, Settled, Genuine, Empty
<1> QED
  BY <1>2, <1>4, <1>5, <1>6 DEF IInv

----------------------------------------------------------------------------
(* The steps, one lemma for each part of the invariant *)

LEMMA UnlockType ==
  ASSUME TypeOK, Unlock
  PROVE  readers' \in 0 .. ReaderWidth - 1 /\ writer' \in VCPU \cup {"none"}
<1>1. (readers - 1) % ReaderWidth \in 0 .. ReaderWidth - 1
  BY DEF TypeOK
<1> QED
  BY <1>1 DEF Unlock, TypeOK

LEMMA LockToReadType ==
  ASSUME TypeOK, LockToRead
  PROVE  readers' \in 0 .. ReaderWidth - 1 /\ writer' \in VCPU \cup {"none"}
<1>1. (readers + 1) % ReaderWidth \in 0 .. ReaderWidth - 1
  BY DEF TypeOK
<1> QED
  BY <1>1 DEF LockToRead, TypeOK

LEMMA NextTypeOK ==
  ASSUME IInv, [Next]_vars
  PROVE  TypeOK'
<1> TypeOK /\ Translating
  BY DEF IInv
<1>1. CASE UNCHANGED vars
  BY <1>1 DEF vars, TypeOK
<1>2. CASE Dispatch
  <2>1. snap' \in [Slots -> Entry]
    BY <1>2 DEF Dispatch, TypeOK, Entry, Empty
  <2>2. 0 \in Slots
    BY DEF Slots
  <2> QED
    BY <1>2, <2>1, <2>2 DEF Dispatch, TypeOK
<1>3. ASSUME NEW v \in VCPU, Remap(v) PROVE TypeOK'
  BY <1>3 DEF Remap, TypeOK
<1>4. ASSUME NEW v \in VCPU, FlushLock(v) PROVE TypeOK'
  BY <1>4 DEF FlushLock, TypeOK
<1>5. ASSUME NEW v \in VCPU, FlushTag(v) PROVE TypeOK'
  <2>1. v_at[v][1] \in CU /\ v_at[v][2] \in Slots
    BY DEF TypeOK
  <2>2. tlb' \in [CU -> [Slots -> Entry]]
    BY <1>5, FieldFlushed DEF FlushTag, Tables
  <2> QED
    BY <1>5, <2>1, <2>2 DEF FlushTag, FlushField, TypeOK
<1>6. ASSUME NEW v \in VCPU, FlushAddend(v) PROVE TypeOK'
  <2>1. v_at[v][1] \in CU /\ v_at[v][2] \in Slots /\ v_at[v] \in CU \X Slots
    BY DEF TypeOK
  <2>2. tlb' \in [CU -> [Slots -> Entry]]
    BY <1>6, FieldFlushed DEF FlushAddend, Tables
  <2>3. v_at' \in [VCPU -> CU \X Slots]
    BY <1>6, <2>1, NextSlotType DEF FlushAddend, TypeOK
  <2>4. readers' \in 0 .. ReaderWidth - 1 /\ writer' \in VCPU \cup {"none"}
    BY <1>6, UnlockType DEF FlushAddend
  <2> QED
    BY <1>6, <2>1, <2>2, <2>3, <2>4 DEF FlushAddend, FlushField, TypeOK
<1>7. ASSUME NEW c \in CU, CopyTag(c) PROVE TypeOK'
  <2>1. cu_slot[c] \in Slots /\ snap[cu_slot[c]].addr_read \in Page \cup {Invalid}
    BY DEF TypeOK, Entry
  <2>2. tlb' \in [CU -> [Slots -> Entry]]
    BY <1>7, <2>1, TagWritten DEF CopyTag, TypeOK, Tables
  <2> QED
    BY <1>7, <2>2 DEF CopyTag, Copied, CuGoto, TypeOK
<1>8. ASSUME NEW c \in CU, CopyAddend(c) PROVE TypeOK'
  <2>1. cu_slot[c] \in Slots /\ snap[cu_slot[c]].addend \in Frame \cup {Invalid}
    BY DEF TypeOK, Entry
  <2>2. tlb' \in [CU -> [Slots -> Entry]]
    BY <1>8, <2>1, AddendWritten DEF CopyAddend, TypeOK, Tables
  <2>3. cu_slot' \in [CU -> Slots]
    <3>1. 0 \in Slots /\ (cu_slot[c] + 1 < TlbSize => cu_slot[c] + 1 \in Slots)
      BY <2>1 DEF Slots
    <3> QED
      BY <1>8, <3>1 DEF CopyAddend, TypeOK
  <2>4. cu_pc' \in [CU -> {"asleep", "kernel"} \cup CopyPcs \cup LookupPcs]
    <3>1. CuGoto(c, "copy_tag") \/ CuGoto(c, "kernel")
      BY <1>8 DEF CopyAddend
    <3> QED
      BY <3>1 DEF CuGoto, TypeOK
  <2>5. overlapped' \subseteq CU /\ suspect' \subseteq CU
    BY <1>8 DEF CopyAddend, Copied, TypeOK
  <2> QED
    BY <1>8, <2>2, <2>3, <2>4, <2>5 DEF CopyAddend, TypeOK
<1>9. ASSUME NEW c \in CU, NEW p \in Page, Access(c, p) PROVE TypeOK'
  BY <1>9, LockToReadType DEF Access, CuGoto, TypeOK
<1>10. ASSUME NEW c \in CU, Hit(c) PROVE TypeOK'
  <2>1. CASE Exit
    BY <2>1 DEF Exit, TypeOK
  <2>2. CASE LeaveLookup(c) /\ CuGoto(c, "kernel") /\
             UNCHANGED <<page_table, flush, cu_slot, cu_walked, tlb, snap, accessing,
                         process, history>>
    BY <2>2, UnlockType DEF LeaveLookup, CuGoto, TypeOK
  <2> QED
    BY <1>10, <2>1, <2>2 DEF Hit
<1>11. ASSUME NEW c \in CU, Miss(c) PROVE TypeOK'
  <2>1. page_table[cu_page[c]] \in Frame \cup {NoFrame}
    BY <1>11 DEF Miss, TypeOK, Translating
  <2> QED
    BY <1>11, <2>1 DEF Miss, CuGoto, TypeOK
<1>12. ASSUME NEW c \in CU, Fill(c) PROVE TypeOK'
  <2>0. cu_walked[c] \in Frame
    BY <1>12 DEF IInv, Paired, Fill, TypeOK
  <2>1. cu_page[c] \in Page /\ Index(cu_page[c]) \in Slots
    BY <1>12, IndexIsSlot DEF Fill, Translating
  <2>2. [addr_read |-> cu_page[c], addend |-> cu_walked[c]] \in Entry
    BY <2>0, <2>1 DEF Entry
  <2>3. tlb' \in [CU -> [Slots -> Entry]]
    BY <1>12, <2>1, <2>2, EntryWritten DEF Fill, TypeOK, Tables
  <2> QED
    BY <1>12, <2>3 DEF Fill, CuGoto, TypeOK
<1>13. ASSUME NEW c \in CU, PageFault(c) PROVE TypeOK'
  BY <1>13, UnlockType DEF PageFault, LeaveLookup, CuGoto, TypeOK
<1>14. ASSUME NEW c \in CU, Finish(c) PROVE TypeOK'
  BY <1>14 DEF Finish, CuGoto, TypeOK
<1>15. ASSUME NEW t \in Accessor, AccessStep(t) PROVE TypeOK'
  <2>1. CASE GlobalAccess(t)
    BY <2>1, LockToReadType DEF GlobalAccess, TypeOK
  <2>2. CASE LeaveAccess(t)
    BY <2>2, UnlockType DEF LeaveAccess, TypeOK
  <2>3. CASE Exit
    BY <2>3 DEF Exit, TypeOK
  <2> QED
    BY <1>15, <2>1, <2>2, <2>3 DEF AccessStep, GlobalHit, GlobalFault
<1> QED
  BY <1>1, <1>2, <1>3, <1>4, <1>5, <1>6, <1>7, <1>8, <1>9, <1>10, <1>11, <1>12, <1>13,
     <1>14, <1>15
  DEF Next, VcpuStep, CuStep

\* A step of hsa_get_phy_addr_global changes nothing but the lock.
LEMMA AccessKeeps ==
  ASSUME NEW t \in Accessor, AccessStep(t)
  PROVE  UNCHANGED <<page_table, v_pc, v_at, cu_pc, cu_slot, cu_page, cu_walked, tlb, snap,
                     mapped, suspect, overlapped>>
BY DEF AccessStep, GlobalAccess, GlobalHit, GlobalFault, LeaveAccess, Exit

LEMMA NextTranslating ==
  ASSUME IInv, [Next]_vars
  PROVE  Translating'
<1> USE DEF Translating, CuGoto
<1> Translating /\ cu_pc \in [CU -> {"asleep", "kernel"} \cup CopyPcs \cup LookupPcs]
    /\ cu_page \in [CU -> Page \cup {Invalid}]
  BY DEF IInv, TypeOK
<1>1. CASE UNCHANGED vars
  BY <1>1 DEF vars
<1>2. CASE Dispatch
  BY <1>2 DEF Dispatch
<1>3. ASSUME NEW v \in VCPU, Remap(v) \/ VcpuStep(v) PROVE Translating'
  BY <1>3 DEF Remap, VcpuStep, FlushLock, FlushTag, FlushAddend
<1>4. ASSUME NEW c \in CU, CopyTag(c) \/ Finish(c) PROVE Translating'
  BY <1>4 DEF CopyTag, Finish
<1>5. ASSUME NEW c \in CU, CopyAddend(c) PROVE Translating'
  <2>1. /\ CuGoto(c, "copy_tag") \/ CuGoto(c, "kernel")
        /\ cu_page' = cu_page
    BY <1>5 DEF CopyAddend
  <2> QED
    BY <2>1
<1>6. ASSUME NEW c \in CU, NEW p \in Page, Access(c, p) PROVE Translating'
  BY <1>6 DEF Access
<1>7. ASSUME NEW c \in CU, Hit(c) PROVE Translating'
  BY <1>7 DEF Hit, Exit, LeaveLookup
<1>8. ASSUME NEW c \in CU, PageFault(c) PROVE Translating'
  BY <1>8 DEF PageFault, LeaveLookup
<1>9. ASSUME NEW c \in CU, Miss(c) \/ Fill(c) PROVE Translating'
  BY <1>9 DEF Miss, Fill
<1>10. ASSUME NEW t \in Accessor, AccessStep(t) PROVE Translating'
  BY <1>10, AccessKeeps
<1> QED
  BY <1>1, <1>2, <1>3, <1>4, <1>5, <1>6, <1>7, <1>8, <1>9, <1>10 DEF Next, CuStep

LEMMA CusFinite == IsFiniteSet(CU) /\ Cardinality(CU) = NumCus
<1>1. NumCus - 1 \in Int /\ ~(0 > NumCus - 1) /\ (NumCus - 1) - 0 + 1 = NumCus
  OBVIOUS
<1>2. /\ IsFiniteSet(0 .. NumCus - 1)
      /\ Cardinality(0 .. NumCus - 1) =
           IF 0 > NumCus - 1 THEN 0 ELSE (NumCus - 1) - 0 + 1
  BY <1>1, FS_Interval
<1> QED
  BY <1>1, <1>2 DEF CU

\* There are no more readers than CUs, so their count does not wrap.
LEMMA ReadersFinite ==
  /\ IsFiniteSet(Readers) /\ Cardinality(Readers) \in Nat /\ Cardinality(Readers) <= NumCus
  /\ Cardinality(Readers) = 0 <=> Readers = {}
<1>1. IsFiniteSet(CU) /\ Cardinality(CU) = NumCus
  BY CusFinite
<1>2. Readers \in SUBSET CU
  BY DEF Readers
<1>3. IsFiniteSet(Readers) /\ Cardinality(Readers) <= NumCus
  BY <1>1, <1>2, FS_Subset
<1> QED
  BY <1>3, FS_CardinalityType, FS_EmptySet

LEMMA AccessorsFinite ==
  ASSUME NEW S \in SUBSET Accessor
  PROVE  /\ IsFiniteSet(S) /\ Cardinality(S) \in Nat
         /\ Cardinality(S) <= Cardinality(VCPU) + 1
         /\ Cardinality(S) = 0 <=> S = {}
<1>1. IsFiniteSet(Accessor) /\ Cardinality(Accessor) = Cardinality(VCPU) + 1
  BY ReadersAssumption, FS_AddElement DEF Accessor
<1>2. IsFiniteSet(S) /\ Cardinality(S) <= Cardinality(Accessor)
  BY <1>1, FS_Subset
<1> QED
  BY <1>1, <1>2, FS_CardinalityType, FS_EmptySet

\* A count that stays below its width is one more, or one less.
LEMMA CountUp ==
  ASSUME LockToRead, NEW n \in Nat, readers = n, n + 1 < ReaderWidth
  PROVE  readers' = n + 1 /\ writer = "none" /\ writer' = "none"
BY DEF LockToRead

LEMMA CountDown ==
  ASSUME Unlock, NEW n \in Nat \ {0}, readers = n, n < ReaderWidth, writer = "none"
  PROVE  readers' = n - 1 /\ writer' = "none"
<1>1. n - 1 \in 0 .. ReaderWidth - 1
  OBVIOUS
<1>2. (n - 1) % ReaderWidth = n - 1
  BY <1>1
<1> QED
  BY <1>2 DEF Unlock

\* A CU that comes to hold the lock, or lets it go, is one reader more or less.
LEMMA ReaderComes ==
  ASSUME IInv, NEW c \in CU, NEW p \in Page, Access(c, p)
  PROVE  Locked'
<1>1. Readers' = Readers \cup {c} /\ c \notin Readers /\ LockToRead
      /\ UNCHANGED <<accessing, v_pc>>
  BY DEF Access, CuGoto, Readers, IInv, TypeOK
<1>2. /\ readers = Cardinality(Readers) + Cardinality(accessing)
      /\ accessing \in SUBSET Accessor
  BY DEF IInv, Locked, TypeOK
<1>3. Cardinality(Readers') = Cardinality(Readers) + 1
  BY <1>1, ReadersFinite, FS_AddElement
<1>4. Cardinality(Readers') <= NumCus
  <2>1. IsFiniteSet(CU) /\ Cardinality(CU) = NumCus
    BY CusFinite
  <2>2. Readers \cup {c} \in SUBSET CU
    BY DEF Readers
  <2> QED
    BY <1>1, <2>1, <2>2, FS_Subset
<1>5. /\ Cardinality(accessing) \in Nat /\ Cardinality(Readers) \in Nat
      /\ Cardinality(accessing) <= Cardinality(VCPU) + 1 /\ Cardinality(VCPU) \in Nat
  BY <1>2, AccessorsFinite, ReadersFinite, FS_CardinalityType, ReadersAssumption
<1>6. readers' = readers + 1 /\ writer = "none" /\ writer' = "none"
  BY <1>1, <1>2, <1>3, <1>4, <1>5, CountUp, ReadersAssumption
<1> QED
  BY <1>1, <1>2, <1>3, <1>5, <1>6 DEF IInv, Locked

LEMMA ReaderLeaves ==
  ASSUME IInv, NEW c \in CU, cu_pc[c] \in LookupPcs, LeaveLookup(c),
         NEW pc \in {"kernel", "asleep"}, CuGoto(c, pc),
         UNCHANGED <<accessing, v_pc>>
  PROVE  Locked'
<1>1. Readers' = Readers \ {c} /\ c \in Readers
  BY DEF CuGoto, Readers, IInv, TypeOK
<1>2. /\ writer = "none" /\ readers = Cardinality(Readers) + Cardinality(accessing)
      /\ accessing \in SUBSET Accessor /\ readers \in 0 .. ReaderWidth - 1
  BY <1>1 DEF IInv, Locked, TypeOK
<1>3. Cardinality(Readers') = Cardinality(Readers) - 1
  BY <1>1, ReadersFinite, FS_RemoveElement
<1>4. Cardinality(Readers) \in Nat \ {0} /\ Cardinality(accessing) \in Nat
  BY <1>1, <1>2, ReadersFinite, AccessorsFinite
<1>5. readers' = readers - 1 /\ writer' = "none"
  BY <1>2, <1>4, CountDown DEF LeaveLookup
<1> QED
  BY <1>2, <1>3, <1>4, <1>5 DEF IInv, Locked

\* So is any other thread that translates an address.
LEMMA AccessLocked ==
  ASSUME IInv, NEW t \in Accessor, AccessStep(t)
  PROVE  Locked'
<1> DEFINE n == Cardinality(Readers)
           k == Cardinality(accessing)
<1>1. /\ readers = n + k /\ accessing \in SUBSET Accessor
      /\ readers \in 0 .. ReaderWidth - 1
      /\ \A v \in VCPU : v_pc[v] \in {"tag", "addend"} <=> writer = v
      /\ writer # "none" => Readers = {} /\ accessing = {}
  BY DEF IInv, Locked, TypeOK
<1>2. /\ n \in Nat /\ n <= NumCus /\ k \in Nat /\ IsFiniteSet(accessing)
      /\ Cardinality(VCPU) \in Nat
  BY <1>1, ReadersFinite, AccessorsFinite, FS_CardinalityType, ReadersAssumption
<1>3. Readers' = Readers /\ v_pc' = v_pc
  BY AccessKeeps DEF Readers
<1>4. CASE GlobalAccess(t)
  <2>1. LockToRead /\ t \notin accessing /\ accessing' = accessing \cup {t}
    BY <1>4 DEF GlobalAccess
  <2>2. Cardinality(accessing') = k + 1
    BY <1>2, <2>1, FS_AddElement
  <2>3. accessing' \in SUBSET Accessor
    BY <1>1, <2>1
  <2>4. k + 1 <= Cardinality(VCPU) + 1
    BY <2>2, <2>3, AccessorsFinite
  <2>5. readers' = n + k + 1 /\ writer = "none" /\ writer' = "none"
    <3>1. n + k \in Nat /\ (n + k) + 1 < ReaderWidth
      BY <1>2, <2>4, ReadersAssumption
    <3> HIDE DEF n, k
    <3> QED
      BY <1>1, <1>2, <2>1, <3>1, CountUp
  <2> QED
    BY <1>1, <1>2, <1>3, <2>2, <2>5 DEF Locked
<1>5. CASE LeaveAccess(t)
  <2>1. Unlock /\ t \in accessing /\ accessing' = accessing \ {t} /\ writer = "none"
    BY <1>1, <1>5 DEF LeaveAccess
  <2>2. Cardinality(accessing') = k - 1 /\ k # 0
    BY <1>1, <1>2, <2>1, FS_RemoveElement, AccessorsFinite
  <2>3. readers' = (n + k) - 1 /\ writer' = "none"
    <3> HIDE DEF n, k
    <3> QED
      BY <1>1, <1>2, <2>1, <2>2, CountDown
  <2> QED
    BY <1>1, <1>2, <1>3, <2>1, <2>2, <2>3 DEF Locked
<1>6. CASE Exit
  BY <1>1, <1>3, <1>6 DEF Exit, Locked
<1> QED
  BY <1>4, <1>5, <1>6 DEF AccessStep, GlobalHit, GlobalFault

LEMMA NextLocked ==
  ASSUME IInv, [Next]_vars
  PROVE  Locked'
<1> Locked /\ TypeOK
  BY DEF IInv
<1>0. /\ cu_pc \in [CU -> {"asleep", "kernel"} \cup CopyPcs \cup LookupPcs]
      /\ v_pc \in [VCPU -> {"guest", "lock", "tag", "addend"}]
  BY DEF TypeOK
\* Most steps leave the readers, or both sides of the lock, alone.
<1>1. ASSUME UNCHANGED <<readers, writer, v_pc, accessing>>, Readers' = Readers
      PROVE  Locked'
  BY <1>1 DEF Locked
<1>2. CASE UNCHANGED vars
  BY <1>1, <1>2 DEF vars, Readers
<1>3. CASE Dispatch
  <2>1. Readers' = Readers
    BY <1>0, <1>3 DEF Dispatch, Readers
  <2> QED
    BY <1>1, <1>3, <2>1 DEF Dispatch
<1>4. ASSUME NEW v \in VCPU, Remap(v) PROVE Locked'
  BY <1>0, <1>4 DEF Remap, Locked, Readers
<1>5. ASSUME NEW v \in VCPU, FlushLock(v) PROVE Locked'
  <2>1. Readers = {} /\ accessing = {} /\ Readers' = Readers
    <3>1. Cardinality(Readers) + Cardinality(accessing) = 0
      BY <1>5 DEF FlushLock, CanWrite, Locked
    <3>2. Cardinality(Readers) = 0 /\ Cardinality(accessing) = 0
      BY <3>1, ReadersFinite, AccessorsFinite DEF TypeOK
    <3> QED
      BY <1>5, <3>2, ReadersFinite, AccessorsFinite DEF FlushLock, Readers, TypeOK
  <2> QED
    BY <1>0, <1>5, <2>1 DEF FlushLock, CanWrite, Locked
<1>6. ASSUME NEW v \in VCPU, FlushTag(v) PROVE Locked'
  BY <1>0, <1>6 DEF FlushTag, Locked, Readers
<1>7. ASSUME NEW v \in VCPU, FlushAddend(v) PROVE Locked'
  <2>1. writer = v /\ writer' = "none" /\ readers' = readers
    BY <1>7 DEF FlushAddend, Locked, Unlock
  <2> QED
    BY <1>0, <1>7, <2>1 DEF FlushAddend, Locked, Readers
<1>8. ASSUME NEW c \in CU, CopyTag(c) \/ Finish(c) \/ Miss(c) \/ Fill(c) PROVE Locked'
  <2>1. Readers' = Readers
    BY <1>0, <1>8 DEF CopyTag, Finish, Miss, Fill, CuGoto, Readers
  <2> QED
    BY <1>1, <1>8, <2>1 DEF CopyTag, Finish, Miss, Fill
<1>9. ASSUME NEW c \in CU, CopyAddend(c) PROVE Locked'
  <2>1. (CuGoto(c, "copy_tag") \/ CuGoto(c, "kernel")) /\ cu_pc[c] = "copy_addend"
    BY <1>9 DEF CopyAddend
  <2>2. Readers' = Readers
    BY <1>0, <2>1 DEF CuGoto, Readers
  <2> QED
    BY <1>1, <1>9, <2>2 DEF CopyAddend
<1>10. ASSUME NEW c \in CU, NEW p \in Page, Access(c, p) PROVE Locked'
  BY <1>10, ReaderComes
<1>11. ASSUME NEW c \in CU, Hit(c) PROVE Locked'
  <2>1. CASE Exit
    BY <1>1, <2>1 DEF Exit, Readers
  <2>2. CASE LeaveLookup(c) /\ CuGoto(c, "kernel") /\ UNCHANGED <<accessing, flush>>
    BY <1>11, <2>2, ReaderLeaves DEF Hit
  <2> QED
    BY <1>11, <2>1, <2>2 DEF Hit
<1>12. ASSUME NEW c \in CU, PageFault(c) PROVE Locked'
  BY <1>12, ReaderLeaves DEF PageFault
<1>13. ASSUME NEW t \in Accessor, AccessStep(t) PROVE Locked'
  BY <1>13, AccessLocked
<1> QED
  BY <1>2, <1>3, <1>4, <1>5, <1>6, <1>7, <1>8, <1>9, <1>10, <1>11, <1>12, <1>13
  DEF Next, VcpuStep, CuStep

----------------------------------------------------------------------------
(* What is on the way of a flush *)

\* A slot that is pending stays so until a flush has written both its words.
LEMMA PendingKept ==
  ASSUME TypeOK, NEW v \in VCPU, Remap(v) \/ FlushLock(v) \/ FlushTag(v),
         NEW c \in CU, NEW j \in Slots, Pending(c, j)
  PROVE  Pending(c, j)'
BY DEF Pending, Before, Remap, FlushLock, FlushTag, TypeOK

LEMMA PendingPasses ==
  ASSUME TypeOK, NEW v \in VCPU, FlushAddend(v), NEW c \in CU, NEW j \in Slots,
         c # v_at[v][1] \/ j # v_at[v][2], Pending(c, j)
  PROVE  Pending(c, j)'
<1>1. PICK w \in VCPU : v_pc[w] # "guest" /\ Before(v_at[w], c, j)
  BY DEF Pending
<1>2. CASE w # v
  BY <1>1, <1>2 DEF Pending, FlushAddend, TypeOK
<1>3. CASE w = v
  <2>1. v_at[v] \in CU \X Slots
    BY DEF TypeOK
  <2>2. NextSlot(v_at[v]) # <<0, 0>> /\ Before(NextSlot(v_at[v]), c, j)
    BY <1>1, <1>3, <2>1, NextSlotBefore
  <2>3. v_at'[v] = NextSlot(v_at[v]) /\ v_pc'[v] = "lock"
    BY <2>2 DEF FlushAddend, TypeOK
  <2> QED
    BY <2>2, <2>3 DEF Pending
<1> QED
  BY <1>2, <1>3

\* A flush that begins has everything before it.
LEMMA AllPending ==
  ASSUME TypeOK, Flushing, NEW v \in VCPU, Remap(v), NEW c \in CU, NEW j \in Slots
  PROVE  Pending(c, j)'
<1>1. v_pc'[v] = "lock" /\ v_at'[v] = <<0, 0>>
  BY DEF Remap, Flushing, TypeOK
<1>2. Before(<<0, 0>>, c, j)
  BY DEF Before, CU, Slots
<1> QED
  BY <1>1, <1>2 DEF Pending

\* The slots of a memcpy that has moved on.
LEMMA SettledOn ==
  ASSUME TypeOK, NEW c \in CU, CopyAddend(c)
  PROVE  Settled(c)' = Settled(c) \cup {cu_slot[c]}
<1>1. cu_slot[c] \in Slots /\ cu_pc[c] = "copy_addend"
  BY DEF TypeOK, CopyAddend
<1>2. CASE cu_slot[c] + 1 < TlbSize
  <2>1. cu_slot'[c] = cu_slot[c] + 1 /\ cu_pc'[c] = "copy_tag"
    BY <1>2 DEF CopyAddend, CuGoto, TypeOK
  <2> QED
    BY <1>1, <2>1 DEF Settled, Slots
<1>3. CASE ~(cu_slot[c] + 1 < TlbSize)
  <2>1. cu_pc'[c] = "kernel"
    BY <1>3 DEF CopyAddend, CuGoto, TypeOK
  <2>2. cu_slot[c] = TlbSize - 1
    BY <1>1, <1>3 DEF Slots
  <2> QED
    BY <1>1, <2>1, <2>2 DEF Settled, Slots
<1> QED
  BY <1>2, <1>3

\* The other CUs are where they were.
LEMMA OthersSettled ==
  ASSUME TypeOK, NEW c \in CU, CopyTag(c) \/ CopyAddend(c), NEW d \in CU, d # c
  PROVE  Settled(d)' = Settled(d) /\ cu_pc'[d] = cu_pc[d]
BY DEF Settled, CopyTag, CopyAddend, CuGoto, TypeOK

\* A CU that neither begins nor ends a memcpy.
LEMMA StillSettled ==
  ASSUME TypeOK, NEW c \in CU,
         \/ \E p \in Page : Access(c, p)
         \/ Hit(c) \/ Miss(c) \/ Fill(c) \/ PageFault(c) \/ Finish(c),
         NEW d \in CU
  PROVE  Settled(d)' = Settled(d) /\ (d # c => cu_pc'[d] = cu_pc[d])
BY DEF Settled, Access, Hit, Exit, Miss, Fill, PageFault, Finish, CuGoto, TypeOK

LEMMA NextFlushing ==
  ASSUME IInv, [Next]_vars
  PROVE  Flushing'
<1> TypeOK /\ Flushing /\ Locked /\ Paired /\ Translating
  BY DEF IInv
<1>1. CASE UNCHANGED vars
  BY <1>1 DEF vars, Flushing, Settled, Stale, Pending, CU
<1>2. CASE Dispatch
  <2>1. \A c \in CU : Settled(c)' = {} /\ cu_pc'[c] = "copy_tag"
    BY <1>2 DEF Dispatch, Settled, Slots
  <2> QED
    BY <1>2, <2>1 DEF Dispatch, Flushing
<1>3. ASSUME NEW v \in VCPU, Remap(v) PROVE Flushing'
  <2>1. \A c \in CU : \A j \in Slots : Pending(c, j)'
    BY <1>3, AllPending
  <2>2. \A c \in CU : Settled(c)' \subseteq Slots
    BY DEF Settled
  <2>3. \A c \in CU : cu_pc'[c] = "fill" => Index(cu_page'[c]) \in Slots
    BY <1>3, IndexIsSlot DEF Remap, Translating
  <2>4. \A w \in VCPU : v_pc'[w] = "guest" => v_at'[w] = <<0, 0>>
    BY <1>3 DEF Remap, Flushing, TypeOK
  <2> QED
    BY <1>3, <2>1, <2>2, <2>3, <2>4 DEF Flushing
<1>4. ASSUME NEW v \in VCPU, FlushLock(v) \/ FlushTag(v) PROVE Flushing'
  <2>1. /\ UNCHANGED <<page_table, cu_pc, cu_slot, cu_page, cu_walked, suspect, v_at>>
        /\ \A c \in CU : Settled(c)' = Settled(c)
    BY <1>4 DEF FlushLock, FlushTag, Settled
  <2>2. \A c \in CU : \A j \in Slots : Pending(c, j) => Pending(c, j)'
    BY <1>4, PendingKept
  <2>3. \A c \in CU : \A j \in Slots : Stale(tlb[c][j])' => Stale(tlb[c][j])
    <3>1. CASE FlushLock(v)
      BY <3>1 DEF FlushLock, Stale
    <3>2. CASE FlushTag(v)
      <4>1. PICK b, k : b = v_at[v][1] /\ k = v_at[v][2]
        OBVIOUS
      <4>2. OnlyEntry(tlb, tlb', b, k) /\ tlb'[b][k].addr_read = Invalid
        BY <3>2, <4>1, FieldFlushed DEF FlushTag
      <4> QED
        BY <2>1, <4>2 DEF Stale, OnlyEntry
    <3> QED
      BY <1>4, <3>1, <3>2
  <2>4. \A w \in VCPU : v_pc'[w] = "guest" => v_at'[w] = <<0, 0>>
    BY <1>4 DEF FlushLock, FlushTag, Flushing, TypeOK
  <2>5. \A c \in CU : cu_pc[c] = "fill" => Index(cu_page[c]) \in Slots
    BY IndexIsSlot DEF Translating
  <2>6. \A c \in CU \ suspect : \A j \in Settled(c) : j \in Slots
    BY DEF Settled
  <2> QED
    BY <2>1, <2>2, <2>3, <2>4, <2>5, <2>6 DEF Flushing
<1>5. ASSUME NEW v \in VCPU, FlushAddend(v) PROVE Flushing'
  <2>1. /\ UNCHANGED <<page_table, cu_pc, cu_slot, cu_page, cu_walked, suspect>>
        /\ \A c \in CU : Settled(c)' = Settled(c)
    BY <1>5 DEF FlushAddend, Settled
  <2>2. PICK b, k : b = v_at[v][1] /\ k = v_at[v][2]
    OBVIOUS
  <2>3. /\ b \in CU /\ k \in Slots /\ OnlyEntry(tlb, tlb', b, k)
        /\ tlb'[b][k].addend = Invalid
    BY <1>5, <2>2, FieldFlushed DEF FlushAddend
  <2>4. ASSUME NEW c \in CU \ suspect, NEW j \in Settled(c), Stale(tlb[c][j])'
        PROVE  Pending(c, j)'
    <3>1. j \in Slots
      BY DEF Settled
    <3>2. c # b \/ j # k
      BY <2>3, <2>4 DEF Stale
    <3>3. Stale(tlb[c][j])
      BY <2>1, <2>3, <2>4, <3>1, <3>2 DEF Stale, OnlyEntry
    <3>4. Pending(c, j)
      BY <3>3 DEF Flushing
    <3> QED
      BY <1>5, <2>2, <3>1, <3>2, <3>4, PendingPasses
  <2>5. \A c \in CU : cu_pc[c] # "fill"
    BY <1>5 DEF FlushAddend, Locked, Readers
  <2>6. \A w \in VCPU : v_pc'[w] = "guest" => v_at'[w] = <<0, 0>>
    BY <1>5 DEF FlushAddend, Flushing, TypeOK
  <2> QED
    BY <2>1, <2>4, <2>5, <2>6 DEF Flushing
<1>6. ASSUME NEW c \in CU, CopyTag(c) PROVE Flushing'
  <2>1. cu_slot[c] \in Slots /\ snap[cu_slot[c]].addr_read \in Page \cup {Invalid}
        /\ tlb \in Tables
    BY DEF TypeOK, Entry, Tables
  <2>2. OnlyEntry(tlb, tlb', c, cu_slot[c])
    BY <1>6, <2>1, TagWritten DEF CopyTag
  <2>3. /\ UNCHANGED <<page_table, v_pc, v_at, cu_slot, cu_page, cu_walked>>
        /\ suspect \subseteq suspect' /\ cu_pc'[c] = "copy_addend" /\ cu_pc[c] = "copy_tag"
    BY <1>6 DEF CopyTag, Copied, CuGoto, TypeOK
  <2>4. \A d \in CU : Settled(d)' = Settled(d)
    BY <1>6, <2>3, OthersSettled DEF Settled
  <2>5. \A d \in CU : \A j \in Settled(d) : Stale(tlb[d][j])' => Stale(tlb[d][j])
    <3>1. cu_slot[c] \notin Settled(c)
      BY <2>1, <2>3 DEF Settled, Slots
    <3>2. \A d \in CU : \A j \in Settled(d) : tlb'[d][j] = tlb[d][j]
      BY <2>2, <3>1 DEF OnlyEntry, Settled
    <3> QED
      BY <2>3, <3>2 DEF Stale
  <2>6. \A d \in CU : cu_pc'[d] = "fill" => cu_pc[d] = "fill"
    BY <1>6, <2>3, OthersSettled
  <2>7. \A d \in CU : \A j \in Slots : Pending(d, j) => Pending(d, j)'
    BY <2>3 DEF Pending
  <2>8. \A d, p : Pending(d, Index(p)) => Pending(d, Index(p))'
    BY <2>3 DEF Pending
  <2> QED
    BY <2>3, <2>4, <2>5, <2>6, <2>7, <2>8 DEF Flushing, Settled
<1>7. ASSUME NEW c \in CU, CopyAddend(c) PROVE Flushing'
  <2> DEFINE k == cu_slot[c]
  <2>1. /\ k \in Slots /\ snap[k].addend \in Frame \cup {Invalid} /\ tlb \in Tables
    BY DEF TypeOK, Entry, Tables
  <2>0. tlb' = [tlb EXCEPT ![c][k].addend = snap[k].addend]
    BY <1>7 DEF CopyAddend
  <2> HIDE DEF k
  <2>2. /\ OnlyEntry(tlb, tlb', c, k)
        /\ tlb'[c][k].addr_read = tlb[c][k].addr_read /\ tlb'[c][k].addend = snap[k].addend
    <3>1. OnlyEntry(tlb, tlb', c, k)
      BY <2>1, <2>0, AddendWritten
    <3> QED
      BY <2>1, <2>0, <3>1 DEF Tables, Entry
  <2>3. /\ UNCHANGED <<page_table, v_pc, v_at, cu_page, cu_walked>>
        /\ suspect \subseteq suspect' /\ (Stale(snap[k]) => c \in suspect')
        /\ cu_pc'[c] # "fill" /\ cu_pc[c] = "copy_addend"
    <3>1. CuGoto(c, "copy_tag") \/ CuGoto(c, "kernel")
      BY <1>7 DEF CopyAddend
    <3> QED
      BY <1>7, <3>1 DEF CopyAddend, Copied, CuGoto, TypeOK, k
  <2>4. /\ Settled(c)' = Settled(c) \cup {k}
        /\ \A d \in CU : d # c => Settled(d)' = Settled(d)
    BY <1>7, SettledOn, OthersSettled DEF k
  <2>5. ASSUME NEW d \in CU \ suspect', NEW j \in Settled(d)', Stale(tlb[d][j])'
        PROVE  Pending(d, j)'
    <3>1. d \in CU \ suspect /\ j \in Slots
      BY <2>3, <2>5 DEF Settled
    <3>2. CASE d = c /\ j = k
      <4>1. tlb[c][k].addr_read \in {snap[k].addr_read, Invalid}
        BY <2>3 DEF Paired, k
      <4>2. Stale(snap[k])
        BY <2>2, <2>3, <2>5, <3>2, <4>1 DEF Stale
      <4> QED
        BY <2>3, <2>5, <3>2, <4>2
    <3>3. CASE ~(d = c /\ j = k)
      <4>1. j \in Settled(d) /\ tlb'[d][j] = tlb[d][j]
        BY <2>2, <2>4, <2>5, <3>1, <3>3 DEF OnlyEntry
      <4>2. Pending(d, j)
        BY <2>3, <2>5, <3>1, <4>1 DEF Flushing, Stale
      <4> QED
        BY <2>3, <4>2 DEF Pending
    <3> QED
      BY <3>2, <3>3
  <2>6. \A d \in CU : cu_pc'[d] = "fill" => cu_pc[d] = "fill"
    BY <1>7, <2>3, OthersSettled
  <2>7. \A d, p : Pending(d, Index(p)) => Pending(d, Index(p))'
    BY <2>3 DEF Pending
  <2> QED
    BY <2>3, <2>5, <2>6, <2>7 DEF Flushing
\* The steps of a kernel change one entry at most, and neither the flushes nor the
\* mappings.
<1>8. ASSUME NEW c \in CU,
             (\E p \in Page : Access(c, p)) \/ Hit(c) \/ PageFault(c) \/ Finish(c)
      PROVE  Flushing'
  <2>1. UNCHANGED <<page_table, v_pc, v_at, tlb, suspect, cu_walked>>
    BY <1>8 DEF Access, Hit, Exit, PageFault, Finish
  <2>2. \A d \in CU : Settled(d)' = Settled(d) /\ (d # c => cu_pc'[d] = cu_pc[d])
    BY <1>8, StillSettled
  <2>3. \A d \in CU : cu_pc'[d] = "fill" => cu_pc[d] = "fill" /\ cu_page'[d] = cu_page[d]
    <3>1. cu_pc'[c] # "fill"
      BY <1>8 DEF Access, Hit, Exit, PageFault, Finish, CuGoto, TypeOK
    <3>2. \A d \in CU : d # c => cu_page'[d] = cu_page[d]
      BY <1>8 DEF Access, Hit, Exit, PageFault, Finish, LeaveLookup, TypeOK
    <3> QED
      BY <2>2, <3>1, <3>2
  <2>4. \A d, j : Pending(d, j)' <=> Pending(d, j)
    BY <2>1 DEF Pending
  <2>5. \A d, j : Stale(tlb[d][j])' <=> Stale(tlb[d][j])
    BY <2>1 DEF Stale
  <2> QED
    BY <2>1, <2>2, <2>3, <2>4, <2>5 DEF Flushing
<1>9. ASSUME NEW c \in CU, Miss(c) PROVE Flushing'
  <2>1. /\ UNCHANGED <<page_table, v_pc, v_at, tlb, suspect, cu_page>>
        /\ cu_walked' = [cu_walked EXCEPT ![c] = page_table[cu_page[c]]]
        /\ cu_page[c] \in Page
    BY <1>9 DEF Miss, Translating
  <2>2. \A d \in CU : Settled(d)' = Settled(d) /\ (d # c => cu_pc'[d] = cu_pc[d])
    BY <1>9, <2>1, StillSettled
  <2>3. /\ cu_walked'[c] = page_table[cu_page[c]]
        /\ \A d \in CU : d # c => cu_walked'[d] = cu_walked[d]
    BY <2>1 DEF TypeOK
  <2>4. \A d, j : Pending(d, j)' <=> Pending(d, j)
    BY <2>1 DEF Pending
  <2>5. \A d, j : Stale(tlb[d][j])' <=> Stale(tlb[d][j])
    BY <2>1 DEF Stale
  <2> QED
    BY <2>1, <2>2, <2>3, <2>4, <2>5 DEF Flushing
<1>10. ASSUME NEW c \in CU, Fill(c) PROVE Flushing'
  <2>1. /\ UNCHANGED <<page_table, v_pc, v_at, suspect, cu_page>>
        /\ cu_pc[c] = "fill" /\ cu_page[c] \in Page
        /\ cu_walked' = [cu_walked EXCEPT ![c] = NoFrame]
    BY <1>10 DEF Fill, Translating
  <2>2. \A d \in CU : Settled(d)' = Settled(d) /\ (d # c => cu_pc'[d] = cu_pc[d])
    BY <1>10, <2>1, StillSettled
  <2>3. /\ cu_pc'[c] = "lookup"
        /\ \A d \in CU : d # c => cu_walked'[d] = cu_walked[d]
    BY <1>10, <2>1 DEF Fill, CuGoto, TypeOK
  <2>4. \A d, j : Pending(d, j)' <=> Pending(d, j)
    BY <2>1 DEF Pending
  <2> DEFINE k == Index(cu_page[c])
             e == [addr_read |-> cu_page[c], addend |-> cu_walked[c]]
  <2>5. k \in Slots /\ tlb' = [tlb EXCEPT ![c][k] = e]
    BY <1>10, <2>1, IndexIsSlot DEF Fill
  <2>6. e \in Entry /\ tlb \in Tables
    <3>1. cu_walked[c] \in Frame
      BY <2>1 DEF Paired, TypeOK
    <3> QED
      BY <2>1, <3>1 DEF Entry, TypeOK, Tables
  <2>7. Stale(e) => Pending(c, k)
    BY <2>1 DEF Flushing, Stale
  <2> HIDE DEF k, e
  <2>8. OnlyEntry(tlb, tlb', c, k) /\ tlb'[c][k] = e
    <3>1. OnlyEntry(tlb, tlb', c, k)
      BY <2>5, <2>6, EntryWritten
    <3>2. tlb'[c][k] = e
      BY <2>5, <2>6 DEF Tables
    <3> QED
      BY <3>1, <3>2
  <2>9. ASSUME NEW d \in CU \ suspect, NEW j \in Settled(d), Stale(tlb[d][j])'
        PROVE  Pending(d, j)
    <3>1. CASE d = c /\ j = k
      BY <2>1, <2>7, <2>8, <2>9, <3>1 DEF Stale
    <3>2. CASE ~(d = c /\ j = k)
      <4>1. tlb'[d][j] = tlb[d][j]
        BY <2>8, <3>2 DEF OnlyEntry, Settled
      <4> QED
        BY <2>1, <2>9, <4>1 DEF Flushing, Stale
    <3> QED
      BY <3>1, <3>2
  <2>10. \A w \in VCPU : v_pc'[w] = "guest" => v_at'[w] = <<0, 0>>
    BY <2>1 DEF Flushing
  <2>11. \A d \in CU : cu_pc'[d] = "fill" => /\ cu_pc[d] = "fill"
                                            /\ cu_walked'[d] = cu_walked[d]
    BY <2>2, <2>3
  <2>12. \A d \in CU : cu_pc'[d] = "fill" /\ page_table'[cu_page'[d]] # cu_walked'[d] =>
                          Pending(d, Index(cu_page[d]))'
    BY <2>1, <2>4, <2>11 DEF Flushing
  <2> QED
    BY <2>1, <2>2, <2>4, <2>9, <2>10, <2>12 DEF Flushing
<1>11. ASSUME NEW t \in Accessor, AccessStep(t) PROVE Flushing'
  BY <1>11, AccessKeeps DEF Flushing, Settled, Stale, Pending, CU
<1> QED
  BY <1>1, <1>2, <1>3, <1>4, <1>5, <1>6, <1>7, <1>8, <1>9, <1>10, <1>11
  DEF Next, VcpuStep, CuStep

----------------------------------------------------------------------------
(* The two words of an entry *)

\* At most one virtual CPU is between the two words of an entry.
LEMMA OneInside ==
  ASSUME Locked, NEW v \in VCPU, v_pc[v] \in {"tag", "addend"}, NEW w \in VCPU,
         v_pc[w] = "addend"
  PROVE  w = v
BY DEF Locked

LEMMA FlushPaired ==
  ASSUME IInv, NEW v \in VCPU, FlushTag(v) \/ FlushAddend(v)
  PROVE  Paired'
<1> TypeOK /\ Locked /\ Paired
  BY DEF IInv
<1>1. PICK b, k : b = v_at[v][1] /\ k = v_at[v][2]
  OBVIOUS
<1>2. /\ UNCHANGED <<page_table, cu_pc, cu_slot, cu_page, cu_walked, snap, mapped>>
      /\ overlapped \subseteq overlapped' /\ v_pc[v] \in {"tag", "addend"}
      /\ \A c \in CU : Settled(c)' = Settled(c)
      /\ b \in CU /\ k \in Slots
  BY <1>1, FieldFlushed DEF FlushTag, FlushAddend, FlushField, Settled
<1>3. OnlyEntry(tlb, tlb', b, k)
  BY <1>1, FieldFlushed DEF FlushTag, FlushAddend
\* The entry that was flushed,
<1>4. /\ k \in Settled(b) => Genuine(b, tlb[b][k])'
      /\ tlb'[b][k].addr_read \in {tlb[b][k].addr_read, Invalid}
  <2>1. CASE FlushTag(v)
    <3>1. tlb'[b][k].addr_read = Invalid
      BY <1>1, <2>1, FieldFlushed DEF FlushTag
    <3> QED
      BY <3>1 DEF Genuine
  <2>2. CASE FlushAddend(v)
    <3>1. /\ tlb'[b][k].addr_read = tlb[b][k].addr_read /\ tlb'[b][k].addend = Invalid
          /\ v_pc[v] = "addend"
      BY <1>1, <2>2, FieldFlushed DEF FlushAddend
    <3>2. cu_pc[b] \in CopyPcs => b \in overlapped'
      BY <1>1, <2>2 DEF FlushAddend, FlushField
    <3>3. cu_pc[b] \notin CopyPcs => tlb[b][k].addr_read = Invalid \/ b \in overlapped
      BY <1>1, <3>1 DEF Paired
    <3>4. tlb'[b][k].addr_read = Invalid \/ b \in overlapped'
      BY <1>2, <3>1, <3>2, <3>3
    <3> QED
      BY <3>1, <3>4 DEF Genuine
  <2> QED
    BY <2>1, <2>2
\* and the others.
<1>5. ASSUME NEW c \in CU, NEW j \in Settled(c) PROVE Genuine(c, tlb[c][j])'
  <2>1. CASE c = b /\ j = k
    BY <1>4, <1>5, <2>1
  <2>2. CASE ~(c = b /\ j = k)
    <3>1. tlb'[c][j] = tlb[c][j]
      BY <1>3, <2>2 DEF OnlyEntry, Settled
    <3> QED
      BY <1>2, <2>2, <3>1 DEF Paired, Genuine
  <2> QED
    BY <2>1, <2>2
<1>6. ASSUME NEW w \in VCPU, v_pc'[w] = "addend"
      PROVE  tlb'[v_at'[w][1]][v_at'[w][2]].addr_read = Invalid
  <2>1. CASE FlushTag(v)
    <3>1. w = v
      BY <1>2, <1>6, <2>1, OneInside DEF FlushTag, TypeOK
    <3> QED
      BY <1>1, <2>1, <3>1, FieldFlushed DEF FlushTag
  <2>2. CASE FlushAddend(v)
    <3>1. v_pc'[v] # "addend" /\ (w # v => v_pc'[w] = v_pc[w])
      BY <2>2 DEF FlushAddend, TypeOK
    <3> QED
      BY <1>2, <1>6, <3>1, OneInside
  <2> QED
    BY <2>1, <2>2
<1>7. ASSUME NEW c \in CU, cu_pc[c] = "copy_addend"
      PROVE  tlb'[c][cu_slot[c]].addr_read \in {snap[cu_slot[c]].addr_read, Invalid}
  <2>1. cu_slot[c] \in Slots /\ tlb[c][cu_slot[c]].addr_read \in {snap[cu_slot[c]].addr_read, Invalid}
    BY <1>7 DEF Paired, TypeOK
  <2>2. \/ c = b /\ cu_slot[c] = k
        \/ tlb'[c][cu_slot[c]] = tlb[c][cu_slot[c]]
    BY <1>3, <2>1 DEF OnlyEntry
  <2> QED
    BY <1>4, <2>1, <2>2
<1>8. \A c \in CU : cu_pc'[c] = "fill" => <<cu_page'[c], cu_walked'[c]>> \in mapped'
  BY <1>2 DEF Paired
<1>9. \A j \in Slots : snap'[j] = Empty \/ <<snap'[j].addr_read, snap'[j].addend>> \in mapped'
  BY <1>2 DEF Paired
<1>10. \A p \in Page : page_table'[p] # NoFrame => <<p, page_table'[p]>> \in mapped'
  BY <1>2 DEF Paired
<1> QED
  BY <1>2, <1>5, <1>6, <1>7, <1>8, <1>9, <1>10 DEF Paired

LEMMA CopyPaired ==
  ASSUME IInv, NEW c \in CU, CopyTag(c) \/ CopyAddend(c)
  PROVE  Paired'
<1> TypeOK /\ Paired
  BY DEF IInv
<1> DEFINE k == cu_slot[c]
<1>1. /\ k \in Slots /\ snap[k] \in Entry /\ tlb \in Tables
      /\ snap[k].addr_read \in Page \cup {Invalid} /\ snap[k].addend \in Frame \cup {Invalid}
  BY DEF TypeOK, Entry, Tables
<1>2. /\ UNCHANGED <<page_table, v_pc, v_at, cu_page, cu_walked, snap, mapped>>
      /\ overlapped \subseteq overlapped' /\ (FlushInside(c) => c \in overlapped')
      /\ cu_pc[c] \in CopyPcs /\ cu_pc'[c] # "fill"
  <2>1. \E pc \in {"copy_tag", "copy_addend", "kernel"} : CuGoto(c, pc)
    BY DEF CopyTag, CopyAddend
  <2> QED
    BY <2>1 DEF CopyTag, CopyAddend, Copied, CuGoto, TypeOK
<1>3. \/ CopyTag(c) /\ tlb' = [tlb EXCEPT ![c][k].addr_read = snap[k].addr_read]
      \/ CopyAddend(c) /\ tlb' = [tlb EXCEPT ![c][k].addend = snap[k].addend]
  BY DEF CopyTag, CopyAddend
<1>4. CopyTag(c) => cu_slot' = cu_slot
  BY DEF CopyTag
<1>5. /\ CopyTag(c) => cu_pc[c] = "copy_tag" /\ cu_pc'[c] = "copy_addend"
      /\ CopyAddend(c) => cu_pc[c] = "copy_addend" /\ cu_pc'[c] # "copy_addend"
  <2>1. CopyAddend(c) => CuGoto(c, "copy_tag") \/ CuGoto(c, "kernel")
    BY DEF CopyAddend
  <2> QED
    BY <2>1 DEF CopyTag, CopyAddend, CuGoto, TypeOK
<1>6. OnlyEntry(tlb, tlb', c, k)
  <2> HIDE DEF k
  <2> QED
    BY <1>1, <1>3, TagWritten, AddendWritten
<1>7. /\ CopyTag(c) => tlb'[c][k].addr_read = snap[k].addr_read
      /\ CopyAddend(c) => /\ tlb'[c][k].addr_read = tlb[c][k].addr_read
                          /\ tlb'[c][k].addend = snap[k].addend
  <2> HIDE DEF k
  <2>1. CASE CopyTag(c) /\ tlb' = [tlb EXCEPT ![c][k].addr_read = snap[k].addr_read]
    BY <1>1, <1>5, <2>1 DEF Tables, Entry
  <2>2. CASE CopyAddend(c) /\ tlb' = [tlb EXCEPT ![c][k].addend = snap[k].addend]
    BY <1>1, <1>5, <2>2 DEF Tables, Entry
  <2> QED
    BY <1>3, <1>5, <2>1, <2>2
<1>8. CopyAddend(c) => tlb[c][k].addr_read \in {snap[k].addr_read, Invalid}
  BY <1>5 DEF Paired
<1>9. snap[k] = Empty \/ <<snap[k].addr_read, snap[k].addend>> \in mapped
  BY <1>1 DEF Paired
<1>10. /\ CopyTag(c) => Settled(c)' = Settled(c) /\ k \notin Settled(c)
       /\ CopyAddend(c) => Settled(c)' = Settled(c) \cup {k}
       /\ \A d \in CU : d # c => Settled(d)' = Settled(d) /\ cu_pc'[d] = cu_pc[d]
  <2>1. CopyTag(c) => Settled(c)' = Settled(c) /\ k \notin Settled(c)
    BY <1>1, <1>4, <1>5 DEF Settled, Slots
  <2> QED
    BY <2>1, SettledOn, OthersSettled
<1>11. \A d \in CU : d # c => cu_slot'[d] = cu_slot[d]
  BY DEF CopyTag, CopyAddend, TypeOK
<1> HIDE DEF k
<1>12. ASSUME NEW d \in CU, NEW j \in Settled(d)' PROVE Genuine(d, tlb[d][j])'
  <2>1. CASE d = c /\ j = k
    <3>1. CopyAddend(c)
      BY <1>3, <1>10, <1>12, <2>1
    <3>2. tlb'[c][k].addr_read = Invalid
          \/ <<tlb'[c][k].addr_read, tlb'[c][k].addend>> \in mapped'
      BY <1>2, <1>7, <1>8, <1>9, <3>1 DEF Empty
    <3> QED
      BY <2>1, <3>2 DEF Genuine
  <2>2. CASE ~(d = c /\ j = k)
    <3>1. j \in Settled(d) /\ j \in Slots
      BY <1>3, <1>10, <1>12, <2>2 DEF Settled
    <3>2. tlb'[d][j] = tlb[d][j]
      BY <1>6, <2>2, <3>1 DEF OnlyEntry
    <3> QED
      BY <1>2, <3>1, <3>2 DEF Paired, Genuine
  <2> QED
    BY <2>1, <2>2
<1>13. ASSUME NEW v \in VCPU, v_pc'[v] = "addend", cu_pc'[v_at'[v][1]] \notin CopyPcs
       PROVE  tlb'[v_at'[v][1]][v_at'[v][2]].addr_read = Invalid \/ v_at'[v][1] \in overlapped'
  <2>1. v_at[v][1] \in CU /\ v_at[v][2] \in Slots /\ v_pc[v] = "addend" /\ v_at'[v] = v_at[v]
    BY <1>2, <1>13 DEF TypeOK
  <2>2. CASE v_at[v][1] = c
    BY <1>2, <2>1, <2>2 DEF FlushInside
  <2>3. CASE v_at[v][1] # c
    BY <1>2, <1>6, <1>10, <1>13, <2>1, <2>3 DEF Paired, OnlyEntry
  <2> QED
    BY <2>2, <2>3
<1>14. ASSUME NEW d \in CU, cu_pc'[d] = "copy_addend"
       PROVE  tlb'[d][cu_slot'[d]].addr_read \in {snap'[cu_slot'[d]].addr_read, Invalid}
  <2>1. CASE d = c
    BY <1>2, <1>3, <1>4, <1>5, <1>7, <1>14, <2>1 DEF k
  <2>2. CASE d # c
    BY <1>2, <1>6, <1>10, <1>11, <1>14, <2>2 DEF Paired, OnlyEntry, TypeOK
  <2> QED
    BY <2>1, <2>2
<1>15. \A d \in CU : cu_pc'[d] = "fill" => <<cu_page'[d], cu_walked'[d]>> \in mapped'
  BY <1>2, <1>10 DEF Paired
<1> QED
  BY <1>2, <1>12, <1>13, <1>14, <1>15 DEF Paired
\* A step of a kernel, where the table stays: what a CU walked is what it was
\* or has been mapped.
LEMMA KernelPaired ==
  ASSUME TypeOK, Paired, UNCHANGED <<page_table, v_pc, v_at, tlb, snap, mapped, overlapped>>,
         cu_slot' = cu_slot,
         NEW c \in CU, cu_pc[c] \notin CopyPcs, cu_pc'[c] \notin CopyPcs,
         \A d \in CU : /\ Settled(d)' = Settled(d)
                       /\ d # c => /\ cu_pc'[d] = cu_pc[d] /\ cu_page'[d] = cu_page[d]
                                   /\ cu_walked'[d] = cu_walked[d],
         cu_pc'[c] = "fill" => <<cu_page'[c], cu_walked'[c]>> \in mapped
  PROVE  Paired'
<1>1. \A d \in CU : \A j \in Settled(d)' : Genuine(d, tlb[d][j])'
  BY DEF Paired, Genuine
<1>2. \A d \in CU : /\ cu_pc'[d] \in CopyPcs <=> cu_pc[d] \in CopyPcs
                    /\ cu_pc'[d] = "copy_addend" => cu_pc[d] = "copy_addend"
  OBVIOUS
<1>3. \A v \in VCPU : v_at[v][1] \in CU
  BY DEF TypeOK
<1>4. ASSUME NEW d \in CU, cu_pc'[d] = "fill" PROVE <<cu_page'[d], cu_walked'[d]>> \in mapped'
  BY <1>4 DEF Paired
<1> QED
  BY <1>1, <1>2, <1>3, <1>4 DEF Paired

LEMMA NextPaired ==
  ASSUME IInv, [Next]_vars
  PROVE  Paired'
<1> TypeOK /\ Translating /\ Locked /\ Paired
  BY DEF IInv
<1>1. CASE UNCHANGED vars
  <2>1. \A c \in CU : Settled(c)' = Settled(c)
    BY <1>1 DEF vars, Settled
  <2> QED
    BY <1>1, <2>1 DEF vars, Paired, Genuine
<1>2. CASE Dispatch
  <2>1. \A c \in CU : Settled(c)' = {} /\ cu_pc'[c] = "copy_tag"
    BY <1>2 DEF Dispatch, Settled, Slots
  <2>2. \A j \in Slots : snap'[j] = Empty \/ <<snap'[j].addr_read, snap'[j].addend>> \in mapped'
    <3>1. /\ mapped' = mapped /\ mapped \subseteq Page \X Frame
          /\ snap' \in [Slots -> {Empty} \cup
                          {[addr_read |-> m[1], addend |-> m[2]] : m \in mapped}]
      BY <1>2 DEF Dispatch, TypeOK
    <3>2. ASSUME NEW j \in Slots, snap'[j] # Empty
          PROVE  <<snap'[j].addr_read, snap'[j].addend>> \in mapped
      <4>1. PICK m \in mapped : snap'[j] = [addr_read |-> m[1], addend |-> m[2]]
        BY <3>1, <3>2
      <4>2. m = <<m[1], m[2]>>
        BY <3>1, <4>1
      <4> QED
        BY <4>1, <4>2
    <3> QED
      BY <3>1, <3>2
  <2>3. \A v \in VCPU : v_at'[v][1] \in CU
    BY <1>2 DEF Dispatch, TypeOK
  <2>4. \A p \in Page : page_table'[p] # NoFrame => <<p, page_table'[p]>> \in mapped'
    BY <1>2 DEF Dispatch, Paired
  <2> QED
    BY <2>1, <2>2, <2>3, <2>4 DEF Paired
<1>3. ASSUME NEW v \in VCPU, Remap(v) PROVE Paired'
  <2>1. /\ UNCHANGED <<cu_pc, cu_slot, cu_page, cu_walked, tlb, snap, overlapped, v_at>>
        /\ mapped \subseteq mapped'
        /\ \A w \in VCPU : v_pc'[w] = "addend" => v_pc[w] = "addend"
        /\ \A c \in CU : Settled(c)' = Settled(c)
    BY <1>3 DEF Remap, Settled, TypeOK
  <2>2. PICK p \in Page, f \in Frame \cup {NoFrame} :
          /\ page_table' = [page_table EXCEPT ![p] = f]
          /\ mapped' = mapped \cup ({p} \X ({f} \cap Frame))
    BY <1>3 DEF Remap
  <2>3. \A q \in Page : page_table'[q] # NoFrame => <<q, page_table'[q]>> \in mapped'
    <3>1. \A q \in Page : page_table'[q] = IF q = p THEN f ELSE page_table[q]
      BY <2>2 DEF TypeOK
    <3> QED
      BY <2>2, <3>1 DEF Paired
  <2>4. \A c \in CU : \A j \in Settled(c)' : Genuine(c, tlb[c][j])'
    BY <2>1 DEF Paired, Genuine
  <2> QED
    BY <2>1, <2>3, <2>4 DEF Paired
<1>4. ASSUME NEW v \in VCPU, FlushLock(v) PROVE Paired'
  <2>1. /\ UNCHANGED <<page_table, cu_pc, cu_slot, cu_page, cu_walked, tlb, snap, mapped,
                       overlapped, v_at>>
        /\ \A w \in VCPU : v_pc'[w] = "addend" => v_pc[w] = "addend"
        /\ \A c \in CU : Settled(c)' = Settled(c)
    BY <1>4 DEF FlushLock, Settled, TypeOK
  <2>2. \A c \in CU : \A j \in Settled(c)' : Genuine(c, tlb[c][j])'
    BY <2>1 DEF Paired, Genuine
  <2> QED
    BY <2>1, <2>2 DEF Paired
<1>5. ASSUME NEW v \in VCPU, FlushTag(v) \/ FlushAddend(v) PROVE Paired'
  BY <1>5, FlushPaired
<1>6. ASSUME NEW c \in CU, CopyTag(c) \/ CopyAddend(c) PROVE Paired'
  BY <1>6, CopyPaired
<1>7. ASSUME NEW c \in CU,
             (\E p \in Page : Access(c, p)) \/ Hit(c) \/ PageFault(c) \/ Finish(c)
      PROVE  Paired'
  <2>1. /\ UNCHANGED <<page_table, v_pc, v_at, tlb, snap, mapped, overlapped>>
        /\ UNCHANGED <<cu_slot, cu_walked>>
    BY <1>7 DEF Access, Hit, Exit, PageFault, Finish
  <2>2. \A d \in CU : d # c => cu_pc'[d] = cu_pc[d] /\ cu_page'[d] = cu_page[d]
    BY <1>7 DEF Access, Hit, Exit, PageFault, Finish, LeaveLookup, CuGoto, TypeOK
  <2>3. cu_pc[c] \notin CopyPcs /\ cu_pc'[c] \notin CopyPcs /\ cu_pc'[c] # "fill"
    BY <1>7 DEF Access, Hit, Exit, PageFault, Finish, CuGoto, TypeOK
  <2>4. \A d \in CU : Settled(d)' = Settled(d)
    BY <1>7, StillSettled
  <2> QED
    BY <2>1, <2>2, <2>3, <2>4, KernelPaired
<1>8. ASSUME NEW c \in CU, Miss(c) PROVE Paired'
  <2>1. /\ UNCHANGED <<page_table, v_pc, v_at, tlb, snap, mapped, overlapped>>
        /\ UNCHANGED <<cu_slot, cu_page>>
    BY <1>8 DEF Miss
  <2>2. \A d \in CU : d # c => cu_pc'[d] = cu_pc[d] /\ cu_walked'[d] = cu_walked[d]
    BY <1>8 DEF Miss, CuGoto, TypeOK
  <2>3. cu_pc[c] \notin CopyPcs /\ cu_pc'[c] \notin CopyPcs
    BY <1>8 DEF Miss, CuGoto, TypeOK
  <2>4. \A d \in CU : Settled(d)' = Settled(d)
    BY <1>8, StillSettled
  <2>5. <<cu_page'[c], cu_walked'[c]>> \in mapped
    <3>1. cu_page[c] \in Page /\ cu_walked'[c] = page_table[cu_page[c]]
      BY <1>8 DEF Miss, Translating, TypeOK
    <3> QED
      BY <1>8, <2>1, <3>1 DEF Miss, Paired
  <2> QED
    BY <2>1, <2>2, <2>3, <2>4, <2>5, KernelPaired
<1>9. ASSUME NEW c \in CU, Fill(c) PROVE Paired'
  <2> DEFINE k == Index(cu_page[c])
             e == [addr_read |-> cu_page[c], addend |-> cu_walked[c]]
  <2>1. /\ UNCHANGED <<page_table, v_pc, v_at, cu_slot, cu_page, snap, mapped, overlapped>>
        /\ cu_pc[c] = "fill" /\ cu_pc'[c] = "lookup"
        /\ tlb' = [tlb EXCEPT ![c][k] = e]
    BY <1>9 DEF Fill, CuGoto, TypeOK
  <2>2. cu_page[c] \in Page /\ <<cu_page[c], cu_walked[c]>> \in mapped
    BY <2>1 DEF Translating, Paired
  <2>3. k \in Slots /\ e \in Entry /\ tlb \in Tables
    <3>1. cu_walked[c] \in Frame
      BY <2>2 DEF TypeOK
    <3> QED
      BY <2>2, <3>1, IndexIsSlot DEF Entry, TypeOK, Tables
  <2>4. e.addr_read = cu_page[c] /\ e.addend = cu_walked[c]
    OBVIOUS
  <2>5. \A d \in CU : d # c => cu_pc'[d] = cu_pc[d] /\ cu_walked'[d] = cu_walked[d]
    BY <1>9 DEF Fill, CuGoto, TypeOK
  <2>6. \A d \in CU : Settled(d)' = Settled(d)
    BY <1>9, StillSettled
  <2> HIDE DEF k, e
  <2>7. OnlyEntry(tlb, tlb', c, k)
    BY <2>1, <2>3, EntryWritten
  <2>8. tlb'[c][k] = e
    BY <2>1, <2>3 DEF Tables
  <2>9. ASSUME NEW d \in CU, NEW j \in Settled(d)' PROVE Genuine(d, tlb[d][j])'
    <3>1. CASE d = c /\ j = k
      BY <2>1, <2>2, <2>4, <2>8, <3>1 DEF Genuine
    <3>2. CASE ~(d = c /\ j = k)
      <4>1. j \in Settled(d) /\ tlb'[d][j] = tlb[d][j]
        BY <2>6, <2>7, <2>9, <3>2 DEF OnlyEntry, Settled
      <4> QED
        BY <2>1, <4>1 DEF Paired, Genuine
    <3> QED
      BY <3>1, <3>2
  \* A reader keeps the writers out: nobody is between the words of an entry.
  <2>10. \A v \in VCPU : v_pc'[v] # "addend"
    BY <2>1 DEF Locked, Readers
  <2>11. ASSUME NEW d \in CU, cu_pc'[d] = "copy_addend"
         PROVE  tlb'[d][cu_slot'[d]].addr_read \in {snap'[cu_slot'[d]].addr_read, Invalid}
    <3>1. d # c /\ cu_pc[d] = "copy_addend" /\ cu_slot[d] \in Slots
      BY <2>1, <2>5, <2>11 DEF TypeOK
    <3> QED
      BY <2>1, <2>7, <3>1 DEF Paired, OnlyEntry
  <2>12. \A d \in CU : cu_pc'[d] = "fill" => <<cu_page'[d], cu_walked'[d]>> \in mapped'
    BY <2>1, <2>5 DEF Paired
  <2> QED
    BY <2>1, <2>9, <2>10, <2>11, <2>12 DEF Paired
<1>10. ASSUME NEW t \in Accessor, AccessStep(t) PROVE Paired'
  <2>1. \A c \in CU : Settled(c)' = Settled(c)
    BY <1>10, AccessKeeps DEF Settled
  <2> QED
    BY <1>10, <2>1, AccessKeeps DEF Paired, Genuine
<1> QED
  BY <1>1, <1>2, <1>3, <1>4, <1>5, <1>6, <1>7, <1>8, <1>9, <1>10 DEF Next, VcpuStep, CuStep

----------------------------------------------------------------------------

\* The invariant holds of the TLBs, whatever the order in which the virtual CPUs,
\* the monitor and the compute units use them (pqemu-dev.c:569-630).
THEOREM Invariance == Spec => []IInv
<1>1. IInv /\ [Next]_vars => IInv'
  BY NextTypeOK, NextTranslating, NextLocked, NextFlushing, NextPaired DEF IInv
<1> QED
  BY InitIInv, <1>1, PTL DEF Spec

\* The loops of the flush and of the copy stay in the tables, and the count of
\* readers never wraps round (pqemu-dev.c:605-630, hsa_cu.c:130-137).
THEOREM TypesHold == Spec => []TypeOK
BY Invariance, PTL DEF IInv

\* cutlb_lock counts just the threads inside a translation, the CUs, the monitor
\* and the virtual CPUs, after a hit, a refill and a fault alike, whoever the lock
\* is taken from and for (pqemu-dev.c:260-267,569-630, hsa_agent.c:182).
THEOREM LockIsCountedHolds == Spec => []LockIsCounted
<1>1. IInv => LockIsCounted
  <2> SUFFICES ASSUME IInv PROVE LockIsCounted
    OBVIOUS
  <2>1. /\ readers = Cardinality(Readers) + Cardinality(accessing)
        /\ writer # "none" => Readers = {} /\ accessing = {}
    BY DEF IInv, Locked
  <2>2. writer # "none" => readers = 0
    BY <2>1, FS_EmptySet
  <2> QED
    BY <2>1, <2>2 DEF LockIsCounted, Readers
<1> QED
  BY Invariance, <1>1, PTL

\* After a flush no CU translates by a mapping the guest took back, unless it
\* copied one from an outdated snapshot: a tlb_fill that overlaps the flush is
\* seen by it, although it takes its lock slot by slot (pqemu-dev.c:605-630).
THEOREM FlushIsCompleteHolds == Spec => []FlushIsComplete
<1>1. IInv => FlushIsComplete
  BY DEF IInv, Flushing, Pending, Settled, FlushIsComplete
<1> QED
  BY Invariance, <1>1, PTL

\* A hit gives a frame that was mapped at that very page: the two words of an
\* entry come from one walk, but for a memcpy that met a flush
\* (pqemu-dev.c:569-603,618-626).
THEOREM TranslationIsGenuineHolds == Spec => []TranslationIsGenuine
<1>1. ASSUME IInv, NEW c \in CU, cu_pc[c] = "lookup", Hits(EntryFor(c), cu_page[c])
      PROVE  \/ <<cu_page[c], EntryFor(c).addend>> \in mapped
             \/ c \in overlapped /\ EntryFor(c).addend = Invalid
  <2>1. cu_page[c] \in Page /\ Invalid \notin Page
    BY <1>1 DEF IInv, Translating, Invalid
  <2>2. Index(cu_page[c]) \in Settled(c)
    BY <1>1, <2>1, IndexIsSlot DEF Settled
  <2>3. Genuine(c, EntryFor(c))
    BY <1>1, <2>2 DEF IInv, Paired, EntryFor
  <2> QED
    BY <1>1, <2>1, <2>3 DEF Genuine, Hits
<1>2. IInv => TranslationIsGenuine
  BY <1>1 DEF TranslationIsGenuine
<1> QED
  BY Invariance, <1>2, PTL
=============================================================================
