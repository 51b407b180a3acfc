-------------------------- MODULE LinkLoaderProofs --------------------------
(***************************************************************************)
(* For any object, of any number of symbols and relocations, and any width *)
(* of the integers: the memory cc_producer gives to variables is disjoint  *)
(* and aligned; the sizing pass sets aside what the relocation pass takes, *)
(* unless the sum wraps; and what is stored in a place of 32 bits makes    *)
(* the processor see the address that was meant, wherever it can hold it,  *)
(* and in one of 64 bits its low half.                                     *)
(***************************************************************************)
EXTENDS LinkLoader, FiniteSetTheorems, SequenceTheorems, TLAPS

----------------------------------------------------------------------------
(* Arithmetic modulo a width *)

\* Cutting a number to an int leaves an int that differs by a multiple of the
\* width (hsa_linkloader.c:351).
LEMMA SignedCuts ==
  ASSUME NEW n \in Int
  PROVE  /\ Signed(n) \in Int32
         /\ \E q \in Int : Signed(n) = n + (q * IntWidth)
<1> DEFINE d == n \div IntWidth
<1>1. /\ n = (IntWidth * d) + (n % IntWidth) /\ n % IntWidth \in 0 .. IntWidth - 1
      /\ d \in Int /\ IntWidth \in Nat \ {0}
  BY ObjectsAssumption
<1>2. IntWidth = 2 * (IntWidth \div 2) /\ IntWidth \div 2 \in Nat
  BY ObjectsAssumption
<1> HIDE DEF d
<1>3. CASE n % IntWidth < IntWidth \div 2
  <2>1. Signed(n) = n + ((-d) * IntWidth)
    BY <1>1, <1>3 DEF Signed
  <2>2. Signed(n) \in Int32 /\ -d \in Int
    BY <1>1, <1>2, <1>3 DEF Signed, Int32
  <2> QED
    BY <2>1, <2>2
<1>4. CASE ~(n % IntWidth < IntWidth \div 2)
  <2>1. Signed(n) = n + ((-d - 1) * IntWidth)
    BY <1>1, <1>4 DEF Signed
  <2>2. Signed(n) \in Int32 /\ -d - 1 \in Int
    BY <1>1, <1>2, <1>4 DEF Signed, Int32
  <2> QED
    BY <2>1, <2>2
<1> QED
  BY <1>3, <1>4

\* Two numbers of a range as wide as the width that differ by a multiple of it
\* are the same.
LEMMA SameResidue ==
  ASSUME NEW w \in Nat \ {0}, NEW low \in Int, NEW q \in Int,
         NEW m \in low .. low + w - 1, NEW n \in low .. low + w - 1, m = n + (q * w)
  PROVE  m = n
<1>1. q * w < w /\ -w < q * w
  OBVIOUS
<1>2. q = 0
  BY <1>1
<1> QED
  BY <1>2

\* The next multiple of w is one.
LEMMA NextMultiple ==
  ASSUME NEW n \in Nat, NEW w \in Nat \ {0}
  PROVE  (n + (w - (n % w))) % w = 0
OBVIOUS

\* The padding leads to a multiple of the alignment (hsa_linkloader.c:172-176).
LEMMA PadAligns ==
  ASSUME data + dataPtr \in Nat, NEW align \in Nat \ {0}
  PROVE  /\ Pad(align) \in Nat
         /\ (data + dataPtr + Pad(align)) % align = 0
<1> DEFINE n == data + dataPtr
<1>1. n \in Nat /\ n % align \in 0 .. align - 1
  OBVIOUS
<1>2. Pad(align) = IF n % align = 0 THEN 0 ELSE align - (n % align)
  BY DEF Pad
<1> HIDE DEF n
<1>3. (n + (align - (n % align))) % align = 0
  BY <1>1, NextMultiple
<1>4. Pad(align) \in Nat /\ (n + Pad(align)) % align = 0
  BY <1>1, <1>2, <1>3
<1> QED
  BY <1>4 DEF n

\* relocateX86_64 cuts S, A and P to an int each before it adds them: what it
\* stores is what cutting the sum would give, for every address a place of 32 bits
\* can hold and for the low half of any other (hsa_linkloader.c:351-374).
LEMMA StoredIsTarget ==
  ASSUME NEW type \in Types \ {"other"}, NEW S \in Int, NEW A \in Int, NEW P \in Int,
         Reaches(type, S + A, P)
  PROVE  Seen(type, Stored(type, Signed(S), Signed(A), Signed(P)), P) = Kept(type, S + A)
<1>1. PICK s \in Int : Signed(S) = S + (s * IntWidth)
  BY SignedCuts
<1>2. PICK a \in Int : Signed(A) = A + (a * IntWidth)
  BY SignedCuts
<1>3. PICK p \in Int : Signed(P) = P + (p * IntWidth)
  BY SignedCuts
<1>4. IntWidth \in Nat \ {0} /\ IntWidth = 2 * (IntWidth \div 2) /\ IntWidth \div 2 \in Nat
  BY ObjectsAssumption
<1>5. Int32 = -(IntWidth \div 2) .. -(IntWidth \div 2) + IntWidth - 1
  BY <1>4 DEF Int32
<1>6. CASE type = "PC32"
  <2> DEFINE n == Signed(S) + Signed(A) - Signed(P)
             v == Signed(n)
  <2>1. n \in Int /\ n = (S + A - P) + ((s + a - p) * IntWidth)
    BY <1>1, <1>2, <1>3, <1>4
  <2>2. v \in Int32 /\ \E q \in Int : v = n + (q * IntWidth)
    BY <2>1, SignedCuts
  <2>3. PICK q \in Int : v = n + (q * IntWidth)
    BY <2>2
  <2> HIDE DEF n, v
  <2>4. v = (S + A - P) + ((q + s + a - p) * IntWidth)
    BY <1>4, <2>1, <2>3
  <2>5. S + A - P \in Int32
    BY <1>6 DEF Reaches
  <2>6. v = S + A - P
    BY <1>4, <1>5, <2>2, <2>4, <2>5, SameResidue
  <2>7. Seen(type, v, P) = P + v
    BY <1>6 DEF Seen
  <2>8. Stored(type, Signed(S), Signed(A), Signed(P)) = v
    BY <1>6 DEF Stored, v, n
  <2> QED
    BY <1>4, <1>6, <2>6, <2>7, <2>8 DEF Kept
<1>7. CASE type # "PC32"
  <2> DEFINE n == Signed(S) + Signed(A)
             v == Signed(n)
  <2>1. n \in Int /\ n = (S + A) + ((s + a) * IntWidth)
    BY <1>1, <1>2, <1>4
  <2>2. v \in Int32 /\ \E q \in Int : v = n + (q * IntWidth)
    BY <2>1, SignedCuts
  <2>3. PICK q \in Int : v = n + (q * IntWidth)
    BY <2>2
  <2>8. Stored(type, Signed(S), Signed(A), Signed(P)) = v
    BY <1>7 DEF Stored
  <2> HIDE DEF n, v
  <2>4. v = (S + A) + ((q + s + a) * IntWidth)
    BY <1>4, <2>1, <2>3
  <2>5. CASE type = "32S"
    <3>1. S + A \in Int32
      BY <2>5 DEF Reaches
    <3>2. v = S + A
      BY <1>4, <1>5, <2>2, <2>4, <3>1, SameResidue
    <3> QED
      BY <2>5, <2>8, <3>2 DEF Seen, Kept
  <2>6. CASE type \in {"64", "32"}
    <3> DEFINE t == S + A
               d == v \div IntWidth
               e == t \div IntWidth
    <3>1. v \in Int /\ t \in Int
      BY <1>4, <2>2 DEF Int32
    <3>2. /\ v = (IntWidth * d) + (v % IntWidth) /\ d \in Int
          /\ v % IntWidth \in 0 .. IntWidth - 1
      BY <1>4, <3>1
    <3>3. /\ t = (IntWidth * e) + (t % IntWidth) /\ e \in Int
          /\ t % IntWidth \in 0 .. IntWidth - 1
      BY <1>4, <3>1
    <3>4. v = t + ((q + s + a) * IntWidth)
      BY <2>4
    <3> HIDE DEF d, e, t
    <3>5. v % IntWidth = (t % IntWidth) + ((q + s + a + e - d) * IntWidth)
      BY <1>4, <3>1, <3>2, <3>3, <3>4
    <3>6. v % IntWidth = t % IntWidth
      <4> DEFINE k == q + s + a + e - d
                 m == v % IntWidth
                 n2 == t % IntWidth
                 low == 0
      <4>1. k \in Int /\ low \in Int /\ m \in low .. low + IntWidth - 1
            /\ n2 \in low .. low + IntWidth - 1
        BY <1>4, <3>2, <3>3
      <4>2. m = n2 + (k * IntWidth)
        BY <3>5
      <4> HIDE DEF k, m, n2, low
      <4>3. m = n2
        BY <1>4, <4>1, <4>2, SameResidue
      <4> QED
        BY <4>3 DEF m, n2
    <3>7. Seen(type, v, P) = t % IntWidth
      BY <2>6, <3>6 DEF Seen
    <3>8. Kept(type, t) = t % IntWidth
      <4>1. CASE type = "64"
        BY <4>1 DEF Kept
      <4>2. CASE type = "32"
        <5>1. t \in 0 .. IntWidth - 1
          BY <4>2 DEF Reaches, t
        <5>2. t % IntWidth = t
          BY <1>4, <5>1
        <5> QED
          BY <4>2, <5>2 DEF Kept
      <4> QED
        BY <2>6, <4>1, <4>2
    <3> QED
      BY <2>8, <3>7, <3>8 DEF t
  <2> QED
    BY <1>7, <2>5, <2>6 DEF Types
<1> QED
  BY <1>6, <1>7

----------------------------------------------------------------------------
(* The inductive invariant *)

\* The relocations done are the first ones of the tables.
Progress ==
    /\ linkPc = "size" => patched = <<>>
    /\ linkPc = "relocate" => Len(patched) = i - 1
    /\ linkPc = "lookup" => Len(patched) = Len(obj.relocs)
    /\ Len(patched) <= Len(obj.relocs)

\* What is stored in their places.
PatchedAs(k, r) ==
    /\ r.type # "other"
    /\ patched[k].value = Stored(r.type, Signed(patched[k].addr), Signed(r.addend),
                                 Signed(r.site))
Values == \A k \in DOMAIN patched : PatchedAs(k, obj.relocs[k])

\* The blocks given lie below the bump pointer, one above the other.
Bump ==
    /\ linkPc = "relocate" =>
         \A k \in Given : patched[k].addr + SymbolOf(k).size <= data + dataPtr
    /\ \A k, l \in Given :
         k < l => patched[k].addr + SymbolOf(k).size <= patched[l].addr
    /\ BlocksAligned

\* The numbers of the variables that took memory.
Taken == {obj.relocs[k].sym : k \in Given}

\* The sizing pass counts the bytes set aside for the variables; the variables
\* that took memory took no more of it than was set aside for them.
Sizing ==
    /\ linkPc = "size" /\ RoomFits => dataSize = Cardinality(Room({k \in Placed : k < i}))
    /\ linkPc = "relocate" /\ RoomFits => dataSize = Cardinality(Room(Placed))
    /\ linkPc = "relocate" => \A k \in Given : data <= patched[k].addr
    /\ linkPc = "relocate" /\ RoomFits /\ NamedOnce =>
         dataPtr <= Cardinality(Room(Taken)) /\ dataPtr + freeSize = dataSize

LinkIInv == LinkTypeOK /\ Progress /\ Values /\ Bump /\ Sizing

LinkAction == LinkBegin \/ LinkStep \/ LookupFound

\* The parts of an object.
LEMMA ObjectParts ==
  ASSUME LinkTypeOK
  PROVE  /\ Len(obj.symbols) \in Nat /\ Len(obj.relocs) \in Nat
         /\ DOMAIN obj.relocs = 1 .. Len(obj.relocs)
         /\ \A k \in 1 .. Len(obj.relocs) : obj.relocs[k] \in Relocations
         /\ \A k \in 1 .. Len(obj.relocs) : obj.symbols[obj.relocs[k].sym] \in SymbolRecords
         /\ \A k \in 1 .. Len(obj.symbols) : obj.symbols[k] \in SymbolRecords
<1>1. /\ obj.symbols \in Seq(SymbolRecords) /\ obj.relocs \in Seq(Relocations)
      /\ \A k \in DOMAIN obj.relocs : obj.relocs[k].sym \in DOMAIN obj.symbols
  BY ObjectsAssumption DEF LinkTypeOK
<1>2. /\ Len(obj.symbols) \in Nat /\ Len(obj.relocs) \in Nat
      /\ DOMAIN obj.relocs = 1 .. Len(obj.relocs)
      /\ DOMAIN obj.symbols = 1 .. Len(obj.symbols)
  BY <1>1, LenProperties
<1>3. \A k \in 1 .. Len(obj.relocs) : obj.relocs[k] \in Relocations
  BY <1>1, ElementOfSeq
<1>4. \A k \in 1 .. Len(obj.symbols) : obj.symbols[k] \in SymbolRecords
  BY <1>1, ElementOfSeq
<1> QED
  BY <1>1, <1>2, <1>3, <1>4

LEMMA PatchedParts ==
  ASSUME LinkTypeOK
  PROVE  /\ Len(patched) \in Nat /\ DOMAIN patched = 1 .. Len(patched)
         /\ \A k \in 1 .. Len(patched) : patched[k].addr \in Nat
<1>1. patched \in Seq([addr : Nat, value : Int32])
  BY DEF LinkTypeOK
<1>2. \A k \in 1 .. Len(patched) : patched[k] \in [addr : Nat, value : Int32]
  BY <1>1, ElementOfSeq
<1> QED
  BY <1>1, <1>2, LenProperties

\* One more relocation done.
LEMMA PatchAppends ==
  ASSUME LinkTypeOK, Patch, Address \in Nat, i <= Len(obj.relocs)
  PROVE  /\ patched' \in Seq([addr : Nat, value : Int32])
         /\ Len(patched') = Len(patched) + 1
         /\ DOMAIN patched' = 1 .. Len(patched) + 1
         /\ \A k \in 1 .. Len(patched) : patched'[k] = patched[k]
         /\ patched'[Len(patched) + 1].addr = Address
         /\ patched'[Len(patched) + 1].value =
              Stored(Reloc.type, Signed(Address), Signed(Reloc.addend), Signed(Reloc.site))
<1> DEFINE e == [addr |-> Address,
                 value |-> Stored(Reloc.type, Signed(Address), Signed(Reloc.addend),
                                  Signed(Reloc.site))]
           T == [addr : Nat, value : Int32]
<1>1. Reloc \in Relocations
  BY ObjectParts DEF Reloc, LinkTypeOK
<1>2. /\ Signed(Address) \in Int /\ Signed(Reloc.addend) \in Int /\ Signed(Reloc.site) \in Int
  BY <1>1, SignedCuts, ObjectsAssumption DEF Relocations, Int32
<1>3. e.value \in Int32
  <2>1. \A type, s, a, p : s \in Int /\ a \in Int /\ p \in Int =>
          Stored(type, s, a, p) \in Int32
    BY SignedCuts DEF Stored
  <2> QED
    BY <1>2, <2>1
<1>4. e \in T /\ e.addr = Address
  BY <1>3
<1>5. patched \in Seq(T) /\ patched' = Append(patched, e)
  BY DEF LinkTypeOK, Patch
<1> HIDE DEF e, T
<1>6. patched' \in Seq(T) /\ Len(patched') = Len(patched) + 1
  BY <1>4, <1>5, AppendProperties
<1>7. \A k \in 1 .. Len(patched) : patched'[k] = patched[k]
  BY <1>4, <1>5, AppendProperties
<1>8. patched'[Len(patched) + 1] = e
  BY <1>4, <1>5, AppendProperties
<1>9. DOMAIN patched' = 1 .. Len(patched) + 1
  BY <1>6, LenProperties
<1> QED
  BY <1>4, <1>6, <1>7, <1>8, <1>9 DEF e, T

----------------------------------------------------------------------------
(* The steps, one lemma for each part of the invariant *)

LEMMA InitLinkIInv == obj \in Objects \cup {Zeroed} /\ LinkInit => LinkIInv
<1> SUFFICES ASSUME obj \in Objects \cup {Zeroed}, LinkInit PROVE LinkIInv
  OBVIOUS
<1>1. patched = <<>> /\ patched \in Seq([addr : Nat, value : Int32]) /\ Len(patched) = 0
  BY EmptySeq DEF LinkInit
<1>2. LinkTypeOK
  BY <1>1, ObjectsAssumption DEF LinkInit, LinkTypeOK
<1>3. Progress
  BY <1>1, <1>2, ObjectParts DEF LinkInit, Progress
<1>4. DOMAIN patched = {}
  BY <1>1
<1> QED
  BY <1>2, <1>3, <1>4 DEF LinkIInv, Values, Bump, Given, BlocksAligned, Sizing, LinkInit

\* The address a relocation finds: of a variable, above all blocks given and
\* with the alignment it asks for.
LEMMA AddressOf ==
  ASSUME LinkIInv, i <= Len(obj.relocs)
  PROVE  /\ Reloc \in Relocations /\ Symbol \in SymbolRecords
         /\ RelocateOther => Address \in Nat
         /\ RelocateVariable => /\ Address \in Nat /\ Address >= data + dataPtr
                                /\ Address % Alignment(Symbol) = 0
                                /\ NextPtr(Symbol) = (Address - data) + Symbol.size
                                /\ NextPtr(Symbol) \in Nat
<1>1. LinkTypeOK /\ i \in 1 .. Len(obj.relocs)
  BY ObjectParts DEF LinkIInv, LinkTypeOK
<1>2. Reloc \in Relocations /\ Symbol \in SymbolRecords
  BY <1>1, ObjectParts DEF Reloc, Symbol
<1>3. data \in Nat /\ dataPtr \in Nat
  BY <1>1, ObjectsAssumption DEF LinkTypeOK
<1>4. ASSUME RelocateOther PROVE Address \in Nat
  BY <1>2, <1>4 DEF RelocateOther, Address, Variables, SymbolRecords
<1>5. ASSUME RelocateVariable
      PROVE  /\ Address \in Nat /\ Address >= data + dataPtr
             /\ Address % Alignment(Symbol) = 0
             /\ NextPtr(Symbol) = (Address - data) + Symbol.size
             /\ NextPtr(Symbol) \in Nat
  <2>1. Alignment(Symbol) \in Nat \ {0} /\ Symbol.size \in Nat
    BY <1>2, <1>5 DEF RelocateVariable, Available, Alignment, SymbolRecords
  <2>2. /\ Pad(Alignment(Symbol)) \in Nat
        /\ (data + dataPtr + Pad(Alignment(Symbol))) % Alignment(Symbol) = 0
    BY <1>3, <2>1, PadAligns
  <2>3. Address = data + dataPtr + Pad(Alignment(Symbol))
    BY <1>5 DEF RelocateVariable, Address
  <2>4. NextPtr(Symbol) = dataPtr + Pad(Alignment(Symbol)) + Symbol.size
    BY DEF NextPtr
  <2> QED
    BY <1>3, <2>1, <2>2, <2>3, <2>4
<1> QED
  BY <1>2, <1>4, <1>5

LEMMA LinkTypes ==
  ASSUME LinkIInv, LinkAction
  PROVE  LinkTypeOK'
<1> USE ObjectsAssumption DEF LinkIInv, LinkAction
<1>0. Len(obj.symbols) \in Nat /\ Len(obj.relocs) \in Nat /\ SizeWidth \in Nat \ {0}
  BY ObjectParts
<1>1. CASE LinkFails
  BY <1>1 DEF LinkFails, linkVars, block, LinkTypeOK
<1>2. CASE LinkBegin
  <2>1. <<>> \in Seq([addr : Nat, value : Int32])
    BY EmptySeq
  <2>2. CASE /\ linkPc' = "size" /\ i' = 1
             /\ dataSize' = 0 /\ data' = 0 /\ dataPtr' = 0 /\ freeSize' = 0
             /\ patched' = <<>> /\ UNCHANGED obj
    BY <1>0, <2>1, <2>2 DEF LinkTypeOK
  <2> QED
    BY <1>1, <1>2, <2>2 DEF LinkBegin
<1>3. CASE Size
  <2>1. obj.symbols[i] \in SymbolRecords
    BY <1>3, ObjectParts DEF Size, LinkTypeOK
  <2>2. Reserved(obj.symbols[i]) \in Nat
    BY <2>1 DEF Reserved, Alignment, SymbolRecords
  <2>3. dataSize' \in 0 .. SizeWidth - 1
    <3>1. dataSize \in Nat /\ dataSize \in 0 .. SizeWidth - 1
      BY <1>0 DEF LinkTypeOK
    <3>2. (dataSize + Reserved(obj.symbols[i])) % SizeWidth \in 0 .. SizeWidth - 1
      BY <1>0, <2>2, <3>1
    <3> QED
      BY <1>3, <3>1, <3>2 DEF Size
  <2> QED
    BY <1>0, <1>3, <2>3 DEF Size, LinkTypeOK
<1>4. CASE Allocate
  BY <1>0, <1>4 DEF Allocate, LinkTypeOK
<1>5. CASE RelocateVariable
  <2>1. Address \in Nat /\ NextPtr(Symbol) \in Nat /\ Reloc \in Relocations
        /\ Symbol \in SymbolRecords
    BY <1>5, AddressOf DEF RelocateVariable
  <2>2. patched' \in Seq([addr : Nat, value : Int32])
    BY <1>5, <2>1, PatchAppends DEF RelocateVariable
  <2>3. freeSize' \in 0 .. SizeWidth - 1
    <3>0. Alignment(Symbol) \in Nat \ {0}
      BY <1>5, <2>1 DEF RelocateVariable, Available, Alignment, SymbolRecords
    <3>1. Pad(Alignment(Symbol)) \in Nat
      <4>1. data + dataPtr \in Nat
        BY DEF LinkTypeOK
      <4> QED
        BY <3>0, <4>1, PadAligns
    <3>2. Left(Symbol) \in Nat
      BY <1>0, <3>1 DEF Left, LinkTypeOK
    <3> QED
      BY <1>0, <1>5, <2>1, <3>2 DEF RelocateVariable, SymbolRecords
  <2> QED
    BY <1>0, <1>5, <2>1, <2>2, <2>3 DEF RelocateVariable, Patch, LinkTypeOK
<1>6. CASE RelocateOther
  <2>1. patched' \in Seq([addr : Nat, value : Int32])
    BY <1>6, AddressOf, PatchAppends DEF RelocateOther
  <2> QED
    BY <1>0, <1>6, <2>1 DEF RelocateOther, Patch, block, LinkTypeOK
<1>7. CASE RelocateDone
  BY <1>7 DEF RelocateDone, block, LinkTypeOK
<1>8. CASE LookupFound
  BY <1>8 DEF LookupFound, LinkTypeOK
<1> QED
  BY <1>1, <1>2, <1>3, <1>4, <1>5, <1>6, <1>7, <1>8
  DEF LinkStep, RelocateFails, LookupFails

LEMMA LinkProgress ==
  ASSUME LinkIInv, LinkAction
  PROVE  Progress'
<1> USE DEF LinkIInv, LinkAction, Progress
<1>0. /\ Len(obj.symbols) \in Nat /\ Len(obj.relocs) \in Nat
      /\ Len(patched) \in Nat /\ i \in Nat \ {0} /\ Len(<<>>) = 0
      /\ linkPc = "relocate" => i <= Len(obj.relocs) + 1
  BY ObjectParts, PatchedParts DEF LinkTypeOK
<1>1. CASE LinkFails
  BY <1>1 DEF LinkFails, linkVars
<1>2. CASE LinkBegin
  BY <1>0, <1>1, <1>2 DEF LinkBegin
<1>3. CASE Size \/ Allocate \/ LookupFound
  BY <1>0, <1>3 DEF Size, Allocate, LookupFound
<1>4. CASE RelocateVariable \/ RelocateOther
  <2>1. /\ Patch /\ Address \in Nat /\ i <= Len(obj.relocs)
        /\ linkPc = "relocate" /\ UNCHANGED <<linkPc, obj>>
    BY <1>4, AddressOf DEF RelocateVariable, RelocateOther
  <2>2. Len(patched') = Len(patched) + 1
    BY <2>1, PatchAppends
  <2> QED
    BY <1>0, <2>1, <2>2 DEF Patch
<1>5. CASE RelocateDone
  BY <1>0, <1>5 DEF RelocateDone
<1> QED
  BY <1>1, <1>2, <1>3, <1>4, <1>5 DEF LinkStep, RelocateFails, LookupFails

\* A relocation done keeps what the ones before it stored.
LEMMA LinkValues ==
  ASSUME LinkIInv, LinkAction
  PROVE  Values'
<1> USE DEF LinkIInv, LinkAction, Values, PatchedAs
<1>1. CASE LinkFails
  BY <1>1 DEF LinkFails, linkVars
<1>2. CASE LinkBegin
  BY <1>1, <1>2 DEF LinkBegin
<1>3. CASE Size \/ Allocate \/ LookupFound \/ RelocateDone
  BY <1>3 DEF Size, Allocate, LookupFound, RelocateDone
<1>4. CASE RelocateVariable \/ RelocateOther
  <2>1. /\ Patch /\ Address \in Nat /\ i <= Len(obj.relocs)
        /\ linkPc = "relocate" /\ UNCHANGED obj /\ Reloc.type # "other"
    BY <1>4, AddressOf DEF RelocateVariable, RelocateOther
  <2>2. /\ DOMAIN patched' = 1 .. Len(patched) + 1
        /\ \A k \in 1 .. Len(patched) : patched'[k] = patched[k]
        /\ patched'[Len(patched) + 1].addr = Address
        /\ patched'[Len(patched) + 1].value =
              Stored(Reloc.type, Signed(Address), Signed(Reloc.addend), Signed(Reloc.site))
    BY <2>1, PatchAppends
  <2>3. Len(patched) = i - 1 /\ i \in Nat \ {0} /\ DOMAIN patched = 1 .. Len(patched)
    BY <2>1, PatchedParts DEF Progress, LinkTypeOK
  <2>4. ASSUME NEW k \in DOMAIN patched'
        PROVE  /\ obj.relocs[k].type # "other"
               /\ patched'[k].value = Stored(obj.relocs[k].type, Signed(patched'[k].addr),
                              Signed(obj.relocs[k].addend), Signed(obj.relocs[k].site))
    <3>1. k \in DOMAIN patched \/ k = i
      BY <2>2, <2>3
    <3>2. CASE k \in DOMAIN patched
      BY <2>2, <2>3, <3>2
    <3>3. CASE k = i
      BY <2>1, <2>2, <2>3, <3>3 DEF Reloc
    <3> QED
      BY <3>1, <3>2, <3>3
  <2> QED
    BY <2>1, <2>4
<1> QED
  BY <1>1, <1>2, <1>3, <1>4 DEF LinkStep, RelocateFails, LookupFails

\* A relocation done keeps the blocks given before it, and the block it gives
\* itself is above them.
LEMMA LinkBump ==
  ASSUME LinkIInv, LinkAction
  PROVE  Bump'
<1> USE DEF LinkIInv, LinkAction
<1>1. CASE LinkFails
  BY <1>1 DEF LinkFails, linkVars, block, Bump, Given, SymbolOf, BlocksAligned
<1>2. CASE LinkBegin
  BY <1>1, <1>2 DEF LinkBegin, Bump, Given, SymbolOf, BlocksAligned
<1>3. CASE Size \/ Allocate
  BY <1>3 DEF Size, Allocate, Bump, Given, SymbolOf, BlocksAligned, Progress
<1>4. CASE LookupFound \/ RelocateDone
  BY <1>4 DEF LookupFound, RelocateDone, block, Bump, Given, SymbolOf, BlocksAligned
<1>5. CASE RelocateVariable \/ RelocateOther
  <2>1. /\ Patch /\ Address \in Nat /\ i <= Len(obj.relocs)
        /\ linkPc = "relocate" /\ UNCHANGED <<linkPc, obj, data>>
    BY <1>5, AddressOf DEF RelocateVariable, RelocateOther, block
  <2>2. /\ DOMAIN patched' = 1 .. Len(patched) + 1
        /\ \A k \in 1 .. Len(patched) : patched'[k] = patched[k]
        /\ patched'[Len(patched) + 1].addr = Address
    BY <2>1, PatchAppends
  <2>3. /\ Len(patched) = i - 1 /\ i \in Nat \ {0} /\ DOMAIN patched = 1 .. Len(patched)
        /\ \A k \in 1 .. Len(patched) : patched[k].addr \in Nat
        /\ data \in Nat /\ dataPtr \in Nat
    BY <2>1, PatchedParts, ObjectsAssumption DEF Progress, LinkTypeOK
  <2>4. \A k : SymbolOf(k)' = SymbolOf(k)
    BY <2>1 DEF SymbolOf
  <2>5. \A k \in Given : SymbolOf(k).size \in Nat
    <3>1. \A k \in Given : k \in 1 .. Len(obj.relocs)
      BY <2>1, <2>3, ObjectParts DEF Given
    <3>2. \A k \in Given : SymbolOf(k) \in SymbolRecords
      BY <3>1, ObjectParts DEF SymbolOf
    <3> QED
      BY <3>2 DEF SymbolRecords
  <2>6. CASE RelocateVariable
    <3>1. /\ Address >= data + dataPtr /\ Address % Alignment(Symbol) = 0
          /\ dataPtr' = (Address - data) + Symbol.size /\ Symbol.size \in Nat
      BY <2>1, <2>6, AddressOf DEF RelocateVariable, SymbolRecords
    <3>2. SymbolOf(i) = Symbol
      BY DEF SymbolOf, Symbol, Reloc
    <3>3. Given' = Given \cup {i} /\ \A k \in Given : k < i /\ patched[k].addr \in Nat
      BY <2>1, <2>2, <2>3, <2>4, <2>6, <3>2 DEF Given, RelocateVariable
    <3>4. /\ patched'[i].addr = Address
          /\ \A k \in Given : patched'[k].addr = patched[k].addr
      BY <2>2, <2>3 DEF Given
    <3>5. \A k \in Given' : patched'[k].addr + SymbolOf(k).size <= data + dataPtr'
      <4>1. \A k \in Given : patched[k].addr + SymbolOf(k).size <= data + dataPtr
        BY <2>1 DEF Bump
      <4>2. Address \in Nat /\ data + dataPtr' = Address + Symbol.size
        BY <2>1, <2>3, <3>1
      <4>3. ASSUME NEW k \in Given
            PROVE  patched'[k].addr + SymbolOf(k).size <= data + dataPtr'
        <5>1. /\ patched'[k].addr = patched[k].addr /\ patched[k].addr \in Nat
              /\ SymbolOf(k).size \in Nat /\ data + dataPtr <= Address
              /\ patched[k].addr + SymbolOf(k).size <= data + dataPtr
          BY <2>5, <3>1, <3>3, <3>4, <4>1
        <5>2. data + dataPtr \in Nat /\ Address \in Nat /\ Symbol.size \in Nat
          BY <2>3, <3>1, <4>2
        <5>3. patched[k].addr + SymbolOf(k).size <= Address + Symbol.size
          BY <5>1, <5>2
        <5> QED
          BY <4>2, <5>1, <5>3
      <4> QED
        BY <3>1, <3>2, <3>3, <3>4, <4>2, <4>3
    <3>6. \A k, l \in Given' :
            k < l => patched'[k].addr + SymbolOf(k).size <= patched'[l].addr
      <4>1. \A k \in Given : patched[k].addr + SymbolOf(k).size <= Address
        BY <2>1, <2>3, <2>5, <3>1, <3>3 DEF Bump
      <4>2. \A k \in Given' : k # i => k \in Given /\ k < i
        BY <3>3
      <4>3. i \in Nat /\ \A k \in Given : ~(i < k)
        BY <2>3, <3>3 DEF Given
      <4> QED
        BY <3>3, <3>4, <4>1, <4>2, <4>3 DEF Bump
    <3>7. \A k \in Given' : patched'[k].addr % Alignment(SymbolOf(k)) = 0
      BY <3>1, <3>2, <3>3, <3>4 DEF Bump, BlocksAligned
    <3>8. BlocksAligned'
      BY <2>4, <3>7 DEF BlocksAligned
    <3> QED
      BY <2>1, <2>4, <3>5, <3>6, <3>8 DEF Bump
  <2>7. CASE RelocateOther
    <3>1. SymbolOf(i) = Symbol /\ dataPtr' = dataPtr
      BY <2>7 DEF SymbolOf, Symbol, Reloc, RelocateOther, block
    <3>2. Given' = Given
      BY <2>1, <2>2, <2>3, <2>4, <2>7, <3>1 DEF Given, RelocateOther, Variables
    <3>3. \A k \in Given : patched'[k].addr = patched[k].addr
      BY <2>2, <2>3 DEF Given
    <3> QED
      BY <2>1, <2>4, <3>1, <3>2, <3>3 DEF Bump, BlocksAligned
  <2> QED
    BY <1>5, <2>6, <2>7
<1> QED
  BY <1>1, <1>2, <1>3, <1>4, <1>5 DEF LinkStep, RelocateFails, LookupFails

----------------------------------------------------------------------------
(* The bytes set aside *)

\* Where a symbol is a variable, and what is set aside for it.
LEMMA PlacedParts ==
  ASSUME LinkTypeOK
  PROVE  /\ Placed \in SUBSET (1 .. Len(obj.symbols)) /\ IsFiniteSet(Placed)
         /\ \A k \in Placed : Reserved(obj.symbols[k]) \in Nat
<1>1. /\ Len(obj.symbols) \in Nat /\ DOMAIN obj.symbols = 1 .. Len(obj.symbols)
      /\ \A k \in 1 .. Len(obj.symbols) : obj.symbols[k] \in SymbolRecords
  <2>1. obj.symbols \in Seq(SymbolRecords)
    BY ObjectsAssumption DEF LinkTypeOK
  <2> QED
    BY <2>1, ObjectParts, LenProperties
<1>2. Placed \in SUBSET (1 .. Len(obj.symbols))
  BY <1>1 DEF Placed
<1>3. IsFiniteSet(1 .. Len(obj.symbols))
  <2>1. Len(obj.symbols) \in Int /\ 1 \in Int
    BY <1>1
  <2> QED
    BY <2>1, FS_Interval
<1>4. IsFiniteSet(Placed)
  BY <1>2, <1>3, FS_Subset
<1>5. \A k \in Placed : Reserved(obj.symbols[k]) \in Nat
  BY <1>1, <1>2 DEF Reserved, Alignment, SymbolRecords
<1> QED
  BY <1>2, <1>4, <1>5

\* What is set aside for some variables can be counted.
LEMMA RoomFinite ==
  ASSUME LinkTypeOK, NEW S \in SUBSET Placed
  PROVE  IsFiniteSet(Room(S)) /\ Cardinality(Room(S)) \in Nat
<1> DEFINE Part == [k \in S |-> {k} \X (1 .. Reserved(obj.symbols[k]))]
           Parts == {{k} \X (1 .. Reserved(obj.symbols[k])) : k \in S}
<1>1. IsFiniteSet(S)
  BY PlacedParts, FS_Subset
<1>2. Part \in Surjection(S, Parts)
  BY DEF Surjection
<1>3. IsFiniteSet(Parts)
  BY <1>1, <1>2, FS_Surjection
<1>4. ASSUME NEW k \in S PROVE IsFiniteSet({k} \X (1 .. Reserved(obj.symbols[k])))
  <2>1. Reserved(obj.symbols[k]) \in Int
    BY PlacedParts
  <2>2. IsFiniteSet(1 .. Reserved(obj.symbols[k]))
    BY <2>1, FS_Interval
  <2>3. IsFiniteSet({k})
    BY FS_Singleton
  <2> QED
    BY <2>2, <2>3, FS_Product
<1>5. IsFiniteSet(UNION Parts)
  BY <1>3, <1>4, FS_UNION
<1> QED
  BY <1>5, FS_CardinalityType DEF Room

\* One more variable, and all of them.
LEMMA RoomAdds ==
  ASSUME LinkTypeOK, NEW S \in SUBSET Placed, NEW k \in Placed \ S
  PROVE  /\ Cardinality(Room(S \cup {k})) = Cardinality(Room(S)) + Reserved(obj.symbols[k])
         /\ Cardinality(Room(S \cup {k})) <= Cardinality(Room(Placed))
<1> DEFINE n == Reserved(obj.symbols[k])
           B == {k} \X (1 .. n)
           R == Room(S)
<1>1. Room(S \cup {k}) = R \cup B /\ R \cap B = {}
  BY DEF Room
<1>2. n \in Nat
  BY PlacedParts
<1> HIDE DEF n
<1>3. IsFiniteSet(1 .. n) /\ Cardinality(1 .. n) = n
  <2>1. IsFiniteSet(1 .. n)
    BY <1>2, FS_Interval
  <2>2. Cardinality(1 .. n) = IF 1 > n THEN 0 ELSE n - 1 + 1
    BY <1>2, FS_Interval
  <2> QED
    BY <1>2, <2>1, <2>2
<1>4. IsFiniteSet(B) /\ Cardinality(B) = n
  <2>1. IsFiniteSet({k}) /\ Cardinality({k}) = 1
    BY FS_Singleton
  <2>2. IsFiniteSet(B) /\ Cardinality(B) = 1 * Cardinality(1 .. n)
    BY <1>3, <2>1, FS_Product
  <2> QED
    BY <1>2, <1>3, <2>2
<1>5. IsFiniteSet(R) /\ Cardinality(R) \in Nat
  BY RoomFinite
<1>6. Cardinality({}) = 0
  BY FS_EmptySet
<1>7. Room(S \cup {k}) \subseteq Room(Placed) /\ IsFiniteSet(Room(Placed))
  BY RoomFinite DEF Room
<1>8. Cardinality(Room(S \cup {k})) <= Cardinality(Room(Placed))
  BY <1>7, FS_Subset
<1> HIDE DEF R, B
<1>9. Cardinality(R \cup B) = Cardinality(R) + Cardinality(B) - Cardinality(R \cap B)
  BY <1>4, <1>5, FS_Union
<1>10. Cardinality(R \cup B) = Cardinality(R) + n
  <2>1. R \cap B = {}
    BY <1>1
  <2>2. Cardinality(R \cap B) = 0
    BY <2>1, <1>6
  <2> QED
    BY <1>2, <1>4, <1>5, <1>9, <2>2
<1> QED
  BY <1>1, <1>8, <1>10 DEF R, n

\* A number that needs no cutting.
LEMMA NoWrap ==
  ASSUME NEW n \in 0 .. SizeWidth - 1
  PROVE  n % SizeWidth = n
BY ObjectsAssumption

\* Where the passes agree there is memory for the variable, and what is left is
\* what was left less the padding and the size.
LEMMA RoomForNext ==
  ASSUME LinkIInv, linkPc = "relocate", i <= Len(obj.relocs), Symbol.kind \in Variables,
         RoomFits, NamedOnce, Alignment(Symbol) > 0
  PROVE  /\ Taken \in SUBSET Placed /\ Reloc.sym \in Placed \ Taken
         /\ Left(Symbol) = freeSize - Pad(Alignment(Symbol))
         /\ Left(Symbol) >= Symbol.size /\ Left(Symbol) \in 0 .. SizeWidth - 1
         /\ NextPtr(Symbol) <= Cardinality(Room(Taken \cup {Reloc.sym}))
<1>1. LinkTypeOK /\ Progress /\ Sizing
  BY DEF LinkIInv
<1>2. /\ i \in 1 .. Len(obj.relocs) /\ Len(obj.relocs) \in Nat /\ i \in Nat
      /\ DOMAIN patched = 1 .. i - 1 /\ DOMAIN obj.relocs = 1 .. Len(obj.relocs)
  BY <1>1, ObjectParts, PatchedParts DEF LinkTypeOK, Progress
<1>3. \A k \in 1 .. Len(obj.relocs) : obj.relocs[k].sym \in DOMAIN obj.symbols
  BY <1>1, <1>2, ObjectsAssumption DEF LinkTypeOK
<1>4. Taken \in SUBSET Placed
  BY <1>2, <1>3 DEF Taken, Given, Placed, SymbolOf
<1>5. Reloc.sym \in Placed
  BY <1>2, <1>3 DEF Placed, Reloc, Symbol
<1>6. Reloc.sym \notin Taken
  <2> SUFFICES ASSUME NEW k \in Given, obj.relocs[k].sym = obj.relocs[i].sym
               PROVE  FALSE
    BY DEF Taken, Reloc
  <2>1. k \in 1 .. i - 1 /\ k \in DOMAIN obj.relocs /\ i \in DOMAIN obj.relocs
        /\ SymbolOf(k).kind \in Variables
    BY <1>2 DEF Given
  <2>2. k = i
    BY <2>1 DEF NamedOnce
  <2> QED
    BY <1>2, <2>1, <2>2
<1> DEFINE a == Alignment(Symbol)
           p == Pad(Alignment(Symbol))
           s == Symbol.size
           r == Reserved(Symbol)
           c == Cardinality(Room(Taken))
           C == Cardinality(Room(Placed))
<1>7. /\ Symbol \in SymbolRecords /\ data \in Nat /\ dataPtr \in Nat
      /\ SizeWidth \in Nat \ {0} /\ freeSize \in Nat
  <2>1. SizeWidth \in Nat \ {0} /\ Vallocs \subseteq Nat
    BY ObjectsAssumption
  <2>2. data \in Nat /\ dataPtr \in Nat /\ freeSize \in 0 .. SizeWidth - 1
    BY <1>1, <2>1 DEF LinkTypeOK
  <2>3. Symbol \in SymbolRecords
    BY <1>1, <1>2, <2>2, AddressOf
  <2> QED
    BY <2>1, <2>2, <2>3
<1>8. a \in Nat \ {0} /\ s \in Nat /\ r = s + a
  BY <1>7 DEF Alignment, SymbolRecords, Reserved
<1>9. p \in Nat /\ p < a
  <2>1. (data + dataPtr) % Alignment(Symbol) \in 0 .. Alignment(Symbol) - 1
    BY <1>7, <1>8
  <2> QED
    BY <1>8, <2>1 DEF Pad
<1>10. Symbol = obj.symbols[Reloc.sym]
  BY DEF Symbol
<1>11. /\ Cardinality(Room(Taken \cup {Reloc.sym})) = c + r
       /\ Cardinality(Room(Taken \cup {Reloc.sym})) <= C
       /\ c \in Nat /\ C \in Nat /\ C < SizeWidth
  BY <1>1, <1>4, <1>5, <1>6, <1>10, RoomAdds, RoomFinite DEF RoomFits
<1>12. dataSize = C /\ dataPtr <= c /\ dataPtr + freeSize = dataSize
  BY <1>1 DEF Sizing
<1>13. NextPtr(Symbol) = dataPtr + p + s /\ Left(Symbol) = (freeSize - p) % SizeWidth
  BY DEF NextPtr, Left
<1> HIDE DEF a, p, s, r, c, C
<1>14. freeSize - p \in 0 .. SizeWidth - 1 /\ freeSize - p >= s
  BY <1>7, <1>8, <1>9, <1>11, <1>12
<1>15. Left(Symbol) = freeSize - p
  BY <1>13, <1>14, NoWrap
<1>16. dataPtr + p + s <= c + r
  BY <1>7, <1>8, <1>9, <1>11, <1>12
<1> QED
  BY <1>4, <1>5, <1>6, <1>11, <1>13, <1>14, <1>15, <1>16 DEF p, s

LEMMA LinkSizing ==
  ASSUME LinkIInv, LinkAction
  PROVE  Sizing'
<1> USE DEF LinkIInv, LinkAction
<1>0. LinkTypeOK /\ Progress /\ Sizing /\ SizeWidth \in Nat \ {0}
  BY ObjectsAssumption
<1>1. CASE LinkFails
  BY <1>1 DEF LinkFails, linkVars, block, Sizing, Given, SymbolOf, Taken, Room, RoomFits, Placed, NamedOnce
<1>2. CASE LinkBegin
  <2>1. CASE linkPc' = "size" /\ i' = 1 /\ dataSize' = 0 /\ obj' = obj
    <3>1. Placed' = Placed /\ \A S : Room(S)' = Room(S)
      BY <2>1 DEF Placed, Room
    <3>2. {k \in Placed : k < 1} = {}
      BY PlacedParts
    <3>3. Room({}) = {} /\ Cardinality({}) = 0
      BY FS_EmptySet DEF Room
    <3>4. Room({k \in Placed : k < i})' = Room({k \in Placed : k < 1})
      BY <2>1, <3>1 DEF Room
    <3> QED
      BY <2>1, <3>2, <3>3, <3>4 DEF Sizing
  <2> QED
    BY <1>1, <1>2, <2>1 DEF LinkBegin
<1>3. CASE Size
  <2>1. /\ linkPc = "size" /\ linkPc' = "size" /\ i' = i + 1 /\ obj' = obj
        /\ i \in 1 .. Len(obj.symbols)
        /\ dataSize' = IF obj.symbols[i].kind \in Variables
                       THEN (dataSize + Reserved(obj.symbols[i])) % SizeWidth
                       ELSE dataSize
    BY <1>0, <1>3, ObjectParts DEF Size, LinkTypeOK
  <2> SUFFICES ASSUME RoomFits' PROVE dataSize' = Cardinality(Room({k \in Placed : k < i})')
    BY <2>1 DEF Sizing
  <2> DEFINE S == {k \in Placed : k < i}
             T == {k \in Placed : k < i + 1}
  <2>2. Room({k \in Placed : k < i})' = Room(T) /\ RoomFits
    BY <2>1 DEF Placed, Room, RoomFits
  <2>3. dataSize = Cardinality(Room(S))
    BY <1>0, <2>1, <2>2 DEF Sizing
  <2>4. Placed \in SUBSET (1 .. Len(obj.symbols)) /\ Len(obj.symbols) \in Nat
    BY <1>0, PlacedParts, ObjectParts
  <2>5. CASE i \in Placed
    <3>1. T = S \cup {i} /\ i \notin S /\ S \in SUBSET Placed
      BY <2>1, <2>4, <2>5
    <3> HIDE DEF S, T
    <3>2. /\ Cardinality(Room(T)) = Cardinality(Room(S)) + Reserved(obj.symbols[i])
          /\ Cardinality(Room(T)) <= Cardinality(Room(Placed))
      BY <1>0, <2>5, <3>1, RoomAdds
    <3>3. Cardinality(Room(T)) \in Nat /\ Cardinality(Room(Placed)) \in Nat
      <4>1. T \in SUBSET Placed
        BY <2>5, <3>1
      <4> QED
        BY <1>0, <4>1, RoomFinite
    <3>4. Cardinality(Room(T)) \in 0 .. SizeWidth - 1
      BY <1>0, <2>2, <3>2, <3>3 DEF RoomFits
    <3>5. dataSize' = Cardinality(Room(T)) % SizeWidth
      BY <2>1, <2>3, <2>5, <3>2 DEF Placed
    <3> QED
      BY <2>2, <3>4, <3>5, NoWrap
  <2>6. CASE i \notin Placed
    <3>1. T = S
      <4>1. i \in Int /\ \A k \in Placed : k \in Int /\ k # i
        BY <2>1, <2>4, <2>6
      <4>2. \A k \in Placed : k < i + 1 <=> k < i
        BY <4>1
      <4> QED
        BY <4>2
    <3>2. dataSize' = dataSize
      <4>1. i \in DOMAIN obj.symbols
        BY <1>0, <2>1, ObjectsAssumption, LenProperties DEF LinkTypeOK
      <4> QED
        BY <2>1, <2>6, <4>1 DEF Placed
    <3> QED
      BY <2>2, <2>3, <3>1, <3>2
  <2> QED
    BY <2>5, <2>6
<1>4. CASE Allocate
  <2>1. /\ linkPc = "size" /\ linkPc' = "relocate" /\ obj' = obj /\ i > Len(obj.symbols)
        /\ dataPtr' = 0 /\ freeSize' = dataSize /\ dataSize' = dataSize
        /\ patched' = <<>> /\ dataSize \in Nat
    BY <1>0, <1>4 DEF Allocate, Progress, LinkTypeOK
  <2>2. Given' = {} /\ Taken' = {}
    BY <2>1 DEF Given, Taken
  <2>3. Placed' = Placed /\ Room(Placed)' = Room(Placed) /\ (RoomFits' <=> RoomFits)
    BY <2>1 DEF Placed, Room, RoomFits
  <2>4. {k \in Placed : k < i} = Placed
    BY <1>0, <2>1, PlacedParts, ObjectParts DEF LinkTypeOK
  <2>5. RoomFits => dataSize = Cardinality(Room(Placed))
    BY <1>0, <2>1, <2>4 DEF Sizing
  <2>6. Room(Taken)' = {} /\ Cardinality({}) = 0
    BY <2>2, FS_EmptySet DEF Room
  <2>7. RoomFits' => dataSize' = Cardinality(Room(Placed))'
    BY <2>1, <2>3, <2>5
  <2>8. dataPtr' <= Cardinality(Room(Taken))' /\ dataPtr' + freeSize' = dataSize'
    BY <2>1, <2>6
  <2>9. \A k \in Given' : data' <= patched'[k].addr
    BY <2>2
  <2> QED
    BY <2>1, <2>7, <2>8, <2>9 DEF Sizing
<1>5. CASE LookupFound \/ RelocateDone
  BY <1>5 DEF LookupFound, RelocateDone, Sizing
<1>6. CASE RelocateVariable \/ RelocateOther
  <2>1. /\ Patch /\ Address \in Nat /\ i <= Len(obj.relocs)
        /\ linkPc = "relocate" /\ UNCHANGED <<linkPc, obj, data, dataSize>>
    BY <1>6, AddressOf DEF RelocateVariable, RelocateOther, block
  <2>2. /\ DOMAIN patched' = 1 .. Len(patched) + 1
        /\ \A k \in 1 .. Len(patched) : patched'[k] = patched[k]
        /\ patched'[Len(patched) + 1].addr = Address
    BY <1>0, <2>1, PatchAppends
  <2>3. Len(patched) = i - 1 /\ i \in Nat \ {0} /\ DOMAIN patched = 1 .. Len(patched)
    BY <1>0, <2>1, PatchedParts DEF Progress, LinkTypeOK
  <2>4. /\ \A k : SymbolOf(k)' = SymbolOf(k)
        /\ Placed' = Placed /\ Room(Placed)' = Room(Placed) /\ \A S : Room(S)' = Room(S)
        /\ (RoomFits' <=> RoomFits) /\ (NamedOnce' <=> NamedOnce)
    BY <2>1 DEF SymbolOf, Placed, Room, RoomFits, NamedOnce
  <2>5. SymbolOf(i) = Symbol
    BY DEF SymbolOf, Symbol, Reloc
  <2>6. RoomFits' => dataSize' = Cardinality(Room(Placed))'
    BY <1>0, <2>1, <2>4 DEF Sizing
  <2>7. CASE RelocateVariable
    <3>1. Given' = Given \cup {i} /\ \A k \in Given : patched'[k].addr = patched[k].addr
      BY <2>1, <2>2, <2>3, <2>4, <2>5, <2>7 DEF Given, RelocateVariable
    <3>2. \A k \in Given' : data <= patched'[k].addr
      <4>1. data <= Address
        <5>1. Address >= data + dataPtr /\ data \in Nat /\ dataPtr \in Nat
          BY <1>0, <2>1, <2>7, AddressOf, ObjectsAssumption DEF LinkTypeOK
        <5> QED
          BY <2>1, <5>1
      <4> QED
        BY <1>0, <2>1, <2>2, <2>3, <3>1, <4>1 DEF Sizing
    <3>3. Taken' = Taken \cup {Reloc.sym}
      BY <2>1, <3>1 DEF Taken, Reloc
    <3>4. ASSUME RoomFits, NamedOnce
          PROVE  /\ dataPtr' <= Cardinality(Room(Taken \cup {Reloc.sym}))
                 /\ dataPtr' + freeSize' = dataSize
      <4>1. /\ Left(Symbol) = freeSize - Pad(Alignment(Symbol))
            /\ Left(Symbol) >= Symbol.size /\ Left(Symbol) \in 0 .. SizeWidth - 1
            /\ NextPtr(Symbol) <= Cardinality(Room(Taken \cup {Reloc.sym}))
        BY <2>1, <2>7, <3>4, RoomForNext DEF RelocateVariable, Available
      <4>2. /\ dataPtr' = NextPtr(Symbol) /\ NextPtr(Symbol) = dataPtr + Pad(Alignment(Symbol)) + Symbol.size
            /\ freeSize' = (Left(Symbol) - Symbol.size) % SizeWidth
        BY <2>7 DEF RelocateVariable, NextPtr
      <4>3. Symbol.size \in Nat /\ dataPtr \in Nat /\ freeSize \in Nat
        BY <1>0, <2>1, AddressOf DEF SymbolRecords, LinkTypeOK
      <4> DEFINE l == Left(Symbol)
                 p == Pad(Alignment(Symbol))
                 s == Symbol.size
      <4>4. l = freeSize - p /\ l >= s /\ l \in 0 .. SizeWidth - 1 /\ s \in Nat
        BY <4>1, <4>3
      <4>5. p \in Int
        <5>1. Symbol \in SymbolRecords
          BY <1>0, <2>1, AddressOf
        <5>2. Alignment(Symbol) \in Nat
          BY <5>1 DEF SymbolRecords, Alignment
        <5>3. Alignment(Symbol) \in Nat \ {0}
          BY <2>7, <5>2 DEF RelocateVariable, Available
        <5>4. data + dataPtr \in Nat
          <6>1. data \in Nat /\ dataPtr \in Nat
            BY <1>0, ObjectsAssumption DEF LinkTypeOK
          <6> QED
            BY <6>1
        <5> QED
          BY <5>3, <5>4, PadAligns
      <4> HIDE DEF l, p, s
      <4>6. l - s \in 0 .. SizeWidth - 1
        BY <1>0, <4>4
      <4>7. freeSize' = l - s
        BY <4>2, <4>6, NoWrap DEF l, s
      <4>8. dataPtr' = dataPtr + p + s
        BY <4>2 DEF p, s
      <4>9. dataPtr + freeSize = dataSize
        BY <1>0, <2>1, <3>4 DEF Sizing
      <4>10. dataPtr' + freeSize' = dataSize
        BY <4>3, <4>4, <4>5, <4>7, <4>8, <4>9
      <4> QED
        BY <4>1, <4>2, <4>10
    <3> QED
      BY <2>1, <2>4, <2>6, <3>2, <3>3, <3>4 DEF Sizing
  <2>8. CASE RelocateOther
    <3>1. dataPtr' = dataPtr /\ freeSize' = freeSize
      BY <2>8 DEF RelocateOther, block
    <3>2. Given' = Given /\ \A k \in Given : patched'[k].addr = patched[k].addr
      BY <2>1, <2>2, <2>3, <2>4, <2>5, <2>8 DEF Given, RelocateOther, Variables
    <3>3. Taken' = Taken
      BY <2>1, <3>2 DEF Taken
    <3> QED
      BY <1>0, <2>1, <2>4, <2>6, <3>1, <3>2, <3>3 DEF Sizing
  <2> QED
    BY <1>6, <2>7, <2>8
<1> QED
  BY <1>1, <1>2, <1>3, <1>4, <1>5, <1>6 DEF LinkStep, RelocateFails, LookupFails

\* What holds of an object while it is linked, in any state of the rest.
LEMMA LinkIInvStep == LinkIInv /\ [LinkAction]_linkVars => LinkIInv'
<1>1. CASE UNCHANGED linkVars
  BY <1>1 DEF linkVars, block, LinkIInv, LinkTypeOK, Progress, Values, PatchedAs, Bump,
              Given, SymbolOf, BlocksAligned, Sizing, Taken, Room, RoomFits, Placed, NamedOnce
<1> QED
  BY <1>1, LinkTypes, LinkProgress, LinkValues, LinkBump, LinkSizing DEF LinkIInv

----------------------------------------------------------------------------
(* What the invariant means *)

\* The blocks are disjoint and aligned.
LEMMA BlocksFromBump ==
  ASSUME LinkIInv
  PROVE  BlocksSound
<1>1. ASSUME NEW k \in Given, NEW l \in Given, k < l
      PROVE  Block(k) \cap Block(l) = {}
  <2>1. patched[k].addr + SymbolOf(k).size <= patched[l].addr
    BY <1>1 DEF LinkIInv, Bump
  <2>2. /\ patched[k].addr \in Nat /\ patched[l].addr \in Nat
        /\ SymbolOf(k) \in SymbolRecords /\ SymbolOf(l) \in SymbolRecords
    <3>1. k \in 1 .. Len(patched) /\ l \in 1 .. Len(patched) /\ Len(patched) \in Nat
      BY PatchedParts DEF LinkIInv, Given
    <3>2. k \in 1 .. Len(obj.relocs) /\ l \in 1 .. Len(obj.relocs)
      BY <3>1, ObjectParts DEF LinkIInv, Progress
    <3> QED
      BY <3>1, <3>2, PatchedParts, ObjectParts DEF LinkIInv, SymbolOf
  <2>3. SymbolOf(k).size \in Nat /\ SymbolOf(l).size \in Nat
    BY <2>2 DEF SymbolRecords
  <2> QED
    BY <2>1, <2>2, <2>3 DEF Block
<1>2. ASSUME NEW k \in Given, NEW l \in Given, k # l
      PROVE  Block(k) \cap Block(l) = {}
  <2>1. k \in Nat /\ l \in Nat
    BY PatchedParts DEF LinkIInv, Given
  <2>2. k < l \/ l < k
    BY <1>2, <2>1
  <2> QED
    BY <1>1, <2>2
<1> QED
  BY <1>2 DEF BlocksSound, BlocksDisjoint, LinkIInv, Bump

\* There is enough memory, and no block is outside of it.
LEMMA AgreeFromSizing ==
  ASSUME LinkIInv
  PROVE  PassesAgree
<1>1. SizedEnough
  <2> SUFFICES ASSUME NamedOnce, linkPc = "relocate", RoomFits
               PROVE  /\ \A k \in Given : Block(k) \subseteq data .. data + dataSize - 1
                      /\ dataPtr + freeSize = dataSize
    BY DEF SizedEnough
  <2>1. dataPtr + freeSize = dataSize
    BY DEF LinkIInv, Sizing
  <2>2. data \in Nat /\ dataPtr \in Nat /\ freeSize \in Nat /\ dataSize \in Nat
    BY ObjectsAssumption DEF LinkIInv, LinkTypeOK
  <2>3. ASSUME NEW k \in Given PROVE Block(k) \subseteq data .. data + dataSize - 1
    <3>1. patched[k].addr + SymbolOf(k).size <= data + dataPtr /\ data <= patched[k].addr
      BY DEF LinkIInv, Bump, Sizing
    <3>2. patched[k].addr \in Nat /\ SymbolOf(k).size \in Nat
      <4>1. k \in 1 .. Len(patched) /\ Len(patched) \in Nat
        BY PatchedParts DEF LinkIInv, Given
      <4>2. k \in 1 .. Len(obj.relocs)
        BY <4>1, ObjectParts DEF LinkIInv, Progress
      <4> QED
        BY <4>1, <4>2, PatchedParts, ObjectParts DEF LinkIInv, SymbolOf, SymbolRecords
    <3> QED
      BY <2>1, <2>2, <3>1, <3>2 DEF Block
  <2> QED
    BY <2>1, <2>3
<1>2. NeverShort
  <2> SUFFICES ASSUME NamedOnce, linkPc = "relocate", RoomFits, i <= Len(obj.relocs),
                      Symbol.kind \in Variables, Symbol.size > 0, Alignment(Symbol) > 0
               PROVE  Available(Symbol)
    BY DEF NeverShort
  <2> QED
    BY RoomForNext DEF Available
<1> QED
  BY <1>1, <1>2 DEF PassesAgree

\* The processor sees what is kept of the address that was meant.
LEMMA ResolvesFromValues ==
  ASSUME LinkIInv
  PROVE  RelocationResolves
<1> SUFFICES ASSUME NEW k \in DOMAIN patched,
                    Reaches(obj.relocs[k].type, patched[k].addr + obj.relocs[k].addend,
                            obj.relocs[k].site)
             PROVE  Seen(obj.relocs[k].type, patched[k].value, obj.relocs[k].site)
                      = Kept(obj.relocs[k].type, patched[k].addr + obj.relocs[k].addend)
  BY DEF RelocationResolves
<1> DEFINE r == obj.relocs[k]
<1>1. k \in 1 .. Len(patched) /\ patched[k].addr \in Nat
  BY PatchedParts DEF LinkIInv
<1>2. r \in Relocations
  BY <1>1, PatchedParts, ObjectParts DEF LinkIInv, Progress
<1>3. /\ r.type \in Types \ {"other"} /\ r.addend \in Int /\ r.site \in Int
      /\ patched[k].value =
           Stored(r.type, Signed(patched[k].addr), Signed(r.addend), Signed(r.site))
  BY <1>2 DEF LinkIInv, Values, PatchedAs, Relocations
<1> QED
  BY <1>1, <1>3, StoredIsTarget

----------------------------------------------------------------------------

\* The invariant holds of both passes over an object (hsa_linkloader.c:402-490).
THEOREM LinkInvariance == LinkSpec => []LinkIInv
<1>1. ASSUME obj \in Objects /\ LinkInit PROVE LinkIInv
  BY <1>1, InitLinkIInv
<1>2. LinkIInv /\ [LinkNext]_<<linkVars, process>> => LinkIInv'
  BY LinkIInvStep DEF LinkNext, LinkAction
<1> QED
  BY <1>1, <1>2, PTL DEF LinkSpec

\* The types of the link loader's state: every counter stays within its width
\* (hsa_linkloader.c:162-186,402-445).
THEOREM LinkTypesHold == LinkSpec => []LinkTypeOK
<1>1. LinkIInv => LinkTypeOK
  BY DEF LinkIInv
<1> QED
  BY <1>1, LinkInvariance, PTL

\* However many variables an object has and however often its relocations name
\* them, their blocks are disjoint and aligned (hsa_linkloader.c:162-186).
THEOREM BlocksSoundHolds == LinkSpec => []BlocksSound
  BY BlocksFromBump, LinkInvariance, PTL

\* Where each variable is named once and the sum of their sizes does not wrap, the
\* sizing pass sets aside what the relocation pass takes
\* (hsa_linkloader.c:162-186,402-445).
THEOREM PassesAgreeHolds == LinkSpec => []PassesAgree
  BY AgreeFromSizing, LinkInvariance, PTL

\* For every width of int, every address and every place: cutting S, A and P to 32
\* bits each loses nothing where a place of 32 bits can hold the address, and in a
\* place of 64 bits just the upper half (hsa_linkloader.c:333,350-374).
THEOREM RelocationResolvesHolds == LinkSpec => []RelocationResolves
  BY ResolvesFromValues, LinkInvariance, PTL
=============================================================================
