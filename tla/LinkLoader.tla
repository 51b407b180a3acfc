----------------------------- MODULE LinkLoader -----------------------------
(***************************************************************************)
(* cc_producer: the link loader that relocates the object of a kernel in   *)
(* place.  One pass over the symbol table sizes the memory for variables   *)
(* without a section (SHN_COMMON, or a NOBITS section); the relocations    *)
(* are then patched in order, and each that names such a variable takes    *)
(* memory from that block with a bump allocator; then the kernel's entry   *)
(* is looked up and the block and the tables are freed.                    *)
(*                                                                         *)
(* An object is what this algorithm reads of it: its symbols and its       *)
(* relocations.  Addresses are numbers of any size, of which the code      *)
(* keeps the low IntWidth bits; size_t wraps at SizeWidth.                 *)
(***************************************************************************)
EXTENDS Integers, Sequences, FiniteSets, HsaProcess

CONSTANTS
    Objects,     \* kernel objects: [symbols : Seq(symbol), relocs : Seq(reloc)]
    Zeroed,      \* the image no object was ever loaded into
    Vallocs,     \* the addresses valloc may return, NULL aside
    SizeWidth,   \* 2^w for the width w of size_t
    IntWidth     \* 2^w for the width w of int32_t

\* A symbol of kind "common" or "nobits" is a variable of the given size and
\* alignment; "text" is defined in a section and "helper" is undefined here and
\* in helper_tab, at the given address; "unknown" is in neither; "special" is
\* what get_symety_addr refuses.
Kinds == {"common", "nobits", "text", "helper", "unknown", "special"}
SymbolRecords == [kind : Kinds, size : Nat, align : Nat, addr : Nat]
Variables == {"common", "nobits"}

\* A relocation: the symbol it names, its type and addend, and the address of
\* the place it patches.
Types == {"64", "PC32", "32", "32S", "other"}
Relocations == [sym : Nat, type : Types, addend : Int, site : Nat]

ASSUME ObjectsAssumption ==
    /\ SizeWidth \in Nat \ {0} /\ IntWidth \in Nat \ {0} /\ IntWidth % 2 = 0
    /\ Vallocs \subseteq Nat \ {0}
    /\ \A o \in Objects \cup {Zeroed} :
         /\ o.symbols \in Seq(SymbolRecords) /\ o.relocs \in Seq(Relocations)
         /\ \A k \in DOMAIN o.relocs : o.relocs[k].sym \in DOMAIN o.symbols

VARIABLES
    obj,        \* the object in global_cc.code
    linkPc,     \* "size", "relocate", "lookup" or "idle"
    i,          \* the loop index of the pass
    dataSize,   \* SHNCommonDataSize
    data,       \* elfobj->SHNCommonData, 0 when there is none
    dataPtr,    \* elfobj->SHNCommonDataPtr - elfobj->SHNCommonData
    freeSize,   \* elfobj->SHNCommonDataFreeSize
    (* history variable *)
    patched     \* [addr, value] of each relocation done: the address its symbol
                \* was given, and what was stored in its place

block == <<dataSize, data, dataPtr, freeSize>>
linkVars == <<obj, linkPc, i, block, patched>>

Signed(n) == IF n % IntWidth < IntWidth \div 2 THEN n % IntWidth
             ELSE (n % IntWidth) - IntWidth
Int32 == -(IntWidth \div 2) .. (IntWidth \div 2) - 1

LinkTypeOK ==
    /\ obj \in Objects \cup {Zeroed}
    /\ linkPc \in {"idle", "size", "relocate", "lookup"}
    /\ i \in Nat \ {0}
    /\ linkPc = "size" => i <= Len(obj.symbols) + 1
    /\ linkPc = "relocate" => i <= Len(obj.relocs) + 1
    /\ dataSize \in 0 .. SizeWidth - 1
    /\ data \in Vallocs \cup {0} /\ dataPtr \in Nat
    /\ freeSize \in 0 .. SizeWidth - 1
    /\ patched \in Seq([addr : Nat, value : Int32])

LinkInit ==
    /\ linkPc = "idle" /\ i = 1
    /\ dataSize = 0 /\ data = 0 /\ dataPtr = 0 /\ freeSize = 0
    /\ patched = <<>>

----------------------------------------------------------------------------
(* Shared vocabulary; X_Suffix is a plausible bug in X. *)

Alignment(s) == IF s.kind = "nobits" THEN 16 ELSE s.align

Reserved_NoPadding(s) == s.size
\* What the sizing pass sets aside for a variable.
Reserved(s) == s.size + Alignment(s)

Pad_WholeAlignment(align) == (data + dataPtr) % align
\* The bytes allocateSHNCommonData skips to reach a multiple of align.
Pad(align) == IF (data + dataPtr) % align = 0 THEN 0
              ELSE align - ((data + dataPtr) % align)

NextPtr_NoSize(s) == dataPtr + Pad(Alignment(s))
\* SHNCommonDataPtr after a successful allocation.
NextPtr(s) == dataPtr + Pad(Alignment(s)) + s.size

\* What is left after the padding, in size_t.
Left(s) == (freeSize - Pad(Alignment(s))) % SizeWidth

\* allocateSHNCommonData returns NULL for a variable without size or alignment,
\* and when too little is left; the padding was subtracted before that test.
Available(s) == s.size > 0 /\ Alignment(s) > 0 /\ Left(s) >= s.size

Reloc == obj.relocs[i]
Symbol == obj.symbols[Reloc.sym]

\* get_symety_addr, or find_sym for a helper.
Address == IF Symbol.kind \in Variables THEN data + dataPtr + Pad(Alignment(Symbol))
           ELSE Symbol.addr

\* 0 == S sends a symbol to find_sym, which knows the helpers only; S has been
\* cut to an int by then.
Resolves == Symbol.kind = "helper" \/ Signed(Address) # 0

Stored_FromEnd(type, S, A, P) ==
    Signed(IF type = "PC32" THEN S + A - (P + 4) ELSE S + A)
\* What relocateX86_64 stores, in four bytes whatever the type.
Stored(type, S, A, P) == Signed(IF type = "PC32" THEN S + A - P ELSE S + A)

\* HSA_DEBUG_LOG: the "failed" path of cc_producer is never reached.
LinkFails == HSA_DEBUG_LOG /\ UNCHANGED linkVars

\* The current relocation is done.
Patch ==
    /\ patched' = Append(patched, [addr |-> Address,
                       value |-> Stored(Reloc.type, Signed(Address),
                                        Signed(Reloc.addend), Signed(Reloc.site))])
    /\ i' = i + 1

----------------------------------------------------------------------------

\* cc_producer is called for the object in global_cc.code, again for each
\* dispatch that finds it cached; elfobj is zeroed every time.  Its consistency
\* checks may fail, as they do for a zeroed image.
LinkBegin ==
    /\ linkPc = "idle"
    /\ \/ LinkFails
       \/ /\ obj # Zeroed
          /\ linkPc' = "size" /\ i' = 1
          /\ dataSize' = 0 /\ data' = 0 /\ dataPtr' = 0 /\ freeSize' = 0
          /\ patched' = <<>>
          /\ UNCHANGED <<obj, process>>

\* One symbol of the sizing pass.
Size ==
    /\ linkPc = "size" /\ i <= Len(obj.symbols)
    /\ dataSize' = IF obj.symbols[i].kind \in Variables
                   THEN (dataSize + Reserved(obj.symbols[i])) % SizeWidth
                   ELSE dataSize
    /\ i' = i + 1
    /\ UNCHANGED <<obj, linkPc, data, dataPtr, freeSize, patched, process>>

Allocate_KeepsIndex ==
    /\ linkPc = "size" /\ i > Len(obj.symbols)
    /\ IF dataSize > 0 THEN data' \in Vallocs \cup {0} ELSE data' = 0
    /\ dataPtr' = 0 /\ freeSize' = dataSize
    /\ linkPc' = "relocate"
    /\ UNCHANGED <<obj, i, dataSize, patched, process>>
\* valloc, or no block at all.  A NULL of valloc is not tested for: there is room,
\* at address 0.
Allocate ==
    /\ linkPc = "size" /\ i > Len(obj.symbols)
    /\ IF dataSize > 0 THEN data' \in Vallocs \cup {0} ELSE data' = 0
    /\ dataPtr' = 0 /\ freeSize' = dataSize
    /\ linkPc' = "relocate" /\ i' = 1
    /\ UNCHANGED <<obj, dataSize, patched, process>>

\* A relocation against a variable: get_symety_addr allocates.
RelocateVariable ==
    /\ linkPc = "relocate" /\ i <= Len(obj.relocs) /\ Symbol.kind \in Variables
    /\ Available(Symbol) /\ Resolves /\ Reloc.type # "other"
    /\ dataPtr' = NextPtr(Symbol)
    /\ freeSize' = (Left(Symbol) - Symbol.size) % SizeWidth
    /\ Patch
    /\ UNCHANGED <<obj, linkPc, dataSize, data, process>>

\* A relocation against a section, a function or a helper.
RelocateOther ==
    /\ linkPc = "relocate" /\ i <= Len(obj.relocs)
    /\ Symbol.kind \in {"text", "helper"} /\ Resolves /\ Reloc.type # "other"
    /\ Patch
    /\ UNCHANGED <<obj, linkPc, block, process>>

\* No memory for the variable; a symbol nobody defines, or whose address is
\* taken for none, as that of the first variable is when valloc returned NULL;
\* one that get_symety_addr does not handle; an unknown type.
RelocateFails ==
    /\ linkPc = "relocate" /\ i <= Len(obj.relocs)
    /\ \/ Symbol.kind \in Variables /\ ~Available(Symbol)
       \/ Symbol.kind \in {"unknown", "special"}
       \/ ~Resolves
       \/ Reloc.type = "other"
    /\ LinkFails

RelocateDone_OneShort ==
    /\ linkPc = "relocate" /\ i >= Len(obj.relocs)
    /\ linkPc' = "lookup"
    /\ UNCHANGED <<obj, i, block, patched, process>>
\* The relocation tables are done.
RelocateDone ==
    /\ linkPc = "relocate" /\ i > Len(obj.relocs)
    /\ linkPc' = "lookup"
    /\ UNCHANGED <<obj, i, block, patched, process>>

\* loaderGetSymAddr, and the block and the tables are freed: what the kernel
\* finds in its variables from then on is up to malloc.
LookupFound ==
    /\ linkPc = "lookup" /\ linkPc' = "idle" /\ data' = 0
    /\ UNCHANGED <<obj, i, dataSize, dataPtr, freeSize, patched, process>>

\* There is no such kernel: the caller exits.
LookupFails == linkPc = "lookup" /\ LinkFails

LinkStep ==
    \/ Size \/ Allocate \/ RelocateVariable \/ RelocateOther \/ RelocateFails
    \/ RelocateDone \/ LookupFails

LinkNext == process = "up" /\ (LinkBegin \/ LinkStep \/ LookupFound)

LinkSpec ==
    /\ obj \in Objects /\ LinkInit /\ process = "up"
    /\ [][LinkNext]_<<linkVars, process>>

----------------------------------------------------------------------------
(* Properties *)

SymbolOf(k) == obj.symbols[obj.relocs[k].sym]
\* The relocations done that took memory, and the bytes they were given.
Given == {k \in DOMAIN patched : SymbolOf(k).kind \in Variables}
Block(k) == patched[k].addr .. patched[k].addr + SymbolOf(k).size - 1

\* Every variable is named by at most one relocation.
NamedOnce == \A k, l \in DOMAIN obj.relocs :
    obj.relocs[k].sym = obj.relocs[l].sym /\ SymbolOf(k).kind \in Variables => k = l

\* Two blocks the allocator has given never share a byte, however often a
\* variable is named (hsa_linkloader.c:162-186).
BlocksDisjoint == \A k, l \in Given : k # l => Block(k) \cap Block(l) = {}

\* Every block has the alignment its symbol asks for (hsa_linkloader.c:172-176).
BlocksAligned == \A k \in Given : patched[k].addr % Alignment(SymbolOf(k)) = 0

\* Memory for variables is given out whole: disjoint and aligned blocks
\* (hsa_linkloader.c:162-186).
BlocksSound == BlocksDisjoint /\ BlocksAligned

\* The variables of an object; the bytes that are set aside for some of them; and
\* whether a size_t can count those for all.
Placed == {k \in DOMAIN obj.symbols : obj.symbols[k].kind \in Variables}
Room(S) == UNION {{k} \X (1 .. Reserved(obj.symbols[k])) : k \in S}
RoomFits == Cardinality(Room(Placed)) < SizeWidth

\* The sizing pass is never short of the relocation pass: when every variable is named
\* once, in whatever order, all blocks lie inside the memory that was sized,
\* and the count of what is left never wraps below zero (hsa_linkloader.c:402-445).
SizedEnough ==
    NamedOnce /\ linkPc = "relocate" /\ RoomFits =>
        /\ \A k \in Given : Block(k) \subseteq data .. data + dataSize - 1
        /\ dataPtr + freeSize = dataSize

\* When every variable has a size and an alignment and is named once, the
\* allocator never reports that there is no memory (hsa_linkloader.c:205-208).
NeverShort ==
    (/\ NamedOnce /\ linkPc = "relocate" /\ RoomFits /\ i <= Len(obj.relocs)
     /\ Symbol.kind \in Variables /\ Symbol.size > 0 /\ Alignment(Symbol) > 0)
        => Available(Symbol)

\* The sizing pass and the relocation pass agree, in whatever order they meet the
\* variables, wherever the sum of the sizes does not wrap
\* (hsa_linkloader.c:162-186,402-445).
PassesAgree == SizedEnough /\ NeverShort

\* The address that the processor makes of a stored value: the upper half of a
\* 64-bit place, which the code does not write, is zeros in the object.
Seen(type, value, site) ==
    CASE type = "PC32" -> site + value
      [] type = "32S" -> value
      [] type \in {"64", "32"} -> value % IntWidth
\* Can a place of this type hold an address?  One of 64 bits holds any.
Reaches(type, addr, site) ==
    CASE type = "PC32" -> addr - site \in Int32
      [] type = "32S" -> addr \in Int32
      [] type = "32" -> addr \in 0 .. IntWidth - 1
      [] type = "64" -> addr \in Nat
\* What the four bytes that are stored leave of an address the place can hold: of
\* one above 2^32 in a 64-bit place, the low half.
Kept(type, addr) == IF type = "64" THEN addr % IntWidth ELSE addr

\* In a place of 32 bits that can hold the address of its symbol plus the addend,
\* the processor will see that address: cutting S, A and P to 32 bits each, before
\* they are added, loses nothing that is in reach, on either side of 2^31.  In a
\* place of 64 bits it sees the low half of the address: the right one below
\* 2^32 and, as the code goes wrong there, another one above
\* (hsa_linkloader.c:333,350-374).
RelocationResolves ==
    \A k \in DOMAIN patched :
        LET r == obj.relocs[k]
            target == patched[k].addr + r.addend
        IN  Reaches(r.type, target, r.site) =>
                Seen(r.type, patched[k].value, r.site) = Kept(r.type, target)

\* A variable that does not fit the memory that was sized is reported, "Unable
\* to allocate memory for SHN_COMMON" (hsa_linkloader.c:206,228), and never
\* placed outside of it.
ShortageReported ==
    linkPc = "relocate" =>
        \A k \in Given : Block(k) \subseteq data .. data + dataSize - 1
=============================================================================
