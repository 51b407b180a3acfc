---------------------------- MODULE MCLinkLoader ----------------------------
(* The objects of the TLC instances: up to MaxSymbols symbols and MaxRelocs   *)
(* relocations, in every order, patched at consecutive places of the image.   *)
EXTENDS LinkLoader, SequencesExt

CONSTANTS MaxSymbols, MaxRelocs, Sizes, Aligns

Empty == [symbols |-> <<>>, relocs |-> <<>>]

Place(k) == 64 + (8 * k)
Reference(k, sym, type, addend) ==
    [sym |-> sym, type |-> type, addend |-> addend, site |-> Place(k)]

Variable ==
    [kind : {"common"}, size : Sizes, align : Aligns, addr : {0}]
    \cup [kind : {"nobits"}, size : Sizes, align : {1}, addr : {0}]

\* Variables of all sizes, in every order of relocations.
Named(syms) == [k \in DOMAIN syms |->
    Reference(k, syms[k], <<"64", "PC32", "32S">>[k], <<0, -4, 4>>[k])]
ManyVariables ==
    UNION {[symbols : TupleOf(Variable, n),
            relocs : {Named(s) : s \in BoundedSeq(1 .. n, MaxRelocs)}] :
             n \in 1 .. MaxSymbols}

\* Three variables, each named once.
InEveryOrder ==
    {[symbols |-> syms, relocs |-> Named(s)] :
        syms \in TupleOf(Variable, 3), s \in {t \in TupleOf(1 .. 3, 3) : IsInjective(t)}}

\* One variable and one symbol of another kind, at addresses on both sides of
\* the largest int and of what four bytes hold, with relocations of every type.
Other == [kind : {"text", "helper"}, size : {0}, align : {1}, addr : {80, 200, 256, 300}]
         \cup [kind : {"unknown", "special"}, size : {0}, align : {1}, addr : {0}]
Word == [kind |-> "common", size |-> 4, align |-> 8, addr |-> 0]
MixedKinds ==
    {[symbols |-> <<Word, o>>,
      relocs |-> <<Reference(1, s, t, 0), Reference(2, 3 - s, u, a)>>] :
        o \in Other, s \in {1, 2}, t \in Types, u \in Types, a \in {-4, 4}}

OneVariable ==
    {[symbols |-> <<v>>, relocs |-> Named(s)] :
        v \in Variable, s \in BoundedSeq({1}, MaxRelocs)}
=============================================================================
