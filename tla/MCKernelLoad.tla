---------------------------- MODULE MCKernelLoad ----------------------------
(* TLC instance of the loading of kernels: three dispatches of two BRIGs, of  *)
(* which the converter makes objects of every shape.                          *)
EXTENDS MCLinkLoader, KernelLoad

CONSTANTS d1, d2, d3, b1, b2

Dispatches == {d1, d2, d3}
Kernel == [d \in Dispatches |-> IF d = d3 THEN b2 ELSE b1]
\* d1 and d2 name two kernels of one BRIG.
Names == [d \in Dispatches |-> IF d = d2 THEN "other" ELSE "main"]
KernargPages == [d \in Dispatches |-> CASE d = d1 -> 0 [] d = d2 -> 1 [] d = d3 -> 2]
Lengths == [b \in {b1, b2} |-> IF b = b1 THEN 1 ELSE 2]

\* A hash of mixed contents is that of no BRIG.
Apart == [c \in UNION {[1 .. n -> ({b1, b2} \X (1 .. 2)) \cup {None}] : n \in 1 .. 2} |->
             CASE c = <<<<b1, 1>>>> -> 1
               [] c = <<<<b2, 1>>, <<b2, 2>>>> -> 2
               [] OTHER -> 3]

\* One object of each kind in turn with the other BRIG's; and every object, with
\* a second BRIG that cannot be converted.
Small == [symbols |-> <<Word>>, relocs |-> <<Reference(1, 1, "32", 0)>>]
AllObjects == ManyVariables \cup InEveryOrder \cup MixedKinds \cup {Small}
Pairs == {[b \in {b1, b2} |-> IF b = b1 THEN o ELSE Small] : o \in MixedKinds}
Alone == {[b \in {b1, b2} |-> IF b = b1 THEN o ELSE Empty] : o \in AllObjects}
BothWays == Pairs \cup Alone
=============================================================================
