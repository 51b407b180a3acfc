------------------------ MODULE KernelHelpersProofs ------------------------
(***************************************************************************)
(* For any number of compute units, any memory and any width of a word and *)
(* of a counter: the loops of the atomic operations implement atomic       *)
(* memory, and no count of the profile is lost on its way to the totals.   *)
(***************************************************************************)
EXTENDS KernelHelpers, FiniteSetTheorems, TLAPS

USE HelpersAssumption

----------------------------------------------------------------------------
(* The invariant *)

\* A looping operation is remembered as long as its loop runs, and no longer.
InLoop ==
    \A c \in CU : IF cu_pc[c] \in {"read", "swap"}
                  THEN request[c] \in Request /\ request[c].op \in Loops
                  ELSE request[c] = NoRequest

\* The monitor touches the counts of the dispatch while all CUs are asleep.
Handshake == mon_pc # "wait" => AllAsleep

IInv == TypeOK /\ InLoop /\ Handshake /\ CountsConserved

LEMMA ZeroTyped == Zero \in Profile /\ 0 \in Word
BY DEF Zero, Profile, Word

LEMMA PlusTyped ==
  ASSUME NEW p \in Profile, NEW q \in [Kind -> Nat]
  PROVE  Plus(p, q) \in Profile
BY DEF Plus, Profile

LEMMA TallyTyped ==
  ASSUME NEW ks
  PROVE  Tally(ks) \in [Kind -> Nat]
BY DEF Tally

LEMMA CountsTyped ==
  ASSUME TypeOK, NEW c \in CU, NEW ks, Counts(c, ks)
  PROVE  cu_prof' \in [CU -> Profile] /\ counted' \in Profile
<1>1. cu_prof \in [CU -> Profile] /\ counted \in Profile
  BY DEF TypeOK
<1>2. Plus(cu_prof[c], Tally(ks)) \in Profile /\ Plus(counted, Tally(ks)) \in Profile
  BY <1>1, PlusTyped, TallyTyped
<1> QED BY <1>1, <1>2 DEF Counts

\* What an operation stores is a word (hsa_atomic_def.h).
LEMMA ModifyTyped ==
  ASSUME NEW r \in Request, r.op \in Loops \cup Builtins, NEW x \in Word
  PROVE  Modify(r, x) \in Word
<1>1. r.src0 \in Word /\ r.src1 \in Word
  BY DEF Operation
<1>2. \A n \in Int : n % WordMod \in Word
  BY DEF Word
<1>3. Word \subseteq Int /\ (x < WordMod - 1 => x + 1 \in Word)
  BY DEF Word
<1>4. r.op \in {"ADD", "SUB", "CAS", "INC", "DEC", "MAX", "MIN"}
  BY DEF Loops, Builtins
<1>5. CASE r.op \in {"ADD", "SUB", "DEC"}
  <2>1. x + r.src0 \in Int /\ x - r.src0 \in Int /\ x - 1 \in Int
    BY <1>1 DEF Word
  <2>2. (x + r.src0) % WordMod \in Word /\ (x - r.src0) % WordMod \in Word
        /\ (x - 1) % WordMod \in Word
    BY <1>2, <2>1
  <2>3. Modify(r, x) \in {(x + r.src0) % WordMod, (x - r.src0) % WordMod, 0, (x - 1) % WordMod}
    BY <1>5 DEF Modify
  <2> QED BY <2>2, <2>3, ZeroTyped
<1>6. CASE r.op \in {"CAS", "MAX", "MIN"}
  <2>1. Modify(r, x) \in {x, r.src0, r.src1}
    BY <1>6 DEF Modify
  <2> QED BY <1>1, <2>1
<1>7. CASE r.op = "INC"
  <2>1. Modify(r, x) = IF x >= r.src0 THEN 0 ELSE x + 1
    BY <1>7 DEF Modify
  <2>2. x < r.src0 => x + 1 \in Word
    BY <1>1 DEF Word
  <2>3. x >= r.src0 \/ x < r.src0
    BY <1>1 DEF Word
  <2> QED BY <2>1, <2>2, <2>3, ZeroTyped
<1> QED BY <1>4, <1>5, <1>6, <1>7

LEMMA InitIInv == Init => IInv
<1> SUFFICES ASSUME Init PROVE IInv
  OBVIOUS
<1>1. TypeOK
  BY ZeroTyped DEF Init, TypeOK
<1>2. InLoop /\ Handshake
  BY DEF Init, InLoop, Handshake, AllAsleep
<1>3. CountsConserved
  <2> SUFFICES ASSUME NEW k \in Kind
               PROVE  (Total(k) + Unreported(k) + wiped[k]) % CounterMod = counted[k]
    BY DEF CountsConserved
  <2>1. Pending(k) = {}
    BY DEF Init, Pending
  <2>2. Unreported(k) = 0
    BY <2>1, FS_EmptySet DEF Unreported
  <2>3. Total(k) = 0 /\ wiped[k] = 0 /\ counted[k] = 0
    BY DEF Init, Total, Zero
  <2> QED BY <2>2, <2>3
<1> QED BY <1>1, <1>2, <1>3 DEF IInv

----------------------------------------------------------------------------
(* Each action preserves the invariant *)

LEMMA TypesNext == TypeOK /\ InLoop /\ [Next]_vars => TypeOK'
<1> SUFFICES ASSUME TypeOK, InLoop, [Next]_vars PROVE TypeOK'
  OBVIOUS
<1> USE DEF TypeOK
<1>1. ASSUME NEW c \in CU, CuStep(c) PROVE TypeOK'
  <2> USE <1>1
  <2>0. Calls(c) => calls' \in [CU -> 0 .. MaxCalls]
    BY DEF Calls
  <2>1. Request \subseteq Operation /\ \A r \in Request : r.addr \in Address
    BY DEF Operation
  <2>2. CASE Count(c)
    <3>1. PICK ks : Counts(c, ks) /\ Calls(c)
      BY <2>2 DEF Count, Access
    <3>2. cu_prof' \in [CU -> Profile] /\ counted' \in Profile
      BY <3>1, CountsTyped
    <3> QED BY <2>0, <2>2, <3>1, <3>2 DEF Count, memory, totals, console
  <2>3. CASE Store(c)
    <3>1. PICK ks : Counts(c, ks) /\ Calls(c)
      BY <2>3 DEF Store, Access
    <3>2. cu_prof' \in [CU -> Profile] /\ counted' \in Profile
      BY <3>1, CountsTyped
    <3> QED BY <2>0, <2>3, <3>1, <3>2 DEF Store, totals, console
  <2>4. CASE Atomic(c)
    <3>1. PICK ks : Counts(c, ks) /\ Calls(c)
      BY <2>4 DEF Atomic, Access
    <3>2. cu_prof' \in [CU -> Profile] /\ counted' \in Profile /\ calls' \in [CU -> 0 .. MaxCalls]
      BY <3>1, CountsTyped DEF Calls
    <3>3. PICK r \in Request :
            \/ /\ r.op \in Builtins
               /\ mem' = [mem EXCEPT ![r.addr] = Modify(r, @)]
               /\ result' = [result EXCEPT ![c] = mem[r.addr]]
               /\ UNCHANGED <<cu_pc, request>>
            \/ /\ r.op \in Loops
               /\ request' = [request EXCEPT ![c] = r] /\ CuGoto(c, "read")
               /\ UNCHANGED <<result, mem>>
            \/ /\ r.op \in Missing
               /\ result' = [result EXCEPT ![c] = 0]
               /\ UNCHANGED <<cu_pc, request, mem>>
      BY <2>4 DEF Atomic
    <3>4. r.addr \in Address /\ mem[r.addr] \in Word
      BY <2>1
    <3>5. r.op \in Builtins => Modify(r, mem[r.addr]) \in Word
      BY <3>4, ModifyTyped
    <3>6. /\ mem' \in [Address -> Word] /\ result' \in [CU -> Word]
          /\ request' \in [CU -> Request \cup {NoRequest}]
          /\ cu_pc' \in [CU -> {"asleep", "kernel", "read", "swap", "report"}]
      BY <3>3, <3>4, <3>5, ZeroTyped DEF CuGoto
    <3> QED BY <2>4, <3>2, <3>6 DEF Atomic, totals, console
  <2>5. CASE Read(c)
    <3>1. request[c].addr \in Address
      BY <2>1, <2>5 DEF Read, InLoop
    <3> QED BY <2>5, <3>1 DEF Read, CuGoto, profile, totals, console
  <2>6. CASE Swap(c)
    <3>1. request[c] \in Request /\ request[c].op \in Loops
      BY <2>6 DEF Swap, InLoop
    <3>2. Modify(request[c], origin[c]) \in Word
      BY <3>1, ModifyTyped
    <3> QED BY <2>6, <3>2, ZeroTyped DEF Swap, CuGoto, memory, profile, totals, console
  <2>7. CASE Fault(c)
    <3>1. PICK ks : Counts(c, ks) /\ Calls(c)
      BY <2>7 DEF Fault
    <3>2. cu_prof' \in [CU -> Profile] /\ counted' \in Profile
      BY <3>1, CountsTyped
    <3> QED BY <2>0, <2>7, <3>1, <3>2 DEF Fault, CuGoto, memory, totals, console
  <2>8. CASE Finish(c)
    BY <2>8 DEF Finish, CuGoto, memory, profile, totals, console
  <2>9. CASE Report(c)
    <3>1. cc_prof \in Profile /\ cu_prof[c] \in [Kind -> Nat]
      BY DEF Profile
    <3>2. cc_prof' \in Profile
      BY <2>9, <3>1, PlusTyped DEF Report
    <3> QED BY <2>9, <3>2 DEF Report, CuGoto, memory, profile, totals, console
  <2> QED BY <1>1, <2>2, <2>3, <2>4, <2>5, <2>6, <2>7, <2>8, <2>9 DEF CuStep
<1>2. CASE Dispatch
  BY <1>2, ZeroTyped DEF Dispatch, Woken, memory, console
<1>3. CASE ProfilePrint
  <2>1. ctl_prof \in Profile /\ cc_prof \in [Kind -> Nat]
    BY DEF Profile
  <2>2. Plus(ctl_prof, cc_prof) \in Profile
    BY <2>1, PlusTyped
  <2> QED BY <1>3, <2>2 DEF ProfilePrint, memory, profile, console
<1>4. CASE StoreSum
  BY <1>4, ZeroTyped DEF StoreSum, Printed, memory, profile, console
<1>5. CASE SetShow
  BY <1>5 DEF SetShow, memory, profile, totals
<1>6. CASE ResetProfile
  BY <1>6 DEF ResetProfile, memory, profile, totals
<1>7. ASSUME NEW k \in Kind, ResetField(k) PROVE TypeOK'
  <2>1. ctl_prof' \in Profile
    BY <1>7 DEF ResetField, Profile
  <2>2. (wiped[k] + ctl_prof[k]) % CounterMod \in 0 .. CounterMod - 1
    BY DEF Profile
  <2>3. wiped' \in Profile
    BY <1>7, <2>2 DEF ResetField, Profile
  <2>4. resetting' \subseteq Kind
    BY <1>7 DEF ResetField
  <2> QED BY <1>7, <2>1, <2>3, <2>4 DEF ResetField, memory, profile
<1>8. CASE UNCHANGED vars
  BY <1>8 DEF vars, memory, profile, totals, console
<1> QED BY <1>1, <1>2, <1>3, <1>4, <1>5, <1>6, <1>7, <1>8 DEF Next

LEMMA LoopNext == TypeOK /\ InLoop /\ [Next]_vars => InLoop'
<1> SUFFICES ASSUME TypeOK, InLoop, [Next]_vars, NEW d \in CU
             PROVE  IF cu_pc'[d] \in {"read", "swap"}
                    THEN request'[d] \in Request /\ request'[d].op \in Loops
                    ELSE request'[d] = NoRequest
  BY DEF InLoop
<1>0. /\ cu_pc \in [CU -> {"asleep", "kernel", "read", "swap", "report"}]
      /\ request \in [CU -> Request \cup {NoRequest}]
      /\ IF cu_pc[d] \in {"read", "swap"}
         THEN request[d] \in Request /\ request[d].op \in Loops
         ELSE request[d] = NoRequest
  BY DEF TypeOK, InLoop
<1>1. ASSUME NEW c \in CU, Atomic(c)
      PROVE  \/ UNCHANGED <<cu_pc, request>>
             \/ /\ cu_pc' = [cu_pc EXCEPT ![c] = "read"]
                /\ \E r \in Request : r.op \in Loops /\ request' = [request EXCEPT ![c] = r]
  BY <1>1 DEF Atomic, CuGoto
<1>2. ASSUME NEW c \in CU, Swap(c)
      PROVE  \/ request' = [request EXCEPT ![c] = NoRequest]
                /\ cu_pc' = [cu_pc EXCEPT ![c] = "kernel"]
             \/ request' = request /\ cu_pc[c] = "swap" /\ cu_pc' = [cu_pc EXCEPT ![c] = "read"]
  BY <1>2 DEF Swap, CuGoto, memory
<1>3. ASSUME NEW c \in CU, CuStep(c), ~Atomic(c), ~Swap(c)
      PROVE  /\ request' = request
             /\ \/ cu_pc' = cu_pc
                \/ cu_pc[c] = "read" /\ cu_pc' = [cu_pc EXCEPT ![c] = "swap"]
                \/ /\ cu_pc[c] \in {"kernel", "report"}
                   /\ cu_pc' = [cu_pc EXCEPT ![c] = "report"] \/ cu_pc' = [cu_pc EXCEPT ![c] = "asleep"]
  BY <1>3 DEF CuStep, Count, Store, Read, Fault, Finish, Report, CuGoto, memory, Calls
<1>4. CASE Dispatch
  BY <1>0, <1>4 DEF Dispatch, AllAsleep, memory
<1>5. CASE UNCHANGED <<cu_pc, request>>
  BY <1>0, <1>5
<1>6. ASSUME NEW c \in CU, Atomic(c)
      PROVE  IF cu_pc'[d] \in {"read", "swap"}
             THEN request'[d] \in Request /\ request'[d].op \in Loops
             ELSE request'[d] = NoRequest
  <2>1. CASE d # c
    BY <1>0, <1>1, <1>6, <2>1
  <2>2. CASE d = c
    BY <1>0, <1>1, <1>6, <2>2
  <2> QED BY <2>1, <2>2
<1>7. ASSUME NEW c \in CU, Swap(c)
      PROVE  IF cu_pc'[d] \in {"read", "swap"}
             THEN request'[d] \in Request /\ request'[d].op \in Loops
             ELSE request'[d] = NoRequest
  <2>1. CASE d # c
    BY <1>0, <1>2, <1>7, <2>1
  <2>2. CASE d = c
    BY <1>0, <1>2, <1>7, <2>2
  <2> QED BY <2>1, <2>2
<1>8. ASSUME NEW c \in CU, CuStep(c), ~Atomic(c), ~Swap(c)
      PROVE  IF cu_pc'[d] \in {"read", "swap"}
             THEN request'[d] \in Request /\ request'[d].op \in Loops
             ELSE request'[d] = NoRequest
  <2>1. CASE d # c
    BY <1>0, <1>3, <1>8, <2>1
  <2>2. CASE d = c
    BY <1>0, <1>3, <1>8, <2>2
  <2> QED BY <2>1, <2>2
<1>9. CASE ProfilePrint \/ StoreSum \/ SetShow \/ ResetProfile \/ \E k \in Kind : ResetField(k)
  BY <1>5, <1>9 DEF ProfilePrint, StoreSum, SetShow, ResetProfile, ResetField, memory
<1>10. CASE UNCHANGED vars
  BY <1>5, <1>10 DEF vars, memory
<1> QED BY <1>4, <1>6, <1>7, <1>8, <1>9, <1>10 DEF Next

----------------------------------------------------------------------------
(* Counting what has not been reported *)

Awake == {c \in CU : cu_pc[c] # "asleep"}
\* The counter k of each CU, and the units of the counters f of the CUs in S.
Counter(k) == [c \in CU |-> cu_prof[c][k]]
Units(f, S) == UNION {{c} \X (1 .. f[c]) : c \in S}

LEMMA PendingUnits == ASSUME NEW k PROVE Pending(k) = Units(Counter(k), Awake)
BY DEF Pending, Units, Counter, Awake

LEMMA UnitsFinite ==
  ASSUME NEW S \in SUBSET CU, NEW f \in [CU -> Nat]
  PROVE  IsFiniteSet(Units(f, S)) /\ Cardinality(Units(f, S)) \in Nat
<1> DEFINE Block == [c \in S |-> {c} \X (1 .. f[c])]
           Blocks == {{c} \X (1 .. f[c]) : c \in S}
<1>1. IsFiniteSet(S)
  BY FS_Subset
<1>2. Block \in Surjection(S, Blocks)
  BY DEF Surjection
<1>3. IsFiniteSet(Blocks)
  BY <1>1, <1>2, FS_Surjection
<1>4. ASSUME NEW c \in S PROVE IsFiniteSet({c} \X (1 .. f[c]))
  <2>1. f[c] \in Int
    OBVIOUS
  <2>2. IsFiniteSet(1 .. f[c])
    BY <2>1, FS_Interval
  <2>3. IsFiniteSet({c})
    BY FS_Singleton
  <2> QED BY <2>2, <2>3, FS_Product
<1>5. IsFiniteSet(UNION Blocks)
  BY <1>3, <1>4, FS_UNION
<1> QED BY <1>5, FS_CardinalityType DEF Units

LEMMA UpToN ==
  ASSUME NEW n \in Nat
  PROVE  IsFiniteSet(1 .. n) /\ Cardinality(1 .. n) = n
<1>1. IsFiniteSet(1 .. n)
  BY FS_Interval
<1>2. Cardinality(1 .. n) = IF 1 > n THEN 0 ELSE n - 1 + 1
  BY FS_Interval
<1>3. 1 > n => n = 0
  OBVIOUS
<1> QED BY <1>1, <1>2, <1>3

\* The units of a CU are as many as its counter says.
LEMMA UnitsSplit ==
  ASSUME NEW S \in SUBSET CU, NEW f \in [CU -> Nat], NEW c \in S
  PROVE  Cardinality(Units(f, S)) = Cardinality(Units(f, S \ {c})) + f[c]
<1> DEFINE B == {c} \X (1 .. f[c])
           R == Units(f, S \ {c})
<1>1. Units(f, S) = R \cup B /\ R \cap B = {}
  BY DEF Units
<1>2. IsFiniteSet(1 .. f[c]) /\ Cardinality(1 .. f[c]) = f[c]
  <2>1. f[c] \in Nat
    OBVIOUS
  <2> QED BY <2>1, UpToN
<1>3. IsFiniteSet(B) /\ Cardinality(B) = f[c]
  <2>1. IsFiniteSet({c}) /\ Cardinality({c}) = 1
    BY FS_Singleton
  <2>2. IsFiniteSet(B) /\ Cardinality(B) = 1 * Cardinality(1 .. f[c])
    BY <1>2, <2>1, FS_Product
  <2> QED BY <1>2, <2>2
<1>4. IsFiniteSet(R) /\ Cardinality(R) \in Nat
  BY UnitsFinite
<1>5. Cardinality({}) = 0
  BY FS_EmptySet
<1> HIDE DEF R, B
<1>6. Cardinality(R \cup B) = Cardinality(R) + Cardinality(B) - Cardinality(R \cap B)
  BY <1>3, <1>4, FS_Union
<1>7. Cardinality(R \cup B) = Cardinality(R) + f[c]
  BY <1>1, <1>3, <1>4, <1>5, <1>6
<1> QED BY <1>1, <1>7 DEF R

LEMMA UnitsSame ==
  ASSUME NEW S \in SUBSET CU, NEW f \in [CU -> Nat], NEW g \in [CU -> Nat],
         \A c \in S : f[c] = g[c]
  PROVE  Units(f, S) = Units(g, S)
<1>1. {{c} \X (1 .. f[c]) : c \in S} = {{c} \X (1 .. g[c]) : c \in S}
  OBVIOUS
<1> QED BY <1>1 DEF Units

LEMMA CounterTyped ==
  ASSUME TypeOK, NEW k \in Kind
  PROVE  Counter(k) \in [CU -> 0 .. CounterMod - 1] /\ Counter(k) \in [CU -> Nat]
BY DEF TypeOK, Profile, Counter

LEMMA NothingPending ==
  ASSUME AllAsleep, NEW k
  PROVE  Unreported(k) = 0
<1>1. Pending(k) = {}
  BY DEF AllAsleep, Pending
<1> QED BY <1>1, FS_EmptySet DEF Unreported

\* Two numbers of a range as wide as w that differ by a multiple of w are equal.
LEMMA SameResidue ==
  ASSUME NEW w \in Nat \ {0}, NEW q \in Int,
         NEW m \in 0 .. w - 1, NEW n \in 0 .. w - 1, m = n + (q * w)
  PROVE  m = n
<1>1. q * w < w /\ -w < q * w
  OBVIOUS
<1>2. q = 0
  BY <1>1
<1> QED BY <1>2

LEMMA ModShift ==
  ASSUME NEW n \in Int, NEW q \in Int
  PROVE  (n + (q * CounterMod)) % CounterMod = n % CounterMod
<1> DEFINE x == n + (q * CounterMod)
           a == n \div CounterMod
           b == x \div CounterMod
<1>1. /\ x \in Int /\ a \in Int /\ b \in Int
      /\ n = (CounterMod * a) + (n % CounterMod) /\ x = (CounterMod * b) + (x % CounterMod)
      /\ n % CounterMod \in 0 .. CounterMod - 1 /\ x % CounterMod \in 0 .. CounterMod - 1
  OBVIOUS
<1>2. x = n + (q * CounterMod)
  OBVIOUS
<1> HIDE DEF x, a, b
<1>3. x % CounterMod = (n % CounterMod) + ((a + q - b) * CounterMod)
  BY <1>1, <1>2
<1>4. a + q - b \in Int
  BY <1>1
<1>5. x % CounterMod = n % CounterMod
  BY <1>1, <1>3, <1>4, SameResidue
<1> QED BY <1>5 DEF x

\* A counter that wraps early does not change a sum that wraps in the end.
LEMMA ModPlus ==
  ASSUME NEW a \in Int, NEW b \in Int
  PROVE  ((a % CounterMod) + b) % CounterMod = (a + b) % CounterMod
<1> DEFINE d == a \div CounterMod
<1>1. a = (CounterMod * d) + (a % CounterMod) /\ d \in Int /\ a % CounterMod \in Int
  OBVIOUS
<1> HIDE DEF d
<1>2. (a % CounterMod) + b = (a + b) + ((-d) * CounterMod) /\ -d \in Int /\ a + b \in Int
  BY <1>1
<1> QED BY <1>2, ModShift

\* A call that is counted is counted in its CU and in all.
LEMMA CallConserves ==
  ASSUME TypeOK, NEW c \in CU, NEW ks, Counts(c, ks), Awake' = Awake, c \in Awake,
         UNCHANGED <<mon_pc, cc_prof, ctl_prof, sum, wiped>>, NEW k \in Kind,
         (Total(k) + Unreported(k) + wiped[k]) % CounterMod = counted[k]
  PROVE  (Total(k)' + Unreported(k)' + wiped'[k]) % CounterMod = counted'[k]
<1> DEFINE f == Counter(k)
           g == Counter(k)'
           t == Tally(ks)[k]
           rest == Cardinality(Units(f, Awake \ {c}))
<1>1. f \in [CU -> Nat] /\ f \in [CU -> 0 .. CounterMod - 1]
  BY CounterTyped
<1>2. cu_prof \in [CU -> Profile] /\ counted \in Profile /\ t \in Nat
  BY DEF TypeOK, Tally
<1>3. g = [f EXCEPT ![c] = (@ + t) % CounterMod]
  BY <1>2 DEF Counts, Counter, Plus
<1>4. (f[c] + t) % CounterMod \in Nat
  BY <1>1, <1>2
<1>5. g \in [CU -> Nat] /\ g[c] = (f[c] + t) % CounterMod
  BY <1>1, <1>3, <1>4
<1>6. Awake \in SUBSET CU /\ Awake \ {c} \in SUBSET CU
  BY DEF Awake
<1>7. Unreported(k) = rest + f[c]
  BY <1>1, <1>6, UnitsSplit, PendingUnits DEF Unreported
<1>8. Pending(k)' = Units(g, Awake)
  BY DEF Pending, Units, Counter, Awake
<1> HIDE DEF f, g, t
<1>9. Units(g, Awake \ {c}) = Units(f, Awake \ {c})
  <2>1. \A d \in Awake \ {c} : f[d] = g[d]
    BY <1>1, <1>3, <1>6
  <2> QED BY <1>1, <1>5, <1>6, <2>1, UnitsSame
<1>10. Unreported(k)' = rest + ((f[c] + t) % CounterMod)
  BY <1>5, <1>6, <1>8, <1>9, UnitsSplit DEF Unreported
<1>11. rest \in Nat
  BY <1>1, <1>6, UnitsFinite
<1>12. counted'[k] = (counted[k] + t) % CounterMod
  BY <1>2 DEF Counts, Plus, t
<1>13. Total(k) \in Int /\ wiped[k] \in Int /\ Total(k)' = Total(k) /\ wiped' = wiped
  BY DEF TypeOK, Profile, Total
<1> HIDE DEF rest
<1>14. (Total(k) + Unreported(k) + wiped[k]) \in Int /\ f[c] \in Int /\ t \in Int
  BY <1>1, <1>2, <1>7, <1>11, <1>13
<1>15. counted'[k] = (Total(k) + (rest + f[c]) + wiped[k] + t) % CounterMod
  BY <1>7, <1>12, <1>14, ModPlus
<1>16. (((f[c] + t) % CounterMod) + (Total(k) + rest + wiped[k])) % CounterMod
          = ((f[c] + t) + (Total(k) + rest + wiped[k])) % CounterMod
  <2>1. f[c] + t \in Int /\ Total(k) + rest + wiped[k] \in Int
    BY <1>11, <1>13, <1>14
  <2> QED BY <2>1, ModPlus
<1>17. /\ Total(k)' + Unreported(k)' + wiped'[k]
             = ((f[c] + t) % CounterMod) + (Total(k) + rest + wiped[k])
       /\ Total(k) + (rest + f[c]) + wiped[k] + t
             = (f[c] + t) + (Total(k) + rest + wiped[k])
  BY <1>4, <1>10, <1>11, <1>13, <1>14
<1> QED BY <1>15, <1>16, <1>17

\* What a CU reports leaves its counters and enters those of the dispatch.
LEMMA ReportConserves ==
  ASSUME TypeOK, Handshake, NEW c \in CU, Report(c), NEW k \in Kind,
         (Total(k) + Unreported(k) + wiped[k]) % CounterMod = counted[k]
  PROVE  (Total(k)' + Unreported(k)' + wiped'[k]) % CounterMod = counted'[k]
<1> DEFINE f == Counter(k)
           rest == Cardinality(Units(f, Awake \ {c}))
<1>1. f \in [CU -> Nat] /\ f[c] = cu_prof[c][k]
  BY CounterTyped DEF Counter
<1>2. Awake \in SUBSET CU /\ Awake \ {c} \in SUBSET CU /\ c \in Awake
  BY DEF Awake, Report
<1>3. Unreported(k) = rest + f[c]
  BY <1>1, <1>2, UnitsSplit, PendingUnits DEF Unreported
<1>4. Pending(k)' = Units(f, Awake \ {c})
  <2>1. Awake' = Awake \ {c}
    BY DEF Awake, Report, CuGoto, TypeOK
  <2>2. cu_prof' = cu_prof
    BY DEF Report, profile
  <2>3. Pending(k)' = Units(f, Awake')
    BY <2>2 DEF Pending, Units, Counter, Awake
  <2> QED BY <2>1, <2>3
<1>5. Unreported(k)' = rest
  BY <1>4 DEF Unreported
<1>6. rest \in Nat
  BY <1>1, <1>2, UnitsFinite
<1>7. mon_pc = "wait" /\ mon_pc' = mon_pc
  BY <1>2 DEF Handshake, AllAsleep, Awake, Report, totals
<1>8. /\ cc_prof[k] \in Int /\ ctl_prof[k] \in Int /\ wiped[k] \in Int
      /\ UNCHANGED <<ctl_prof, wiped, counted>>
      /\ cc_prof'[k] = (cc_prof[k] + f[c]) % CounterMod
  BY <1>1 DEF TypeOK, Profile, Report, totals, console, profile, Plus
<1>9. Total(k) = cc_prof[k] + ctl_prof[k] /\ Total(k)' = cc_prof'[k] + ctl_prof[k]
  BY <1>7, <1>8 DEF Total
<1> HIDE DEF f, rest
<1> DEFINE z == ctl_prof[k] + rest + wiped[k]
<1>10. z \in Int /\ cc_prof[k] + f[c] \in Int
  BY <1>1, <1>6, <1>8
<1>11. (((cc_prof[k] + f[c]) % CounterMod) + z) % CounterMod = ((cc_prof[k] + f[c]) + z) % CounterMod
  BY <1>10, ModPlus
<1>12. /\ Total(k)' + Unreported(k)' + wiped'[k] = ((cc_prof[k] + f[c]) % CounterMod) + z
       /\ Total(k) + Unreported(k) + wiped[k] = (cc_prof[k] + f[c]) + z
  <2>1. (cc_prof[k] + f[c]) % CounterMod \in Int
    BY <1>10
  <2> QED BY <1>1, <1>3, <1>5, <1>6, <1>8, <1>9, <2>1
<1> QED BY <1>8, <1>11, <1>12

\* A step that changes the totals while all CUs are asleep.
LEMMA MonitorConserves ==
  ASSUME TypeOK, Handshake, Dispatch \/ ProfilePrint \/ StoreSum, NEW k \in Kind,
         (Total(k) + Unreported(k) + wiped[k]) % CounterMod = counted[k]
  PROVE  (Total(k)' + Unreported(k)' + wiped'[k]) % CounterMod = counted'[k]
<1>1. AllAsleep
  BY DEF Handshake, Dispatch, ProfilePrint, StoreSum
<1>2. Unreported(k) = 0
  BY <1>1, NothingPending
<1>3. /\ sum[k] \in Int /\ cc_prof[k] \in Int /\ ctl_prof[k] \in Int /\ wiped[k] \in Int
      /\ UNCHANGED <<wiped, counted>>
  BY DEF TypeOK, Profile, Dispatch, ProfilePrint, StoreSum, profile, console
<1>4. Unreported(k)' = 0
  <2>1. Pending(k)' = {}
    <3>1. CASE Dispatch
      <4>1. \A c \in CU : cu_prof'[c][k] = 0
        BY <3>1 DEF Dispatch, Woken, Zero
      <4>2. 1 .. 0 = {}
        OBVIOUS
      <4> QED BY <4>1, <4>2 DEF Pending
    <3>2. CASE cu_pc' = cu_pc
      BY <1>1, <3>2 DEF Pending, AllAsleep
    <3> QED BY <3>1, <3>2 DEF ProfilePrint, StoreSum
  <2> QED BY <2>1, FS_EmptySet DEF Unreported
<1>5. CASE Total(k)' = Total(k)
  BY <1>2, <1>3, <1>4, <1>5
<1>6. CASE Dispatch \/ StoreSum
  <2>1. Total(k)' = Total(k)
    BY <1>3, <1>6 DEF Dispatch, StoreSum, Total, Printed, Zero
  <2> QED BY <1>5, <2>1
<1>7. CASE ProfilePrint
  <2>1. CASE mon_pc' = "idle"
    BY <1>5, <1>7, <2>1 DEF ProfilePrint, Total
  <2>2. CASE mon_pc' = "store" /\ sum' = Plus(ctl_prof, cc_prof)
    <3>1. Total(k) = cc_prof[k] + ctl_prof[k]
      BY <1>7 DEF ProfilePrint, Total
    <3>2. Total(k)' = (ctl_prof[k] + cc_prof[k]) % CounterMod
      BY <2>2 DEF Total, Plus
    <3>3. ctl_prof[k] + cc_prof[k] \in Int
      BY <1>3
    <3>4. (Total(k)' + wiped[k]) % CounterMod = ((ctl_prof[k] + cc_prof[k]) + wiped[k]) % CounterMod
      BY <1>3, <3>2, <3>3, ModPlus
    <3>5. /\ Total(k)' + Unreported(k)' + wiped'[k] = Total(k)' + wiped[k]
          /\ Total(k) + Unreported(k) + wiped[k] = (ctl_prof[k] + cc_prof[k]) + wiped[k]
      <4>1. Total(k)' \in Int
        BY <3>2, <3>3
      <4> QED BY <1>2, <1>3, <1>4, <3>1, <4>1
    <3> QED BY <1>3, <3>4, <3>5
  <2> QED BY <1>7, <2>1, <2>2 DEF ProfilePrint
<1> QED BY <1>6, <1>7

\* What a reset takes away from the totals is accounted for.
LEMMA ResetConserves ==
  ASSUME TypeOK, Handshake, NEW j \in Kind, ResetField(j), NEW k \in Kind,
         (Total(k) + Unreported(k) + wiped[k]) % CounterMod = counted[k]
  PROVE  (Total(k)' + Unreported(k)' + wiped'[k]) % CounterMod = counted'[k]
<1>1. /\ Unreported(k)' = Unreported(k) /\ UNCHANGED <<counted, cc_prof, sum, mon_pc>>
  BY DEF ResetField, profile, Unreported, Pending
<1>2. /\ cc_prof[k] \in Int /\ ctl_prof[k] \in Int /\ wiped[k] \in Int
      /\ ctl_prof \in [Kind -> Int] /\ wiped \in [Kind -> Int]
  BY DEF TypeOK, Profile
<1>3. CASE mon_pc = "store"
  BY <1>1, <1>3 DEF ResetField, Total
<1>4. CASE mon_pc # "store" /\ k # j
  BY <1>1, <1>2, <1>4 DEF ResetField, Total
<1>5. CASE mon_pc # "store" /\ k = j
  <2>1. ctl_prof'[k] = 0 /\ wiped'[k] = (wiped[k] + ctl_prof[k]) % CounterMod
    BY <1>2, <1>5 DEF ResetField
  <2>2. Total(k) = cc_prof[k] + ctl_prof[k] /\ Total(k)' = cc_prof[k] + 0
    BY <1>1, <1>5, <2>1 DEF Total
  <2>3. Unreported(k) \in Int
    <3>1. Counter(k) \in [CU -> Nat] /\ Awake \in SUBSET CU
      BY CounterTyped DEF Awake
    <3> QED BY <3>1, UnitsFinite, PendingUnits DEF Unreported
  <2> DEFINE z == cc_prof[k] + Unreported(k)
  <2>4. z \in Int /\ wiped[k] + ctl_prof[k] \in Int
    BY <1>2, <2>3
  <2>5. (((wiped[k] + ctl_prof[k]) % CounterMod) + z) % CounterMod = ((wiped[k] + ctl_prof[k]) + z) % CounterMod
    BY <2>4, ModPlus
  <2>6. /\ Total(k)' + Unreported(k)' + wiped'[k] = ((wiped[k] + ctl_prof[k]) % CounterMod) + z
        /\ Total(k) + Unreported(k) + wiped[k] = (wiped[k] + ctl_prof[k]) + z
    <3>1. (wiped[k] + ctl_prof[k]) % CounterMod \in Int
      BY <2>4
    <3>2. Total(k)' = cc_prof[k] /\ Unreported(k)' = Unreported(k)
      BY <1>1, <1>2, <2>2
    <3>3. Total(k)' + Unreported(k)' + wiped'[k] = ((wiped[k] + ctl_prof[k]) % CounterMod) + z
      BY <1>2, <2>1, <2>3, <3>1, <3>2
    <3>4. Total(k) + Unreported(k) + wiped[k] = (wiped[k] + ctl_prof[k]) + z
      BY <1>2, <2>2, <2>3
    <3> QED BY <3>3, <3>4
  <2> QED BY <1>1, <2>5, <2>6
<1> QED BY <1>3, <1>4, <1>5

LEMMA ConservedNext ==
  TypeOK /\ Handshake /\ CountsConserved /\ [Next]_vars => CountsConserved'
<1> SUFFICES ASSUME TypeOK, Handshake, CountsConserved, [Next]_vars, NEW k \in Kind
             PROVE  (Total(k)' + Unreported(k)' + wiped'[k]) % CounterMod = counted'[k]
  BY DEF CountsConserved
<1>0. (Total(k) + Unreported(k) + wiped[k]) % CounterMod = counted[k]
  BY DEF CountsConserved
<1>1. ASSUME NEW c \in CU, Count(c) \/ Store(c) \/ Atomic(c) \/ Fault(c)
      PROVE  (Total(k)' + Unreported(k)' + wiped'[k]) % CounterMod = counted'[k]
  <2>1. PICK ks : Counts(c, ks)
    BY <1>1 DEF Count, Store, Atomic, Fault, Access
  <2>2. UNCHANGED <<mon_pc, cc_prof, ctl_prof, sum, wiped>>
    BY <1>1 DEF Count, Store, Atomic, Fault, totals, console
  <2>3. cu_pc[c] = "kernel"
    BY <1>1 DEF Count, Store, Atomic, Fault, Access, Calls
  <2>4. cu_pc' = cu_pc \/ cu_pc' = [cu_pc EXCEPT ![c] = "read"] \/ cu_pc' = [cu_pc EXCEPT ![c] = "report"]
    BY <1>1 DEF Count, Store, Atomic, Fault, CuGoto
  <2>5. Awake' = Awake /\ c \in Awake
    BY <2>3, <2>4 DEF Awake, TypeOK
  <2> QED BY <1>0, <2>1, <2>2, <2>5, CallConserves
<1>2. ASSUME NEW c \in CU, Read(c) \/ Swap(c) \/ Finish(c)
      PROVE  (Total(k)' + Unreported(k)' + wiped'[k]) % CounterMod = counted'[k]
  <2>1. UNCHANGED <<cu_prof, counted, cc_prof, mon_pc, ctl_prof, sum, wiped>>
    BY <1>2 DEF Read, Swap, Finish, profile, totals, console
  <2>2. \E s \in {"kernel", "swap", "read", "report"} : cu_pc' = [cu_pc EXCEPT ![c] = s]
    BY <1>2 DEF Read, Swap, Finish, CuGoto
  <2>3. cu_pc[c] # "asleep"
    BY <1>2 DEF Read, Swap, Finish
  <2>4. {d \in CU : cu_pc'[d] # "asleep"} = {d \in CU : cu_pc[d] # "asleep"}
    BY <2>2, <2>3 DEF TypeOK
  <2>5. Unreported(k)' = Unreported(k)
    BY <2>1, <2>4 DEF Unreported, Pending
  <2>6. Total(k)' = Total(k)
    BY <2>1 DEF Total
  <2> QED BY <1>0, <2>1, <2>5, <2>6
<1>3. ASSUME NEW c \in CU, Report(c)
      PROVE  (Total(k)' + Unreported(k)' + wiped'[k]) % CounterMod = counted'[k]
  BY <1>0, <1>3, ReportConserves
<1>4. CASE Dispatch \/ ProfilePrint \/ StoreSum
  BY <1>0, <1>4, MonitorConserves
<1>5. CASE SetShow \/ ResetProfile \/ UNCHANGED vars
  BY <1>0, <1>5 DEF SetShow, ResetProfile, vars, profile, totals, console, Total, Unreported, Pending
<1>6. ASSUME NEW j \in Kind, ResetField(j)
      PROVE  (Total(k)' + Unreported(k)' + wiped'[k]) % CounterMod = counted'[k]
  BY <1>0, <1>6, ResetConserves
<1> QED BY <1>1, <1>2, <1>3, <1>4, <1>5, <1>6 DEF Next, CuStep

LEMMA HandshakeNext == TypeOK /\ Handshake /\ [Next]_vars => Handshake'
<1> SUFFICES ASSUME TypeOK, Handshake, [Next]_vars PROVE Handshake'
  OBVIOUS
<1> USE DEF Handshake, AllAsleep
<1>1. ASSUME NEW c \in CU, CuStep(c) PROVE Handshake'
  <2>1. cu_pc[c] # "asleep" /\ mon_pc' = mon_pc
    BY <1>1 DEF CuStep, Count, Store, Atomic, Read, Swap, Fault, Finish, Report, Access, Calls, totals
  <2> QED BY <2>1
<1>2. CASE Dispatch \/ ProfilePrint \/ StoreSum
  BY <1>2 DEF Dispatch, ProfilePrint, StoreSum
<1>3. CASE SetShow \/ ResetProfile \/ (\E k \in Kind : ResetField(k)) \/ UNCHANGED vars
  BY <1>3 DEF SetShow, ResetProfile, ResetField, vars, totals
<1> QED BY <1>1, <1>2, <1>3 DEF Next

LEMMA Invariance == Spec => []IInv
<1>1. IInv /\ [Next]_vars => IInv'
  BY TypesNext, LoopNext, ConservedNext, HandshakeNext DEF IInv
<1> QED BY <1>1, InitIInv, PTL DEF Spec

----------------------------------------------------------------------------
(* What follows from it *)

\* Words and counters stay in their ranges, whatever the kernels call.
THEOREM TypesHold == Spec => []TypeOK
<1>1. IInv => TypeOK
  BY DEF IInv
<1> QED BY <1>1, Invariance, PTL

\* No count is lost or taken twice on its way from the CUs to the totals
\* (hsa_cu_resume_mntor, hsa_update_prof, hsa_profile_print, hsa_reset_profile).
THEOREM CountsAreConserved == Spec => []CountsConserved
<1>1. IInv => CountsConserved
  BY DEF IInv
<1> QED BY <1>1, Invariance, PTL

----------------------------------------------------------------------------
(* The atomic operations implement atomic memory *)

\* Both modules mean the same by an operation.
LEMMA SameEffect ==
  ASSUME NEW r \in Request, r.op \in Loops \cup Builtins, NEW x \in Word
  PROVE  Modify(r, x) = Service!Effect(r, x)
<1>1. r.src0 \in Nat /\ x \in Nat
  BY DEF Operation, Word
<1>2. r.op \in {"ADD", "SUB", "CAS", "INC", "DEC", "MAX", "MIN"}
  BY DEF Loops, Builtins
<1>3. CASE r.op \in {"ADD", "SUB", "CAS"}
  BY <1>3 DEF Modify, Service!Effect
<1>4. CASE r.op \in {"INC", "DEC"}
  <2>1. x >= r.src0 <=> ~(x < r.src0)
    BY <1>1
  <2> QED BY <1>4, <2>1 DEF Modify, Service!Effect
<1>5. CASE r.op = "MAX"
  <2> DEFINE m == IF x > r.src0 THEN x ELSE r.src0
  <2>1. m \in {x, r.src0} /\ \A z \in {x, r.src0} : m >= z
    BY <1>1
  <2>2. \A y \in {x, r.src0} : (\A z \in {x, r.src0} : y >= z) => y = m
    BY <1>1
  <2>3. (CHOOSE y \in {x, r.src0} : \A z \in {x, r.src0} : y >= z) = m
    BY <2>1, <2>2
  <2> QED BY <1>5, <2>3 DEF Modify, Service!Effect
<1>6. CASE r.op = "MIN"
  <2> DEFINE m == IF x < r.src0 THEN x ELSE r.src0
  <2>1. m \in {x, r.src0} /\ \A z \in {x, r.src0} : m <= z
    BY <1>1
  <2>2. \A y \in {x, r.src0} : (\A z \in {x, r.src0} : y <= z) => y = m
    BY <1>1
  <2>3. (CHOOSE y \in {x, r.src0} : \A z \in {x, r.src0} : y <= z) = m
    BY <2>1, <2>2
  <2> QED BY <1>6, <2>3 DEF Modify, Service!Effect
<1> QED BY <1>2, <1>3, <1>4, <1>5, <1>6

LEMMA ServiceNext ==
  ASSUME TypeOK, InLoop, [Next]_vars
  PROVE  [Service!Next]_(Service!vars)
<1> USE DEF Service!vars
<1>1. ASSUME NEW c \in CU, Store(c) PROVE Service!Store(c)
  <2>1. request[c] = NoRequest
    BY <1>1 DEF Store, Access, Calls, InLoop
  <2> QED BY <1>1, <2>1 DEF Store, Service!Store, Service!Word, Word
<1>2. ASSUME NEW c \in CU, Atomic(c)
      PROVE  \/ Service!Absent(c)
             \/ \E r \in {q \in Request : q.op \in Loops \cup Builtins} :
                  Service!Call(c, r) \/ Service!AtOnce(c, r)
  <2>1. request[c] = NoRequest
    BY <1>2 DEF Atomic, Access, Calls, InLoop
  <2>2. PICK r \in Request :
          \/ /\ r.op \in Builtins
             /\ mem' = [mem EXCEPT ![r.addr] = Modify(r, @)]
             /\ result' = [result EXCEPT ![c] = mem[r.addr]]
             /\ UNCHANGED <<cu_pc, request>>
          \/ /\ r.op \in Loops
             /\ request' = [request EXCEPT ![c] = r] /\ CuGoto(c, "read")
             /\ UNCHANGED <<result, mem>>
          \/ /\ r.op \in Missing
             /\ result' = [result EXCEPT ![c] = 0]
             /\ UNCHANGED <<cu_pc, request, mem>>
    BY <1>2 DEF Atomic
  <2>3. CASE r.op \in Builtins /\ mem' = [mem EXCEPT ![r.addr] = Modify(r, @)]
             /\ result' = [result EXCEPT ![c] = mem[r.addr]] /\ request' = request
    <3>1. r.addr \in Address /\ mem[r.addr] \in Word
      BY DEF Operation, TypeOK
    <3>2. Modify(r, mem[r.addr]) = Service!Effect(r, mem[r.addr])
      BY <2>3, <3>1, SameEffect
    <3>3. Service!AtOnce(c, r)
      BY <2>1, <2>3, <3>1, <3>2 DEF Service!AtOnce, Service!Effective
    <3> QED BY <2>3, <3>3
  <2>4. CASE r.op \in Loops /\ request' = [request EXCEPT ![c] = r] /\ UNCHANGED <<result, mem>>
    BY <2>1, <2>4 DEF Service!Call
  <2>5. CASE result' = [result EXCEPT ![c] = 0] /\ UNCHANGED <<request, mem>>
    BY <2>1, <2>5 DEF Service!Absent
  <2> QED BY <2>2, <2>3, <2>4, <2>5
<1>3. ASSUME NEW c \in CU, Swap(c)
      PROVE  Service!Perform(c) \/ UNCHANGED Service!vars
  <2>1. request[c] \in Request /\ request[c].op \in Loops /\ request[c] # NoRequest
    BY <1>3 DEF Swap, InLoop, Loops, NoRequest
  <2>2. CASE UNCHANGED memory
    BY <2>2 DEF memory
  <2>3. CASE /\ Swapped(c)
             /\ mem' = [mem EXCEPT ![request[c].addr] = Modify(request[c], origin[c])]
             /\ result' = [result EXCEPT ![c] = origin[c]]
             /\ request' = [request EXCEPT ![c] = NoRequest]
    <3>1. mem[request[c].addr] = origin[c] /\ origin[c] \in Word
      BY <2>3 DEF Swapped, TypeOK
    <3>2. Modify(request[c], origin[c]) = Service!Effect(request[c], origin[c])
      BY <2>1, <3>1, SameEffect
    <3> QED BY <2>1, <2>3, <3>1, <3>2 DEF Service!Perform, Service!Effective
  <2> QED BY <1>3, <2>2, <2>3 DEF Swap
<1>4. ASSUME NEW c \in CU, Count(c) \/ Read(c) \/ Fault(c) \/ Finish(c) \/ Report(c)
      PROVE  UNCHANGED Service!vars
  BY <1>4 DEF Count, Read, Fault, Finish, Report, memory
<1>5. CASE Dispatch \/ ProfilePrint \/ StoreSum \/ SetShow \/ ResetProfile
           \/ (\E k \in Kind : ResetField(k)) \/ UNCHANGED vars
  BY <1>5 DEF Dispatch, ProfilePrint, StoreSum, SetShow, ResetProfile, ResetField, vars, memory
<1> QED BY <1>1, <1>2, <1>3, <1>4, <1>5 DEF Next, CuStep, Service!Next

\* Every atomic operation takes effect at one instant, though its loop reads and
\* swaps in two steps between which others may write (hsa_atomic_def.h:37-73).
THEOREM HelpersImplementAtomicMemory == Spec => ImplementsAtomicMemory
<1>1. Init => Service!Init
  BY DEF Init, Service!Init, Service!Word, Word
<1>2. IInv /\ [Next]_vars => [Service!Next]_(Service!vars)
  BY ServiceNext DEF IInv
<1> QED BY <1>1, <1>2, Invariance, PTL DEF Spec, ImplementsAtomicMemory, Service!Spec

=============================================================================
