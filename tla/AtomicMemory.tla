---------------------------- MODULE AtomicMemory ----------------------------
(***************************************************************************)
(* What the atomic operations promise to the kernels: an operation takes   *)
(* effect at one instant between its call and its return, whatever the     *)
(* other compute units do, and returns the value it found there.           *)
(***************************************************************************)
EXTENDS Integers

CONSTANTS
    Client,    \* who calls
    Address,   \* words of memory
    WordMod,   \* their range
    Request,   \* the operations that may be called
    Idle       \* no operation

VARIABLES
    mem,       \* the words
    pending,   \* the operation each client has called
    result     \* what its last operation returned

vars == <<mem, pending, result>>

Word == 0 .. WordMod - 1

\* The word an operation leaves where it found x.
Effect(r, x) ==
    CASE r.op = "ADD" -> (x + r.src0) % WordMod
      [] r.op = "SUB" -> (x - r.src0) % WordMod
      [] r.op = "INC" -> IF x < r.src0 THEN x + 1 ELSE 0
      [] r.op = "DEC" -> IF x < r.src0 THEN (x - 1) % WordMod ELSE 0
      [] r.op = "MAX" -> CHOOSE y \in {x, r.src0} : \A z \in {x, r.src0} : y >= z
      [] r.op = "MIN" -> CHOOSE y \in {x, r.src0} : \A z \in {x, r.src0} : y <= z
      [] r.op = "CAS" -> IF x = r.src0 THEN r.src1 ELSE x

Init ==
    /\ mem \in [Address -> Word]
    /\ pending = [c \in Client |-> Idle]
    /\ result = [c \in Client |-> 0]

Call(c, r) ==
    /\ pending[c] = Idle
    /\ pending' = [pending EXCEPT ![c] = r]
    /\ UNCHANGED <<mem, result>>

\* The instant at which r takes effect.
Effective(c, r) ==
    /\ mem' = [mem EXCEPT ![r.addr] = Effect(r, @)]
    /\ result' = [result EXCEPT ![c] = mem[r.addr]]

Perform(c) ==
    /\ pending[c] # Idle /\ Effective(c, pending[c])
    /\ pending' = [pending EXCEPT ![c] = Idle]

\* An operation that takes effect as it is called.
AtOnce(c, r) == pending[c] = Idle /\ Effective(c, r) /\ UNCHANGED pending

\* One that the component does not have.
Absent(c) ==
    /\ pending[c] = Idle /\ result' = [result EXCEPT ![c] = 0]
    /\ UNCHANGED <<mem, pending>>

\* A plain store.
Store(c) ==
    /\ pending[c] = Idle
    /\ \E a \in Address, w \in Word : mem' = [mem EXCEPT ![a] = w]
    /\ UNCHANGED <<pending, result>>

Next == \E c \in Client :
    \/ Perform(c) \/ Absent(c) \/ Store(c)
    \/ \E r \in Request : Call(c, r) \/ AtOnce(c, r)

Spec == Init /\ [][Next]_vars
=============================================================================
