----------------------------- MODULE CodeCache -----------------------------
(***************************************************************************)
(* The code cache: what hsa_prepare_code_cache leaves in global_cc over a  *)
(* sequence of dispatches.  A kernel comes as a BRIG; a converter process, *)
(* at the other end of two pipes, turns it into an object file; the        *)
(* monitor reads that file into global_cc.code and links it in place.      *)
(* When the BRIG has the hash of the previous one, the monitor links the   *)
(* code it has.  The BRIG and the kernel's arguments are copied from guest *)
(* memory page by page into static buffers; each page may fault, and a     *)
(* fault is a longjmp out of the function from wherever it is.             *)
(* X_Suffix is a plausible bug in the definition X after it.               *)
(***************************************************************************)
EXTENDS Integers, Sequences, HsaProcess

CONSTANTS
    Dispatch,   \* dispatches, each with kernel arguments of its own
    Brig,       \* the BRIGs they name, each with one or more kernels
    BrigOf,     \* the BRIG of each dispatch,
    NameOf,     \* the name of its kernel,
    ArgPages,   \* and the number of guest pages its arguments take
    BrigPages,  \* the number of guest pages a BRIG takes
    None,       \* nothing: the zeroed globals
    Hash        \* fast_hash of what brigFile.bin may hold, an unsigned number

\* Guest pages: of a BRIG, and of a dispatch's arguments.
Pages(thing, n) == [k \in 1 .. n |-> <<thing, k>>]
Whole(b) == Pages(b, BrigPages[b])
Arguments(d) == Pages(d, ArgPages[d])
\* What the first pages of brigFile.bin may hold, in whatever mixture.
Page == {None} \cup UNION {{<<b, k>> : k \in 1 .. BrigPages[b]} : b \in Brig}
Contents == UNION {[1 .. BrigPages[b] -> Page] : b \in Brig}

ASSUME DispatchAssumption ==
    /\ BrigOf \in [Dispatch -> Brig]
    /\ BrigPages \in [Brig -> Nat \ {0}] /\ ArgPages \in [Dispatch -> Nat]
    /\ DOMAIN NameOf = Dispatch
    /\ \A b \in Brig : Hash[Whole(b)] \in Nat
    /\ None \notin Dispatch \cup Brig

VARIABLES
    pc,         \* where the monitor is in hsa_prepare_code_cache
    task,       \* the dispatch it prepares
    at,         \* the next page hsa_copy_from_guest will copy
    bin,        \* brigFile.bin, its pages
    prev_hash,  \* the static variable, 0 at first
    request,    \* what the pipe to the converter holds of a BRIG
    reply,      \* the contents whose object file the pipe from it names
    code,       \* the contents whose object is in global_cc.code
    kentry,     \* global_cc.kentry: the object and the kernel it belongs to
    karg        \* global_cc.karg, its pages

copy == <<at, bin>>
cacheVars == <<pc, task, copy, prev_hash, request, reply, code, kentry, karg>>
vars == <<cacheVars, process>>

Pcs == {"idle", "copy", "hash", "write", "read", "link", "karg", "run"}

TypeOK ==
    /\ pc \in Pcs /\ ProcessTypeOK
    /\ task \in Dispatch \cup {None}
    /\ at \in Nat \ {0}
    /\ pc = "copy" => at <= BrigPages[BrigOf[task]] + 1
    /\ pc = "karg" => at <= ArgPages[task] + 1
    /\ bin \in Seq(Page)
    /\ prev_hash \in Nat
    /\ {request, reply, code} \subseteq Contents \cup {None}
    /\ request = None \/ reply = None
    /\ karg \in Seq((Dispatch \X Nat) \cup {None})

Init ==
    /\ pc = "idle" /\ task = None /\ at = 1 /\ bin = <<>> /\ prev_hash = 0
    /\ request = None /\ reply = None /\ code = None /\ kentry = None
    /\ karg = <<>> /\ process = "up"

----------------------------------------------------------------------------
(* Shared vocabulary *)

Goto(next) == pc' = next /\ process' = process
Exit == HSA_DEBUG_LOG /\ pc' = pc

\* A static buffer with page n replaced; pages nobody wrote are zero.
Written(buffer, n, page) ==
    [k \in 1 .. (IF n > Len(buffer) THEN n ELSE Len(buffer)) |->
        IF k = n THEN page ELSE IF k <= Len(buffer) THEN buffer[k] ELSE None]

\* What hsa_prepare_code_cache takes for the BRIG of its task.
Current == [k \in 1 .. BrigPages[BrigOf[task]] |-> bin[k]]

----------------------------------------------------------------------------

\* The monitor has a new dispatch; the limits on its sizes may refuse it.
Prepare ==
    /\ pc = "idle"
    /\ \E d \in Dispatch : task' = d
    /\ at' = 1
    /\ Goto("copy") \/ Goto("idle")
    /\ UNCHANGED <<bin, prev_hash, request, reply, code, kentry, karg>>

\* hsa_copy_from_guest: one page of the BRIG into brigFile.bin, or a fault.
CopyPage ==
    /\ pc = "copy" /\ at <= BrigPages[BrigOf[task]]
    /\ \/ Goto("idle") /\ at' = 1 /\ bin' = bin
       \/ /\ bin' = Written(bin, at, <<BrigOf[task], at>>)
          /\ at' = at + 1 /\ Goto("copy")
    /\ UNCHANGED <<task, prev_hash, request, reply, code, kentry, karg>>

Copied ==
    /\ pc = "copy" /\ at > BrigPages[BrigOf[task]]
    /\ at' = 1 /\ Goto("hash")
    /\ UNCHANGED <<task, bin, prev_hash, request, reply, code, kentry, karg>>

HashCheck_SkipsLink ==
    /\ pc = "hash"
    /\ prev_hash' = Hash[Current]
    /\ Goto(IF Hash[Current] = prev_hash THEN "karg" ELSE "write")
    /\ UNCHANGED <<task, copy, request, reply, code, kentry, karg>>
\* The object cache: is this the BRIG of the previous dispatch?
HashCheck ==
    /\ pc = "hash"
    /\ prev_hash' = Hash[Current]
    /\ Goto(IF Hash[Current] = prev_hash THEN "link" ELSE "write")
    /\ UNCHANGED <<task, copy, request, reply, code, kentry, karg>>

Write_FailsQuietly ==
    /\ pc = "write"
    /\ \/ Goto("read") /\ request' = Current
       \/ Goto("idle") /\ request' = request
    /\ UNCHANGED <<task, copy, prev_hash, reply, code, kentry, karg>>
\* The whole of brigFile is written to the pipe; a short write is fatal.
Write ==
    /\ pc = "write"
    /\ \/ Goto("read") /\ request' = Current
       \/ Exit /\ request' = request
    /\ UNCHANGED <<task, copy, prev_hash, reply, code, kentry, karg>>

Convert_KeepsRequest ==
    /\ request # None
    /\ reply' = request
    /\ UNCHANGED <<pc, task, copy, prev_hash, request, code, kentry, karg, process>>
\* brig2obj_pipe converts the BRIG and names the object file.
Convert ==
    /\ request # None
    /\ reply' = request /\ request' = None
    /\ UNCHANGED <<pc, task, copy, prev_hash, code, kentry, karg, process>>

\* The path is read, the file is read into the code cache and removed; a short
\* read, because the converter died for one, and any failure are fatal.
Read ==
    /\ pc = "read"
    /\ \/ /\ reply # None /\ reply' = None
          /\ code' = reply /\ Goto("link")
       \/ Exit /\ UNCHANGED <<reply, code>>
    /\ UNCHANGED <<task, copy, prev_hash, request, kentry, karg>>

\* cc_producer has found the kernel's entry.
Linked ==
    /\ kentry' = <<code, NameOf[task]>>
    /\ Goto("karg")
    /\ UNCHANGED <<task, copy, prev_hash, request, reply, code, karg>>

\* cc_producer (opened in module KernelLoad): an image it cannot link, which
\* the zeroed code is too, or a name that is not in it, is fatal.
Link ==
    /\ pc = "link"
    /\ \/ code # None /\ Linked
       \/ /\ Exit
          /\ UNCHANGED <<task, copy, prev_hash, request, reply, code, kentry, karg>>

\* hsa_copy_from_guest: one page of the kernel's arguments, or a fault.
CopyArg ==
    /\ pc = "karg" /\ at <= ArgPages[task]
    /\ \/ Goto("idle") /\ at' = 1 /\ karg' = karg
       \/ /\ karg' = Written(karg, at, <<task, at>>)
          /\ at' = at + 1 /\ Goto("karg")
    /\ UNCHANGED <<task, bin, prev_hash, request, reply, code, kentry>>

ArgsCopied ==
    /\ pc = "karg" /\ at > ArgPages[task]
    /\ at' = 1 /\ Goto("run")
    /\ UNCHANGED <<task, bin, prev_hash, request, reply, code, kentry, karg>>

\* The CUs execute the kernel (module HsaDispatch).
Run ==
    /\ pc = "run" /\ Goto("idle")
    /\ UNCHANGED <<task, copy, prev_hash, request, reply, code, kentry, karg>>

Next ==
    /\ process = "up"
    /\ \/ Prepare \/ CopyPage \/ Copied \/ HashCheck \/ Write \/ Convert \/ Read
       \/ Link \/ CopyArg \/ ArgsCopied \/ Run

Spec == Init /\ [][Next]_vars

----------------------------------------------------------------------------
(* Properties *)

\* fast_hash tells the BRIGs at hand apart, and gives none of them 0.
HashesApart ==
    /\ \A a, b \in Brig : Hash[Whole(a)] = Hash[Whole(b)] => a = b
    /\ \A a \in Brig : Hash[Whole(a)] # 0

\* The object cache never claims a BRIG it does not hold: when no conversion
\* is under way, prev_hash is the hash of the code (hsa_agent.c:378-383).
CacheIsHonest ==
    pc \notin {"write", "read"} /\ code # None => prev_hash = Hash[code]

\* The cache is honest; hence, as long as the hashes tell the BRIGs apart, the
\* CUs execute the code of the dispatch in service, at the entry of its own
\* kernel and with its own arguments, whatever faults in the middle of a copy and
\* refusals came between it and the dispatch that filled the cache
\* (hsa_agent.c:373-383,442-453).
CodeIsCurrent ==
    /\ CacheIsHonest
    /\ HashesApart /\ pc = "run" =>
         /\ code = Whole(BrigOf[task])
         /\ kentry = <<code, NameOf[task]>>
         /\ \A k \in 1 .. ArgPages[task] : karg[k] = Arguments(task)[k]
=============================================================================
