-------------------------- MODULE KernelLoadProofs --------------------------
(***************************************************************************)
(* For any BRIGs, dispatches and hash function: the object cache claims no *)
(* BRIG it does not hold, and what the CUs execute is the code, the entry  *)
(* and the arguments of the dispatch in service (Spec of CodeCache).       *)
(*                                                                         *)
(* The code cache with the link loader opened up (LoadSpec) implements the *)
(* code cache in which linking is one step; so the kernel that runs is the *)
(* one that was asked for, relocated to its end, for all objects too.      *)
(***************************************************************************)
EXTENDS KernelLoad, LinkLoaderProofs, SequenceTheorems, TLAPS

USE DispatchAssumption DEF ProcessTypeOK, HSA_DEBUG_LOG, Goto, Exit

----------------------------------------------------------------------------
(* The static buffers *)

\* The first n pages of a buffer are those of a thing.
Holds(buffer, thing, n) ==
    Len(buffer) >= n /\ \A k \in 1 .. n : buffer[k] = <<thing, k>>

\* Writing page n of a buffer leaves a buffer, at least n pages long, in which
\* only that page has changed.
LEMMA WrittenPages ==
  ASSUME NEW S, NEW buffer \in Seq(S), NEW n \in Nat \ {0}, NEW page \in S, None \in S
  PROVE  /\ Written(buffer, n, page) \in Seq(S)
         /\ Len(Written(buffer, n, page)) >= n
         /\ \A k \in 1 .. Len(buffer) :
              k # n => Written(buffer, n, page)[k] = buffer[k]
<1> DEFINE m == IF n > Len(buffer) THEN n ELSE Len(buffer)
<1>1. Len(buffer) \in Nat /\ buffer \in [1 .. Len(buffer) -> S]
  BY LenProperties
<1>2. m \in Nat /\ n \in 1 .. m /\ \A k \in 1 .. Len(buffer) : k \in 1 .. m
  BY <1>1
<1>3. Written(buffer, n, page) \in [1 .. m -> S]
  BY <1>1, <1>2 DEF Written
<1>4. Written(buffer, n, page) \in Seq(S)
  <2>1. m \in Nat /\ Seq(S) = UNION {[1 .. k -> S] : k \in Nat}
    BY <1>2, SeqDef
  <2> HIDE DEF m
  <2> QED
    BY <1>3, <2>1
<1>5. Len(Written(buffer, n, page)) = m
  <2>1. DOMAIN Written(buffer, n, page) = 1 .. m
    BY <1>3
  <2>2. /\ DOMAIN Written(buffer, n, page) = 1 .. Len(Written(buffer, n, page))
        /\ Len(Written(buffer, n, page)) \in Nat
    BY <1>4, LenProperties
  <2> HIDE DEF m
  <2> QED
    BY <1>2, <2>1, <2>2
<1> QED
  BY <1>1, <1>2, <1>4, <1>5 DEF Written

\* So a copy that has come to page n comes to page n + 1.
LEMMA WrittenHolds ==
  ASSUME NEW S, NEW buffer \in Seq(S), NEW n \in Nat \ {0}, NEW page \in S,
         NEW thing, None \in S, Holds(buffer, thing, n - 1)
  PROVE  page = <<thing, n>> => Holds(Written(buffer, n, page), thing, n)
<1> DEFINE w == Written(buffer, n, page)
<1>1. Len(w) >= n
  BY WrittenPages
<1>2. \A k \in 1 .. Len(buffer) : k # n => w[k] = buffer[k]
  BY WrittenPages
<1>3. Len(buffer) \in Nat
  BY LenProperties
<1>4. w[n] = page
  BY <1>3 DEF Written
<1> HIDE DEF w
<1> SUFFICES ASSUME page = <<thing, n>> PROVE Holds(w, thing, n)
  BY DEF w
<1>5. ASSUME NEW k \in 1 .. n - 1 PROVE w[k] = <<thing, k>>
  <2>1. k \in 1 .. Len(buffer) /\ k # n
    BY <1>3 DEF Holds
  <2>2. buffer[k] = <<thing, k>>
    BY DEF Holds
  <2> QED
    BY <1>2, <2>1, <2>2
<1>6. \A k \in 1 .. n : k = n \/ k \in 1 .. n - 1
  OBVIOUS
<1> QED
  BY <1>1, <1>4, <1>5, <1>6 DEF Holds

----------------------------------------------------------------------------
(* The inductive invariant *)

Theirs == BrigOf[task]

\* What is copied so far.
Copies ==
    /\ pc # "idle" => task \in Dispatch
    /\ pc \notin {"copy", "karg"} => at = 1
    /\ pc = "copy" => Holds(bin, Theirs, at - 1)
    /\ pc \in {"hash", "write"} => Holds(bin, Theirs, BrigPages[Theirs])
    /\ pc = "karg" => Holds(karg, task, at - 1)
    /\ pc = "run" => Holds(karg, task, ArgPages[task])

\* The pipes hold the BRIG in service while the monitor waits, else nothing.
Pipes ==
    {request, reply} \subseteq (IF pc = "read" THEN {Whole(Theirs), None} ELSE {None})

\* The hash belongs to the code, and from the comparison on to the BRIG in
\* service: during a conversion the cache claims code that is on its way.
Hashes ==
    /\ pc \in {"write", "read", "link", "karg", "run"} => prev_hash = Hash[Whole(Theirs)]
    /\ CacheIsHonest
    /\ code # None => \E b \in Brig : code = Whole(b)
    /\ pc \in {"karg", "run"} => code # None /\ kentry = <<code, NameOf[task]>>

IInv == TypeOK /\ Copies /\ Pipes /\ Hashes

\* A whole BRIG is something brigFile.bin may hold, and None is not one.
LEMMA WholeContents ==
  ASSUME NEW b \in Brig
  PROVE  Whole(b) \in Contents
BY DEF Whole, Pages, Contents, Page

\* Once the copy is complete, the monitor hashes and sends what it copied.
LEMMA CurrentIsWhole ==
  ASSUME task \in Dispatch, Holds(bin, Theirs, BrigPages[Theirs])
  PROVE  Current = Whole(Theirs)
BY DEF Holds, Current, Whole, Pages, Theirs

LEMMA InitIInv == Init => IInv
<1> SUFFICES ASSUME Init PROVE IInv
  OBVIOUS
<1>1. bin \in Seq(Page) /\ karg \in Seq((Dispatch \X Nat) \cup {None})
  BY EmptySeq DEF Init
<1> QED
  BY <1>1 DEF Init, IInv, TypeOK, Pcs, Copies, Pipes, Hashes, CacheIsHonest

----------------------------------------------------------------------------
(* The steps, one lemma for each part of the invariant *)

LEMMA NextTypeOK ==
  ASSUME IInv, [Next]_vars
  PROVE  TypeOK'
<1> USE DEF IInv
<1>1. CASE Prepare
  BY <1>1 DEF Prepare, TypeOK, Pcs
<1>2. CASE CopyPage
  <2>1. task \in Dispatch /\ BrigPages[BrigOf[task]] \in Nat /\ pc = "copy"
    BY <1>2 DEF CopyPage, Copies
  <2>2. CASE Goto("idle") /\ at' = 1 /\ bin' = bin
    BY <1>2, <2>1, <2>2 DEF CopyPage, TypeOK, Pcs
  <2>3. CASE /\ bin' = Written(bin, at, <<BrigOf[task], at>>)
             /\ at' = at + 1 /\ Goto("copy")
    <3>1. <<BrigOf[task], at>> \in Page /\ None \in Page
      BY <1>2, <2>1 DEF CopyPage, TypeOK, Page
    <3>2. bin' \in Seq(Page)
      BY <2>3, <3>1, WrittenPages DEF TypeOK
    <3> QED
      BY <1>2, <2>1, <2>3, <3>2 DEF CopyPage, TypeOK, Pcs
  <2> QED
    BY <1>2, <2>2, <2>3 DEF CopyPage
<1>3. CASE Copied
  BY <1>3 DEF Copied, TypeOK, Pcs
<1>4. CASE HashCheck
  <2>1. Hash[Current] \in Nat
    BY <1>4, CurrentIsWhole DEF HashCheck, Copies, Theirs
  <2>2. pc' \in {"link", "write"} /\ process' = process
    BY <1>4 DEF HashCheck
  <2> QED
    BY <1>4, <2>1, <2>2 DEF HashCheck, TypeOK, Pcs, copy
<1>5. CASE Write
  <2>1. Current \in Contents
    BY <1>5, CurrentIsWhole, WholeContents DEF Write, Copies, Theirs
  <2>2. reply = None
    BY <1>5 DEF Write, Pipes
  <2> QED
    BY <1>5, <2>1, <2>2 DEF Write, TypeOK, Pcs, copy
<1>6. CASE Convert
  BY <1>6 DEF Convert, TypeOK, copy
<1>7. CASE Read
  BY <1>7 DEF Read, TypeOK, Pcs, copy
<1>8. CASE Link
  BY <1>8 DEF Link, Linked, TypeOK, Pcs, copy, Copies
<1>9. CASE CopyArg
  <2>1. task \in Dispatch /\ ArgPages[task] \in Nat /\ pc = "karg"
    BY <1>9 DEF CopyArg, Copies
  <2>2. CASE Goto("idle") /\ at' = 1 /\ karg' = karg
    BY <1>9, <2>1, <2>2 DEF CopyArg, TypeOK, Pcs
  <2>3. CASE /\ karg' = Written(karg, at, <<task, at>>)
             /\ at' = at + 1 /\ Goto("karg")
    <3>1. karg' \in Seq((Dispatch \X Nat) \cup {None})
      BY <2>1, <2>3, WrittenPages DEF TypeOK
    <3> QED
      BY <1>9, <2>1, <2>3, <3>1 DEF CopyArg, TypeOK, Pcs
  <2> QED
    BY <1>9, <2>2, <2>3 DEF CopyArg
<1>10. CASE ArgsCopied
  BY <1>10 DEF ArgsCopied, TypeOK, Pcs
<1>11. CASE Run
  BY <1>11 DEF Run, TypeOK, Pcs, copy
<1>12. CASE UNCHANGED vars
  BY <1>12 DEF vars, cacheVars, copy, TypeOK
<1> QED
  BY <1>1, <1>2, <1>3, <1>4, <1>5, <1>6, <1>7, <1>8, <1>9, <1>10, <1>11, <1>12 DEF Next

\* The copies go on, page by page, and nothing else touches the buffers.
LEMMA NextCopies ==
  ASSUME IInv, [Next]_vars
  PROVE  Copies'
<1> USE DEF IInv, Copies, Theirs
<1>0. at \in Nat \ {0} /\ bin \in Seq(Page) /\ karg \in Seq((Dispatch \X Nat) \cup {None})
  BY DEF TypeOK
<1>1. CASE Prepare
  <2>1. Len(bin) \in Nat
    BY <1>0, LenProperties
  <2> QED
    BY <1>1, <2>1 DEF Prepare, Holds
<1>2. CASE CopyPage
  <2>1. task \in Dispatch /\ BrigPages[BrigOf[task]] \in Nat /\ pc = "copy"
    BY <1>2 DEF CopyPage
  <2>2. CASE Goto("idle") /\ at' = 1 /\ bin' = bin
    BY <1>2, <2>1, <2>2 DEF CopyPage
  <2>3. CASE /\ bin' = Written(bin, at, <<BrigOf[task], at>>)
             /\ at' = at + 1 /\ Goto("copy")
    <3>1. <<BrigOf[task], at>> \in Page /\ None \in Page
      BY <1>0, <1>2, <2>1 DEF CopyPage, Page
    <3>2. Holds(bin', BrigOf[task], at)
      BY <1>0, <2>1, <2>3, <3>1, WrittenHolds
    <3> QED
      BY <1>0, <1>2, <2>1, <2>3, <3>2 DEF CopyPage
  <2> QED
    BY <1>2, <2>2, <2>3 DEF CopyPage
<1>3. CASE Copied
  <2>1. at - 1 = BrigPages[BrigOf[task]]
    BY <1>0, <1>3 DEF Copied, TypeOK
  <2> QED
    BY <1>3, <2>1 DEF Copied
<1>4. CASE HashCheck
  BY <1>4 DEF HashCheck, copy
<1>5. CASE Write
  BY <1>5 DEF Write, copy
<1>6. CASE Convert
  BY <1>6 DEF Convert, copy
<1>7. CASE Read
  BY <1>7 DEF Read, copy
<1>8. CASE Link
  <2>1. Len(karg) \in Nat
    BY <1>0, LenProperties
  <2> QED
    BY <1>8, <2>1 DEF Link, Linked, copy, Holds
<1>9. CASE CopyArg
  <2>1. task \in Dispatch /\ ArgPages[task] \in Nat /\ pc = "karg"
    BY <1>9 DEF CopyArg
  <2>2. CASE Goto("idle") /\ at' = 1 /\ karg' = karg
    BY <1>9, <2>1, <2>2 DEF CopyArg
  <2>3. CASE /\ karg' = Written(karg, at, <<task, at>>)
             /\ at' = at + 1 /\ Goto("karg")
    <3>1. Holds(karg', task, at)
      BY <1>0, <2>1, <2>3, WrittenHolds
    <3> QED
      BY <1>0, <1>9, <2>1, <2>3, <3>1 DEF CopyArg
  <2> QED
    BY <1>9, <2>2, <2>3 DEF CopyArg
<1>10. CASE ArgsCopied
  <2>1. at - 1 = ArgPages[task]
    <3>1. ArgPages[task] \in Nat
      BY <1>10 DEF ArgsCopied
    <3> QED
      BY <1>0, <1>10, <3>1 DEF ArgsCopied, TypeOK
  <2> QED
    BY <1>10, <2>1 DEF ArgsCopied
<1>11. CASE Run
  BY <1>11 DEF Run, copy
<1>12. CASE UNCHANGED vars
  BY <1>12 DEF vars, cacheVars, copy
<1> QED
  BY <1>1, <1>2, <1>3, <1>4, <1>5, <1>6, <1>7, <1>8, <1>9, <1>10, <1>11, <1>12 DEF Next

\* Nothing of an earlier dispatch is left in the pipes.
LEMMA NextPipes ==
  ASSUME IInv, [Next]_vars
  PROVE  Pipes'
<1> USE DEF IInv, Pipes, Theirs
<1>1. CASE Write
  <2>1. Current = Whole(Theirs)
    BY <1>1, CurrentIsWhole DEF Write, Copies
  <2> QED
    BY <1>1, <2>1 DEF Write, copy
<1>2. CASE Convert
  BY <1>2 DEF Convert, copy
<1>3. CASE Read
  BY <1>3, WholeContents DEF Read, copy, TypeOK
<1>4. CASE UNCHANGED vars
  BY <1>4 DEF vars, cacheVars
<1>5. CASE Prepare \/ CopyPage \/ Copied \/ HashCheck
  BY <1>5 DEF Prepare, CopyPage, Copied, HashCheck
<1>6. CASE Link \/ CopyArg \/ ArgsCopied \/ Run
  BY <1>6 DEF Link, Linked, CopyArg, ArgsCopied, Run
<1> QED
  BY <1>1, <1>2, <1>3, <1>4, <1>5, <1>6 DEF Next

\* The comparison settles the hash, the conversion the code that goes with it.
LEMMA NextHashes ==
  ASSUME IInv, [Next]_vars
  PROVE  Hashes'
<1> USE DEF IInv, Hashes, CacheIsHonest, Theirs
<1>1. CASE HashCheck
  <2>1. Current = Whole(Theirs)
    BY <1>1, CurrentIsWhole DEF HashCheck, Copies
  <2> QED
    BY <1>1, <2>1 DEF HashCheck, copy
<1>2. CASE Read
  <2>1. task \in Dispatch /\ Theirs \in Brig
    BY <1>2 DEF Read, Copies
  <2>2. CASE reply # None /\ code' = reply /\ Goto("link")
    <3>1. code' = Whole(Theirs)
      BY <1>2, <2>2 DEF Read, Pipes
    <3> QED
      BY <1>2, <2>1, <2>2, <3>1 DEF Read, copy
  <2> QED
    BY <1>2, <2>2 DEF Read, copy
<1>3. CASE Link
  BY <1>3 DEF Link, Linked, copy
<1>4. CASE UNCHANGED vars
  BY <1>4 DEF vars, cacheVars
<1>5. CASE Prepare \/ CopyPage \/ Copied
  BY <1>5 DEF Prepare, CopyPage, Copied
<1>6. CASE Write \/ Convert
  BY <1>6 DEF Write, Convert
<1>7. CASE CopyArg \/ ArgsCopied \/ Run
  BY <1>7 DEF CopyArg, ArgsCopied, Run
<1> QED
  BY <1>1, <1>2, <1>3, <1>4, <1>5, <1>6, <1>7 DEF Next

\* The invariant holds of every step of hsa_prepare_code_cache
\* (hsa_agent.c:323-453).
THEOREM Invariance == Spec => []IInv
<1>1. IInv /\ [Next]_vars => IInv'
  BY NextTypeOK, NextCopies, NextPipes, NextHashes DEF IInv
<1> QED
  BY <1>1, InitIInv, PTL DEF Spec

----------------------------------------------------------------------------

\* The types of the globals, for every number of pages (hsa_agent.c:330-460).
THEOREM TypesHold == Spec => []TypeOK
<1>1. IInv => TypeOK
  BY DEF IInv
<1> QED
  BY <1>1, Invariance, PTL

\* A hash that is equal to the one before is the hash of the code in the cache;
\* where the hashes tell the BRIGs apart, that is the code the dispatch in
\* service asked for (hsa_agent.c:373-383,442-453).
THEOREM CodeIsCurrentHolds == Spec => []CodeIsCurrent
<1>1. ASSUME IInv PROVE CodeIsCurrent
  <2> USE <1>1 DEF IInv
  <2> SUFFICES ASSUME HashesApart, pc = "run"
               PROVE  /\ code = Whole(BrigOf[task])
                      /\ kentry = <<code, NameOf[task]>>
                      /\ \A k \in 1 .. ArgPages[task] : karg[k] = Arguments(task)[k]
    BY DEF CodeIsCurrent, Hashes
  <2>1. task \in Dispatch /\ BrigOf[task] \in Brig
    BY DEF Copies
  <2>2. /\ code # None /\ prev_hash = Hash[code] /\ kentry = <<code, NameOf[task]>>
        /\ prev_hash = Hash[Whole(BrigOf[task])]
    BY DEF Hashes, CacheIsHonest, Theirs
  <2>3. PICK b \in Brig : code = Whole(b)
    BY <2>2 DEF Hashes
  <2>4. b = BrigOf[task]
    BY <2>1, <2>2, <2>3 DEF HashesApart
  <2>5. \A k \in 1 .. ArgPages[task] : karg[k] = Arguments(task)[k]
    BY DEF Copies, Holds, Arguments, Pages
  <2> QED
    BY <2>2, <2>3, <2>4, <2>5
<1> QED
  BY <1>1, Invariance, PTL

----------------------------------------------------------------------------
(* The link loader opened up *)

HIDE DispatchAssumption DEF ProcessTypeOK


\* The two halves of the state: cc_producer only runs where the monitor links,
\* and the object is the one made of the contents in the cache.
Together ==
    /\ objectOf \in [Brig -> Objects \cup {Zeroed}]
    /\ linkPc # "idle" => pc = "link" /\ obj # Zeroed
    /\ code # None => obj = ObjectFile(code)
    /\ process = "up" /\ code = None => obj = Zeroed
    /\ pc \in {"karg", "run"} => Len(patched) = Len(obj.relocs)

LoadIInv == IInv /\ LinkIInv /\ Together

\* What the converter makes is an object, or nothing.
LEMMA ObjectFileType ==
  ASSUME objectOf \in [Brig -> Objects \cup {Zeroed}], NEW contents
  PROVE  ObjectFile(contents) \in Objects \cup {Zeroed}
BY DEF ObjectFile

LEMMA InitLoadIInv == LoadInit => LoadIInv
<1> SUFFICES ASSUME LoadInit PROVE LoadIInv
  OBVIOUS
<1>1. IInv /\ LinkIInv
  BY InitIInv, InitLinkIInv DEF LoadInit
<1> QED
  BY <1>1, ConversionsAssumption DEF LoadInit, Init, LinkInit, Together, LoadIInv

----------------------------------------------------------------------------
(* The refinement *)

\* Every step of the detailed module is a step of the code cache, or none:
\* cc_producer ends in its one step Link, or ends the process.
LEMMA StepImplements ==
  ASSUME Together, [LoadNext]_loadVars
  PROVE  [Next]_vars
<1>1. CASE UNCHANGED loadVars
  BY <1>1 DEF loadVars
<1>2. CASE process = "up" /\ Linking
  <2>1. pc = "link" /\ UNCHANGED cacheVars
    BY <1>2 DEF Linking
  <2>2. CASE process' = process
    BY <2>1, <2>2 DEF vars
  <2>3. CASE process' # process
    <3>1. HSA_DEBUG_LOG
      BY <1>2, <2>3 DEF Linking, LinkBegin, LinkStep, LinkFails, Size, Allocate,
           RelocateVariable, RelocateOther, RelocateFails, RelocateDone, LookupFails
    <3> QED
      BY <1>2, <2>1, <3>1 DEF Next, Link, Exit, cacheVars, copy
  <2> QED
    BY <2>2, <2>3
<1>3. CASE process = "up" /\ Return
  <2>1. code # None
    BY <1>3 DEF Together, Return, LookupFound
  <2> QED
    BY <1>3, <2>1 DEF Return, Next, Link
<1>4. CASE process = "up" /\ (ConvertObject \/ ReadObject)
  BY <1>4 DEF ConvertObject, ReadObject, Next
<1>5. CASE /\ process = "up"
           /\ \/ Prepare \/ CopyPage \/ Copied \/ HashCheck \/ Write
              \/ CopyArg \/ ArgsCopied \/ Run
  BY <1>5 DEF Next
<1> QED
  BY <1>1, <1>2, <1>3, <1>4, <1>5 DEF LoadNext

----------------------------------------------------------------------------
(* The steps *)

\* Reading an object begins with nothing relocated.
LEMMA ReadKeepsLink ==
  ASSUME LoadIInv, ReadObject
  PROVE  LinkIInv'
<1>1. /\ obj' \in Objects \cup {Zeroed} /\ patched' = <<>>
      /\ linkPc = "idle" /\ UNCHANGED <<linkPc, i, block>>
  BY ObjectFileType DEF LoadIInv, Together, ReadObject, Read
<1>2. patched' \in Seq([addr : Nat, value : Int32]) /\ Len(patched') = 0
  BY <1>1, EmptySeq
<1>3. LinkTypeOK'
  BY <1>1, <1>2 DEF LoadIInv, LinkIInv, LinkTypeOK, block
<1>4. Len(obj'.relocs) \in Nat
  <2>1. obj'.relocs \in Seq(Relocations)
    BY <1>1, ObjectsAssumption
  <2> QED
    BY <2>1, LenProperties
<1>5. DOMAIN patched' = {}
  BY <1>1
<1>6. Sizing'
  BY <1>1 DEF Sizing
<1> QED
  BY <1>1, <1>2, <1>3, <1>4, <1>5, <1>6
  DEF LinkIInv, Progress, Values, Bump, Given, BlocksAligned

LEMMA NextLoadIInv == LoadIInv /\ [LoadNext]_loadVars => LoadIInv'
<1> SUFFICES ASSUME LoadIInv, [LoadNext]_loadVars PROVE LoadIInv'
  OBVIOUS
<1>1. IInv'
  <2>1. [Next]_vars
    BY StepImplements DEF LoadIInv
  <2> QED
    BY <2>1, NextTypeOK, NextCopies, NextPipes, NextHashes DEF LoadIInv, IInv
<1>2. LinkIInv'
  <2>1. CASE ReadObject
    BY <2>1, ReadKeepsLink
  <2>2. CASE ~ReadObject
    <3>1. [LinkAction]_linkVars
      BY <2>2 DEF LoadNext, loadVars, ConvertObject, Linking, Return, LinkAction
    <3> QED
      BY <3>1, LinkIInvStep DEF LoadIInv
  <2> QED
    BY <2>1, <2>2
<1>3. Together'
  <2> USE DEF LoadIInv, Together
  <2>1. CASE UNCHANGED loadVars
    BY <2>1 DEF loadVars, vars, cacheVars, linkVars, ObjectFile
  <2>2. CASE ReadObject
    BY <2>2 DEF ReadObject, Read, ObjectFile
  <2>3. CASE Linking /\ process = "up"
    <3>1. /\ obj' = obj
          /\ linkPc' # "idle" => obj # Zeroed
          /\ pc = "link" /\ UNCHANGED <<pc, code, objectOf>>
      BY <2>3 DEF Linking, cacheVars, LinkBegin, LinkStep, LinkFails, linkVars, Size, Allocate,
           RelocateVariable, RelocateOther, RelocateFails, RelocateDone, LookupFails
    <3>2. ObjectFile(code)' = ObjectFile(code)
      BY <3>1 DEF ObjectFile
    <3> QED
      BY <2>3, <3>1, <3>2
  <2>4. CASE Return /\ process = "up"
    <3>1. /\ UNCHANGED <<code, obj, patched, objectOf>> /\ linkPc' = "idle" /\ pc' = "karg"
          /\ Len(patched) = Len(obj.relocs) /\ obj # Zeroed
      BY <2>4 DEF Return, LookupFound, Linked, LinkIInv, Progress
    <3>2. ObjectFile(code)' = ObjectFile(code)
      BY <3>1 DEF ObjectFile
    <3> QED
      BY <2>4, <3>1, <3>2
  <2>5. CASE ConvertObject
    BY <2>5 DEF ConvertObject, Convert, linkVars, ObjectFile
  <2>6. CASE /\ process = "up" /\ UNCHANGED <<linkVars, objectOf>>
             /\ Prepare \/ CopyPage \/ Copied \/ HashCheck \/ Write
    <3>1. /\ UNCHANGED <<code, obj, linkPc, patched, objectOf>> /\ pc # "link"
          /\ process' = "up" => process = "up"
      BY <2>6 DEF Prepare, CopyPage, Copied, HashCheck, Write, linkVars
    <3>2. ObjectFile(code)' = ObjectFile(code)
      BY <3>1 DEF ObjectFile
    <3>3. pc' \notin {"karg", "run"}
      BY <2>6 DEF Prepare, CopyPage, Copied, HashCheck, Write
    <3> QED
      BY <3>1, <3>2, <3>3
  <2>7. CASE /\ process = "up" /\ UNCHANGED <<linkVars, objectOf>>
             /\ CopyArg \/ ArgsCopied \/ Run
    <3>1. /\ UNCHANGED <<code, obj, linkPc, patched, objectOf>> /\ pc # "link"
          /\ pc' \in {"karg", "run"} => pc \in {"karg", "run"}
          /\ process' = "up" => process = "up"
      BY <2>7 DEF CopyArg, ArgsCopied, Run, linkVars
    <3>2. ObjectFile(code)' = ObjectFile(code)
      BY <3>1 DEF ObjectFile
    <3> QED
      BY <3>1, <3>2
  <2> QED
    BY <2>1, <2>2, <2>3, <2>4, <2>5, <2>6, <2>7 DEF LoadNext
<1> QED
  BY <1>1, <1>2, <1>3 DEF LoadIInv

\* The invariants of the code cache and of the link loader hold together, whatever
\* order of dispatches reads, links and links again (hsa_agent.c:323-453).
THEOREM LoadInvariance == LoadSpec => []LoadIInv
  BY InitLoadIInv, NextLoadIInv, PTL DEF LoadSpec

----------------------------------------------------------------------------

\* The code cache with cc_producer opened up implements the code cache whose
\* link step is one (hsa_agent.c:442-449, hsa_linkloader.c:566-616).
THEOREM LoadImplementsCodeCache == LoadSpec => ImplementsCodeCache
<1>1. LoadInit => Init
  BY DEF LoadInit
<1>2. LoadIInv /\ [LoadNext]_loadVars => [Next]_vars
  BY StepImplements DEF LoadIInv
<1> QED
  BY <1>1, <1>2, LoadInvariance, PTL DEF LoadSpec, Spec, ImplementsCodeCache

\* The types of the two modules together.
THEOREM LoadTypesHold == LoadSpec => []LoadTypeOK
<1>1. LoadIInv => LoadTypeOK
  BY DEF LoadIInv, IInv, LinkIInv, Together, LoadTypeOK
<1> QED
  BY <1>1, LoadInvariance, PTL

\* What runs is the code of the dispatch in service, with its arguments.
THEOREM LoadedCodeIsCurrent == LoadSpec => []CodeIsCurrent
  BY LoadImplementsCodeCache, CodeIsCurrentHolds, PTL DEF ImplementsCodeCache

\* Linking again, in place, for each dispatch that finds the object cached keeps
\* the blocks disjoint, aligned and inside the memory that was sized; and what is
\* stored in each place makes the processor see its target, of which a 64-bit place
\* keeps the low half only (hsa_linkloader.c:162-186,333,350-374,402-445).
THEOREM LoadedIsLinkedRight == LoadSpec => [](BlocksSound /\ PassesAgree /\ RelocationResolves)
<1>1. LoadIInv => BlocksSound
  BY BlocksFromBump DEF LoadIInv
<1>2. LoadIInv => PassesAgree
  BY AgreeFromSizing DEF LoadIInv
<1>3. LoadIInv => RelocationResolves
  BY ResolvesFromValues DEF LoadIInv
<1> QED
  BY <1>1, <1>2, <1>3, LoadInvariance, PTL

\* What runs is the object made of the BRIG in service, with all its relocations
\* done (hsa_agent.c:379-383,430,442, hsa_linkloader.c:447-490).
THEOREM FullyLinkedHolds == LoadSpec => []FullyLinked
<1>1. ASSUME LoadIInv, CodeIsCurrent PROVE FullyLinked
  <2> SUFFICES ASSUME pc = "run", HashesApart
               PROVE  /\ linkPc = "idle" /\ obj = objectOf[BrigOf[task]]
                      /\ Len(patched) = Len(obj.relocs)
    BY DEF FullyLinked
  <2>1. code = Whole(BrigOf[task]) /\ code # None
    BY <1>1 DEF CodeIsCurrent, LoadIInv, IInv, Hashes
  <2>2. BrigOf[task] \in Brig
    BY <1>1, DispatchAssumption DEF LoadIInv, IInv, Copies
  <2>3. \A b \in Brig : code = Whole(b) => b = BrigOf[task]
    BY <2>1, <2>2 DEF HashesApart
  <2>4. ObjectFile(code) = objectOf[BrigOf[task]]
    BY <2>1, <2>2, <2>3 DEF ObjectFile
  <2> QED
    BY <1>1, <2>1, <2>4 DEF LoadIInv, Together
<1> QED
  BY <1>1, LoadInvariance, LoadedCodeIsCurrent, PTL
=============================================================================
