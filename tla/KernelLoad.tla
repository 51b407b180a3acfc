----------------------------- MODULE KernelLoad -----------------------------
(***************************************************************************)
(* The code cache and the link loader together: the step Link of CodeCache *)
(* is cc_producer, pass by pass, on the object that the converter made of  *)
(* the BRIG.  A cached object is linked again, in place, for each dispatch.*)
(***************************************************************************)
EXTENDS CodeCache, LinkLoader

CONSTANTS
    Conversions   \* what the converter may make of the BRIGs: functions from
                  \* Brig to Objects, or to Zeroed where the converter fails

ASSUME ConversionsAssumption == Conversions \subseteq [Brig -> Objects \cup {Zeroed}]

VARIABLES
    objectOf      \* the converter: one of Conversions, the same all along

loadVars == <<vars, linkVars, objectOf>>

LoadTypeOK == TypeOK /\ LinkTypeOK /\ objectOf \in [Brig -> Objects \cup {Zeroed}]

LoadInit == Init /\ LinkInit /\ obj = Zeroed /\ objectOf \in Conversions

\* The object made of what the converter was sent; no object, and no reply, when
\* that is not the whole of a BRIG.
ObjectFile(contents) ==
    IF \E b \in Brig : contents = Whole(b)
    THEN objectOf[CHOOSE b \in Brig : contents = Whole(b)] ELSE Zeroed

----------------------------------------------------------------------------

\* The converter process dies on what it cannot convert (Read then fails).
ConvertObject ==
    /\ request # None /\ ObjectFile(request) # Zeroed
    /\ Convert
    /\ UNCHANGED <<linkVars, objectOf>>

\* fread of the object file into global_cc.code.
ReadObject ==
    /\ Read
    /\ obj' = ObjectFile(code') /\ patched' = <<>>
    /\ UNCHANGED <<linkPc, i, block, objectOf>>

\* cc_producer goes on, or ends the process.
Linking ==
    /\ pc = "link" /\ (LinkBegin \/ LinkStep)
    /\ UNCHANGED <<cacheVars, objectOf>>

Return_WithoutArguments ==
    /\ pc = "link" /\ LookupFound
    /\ kentry' = <<code, NameOf[task]>> /\ Goto("run")
    /\ UNCHANGED <<task, copy, prev_hash, request, reply, code, karg, objectOf>>
\* cc_producer returns the entry.
Return ==
    /\ pc = "link" /\ LookupFound /\ Linked
    /\ UNCHANGED objectOf

LoadNext ==
    /\ process = "up"
    /\ \/ /\ Prepare \/ CopyPage \/ Copied \/ HashCheck \/ Write
             \/ CopyArg \/ ArgsCopied \/ Run
          /\ UNCHANGED <<linkVars, objectOf>>
       \/ ConvertObject \/ ReadObject \/ Linking \/ Return

LoadSpec == LoadInit /\ [][LoadNext]_loadVars

----------------------------------------------------------------------------
(* Properties *)

\* Seen from the code cache, cc_producer is one step, or ends the process: the
\* object is relocated in place, but no other part of global_cc changes until
\* the entry is stored (hsa_agent.c:442-449, hsa_linkloader.c:566-616).
ImplementsCodeCache == Spec

\* What runs is an object all of whose relocations were done, the one made of
\* the BRIG in service, whether it was just converted or has been in the cache
\* for many dispatches (hsa_agent.c:379-383,430,442, hsa_linkloader.c:447-490).
FullyLinked ==
    pc = "run" /\ HashesApart =>
        /\ linkPc = "idle" /\ obj = objectOf[BrigOf[task]]
        /\ Len(patched) = Len(obj.relocs)
=============================================================================
