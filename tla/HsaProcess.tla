----------------------------- MODULE HsaProcess -----------------------------
(* The emulator's process.  HSA_DEBUG_LOG, the program's answer to most       *)
(* errors, prints its message and exits: it does not return, so the clean-up  *)
(* that the code has after a use of it is never reached.                      *)
VARIABLE process   \* "up" until the process exits

ProcessTypeOK == process \in {"up", "exited"}
HSA_DEBUG_LOG == process' = "exited"
=============================================================================
