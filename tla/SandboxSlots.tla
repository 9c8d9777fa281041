----------------------------- MODULE SandboxSlots -----------------------------
(***************************************************************************)
(* The slots of the sandbox for the scans of the main path                 *)
(* (_sandboxSemaphore, src/src/sandbox/index.js): a first-publish run      *)
(* waits for one, a suspect's run only takes one that is free.  The runs   *)
(* of the deferred worker have slots of their own (DeferredSandbox).       *)
(***************************************************************************)
EXTENDS Naturals, Sequences

CONSTANT SandboxMax  \* SANDBOX_CONCURRENCY_MAX

ASSUME SandboxAssumption == SandboxMax \in Nat \ {0}

VARIABLES slots,    \* _sandboxSemaphore.active
          slotLine  \* _sandboxSemaphore.queue

sandboxVars == <<slots, slotLine>>

SlotsTypeOK(Runs) == slots \in 0..SandboxMax /\ slotLine \in Seq(Runs)

SlotsInit == slots = 0 /\ slotLine = <<>>

\* acquireSandboxSlot and tryAcquireSandboxSlot, a slot is free.
SlotTaken == slots < SandboxMax /\ slots' = slots + 1 /\ UNCHANGED slotLine

\* acquireSandboxSlot, all are taken.
SlotAwaited(r) == slots = SandboxMax /\ slotLine' = Append(slotLine, r) /\ UNCHANGED slots

\* releaseSandboxSlot: handed to the head of the line, or given back.
SlotReleased ==
  \/ slotLine # <<>> /\ slotLine' = Tail(slotLine) /\ UNCHANGED slots
  \/ slotLine = <<>> /\ slots' = slots - 1 /\ UNCHANGED slotLine

=============================================================================
