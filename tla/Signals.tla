------------------------------ MODULE Signals ------------------------------
(***************************************************************************)
(* Signal delivery to one process: pending_signals, signal_mask and        *)
(* signal_handlers of struct proc, sig_handler_runner() at trapret, the    *)
(* artificial stack frame it builds for a user handler, the implicit       *)
(* sigret that takes it down, and what sigaction, sigprocmask, exec and    *)
(* fork do to all of these (proc.c, exec.c, implicit_sigret.S).            *)
(*                                                                         *)
(* The process runs on one CPU; kill() runs on another or is interleaved   *)
(* on the same one.  Both update pending_signals with plain instructions,  *)
(* and the runner without ptable.lock, so that a read and the following    *)
(* write are two steps.                                                    *)
(*                                                                         *)
(* The user stack grows by whole units: one for the trap frame the runner  *)
(* copies there, one for the trampoline with the handler's argument and    *)
(* return address.                                                         *)
(***************************************************************************)
EXTENDS Naturals, Sequences, FiniteSets

CONSTANTS
    Sigs,           \* the signal numbers used
    Masks,          \* the signal masks that programs set
    MaxSends,       \* bound: how many signals are sent
    MaxImages,      \* bound: how many programs the process executes
    Spacings,       \* {TRUE}, {FALSE} or both: the choices for spaced
    HandlerCalls    \* the system calls that user handlers make

SIGKILL == 9
SIGSTOP == 17
SIGCONT == 19
SIG_DFL == 0
SIG_IGN == 1

Images == 2..(MaxImages + 1)    \* program images; a user handler is an address in one
\* Stack depths, in units.  The k-th signal sent may bring back the bits of all
\* the earlier ones, so that k frames of two units follow it at most.
Depths == 0..(MaxSends * (MaxSends + 1) + 1)
NoSig == 32
Calls == {"sigaction", "sigprocmask", "exec", "fork", "sigret"}

ASSUME SigsAssumption == Sigs \subseteq 0..31 /\ HandlerCalls \subseteq Calls
ASSUME MasksAssumption == Masks \subseteq SUBSET Sigs
ASSUME SpacingsAssumption == Spacings \subseteq BOOLEAN
ASSUME BoundsAssumption == MaxSends \in Nat /\ MaxImages \in Nat \ {0}

\* The user context of a trap frame: where eip points ("main" code, the handler
\* of sig, the trampoline on the stack), in which image, eax, and esp.
Frames == [at : {"main", "handler", "tramp", "wild"}, sig : Sigs \cup {NoSig},
           img : Images, eax : 0..1, esp : Depths]

VARIABLES
    mode,       \* "user", "runner" (at trapret), "frozen" (not scheduled) or "exited"
    tf,         \* the user registers: p->tf while in the kernel
    mem,        \* mem[d]: the trap frame saved on the user stack at depth d
    backup,     \* p->user_trap_fram_backup, 0 if null
    pending, mask, handler, killed, freeze, img,
    sigi,       \* the local i of sig_handler_runner()
    clearing,   \* <<s, value read>> between the two halves of pending ^= 1 << s
    sending,    \* <<s, value read>> between the two halves of pending |= 1 << s
    sends,      \* how many signals have been sent
    spaced,     \* senders wait until a signal has been handled
    ctx,        \* history: the contexts interrupted by handlers still running
    want,       \* history: the context the last sigret had to restore
    owed,       \* history: the signals sent and not yet consumed by the runner
    ever        \* history: the signals sent to this process

table == <<mask, handler, killed, freeze>>
history == <<ctx, want, owed, ever>>
rmw == <<clearing, sending, sends, spaced>>
vars == <<mode, tf, mem, backup, pending, mask, handler, killed, freeze, img,
          sigi, clearing, sending, sends, spaced, ctx, want, owed, ever>>

MainFrame(i) == [at |-> "main", sig |-> NoSig, img |-> i, eax |-> 0, esp |-> 0]
Wild == [MainFrame(2) EXCEPT !.at = "wild", !.esp = 1]     \* whatever the memory holds

\* A process in its first program, set up by allocproc() and exec().
Init ==
    /\ mode = "user"
    /\ tf = MainFrame(2)
    /\ mem = [d \in Depths |-> Wild]
    /\ backup = 0
    /\ pending = {} /\ mask = {} /\ handler = [s \in Sigs |-> SIG_DFL]
    /\ killed = FALSE /\ freeze = FALSE /\ img = 2
    /\ sigi = 0 /\ clearing = <<>> /\ sending = <<>> /\ sends = 0
    /\ spaced \in Spacings
    /\ ctx = <<>> /\ want = <<>> /\ owed = {} /\ ever = {}

-----------------------------------------------------------------------------
(* kill(), with ptable.lock: one sender at a time. *)

\* How the senders behave: they send at any time, or only to a process that
\* has nothing pending and no handler running.
MaySend ==
    /\ sends < MaxSends /\ sending = <<>> /\ mode # "exited"
    /\ ~spaced \/ (mode = "user" /\ pending = {} /\ ctx = <<>>)

KillReads(s) ==
    /\ MaySend
    /\ sending' = <<s, pending>>
    /\ sends' = sends + 1
    /\ UNCHANGED <<mode, tf, mem, backup, pending, table, img, sigi, clearing, spaced, history>>

KillWrites ==
    /\ sending # <<>>
    /\ pending' = sending[2] \cup {sending[1]}
    /\ owed' = owed \cup {sending[1]} /\ ever' = ever \cup {sending[1]}
    /\ sending' = <<>>
    /\ UNCHANGED <<mode, tf, mem, backup, table, img, sigi, clearing, sends, spaced, ctx, want>>

-----------------------------------------------------------------------------
(* User code. *)

InUser == mode = "user" /\ tf.at \in {"main", "handler"}

\* Code runs: eax changes, and what lies beyond the top of the stack is lost.
Compute ==
    /\ InUser
    /\ \E v \in 0..1 : tf' = [tf EXCEPT !.eax = v]
    /\ mem' = [d \in Depths |-> IF d > tf.esp THEN Wild ELSE mem[d]]
    /\ UNCHANGED <<mode, backup, pending, table, img, sigi, rmw, history>>

\* A handler returns, to the address the runner pushed: the trampoline.
HandlerReturns ==
    /\ mode = "user" /\ tf.at = "handler"
    /\ tf' = [tf EXCEPT !.at = "tramp", !.sig = NoSig]
    /\ UNCHANGED <<mode, mem, backup, pending, table, img, sigi, rmw, history>>

-----------------------------------------------------------------------------
(* Traps. *)

\* A killed process exits at its next trap.
Exits ==
    /\ mode = "user" /\ killed
    /\ mode' = "exited"
    /\ UNCHANGED <<tf, mem, backup, pending, table, img, sigi, rmw, history>>

\* The timer interrupt: yield(), from which a frozen process does not return.
Timer ==
    /\ mode = "user" /\ ~killed
    /\ mode' = IF freeze THEN "frozen" ELSE "runner"
    /\ UNCHANGED <<tf, mem, backup, pending, table, img, sigi, rmw, history>>

\* A process that is not marked killed makes a system call.
Traps(call) == InUser /\ ~killed /\ (tf.at = "handler" => call \in HandlerCalls)

\* A system call is served: its result goes to eax and the runner follows.
Served(call) == Traps(call) /\ mode' = "runner"

\* sigaction(s, {h, m}): the handler is replaced and the process mask set.
Sigaction(s, h, m) ==
    /\ Served("sigaction") /\ s \notin {SIGKILL, SIGSTOP}
    /\ handler' = [handler EXCEPT ![s] = h]
    /\ mask' = m
    /\ tf' = [tf EXCEPT !.eax = 0]
    /\ UNCHANGED <<mem, backup, pending, killed, freeze, img, sigi, rmw, history>>

\* sigaction() on SIGKILL or SIGSTOP, or exec() of a bad file: -1, nothing else.
CallFails(call) ==
    /\ Served(call)
    /\ tf' = [tf EXCEPT !.eax = 1]
    /\ UNCHANGED <<mem, backup, pending, table, img, sigi, rmw, history>>

\* sigprocmask(m) returns the old mask.
Sigprocmask(m) ==
    /\ Served("sigprocmask")
    /\ mask' = m
    /\ tf' = [tf EXCEPT !.eax = IF mask = {} THEN 0 ELSE 1]
    /\ UNCHANGED <<mem, backup, pending, handler, killed, freeze, img, sigi, rmw, history>>

\* Mutant: exec() keeps the handlers of the old image.
ExecHandlersKept == handler

\* exec(): user handlers belong to the old image and go back to the default;
\* the mask, the pending signals and the backup pointer stay.
ExecHandlers == [s \in Sigs |-> IF handler[s] \in {SIG_DFL, SIG_IGN} THEN handler[s] ELSE SIG_DFL]

Exec ==
    /\ Served("exec") /\ img < MaxImages + 1
    /\ img' = img + 1
    /\ tf' = MainFrame(img + 1)
    /\ mem' = [d \in Depths |-> Wild]
    /\ handler' = ExecHandlers
    /\ ctx' = <<>>
    /\ UNCHANGED <<backup, pending, mask, killed, freeze, sigi, rmw, want, owed, ever>>

\* fork(), followed into the child: handlers and mask are copied, nothing is
\* pending, and the backup pointer and freeze are whatever the slot last held; a
\* child that is born with freeze set is not scheduled.
ForkChild ==
    /\ Traps("fork") /\ sending = <<>>
    /\ freeze' \in BOOLEAN
    /\ mode' = IF freeze' THEN "frozen" ELSE "runner"
    /\ tf' = [tf EXCEPT !.eax = 0]
    /\ pending' = {} /\ owed' = {} /\ ever' = {}
    /\ backup' \in Depths
    /\ UNCHANGED <<mem, mask, handler, killed, img, sigi, rmw, ctx, want>>

\* Mutant: sigret() takes the stack down but does not copy the frame.
RestoredEspOnly(b) == [tf EXCEPT !.esp = mem[b].esp - 1]

\* What sigret() copies into the trap frame.
Restored(b) == [mem[b] EXCEPT !.esp = @ - 1]

\* The trampoline's system call, or the handler's own: sys_sigret returns 0,
\* which syscall() stores in the restored frame's eax.
Sigret ==
    /\ mode = "user" /\ ~killed
    /\ tf.at = "tramp" \/ (tf.at = "handler" /\ "sigret" \in HandlerCalls)
    /\ mode' = "runner"
    /\ tf' = [Restored(backup) EXCEPT !.eax = 0]
    /\ want' = IF ctx = <<>> THEN <<Wild>> ELSE <<ctx[Len(ctx)]>>
    /\ ctx' = IF ctx = <<>> THEN ctx ELSE SubSeq(ctx, 1, Len(ctx) - 1)
    /\ UNCHANGED <<mem, backup, pending, table, img, sigi, rmw, owed, ever>>

-----------------------------------------------------------------------------
(* sig_handler_runner(). *)

\* Mutant: the saved frame keeps the esp of the interrupted code.
DeliverOldEsp(s) ==
    /\ mem' = [mem EXCEPT ![tf.esp + 1] = tf]
    /\ backup' = tf.esp + 1
    /\ tf' = [at |-> "handler", sig |-> s, img |-> handler[s],
              eax |-> tf.eax, esp |-> tf.esp + 2]
    /\ ctx' = Append(ctx, tf)
    /\ UNCHANGED <<killed, freeze>>

\* A user handler: esp moves, the frame is copied there with the new esp, the
\* trampoline, argument and return address go on top, and eip is the handler.
Deliver(s) ==
    /\ mem' = [mem EXCEPT ![tf.esp + 1] = [tf EXCEPT !.esp = @ + 1]]
    /\ backup' = tf.esp + 1
    /\ tf' = [at |-> "handler", sig |-> s, img |-> handler[s],
              eax |-> tf.eax, esp |-> tf.esp + 2]
    /\ ctx' = Append(ctx, tf)
    /\ UNCHANGED <<killed, freeze>>

KillDefault == killed' = TRUE /\ UNCHANGED <<freeze, tf, mem, backup, ctx>>
SetFreeze(v) == freeze' = v /\ UNCHANGED <<killed, tf, mem, backup, ctx>>
Discard == UNCHANGED <<killed, freeze, tf, mem, backup, ctx>>

\* Mutant: the mask is tested before SIGKILL and SIGSTOP.
DispatchMaskFirst(s) ==
    \/ s \in mask /\ Discard
    \/ /\ s \notin mask
       /\ \/ s = SIGSTOP /\ SetFreeze(TRUE)
          \/ s = SIGCONT /\ handler[s] = SIG_DFL /\ SetFreeze(FALSE)
          \/ s \notin {SIGSTOP, SIGCONT} /\ handler[s] = SIG_DFL /\ KillDefault
          \/ handler[s] = SIG_IGN /\ Discard
          \/ handler[s] \notin {SIG_DFL, SIG_IGN} /\ Deliver(s)

\* What the runner does with signal s once it has cleared its bit.
Dispatch(s) ==
    \/ s = SIGSTOP /\ SetFreeze(TRUE)
    \/ s = SIGKILL /\ KillDefault
    \/ /\ s \notin {SIGSTOP, SIGKILL}
       /\ \/ s \in mask /\ Discard
          \/ /\ s \notin mask
             /\ \/ s = SIGCONT /\ handler[s] = SIG_DFL /\ SetFreeze(FALSE)
                \/ s # SIGCONT /\ handler[s] = SIG_DFL /\ KillDefault
                \/ handler[s] = SIG_IGN /\ Discard
                \/ handler[s] \notin {SIG_DFL, SIG_IGN} /\ Deliver(s)

\* Mutant: the runner does not test whether the bit is set.
FindsAny(s) == mode = "runner" /\ clearing = <<>> /\ s >= sigi

\* The loop finds the bit of s set: no bit from sigi up to s was.
Finds(s) ==
    /\ mode = "runner" /\ clearing = <<>>
    /\ s \in pending /\ s >= sigi /\ \A r \in pending : r >= sigi => s <= r

ConsumeReads(s) ==
    /\ Finds(s)
    /\ clearing' = <<s, pending>>
    /\ UNCHANGED <<mode, tf, mem, backup, pending, table, img, sigi, sending, sends, spaced, history>>

ConsumeWrites(s) ==
    /\ clearing # <<>> /\ clearing[1] = s
    /\ pending' = (clearing[2] \ {s}) \cup ({s} \ clearing[2])
    /\ owed' = owed \ {s}
    /\ clearing' = <<>>
    /\ sigi' = s + 1
    /\ Dispatch(s)
    /\ UNCHANGED <<mode, mask, handler, img, sending, sends, spaced, want, ever>>

RunnerDone ==
    /\ mode = "runner" /\ clearing = <<>>
    /\ \A r \in pending : r < sigi
    /\ mode' = "user" /\ sigi' = 0 /\ want' = <<>>
    /\ UNCHANGED <<tf, mem, backup, pending, table, img, rmw, ctx, owed, ever>>

-----------------------------------------------------------------------------

Runner == RunnerDone \/ \E s \in Sigs : ConsumeReads(s) \/ ConsumeWrites(s)

Next ==
    \/ \E s \in Sigs : KillReads(s)
    \/ KillWrites
    \/ Compute \/ HandlerReturns \/ Exits \/ Timer
    \/ \E s \in Sigs, h \in {SIG_DFL, SIG_IGN, img}, m \in Masks : Sigaction(s, h, m)
    \/ \E m \in Masks : Sigprocmask(m)
    \/ CallFails("sigaction") \/ CallFails("exec")
    \/ Exec \/ ForkChild \/ Sigret \/ Runner

Spec == Init /\ [][Next]_vars

\* The kernel runs and the timer interrupts; a handler returns when it gets
\* to run (the one assumption on the program); nothing else is assumed.
Fairness ==
    /\ WF_vars(Runner) /\ SF_vars(Timer \/ Exits)
    /\ SF_vars(HandlerReturns \/ Sigret)

FairSpec == Spec /\ Fairness

-----------------------------------------------------------------------------

TypeOK ==
    /\ mode \in {"user", "runner", "frozen", "exited"}
    /\ tf \in Frames /\ mem \in [Depths -> Frames] /\ backup \in Depths
    /\ pending \subseteq Sigs /\ mask \subseteq Sigs /\ owed \subseteq Sigs
    /\ handler \in [Sigs -> {SIG_DFL, SIG_IGN} \cup Images]
    /\ killed \in BOOLEAN /\ freeze \in BOOLEAN /\ img \in Images
    /\ sigi \in 0..32 /\ sends \in 0..MaxSends

\* Where a frame resumes: everything but the register the code has to keep.
Control(f) == <<f.at, f.sig, f.img, f.esp>>

\* After sigret the process is back where the last signal interrupted it.
Resumes == mode = "runner" /\ want # <<>> /\ sigi = 0 => Control(tf) = Control(want[1])

\* Signals that arrive one at a time leave the program as it was: after sigret
\* it is back where the signal interrupted it, with the stack it had, whatever
\* system calls the handler made (the frame that the runner put on the stack is
\* the one that the trampoline takes down).  eax is not: syscall() overwrites it.
ControlRestored == spaced => Resumes

\* exec() leaves no way into the old program: no handler and no code address
\* of an earlier image survives, also when a handler called exec().
NoStaleImage ==
    /\ tf.at # "wild" => tf.img = img
    /\ \A s \in Sigs : handler[s] \in {SIG_DFL, SIG_IGN, img}

\* SIGKILL and SIGSTOP act whatever the mask and the handlers are; a masked
\* signal and an ignored one never change the process.
DispositionObeyed ==
    [][clearing # <<>> /\ clearing' = <<>> =>
         LET s == clearing[1] IN
         /\ s = SIGKILL => killed'
         /\ s = SIGSTOP => freeze'
         /\ s \notin {SIGKILL, SIGSTOP} /\ (s \in mask \/ handler[s] = SIG_IGN) =>
              UNCHANGED <<tf, killed, freeze>>]_vars

\* The runner consumes only signals that were sent, although kill() and the
\* runner overwrite each other's bits: the races lose and repeat signals but
\* never make one up.
NoForgedSignal == pending \subseteq ever

\* With signals that arrive one at a time, a handler that starts gives the CPU
\* back to the main program, unless the process is stopped or killed meanwhile.
HandlerFinishes ==
    spaced /\ mode = "user" /\ tf.at = "handler" ~>
      tf.at = "main" \/ mode \in {"frozen", "exited"}

-----------------------------------------------------------------------------
(* What the repository says of the program and the code does not do. *)

\* "Send signal to the process with the given pid": a signal that kill() has
\* sent and the runner has not consumed is pending.
NoSignalLost ==
    clearing = <<>> /\ sending = <<>> => owed \subseteq pending

=============================================================================
