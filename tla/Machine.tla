------------------------------ MODULE Machine ------------------------------
(***************************************************************************)
(* The kernel as one machine: start-up, the terminal's use of the disk and *)
(* the execution of a program, under interrupts                            *)
(*   src/kernel/hal/hal.c, src/kernel/main.c:49-115                        *)
(*   src/kernel/driver/pit/pit.c           PIT_init, sleep_ms              *)
(*   src/kernel/driver/usb/uhci.c:311-377  uhci_init                       *)
(*   src/kernel/process/process.c, x86_process.asm                         *)
(*   src/kernel/ELF/ELF.c                  load_elf_file, unload_elf_file  *)
(*   src/load/libc/src                     what a program calls            *)
(*                                                                         *)
(* Main takes a step when no interrupt is being handled.  A step without   *)
(* an effect on interrupts, the disk or programs is left out of start-up.  *)
(*                                                                         *)
(* Bound: one program a boot.  Its stack starts at the low end of its      *)
(* block (process.c:69-72) and overwrites the header of the heap's page;   *)
(* what the heap does afterwards is not followed.                          *)
(***************************************************************************)
EXTENDS Ata, SequencesExt

CONSTANTS
  Delays,         \* bound: what the USB driver sleeps
  Programs        \* bound: the files that are loaded: the pages of each of
                  \*   their segments; << >> is not a program

ASSUME MachineAssumption == Delays \subseteq Nat

VARIABLES
  pc,             \* where main is
  program,        \* the program exec was called with
  processes,      \* the process list: the pids, 0 is the kernel
  current_pid,
  mapped,         \* the pages of programs that are mapped
  handles         \* files that programs' loading left open

procVars == <<program, processes, current_pid, mapped, handles>>
vars == <<intVars, ataVars, pc, procVars>>

NoProgram == << >>
Kernel == 0

Init ==
  /\ IntInit /\ AtaInit
  /\ pc = "IRQ"
  /\ program = NoProgram /\ processes = << >> /\ current_pid = Kernel
  /\ mapped = {} /\ handles = 0

Main(step) == pc = step /\ frames = << >>
Lost == "wild" \in trouble

-----------------------------------------------------------------------------
(* Start-up, in the order of HAL_Initialaize and start                     *)

InitIRQ ==
  /\ Main("IRQ") /\ i686_IRQ_Initialize
  /\ pc' = "keyboard"
  /\ UNCHANGED <<ataVars, procVars>>

InitKeyboard ==
  /\ Main("keyboard") /\ i686_IRQ_RegisterHandler(Keyboard, "keyboard")
  /\ pc' = "PIT"
  /\ UNCHANGED <<ataVars, procVars>>

PIT_init ==
  /\ Main("PIT") /\ i686_ISR_Registerhandler(Vector(Timer), "PIT_handler")
  /\ pc' = "USB"
  /\ UNCHANGED <<ataVars, procVars>>

\* uhci_init, if there is a controller.  It sleeps several times: target =
\* pit_ticks + ms.  Bound: once, before it registers the handler.
sleep_ms ==
  /\ Main("USB")
  /\ \/ /\ \E ms \in Delays : target' = (pit_ticks + ms) % TickMod
        /\ pc' = "asleep"
     \/ pc' = "process" /\ UNCHANGED target
  /\ UNCHANGED <<cpuVars, tables, pic, pit_ticks, buffered, queue, trouble, ataVars, procVars>>

\* while (pit_ticks != target) ...
TestTicks ==
  /\ Main("asleep")
  /\ IF pit_ticks = target
     THEN pc' = "UHCI" /\ target' = -1 /\ trouble' = trouble \ {"missed"}
     ELSE pc' = "halt" /\ UNCHANGED <<target, trouble>>
  /\ UNCHANGED <<cpuVars, tables, pic, pit_ticks, buffered, queue, ataVars, procVars>>

\* ... hlt: until an interrupt has been handled.
Halt ==
  /\ Main("halt")
  /\ pc' = "halted"
  /\ UNCHANGED <<intVars, ataVars, procVars>>

\* From here on there are transfers to be done with.
uhci_init ==
  /\ Main("UHCI") /\ i686_IRQ_RegisterHandler(Usb, "uhci")
  /\ pc' = "process"
  /\ UNCHANGED <<ataVars, procVars>>

init_process_management ==
  /\ Main("process")
  /\ processes' = <<Kernel>>
  /\ pc' = "syscalls"
  /\ UNCHANGED <<intVars, ataVars, program, current_pid, mapped, handles>>

init_syscall_handler ==
  /\ Main("syscalls") /\ i686_ISR_Registerhandler(Syscall, "i686_syscall_handler")
  /\ pc' = "vfs"
  /\ UNCHANGED <<ataVars, procVars>>

\* vfs_init makes the queues.
vfs_init ==
  /\ Main("vfs")
  /\ queue' = TRUE
  /\ pc' = "prompt"
  /\ UNCHANGED <<cpuVars, tables, pic, pit_ticks, buffered, target, trouble, ataVars, procVars>>

-----------------------------------------------------------------------------
(* The terminal                                                            *)

\* A sector is read or written; the terminal waits for the driver.  Bound:
\* before the program is loaded.
Access ==
  /\ Main("prompt") /\ program = NoProgram
  /\ \E lba \in Lbas : ata_read28(lba) \/ \E value \in Values : ata_write28(lba, value)
  /\ UNCHANGED <<pc, procVars>>

Drive ==
  /\ Main("prompt") /\ DriverStep
  /\ UNCHANGED <<pc, procVars>>

\* The pages of the first k segments.
PagesOf(file, k) == UNION {file[i] : i \in 1 .. k}

Loaded(file) ==
  /\ mapped' = mapped \cup PagesOf(file, Len(file))
  /\ pc' = "exec" /\ program' = file
  /\ UNCHANGED <<handles, trouble>>

\* No memory for segment k + 1: the loop that should take back the pages
\* before it takes back its own, k times, and the file stays open.
LoadFailed(file, k) ==
  /\ mapped' = (mapped \cup PagesOf(file, k)) \ (IF k = 0 THEN {} ELSE file[k + 1])
  /\ handles' = handles + 1
  /\ trouble' = trouble \cup {"no memory"}
  /\ program' = file
  /\ UNCHANGED pc

\* load_elf_file; a file that is no program is closed again.
load_elf_file ==
  /\ Main("prompt") /\ at = "ready" /\ program = NoProgram
  /\ \E file \in Programs \ {NoProgram} :
       \/ Loaded(file)
       \/ \E k \in 0 .. Len(file) - 1 : LoadFailed(file, k)
  /\ UNCHANGED <<cpuVars, tables, pic, pit_ticks, buffered, target, queue,
                 ataVars, processes, current_pid>>

-----------------------------------------------------------------------------
(* Programs                                                                *)

\* add_process: a pid that no process met so far on the list has.
FreePid == FoldLeft(LAMBDA pid, used : IF used = pid THEN pid + 1 ELSE pid, 1, Tail(processes))

\* exec enters the process, whose `next' is what malloc's memory held before,
\* and becomes it.
exec ==
  /\ Main("exec")
  /\ processes' = Append(processes, FreePid)
  /\ trouble' \in {trouble, trouble \cup {"loose end"}}
  /\ current_pid' = FreePid
  /\ pc' = "process runs"
  /\ UNCHANGED <<cpuVars, tables, pic, pit_ticks, buffered, target, queue, ataVars,
                 program, mapped, handles>>

\* Mistake: the handler leaves the interrupts off.
Answer_NoSti(call) == <<call>>

\* What the handler does with the call: 1 writes, 4 ends the process, for any
\* other number a line is shown.
Answer(call) == IF call = "exit" THEN <<"sti", "exit">> ELSE <<"sti", "output">>

\* The program's calls: write, open and read are answered with text on the
\* screen; close does not get into the kernel.  Bound: it writes to the screen,
\* and neither into the queue of the keys (handle 0) nor to a file.
Calls == {"output", "exit"}

int80(call) ==
  /\ Main("process runs")
  /\ Entered(Syscall, Answer(call))
  /\ UNCHANGED <<tables, pic, pit_ticks, buffered, target, queue, trouble, ataVars, pc, procVars>>

\* get_ctx: the first on the list with a pid that is not smaller.
get_ctx(pid) == SelectInSeq(processes, LAMBDA p : p >= pid)

\* exit_process: the context of the kernel is switched to, and the frames on
\* the stack of the process are never returned to.
exit_process ==
  /\ Doing("exit") /\ get_ctx(current_pid) # 0
  /\ frames' = << >>
  /\ pc' = "exited"
  /\ UNCHANGED <<enabled, tables, pic, pit_ticks, buffered, target, queue, trouble, ataVars, procVars>>

\* Mistake: the last segment is forgotten.
Unloaded_OneLess ==
  /\ mapped' = mapped \ PagesOf(program, Len(program) - 1)
  /\ UNCHANGED trouble

Unloaded ==
  /\ mapped' = mapped \ PagesOf(program, Len(program))
  /\ UNCHANGED trouble

\* The file cannot be opened again: its pages stay.
UnloadFailed ==
  /\ trouble' = trouble \cup {"not unloaded"}
  /\ UNCHANGED mapped

\* remove_process: the first after the kernel's with a pid that is not smaller.
remove_process(pid) ==
  LET i == SelectInSeq(Tail(processes), LAMBDA p : p >= pid)
  IN  IF i = 0 THEN processes ELSE RemoveAt(processes, i + 1)

\* exec goes on.
ExecReturns ==
  /\ Main("exited")
  /\ processes' = remove_process(current_pid)
  /\ Unloaded \/ UnloadFailed
  /\ pc' = "prompt"
  /\ UNCHANGED <<cpuVars, tables, pic, pit_ticks, buffered, target, queue, ataVars,
                 program, current_pid, handles>>

-----------------------------------------------------------------------------

\* An interrupt ends hlt.
Interrupt(line) ==
  /\ Accept(line)
  /\ pc' = IF pc = "halted" THEN "asleep" ELSE pc
  /\ UNCHANGED <<ataVars, procVars>>

Devices == (Tick \/ Press \/ UhciDone) /\ UNCHANGED <<ataVars, pc, procVars>>
DriveStep == DriveDone /\ UNCHANGED <<pc, procVars>>
Handlers == (HandlerStep /\ UNCHANGED <<ataVars, pc, procVars>>) \/ exit_process

StartUp ==
  \/ InitIRQ \/ InitKeyboard \/ PIT_init \/ sleep_ms \/ TestTicks \/ Halt \/ uhci_init
  \/ init_process_management \/ init_syscall_handler \/ vfs_init
ProgramStep == exec \/ int80("exit") \/ ExecReturns

Next ==
  /\ ~Lost
  /\ \/ StartUp \/ Access \/ Drive \/ load_elf_file \/ ProgramStep \/ int80("output")
     \/ Handlers \/ \E line \in Lines : Interrupt(line)
     \/ Devices \/ DriveStep

\* The CPU goes on, the drive answers and the timer ticks.  A handler takes
\* much less than a tick, so every request that stays gets its turn.
Fairness ==
  /\ WF_vars(StartUp \/ Drive \/ exec \/ ExecReturns)
  /\ WF_vars(Handlers)
  /\ \A line \in Lines : SF_vars(Interrupt(line))
  /\ WF_vars(DriveStep)
  /\ WF_vars(Tick /\ UNCHANGED <<ataVars, pc, procVars>>)

Spec == Init /\ [][Next]_vars /\ Fairness

-----------------------------------------------------------------------------

MachineTypeOK ==
  /\ enabled \in BOOLEAN /\ buffered \in BOOLEAN /\ queue \in BOOLEAN
  /\ irr \subseteq Lines /\ isr1 \subseteq 0 .. 7 /\ isr2 \subseteq 0 .. 7
  /\ pit_ticks \in 0 .. TickMod - 1 /\ target \in -1 .. TickMod - 1
  /\ disk \in [Sectors -> Values \cup {Blank}]
  /\ drive \in {"idle", "busy", "data", "failed"}
  /\ got \in Values \cup {Blank, Unread, Failed}
  /\ Kernel \notin {processes[i] : i \in 2 .. Len(processes)}

\* The stack of the kernel holds the frames of one system call and one
\* interrupt at most: handlers do not nest, though the handler of the keyboard
\* acknowledges before it is done and that of the system calls lets
\* interrupts in; and when none runs, nothing is left in service.
HandlersDoNotNest ==
  /\ Len(frames) <= 2
  /\ \A i \in 1 .. Len(frames) - 1 : frames[i].vector = Syscall
  /\ frames = << >> => isr1 = {} /\ isr2 = {}

\* What a read returns is what was last written there, as long as no write met
\* a drive that took its data late or failed, or an address at which the top
\* bits of lba and lba_real differ.
ReadsBack ==
  at = "ready" /\ got \notin {Unread, Failed}
    /\ "not stored" \notin trouble
    => got = wrote[request.lba]

\* At the prompt no page of a program is mapped, none of its files is open and
\* the process list holds the kernel alone, unless memory ran out while it was
\* loaded or it could not be opened to be unloaded; but the end of the list may
\* be loose.
NothingLeft ==
  pc = "prompt" /\ trouble \cap {"no memory", "not unloaded"} = {} =>
    mapped = {} /\ handles = 0 /\ processes = <<Kernel>>

\* Every key is read by its handler, in the end: whatever interrupts do to each
\* other, and after a program that left the kernel in a system call as well;
\* unless a key came before the handler was there, or before its queue.
KeysHeard == buffered ~> (~buffered \/ "unread" \in trouble \/ Lost)

\* sleep_ms returns, unless the tick it waits for passed unseen.
SleepsEnd == target # -1 ~> (target = -1 \/ "missed" \in trouble \/ Lost)
=============================================================================
