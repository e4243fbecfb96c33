--------------------------- MODULE Machine_proofs ---------------------------
(***************************************************************************)
(* Theorems about Machine, for every disk, partition, set of programs and  *)
(* width of the tick counter.                                              *)
(***************************************************************************)
EXTENDS Machine, TLAPS

-----------------------------------------------------------------------------
(* What operators of sequences give here                                   *)

\* The first process gets pid 1.
LEMMA FirstPid ==
  ASSUME processes = <<Kernel>>
  PROVE  FreePid = 1
<1> DEFINE op(pid, used) == IF used = pid THEN pid + 1 ELSE pid
<1>1. Tail(processes) = << >> /\ DOMAIN Tail(processes) = {}
  OBVIOUS
<1> QED
  BY <1>1 DEF FreePid, FoldLeft, MapThenFoldSet

\* Removing it leaves the kernel.
LEMMA OnlyKernelLeft ==
  ASSUME processes = <<Kernel, 1>>
  PROVE  remove_process(1) = <<Kernel>>
<1>1. Tail(processes) = <<1>>
  OBVIOUS
<1> DEFINE I == {i \in 1 .. Len(Tail(processes)) : Tail(processes)[i] >= 1}
<1>2. I = {1}
  BY <1>1
<1>3. Min(I) = 1
  BY <1>2 DEF Min
<1>4. SelectInSeq(Tail(processes), LAMBDA p : p >= 1) = 1
  BY <1>2, <1>3 DEF SelectInSeq
<1>5. remove_process(1) = RemoveAt(processes, 2)
  BY <1>4 DEF remove_process
<1> DEFINE head == SubSeq(processes, 1, 2 - 1)
           rest == SubSeq(processes, 2 + 1, Len(processes))
<1>6. /\ head \in Seq(Nat) /\ Len(head) = 1 /\ head[1] = Kernel
      /\ rest \in Seq(Nat) /\ Len(rest) = 0
  <2>1. processes \in Seq(Nat) /\ Len(processes) = 2 /\ processes[1] = Kernel
    BY DEF Kernel
  <2> QED
    BY <2>1
<1>7. head \o rest = <<Kernel>>
  <2> DEFINE whole == head \o rest
  <2>1. whole \in Seq(Nat) /\ Len(whole) = 1 /\ whole[1] = Kernel
    BY <1>6
  <2> HIDE DEF whole
  <2>2. whole = <<Kernel>>
    BY <2>1
  <2> QED
    BY <2>2 DEF whole
<1>8. RemoveAt(processes, 2) = <<Kernel>>
  BY <1>7 DEF RemoveAt
<1> QED
  BY <1>5, <1>8

-----------------------------------------------------------------------------
(* The invariant                                                           *)

\* From i686_IRQ_Initialize on every line has a handler that acknowledges.
Registered ==
  \A line \in Lines : ISRHandlers[Vector(line)] \in {"PIT_handler", "i686_IRQ_Handler"}

\* What a handler may still have to do.
IrqSteps ==
  {<<"tick", "ack">>, <<"ack", "key", "ack">>, <<"key", "ack">>, <<"ack", "ack">>, <<"ack">>, << >>}
SyscallSteps ==
  {<<"sti", "exit">>, <<"sti", "output">>, <<"exit">>, <<"output">>, << >>}

NoneInService == isr1 = {} /\ isr2 = {}
InService(line) ==
  /\ isr1 \subseteq {MasterPin(line)}
  /\ isr2 \subseteq (IF line >= 8 THEN {line - 8} ELSE {})

Frame == [vector : Vectors, todo : IrqSteps \cup SyscallSteps, enabled : BOOLEAN]

\* The interrupt on top alone is in service, with interrupts off, until its
\* handler has acknowledged it, which it does in the end; below it there is
\* at most a system call, which starts and ends with nothing in service.
FramesRight ==
  /\ frames \in Seq(Frame)
  /\ Len(frames) \in 0 .. 2
  /\ \A i \in 1 .. Len(frames) :
       frames[i].todo \in IF frames[i].vector = Syscall THEN SyscallSteps ELSE IrqSteps
  /\ Len(frames) = 2 => frames[1].vector = Syscall /\ frames[2].vector # Syscall
  /\ frames = << >> \/ Top.vector = Syscall => NoneInService
  /\ frames # << >> /\ Top.vector # Syscall =>
       /\ ~enabled /\ InService(Top.vector - PIC_REMAP_OFFSET)
       /\ Top.todo = << >> => NoneInService
  /\ pc = "IRQ" => frames = << >> /\ ~enabled
  /\ pc # "IRQ" => Registered

HandlerNames == {"none", "i686_IRQ_Handler", "PIT_handler", "i686_syscall_handler"}

\* The variables of interrupts and of the sleeper.
IntTypes ==
  /\ enabled \in BOOLEAN /\ buffered \in BOOLEAN /\ queue \in BOOLEAN
  /\ ISRHandlers \in [Vectors -> HandlerNames]
  /\ irr \subseteq Lines /\ isr1 \subseteq 0 .. 7 /\ isr2 \subseteq 0 .. 7
  /\ pit_ticks \in 0 .. TickMod - 1 /\ target \in -1 .. TickMod - 1

Asks(op, sector) == command = [op |-> op, sector |-> sector]

\* Between two calls the drive is idle; during one it works on what the call
\* asked, a flush, or nothing.
DriveRight ==
  /\ at \in {"ready", "read", "flush", "flushing"}
  /\ at = "ready" => drive = "idle"
  /\ at = "read" =>
       /\ request.lba \in Lbas /\ ~TooLarge(request.lba) /\ Asks("read", ReadSector(request.lba))
       /\ drive \in {"busy", "data", "failed"}
  /\ at \in {"flush", "flushing"} =>
       /\ request \in [op : {"write"}, lba : Lbas, value : Values] /\ ~TooLarge(request.lba)
       /\ wrote[request.lba] = request.value /\ got = Unread
       /\ \/ drive = "busy" /\ Asks("store", WriteSector(request.lba))
          \/ drive \in {"busy", "data"} /\ Asks("write", WriteSector(request.lba))
               /\ "not stored" \in trouble
          \/ drive = "busy" /\ Asks("flush", 0)
          \/ drive \in {"idle", "failed"}

\* The sector of lba does not hold what was written there yet, or never will.
Pending(lba) ==
  /\ at \in {"flush", "flushing"}
  /\ \/ Astray(request.lba)
     \/ lba = request.lba /\ (drive = "failed" \/ (drive = "busy" /\ Asks("store", WriteSector(lba))))

\* What is on the disk is what was written.
DiskRight ==
  /\ disk \in [Sectors -> Values \cup {Blank}] /\ wrote \in [Lbas -> Values \cup {Blank}]
  /\ got \in Values \cup {Blank, Unread, Failed}
  /\ "not stored" \notin trouble =>
       \A lba \in Lbas : TooLarge(lba) \/ Pending(lba) \/ disk[ReadSector(lba)] = wrote[lba]
  /\ ReadsBack

BeforeProcesses == {"IRQ", "keyboard", "PIT", "USB", "UHCI", "asleep", "halt", "halted", "process"}
Started == BeforeProcesses \cup {"syscalls", "vfs"}
Running == {"process runs", "exited"}

\* The process list, and the pages of the one program.
ProcessesRight ==
  /\ pc \in Started \cup {"prompt", "exec"} \cup Running
  /\ processes = CASE pc \in BeforeProcesses -> << >>
                   [] pc \in Running -> <<Kernel, 1>>
                   [] OTHER -> <<Kernel>>
  /\ pc \in Running => current_pid = 1
  /\ pc \in Started => program = NoProgram
  /\ program = NoProgram => mapped = {} /\ handles = 0
  /\ pc \in {"exec"} \cup Running =>
       program # NoProgram /\ mapped = PagesOf(program, Len(program)) /\ handles = 0
  /\ NothingLeft


-----------------------------------------------------------------------------
(* Interrupts                                                              *)

\* A step of a handler of a line is one of three, the last an acknowledgement.
LEMMA IrqStep ==
  ASSUME NEW todo \in IrqSteps, todo # << >>
  PROVE  /\ Tail(todo) \in IrqSteps /\ Head(todo) \in {"tick", "ack", "key"}
         /\ Tail(todo) = << >> => Head(todo) = "ack"
<1>1. CASE todo = <<"tick", "ack">>
  <2>1. Tail(todo) = <<"ack">>
    BY <1>1
  <2> QED
    BY <2>1, <1>1 DEF IrqSteps
<1>2. CASE todo = <<"ack", "key", "ack">>
  <2>1. Tail(todo) = <<"key", "ack">>
    BY <1>2
  <2> QED
    BY <2>1, <1>2 DEF IrqSteps
<1>3. CASE todo = <<"key", "ack">>
  <2>1. Tail(todo) = <<"ack">>
    BY <1>3
  <2> QED
    BY <2>1, <1>3 DEF IrqSteps
<1>4. CASE todo = <<"ack">>
  <2>1. Tail(todo) = << >>
    BY <1>4
  <2> QED
    BY <2>1, <1>4 DEF IrqSteps
<1>5. CASE todo = <<"ack", "ack">>
  <2>1. Tail(todo) = <<"ack">>
    BY <1>5
  <2> QED
    BY <2>1, <1>5 DEF IrqSteps
<1> QED
  BY <1>1, <1>2, <1>3, <1>4, <1>5 DEF IrqSteps

\* A step of the handler of system calls is one of three.
LEMMA SyscallStep ==
  ASSUME NEW todo \in SyscallSteps, todo # << >>
  PROVE  Tail(todo) \in SyscallSteps /\ Head(todo) \in {"sti", "exit", "output"}
<1>1. CASE todo = <<"sti", "exit">>
  <2>1. Tail(todo) = <<"exit">>
    BY <1>1
  <2> QED
    BY <2>1, <1>1 DEF SyscallSteps
<1>2. CASE todo = <<"sti", "output">>
  <2>1. Tail(todo) = <<"output">>
    BY <1>2
  <2> QED
    BY <2>1, <1>2 DEF SyscallSteps
<1>3. CASE todo = <<"exit">>
  <2>1. Tail(todo) = << >>
    BY <1>3
  <2> QED
    BY <2>1, <1>3 DEF SyscallSteps
<1>4. CASE todo = <<"output">>
  <2>1. Tail(todo) = << >>
    BY <1>4
  <2> QED
    BY <2>1, <1>4 DEF SyscallSteps
<1> QED
  BY <1>1, <1>2, <1>3, <1>4 DEF SyscallSteps

\* An acknowledgement leaves nothing in service when one line alone was.
LEMMA AcknowledgesAll ==
  ASSUME NEW line \in Lines, InService(line), i686_PIC_SendEOI(line)
  PROVE  NoneInService'
<1>1. \A n \in Int : EOI({n}) = {} /\ EOI({}) = {}
  <2> TAKE n \in Int
  <2>1. Highest({n}) = n
    BY DEF Highest
  <2> QED
    BY <2>1 DEF EOI
<1>2. MasterPin(line) \in Int /\ line \in Int
  BY DEF Lines, MasterPin, Timer, Keyboard, Usb, Disk, Cascade
<1>3. (isr1 = {} \/ isr1 = {MasterPin(line)}) /\ (line >= 8 => isr2 = {} \/ isr2 = {line - 8})
      /\ (~(line >= 8) => isr2 = {})
  BY DEF InService
<1>4. isr1' = {}
  BY <1>1, <1>2, <1>3 DEF i686_PIC_SendEOI
<1>5. isr2' = {}
  <2>1. CASE line >= 8
    <3> DEFINE pin == line - 8
    <3>0. pin \in Int /\ (isr2 = {} \/ isr2 = {pin})
      BY <1>2, <1>3, <2>1
    <3> HIDE DEF pin
    <3>1. EOI(isr2) = {}
      BY <1>1, <3>0
    <3> QED
      BY <3>1, <2>1 DEF i686_PIC_SendEOI
  <2>2. CASE ~(line >= 8)
    BY <1>3, <2>2 DEF i686_PIC_SendEOI
  <2> QED
    BY <2>1, <2>2
<1> QED
  BY <1>4, <1>5 DEF NoneInService

\* The handler an interrupt of a line starts acknowledges it.
LEMMA HandlerIs ==
  ASSUME NEW line \in Lines, Registered
  PROVE  Handler(line) \in IrqSteps \ {<< >>}
<1>1. Handler(line) \in {<<"tick", "ack">>, <<"ack", "key", "ack">>, <<"ack", "ack">>, <<"ack">>}
  BY DEF Registered, Handler
<1>2. \A s \in {<<"tick", "ack">>, <<"ack", "key", "ack">>, <<"ack", "ack">>, <<"ack">>} : s # << >>
  OBVIOUS
<1> QED
  BY <1>1, <1>2 DEF IrqSteps

\* The frame on top of others.
LEMMA FrameFacts ==
  ASSUME frames \in Seq(Frame), Len(frames) \in 0 .. 2, frames # << >>
  PROVE  /\ Top \in Frame
         /\ Below \in Seq(Frame) /\ Len(Below) = Len(frames) - 1
         /\ \A i \in 1 .. Len(Below) : Below[i] = frames[i]
         /\ \A f \in Frame : Append(Below, f) \in Seq(Frame) /\ Len(Append(Below, f)) = Len(frames)
              /\ Append(Below, f)[Len(frames)] = f
              /\ \A i \in 1 .. Len(frames) - 1 : Append(Below, f)[i] = frames[i]
<1> DEFINE n == Len(frames)
<1>1. n \in 1 .. 2 /\ Top \in Frame
  <2>1. Len(frames) \in Nat /\ Len(frames) # 0
    OBVIOUS
  <2>2. n \in 1 .. 2
    BY <2>1
  <2>3. frames[n] \in Frame
    BY <2>2
  <2> QED
    BY <2>2, <2>3 DEF Top
<1>2. Below \in Seq(Frame) /\ Len(Below) = n - 1 /\ \A i \in 1 .. n - 1 : Below[i] = frames[i]
  <2>1. CASE n = 1
    BY <2>1 DEF Below
  <2>2. CASE n = 2
    BY <2>2 DEF Below
  <2> QED
    BY <1>1, <2>1, <2>2
<1> HIDE DEF n
<1>3. ASSUME NEW f \in Frame
      PROVE  /\ Append(Below, f) \in Seq(Frame) /\ Len(Append(Below, f)) = n
             /\ Append(Below, f)[n] = f
             /\ \A i \in 1 .. n - 1 : Append(Below, f)[i] = frames[i]
  BY <1>1, <1>2
<1> QED
  BY <1>1, <1>2, <1>3 DEF n

\* A handler's step leaves one step less on top.
LEMMA DidFacts ==
  ASSUME frames \in Seq(Frame), Len(frames) \in 0 .. 2, frames # << >>, Did,
         Tail(Top.todo) \in IrqSteps \cup SyscallSteps
  PROVE  /\ frames' \in Seq(Frame) /\ Len(frames') = Len(frames) /\ frames' # << >>
         /\ Top' = [Top EXCEPT !.todo = Tail(@)] /\ Top' \in Frame
         /\ \A i \in 1 .. Len(frames) - 1 : frames'[i] = frames[i]
         /\ frames'[Len(frames)] = Top'
<1> DEFINE f == [Top EXCEPT !.todo = Tail(@)]
<1>1. Top \in Frame
  BY FrameFacts
<1>2. f \in Frame
  BY <1>1 DEF Frame
<1>3. frames' = Append(Below, f)
  BY DEF Did
<1> HIDE DEF f
<1>4. /\ frames' \in Seq(Frame) /\ Len(frames') = Len(frames) /\ frames'[Len(frames)] = f
      /\ \A i \in 1 .. Len(frames) - 1 : frames'[i] = frames[i]
  BY <1>2, <1>3, FrameFacts
<1>5. Top' = f /\ frames' # << >>
  BY <1>4 DEF Top
<1> QED
  BY <1>2, <1>4, <1>5 DEF f

\* Initially no interrupt is handled.
LEMMA InitInterrupts ==
  ASSUME Init
  PROVE  IntTypes /\ FramesRight
<1> USE DEF Init, IntInit
<1>1. IntTypes
  <2>1. enabled \in BOOLEAN /\ buffered \in BOOLEAN /\ queue \in BOOLEAN
    OBVIOUS
  <2>2. ISRHandlers \in [Vectors -> HandlerNames]
    BY DEF HandlerNames
  <2>3. pit_ticks \in 0 .. TickMod - 1 /\ target \in -1 .. TickMod - 1
    BY TickAssumption
  <2> QED
    BY <2>1, <2>2, <2>3 DEF IntTypes
<1>2. frames = << >> /\ frames \in Seq(Frame) /\ Len(frames) = 0
  OBVIOUS
<1>3. NoneInService
  BY DEF NoneInService
<1> QED
  BY <1>1, <1>2, <1>3 DEF FramesRight

\* The variables of interrupts keep their types.
LEMMA IntTypesKeep ==
  ASSUME IntTypes, FramesRight, [Next]_vars
  PROVE  IntTypes'
<1> USE DEF IntTypes, cpuVars, tables, pic
<1>1. ASSUME frames # << >>
      PROVE  Top.enabled \in BOOLEAN
  <2>1. Top \in Frame
    BY <1>1, FrameFacts DEF FramesRight
  <2> QED
    BY <2>1 DEF Frame
<1>2. CASE InitIRQ
  BY <1>2 DEF InitIRQ, i686_IRQ_Initialize, HandlerNames
<1>3. CASE InitKeyboard \/ uhci_init
  BY <1>3 DEF InitKeyboard, uhci_init, i686_IRQ_RegisterHandler
<1>16. ASSUME NEW v \in Vectors, NEW handler \in HandlerNames, i686_ISR_Registerhandler(v, handler)
       PROVE  IntTypes'
  BY <1>16 DEF i686_ISR_Registerhandler
<1>17. CASE PIT_init
  BY <1>16, <1>17 DEF PIT_init, Vectors, Lines, HandlerNames
<1>18. CASE init_syscall_handler
  BY <1>16, <1>18 DEF init_syscall_handler, Vectors, HandlerNames
<1>4. CASE sleep_ms
  <2>1. \A ms \in Delays : (pit_ticks + ms) % TickMod \in 0 .. TickMod - 1
    BY TickAssumption, MachineAssumption
  <2> QED
    BY <1>4, <2>1 DEF sleep_ms
<1>5. CASE TestTicks
  BY <1>5, TickAssumption DEF TestTicks
<1>19. CASE vfs_init
  BY <1>19 DEF vfs_init
<1>6. CASE Halt \/ init_process_management
  BY <1>6 DEF Halt, init_process_management, intVars
<1>7. CASE Access \/ Drive
  BY <1>7 DEF Access, Drive, DriverStep, ata_read28, ReadDone, ata_write28, ata_flush, FlushDone, intVars
<1>8. CASE load_elf_file \/ exec \/ ExecReturns
  BY <1>8 DEF load_elf_file, exec, ExecReturns
<1>9. ASSUME NEW call, int80(call)
      PROVE  IntTypes'
  BY <1>9 DEF int80, Entered
<1>10. CASE exit_process
  BY <1>10 DEF exit_process
<1>11. ASSUME HandlerStep
       PROVE  IntTypes'
  <2>1. CASE Ack
    <3>1. isr1' \subseteq isr1 /\ isr2' \subseteq isr2
      BY <2>1 DEF Ack, i686_PIC_SendEOI, EOI
    <3> QED
      BY <2>1, <3>1 DEF Ack
  <2>2. CASE CountTick
    BY <2>2, TickAssumption DEF CountTick
  <2>3. CASE ReadKey \/ Sti \/ Output
    BY <2>3 DEF ReadKey, Sti, Output
  <2>4. CASE Iret
    BY <2>4, <1>1 DEF Iret
  <2> QED
    BY <1>11, <2>1, <2>2, <2>3, <2>4 DEF HandlerStep
<1>12. ASSUME NEW line \in Lines, Interrupt(line)
       PROVE  IntTypes'
  BY <1>12 DEF Interrupt, Accept, Entered, MasterPin, Lines, Timer, Keyboard, Usb, Disk, Cascade
<1>13. CASE Devices
  BY <1>13 DEF Devices, Tick, Press, UhciDone, Lines
<1>14. CASE DriveStep
  BY <1>14 DEF DriveStep, DriveDone, Lines
<1>15. CASE UNCHANGED vars
  BY <1>15 DEF vars, intVars
<1> QED
  BY <1>2, <1>3, <1>4, <1>5, <1>6, <1>7, <1>8, <1>9, <1>10, <1>11, <1>12, <1>13, <1>14, <1>15,
     <1>17, <1>18, <1>19 DEF Next, StartUp, ProgramStep, Handlers

\* A step that leaves the CPU and what is in service alone, and every line
\* with its handler.
LEMMA CalmStep ==
  ASSUME FramesRight, frames' = frames, enabled' = enabled, isr1' = isr1, isr2' = isr2,
         pc' = "IRQ" => pc = "IRQ", pc' # "IRQ" => Registered'
  PROVE  FramesRight'
BY DEF FramesRight, NoneInService, InService, Top

\* A step that leaves the tables alone keeps every line's handler.
LEMMA StillRegistered ==
  ASSUME FramesRight, UNCHANGED ISRHandlers, pc # "IRQ"
  PROVE  Registered'
BY DEF FramesRight, Registered

\* Start-up: i686_IRQ_Initialize finds no interrupt being handled, and no
\* later registration takes a line's handler away.
LEMMA StartUpFrames ==
  ASSUME IntTypes, FramesRight, StartUp
  PROVE  FramesRight'
<1>1. CASE InitIRQ
  <2>1. frames' = << >> /\ isr1' = {} /\ isr2' = {} /\ pc' = "keyboard" /\ Len(frames') = 0
        /\ frames' \in Seq(Frame)
    BY <1>1 DEF InitIRQ, i686_IRQ_Initialize, Main
  <2>2. Registered'
    BY <1>1 DEF InitIRQ, i686_IRQ_Initialize, Registered, Vectors, Vector, Lines, Timer, Keyboard, Usb,
                Disk, Syscall, PIC_REMAP_OFFSET
  <2> QED
    BY <2>1, <2>2 DEF FramesRight, NoneInService
<1>2. ASSUME NEW line \in Lines, i686_ISR_Registerhandler(Vector(line), "PIT_handler"),
             pc # "IRQ", pc' # "IRQ"
      PROVE  FramesRight'
  <2>1. Registered
    BY <1>2 DEF FramesRight
  <2>2. Registered'
    BY <2>1, <1>2 DEF i686_ISR_Registerhandler, Registered, IntTypes, Vectors
  <2> QED
    BY <2>2, <1>2, CalmStep DEF i686_ISR_Registerhandler, cpuVars, pic
<1>3. CASE PIT_init
  BY <1>2, <1>3 DEF PIT_init, Main, Lines
<1>4. CASE init_syscall_handler
  <2>1. Registered /\ pc # "IRQ" /\ pc' # "IRQ"
    BY <1>4 DEF FramesRight, init_syscall_handler, Main
  <2>2. \A line \in Lines : Vector(line) # Syscall /\ Vector(line) \in Vectors
    BY DEF Lines, Vector, Vectors, Timer, Keyboard, Usb, Disk, Syscall, PIC_REMAP_OFFSET
  <2>3. Registered'
    BY <2>1, <2>2, <1>4 DEF init_syscall_handler, i686_ISR_Registerhandler, Registered, IntTypes
  <2> QED
    BY <2>1, <2>3, <1>4, CalmStep DEF init_syscall_handler, i686_ISR_Registerhandler, cpuVars, pic
<1>5. CASE InitKeyboard \/ uhci_init
  BY <1>5, StillRegistered, CalmStep DEF InitKeyboard, uhci_init, i686_IRQ_RegisterHandler, Main,
                                         cpuVars, pic
<1>6. CASE sleep_ms
  BY <1>6, StillRegistered, CalmStep DEF sleep_ms, Main, cpuVars, tables, pic
<1>7. CASE TestTicks
  BY <1>7, StillRegistered, CalmStep DEF TestTicks, Main, cpuVars, tables, pic
<1>8. CASE Halt
  BY <1>8, StillRegistered, CalmStep DEF Halt, Main, intVars, cpuVars, tables, pic
<1>9. CASE init_process_management
  BY <1>9, StillRegistered, CalmStep DEF init_process_management, Main, intVars, cpuVars, tables, pic
<1>10. CASE vfs_init
  BY <1>10, StillRegistered, CalmStep DEF vfs_init, Main, cpuVars, tables, pic
<1> QED
  BY <1>1, <1>3, <1>4, <1>5, <1>6, <1>7, <1>8, <1>9, <1>10 DEF StartUp

\* A frame on top of frames.
LEMMA AppendFacts ==
  ASSUME frames \in Seq(Frame), NEW f \in Frame, frames' = Append(frames, f)
  PROVE  /\ frames' \in Seq(Frame) /\ Len(frames') = Len(frames) + 1
         /\ frames'[Len(frames) + 1] = f /\ Top' = f
         /\ \A i \in 1 .. Len(frames) : frames'[i] = frames[i]
<1>1. /\ frames' \in Seq(Frame) /\ Len(frames') = Len(frames) + 1
      /\ frames'[Len(frames) + 1] = f
      /\ \A i \in 1 .. Len(frames) : frames'[i] = frames[i]
  OBVIOUS
<1> QED
  BY <1>1 DEF Top

\* A system call starts with nothing else being handled.
LEMMA CallFrames ==
  ASSUME IntTypes, FramesRight, NEW call \in Calls, int80(call)
  PROVE  FramesRight'
<1> DEFINE f == [vector |-> Syscall, todo |-> Answer(call), enabled |-> enabled]
<1>1. f.vector = Syscall /\ f.todo = Answer(call) /\ Answer(call) \in SyscallSteps /\ f \in Frame
  BY DEF Answer, SyscallSteps, Frame, Vectors, IntTypes
<1>2. frames = << >> /\ frames' = Append(frames, f) /\ pc' = pc /\ pc # "IRQ"
  BY DEF int80, Main, Entered
<1> HIDE DEF f
<1>3. Len(frames) = 0 /\ frames \in Seq(Frame)
  BY <1>2 DEF FramesRight
<1>4. frames' \in Seq(Frame) /\ Len(frames') = 1 /\ frames'[1] = f /\ Top' = f
  BY <1>1, <1>2, <1>3, AppendFacts
<1>5. NoneInService' /\ Registered'
  BY <1>2, StillRegistered DEF FramesRight, int80, pic, tables, NoneInService
<1> QED
  BY <1>1, <1>2, <1>4, <1>5 DEF FramesRight

\* An interrupt is taken while none of a line is handled.
LEMMA InterruptFrames ==
  ASSUME IntTypes, FramesRight, NEW line \in Lines, Interrupt(line)
  PROVE  FramesRight'
<1> DEFINE f == [vector |-> Vector(line), todo |-> Handler(line), enabled |-> enabled]
<1>1. enabled = TRUE /\ pc # "IRQ" /\ Registered
  BY DEF Interrupt, Accept, FramesRight, IntTypes
<1>2. Handler(line) \in IrqSteps \ {<< >>}
  BY <1>1, HandlerIs
<1>3. /\ f.vector = Vector(line) /\ f.todo = Handler(line) /\ f \in Frame
      /\ Vector(line) # Syscall /\ Vector(line) - PIC_REMAP_OFFSET = line /\ Vector(line) \in 0 .. 255
  BY <1>2 DEF Frame, Vectors, IntTypes, Vector, Lines, Timer, Keyboard, Usb, Disk, Syscall, PIC_REMAP_OFFSET
<1>4. frames' = Append(frames, f) /\ ~enabled'
  BY <1>3 DEF Interrupt, Accept, Entered, MasksInterrupts
<1> HIDE DEF f
<1>5. frames = << >> \/ Top.vector = Syscall
  BY <1>1 DEF FramesRight
<1>6. Len(frames) \in {0, 1} /\ (Len(frames) = 1 => frames[1].vector = Syscall)
  <2>1. CASE frames = << >>
    BY <2>1
  <2>2. CASE frames # << >> /\ Len(frames) = 1
    BY <2>2, <1>5 DEF Top
  <2>3. CASE frames # << >> /\ Len(frames) = 2
    BY <2>3, <1>5 DEF FramesRight, Top
  <2>4. frames \in Seq(Frame) /\ Len(frames) \in 0 .. 2
    BY DEF FramesRight
  <2>5. Len(frames) = 0 => frames = << >>
    BY <2>4
  <2> QED
    BY <2>1, <2>2, <2>3, <2>4, <2>5
<1>7. /\ frames' \in Seq(Frame) /\ Len(frames') = Len(frames) + 1 /\ Top' = f
      /\ frames'[Len(frames) + 1] = f /\ \A i \in 1 .. Len(frames) : frames'[i] = frames[i]
  BY <1>3, <1>4, AppendFacts DEF FramesRight
<1>8. \A i \in 1 .. Len(frames') :
        frames'[i].todo \in IF frames'[i].vector = Syscall THEN SyscallSteps ELSE IrqSteps
  BY <1>2, <1>3, <1>6, <1>7 DEF FramesRight
<1>9. InService(line)' /\ Registered' /\ pc' # "IRQ"
  <2>1. NoneInService
    BY <1>5 DEF FramesRight
  <2>2. isr1' = {MasterPin(line)} /\ isr2' = IF line >= 8 THEN {line - 8} ELSE {}
    BY <2>1 DEF NoneInService, Interrupt, Accept
  <2>3. UNCHANGED ISRHandlers /\ pc' # "IRQ"
    BY <1>1 DEF Interrupt, Accept, tables
  <2> QED
    BY <2>2, <2>3, <1>1, StillRegistered DEF InService
<1>10. frames' # << >>
  BY <1>7, <1>6
<1> QED
  BY <1>2, <1>3, <1>4, <1>6, <1>7, <1>8, <1>9, <1>10 DEF FramesRight

\* The frame on top is of a line with interrupts off, or of a system call with
\* nothing in service.
LEMMA TopFacts ==
  ASSUME FramesRight, frames # << >>
  PROVE  /\ Len(frames) \in 1 .. 2 /\ Top = frames[Len(frames)] /\ Top \in Frame /\ pc # "IRQ"
         /\ Top.vector = Syscall => Len(frames) = 1 /\ Top.todo \in SyscallSteps /\ NoneInService
         /\ Top.vector # Syscall => /\ Top.todo \in IrqSteps /\ ~enabled
                                    /\ InService(Top.vector - PIC_REMAP_OFFSET)
<1>1. frames \in Seq(Frame) /\ Len(frames) \in 0 .. 2
  BY DEF FramesRight
<1>2. Len(frames) # 0
  BY <1>1
<1>3. Len(frames) \in 1 .. 2 /\ Top = frames[Len(frames)]
  BY <1>1, <1>2 DEF Top
<1>4. Top \in Frame
  BY <1>1, FrameFacts
<1> QED
  BY <1>3, <1>4 DEF FramesRight

\* A step of a system call's handler with nothing in service ...
LEMMA SyscallFrames ==
  ASSUME FramesRight, frames # << >>, Top.vector = Syscall, Top.todo # << >>, Did,
         UNCHANGED <<isr1, isr2, ISRHandlers, pc>>
  PROVE  FramesRight'
<1>1. Len(frames) = 1 /\ Top.todo \in SyscallSteps /\ NoneInService /\ pc # "IRQ"
  BY TopFacts
<1>2. Tail(Top.todo) \in SyscallSteps
  BY <1>1, SyscallStep
<1>3. /\ frames' \in Seq(Frame) /\ Len(frames') = 1 /\ Top' = [Top EXCEPT !.todo = Tail(@)]
      /\ Top \in Frame /\ frames'[1] = Top' /\ frames' # << >>
  BY <1>1, <1>2, DidFacts, TopFacts DEF FramesRight
<1>4. Top'.vector = Syscall /\ Top'.todo = Tail(Top.todo)
  BY <1>3 DEF Frame
<1>5. NoneInService' /\ Registered' /\ pc' # "IRQ"
  BY <1>1, StillRegistered DEF NoneInService
<1>6. \A i \in 1 .. Len(frames') : frames'[i].vector = Syscall /\ frames'[i].todo \in SyscallSteps
  <2>1. \A i \in 1 .. Len(frames') : i = 1
    BY <1>3
  <2>2. frames'[1].vector = Syscall /\ frames'[1].todo \in SyscallSteps
    BY <1>2, <1>3, <1>4
  <2> QED
    BY <2>1, <2>2
<1> QED
  BY <1>3, <1>4, <1>5, <1>6 DEF FramesRight

\* ... and of a line's, which has acknowledged when it has no step left.
LEMMA IrqFrames ==
  ASSUME FramesRight, frames # << >>, Top.vector # Syscall, Top.todo # << >>, Did,
         UNCHANGED <<enabled, ISRHandlers, pc>>,
         isr1' \subseteq isr1, isr2' \subseteq isr2,
         Head(Top.todo) = "ack" => NoneInService'
  PROVE  FramesRight'
<1>1. /\ Len(frames) \in 1 .. 2 /\ Top.todo \in IrqSteps /\ ~enabled /\ pc # "IRQ"
      /\ InService(Top.vector - PIC_REMAP_OFFSET) /\ Top = frames[Len(frames)]
  BY TopFacts
<1>2. Tail(Top.todo) \in IrqSteps /\ (Tail(Top.todo) = << >> => Head(Top.todo) = "ack")
  BY <1>1, IrqStep
<1>3. /\ frames' \in Seq(Frame) /\ Len(frames') = Len(frames) /\ frames' # << >>
      /\ Top' = [Top EXCEPT !.todo = Tail(@)] /\ Top \in Frame
      /\ \A i \in 1 .. Len(frames) - 1 : frames'[i] = frames[i]
      /\ frames'[Len(frames)] = Top'
  BY <1>1, <1>2, DidFacts, TopFacts DEF FramesRight
<1>4. Top'.vector = Top.vector /\ Top'.todo = Tail(Top.todo)
  BY <1>3 DEF Frame
<1>5. InService(Top.vector - PIC_REMAP_OFFSET)' /\ Registered' /\ pc' # "IRQ"
  BY <1>1, <1>3, <1>4, StillRegistered DEF InService
<1>6. \A i \in 1 .. Len(frames') :
        frames'[i].todo \in IF frames'[i].vector = Syscall THEN SyscallSteps ELSE IrqSteps
  <2> SUFFICES ASSUME NEW i \in 1 .. Len(frames)
               PROVE  frames'[i].todo \in IF frames'[i].vector = Syscall THEN SyscallSteps ELSE IrqSteps
    BY <1>3
  <2>1. CASE i = Len(frames)
    <3>1. frames'[i].todo = Tail(Top.todo) /\ frames'[i].vector = Top.vector
      BY <1>3, <1>4, <2>1
    <3> QED
      BY <1>2, <3>1
  <2>2. CASE i # Len(frames)
    <3>1. frames'[i] = frames[i]
      BY <1>1, <1>3, <2>2
    <3> QED
      BY <3>1 DEF FramesRight
  <2> QED
    BY <2>1, <2>2
<1>7. Len(frames') = 2 => frames'[1].vector = Syscall /\ frames'[2].vector # Syscall
  <2>1. Len(frames) = 2 => frames'[1] = frames[1] /\ frames'[2] = Top'
    BY <1>3
  <2> QED
    BY <2>1, <1>3, <1>4 DEF FramesRight
<1>8. frames' = << >> \/ Top'.vector = Syscall => NoneInService'
  BY <1>3, <1>4
<1>9. ~enabled' /\ InService(Top.vector - PIC_REMAP_OFFSET)' /\ (Top'.todo = << >> => NoneInService')
  BY <1>1, <1>2, <1>4, <1>5
<1> QED
  BY <1>1, <1>3, <1>5, <1>6, <1>7, <1>8, <1>9 DEF FramesRight

\* The handlers.
LEMMA HandlerFrames ==
  ASSUME IntTypes, FramesRight, HandlerStep, UNCHANGED pc
  PROVE  FramesRight'
<1>1. ASSUME NEW step, Doing(step), Did, UNCHANGED <<enabled, ISRHandlers>>,
             step = "ack" => i686_PIC_SendEOI(Top.vector - PIC_REMAP_OFFSET),
             step # "ack" => UNCHANGED <<isr1, isr2>>
      PROVE  FramesRight'
  <2>1. frames # << >> /\ Top.todo # << >> /\ Head(Top.todo) = step
    BY <1>1 DEF Doing
  <2>2. CASE Top.vector = Syscall
    <3>1. step # "ack"
      BY <2>1, <2>2, TopFacts, SyscallStep
    <3> QED
      BY <3>1, <1>1, <2>1, <2>2, SyscallFrames
  <2>3. CASE Top.vector # Syscall
    <3> DEFINE line == Top.vector - PIC_REMAP_OFFSET
    <3>1. line \in Lines /\ InService(line)
      <4>1. Top.vector \in Vectors
        BY <2>1, TopFacts DEF Frame
      <4> QED
        BY <4>1, <2>1, <2>3, TopFacts
           DEF Vectors, Vector, Lines, Timer, Keyboard, Usb, Disk, PIC_REMAP_OFFSET
    <3>2. step = "ack" => NoneInService'
      BY <1>1, <3>1, AcknowledgesAll
    <3>3. isr1' \subseteq isr1 /\ isr2' \subseteq isr2
      BY <1>1 DEF i686_PIC_SendEOI, EOI
    <3> QED
      BY <1>1, <2>1, <2>3, <3>2, <3>3, IrqFrames
  <2> QED
    BY <2>2, <2>3
<1>2. CASE Ack
  BY <1>1, <1>2 DEF Ack, tables
<1>3. CASE CountTick
  BY <1>1, <1>3 DEF CountTick, tables, pic
<1>4. CASE ReadKey
  BY <1>1, <1>4 DEF ReadKey, tables, pic
<1>5. CASE Output
  BY <1>1, <1>5 DEF Output, tables, pic
<1>6. CASE Sti
  <2>1. frames # << >> /\ Top.todo # << >> /\ Head(Top.todo) = "sti"
    BY <1>6 DEF Sti, Doing
  <2>2. Top.vector = Syscall
    BY <2>1, TopFacts, IrqStep
  <2> QED
    BY <1>6, <2>1, <2>2, SyscallFrames DEF Sti, tables, pic
<1>7. CASE Iret
  <2>1. frames # << >> /\ Top.todo = << >> /\ frames' = Below /\ UNCHANGED <<isr1, isr2, ISRHandlers>>
    BY <1>7 DEF Iret, tables, pic
  <2>2. NoneInService /\ Len(frames) \in 1 .. 2 /\ pc # "IRQ"
    BY <2>1, TopFacts DEF FramesRight
  <2>3. /\ frames' \in Seq(Frame) /\ Len(frames') = Len(frames) - 1
        /\ \A i \in 1 .. Len(frames') : frames'[i] = frames[i]
    BY <2>1, FrameFacts DEF FramesRight
  <2>4. NoneInService' /\ Registered' /\ pc' # "IRQ"
    BY <2>1, <2>2, StillRegistered DEF NoneInService
  <2>5. CASE Len(frames) = 1
    <3>1. Len(frames') = 0 /\ frames' = << >>
      BY <2>3, <2>5
    <3> QED
      BY <2>3, <2>4, <3>1 DEF FramesRight
  <2>6. CASE Len(frames) = 2
    <3>1. Len(frames') = 1 /\ frames'[1] = frames[1] /\ frames[1].vector = Syscall
          /\ frames[1].todo \in SyscallSteps
      BY <2>3, <2>6 DEF FramesRight
    <3>2. Top'.vector = Syscall
      BY <3>1 DEF Top
    <3> QED
      BY <2>3, <2>4, <3>1, <3>2 DEF FramesRight
  <2> QED
    BY <2>2, <2>5, <2>6
<1> QED
  BY <1>2, <1>3, <1>4, <1>5, <1>6, <1>7 DEF HandlerStep

\* exit_process leaves its frame on a stack nobody returns to.
LEMMA ExitFrames ==
  ASSUME FramesRight, exit_process
  PROVE  FramesRight'
<1>1. frames # << >> /\ Top.todo # << >> /\ Head(Top.todo) = "exit" /\ frames' = << >>
      /\ UNCHANGED <<enabled, isr1, isr2, ISRHandlers>> /\ pc' = "exited"
  BY DEF exit_process, Doing, tables, pic
<1>2. Top.vector = Syscall
  BY <1>1, TopFacts, IrqStep
<1>3. NoneInService' /\ Registered'
  BY <1>1, <1>2, TopFacts, StillRegistered DEF NoneInService
<1>4. Len(frames') = 0 /\ frames' \in Seq(Frame)
  BY <1>1
<1> QED
  BY <1>1, <1>3, <1>4 DEF FramesRight

\* Handlers and the CPU keep to the order.
LEMMA FramesKeep ==
  ASSUME IntTypes, FramesRight, [Next]_vars
  PROVE  FramesRight'
<1>1. CASE StartUp
  BY <1>1, StartUpFrames
<1>2. ASSUME UNCHANGED <<cpuVars, tables, isr1, isr2>>, pc # "IRQ", pc' # "IRQ"
      PROVE  FramesRight'
  BY <1>2, StillRegistered, CalmStep DEF cpuVars, tables
<1>3. CASE Access \/ Drive
  BY <1>2, <1>3 DEF Access, Drive, Main, DriverStep, ata_read28, ReadDone, ata_write28, ata_flush,
                    FlushDone, intVars, pic
<1>4. CASE load_elf_file
  BY <1>2, <1>4 DEF load_elf_file, Main, Loaded, LoadFailed, pic
<1>5. CASE exec \/ ExecReturns
  BY <1>2, <1>5 DEF exec, ExecReturns, Main, pic
<1>6. CASE int80("exit") \/ int80("output")
  BY <1>6, CallFrames DEF Calls
<1>7. CASE Handlers
  BY <1>7, HandlerFrames, ExitFrames DEF Handlers
<1>8. ASSUME NEW line \in Lines, Interrupt(line)
      PROVE  FramesRight'
  BY <1>8, InterruptFrames
<1>9. ASSUME UNCHANGED <<frames, enabled, tables, isr1, isr2, pc>>
      PROVE  FramesRight'
  BY <1>9, CalmStep DEF FramesRight, Registered, tables
<1>10. CASE Devices
  BY <1>9, <1>10 DEF Devices, Tick, Press, UhciDone, cpuVars
<1>11. CASE DriveStep
  BY <1>9, <1>11 DEF DriveStep, DriveDone, cpuVars
<1>12. CASE UNCHANGED vars
  BY <1>9, <1>12 DEF vars, intVars, cpuVars, pic
<1> QED
  BY <1>1, <1>3, <1>4, <1>5, <1>6, <1>7, <1>8, <1>10, <1>11, <1>12 DEF Next, ProgramStep

-----------------------------------------------------------------------------
(* The disk                                                                *)

\* The registers of an address below 2^28 together are the address.
LEMMA Registers ==
  ASSUME NEW n \in Nat, n < LowMod * TopMod
  PROVE  TopBits(n) * LowMod + Low(n) = n
<1> DEFINE q == n \div LowMod
           r == n % LowMod
<1>1. LowMod \in Nat /\ LowMod > 0 /\ TopMod \in Nat /\ TopMod > 0
  BY AtaAssumption
<1>2. q \in Nat /\ r \in Nat /\ n = LowMod * q + r
  BY <1>1
<1> HIDE DEF q, r
<1>3. q < TopMod
  <2>1. q >= TopMod => LowMod * q >= LowMod * TopMod
    BY <1>1, <1>2
  <2> QED
    BY <1>1, <1>2, <2>1
<1>4. q % TopMod = q
  BY <1>1, <1>2, <1>3
<1>5. q * LowMod = LowMod * q
  BY <1>1, <1>2
<1> QED
  BY <1>2, <1>4, <1>5 DEF TopBits, Low, q, r

\* A sector is read where it lies in the partition, and unless it is astray it
\* is written there.
LEMMA SectorFacts ==
  ASSUME NEW lba \in Lbas, ~TooLarge(lba)
  PROVE  /\ ReadSector(lba) = lba_real(lba) /\ ReadSector(lba) \in Sectors
         /\ ~Astray(lba) => WriteSector(lba) = ReadSector(lba)
<1>1. lba_real(lba) \in Nat /\ lba_real(lba) < LowMod * TopMod
  BY AtaAssumption DEF TooLarge, lba_real
<1>2. ReadSector(lba) = lba_real(lba)
  BY <1>1, Registers DEF ReadSector
<1>3. lba_real(lba) \in Sectors
  BY <1>1, AtaAssumption DEF Sectors
<1> QED
  BY <1>2, <1>3 DEF Astray, WriteSector, ReadSector

\* No two sectors are read from one place.
LEMMA SectorsDiffer ==
  ASSUME NEW a \in Lbas, NEW b \in Lbas, ~TooLarge(a), ~TooLarge(b), a # b
  PROVE  ReadSector(a) # ReadSector(b)
BY SectorFacts, AtaAssumption DEF lba_real

\* What has gone wrong stays gone wrong, a missed tick excepted.
LEMMA TroubleStays ==
  ASSUME [Next]_vars, NEW t \in trouble, t # "missed"
  PROVE  t \in trouble'
<1>1. CASE StartUp
  BY <1>1 DEF StartUp, InitIRQ, i686_IRQ_Initialize, InitKeyboard, uhci_init, i686_IRQ_RegisterHandler, PIT_init,
              init_syscall_handler, i686_ISR_Registerhandler, sleep_ms, TestTicks, Halt,
              init_process_management, vfs_init, intVars
<1>2. CASE Access \/ Drive
  BY <1>2 DEF Access, Drive, DriverStep, ata_read28, ReadDone, ata_write28, ata_flush, FlushDone, intVars
<1>3. CASE load_elf_file \/ exec \/ ExecReturns
  BY <1>3 DEF load_elf_file, Loaded, LoadFailed, exec, ExecReturns, Unloaded, UnloadFailed
<1>4. ASSUME NEW call, int80(call)
      PROVE  t \in trouble'
  BY <1>4 DEF int80
<1>5. CASE Handlers
  BY <1>5 DEF Handlers, HandlerStep, Ack, CountTick, ReadKey, Sti, Output, Iret, exit_process
<1>6. ASSUME NEW line, Interrupt(line)
      PROVE  t \in trouble'
  BY <1>6 DEF Interrupt, Accept
<1>7. CASE Devices \/ DriveStep
  BY <1>7 DEF Devices, Tick, Press, UhciDone, DriveStep, DriveDone
<1>8. CASE UNCHANGED vars
  BY <1>8 DEF vars, intVars
<1> QED
  BY <1>1, <1>2, <1>3, <1>4, <1>5, <1>6, <1>7, <1>8 DEF Next, ProgramStep

DiskInv == DriveRight /\ DiskRight

\* Initially the drive is idle and the disk blank.
LEMMA InitDisk ==
  ASSUME Init
  PROVE  DiskInv
<1> USE DEF Init, AtaInit
<1>1. \A lba \in Lbas : ~TooLarge(lba) => disk[ReadSector(lba)] = wrote[lba]
  BY SectorFacts
<1>2. DriveRight
  BY DEF DriveRight
<1>3. ReadsBack
  BY DEF ReadsBack
<1> QED
  BY <1>1, <1>2, <1>3 DEF DiskInv, DiskRight

\* A step that has no part in it.
LEMMA DiskApart ==
  ASSUME DiskInv, UNCHANGED ataVars, \A t \in trouble : t # "missed" => t \in trouble'
  PROVE  DiskInv'
<1> USE DEF ataVars
<1>1. DriveRight'
  BY DEF DiskInv, DriveRight, Asks
<1>2. DiskRight'
  BY DEF DiskInv, DiskRight, ReadsBack, Pending, Asks
<1> QED
  BY <1>1, <1>2 DEF DiskInv

\* The driver's calls and their steps.
LEMMA DriverKeeps ==
  ASSUME DiskInv, \A t \in trouble : t # "missed" => t \in trouble',
         DriverStep \/ \E lba \in Lbas : ata_read28(lba) \/ \E value \in Values : ata_write28(lba, value)
  PROVE  DiskInv'
<1> USE DEF DiskInv
<1>1. ASSUME NEW lba \in Lbas, ata_read28(lba)
      PROVE  DiskInv'
  <2>1. UNCHANGED <<disk, wrote>> /\ at = "ready"
    BY <1>1 DEF ata_read28
  <2>2. DriveRight'
    <3>1. CASE TooLarge(lba)
      BY <3>1, <1>1 DEF ata_read28, DriveRight
    <3>2. CASE ~TooLarge(lba)
      <4>1. /\ request'.lba = lba /\ drive' = "busy" /\ at' = "read"
            /\ command' = [op |-> "read", sector |-> ReadSector(lba)]
        BY <3>2, <1>1 DEF ata_read28, Asked
      <4>2. Asks("read", ReadSector(request.lba))' /\ ~TooLarge(request.lba)'
        BY <3>2, <4>1 DEF Asks, ReadSector, TooLarge
      <4> QED
        BY <4>1, <4>2 DEF DriveRight
    <3> QED
      BY <3>1, <3>2
  <2>3. DiskRight'
    BY <1>1, <2>1 DEF ata_read28, DiskRight, ReadsBack, Pending, Failed, Unread, Asks
  <2> QED
    BY <2>2, <2>3
<1>2. CASE ReadDone
  <2>1. request.lba \in Lbas /\ ~TooLarge(request.lba) /\ Asks("read", ReadSector(request.lba))
        /\ UNCHANGED <<disk, wrote, request, trouble>> /\ at = "read" /\ at' = "ready"
        /\ got' \in {Failed, disk[command.sector]}
    BY <1>2 DEF ReadDone, DriveRight, intVars
  <2>2. command.sector = ReadSector(request.lba) /\ ReadSector(request.lba) \in Sectors
    BY <2>1, SectorFacts DEF Asks
  <2>3. DriveRight'
    BY <1>2, <2>1 DEF ReadDone, DriveRight
  <2>4. ReadsBack'
    BY <2>1, <2>2 DEF ReadsBack, DiskRight, Pending
  <2>5. got' \in Values \cup {Blank, Unread, Failed}
    BY <2>1, <2>2 DEF DiskRight
  <2>6. "not stored" \notin trouble' =>
          \A lba \in Lbas : TooLarge(lba) \/ Pending(lba)' \/ disk'[ReadSector(lba)] = wrote'[lba]
    BY <2>1 DEF DiskRight, Pending
  <2> QED
    BY <2>1, <2>3, <2>4, <2>5, <2>6 DEF DiskRight
<1>3. ASSUME NEW lba \in Lbas, NEW value \in Values, ata_write28(lba, value)
      PROVE  DiskInv'
  <2>1. /\ at = "ready" /\ at' = "flush" /\ ~TooLarge(lba) /\ got' = Unread
        /\ request' = [op |-> "write", lba |-> lba, value |-> value] /\ drive' = "busy"
        /\ wrote' = [wrote EXCEPT ![lba] = value] /\ disk' = disk
    BY <1>3 DEF ata_write28
  <2>2. \/ command' = [op |-> "store", sector |-> WriteSector(lba)]
        \/ command' = [op |-> "write", sector |-> WriteSector(lba)] /\ "not stored" \in trouble'
    BY <1>3 DEF ata_write28, Asked
  <2>3. wrote' \in [Lbas -> Values \cup {Blank}] /\ wrote'[lba] = value
        /\ \A l \in Lbas : l # lba => wrote'[l] = wrote[l]
    BY <2>1 DEF DiskRight
  <2>7. request'.lba = lba /\ request'.value = value
        /\ request' \in [op : {"write"}, lba : Lbas, value : Values]
    BY <2>1
  <2>8. \/ drive' = "busy" /\ Asks("store", WriteSector(request.lba))'
        \/ drive' = "busy" /\ Asks("write", WriteSector(request.lba))' /\ "not stored" \in trouble'
    BY <2>1, <2>2, <2>7 DEF Asks, WriteSector
  <2>4. DriveRight'
    BY <2>1, <2>3, <2>7, <2>8 DEF DriveRight, TooLarge
  <2>5. "not stored" \notin trouble' =>
          \A l \in Lbas : TooLarge(l) \/ Pending(l)' \/ disk'[ReadSector(l)] = wrote'[l]
    <3> SUFFICES ASSUME "not stored" \notin trouble', NEW l \in Lbas, ~TooLarge(l)
                 PROVE  Pending(l)' \/ disk'[ReadSector(l)] = wrote'[l]
      OBVIOUS
    <3>1. CASE l = lba
      BY <3>1, <2>1, <2>2, <2>7 DEF Pending, Asks
    <3>2. CASE l # lba
      <4>1. disk[ReadSector(l)] = wrote[l]
        BY <2>1 DEF DiskRight, Pending
      <4> QED
        BY <4>1, <3>2, <2>1, <2>3
    <3> QED
      BY <3>1, <3>2
  <2>6. ReadsBack' /\ got' \in {Unread}
    BY <2>1 DEF ReadsBack
  <2> QED
    BY <2>1, <2>3, <2>4, <2>5, <2>6 DEF DiskRight
<1>4. CASE ata_flush
  <2>1. /\ at = "flush" /\ at' = "flushing" /\ UNCHANGED <<disk, request, got, wrote>>
        /\ IF drive \in {"idle", "failed"} THEN drive' = "busy" /\ Asks("flush", 0)'
           ELSE UNCHANGED <<drive, command>>
        /\ drive = "failed" => "not stored" \in trouble'
    BY <1>4 DEF ata_flush, Asks, Asked
  <2>2. DriveRight'
    BY <2>1 DEF DriveRight, Asks, WriteSector
  <2>3. "not stored" \notin trouble' =>
          \A l \in Lbas : TooLarge(l) \/ Pending(l)' \/ disk'[ReadSector(l)] = wrote'[l]
    <3> SUFFICES ASSUME "not stored" \notin trouble', NEW l \in Lbas, ~TooLarge(l)
                 PROVE  Pending(l)' \/ disk'[ReadSector(l)] = wrote'[l]
      OBVIOUS
    <3>1. "not stored" \notin trouble /\ drive # "failed"
      BY <2>1
    <3>2. Pending(l) \/ disk[ReadSector(l)] = wrote[l]
      BY <3>1 DEF DiskRight
    <3>3. Pending(l) /\ ~Pending(l)' => FALSE
      <4>1. CASE Astray(request.lba)
        BY <4>1, <2>1 DEF Pending
      <4>2. CASE drive = "busy" /\ Asks("store", WriteSector(l)) /\ l = request.lba
        BY <4>2, <2>1 DEF Pending, Asks
      <4> QED
        BY <4>1, <4>2, <3>1 DEF Pending
    <3> QED
      BY <3>2, <3>3, <2>1
  <2> QED
    BY <2>1, <2>2, <2>3 DEF DiskRight, ReadsBack
<1>5. CASE FlushDone
  <2>1. /\ at = "flushing" /\ at' = "ready" /\ drive # "busy" /\ drive' = "idle"
        /\ UNCHANGED <<disk, got, wrote>>
        /\ drive = "failed" => "not stored" \in trouble'
        /\ Astray(request.lba) => "not stored" \in trouble'
    BY <1>5 DEF FlushDone
  <2>2. DriveRight'
    BY <2>1 DEF DriveRight
  <2>3. "not stored" \notin trouble' => \A l \in Lbas : TooLarge(l) \/ disk'[ReadSector(l)] = wrote'[l]
    BY <2>1 DEF DiskRight, DriveRight, Pending, Asks
  <2>4. ReadsBack'
    BY <2>1 DEF ReadsBack, DriveRight
  <2> QED
    BY <2>1, <2>2, <2>3, <2>4 DEF DiskRight
<1> QED
  BY <1>1, <1>2, <1>3, <1>4, <1>5 DEF DriverStep

\* The drive.
LEMMA DriveKeeps ==
  ASSUME DiskInv, DriveDone
  PROVE  DiskInv'
<1> USE DEF DiskInv
<1>1. drive = "busy" /\ UNCHANGED <<request, at, got, wrote, trouble>>
  BY DEF DriveDone
<1>2. at # "ready"
  BY <1>1 DEF DriveRight
<1>3. CASE at = "read"
  <2>1. command.op = "read"
    BY <1>3 DEF DriveRight, Asks
  <2>2. drive' \in {"data", "failed"} /\ UNCHANGED <<disk, command>>
    BY <2>1 DEF DriveDone
  <2>3. DriveRight'
    BY <1>1, <1>3, <2>2 DEF DriveRight, Asks
  <2> QED
    BY <1>1, <1>3, <2>2, <2>3 DEF DiskRight, ReadsBack, Pending
<1>4. CASE at \in {"flush", "flushing"} /\ Asks("store", WriteSector(request.lba))
  <2>1. command.op = "store" /\ command.sector = WriteSector(request.lba)
    BY <1>4 DEF Asks
  <2>2. drive' \in {"idle", "failed"}
        /\ disk' = IF drive' = "idle" THEN [disk EXCEPT ![command.sector] = request.value] ELSE disk
    BY <2>1 DEF DriveDone
  <2>3. request.lba \in Lbas /\ ~TooLarge(request.lba) /\ request.value \in Values
        /\ wrote[request.lba] = request.value /\ got = Unread
    BY <1>4 DEF DriveRight
  <2>4. DriveRight'
    BY <1>1, <1>4, <2>2 DEF DriveRight, TooLarge
  <2>5. disk' \in [Sectors -> Values \cup {Blank}]
    BY <2>2, <2>3 DEF DiskRight
  <2>6. "not stored" \notin trouble' =>
          \A l \in Lbas : TooLarge(l) \/ Pending(l)' \/ disk'[ReadSector(l)] = wrote'[l]
    <3> SUFFICES ASSUME "not stored" \notin trouble', NEW l \in Lbas, ~TooLarge(l), ~Astray(request.lba)
                 PROVE  Pending(l)' \/ disk'[ReadSector(l)] = wrote'[l]
      BY <1>1, <1>4 DEF Pending, Astray
    <3>1. WriteSector(request.lba) = ReadSector(request.lba) /\ ReadSector(request.lba) \in Sectors
      BY <2>3, SectorFacts
    <3>2. CASE l = request.lba
      <4>1. CASE drive' = "failed"
        <5>1. at' = at /\ request' = request
          BY <1>1
        <5>2. l = request'.lba /\ at' \in {"flush", "flushing"}
          BY <5>1, <3>2, <1>4
        <5>3. Pending(l)'
          BY <4>1, <5>2 DEF Pending
        <5> QED
          BY <5>3
      <4>2. CASE drive' = "idle"
        <5>1. disk' = [disk EXCEPT ![ReadSector(l)] = request.value] /\ ReadSector(l) \in Sectors
          BY <4>2, <3>1, <3>2, <2>1, <2>2
        <5>2. disk'[ReadSector(l)] = request.value
          BY <5>1 DEF DiskRight
        <5> QED
          BY <5>2, <3>2, <1>1, <2>3
      <4> QED
        BY <4>1, <4>2, <2>2
    <3>3. CASE l # request.lba
      <4>1. ReadSector(l) # ReadSector(request.lba)
        BY <3>3, <2>3, SectorsDiffer
      <4>2. disk[ReadSector(l)] = wrote[l]
        BY <3>3, <1>1 DEF DiskRight, Pending
      <4>3. ReadSector(l) \in Sectors
        BY SectorFacts
      <4>4. disk'[ReadSector(l)] = disk[ReadSector(l)]
        BY <3>1, <4>1, <4>3, <2>1, <2>2 DEF DiskRight
      <4> QED
        BY <4>2, <4>4, <1>1
    <3> QED
      BY <3>2, <3>3
  <2>7. ReadsBack'
    BY <1>1, <2>3 DEF ReadsBack
  <2> QED
    BY <1>1, <2>4, <2>5, <2>6, <2>7 DEF DiskRight
<1>5. CASE at \in {"flush", "flushing"} /\ Asks("write", WriteSector(request.lba))
  <2>1. command.op = "write" /\ "not stored" \in trouble'
    BY <1>1, <1>5 DEF Asks, DriveRight
  <2>2. drive' = "data" /\ UNCHANGED <<disk, command>>
    BY <2>1 DEF DriveDone
  <2>3. DriveRight'
    BY <1>1, <1>5, <2>1, <2>2 DEF DriveRight, Asks, TooLarge, WriteSector
  <2> QED
    BY <1>1, <2>1, <2>2, <2>3 DEF DiskRight, ReadsBack
<1>6. CASE at \in {"flush", "flushing"} /\ Asks("flush", 0)
  <2>1. command.op = "flush"
    BY <1>6 DEF Asks
  <2>2. drive' \in {"idle", "failed"} /\ UNCHANGED disk
    BY <2>1 DEF DriveDone
  <2>3. DriveRight'
    BY <1>1, <1>6, <2>2 DEF DriveRight, TooLarge
  <2> QED
    BY <1>1, <1>6, <2>1, <2>2, <2>3 DEF DiskRight, ReadsBack, Pending, Asks
<1> QED
  BY <1>1, <1>2, <1>3, <1>4, <1>5, <1>6 DEF DriveRight

\* Whatever the machine does, the disk is right.
LEMMA DiskKeeps ==
  ASSUME DiskInv, [Next]_vars
  PROVE  DiskInv'
<1>1. \A t \in trouble : t # "missed" => t \in trouble'
  BY TroubleStays
<1>2. CASE Access \/ Drive
  BY <1>1, <1>2, DriverKeeps DEF Access, Drive
<1>3. CASE DriveStep
  BY <1>3, DriveKeeps DEF DriveStep
<1>4. CASE UNCHANGED ataVars
  BY <1>1, <1>4, DiskApart
<1>5. CASE StartUp
  BY <1>4, <1>5 DEF StartUp, InitIRQ, InitKeyboard, uhci_init, PIT_init, init_syscall_handler, sleep_ms, TestTicks,
                    Halt, init_process_management, vfs_init
<1>6. CASE load_elf_file \/ exec \/ ExecReturns
  BY <1>4, <1>6 DEF load_elf_file, exec, ExecReturns
<1>7. ASSUME NEW call, int80(call)
      PROVE  DiskInv'
  BY <1>4, <1>7 DEF int80
<1>8. CASE Handlers
  BY <1>4, <1>8 DEF Handlers, exit_process
<1>9. ASSUME NEW line, Interrupt(line)
      PROVE  DiskInv'
  BY <1>4, <1>9 DEF Interrupt
<1>10. CASE Devices
  BY <1>4, <1>10 DEF Devices
<1>11. CASE UNCHANGED vars
  BY <1>4, <1>11 DEF vars
<1> QED
  BY <1>2, <1>3, <1>5, <1>6, <1>7, <1>8, <1>9, <1>10, <1>11 DEF Next, ProgramStep

-----------------------------------------------------------------------------
(* Processes                                                               *)

\* Initially there are no processes.
LEMMA InitProcesses ==
  ASSUME Init
  PROVE  ProcessesRight
BY DEF Init, ProcessesRight, BeforeProcesses, Started, Running, NothingLeft, NoProgram

\* A step that leaves programs alone and stays where processes are as they were.
LEMMA ProcessesApart ==
  ASSUME ProcessesRight, UNCHANGED procVars,
         pc' = pc \/ (pc \in BeforeProcesses /\ pc' \in BeforeProcesses)
           \/ (pc \in Running /\ pc' \in Running),
         \A t \in trouble : t # "missed" => t \in trouble'
  PROVE  ProcessesRight'
<1> USE DEF procVars
<1>1. NothingLeft'
  BY DEF ProcessesRight, NothingLeft, BeforeProcesses, Running
<1> QED
  BY <1>1 DEF ProcessesRight, BeforeProcesses, Started, Running, PagesOf

\* System calls are made by programs.
CallsFromPrograms ==
  frames # << >> /\ frames[1].vector = Syscall => pc = "process runs"

\* No step changes that.
LEMMA CallsKeep ==
  ASSUME IntTypes, FramesRight, CallsFromPrograms, [Next]_vars
  PROVE  CallsFromPrograms'
<1>1. ASSUME frames' = << >>
      PROVE  CallsFromPrograms'
  BY <1>1 DEF CallsFromPrograms
<1>2. ASSUME UNCHANGED <<frames, pc>>
      PROVE  CallsFromPrograms'
  BY <1>2 DEF CallsFromPrograms
<1>3. CASE StartUp
  BY <1>1, <1>3 DEF StartUp, InitIRQ, i686_IRQ_Initialize, InitKeyboard, uhci_init, i686_IRQ_RegisterHandler, PIT_init,
       init_syscall_handler, i686_ISR_Registerhandler, sleep_ms, TestTicks, Halt,
       init_process_management, vfs_init, intVars, cpuVars, Main
<1>4. CASE Access \/ Drive
  BY <1>2, <1>4 DEF Access, Drive, DriverStep, ata_read28, ReadDone, ata_write28, ata_flush,
       FlushDone, intVars, cpuVars
<1>5. CASE load_elf_file \/ exec \/ ExecReturns
  BY <1>1, <1>5 DEF load_elf_file, exec, ExecReturns, Main, cpuVars
<1>6. ASSUME NEW call, int80(call)
      PROVE  CallsFromPrograms'
  BY <1>6 DEF int80, Main, CallsFromPrograms
<1>7. CASE exit_process
  BY <1>1, <1>7 DEF exit_process
<1>8. ASSUME HandlerStep, UNCHANGED pc
      PROVE  CallsFromPrograms'
  <2>1. CASE Iret
    <3>1. frames # << >> /\ frames' = Below
      BY <2>1 DEF Iret
    <3>2. frames \in Seq(Frame) /\ Len(frames) \in 0 .. 2
      BY DEF FramesRight
    <3>3. Len(Below) = Len(frames) - 1 /\ \A i \in 1 .. Len(Below) : Below[i] = frames[i]
      BY <3>1, <3>2, FrameFacts
    <3>4. Below # << >> => Len(Below) = 1 /\ Below[1] = frames[1]
      <4>1. Below \in Seq(Frame)
        BY <3>1, <3>2, FrameFacts
      <4>2. Below # << >> => Len(Below) # 0
        BY <4>1
      <4> QED
        BY <4>2, <3>2, <3>3
    <3> QED
      BY <3>1, <3>4, <1>8 DEF CallsFromPrograms
  <2>2. CASE Did /\ frames # << >> /\ Top.todo # << >>
    <3>1. Len(frames) \in 1 .. 2 /\ Top = frames[Len(frames)] /\ Top \in Frame
      BY <2>2, TopFacts
    <3>2. Tail(Top.todo) \in IrqSteps \cup SyscallSteps
      BY <2>2, TopFacts, IrqStep, SyscallStep
    <3>3. /\ frames' # << >> /\ Top' = [Top EXCEPT !.todo = Tail(@)]
          /\ \A i \in 1 .. Len(frames) - 1 : frames'[i] = frames[i]
          /\ frames'[Len(frames)] = Top'
      BY <2>2, <3>2, DidFacts DEF FramesRight
    <3>4. Top'.vector = Top.vector
      BY <3>1, <3>3 DEF Frame
    <3>5. frames'[1].vector = frames[1].vector
      <4>1. CASE Len(frames) = 1
        BY <4>1, <3>1, <3>3, <3>4
      <4>2. CASE Len(frames) = 2
        BY <4>2, <3>3
      <4> QED
        BY <4>1, <4>2, <3>1
    <3> QED
      BY <2>2, <3>5, <1>8 DEF CallsFromPrograms
  <2>3. ASSUME NEW step, Doing(step), Did
        PROVE  CallsFromPrograms'
    BY <2>2, <2>3 DEF Doing
  <2>4. CASE Ack
    BY <2>3, <2>4 DEF Ack
  <2>5. CASE CountTick
    BY <2>3, <2>5 DEF CountTick
  <2>6. CASE ReadKey
    BY <2>3, <2>6 DEF ReadKey
  <2>7. CASE Sti
    BY <2>3, <2>7 DEF Sti
  <2>8. CASE Output
    BY <2>3, <2>8 DEF Output
  <2> QED
    BY <1>8, <2>1, <2>4, <2>5, <2>6, <2>7, <2>8 DEF HandlerStep
<1>9. ASSUME NEW line \in Lines, Interrupt(line)
      PROVE  CallsFromPrograms'
  <2> DEFINE f == [vector |-> Vector(line), todo |-> Handler(line), enabled |-> enabled]
  <2>1. frames' = Append(frames, f)
    BY <1>9 DEF Interrupt, Accept, Entered
  <2>2. f.vector # Syscall
    BY DEF Vector, Lines, Timer, Keyboard, Usb, Disk, Syscall, PIC_REMAP_OFFSET
  <2> HIDE DEF f
  <2>3. pc = "process runs" => pc' = "process runs"
    BY <1>9 DEF Interrupt
  <2>4. frames \in Seq(Frame) /\ Len(frames) \in Nat
    BY DEF FramesRight
  <2>5. CASE frames = << >>
    <3>1. frames'[1] = f
      BY <2>1, <2>5
    <3> QED
      BY <3>1, <2>2 DEF CallsFromPrograms
  <2>6. CASE frames # << >>
    <3>1. Len(frames) # 0
      BY <2>4, <2>6
    <3>2. frames'[1] = frames[1]
      BY <2>1, <2>4, <3>1
    <3> QED
      BY <3>2, <2>3, <2>6 DEF CallsFromPrograms
  <2> QED
    BY <2>5, <2>6
<1>10. CASE Devices
  BY <1>2, <1>10 DEF Devices, Tick, Press, UhciDone, cpuVars
<1>11. CASE DriveStep
  BY <1>2, <1>11 DEF DriveStep, DriveDone, cpuVars
<1>12. CASE UNCHANGED vars
  BY <1>2, <1>12 DEF vars, intVars, cpuVars
<1> QED
  BY <1>3, <1>4, <1>5, <1>6, <1>7, <1>8, <1>9, <1>10, <1>11, <1>12
     DEF Next, ProgramStep, Handlers

\* Everything but the program's own steps.
LEMMA OthersKeepProcesses ==
  ASSUME IntTypes, FramesRight, CallsFromPrograms, ProcessesRight, [Next]_vars,
         ~load_elf_file, ~exec, ~ExecReturns
  PROVE  ProcessesRight'
<1>1. \A t \in trouble : t # "missed" => t \in trouble'
  BY TroubleStays
<1>3. ASSUME UNCHANGED <<procVars, pc>>
      PROVE  ProcessesRight'
  BY <1>1, <1>3, ProcessesApart
<1>4. ASSUME UNCHANGED procVars, pc \in BeforeProcesses, pc' \in BeforeProcesses
      PROVE  ProcessesRight'
  BY <1>1, <1>4, ProcessesApart
<1>5. CASE InitIRQ \/ InitKeyboard \/ PIT_init \/ TestTicks \/ Halt \/ uhci_init
  BY <1>4, <1>5 DEF InitIRQ, InitKeyboard, PIT_init, uhci_init, TestTicks, Halt, Main, BeforeProcesses
<1>6. CASE sleep_ms
  BY <1>4, <1>6 DEF sleep_ms, Main, BeforeProcesses
<1>7. CASE init_process_management \/ init_syscall_handler \/ vfs_init
  <2>1. processes' = <<Kernel>> /\ pc \in {"process", "syscalls", "vfs"}
        /\ pc' \in {"syscalls", "vfs", "prompt"} /\ UNCHANGED <<program, mapped, handles>>
    BY <1>7 DEF init_process_management, init_syscall_handler, vfs_init, Main, procVars,
                ProcessesRight, BeforeProcesses, Started, Running
  <2>2. program = NoProgram /\ mapped = {} /\ handles = 0
    BY <2>1 DEF ProcessesRight, Started, BeforeProcesses
  <2> QED
    BY <2>1, <2>2 DEF ProcessesRight, Started, BeforeProcesses, Running, NothingLeft
<1>8. CASE Access \/ Drive
  BY <1>3, <1>8 DEF Access, Drive
<1>9. ASSUME NEW call, int80(call)
      PROVE  ProcessesRight'
  BY <1>3, <1>9 DEF int80
<1>10. CASE exit_process
  <2>1. UNCHANGED procVars /\ pc' = "exited" /\ frames # << >> /\ Top.todo # << >>
        /\ Head(Top.todo) = "exit"
    BY <1>10 DEF exit_process, Doing
  <2>2. Top.vector = Syscall /\ Top = frames[1]
    BY <2>1, TopFacts, IrqStep
  <2>3. pc = "process runs"
    BY <2>1, <2>2 DEF CallsFromPrograms
  <2> QED
    BY <1>1, <2>1, <2>3, ProcessesApart DEF Running
<1>11. CASE HandlerStep /\ UNCHANGED <<ataVars, pc, procVars>>
  BY <1>3, <1>11
<1>12. ASSUME NEW line \in Lines, Interrupt(line)
       PROVE  ProcessesRight'
  <2>1. CASE pc = "halted"
    BY <1>4, <1>12, <2>1 DEF Interrupt, BeforeProcesses
  <2>2. CASE pc # "halted"
    BY <1>3, <1>12, <2>2 DEF Interrupt
  <2> QED
    BY <2>1, <2>2
<1>13. CASE Devices \/ DriveStep
  BY <1>3, <1>13 DEF Devices, DriveStep
<1>14. CASE UNCHANGED vars
  BY <1>3, <1>14 DEF vars
<1> QED
  BY <1>5, <1>6, <1>7, <1>8, <1>9, <1>10, <1>11, <1>12, <1>13, <1>14
     DEF Next, StartUp, ProgramStep, Handlers

\* The program's steps.
LEMMA ProgramKeepsProcesses ==
  ASSUME ProcessesRight, load_elf_file \/ exec \/ ExecReturns
  PROVE  ProcessesRight'
<1> USE DEF BeforeProcesses, Started, Running
<1>1. CASE load_elf_file
  <2>1. pc = "prompt" /\ program = NoProgram /\ UNCHANGED <<processes, current_pid>>
        /\ mapped = {} /\ handles = 0 /\ processes = <<Kernel>>
    BY <1>1 DEF load_elf_file, Main, ProcessesRight
  <2>2. ASSUME NEW file, file # NoProgram, Loaded(file)
        PROVE  ProcessesRight'
    BY <2>1, <2>2 DEF Loaded, ProcessesRight, NothingLeft, PagesOf
  <2>3. ASSUME NEW file, file # NoProgram, NEW k, LoadFailed(file, k)
        PROVE  ProcessesRight'
    BY <2>1, <2>3 DEF LoadFailed, ProcessesRight, NothingLeft
  <2> QED
    BY <1>1, <2>2, <2>3 DEF load_elf_file
<1>2. CASE exec
  <2>1. pc = "exec" /\ processes = <<Kernel>> /\ pc' = "process runs"
        /\ UNCHANGED <<program, mapped, handles>>
    BY <1>2 DEF exec, Main, ProcessesRight
  <2>2. FreePid = 1
    BY <2>1, FirstPid
  <2>3. processes' = <<Kernel, 1>> /\ current_pid' = 1
    <3>1. processes' = Append(<<Kernel>>, 1) /\ current_pid' = 1
      BY <1>2, <2>1, <2>2 DEF exec
    <3>2. Append(<<Kernel>>, 1) = <<Kernel, 1>>
      <4> DEFINE both == Append(<<Kernel>>, 1)
      <4>1. both \in Seq(Nat) /\ Len(both) = 2 /\ both[1] = Kernel /\ both[2] = 1
        BY DEF Kernel
      <4> HIDE DEF both
      <4>2. both = <<Kernel, 1>>
        BY <4>1
      <4> QED
        BY <4>2 DEF both
    <3> QED
      BY <3>1, <3>2
  <2>4. program # NoProgram /\ mapped = PagesOf(program, Len(program)) /\ handles = 0
    BY <1>2 DEF exec, Main, ProcessesRight
  <2>5. pc' \in Running /\ pc' \notin BeforeProcesses /\ pc' \notin Started /\ pc' # "prompt"
    BY <2>1
  <2>6. PagesOf(program, Len(program))' = PagesOf(program, Len(program))
    BY <2>1 DEF PagesOf
  <2>7. NothingLeft'
    BY <2>5 DEF NothingLeft
  <2> HIDE DEF BeforeProcesses, Started, Running
  <2> QED
    BY <2>1, <2>3, <2>4, <2>5, <2>6, <2>7 DEF ProcessesRight
<1>3. CASE ExecReturns
  <2>1. /\ pc = "exited" /\ processes = <<Kernel, 1>> /\ current_pid = 1 /\ pc' = "prompt"
        /\ processes' = remove_process(current_pid) /\ UNCHANGED <<program, handles>>
        /\ program # NoProgram /\ mapped = PagesOf(program, Len(program)) /\ handles = 0
        /\ Unloaded \/ UnloadFailed
    BY <1>3 DEF ExecReturns, Main, ProcessesRight
  <2>2. processes' = <<Kernel>>
    BY <2>1, OnlyKernelLeft
  <2>3. mapped' = {} \/ "not unloaded" \in trouble'
    BY <2>1 DEF Unloaded, UnloadFailed
  <2> QED
    BY <2>1, <2>2, <2>3 DEF ProcessesRight, NothingLeft
<1> QED
  BY <1>1, <1>2, <1>3

-----------------------------------------------------------------------------
(* The theorems                                                            *)

\* The inductive invariant.
IInv == IntTypes /\ FramesRight /\ CallsFromPrograms /\ DiskInv /\ ProcessesRight

\* It holds in every state of every behaviour.
LEMMA Inductive == Spec => []IInv
<1>1. Init => IInv
  <2> SUFFICES ASSUME Init PROVE IInv
    OBVIOUS
  <2>1. CallsFromPrograms
    BY DEF Init, IntInit, CallsFromPrograms
  <2> QED
    BY <2>1, InitInterrupts, InitDisk, InitProcesses DEF IInv
<1>2. IInv /\ [Next]_vars => IInv'
  <2> SUFFICES ASSUME IInv, [Next]_vars PROVE IInv'
    OBVIOUS
  <2>1. IntTypes /\ FramesRight /\ CallsFromPrograms /\ DiskInv /\ ProcessesRight
    BY DEF IInv
  <2>2. IntTypes' /\ FramesRight' /\ CallsFromPrograms' /\ DiskInv'
    BY <2>1, IntTypesKeep, FramesKeep, CallsKeep, DiskKeeps
  <2>3. ProcessesRight'
    BY <2>1, OthersKeepProcesses, ProgramKeepsProcesses
  <2> QED
    BY <2>2, <2>3 DEF IInv
<1> QED
  BY <1>1, <1>2, PTL DEF Spec

\* The variables keep their types: a tick counter of any width, any disk.
THEOREM MachineTypes == Spec => []MachineTypeOK
<1>1. IInv => MachineTypeOK
  <2> SUFFICES ASSUME IInv PROVE MachineTypeOK
    OBVIOUS
  <2>1. IntTypes /\ DriveRight /\ DiskRight /\ ProcessesRight
    BY DEF IInv, DiskInv
  <2>2. Kernel \notin {processes[i] : i \in 2 .. Len(processes)}
    <3>1. processes \in {<< >>, <<Kernel>>, <<Kernel, 1>>}
      BY <2>1 DEF ProcessesRight
    <3>2. \A i \in 2 .. Len(processes) : processes[i] = 1
      BY <3>1
    <3> QED
      BY <3>2 DEF Kernel
  <2>3. drive \in {"idle", "busy", "data", "failed"}
    BY <2>1 DEF DriveRight
  <2> QED
    BY <2>1, <2>2, <2>3 DEF MachineTypeOK, IntTypes, DiskRight
<1> QED
  BY <1>1, Inductive, PTL

\* Handlers do not nest, a handler in a system call excepted, and what is not
\* being handled is not in service: the two acknowledgements of the keyboard's
\* interrupt never reach another's.
THEOREM HandlersStayFlat == Spec => []HandlersDoNotNest
<1>1. IInv => HandlersDoNotNest
  <2> SUFFICES ASSUME FramesRight PROVE HandlersDoNotNest
    BY DEF IInv
  <2> DEFINE n == Len(frames)
  <2>1. n \in 0 .. 2 /\ (n = 2 => frames[1].vector = Syscall)
    BY DEF FramesRight
  <2> HIDE DEF n
  <2>2. \A i \in 1 .. n - 1 : frames[i].vector = Syscall
    <3> SUFFICES ASSUME NEW i \in 1 .. n - 1 PROVE frames[i].vector = Syscall
      OBVIOUS
    <3>1. i = 1 /\ n = 2
      BY <2>1
    <3> QED
      BY <3>1, <2>1
  <2>3. n <= 2
    BY <2>1
  <2> QED
    BY <2>2, <2>3 DEF HandlersDoNotNest, FramesRight, NoneInService, n
<1> QED
  BY <1>1, Inductive, PTL

\* On every disk and partition, a read returns what was last written there,
\* as long as no write was lost in one of the known ways.
THEOREM DiskReadsBack == Spec => []ReadsBack
<1>1. IInv => ReadsBack
  BY DEF IInv, DiskInv, DiskRight
<1> QED
  BY <1>1, Inductive, PTL

\* A program leaves no page, no open file and no process behind, unless
\* loading or unloading it failed.
THEOREM ProgramsLeaveNothing == Spec => []NothingLeft
<1>1. IInv => NothingLeft
  BY DEF IInv, ProcessesRight
<1> QED
  BY <1>1, Inductive, PTL
=============================================================================
