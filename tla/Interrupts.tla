----------------------------- MODULE Interrupts -----------------------------
(***************************************************************************)
(* Interrupts: the controllers, the gates, the dispatchers and handlers    *)
(*   src/kernel/arch/i686/isr.asm, isr.c, isrs_gen.c, irq.c, pic.c         *)
(*   src/kernel/driver/pit/pit.c:22-26                                     *)
(*   src/kernel/driver/keyboard/keyboard.c:25-36                           *)
(*   src/kernel/driver/usb/uhci.c:142-154                                  *)
(*   src/kernel/syscall/syscall.c:6-18                                     *)
(*                                                                         *)
(* Four lines are used: the timer, the keyboard, the disk, and the USB     *)
(* controller's, which is 11 as its handler takes for granted.  A frame is *)
(* an interrupt that is being handled, with the steps its handler still    *)
(* has to take.  The two 8259s are what pic.c programs them to be: edge    *)
(* triggered, fully nested, acknowledged by command.                       *)
(***************************************************************************)
EXTENDS Integers, Sequences, FiniteSets

CONSTANT TickMod       \* 2^32: pit_ticks is a uint32_t

ASSUME TickAssumption == TickMod \in Nat \ {0, 1}

VARIABLES
  enabled,        \* IF of the CPU
  ISRHandlers,    \* g_ISRHandlers, of the vectors that are used
  IRQHandlers,    \* g_IRQHandler, of the lines that are used
  irr, isr1, isr2,  \* the controllers: lines requested, in service in each
  frames,         \* the interrupts being handled, the innermost last
  pit_ticks,
  buffered,       \* the keyboard's output buffer holds a key
  target,         \* what sleep_ms waits for, -1 when it is not called
  queue,          \* stds[STDIN] exists
  trouble         \* history: what has gone wrong

cpuVars == <<enabled, frames>>
tables == <<ISRHandlers, IRQHandlers>>
pic == <<irr, isr1, isr2>>
intVars == <<cpuVars, tables, pic, pit_ticks, buffered, target, queue, trouble>>

Timer == 0
Keyboard == 1
Usb == 11
Disk == 14
Cascade == 2
Lines == {Timer, Keyboard, Usb, Disk}
Syscall == 128

PIC_REMAP_OFFSET == 32
Vector(line) == PIC_REMAP_OFFSET + line
Vectors == {Vector(line) : line \in Lines} \cup {Syscall}

IntInit ==
  /\ enabled = FALSE /\ frames = << >>
  /\ ISRHandlers = [v \in Vectors |-> "none"]
  /\ IRQHandlers = [line \in Lines |-> "none"]
  /\ irr = {} /\ isr1 = {} /\ isr2 = {}
  /\ pit_ticks = 0 /\ target = -1
  /\ buffered \in BOOLEAN
  /\ queue = FALSE /\ trouble = {}

-----------------------------------------------------------------------------
(* The devices and the controllers                                         *)

\* A tick; a request that waits already swallows it.
Tick ==
  /\ Timer \notin irr
  /\ irr' = irr \cup {Timer}
  /\ UNCHANGED <<cpuVars, tables, isr1, isr2, pit_ticks, buffered, target, queue, trouble>>

\* A key: the next one waits in the keyboard until the buffer is read.
Press ==
  /\ ~buffered
  /\ buffered' = TRUE
  /\ irr' = irr \cup {Keyboard}
  /\ UNCHANGED <<cpuVars, tables, isr1, isr2, pit_ticks, target, queue, trouble>>

\* The controller is done with a transfer.  How often it is, and what its
\* handler shows of it, is left open.
UhciDone ==
  /\ IRQHandlers[Usb] = "uhci"
  /\ irr' = irr \cup {Usb}
  /\ UNCHANGED <<cpuVars, tables, isr1, isr2, pit_ticks, buffered, target, queue, trouble>>

Highest(S) == CHOOSE n \in S : \A k \in S : n <= k

\* A command without a line: the highest in service is done.
EOI(inService) == IF inService = {} THEN {} ELSE inService \ {Highest(inService)}

i686_PIC_SendEOI(line) ==
  /\ isr2' = IF line >= 8 THEN EOI(isr2) ELSE isr2
  /\ isr1' = EOI(isr1)

\* The line has priority over everything in service.
MasterPin(line) == IF line >= 8 THEN Cascade ELSE line
Prior(line) ==
  /\ \A n \in isr1 : MasterPin(line) < n
  /\ line >= 8 => \A n \in isr2 : line - 8 < n

\* Mistake: trap gates, which leave IF alone.
MasksInterrupts_Trap(v) == FALSE

\* All gates are interrupt gates: the CPU clears IF.
MasksInterrupts(v) == v \in 0 .. 255

\* What i686_ISR_Handler runs: a handler of its own, or the dispatcher with
\* the handler of the line; those of the keyboard and of the USB controller
\* acknowledge by themselves.
Handler(line) ==
  CASE ISRHandlers[Vector(line)] = "PIT_handler" -> <<"tick", "ack">>
    [] ISRHandlers[Vector(line)] = "i686_IRQ_Handler" ->
         CASE IRQHandlers[line] = "keyboard" -> <<"ack", "key", "ack">>
           [] IRQHandlers[line] = "uhci" -> <<"ack", "ack">>
           [] OTHER -> <<"ack">>
    [] OTHER -> << >>

Entered(v, todo) ==
  /\ frames' = Append(frames, [vector |-> v, todo |-> todo, enabled |-> enabled])
  /\ enabled' = (enabled /\ ~MasksInterrupts(v))

\* The CPU takes the interrupt.
Accept(line) ==
  /\ enabled /\ line \in irr /\ Prior(line)
  /\ irr' = irr \ {line}
  /\ isr1' = isr1 \cup {MasterPin(line)}
  /\ isr2' = IF line >= 8 THEN isr2 \cup {line - 8} ELSE isr2
  /\ Entered(Vector(line), Handler(line))
  /\ UNCHANGED <<tables, pit_ticks, buffered, target, queue>>
  /\ trouble' = trouble \cup
       (IF line = Keyboard /\ IRQHandlers[line] = "none" THEN {"unread"} ELSE {})

-----------------------------------------------------------------------------
(* The handlers                                                            *)

Top == frames[Len(frames)]
Below == SubSeq(frames, 1, Len(frames) - 1)
Doing(step) == frames # << >> /\ Top.todo # << >> /\ Head(Top.todo) = step
Did == frames' = Append(Below, [Top EXCEPT !.todo = Tail(@)])

\* Mistake: the handler of the timer does not acknowledge.
Ack_NotTick ==
  /\ Doing("ack") /\ Did
  /\ IF Top.vector = Vector(Timer) THEN UNCHANGED <<isr1, isr2>>
     ELSE i686_PIC_SendEOI(Top.vector - PIC_REMAP_OFFSET)
  /\ UNCHANGED <<enabled, tables, irr, pit_ticks, buffered, target, queue, trouble>>

Ack ==
  /\ Doing("ack") /\ Did
  /\ i686_PIC_SendEOI(Top.vector - PIC_REMAP_OFFSET)
  /\ UNCHANGED <<enabled, tables, irr, pit_ticks, buffered, target, queue, trouble>>

\* Mistake: the counter is taken for a number without width.
CountTick_Unbounded ==
  /\ Doing("tick") /\ Did
  /\ pit_ticks' = pit_ticks + 1
  /\ UNCHANGED <<enabled, tables, pic, buffered, target, queue, trouble>>

\* PIT_handler; a sleeper that has not looked since the last tick has missed
\* the only value it wakes up for.
CountTick ==
  /\ Doing("tick") /\ Did
  /\ pit_ticks' = (pit_ticks + 1) % TickMod
  /\ trouble' = trouble \cup (IF pit_ticks = target THEN {"missed"} ELSE {})
  /\ UNCHANGED <<enabled, tables, pic, buffered, target, queue>>

\* keyboard_handler_main reads the key, and puts it into the queue if it has
\* a character.  Without a queue std_put writes through a null pointer: the
\* model ends.
ReadKey ==
  /\ Doing("key") /\ Did
  /\ buffered' = FALSE
  /\ trouble' \in {trouble, trouble \cup (IF queue THEN {} ELSE {"wild"})}
  /\ UNCHANGED <<enabled, tables, pic, pit_ticks, target, queue>>

\* i686_syscall_handler starts with sti.
Sti ==
  /\ Doing("sti") /\ Did
  /\ enabled' = TRUE
  /\ UNCHANGED <<tables, pic, pit_ticks, buffered, target, queue, trouble>>

\* A write, or a call there is none for: text on the screen.
Output ==
  /\ Doing("output") /\ Did
  /\ UNCHANGED <<enabled, tables, pic, pit_ticks, buffered, target, queue, trouble>>

Iret ==
  /\ frames # << >> /\ Top.todo = << >>
  /\ frames' = Below
  /\ enabled' = Top.enabled
  /\ UNCHANGED <<tables, pic, pit_ticks, buffered, target, queue, trouble>>

HandlerStep == Ack \/ CountTick \/ ReadKey \/ Sti \/ Output \/ Iret

-----------------------------------------------------------------------------
(* Initialisation                                                          *)

\* i686_IRQ_Initialize: the initialisation words make the controllers forget
\* every request, that of a key which waits already included.
i686_IRQ_Initialize ==
  /\ irr' = {} /\ isr1' = {} /\ isr2' = {}
  /\ ISRHandlers' = [v \in Vectors |-> IF v = Syscall THEN ISRHandlers[v] ELSE "i686_IRQ_Handler"]
  /\ enabled' = TRUE
  /\ trouble' = trouble \cup (IF buffered THEN {"unread"} ELSE {})
  /\ UNCHANGED <<frames, IRQHandlers, pit_ticks, buffered, target, queue>>

i686_ISR_Registerhandler(v, handler) ==
  /\ ISRHandlers' = [ISRHandlers EXCEPT ![v] = handler]
  /\ UNCHANGED <<cpuVars, IRQHandlers, pic, pit_ticks, buffered, target, queue, trouble>>

i686_IRQ_RegisterHandler(line, handler) ==
  /\ IRQHandlers' = [IRQHandlers EXCEPT ![line] = handler]
  /\ UNCHANGED <<cpuVars, ISRHandlers, pic, pit_ticks, buffered, target, queue, trouble>>
=============================================================================
