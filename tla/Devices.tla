-------------------------------- MODULE Devices --------------------------------
(***************************************************************************)
(* Interrupts from the line of a device to the end of their handler: the   *)
(* interrupt controller, the gates of idt.c, interrupt_handler.c, the      *)
(* handlers of the timer and of the keyboard, the text screen of io.c, and *)
(* the serial port, on which handlers wait with interrupts off.  What the  *)
(* timer does to the scheduler is the subject of Scheduler.                *)
(*                                                                         *)
(* The second controller is left out: init_idt leaves it masked.           *)
(***************************************************************************)
EXTENDS SerialPort, FiniteSetsExt

CONSTANTS
  CursorMod,   \* 2^16, the modulus of cursor_pos
  ScreenCells, \* cells of the screen (80 * 25)
  ByteMod,     \* 2^8, the modulus of a cursor register
  Width,       \* cells in a line (80)
  FirstPos,    \* where cursor_pos begins (1000)
  Banner,      \* the text that get_module_list writes
  MaxLogs      \* messages that a system call or a turn of the timer logs

Blank == " "
Leftover == "?"   \* a character that nobody has written
LineFeed == "LF"
Backspace == "BS"

\* The banner is one line and ends before the place where keys appear.
ASSUME DevicesAssumption ==
  /\ CursorMod \in Nat \ {0} /\ ByteMod \in Nat \ {0} /\ Width \in Nat \ {0}
  /\ ScreenCells \in 1 .. CursorMod /\ FirstPos \in 0 .. ScreenCells - 1
  /\ Banner \in Seq(STRING \ {LineFeed}) /\ Len(Banner) <= FirstPos
  /\ MaxLogs \in Nat

\* The cells that cursor_pos can reach; only the first are on the screen.
Cells == 0 .. CursorMod - 1
Screen == 0 .. ScreenCells - 1

\* What scan codes stand for: a character, the two keys that the handler knows,
\* a code without a character and the release of a key.
Keys == {"x", LineFeed, Backspace, "no_ascii", "release"}

VARIABLES
  line,          \* the request lines that are high
  irr, isr,      \* the controller: requests, and interrupts in service
  obuf,          \* the scan code at port 0x60, or None
  todo,          \* what the kernel still does; empty in ring 3
  cursor_pos,
  cell,          \* the characters in video memory
  crtc,          \* the two cursor registers
  shown          \* ghost: what the cursor shows, "wrapped" after 2^16

picVars == <<line, irr, isr>>
screenVars == <<cursor_pos, cell, crtc, shown>>
vars == <<serialVars, picVars, obuf, todo, screenVars>>

-----------------------------------------------------------------------------
(* The screen *)

\* fb_clear: the cells behind the screen keep what they held at power-on.
fb_clear == [c \in Cells |-> IF c \in Screen THEN Blank ELSE Leftover]

fb_move_cursor(pos) == [hi |-> pos \div ByteMod, lo |-> pos % ByteMod]

\* A turn of the loop of fb_write: its three counters, the cells and registers.
FbTurn(s, ch) ==
  IF ch = LineFeed
  THEN LET gap == (Width - (s.i % Width)) * 2
       IN [s EXCEPT !.i = @ + 1, !.pos_char = @ + gap,
                    !.pos_cursor = (@ + gap) % CursorMod]
  ELSE [i |-> s.i + 1,
        pos_char |-> s.pos_char + 2,
        pos_cursor |-> (s.pos_cursor + 1) % CursorMod,
        cells |-> [s.cells EXCEPT ![s.pos_char \div 2] = ch],
        crtc |-> fb_move_cursor((s.pos_cursor + 1) % CursorMod)]

\* fb_write: what the first k turns leave, for all the characters.
fb_write(buf, cells) ==
  LET turns[k \in 0 .. Len(buf)] ==
        IF k = 0
        THEN [i |-> 0, pos_char |-> 0, pos_cursor |-> 0, cells |-> cells,
              crtc |-> fb_move_cursor(0)]
        ELSE FbTurn(turns[k - 1], buf[k])
  IN turns[Len(buf)]

-----------------------------------------------------------------------------
(* What handlers are made of *)

Log == [op |-> "log"]
Keyboard == [op |-> "keyboard"]
Ack(v) == [op |-> "ack", v |-> v]
Hlt == [op |-> "hlt"]
Fault == [op |-> "fault"]

Logs(n) == [k \in 1 .. n |-> Log]

\* Mutant: there is no gate for the spurious interrupt.
GatesWithoutSpurious == {32, 33, 47, 128}

\* The interrupts that init_idt fills in.
Gates == {32, 33, 39, 47, 128}

\* interrupt_handler: the message, the number, the keyboard, the controller.
interrupt_handler(v) ==
  Logs(2) \o (IF v = 33 THEN <<Keyboard>> ELSE <<>>) \o <<Ack(v)>>

\* timer_interrupt_handler, with n messages from it and from the scheduler.
timer_interrupt_handler(n) == Logs(n) \o <<Ack(32)>>

\* What the processor runs on interrupt v; without a gate it stops.
Entered(v, n) ==
  IF v \notin Gates THEN <<Fault>>
  ELSE IF v = 32 THEN timer_interrupt_handler(n) ELSE interrupt_handler(v)

UserMode == todo = <<>> /\ spc = "idle"
Do(op) == todo # <<>> /\ Head(todo).op = op /\ spc = "idle" /\ todo' = Tail(todo)

-----------------------------------------------------------------------------
(* The devices and the interrupt controller (external) *)

\* The square wave of the timer; a request outlives the wave that made it.
PitRises ==
  /\ 0 \notin line
  /\ line' = line \cup {0}
  /\ irr' = irr \cup {0}
  /\ UNCHANGED <<isr, serialVars, obuf, todo, screenVars>>

PitFalls ==
  /\ 0 \in line
  /\ line' = line \ {0}
  /\ UNCHANGED <<irr, isr, serialVars, obuf, todo, screenVars>>

\* A scan code is put at the port, once the last one has been read (until then
\* the keyboard holds it back), and the line goes up until it is read: the
\* controller only sees the change.
ScanCode(k) ==
  /\ obuf = None
  /\ obuf' = k
  /\ line' = line \cup {1}
  /\ irr' = irr \cup {1}
  /\ UNCHANGED <<isr, serialVars, todo, screenVars>>

\* Request i goes first: it is the lowest and nothing as low is in service.
Foremost(i) ==
  /\ i \in irr
  /\ \A j \in irr : j >= i
  /\ \A j \in isr : j > i

\* The processor takes request i in ring 3, the only place where interrupts
\* are on; n messages are logged if it is the timer's.
Interrupt(i, n) ==
  /\ UserMode
  /\ Foremost(i)
  /\ irr' = irr \ {i}
  /\ isr' = isr \cup {i}
  /\ todo' = Entered(32 + i, n)
  /\ UNCHANGED <<line, serialVars, obuf, screenVars>>

\* The line has fallen again: the controller may answer with interrupt 39, for
\* which nothing is in service.
Spurious(i) ==
  /\ UserMode
  /\ i \notin line
  /\ Foremost(i)
  /\ irr' = irr \ {i}
  /\ todo' = Entered(39, 0)
  /\ UNCHANGED <<line, isr, serialVars, obuf, screenVars>>

-----------------------------------------------------------------------------
(* System calls, as far as devices see them *)

\* A program gets to its next instruction when no interrupt is waiting.
UserStep == UserMode /\ ~ \E i \in irr : Foremost(i)

Syscall(n) ==
  /\ UserStep
  /\ todo' = Logs(n)
  /\ UNCHANGED <<picVars, serialVars, obuf, screenVars>>

\* The last process exits: sys_exit stays in hlt, with interrupts off.
SyscallHalts ==
  /\ UserStep
  /\ todo' = Logs(1) \o <<Hlt>>
  /\ UNCHANGED <<picVars, serialVars, obuf, screenVars>>

-----------------------------------------------------------------------------
(* Steps of handlers *)

DoLog ==
  /\ todo # <<>> /\ Head(todo).op = "log"
  /\ \E m \in Messages : SerialWrite(m)
  /\ todo' = Tail(todo)
  /\ UNCHANGED <<picVars, obuf, screenVars>>

\* pic_acknowledge: the controller takes the lowest interrupt out of service.
pic_acknowledge(v) ==
  isr' = IF v \in 32 .. 39 /\ isr # {} THEN isr \ {Min(isr)} ELSE isr

DoAck ==
  /\ Do("ack")
  /\ pic_acknowledge(Head(todo).v)
  /\ UNCHANGED <<line, irr, serialVars, obuf, screenVars>>

\* Mutant: backspace erases the cell it leaves.
PressedErasesAhead(k) ==
  CASE k = LineFeed -> [pos |-> cursor_pos + (Width - (cursor_pos % Width)), cells |-> cell]
    [] k = Backspace /\ cursor_pos > 0 ->
         [pos |-> cursor_pos - 1, cells |-> [cell EXCEPT ![cursor_pos] = Blank]]
    [] k = Backspace /\ cursor_pos = 0 -> [pos |-> 0, cells |-> cell]
    [] OTHER -> [pos |-> cursor_pos + 1, cells |-> [cell EXCEPT ![cursor_pos] = k]]

\* What key k makes of the cursor, before it is cut to 16 bits, and the screen.
Pressed(k) ==
  CASE k = LineFeed -> [pos |-> cursor_pos + (Width - (cursor_pos % Width)), cells |-> cell]
    [] k = Backspace /\ cursor_pos > 0 ->
         [pos |-> cursor_pos - 1, cells |-> [cell EXCEPT ![cursor_pos - 1] = Blank]]
    [] k = Backspace /\ cursor_pos = 0 -> [pos |-> 0, cells |-> cell]
    [] OTHER -> [pos |-> cursor_pos + 1, cells |-> [cell EXCEPT ![cursor_pos] = k]]

\* Mutant: a release is left at the port.
ReadScanCodeOfPress ==
  /\ obuf' = IF obuf = "release" THEN obuf ELSE None
  /\ line' = IF obuf = "release" THEN line ELSE line \ {1}

\* read_scan_code: the line falls.
read_scan_code ==
  /\ obuf' = None
  /\ line' = line \ {1}

keyboard_handler ==
  /\ Do("keyboard")
  /\ read_scan_code
  /\ IF obuf \in {"release", "no_ascii"}
     THEN UNCHANGED screenVars
     ELSE /\ cursor_pos' = Pressed(obuf).pos % CursorMod
          /\ cell' = Pressed(obuf).cells
          /\ crtc' = fb_move_cursor(cursor_pos')
          /\ shown' = IF shown = "wrapped" \/ Pressed(obuf).pos >= CursorMod
                      THEN "wrapped" ELSE "keys"
  /\ UNCHANGED <<irr, isr, serialVars>>

DoSerial == SerialStep /\ UNCHANGED <<picVars, obuf, todo, screenVars>>

Uart == (UartLoads \/ UartSends) /\ UNCHANGED <<picVars, obuf, todo, screenVars>>

-----------------------------------------------------------------------------
\* init_idt has just unmasked the two lines, and kmain goes on to its first
\* process or to its hlt loop.
Init ==
  /\ SerialInit
  /\ line = {} /\ irr = {} /\ isr = {}
  /\ obuf = None
  /\ todo \in {Logs(1), Logs(1) \o <<Hlt>>}
  /\ cursor_pos = FirstPos
  /\ LET s == fb_write(Banner, fb_clear) IN cell = s.cells /\ crtc = s.crtc
  /\ shown = "banner"

KernelStep == DoLog \/ DoAck \/ keyboard_handler \/ DoSerial

Next ==
  \/ PitRises \/ PitFalls
  \/ \E k \in Keys : ScanCode(k)
  \/ \E i \in {0, 1}, n \in 0 .. MaxLogs : Interrupt(i, n)
  \/ \E i \in {0, 1} : Spurious(i)
  \/ \E n \in 1 .. MaxLogs : Syscall(n)
  \/ SyscallHalts
  \/ KernelStep
  \/ Uart

Spec == Init /\ [][Next]_vars

Stopped(op) == todo # <<>> /\ Head(todo).op = op

\* The kernel and the UART do not stop, and the processor takes the requests it
\* can take: it looks for one after every instruction, so that a tick cannot
\* come in between each time that the keyboard's is the one to take.
Fairness ==
  /\ WF_vars(KernelStep)
  /\ WF_vars(Uart)
  /\ WF_vars(\E n \in 0 .. MaxLogs : Interrupt(0, n))
  /\ SF_vars(\E n \in 0 .. MaxLogs : Interrupt(1, n))

FairSpec == Spec /\ Fairness

-----------------------------------------------------------------------------
\* The interrupt that has been taken and not yet acknowledged.
InHand == {todo[k].v - 32 : k \in {j \in DOMAIN todo : todo[j].op = "ack"}} \cap {0, 1}

\* Safety: the controller has exactly the interrupt in service whose handler
\* runs and has not acknowledged it yet, so that no line is blocked in ring 3
\* and the acknowledgement of a spurious interrupt takes away no other; and
\* every interrupt that can come has a gate.
InServiceSound ==
  /\ isr = InHand
  /\ ~ Stopped("fault")

\* Safety: from the first key on the cursor registers show cursor_pos, over
\* every wrap of its 16 bits and of their 8; and until it wraps there is no
\* character on the screen at or behind the cursor, whatever was typed and
\* erased, on the screen or in the cells behind it.
EchoSound ==
  /\ shown # "banner" => crtc.hi * ByteMod + crtc.lo = cursor_pos
  /\ shown # "wrapped" => \A c \in Screen : c >= cursor_pos => cell[c] = Blank

\* The timer takes all the time there is: handlers go on ending and starting,
\* and each time that one has ended the next tick has come already.
TicksTakeAll ==
  []<>UserMode /\ []<>(~ UserMode) /\ <>[](UserMode => 0 \in irr)

\* Liveness: a scan code at the port is read, although the keyboard asks only
\* once for it and the handler waits for the serial port first, unless the
\* kernel has stopped in hlt; the one thing that can keep it waiting for ever
\* is a timer whose handler outlasts the tick each time.
KeysHandled ==
  (obuf # None ~> obuf = None \/ Stopped("hlt")) \/ TicksTakeAll
=============================================================================
