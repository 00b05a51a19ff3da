------------------------------ MODULE SerialPort ------------------------------
(***************************************************************************)
(* serial_ports.c, through which the whole kernel logs, and the UART that  *)
(* it drives: serial_write sets the port up again for every message and    *)
(* waits for the transmitter in a busy loop, while the UART sends on its   *)
(* own.  A message is a sequence of characters; a line feed ends it.       *)
(***************************************************************************)
EXTENDS Integers, Sequences

CONSTANTS
  Messages     \* what the kernel logs: sequences of strings

FifoSize == 16
Divisor == "2"         \* the divisor that serial_write asks for
NL == "NL"
None == "none"

\* A message is any text: None is not a character.
ASSUME SerialPortAssumption == Messages \subseteq Seq(STRING \ {None})

VARIABLES
  dlab,        \* whether the data port leads to the divisor
  divisor,     \* the lower byte of the divisor
  fifo,        \* the transmit queue of the UART
  shift,       \* the character on the wire, or None
  owed,        \* ghost: the characters logged and not yet sent
  spc,         \* where serial_write is, "idle" outside it
  log          \* what it has still to write

uartVars == <<dlab, divisor, fifo, shift>>
serialVars == <<uartVars, owed, spc, log>>

SerialInit ==
  /\ dlab = FALSE
  /\ divisor = "reset"
  /\ fifo = <<>>
  /\ shift = None
  /\ owed = <<>>
  /\ spc = "idle"
  /\ log = <<>>

-----------------------------------------------------------------------------
(* The UART (external) *)

\* A byte that is written to the data port.
DataPort(c) ==
  IF dlab
  THEN divisor' = c /\ UNCHANGED fifo
  ELSE /\ fifo' = IF Len(fifo) < FifoSize THEN Append(fifo, c) ELSE fifo
       /\ UNCHANGED divisor

UartLoads ==
  /\ shift = None
  /\ fifo # <<>>
  /\ shift' = Head(fifo)
  /\ fifo' = Tail(fifo)
  /\ UNCHANGED <<dlab, divisor, owed, spc, log>>

UartSends ==
  /\ shift # None
  /\ shift' = None
  /\ owed' = Tail(owed)
  /\ UNCHANGED <<dlab, divisor, fifo, spc, log>>

-----------------------------------------------------------------------------
(* serial_write *)

SerialWrite(m) ==
  /\ spc = "idle"
  /\ spc' = "wait"
  /\ log' = m
  /\ owed' = owed \o m \o <<NL>>
  /\ UNCHANGED uartVars

serial_is_transmit_fifo_empty == fifo = <<>>

\* Mutant: a message does not wait for the one before it.
ConfigureBaudRateAtOnce ==
  /\ spc = "wait"
  /\ spc' = "line"
  /\ dlab' = TRUE
  /\ divisor' = Divisor
  /\ UNCHANGED <<fifo, shift, owed, log>>

\* The first wait, and serial_configure_baud_rate: both bytes of the divisor
\* go to the data port, so that the second, the lower one, is what stays.
ConfigureBaudRate ==
  /\ spc = "wait"
  /\ serial_is_transmit_fifo_empty
  /\ spc' = "line"
  /\ dlab' = TRUE
  /\ divisor' = Divisor
  /\ UNCHANGED <<fifo, shift, owed, log>>

\* serial_configure_line clears DLAB.
ConfigureLine ==
  /\ spc = "line"
  /\ spc' = "buffer"
  /\ dlab' = FALSE
  /\ UNCHANGED <<divisor, fifo, shift, owed, log>>

\* serial_configure_buffer clears the queue; serial_configure_modem only
\* raises the lines that say the port is ready.
ConfigureBuffer ==
  /\ spc = "buffer"
  /\ spc' = "chars"
  /\ fifo' = <<>>
  /\ UNCHANGED <<dlab, divisor, shift, owed, log>>

\* One turn of the loop, after its wait.
PutChar ==
  /\ spc = "chars"
  /\ log # <<>>
  /\ serial_is_transmit_fifo_empty
  /\ DataPort(Head(log))
  /\ log' = Tail(log)
  /\ UNCHANGED <<dlab, shift, owed, spc>>

\* The line feed goes out without a wait.
PutNewline ==
  /\ spc = "chars"
  /\ log = <<>>
  /\ DataPort(NL)
  /\ spc' = "idle"
  /\ UNCHANGED <<dlab, shift, owed, log>>

SerialStep ==
  ConfigureBaudRate \/ ConfigureLine \/ ConfigureBuffer \/ PutChar \/ PutNewline

-----------------------------------------------------------------------------
OnWire == IF shift = None THEN <<>> ELSE <<shift>>
Unwritten == IF spc = "idle" THEN <<>> ELSE log \o <<NL>>

\* Safety: every character that the kernel logs is sent, once and in order,
\* although each message sets the port up anew, clears the queue and sends its
\* line feed without waiting; and what is queued to be sent is sent at the rate
\* that was asked for.
TelemetryIntact ==
  /\ owed = OnWire \o fifo \o Unwritten
  /\ fifo # <<>> => ~ dlab /\ divisor = Divisor
=============================================================================
