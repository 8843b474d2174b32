------------------------------- MODULE Console -------------------------------
(***************************************************************************)
(* The console (kernel/console.c) and its UART (kernel/uart.c) on CPUs     *)
(* that run processes (module Cpu): line editing in the interrupt handler, *)
(* readers and writers that sleep, echo and buffered output.               *)
(*                                                                         *)
(* The UART and the interrupt controller are external: characters arrive   *)
(* in order, what is written leaves in order, and each arrival, and the    *)
(* end of a transmission, raises an interrupt, which one CPU claims.       *)
(***************************************************************************)
EXTENDS Cpu, SequencesExt

CONSTANTS
  INPUT_BUF_SIZE, UART_TX_BUF_SIZE

ASSUME ConsoleAssumption ==
  /\ INPUT_BUF_SIZE \in Nat \ {0} /\ UART_TX_BUF_SIZE \in Nat \ {0}
  /\ UINT % INPUT_BUF_SIZE = 0

\* Characters: "a" stands for all that are not special.
NL == "nl"
EOF == "^D"
KILL == "^U"
ERASE == "^H"
DUMP == "^P"
\* Output: the process that wrote the character, or an echo.
Echo == 0

VARIABLES
  cons,      \* buf, r, w, e
  tx,        \* uart_tx_buf, uart_tx_r, uart_tx_w
  thr,       \* what the UART is transmitting
  rx,        \* what it has received
  typing,    \* what is still to be typed
  irq,       \* "none", "pending" or "claimed"; again: raised while claimed
  lines,     \* history: the input made available to readers
  taken,     \* history: what readers took
  reads,     \* history: results of consoleread
  written,   \* history: what processes wrote, and
  sent       \* history: what of it was given to the UART

consvars == <<cons, tx, thr, rx, typing, irq, lines, taken, reads, written, sent>>
vars == <<cpuvars, consvars>>

Raise(i) == IF i.state = "none" THEN [i EXCEPT !.state = "pending"]
            ELSE [i EXCEPT !.again = i.state = "claimed" \/ @]

-----------------------------------------------------------------------------
(* The UART and the interrupt controller (external)                        *)

receive ==
  /\ typing # <<>>
  /\ rx' = Append(rx, Head(typing)) /\ typing' = Tail(typing)
  /\ irq' = Raise(irq)
  /\ UNCHANGED <<cpuvars, cons, tx, thr, lines, taken, reads, written, sent>>

transmit ==
  /\ thr # <<>>
  /\ thr' = Tail(thr)
  /\ irq' = IF Len(thr) = 1 THEN Raise(irq) ELSE irq
  /\ UNCHANGED <<cpuvars, cons, tx, rx, typing, lines, taken, reads, written, sent>>

\* plic_claim, then uartintr.
uart_interrupt(c) ==
  /\ irq.state = "pending"
  /\ interrupt(c, "uartintr")
  /\ irq' = [irq EXCEPT !.state = "claimed"]
  /\ UNCHANGED <<timer, cons, tx, thr, rx, typing, lines, taken, reads, written, sent>>

-----------------------------------------------------------------------------
(* uart.c                                                                  *)

\* Mutant: one more character than there is space for.
Full_late == tx.w > tx.r + UART_TX_BUF_SIZE

Full == tx.w = tx.r + UART_TX_BUF_SIZE

\* consolewrite of n characters: uartputc of one, under its lock.
uartputc(c) ==
  /\ At(c, "uartputc")
  /\ IF Top(c).n = 0 THEN Return(c) /\ UNCHANGED <<cpu, lock>>
     ELSE acquire(c, uart_tx_lock) /\ Jump(c, "put")
  /\ UNCHANGED <<run, proc, work, ticks, timer, consvars>>

uartputc_put(c) ==
  /\ At(c, "put")
  /\ IF Full
     THEN Call(c, "put", Frame("sleep", "tx_r", 0)) /\ UNCHANGED <<tx, written>>
     ELSE /\ tx' = [tx EXCEPT !.buf[tx.w % UART_TX_BUF_SIZE] = run[c], !.w = @ + 1]
          /\ written' = Append(written, run[c])
          /\ Call(c, "put_end", Frame("uartstart", "", 0))
  /\ UNCHANGED <<cpu, run, lock, proc, work, ticks, timer,
                 cons, thr, rx, typing, irq, lines, taken, reads, sent>>

uartputc_end(c) ==
  /\ At(c, "put_end")
  /\ release(c, uart_tx_lock)
  /\ Become(c, <<[Top(c) EXCEPT !.pc = "uartputc", !.n = @ - 1]>>)
  /\ UNCHANGED <<run, proc, work, ticks, timer, consvars>>

\* uartstart returns when there is nothing to send or the UART is busy.
uartstart_end(c) ==
  /\ At(c, "uartstart")
  /\ tx.w = tx.r \/ thr # <<>>
  /\ Return(c)
  /\ UNCHANGED <<cpu, run, lock, proc, work, ticks, timer, consvars>>

uartstart(c) ==
  /\ At(c, "uartstart")
  /\ tx.w # tx.r /\ thr = <<>>
  /\ tx' = [tx EXCEPT !.r = @ + 1]
  /\ Become(c, <<Frame("wakeup", "tx_r", 1),
                 [Top(c) EXCEPT !.pc = "uart_write", !.n = tx.buf[tx.r % UART_TX_BUF_SIZE]]>>)
  /\ UNCHANGED <<cpu, run, lock, proc, work, ticks, timer,
                 cons, thr, rx, typing, irq, lines, taken, reads, written, sent>>

uartstart_write(c) ==
  /\ At(c, "uart_write")
  /\ thr' = Append(thr, Top(c).n)
  /\ sent' = Append(sent, Top(c).n)
  /\ Jump(c, "uartstart")
  /\ UNCHANGED <<cpu, run, lock, proc, work, ticks, timer,
                 cons, tx, rx, typing, irq, lines, taken, reads, written>>

\* Mutant: output is left to the processes that write.
uartintr_tx_none(c) ==
  /\ At(c, "uartintr") /\ rx = <<>>
  /\ acquire(c, uart_tx_lock)
  /\ Jump(c, "uart_tx_end")
  /\ UNCHANGED <<run, proc, work, ticks, timer, consvars>>

\* uartintr, once it has taken all the characters (consoleintr below).
uartintr_tx(c) ==
  /\ At(c, "uartintr") /\ rx = <<>>
  /\ acquire(c, uart_tx_lock)
  /\ Call(c, "uart_tx_end", Frame("uartstart", "", 0))
  /\ UNCHANGED <<run, proc, work, ticks, timer, consvars>>

\* The end of uartintr, plic_complete, and the return from the interrupt.
uartintr_end(c) ==
  /\ At(c, "uart_tx_end")
  /\ lock' = [lock EXCEPT ![uart_tx_lock] = Free]
  /\ cpu' = [cpu EXCEPT ![c] = [pop_off(@) EXCEPT !.intr = TRUE]]
  /\ irq' = [state |-> IF irq.again THEN "pending" ELSE "none", again |-> FALSE]
  /\ Return(c)
  /\ UNCHANGED <<run, proc, work, ticks, timer,
                 cons, tx, thr, rx, typing, lines, taken, reads, written, sent>>

-----------------------------------------------------------------------------
(* console.c                                                               *)

Minus(a, b) == (a - b) % UINT
Slot(i) == i % INPUT_BUF_SIZE
\* The characters from index a up to index b.
Between(k, a, b) == [i \in 1 .. Minus(b, a) |-> k.buf[Slot(a + i - 1)]]

\* uartintr takes a character and calls consoleintr.
consoleintr(c) ==
  /\ At(c, "uartintr") /\ rx # <<>>
  /\ rx' = Tail(rx)
  /\ acquire(c, cons_lock)
  /\ Become(c, <<Frame("edit", Head(rx), 0), Top(c)>>)
  /\ UNCHANGED <<run, proc, work, ticks, timer,
                 cons, tx, thr, typing, irq, lines, taken, reads, written, sent>>

\* Erasing, with its echo, which waits for the UART.
Erases(ch) ==
  /\ ch \in {ERASE, KILL}
  /\ cons.e # cons.w
  /\ ch = KILL => cons.buf[Slot(Minus(cons.e, 1))] # NL

Accepts(ch) ==
  ch \notin {ERASE, KILL, DUMP} /\ Minus(cons.e, cons.r) < INPUT_BUF_SIZE

Stored(ch) == [cons EXCEPT !.buf[Slot(cons.e)] = ch, !.e = (@ + 1) % UINT]
\* Whether the characters stored so far, k, are made available to readers.
Complete(k, ch) == ch \in {NL, EOF} \/ Minus(k.e, k.r) = INPUT_BUF_SIZE

\* ^U goes on with the character before; ^H is done.
consoleintr_erase(c) ==
  /\ At(c, "edit") /\ Erases(Top(c).chan)
  /\ thr = <<>>
  /\ thr' = <<Echo>>
  /\ cons' = [cons EXCEPT !.e = Minus(@, 1)]
  /\ Jump(c, IF Top(c).chan = KILL THEN "edit" ELSE "edited")
  /\ UNCHANGED <<cpu, run, lock, proc, work, ticks, timer,
                 tx, rx, typing, irq, lines, taken, reads, written, sent>>

consoleintr_store(c) ==
  LET ch == Top(c).chan
      k == Stored(ch)
  IN  /\ At(c, "edit") /\ Accepts(ch)
      /\ thr = <<>>
      /\ thr' = <<Echo>>
      /\ IF Complete(k, ch)
         THEN /\ cons' = [k EXCEPT !.w = k.e]
              /\ lines' = lines \o Between(k, k.w, k.e)
              /\ Call(c, "edited", Frame("wakeup", "cons.r", 1))
         ELSE cons' = k /\ UNCHANGED lines /\ Jump(c, "edited")
      /\ UNCHANGED <<cpu, run, lock, proc, work, ticks, timer,
                     tx, rx, typing, irq, taken, reads, written, sent>>

\* Nothing to erase, no space, or a list of processes.
consoleintr_none(c) ==
  /\ At(c, "edit") /\ ~Erases(Top(c).chan) /\ ~Accepts(Top(c).chan)
  /\ Jump(c, "edited")
  /\ UNCHANGED <<cpu, run, lock, proc, work, ticks, timer, consvars>>

consoleintr_end(c) ==
  /\ At(c, "edited")
  /\ release(c, cons_lock)
  /\ Return(c)
  /\ UNCHANGED <<run, proc, work, ticks, timer, consvars>>

\* consoleread of n characters; x counts those read.
consoleread(c) ==
  /\ At(c, "consoleread")
  /\ acquire(c, cons_lock)
  /\ Jump(c, "reading")
  /\ UNCHANGED <<run, proc, work, ticks, timer, consvars>>

\* Wait for input, unless killed.
consoleread_wait(c) ==
  /\ At(c, "reading") /\ Top(c).n > 0 /\ cons.r = cons.w
  /\ ~proc[run[c]].killed
  /\ Call(c, "reading", Frame("sleep", "cons.r", 0))
  /\ UNCHANGED <<cpu, run, lock, proc, work, ticks, timer, consvars>>

\* The lock is released and n returned.
Answer(c, n) ==
  /\ release(c, cons_lock)
  /\ Return(c)
  /\ reads' = Append(reads, n)

\* Mutant: the end of file is not saved for the next read.
consoleread_eof_lost(c) ==
  /\ At(c, "reading") /\ Top(c).n > 0 /\ cons.r # cons.w
  /\ cons.buf[Slot(cons.r)] = EOF
  /\ cons' = [cons EXCEPT !.r = (@ + 1) % UINT]
  /\ taken' = Append(taken, EOF)
  /\ Answer(c, Top(c).x)
  /\ UNCHANGED <<run, proc, work, ticks, timer, tx, thr, rx, typing, irq, lines, written, sent>>

\* The end of file is seen by a read that has nothing else.
consoleread_eof(c) ==
  /\ At(c, "reading") /\ Top(c).n > 0 /\ cons.r # cons.w
  /\ cons.buf[Slot(cons.r)] = EOF
  /\ IF Top(c).x > 0 THEN UNCHANGED <<cons, taken>>
     ELSE cons' = [cons EXCEPT !.r = (@ + 1) % UINT] /\ taken' = Append(taken, EOF)
  /\ Answer(c, Top(c).x)
  /\ UNCHANGED <<run, proc, work, ticks, timer, tx, thr, rx, typing, irq, lines, written, sent>>

consoleread_char(c) ==
  LET ch == cons.buf[Slot(cons.r)]
      f == [Top(c) EXCEPT !.n = @ - 1, !.x = @ + 1]
  IN  /\ At(c, "reading") /\ Top(c).n > 0 /\ cons.r # cons.w
      /\ ch # EOF
      /\ cons' = [cons EXCEPT !.r = (@ + 1) % UINT]
      /\ taken' = Append(taken, ch)
      /\ IF ch = NL \/ f.n = 0 THEN Answer(c, f.x)
         ELSE Become(c, <<f>>) /\ UNCHANGED <<cpu, lock, reads>>
      /\ UNCHANGED <<run, proc, work, ticks, timer, tx, thr, rx, typing, irq, lines, written, sent>>

consoleread_killed(c) ==
  /\ At(c, "reading") /\ Top(c).n > 0 /\ cons.r = cons.w
  /\ proc[run[c]].killed
  /\ Answer(c, -1)
  /\ UNCHANGED <<run, proc, work, ticks, timer,
                 cons, tx, thr, rx, typing, irq, lines, taken, written, sent>>

-----------------------------------------------------------------------------
\* The indices of the input buffer start where they are about to wrap.
Init ==
  /\ \E scenario \in Scenarios : CpuInit(scenario) /\ typing = scenario.typing
  /\ cons = [buf |-> [i \in 0 .. INPUT_BUF_SIZE - 1 |-> "a"],
             r |-> UINT - 1, w |-> UINT - 1, e |-> UINT - 1]
  /\ tx = [buf |-> [i \in 0 .. UART_TX_BUF_SIZE - 1 |-> 0], r |-> 0, w |-> 0]
  /\ thr = <<>> /\ rx = <<>>
  /\ irq = [state |-> "none", again |-> FALSE]
  /\ lines = <<>> /\ taken = <<>> /\ reads = <<>> /\ written = <<>> /\ sent = <<>>

step(c) ==
  \/ CpuStep(c) /\ UNCHANGED consvars
  \/ uart_interrupt(c)
  \/ uartputc(c) \/ uartputc_put(c) \/ uartputc_end(c)
  \/ uartstart(c) \/ uartstart_end(c) \/ uartstart_write(c)
  \/ uartintr_tx(c) \/ uartintr_end(c)
  \/ consoleintr(c) \/ consoleintr_erase(c) \/ consoleintr_store(c)
  \/ consoleintr_none(c) \/ consoleintr_end(c)
  \/ consoleread(c) \/ consoleread_wait(c) \/ consoleread_eof(c)
  \/ consoleread_char(c) \/ consoleread_killed(c)

\* Nothing more happens: all output is sent, and a process that has not
\* exited waits for input, or for ticks, that do not come.
idle ==
  /\ \A c \in Cpus : At(c, "scheduler") /\ cpu[c].intr
  /\ \A p \in Procs :
       \/ proc[p].state = "ZOMBIE"
       \/ proc[p].state = "SLEEPING" /\ proc[p].chan = "cons.r" /\ cons.r = cons.w
       \/ proc[p].state = "SLEEPING" /\ proc[p].chan = "ticks" /\ ~Elapsed(stack[p][2])
  /\ typing = <<>> /\ rx = <<>> /\ thr = <<>> /\ tx.r = tx.w /\ irq.state = "none"
  /\ UNCHANGED vars

Next == (\E c \in Cpus : step(c)) \/ receive \/ transmit \/ idle

Spec == Init /\ [][Next]_vars

-----------------------------------------------------------------------------
(* Properties                                                              *)

\* Input that was made available is taken by readers in order, each character
\* once, and no editing or overrun changes it; each end of file gives exactly one
\* read of no characters, and nothing else does, since consoleread saves ^D for
\* the next read when it has read something (consoleintr, consoleread).
InputDelivered ==
  /\ Minus(cons.w, cons.r) <= Minus(cons.e, cons.r)
  /\ Minus(cons.e, cons.r) <= INPUT_BUF_SIZE
  /\ taken \o Between(cons, cons.r, cons.w) = lines
  /\ Len(SelectSeq(taken, LAMBDA ch : ch = EOF)) = Len(SelectSeq(reads, LAMBDA n : n = 0))

\* Nobody sleeps through what they wait for, but for the time that wakeup takes
\* to reach them: a reader with input there, a writer with space in the output
\* buffer, a process in sys_sleep whose ticks have passed, also when the counter
\* wraps around (sleep, wakeup, consoleintr, uartstart, clockintr).
NoLostWakeup ==
  \A p \in Procs : proc[p].state = "SLEEPING" =>
    \/ BeingWoken(p)
    \/ proc[p].chan = "cons.r" /\ cons.r = cons.w
    \/ proc[p].chan = "tx_r" /\ Full
    \/ proc[p].chan = "ticks" /\ ~Elapsed(stack[p][2])

\* What uartstart has taken from the buffer and not yet written.
InFlight ==
  UNION {{stack[t][i].n : i \in {j \in 1 .. Len(stack[t]) : stack[t][j].pc = "uart_write"}}
           : t \in Threads}

\* What processes write reaches the UART in order, each character once, however
\* echo, interrupts and other CPUs come in between (uartputc, uartstart).  What
\* waits in the buffer will be sent: the UART is busy and will interrupt, has done
\* so, or the lock is held by one who calls uartstart.
OutputDelivered ==
  LET buffered == [i \in 1 .. tx.w - tx.r |-> tx.buf[(tx.r + i - 1) % UART_TX_BUF_SIZE]]
  IN  /\ Cardinality(InFlight) <= 1
      /\ sent \o SetToSeq(InFlight) \o buffered = written
      /\ tx.w # tx.r =>
           \/ thr # <<>>
           \/ irq.state = "pending" \/ irq.again
           \/ lock[uart_tx_lock] # Free
           \/ \E t \in Threads : \E i \in 1 .. Len(stack[t]) : stack[t][i].pc = "uartintr"
=============================================================================
