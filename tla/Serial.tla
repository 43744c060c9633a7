------------------------------- MODULE Serial --------------------------------
(***************************************************************************)
(* The way of a character from the serial line to a reader: the receive    *)
(* buffer of Device_COM.vhd, the interrupt logic of CPU.vhd and            *)
(* Controller.vhd, trap_dispatch of kern/trap/trap.c, the console ring of  *)
(* kern/driver/console.c and the stdin device of kern/fs/devs/dev_stdin.c. *)
(* The receiver runs in parallel with the CPU.  The CPU takes interrupts   *)
(* only in user mode (or in idleproc), not in the handler and not in a     *)
(* system call.                                                            *)
(***************************************************************************)
EXTENDS Integers, Sequences, SequencesExt

CONSTANTS
    Readers,        \* processes that read stdin
    COM_SIZE,       \* 1024, the range of header and tailer
    CONSBUFSIZE,
    STDIN_BUFSIZE,
    ReadLen,        \* bound on the length of a read
    MaxInput        \* bound on the characters sent

ASSUME SizeAssumption ==
    /\ {COM_SIZE, CONSBUFSIZE, STDIN_BUFSIZE} \subseteq Nat \ {0}
    /\ ReadLen \in Nat

(* cpu holds a reader or the label of other code, which are not mixed up. *)
ASSUME ReadersAssumption ==
    Readers \cap {"user", "dispatch", "getc", "take", "panic"} = {}

VARIABLES
    au_state,                    \* Device_COM: the receiver's state
    comBuffer, header, tailer,   \* Device_COM: the receive buffer
    timer_Int,                   \* CPU: the timer interrupt line
    cause_IP,                    \* CPU: the interrupts latched in Cause
    cpu,                         \* what the CPU executes
    cons,                        \* console.c: [buf, rpos, wpos]
    stdin_buffer, p_rpos, p_wpos,\* dev_stdin.c: the ring and its positions
    wait_queue,                  \* dev_stdin.c: the readers waiting
    reader,                      \* where each reader is
    resid,                       \* the characters its read still wants
    woken,                       \* wakeup_proc was called for it
    wakeup_flags,                \* wait->wakeup_flags
    killed,                      \* PF_EXITING
    sent,                        \* number of characters sent so far
    accepted,                    \* characters that entered comBuffer
    got,                         \* characters the readers got
    lost                         \* a character was lost behind comBuffer

com_vars == <<au_state, comBuffer, header, tailer, sent, accepted>>
stdin_vars == <<stdin_buffer, p_rpos, p_wpos>>
reader_vars == <<wait_queue, reader, resid, woken, wakeup_flags, killed, got>>
vars == <<com_vars, timer_Int, cause_IP, cpu, cons, stdin_vars, reader_vars, lost>>

NUL == 0
BS == 8
DEL == 127
Letter(n) == 97 + (n % 26)  \* the n-th character sent, if it is no control character
Char == 0..127

TIMER == "TIMER"
COM1 == "COM1"

Init ==
    /\ au_state = "recv0"
    /\ comBuffer = [i \in 0..(COM_SIZE - 1) |-> NUL]
    /\ header = 0
    /\ tailer = 0
    /\ timer_Int = FALSE
    /\ cause_IP = {}
    /\ cpu = "user"
    /\ cons = [buf |-> [i \in 0..(CONSBUFSIZE - 1) |-> NUL], rpos |-> 0, wpos |-> 0]
    /\ stdin_buffer = [i \in 0..(STDIN_BUFSIZE - 1) |-> NUL]
    /\ p_rpos = 0
    /\ p_wpos = 0
    /\ wait_queue = <<>>
    /\ reader = [r \in Readers |-> "user"]
    /\ resid = [r \in Readers |-> 0]
    /\ woken = [r \in Readers |-> FALSE]
    /\ wakeup_flags = [r \in Readers |-> "WT_INTERRUPTED"]
    /\ killed = [r \in Readers |-> FALSE]
    /\ sent = 0
    /\ accepted = <<>>
    /\ got = <<>>
    /\ lost = FALSE

-----------------------------------------------------------------------------
(* Device_COM *)

com_Int == header # tailer

(* data_ready: the character goes to the slot of header *)
receive(c) ==
    /\ au_state = "recv0"
    /\ sent < MaxInput
    /\ comBuffer' = [comBuffer EXCEPT ![header] = c]
    /\ au_state' = "recv2"
    /\ sent' = sent + 1
    /\ UNCHANGED <<header, tailer, accepted, timer_Int, cause_IP, cpu, cons,
                   stdin_vars, reader_vars, lost>>

(* Mutant of nearly_full: the last slot is used too. *)
nearly_full_never == FALSE

(* header = tailer - 1: one more character would make the buffer look empty. *)
nearly_full == header = (tailer - 1) % COM_SIZE

(* The character is kept unless the buffer is nearly full *)
receive_done ==
    /\ au_state = "recv2"
    /\ au_state' = "recv0"
    /\ IF nearly_full
       THEN UNCHANGED <<header, accepted>>
       ELSE /\ header' = (header + 1) % COM_SIZE
            /\ accepted' = Append(accepted, comBuffer[header])
    /\ UNCHANGED <<comBuffer, tailer, sent, timer_Int, cause_IP, cpu, cons,
                   stdin_vars, reader_vars, lost>>

-----------------------------------------------------------------------------
(* CPU *)

(* Count = Compare; the line is cleared at once while interrupts are masked *)
timer ==
    /\ cpu = "user"
    /\ ~timer_Int
    /\ timer_Int' = TRUE
    /\ UNCHANGED <<com_vars, cause_IP, cpu, cons, stdin_vars, reader_vars, lost>>

(* instruction_fetch and interrupt: all pending lines are latched together *)
interrupt ==
    /\ cpu = "user"
    /\ timer_Int \/ com_Int
    /\ cause_IP' = (IF timer_Int THEN {TIMER} ELSE {}) \cup (IF com_Int THEN {COM1} ELSE {})
    /\ timer_Int' = FALSE
    /\ cpu' = "dispatch"
    /\ UNCHANGED <<com_vars, cons, stdin_vars, reader_vars, lost>>

(* trap_dispatch, case EXC_INT; the timer's case is the subject of Proc *)
trap_dispatch ==
    /\ cpu = "dispatch"
    /\ cpu' = CASE cause_IP = {TIMER} -> "user"
                [] cause_IP = {COM1} -> "getc"
                [] OTHER -> "panic"
    /\ UNCHANGED <<com_vars, timer_Int, cause_IP, cons, stdin_vars, reader_vars, lost>>

-----------------------------------------------------------------------------
(* Console *)

(* serial_proc_data turns a delete into a backspace. *)
serial_proc_data(c) == IF c = DEL THEN BS ELSE c

(* cons_getc calls serial_intr: one turn of the loop of cons_intr *)
cons_intr ==
    /\ cpu = "getc"
    /\ com_Int
    /\ tailer' = (tailer + 1) % COM_SIZE
    /\ LET c == serial_proc_data(comBuffer[tailer])
           wpos == (cons.wpos + 1) % CONSBUFSIZE
       IN IF c = NUL
          THEN UNCHANGED <<cons, lost>>
          ELSE /\ cons' = [cons EXCEPT !.buf[cons.wpos] = c, !.wpos = wpos]
               /\ lost' = (lost \/ wpos = cons.rpos)
    /\ UNCHANGED <<au_state, comBuffer, header, sent, accepted, timer_Int, cause_IP,
                   cpu, stdin_vars, reader_vars>>

(* The loop of cons_intr has found no data; more may come before the next step *)
cons_intr_end ==
    /\ cpu = "getc"
    /\ ~com_Int
    /\ cpu' = "take"
    /\ UNCHANGED <<com_vars, timer_Int, cause_IP, cons, stdin_vars, reader_vars, lost>>

(* Mutant of wake_count: only the first reader is woken. *)
wake_count_first == IF wait_queue = <<>> THEN 0 ELSE 1

(* wakeup_queue wakes all readers and empties the queue. *)
wake_count == Len(wait_queue)
wakes(r) == \E i \in 1..wake_count : wait_queue[i] = r

(* Mutant of write_pos: the position moves on although the ring is full. *)
write_pos_unchecked == p_wpos + 1

(* p_wpos after a write. *)
write_pos == IF p_wpos - p_rpos < STDIN_BUFSIZE THEN p_wpos + 1 ELSE p_wpos

(* cons_getc returns a character, which dev_stdin_write stores: the slot   *)
(* is written before the ring is tested for being full                     *)
dev_stdin_write ==
    /\ cpu = "take"
    /\ cpu' = "getc"
    /\ cons.rpos # cons.wpos
    /\ stdin_buffer' = [stdin_buffer EXCEPT ![p_wpos % STDIN_BUFSIZE] = cons.buf[cons.rpos]]
    /\ cons' = [cons EXCEPT !.rpos = (@ + 1) % CONSBUFSIZE]
    /\ p_wpos' = write_pos
    /\ lost' = (lost \/ write_pos = p_wpos)
    /\ woken' = [r \in Readers |-> woken[r] \/ wakes(r)]
    /\ wakeup_flags' = [r \in Readers |-> IF wakes(r) THEN "WT_KBD" ELSE wakeup_flags[r]]
    /\ wait_queue' = SubSeq(wait_queue, wake_count + 1, Len(wait_queue))
    /\ UNCHANGED <<com_vars, timer_Int, cause_IP, p_rpos, reader, resid, killed, got>>

(* cons_getc returns 0: the handler returns *)
cons_getc_none ==
    /\ cpu = "take"
    /\ cons.rpos = cons.wpos
    /\ cpu' = "user"
    /\ UNCHANGED <<com_vars, timer_Int, cause_IP, cons, stdin_vars, reader_vars, lost>>

-----------------------------------------------------------------------------
(* dev_stdin_read *)

(* A read of len characters; interrupts stay masked until it waits *)
dev_stdin_read(r, len) ==
    /\ cpu = "user"
    /\ reader[r] = "user"
    /\ reader' = [reader EXCEPT ![r] = "reading"]
    /\ resid' = [resid EXCEPT ![r] = len]
    /\ cpu' = r
    /\ timer_Int' = FALSE
    /\ UNCHANGED <<com_vars, cause_IP, cons, stdin_vars, wait_queue, woken,
                   wakeup_flags, killed, got, lost>>

read_char(r) ==
    /\ cpu = r
    /\ resid[r] > 0
    /\ p_rpos < p_wpos
    /\ got' = Append(got, stdin_buffer[p_rpos % STDIN_BUFSIZE])
    /\ p_rpos' = p_rpos + 1
    /\ resid' = [resid EXCEPT ![r] = @ - 1]
    /\ UNCHANGED <<com_vars, timer_Int, cause_IP, cpu, cons, stdin_buffer, p_wpos,
                   wait_queue, reader, woken, wakeup_flags, killed, lost>>

(* wait_current_set and schedule *)
read_wait(r) ==
    /\ cpu = r
    /\ resid[r] > 0
    /\ p_rpos = p_wpos
    /\ wait_queue' = Append(wait_queue, r)
    /\ reader' = [reader EXCEPT ![r] = "waiting"]
    /\ woken' = [woken EXCEPT ![r] = FALSE]
    /\ wakeup_flags' = [wakeup_flags EXCEPT ![r] = "WT_INTERRUPTED"]
    /\ cpu' = "user"
    /\ UNCHANGED <<com_vars, timer_Int, cause_IP, cons, stdin_vars, resid, killed, got, lost>>

(* The return to user mode; trap() ends a killed process *)
Leave(r) ==
    /\ reader' = [reader EXCEPT ![r] = IF killed[r] THEN "dead" ELSE "user"]
    /\ resid' = [resid EXCEPT ![r] = 0]
    /\ cpu' = "user"

read_return(r) ==
    /\ cpu = r
    /\ resid[r] = 0
    /\ Leave(r)
    /\ UNCHANGED <<com_vars, timer_Int, cause_IP, cons, stdin_vars, wait_queue, woken,
                   wakeup_flags, killed, got, lost>>

(* wait_current_del, if wait_in_queue *)
leave_queue(r) ==
    IF \E i \in 1..Len(wait_queue) : wait_queue[i] = r
    THEN RemoveAt(wait_queue, CHOOSE i \in 1..Len(wait_queue) : wait_queue[i] = r)
    ELSE wait_queue

(* schedule returns in a woken reader: try_again, or break after a kill *)
read_resume(r) ==
    /\ cpu = "user"
    /\ reader[r] = "waiting"
    /\ woken[r]
    /\ wait_queue' = leave_queue(r)
    /\ IF wakeup_flags[r] = "WT_KBD"
       THEN /\ reader' = [reader EXCEPT ![r] = "reading"]
            /\ cpu' = r
            /\ UNCHANGED resid
       ELSE Leave(r)
    /\ timer_Int' = FALSE
    /\ UNCHANGED <<com_vars, cause_IP, cons, stdin_vars, woken, wakeup_flags, killed,
                   got, lost>>

(* do_kill of a reader in its read; WT_KBD can be interrupted *)
do_kill(r) ==
    /\ cpu = "user"
    /\ reader[r] = "waiting"
    /\ ~killed[r]
    /\ killed' = [killed EXCEPT ![r] = TRUE]
    /\ woken' = [woken EXCEPT ![r] = TRUE]
    /\ UNCHANGED <<com_vars, timer_Int, cause_IP, cpu, cons, stdin_vars, wait_queue,
                   reader, resid, wakeup_flags, got, lost>>

Device ==
    \/ \E c \in {Letter(sent + 1), NUL, DEL} : receive(c)
    \/ receive_done
    \/ timer

Handler ==
    \/ interrupt
    \/ trap_dispatch
    \/ cons_intr
    \/ cons_intr_end
    \/ dev_stdin_write
    \/ cons_getc_none

ReadStep(r) == read_char(r) \/ read_wait(r) \/ read_return(r) \/ read_resume(r)

Next ==
    \/ Device
    \/ Handler
    \/ \E r \in Readers : \/ ReadStep(r)
                          \/ do_kill(r)
                          \/ \E len \in 1..ReadLen : dev_stdin_read(r, len)

Spec == Init /\ [][Next]_vars

(* The receiver and the kernel code do not stop, a pending interrupt is    *)
(* taken as soon as user code runs, and the scheduler runs woken readers.  *)
FairSpec ==
    /\ Spec
    /\ WF_vars(receive_done)
    /\ SF_vars(Handler)
    /\ \A r \in Readers : SF_vars(ReadStep(r))

-----------------------------------------------------------------------------

(* The positions stay inside their rings, stdin never holds more than its  *)
(* size, and only waiting readers are in the queue, each once.             *)
TypeOK ==
    /\ au_state \in {"recv0", "recv2"}
    /\ comBuffer \in [0..(COM_SIZE - 1) -> Char]
    /\ {header, tailer} \subseteq 0..(COM_SIZE - 1)
    /\ timer_Int \in BOOLEAN
    /\ cause_IP \subseteq {TIMER, COM1}
    /\ cpu \in {"user", "dispatch", "getc", "take", "panic"} \cup Readers
    /\ cons \in [buf : [0..(CONSBUFSIZE - 1) -> Char],
                 rpos : 0..(CONSBUFSIZE - 1), wpos : 0..(CONSBUFSIZE - 1)]
    /\ stdin_buffer \in [0..(STDIN_BUFSIZE - 1) -> Char]
    /\ p_rpos \in Nat
    /\ p_wpos \in p_rpos..(p_rpos + STDIN_BUFSIZE)
    /\ IsInjective(wait_queue)
    /\ ToSet(wait_queue) \subseteq {r \in Readers : reader[r] = "waiting"}
    /\ reader \in [Readers -> {"user", "reading", "waiting", "dead"}]
    /\ resid \in [Readers -> 0..ReadLen]

(* No lost wake-up: a reader sleeps only while the ring is empty and the   *)
(* sleeper is in the queue that dev_stdin_write wakes.                     *)
SleeperMissesNothing ==
    \A r \in Readers :
       reader[r] = "waiting" /\ ~woken[r] =>
          /\ r \in ToSet(wait_queue)
          /\ p_rpos = p_wpos

(* The characters in the rings, oldest first. *)
InCom == [i \in 1..((header - tailer) % COM_SIZE) |-> comBuffer[(tailer + i - 1) % COM_SIZE]]
InCons == [i \in 1..((cons.wpos - cons.rpos) % CONSBUFSIZE) |->
              cons.buf[(cons.rpos + i - 1) % CONSBUFSIZE]]
InStdin == [i \in 1..(p_wpos - p_rpos) |-> stdin_buffer[(p_rpos + i - 1) % STDIN_BUFSIZE]]

(* What the driver makes of a character and of the characters of the line. *)
Typed(c) == IF c = NUL THEN <<>> ELSE IF c = DEL THEN <<BS>> ELSE <<c>>
AsInput(s) ==
    LET typed[i \in 0..Len(s)] == IF i = 0 THEN <<>> ELSE typed[i - 1] \o Typed(s[i])
    IN typed[Len(s)]

(* Until a ring of the kernel overflows, no character that the receive     *)
(* buffer took is lost, duplicated or reordered on the way to the readers. *)
InOrder == ~lost => got \o InStdin \o InCons \o AsInput(InCom) = AsInput(accepted)

(* A reader that waits while a character has arrived is woken, unless the  *)
(* kernel panics or one of its rings overflows and loses the character.    *)
InputWakesReader ==
    \A r \in Readers :
       reader[r] = "waiting" /\ AsInput(InCom) # <<>>
          ~> reader[r] # "waiting" \/ woken[r] \/ lost \/ cpu = "panic"
=============================================================================
