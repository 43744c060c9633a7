---------------------------- MODULE SerialProofs -----------------------------
(***************************************************************************)
(* For all sizes of the three rings and every set of readers: the types,   *)
(* the readers' wake-up and the order of the characters from the serial    *)
(* line to the readers.                                                    *)
(***************************************************************************)
EXTENDS Serial, DataFacts, SequenceTheorems

Typing == Seq(Char)

(* Concatenation, to be expanded only in the lemmas below. *)
Cat(a, b) == a \o b

-----------------------------------------------------------------------------
(* What the driver makes of the characters of the line *)

(* What one character becomes is a sequence of characters. *)
LEMMA TypedSeq ==
    ASSUME NEW c \in Char
    PROVE  Typed(c) \in Typing
<1>1. BS \in Char
  BY DEF BS, Char
<1> QED
  BY <1>1 DEF Typed, Typing

(* Sequences of characters are closed under concatenation, *)
LEMMA CatTyping ==
    ASSUME NEW a \in Typing, NEW b \in Typing
    PROVE  Cat(a, b) \in Typing
BY DEF Typing, Cat

(* which is associative *)
LEMMA CatAssoc ==
    ASSUME NEW a \in Typing, NEW b \in Typing, NEW c \in Typing
    PROVE  Cat(Cat(a, b), c) = Cat(a, Cat(b, c))
BY ConcatAssociative DEF Typing, Cat

(* and has the empty sequence as its unit. *)
LEMMA CatEmpty ==
    /\ <<>> \in Typing
    /\ \A a \in Typing : Cat(a, <<>>) = a /\ Cat(<<>>, a) = a
BY ConcatEmptySeq DEF Typing, Cat

(* Append is concatenation with one character. *)
LEMMA AppendTyping ==
    ASSUME NEW a \in Typing, NEW c \in Char
    PROVE  /\ Append(a, c) = Cat(a, <<c>>)
           /\ Append(a, c) \in Typing
           /\ <<c>> \in Typing
<1>1. a \in Seq(Char)
  BY DEF Typing
<1>2. Append(a, c) = a \o <<c>>
  BY <1>1, AppendIsConcat, Zenon
<1>3. Append(a, c) \in Typing /\ <<c>> \in Typing
  BY DEF Typing
<1> QED
  BY <1>2, <1>3 DEF Cat

(* The loop of AsInput over s *)
Loop(s) == {f \in [0..Len(s) -> Typing] :
              /\ f[0] = <<>>
              /\ \A i \in 1..Len(s) : f[i] = Cat(f[i - 1], Typed(s[i]))}

(* AsInput is the last value of its recursion. *)
LEMMA AsInputDef ==
    ASSUME NEW s \in Typing
    PROVE  \E f \in Loop(s) : AsInput(s) = f[Len(s)]
<1> DEFINE m == Len(s)
           e(i) == IF i \in 1..m THEN Typed(s[i]) ELSE <<>>
           step == [i \in Nat |-> [v \in Typing |-> Cat(v, e(i))]]
           Body(f) == [i \in 0..m |-> IF i = 0 THEN <<>> ELSE Cat(f[i - 1], Typed(s[i]))]
           typed == CHOOSE f : f = Body(f)
<1>1. m \in Nat /\ \A i \in 1..m : s[i] \in Char /\ Typed(s[i]) \in Typing
  <2>1. m \in Nat /\ \A i \in 1..m : s[i] \in Char
    BY DEF Typing
  <2> QED
    BY <2>1, TypedSeq
<1>2. step \in [Nat -> [Typing -> Typing]]
  <2>1. \A i \in Nat : e(i) \in Typing
    BY <1>1, CatEmpty
  <2>2. \A i \in Nat, v \in Typing : Cat(v, e(i)) \in Typing
    <3> HIDE DEF e
    <3> QED
      BY <2>1, CatTyping
  <2> HIDE DEF e
  <2> QED
    BY <2>2
<1>3. PICK g \in [0..m -> Typing] : g[0] = <<>> /\ \A i \in 1..m : g[i] = step[i][g[i - 1]]
  <2> DEFINE V == Typing
             a == <<>>
  <2>1. a \in V /\ m \in Nat /\ step \in [Nat -> [V -> V]]
    BY <1>1, <1>2, CatEmpty
  <2> HIDE DEF step, m, V, a
  <2>2. LoopRuns(V, a, m, step) # {}
    BY <2>1, LoopValues
  <2> QED
    BY <2>2 DEF V, a, LoopRuns
<1>4. \A i \in 1..m : g[i] = Cat(g[i - 1], Typed(s[i]))
  <2> SUFFICES ASSUME NEW i \in 1..m
               PROVE  g[i] = Cat(g[i - 1], Typed(s[i]))
    OBVIOUS
  <2>1. i \in Nat /\ g[i - 1] \in Typing
    BY <1>1
  <2>2. step[i][g[i - 1]] = Cat(g[i - 1], e(i))
    BY <2>1
  <2> QED
    BY <1>3, <2>2
<1>5. g = Body(g)
  <2>1. \A i \in 0..m : g[i] = Body(g)[i]
    BY <1>3, <1>4
  <2> QED
    BY <2>1
<1>6. typed = Body(typed)
  BY <1>5
<1>7. AsInput(s) = typed[m]
  BY DEF AsInput, Cat
<1> HIDE DEF typed
<1>8. /\ typed[0] = <<>> /\ DOMAIN typed = 0..m
      /\ \A i \in 1..m : typed[i] = Cat(typed[i - 1], Typed(s[i]))
  BY <1>1, <1>6
<1>9. \A i \in 0..m : typed[i] \in Typing
  <2> DEFINE T == {k \in 0..m : typed[k] \in Typing}
  <2>1. 0 \in T
    BY <1>1, <1>8, CatEmpty
  <2>2. ASSUME NEW n \in 0..(m - 1), n \in T
        PROVE  n + 1 \in T
    <3>1. n + 1 \in 1..m /\ n + 1 \in 0..m /\ n + 1 - 1 = n
      BY <1>1
    <3>2. typed[n + 1] = Cat(typed[n], Typed(s[n + 1]))
      BY <1>8, <3>1
    <3>3. typed[n] \in Typing /\ Typed(s[n + 1]) \in Typing
      BY <1>1, <2>2, <3>1
    <3> QED
      BY <3>1, <3>2, <3>3, CatTyping
  <2> HIDE DEF T
  <2>3. \A i \in 0..m : i \in T
    BY <1>1, <2>1, <2>2, BoundedInduction
  <2> QED
    BY <2>3 DEF T
<1>10. typed = [i \in 0..m |-> typed[i]]
  BY <1>6
<1>11. typed \in [0..m -> Typing]
  BY <1>9, <1>10
<1> QED
  BY <1>7, <1>8, <1>11 DEF Loop

(* AsInput gives a sequence of characters. *)
LEMMA AsInputTyping ==
    ASSUME NEW s \in Typing
    PROVE  AsInput(s) \in Typing
<1>1. Len(s) \in Nat
  BY DEF Typing
<1> QED
  BY <1>1, AsInputDef DEF Loop

(* Nothing received is no input. *)
LEMMA AsInputEmpty == AsInput(<<>>) = <<>>
<1>1. <<>> \in Typing /\ Len(<<>>) = 0
  BY CatEmpty
<1>2. PICK f \in Loop(<<>>) : AsInput(<<>>) = f[Len(<<>>)]
  BY <1>1, AsInputDef
<1> QED
  BY <1>1, <1>2 DEF Loop

(* One character more at the end. *)
LEMMA AsInputAppend ==
    ASSUME NEW s \in Typing, NEW c \in Char
    PROVE  AsInput(Append(s, c)) = Cat(AsInput(s), Typed(c))
<1> DEFINE m == Len(s)
<1>1. PICK t : t = Append(s, c)
  OBVIOUS
<1>2. /\ t \in Typing /\ m \in Nat /\ Len(t) = m + 1 /\ t[m + 1] = c
      /\ \A i \in 1..m : t[i] = s[i]
  BY <1>1 DEF Typing, Cat
<1>3. PICK f \in Loop(s) : AsInput(s) = f[m]
  BY AsInputDef
<1>4. PICK g \in Loop(t) : AsInput(t) = g[m + 1]
  BY <1>2, AsInputDef
<1>5. /\ f[0] = <<>> /\ g[0] = <<>>
      /\ \A i \in 1..m : f[i] = Cat(f[i - 1], Typed(s[i]))
      /\ \A i \in 1..(m + 1) : g[i] = Cat(g[i - 1], Typed(t[i]))
  BY <1>2, <1>3, <1>4 DEF Loop
<1>6. g[m] = f[m]
  <2> DEFINE T == {k \in 0..m : g[k] = f[k]}
  <2>1. 0 \in T
    BY <1>2, <1>5
  <2>2. ASSUME NEW n \in 0..(m - 1), n \in T
        PROVE  n + 1 \in T
    <3>1. n + 1 \in 1..m /\ n + 1 \in 0..m /\ n + 1 \in 1..(m + 1) /\ n + 1 - 1 = n
      BY <1>2
    <3>2. f[n + 1] = Cat(f[n], Typed(s[n + 1])) /\ g[n + 1] = Cat(g[n], Typed(t[n + 1]))
      BY <1>5, <3>1
    <3> QED
      BY <1>2, <2>2, <3>1, <3>2
  <2> HIDE DEF T
  <2>3. \A i \in 0..m : i \in T
    BY <1>2, <2>1, <2>2, BoundedInduction
  <2> QED
    BY <1>2, <2>3 DEF T
<1>7. m + 1 \in 1..(m + 1) /\ m + 1 - 1 = m
  BY <1>2
<1>8. g[m + 1] = Cat(g[m], Typed(c))
  BY <1>2, <1>5, <1>7
<1> QED
  BY <1>1, <1>3, <1>4, <1>6, <1>8

(* One character more at the front. *)
LEMMA AsInputCons ==
    ASSUME NEW s \in Typing, NEW c \in Char
    PROVE  AsInput(Cat(<<c>>, s)) = Cat(Typed(c), AsInput(s))
<1> DEFINE m == Len(s)
<1>1. PICK t : t = Cat(<<c>>, s)
  OBVIOUS
<1>2. /\ t \in Typing /\ m \in Nat /\ Len(t) = m + 1 /\ t[1] = c
      /\ \A i \in 1..m : t[i + 1] = s[i] /\ s[i] \in Char
  BY <1>1 DEF Typing, Cat
<1>3. PICK f \in Loop(s) : AsInput(s) = f[m]
  BY AsInputDef
<1>4. PICK g \in Loop(t) : AsInput(t) = g[m + 1]
  BY <1>2, AsInputDef
<1>5. /\ f[0] = <<>> /\ g[0] = <<>> /\ \A i \in 0..m : f[i] \in Typing
      /\ \A i \in 1..m : f[i] = Cat(f[i - 1], Typed(s[i]))
      /\ \A i \in 1..(m + 1) : g[i] = Cat(g[i - 1], Typed(t[i]))
  BY <1>2, <1>3, <1>4 DEF Loop
<1>6. g[m + 1] = Cat(Typed(c), f[m])
  <2> DEFINE T == {k \in 0..m : g[k + 1] = Cat(Typed(c), f[k])}
  <2>1. 0 \in T
    <3>1. 0 \in 0..m /\ 0 + 1 \in 1..(m + 1) /\ 0 + 1 - 1 = 0 /\ 0 + 1 = 1
      BY <1>2
    <3>2. g[0 + 1] = Cat(<<>>, Typed(c))
      BY <1>2, <1>5, <3>1
    <3>3. Typed(c) \in Typing
      BY TypedSeq
    <3>4. g[0 + 1] = Cat(Typed(c), f[0])
      BY <1>5, <3>2, <3>3, CatEmpty
    <3> QED
      BY <3>1, <3>4
  <2>2. ASSUME NEW n \in 0..(m - 1), n \in T
        PROVE  n + 1 \in T
    <3>1. /\ n + 1 \in 1..m /\ n + 1 \in 0..m /\ n \in 0..m /\ n + 1 - 1 = n
          /\ n + 1 + 1 \in 1..(m + 1) /\ n + 1 + 1 - 1 = n + 1
      BY <1>2
    <3>2. /\ f[n + 1] = Cat(f[n], Typed(s[n + 1]))
          /\ g[n + 1 + 1] = Cat(g[n + 1], Typed(t[n + 1 + 1]))
          /\ t[n + 1 + 1] = s[n + 1] /\ s[n + 1] \in Char
      BY <1>2, <1>5, <3>1
    <3>3. g[n + 1] = Cat(Typed(c), f[n])
      BY <2>2
    <3>4. f[n] \in Typing /\ Typed(c) \in Typing /\ Typed(s[n + 1]) \in Typing
      BY <1>5, <3>1, <3>2, TypedSeq
    <3>5. g[n + 1 + 1] = Cat(Typed(c), f[n + 1])
      BY <3>2, <3>3, <3>4, CatAssoc
    <3> QED
      BY <3>1, <3>5
  <2> HIDE DEF T
  <2>3. \A i \in 0..m : i \in T
    BY <1>2, <2>1, <2>2, BoundedInduction
  <2> QED
    BY <1>2, <2>3 DEF T
<1> QED
  BY <1>1, <1>3, <1>4, <1>6

-----------------------------------------------------------------------------
(* The invariant, one conjunct per part of the state *)

ComOK ==
    /\ au_state \in {"recv0", "recv2"}
    /\ comBuffer \in [0..(COM_SIZE - 1) -> Char]
    /\ header \in 0..(COM_SIZE - 1)
    /\ tailer \in 0..(COM_SIZE - 1)
    /\ sent \in Nat
    /\ accepted \in Typing

CpuOK ==
    /\ timer_Int \in BOOLEAN
    /\ cause_IP \subseteq {TIMER, COM1}
    /\ cpu \in {"user", "dispatch", "getc", "take", "panic"} \cup Readers

ConsRec == [buf : [0..(CONSBUFSIZE - 1) -> Char],
            rpos : 0..(CONSBUFSIZE - 1), wpos : 0..(CONSBUFSIZE - 1)]

StdinOK ==
    /\ stdin_buffer \in [0..(STDIN_BUFSIZE - 1) -> Char]
    /\ p_rpos \in Nat
    /\ p_wpos \in p_rpos..(p_rpos + STDIN_BUFSIZE)
    /\ got \in Typing

ReaderOK ==
    /\ reader \in [Readers -> {"user", "reading", "waiting", "dead"}]
    /\ resid \in [Readers -> 0..ReadLen]
    /\ woken \in [Readers -> BOOLEAN]
    /\ killed \in [Readers -> BOOLEAN]
    /\ \A r \in Readers : cpu = r => reader[r] = "reading"

QueueOK ==
    /\ wait_queue \in Seq(Readers)
    /\ \A i, j \in 1..Len(wait_queue) : wait_queue[i] = wait_queue[j] => i = j
    /\ \A i \in 1..Len(wait_queue) : reader[wait_queue[i]] = "waiting"

SleepOK ==
    \A r \in Readers :
       reader[r] = "waiting" /\ ~woken[r] =>
          /\ \E i \in 1..Len(wait_queue) : wait_queue[i] = r
          /\ p_rpos = p_wpos

SerialInv ==
    /\ ComOK
    /\ CpuOK
    /\ cons \in ConsRec
    /\ StdinOK
    /\ ReaderOK
    /\ QueueOK
    /\ SleepOK

(* The steps that change a part of the state. *)
Receives == \E c \in {Letter(sent + 1), NUL, DEL} : receive(c)
Reads == \E r \in Readers : read_char(r)

Frame ==
    /\ UNCHANGED com_vars \/ Receives \/ receive_done \/ cons_intr
    /\ UNCHANGED <<cons, lost>> \/ cons_intr \/ dev_stdin_write
    /\ UNCHANGED <<stdin_vars, got>> \/ dev_stdin_write \/ Reads
    /\ \/ UNCHANGED <<cpu, wait_queue, reader, resid, woken, killed>>
       \/ /\ UNCHANGED <<wait_queue, reader, resid, woken, killed>>
          /\ cpu' \in {"user", "dispatch", "getc", "take", "panic"}
       \/ dev_stdin_write
       \/ \E r \in Readers : \/ ReadStep(r)
                             \/ do_kill(r)
                             \/ \E len \in 1..ReadLen : dev_stdin_read(r, len)

(* Each step changes only the parts that Frame lists. *)
LEMMA Frames ==
    ASSUME [Next]_vars
    PROVE  Frame
<1>1. CASE UNCHANGED vars
  BY <1>1 DEF Frame, vars, com_vars, stdin_vars, reader_vars
<1>2. CASE Device
  BY <1>2 DEF Frame, Device, Receives, receive, receive_done, timer, com_vars, stdin_vars, reader_vars
<1>3. CASE interrupt \/ trap_dispatch
  BY <1>3 DEF Frame, interrupt, trap_dispatch, com_vars, stdin_vars, reader_vars
<1>4. CASE cons_intr
  BY <1>4 DEF Frame, cons_intr, stdin_vars, reader_vars
<1>5. CASE cons_intr_end \/ cons_getc_none
  BY <1>5 DEF Frame, cons_intr_end, cons_getc_none, com_vars, stdin_vars, reader_vars
<1>6. CASE dev_stdin_write
  BY <1>6 DEF Frame, dev_stdin_write, com_vars, stdin_vars, reader_vars
<1>7. ASSUME NEW r \in Readers, read_char(r)
      PROVE  Frame
  <2>1. Reads /\ ReadStep(r)
    BY <1>7 DEF Reads, ReadStep
  <2>2. UNCHANGED com_vars /\ UNCHANGED <<cons, lost>>
    BY <1>7 DEF read_char
  <2> QED
    BY <2>1, <2>2 DEF Frame
<1>8. ASSUME NEW r \in Readers, read_wait(r) \/ read_return(r) \/ read_resume(r)
      PROVE  Frame
  <2>1. ReadStep(r)
    BY <1>8 DEF ReadStep
  <2>2. UNCHANGED com_vars /\ UNCHANGED <<cons, lost>> /\ UNCHANGED <<stdin_vars, got>>
    BY <1>8 DEF read_wait, read_return, read_resume, stdin_vars
  <2> QED
    BY <2>1, <2>2 DEF Frame
<1>9. ASSUME NEW r \in Readers, do_kill(r) \/ \E len \in 1..ReadLen : dev_stdin_read(r, len)
      PROVE  Frame
  <2>2. UNCHANGED com_vars /\ UNCHANGED <<cons, lost>> /\ UNCHANGED <<stdin_vars, got>>
    BY <1>9 DEF do_kill, dev_stdin_read, stdin_vars
  <2> QED
    BY <1>9, <2>2 DEF Frame
<1>10. CASE Handler
  BY <1>3, <1>4, <1>5, <1>6, <1>10 DEF Handler
<1>11. ASSUME NEW r \in Readers, ReadStep(r)
       PROVE  Frame
  BY <1>7, <1>8, <1>11 DEF ReadStep
<1> QED
  BY <1>1, <1>2, <1>9, <1>10, <1>11 DEF Next

(* No ring is empty. *)
LEMMA Sizes ==
    /\ COM_SIZE \in Nat \ {0}
    /\ CONSBUFSIZE \in Nat \ {0}
    /\ STDIN_BUFSIZE \in Nat \ {0}
BY SizeAssumption

(* The characters that the line may carry. *)
LEMMA LineChars ==
    ASSUME sent \in Nat
    PROVE  {Letter(sent + 1), NUL, DEL} \subseteq Char
<1>1. PICK n \in Nat : n = sent + 1
  OBVIOUS
<1>2. n % 26 \in 0..25
  OBVIOUS
<1>3. 97 + (n % 26) \in 0..127
  BY <1>2
<1> QED
  BY <1>1, <1>3 DEF Letter, NUL, DEL, Char

(* The indices of the receive buffer stay in it. *)
LEMMA ComStep ==
    ASSUME ComOK, Frame
    PROVE  ComOK'
<1>1. CASE Receives
  <2>1. PICK c \in Char : receive(c)
    BY <1>1, LineChars DEF Receives, ComOK
  <2> QED
    BY <2>1 DEF receive, ComOK
<1>2. CASE receive_done
  <2>1. (header + 1) % COM_SIZE \in 0..(COM_SIZE - 1)
    BY Sizes, DivMod DEF ComOK
  <2>2. comBuffer[header] \in Char
    BY DEF ComOK
  <2>3. Append(accepted, comBuffer[header]) \in Typing
    BY <2>2, AppendTyping DEF ComOK
  <2> QED
    BY <1>2, <2>1, <2>3 DEF receive_done, ComOK
<1>3. CASE cons_intr
  <2>1. (tailer + 1) % COM_SIZE \in 0..(COM_SIZE - 1)
    BY Sizes, DivMod DEF ComOK
  <2> QED
    BY <1>3, <2>1 DEF cons_intr, ComOK
<1>4. CASE UNCHANGED com_vars
  BY <1>4 DEF com_vars, ComOK
<1> QED
  BY <1>1, <1>2, <1>3, <1>4 DEF Frame

(* The record of the console stays one. *)
LEMMA ConsStep ==
    ASSUME ComOK, cons \in ConsRec, Frame
    PROVE  cons' \in ConsRec
<1>0. /\ (cons.wpos + 1) % CONSBUFSIZE \in 0..(CONSBUFSIZE - 1)
      /\ (cons.rpos + 1) % CONSBUFSIZE \in 0..(CONSBUFSIZE - 1)
  <2>1. cons.wpos + 1 \in Int /\ cons.rpos + 1 \in Int
    BY Sizes DEF ConsRec
  <2> QED
    BY <2>1, Sizes, DivMod
<1>1. CASE cons_intr
  <2>1. serial_proc_data(comBuffer[tailer]) \in Char
    <3>1. comBuffer[tailer] \in Char
      BY DEF ComOK
    <3>2. BS \in Char
      BY DEF BS, Char
    <3> QED
      BY <3>1, <3>2 DEF serial_proc_data
  <2> QED
    BY <1>0, <1>1, <2>1 DEF cons_intr, ConsRec
<1>2. CASE dev_stdin_write
  BY <1>0, <1>2 DEF dev_stdin_write, ConsRec
<1>3. CASE UNCHANGED cons
  BY <1>3
<1> QED
  BY <1>1, <1>2, <1>3 DEF Frame

(* The counters of the stdin ring stay in order. *)
LEMMA StdinStep ==
    ASSUME cons \in ConsRec, StdinOK, Frame
    PROVE  StdinOK'
<1>1. CASE dev_stdin_write
  <2>1. cons.buf[cons.rpos] \in Char
    BY DEF ConsRec
  <2>2. write_pos \in p_rpos..(p_rpos + STDIN_BUFSIZE)
    BY Sizes DEF StdinOK, write_pos
  <2> QED
    BY <1>1, <2>1, <2>2 DEF dev_stdin_write, StdinOK
<1>2. CASE Reads
  <2>1. PICK r \in Readers : read_char(r)
    BY <1>2 DEF Reads
  <2>2. p_rpos % STDIN_BUFSIZE \in 0..(STDIN_BUFSIZE - 1)
    BY Sizes, DivMod DEF StdinOK
  <2>3. stdin_buffer[p_rpos % STDIN_BUFSIZE] \in Char
    BY <2>2 DEF StdinOK
  <2>4. got' \in Typing
    BY <2>1, <2>3, AppendTyping DEF read_char, StdinOK
  <2>5. p_rpos + 1 \in Nat /\ p_wpos \in (p_rpos + 1)..(p_rpos + 1 + STDIN_BUFSIZE)
    BY <2>1, Sizes DEF read_char, StdinOK
  <2> QED
    BY <2>1, <2>4, <2>5 DEF read_char, StdinOK
<1>3. CASE UNCHANGED <<stdin_vars, got>>
  BY <1>3 DEF stdin_vars, StdinOK
<1> QED
  BY <1>1, <1>2, <1>3 DEF Frame

(* The state of the processor stays one that interrupts allow. *)
LEMMA CpuStep ==
    ASSUME CpuOK, [Next]_vars
    PROVE  CpuOK'
<1>1. CASE UNCHANGED vars
  BY <1>1 DEF vars, CpuOK
<1>2. CASE Device
  BY <1>2 DEF Device, receive, receive_done, timer, CpuOK
<1>3. CASE Handler
  BY <1>3 DEF Handler, interrupt, trap_dispatch, cons_intr, cons_intr_end, dev_stdin_write,
              cons_getc_none, CpuOK
<1>4. ASSUME NEW r \in Readers, ReadStep(r)
      PROVE  CpuOK'
  BY <1>4 DEF ReadStep, read_char, read_wait, read_return, read_resume, Leave, CpuOK
<1>5. ASSUME NEW r \in Readers, do_kill(r) \/ \E len \in 1..ReadLen : dev_stdin_read(r, len)
      PROVE  CpuOK'
  BY <1>5 DEF do_kill, dev_stdin_read, CpuOK
<1> QED
  BY <1>1, <1>2, <1>3, <1>4, <1>5 DEF Next

-----------------------------------------------------------------------------
(* The readers and their queue *)

(* The place of the reader fits its state. *)
LEMMA ReaderStep ==
    ASSUME ReaderOK, Frame
    PROVE  ReaderOK'
<1>0. \A r \in Readers : r \notin {"user", "dispatch", "getc", "take", "panic"}
  BY ReadersAssumption
<1>1. CASE UNCHANGED <<cpu, wait_queue, reader, resid, woken, killed>>
  BY <1>1 DEF ReaderOK
<1>2. CASE /\ UNCHANGED <<wait_queue, reader, resid, woken, killed>>
           /\ cpu' \in {"user", "dispatch", "getc", "take", "panic"}
  BY <1>0, <1>2 DEF ReaderOK
<1>3. CASE dev_stdin_write
  <2>1. \A r \in Readers : wakes(r) \in BOOLEAN
    BY DEF wakes
  <2>2. woken' \in [Readers -> BOOLEAN]
    BY <1>3, <2>1 DEF dev_stdin_write, ReaderOK
  <2>3. cpu' = "getc" /\ UNCHANGED <<reader, resid, killed>>
    BY <1>3 DEF dev_stdin_write
  <2> QED
    BY <1>0, <2>2, <2>3 DEF ReaderOK
<1>4. ASSUME NEW r \in Readers, read_char(r)
      PROVE  ReaderOK'
  <2>1. resid[r] - 1 \in 0..ReadLen
    BY <1>4, SizeAssumption DEF read_char, ReaderOK
  <2> QED
    BY <1>4, <2>1 DEF read_char, ReaderOK
<1>5. ASSUME NEW r \in Readers, read_wait(r)
      PROVE  ReaderOK'
  BY <1>0, <1>5 DEF read_wait, ReaderOK
<1>6. ASSUME NEW r \in Readers, read_return(r)
      PROVE  ReaderOK'
  BY <1>0, <1>6, SizeAssumption DEF read_return, Leave, ReaderOK
<1>7. ASSUME NEW r \in Readers, read_resume(r)
      PROVE  ReaderOK'
  BY <1>0, <1>7, SizeAssumption DEF read_resume, Leave, ReaderOK
<1>8. ASSUME NEW r \in Readers, do_kill(r)
      PROVE  ReaderOK'
  BY <1>8 DEF do_kill, ReaderOK
<1>9. ASSUME NEW r \in Readers, NEW len \in 1..ReadLen, dev_stdin_read(r, len)
      PROVE  ReaderOK'
  BY <1>0, <1>9 DEF dev_stdin_read, ReaderOK
<1> QED
  BY <1>1, <1>2, <1>3, <1>4, <1>5, <1>6, <1>7, <1>8, <1>9 DEF Frame, ReadStep

(* A queue without repetitions, and with the element of one place removed. *)
LEMMA QueueRemove ==
    ASSUME NEW S, NEW q \in Seq(S),
           \A i, j \in 1..Len(q) : q[i] = q[j] => i = j,
           NEW x \in 1..Len(q)
    PROVE  /\ RemoveAt(q, x) \in Seq(S)
           /\ \A i, j \in 1..Len(RemoveAt(q, x)) : RemoveAt(q, x)[i] = RemoveAt(q, x)[j] => i = j
           /\ \A i \in 1..Len(RemoveAt(q, x)) :
                 RemoveAt(q, x)[i] # q[x] /\ \E j \in 1..Len(q) : RemoveAt(q, x)[i] = q[j]
           /\ \A i \in 1..Len(q) :
                 i # x => \E j \in 1..Len(RemoveAt(q, x)) : RemoveAt(q, x)[j] = q[i]
<1> DEFINE n == Len(q)
           a == SubSeq(q, 1, x - 1)
           b == SubSeq(q, x + 1, n)
<1>1. n \in Nat /\ x \in 1..n
  OBVIOUS
<1>2. /\ a \in Seq(S) /\ Len(a) = x - 1 /\ \A i \in 1..(x - 1) : a[i] = q[i]
      /\ b \in Seq(S) /\ Len(b) = n - x /\ \A i \in 1..(n - x) : b[i] = q[x + i]
  OBVIOUS
<1>3. PICK t : t = RemoveAt(q, x)
  OBVIOUS
<1>4. t = a \o b
  BY <1>3 DEF RemoveAt
<1> HIDE DEF a, b
<1>5. t \in Seq(S) /\ Len(t) = n - 1
  BY <1>1, <1>2, <1>4
<1>6. \A i \in 1..(n - 1) : t[i] = q[IF i < x THEN i ELSE i + 1]
  <2> SUFFICES ASSUME NEW i \in 1..(n - 1)
               PROVE  t[i] = q[IF i < x THEN i ELSE i + 1]
    OBVIOUS
  <2>1. CASE i < x
    BY <1>1, <1>2, <1>4, <2>1
  <2>2. CASE ~(i < x)
    <3>1. i - (x - 1) \in 1..(n - x) /\ x + (i - (x - 1)) = i + 1
      BY <1>1, <2>2
    <3>2. t[i] = b[i - (x - 1)]
      BY <1>1, <1>2, <1>4, <2>2
    <3> QED
      BY <1>2, <2>2, <3>1, <3>2
  <2> QED
    BY <2>1, <2>2
<1>7. ASSUME NEW i \in 1..Len(t)
      PROVE  /\ (IF i < x THEN i ELSE i + 1) \in 1..n
             /\ (IF i < x THEN i ELSE i + 1) # x
             /\ t[i] = q[IF i < x THEN i ELSE i + 1]
  BY <1>1, <1>5, <1>6
<1>8. \A i, j \in 1..Len(t) : t[i] = t[j] => i = j
  <2> SUFFICES ASSUME NEW i \in 1..Len(t), NEW j \in 1..Len(t), t[i] = t[j]
               PROVE  i = j
    OBVIOUS
  <2>1. (IF i < x THEN i ELSE i + 1) = (IF j < x THEN j ELSE j + 1)
    BY <1>7
  <2> QED
    BY <1>1, <2>1
<1>9. \A i \in 1..Len(t) : t[i] # q[x] /\ \E j \in 1..n : t[i] = q[j]
  BY <1>1, <1>7
<1>10. ASSUME NEW i \in 1..n, i # x
       PROVE  \E j \in 1..Len(t) : t[j] = q[i]
  <2>1. CASE i < x
    <3>1. i \in 1..(n - 1)
      BY <1>1, <2>1
    <3> QED
      BY <1>5, <1>6, <2>1, <3>1
  <2>2. CASE ~(i < x)
    <3>1. i - 1 \in 1..(n - 1) /\ ~(i - 1 < x) /\ i - 1 + 1 = i
      BY <1>1, <1>10, <2>2
    <3>2. t[i - 1] = q[i]
      BY <1>6, <3>1
    <3> QED
      BY <1>5, <3>1, <3>2
  <2> QED
    BY <2>1, <2>2
<1> QED
  BY <1>3, <1>5, <1>8, <1>9, <1>10

(* What leave_queue leaves. *)
LEMMA LeaveQueue ==
    ASSUME QueueOK, NEW r \in Readers
    PROVE  LET q == leave_queue(r) IN
           /\ q \in Seq(Readers)
           /\ \A i, j \in 1..Len(q) : q[i] = q[j] => i = j
           /\ \A i \in 1..Len(q) : q[i] # r /\ \E j \in 1..Len(wait_queue) : q[i] = wait_queue[j]
           /\ \A i \in 1..Len(wait_queue) :
                 wait_queue[i] # r => \E j \in 1..Len(q) : q[j] = wait_queue[i]
<1>1. CASE \E i \in 1..Len(wait_queue) : wait_queue[i] = r
  <2>1. PICK x : x = CHOOSE i \in 1..Len(wait_queue) : wait_queue[i] = r
    OBVIOUS
  <2>2. x \in 1..Len(wait_queue) /\ wait_queue[x] = r
    BY <1>1, <2>1
  <2>3. leave_queue(r) = RemoveAt(wait_queue, x)
    BY <1>1, <2>1 DEF leave_queue
  <2>4. /\ RemoveAt(wait_queue, x) \in Seq(Readers)
        /\ \A i, j \in 1..Len(RemoveAt(wait_queue, x)) :
              RemoveAt(wait_queue, x)[i] = RemoveAt(wait_queue, x)[j] => i = j
        /\ \A i \in 1..Len(RemoveAt(wait_queue, x)) :
              /\ RemoveAt(wait_queue, x)[i] # wait_queue[x]
              /\ \E j \in 1..Len(wait_queue) : RemoveAt(wait_queue, x)[i] = wait_queue[j]
        /\ \A i \in 1..Len(wait_queue) :
              i # x => \E j \in 1..Len(RemoveAt(wait_queue, x)) :
                          RemoveAt(wait_queue, x)[j] = wait_queue[i]
    BY <2>2, QueueRemove DEF QueueOK
  <2> QED
    BY <2>2, <2>3, <2>4
<1>2. CASE ~\E i \in 1..Len(wait_queue) : wait_queue[i] = r
  <2>1. leave_queue(r) = wait_queue
    BY <1>2 DEF leave_queue
  <2> QED
    BY <1>2, <2>1 DEF QueueOK
<1> QED
  BY <1>1, <1>2

(* The wait queue holds exactly the sleeping readers. *)
LEMMA QueueStep ==
    ASSUME ReaderOK, QueueOK, Frame
    PROVE  QueueOK'
<1>1. CASE UNCHANGED <<wait_queue, reader>>
  BY <1>1 DEF QueueOK
<1>2. CASE dev_stdin_write
  <2>1. wait_queue' = <<>>
    <3>1. wait_queue' = SubSeq(wait_queue, Len(wait_queue) + 1, Len(wait_queue))
      BY <1>2 DEF dev_stdin_write, wake_count
    <3> QED
      BY <3>1 DEF QueueOK
  <2> QED
    BY <2>1 DEF QueueOK
<1>3. ASSUME NEW r \in Readers, read_wait(r)
      PROVE  QueueOK'
  <2>1. /\ wait_queue' = Append(wait_queue, r)
        /\ reader' = [reader EXCEPT ![r] = "waiting"]
        /\ reader[r] = "reading"
    BY <1>3 DEF read_wait, ReaderOK
  <2>2. PICK n \in Nat : n = Len(wait_queue)
    BY DEF QueueOK
  <2>3. /\ \A i \in 1..n : wait_queue[i] # r /\ wait_queue[i] \in Readers
        /\ \A i, j \in 1..n : wait_queue[i] = wait_queue[j] => i = j
        /\ \A i \in 1..n : reader[wait_queue[i]] = "waiting"
    BY <2>1, <2>2 DEF QueueOK
  <2>4. PICK t : t = wait_queue'
    OBVIOUS
  <2>5. /\ t \in Seq(Readers) /\ Len(t) = n + 1 /\ t[n + 1] = r
        /\ \A i \in 1..n : t[i] = wait_queue[i]
    BY <2>1, <2>2, <2>4 DEF QueueOK
  <2>6. \A i, j \in 1..Len(t) : t[i] = t[j] => i = j
    BY <2>3, <2>5
  <2>7. ASSUME NEW i \in 1..(n + 1)
        PROVE  reader'[t[i]] = "waiting"
    <3>1. CASE i = n + 1
      BY <2>1, <2>5, <3>1 DEF ReaderOK
    <3>2. CASE i # n + 1
      <4>1. i \in 1..n
        BY <3>2
      <4> QED
        BY <2>1, <2>3, <2>5, <4>1 DEF ReaderOK
    <3> QED
      BY <3>1, <3>2
  <2> QED
    BY <2>4, <2>5, <2>6, <2>7 DEF QueueOK
<1>4. ASSUME NEW r \in Readers, read_resume(r)
      PROVE  QueueOK'
  <2>1. PICK t : t = leave_queue(r)
    OBVIOUS
  <2>2. /\ t \in Seq(Readers)
        /\ \A i, j \in 1..Len(t) : t[i] = t[j] => i = j
        /\ \A i \in 1..Len(t) : t[i] # r /\ \E j \in 1..Len(wait_queue) : t[i] = wait_queue[j]
    BY <2>1, LeaveQueue
  <2>3. \A x \in Readers \ {r} : reader'[x] = reader[x]
    BY <1>4 DEF read_resume, Leave, ReaderOK
  <2>4. \A i \in 1..Len(t) : t[i] \in Readers \ {r} /\ reader[t[i]] = "waiting"
    BY <2>2 DEF QueueOK
  <2>5. wait_queue' = t
    BY <1>4, <2>1 DEF read_resume
  <2> QED
    BY <2>2, <2>3, <2>4, <2>5 DEF QueueOK
<1>5. ASSUME NEW r \in Readers, UNCHANGED wait_queue, reader[r] # "waiting",
             \A x \in Readers \ {r} : reader'[x] = reader[x]
      PROVE  QueueOK'
  <2>1. \A i \in 1..Len(wait_queue) : wait_queue[i] \in Readers \ {r}
    BY <1>5 DEF QueueOK
  <2> QED
    BY <1>5, <2>1 DEF QueueOK
<1>6. ASSUME NEW r \in Readers, read_return(r)
      PROVE  QueueOK'
  <2>1. /\ UNCHANGED wait_queue /\ reader[r] # "waiting"
        /\ \A x \in Readers \ {r} : reader'[x] = reader[x]
    BY <1>6 DEF read_return, Leave, ReaderOK
  <2> QED
    BY <1>5, <2>1
<1>7. ASSUME NEW r \in Readers, NEW len \in 1..ReadLen, dev_stdin_read(r, len)
      PROVE  QueueOK'
  <2>1. /\ UNCHANGED wait_queue /\ reader[r] # "waiting"
        /\ \A x \in Readers \ {r} : reader'[x] = reader[x]
    BY <1>7 DEF dev_stdin_read, ReaderOK
  <2> QED
    BY <1>5, <2>1
<1>8. ASSUME NEW r \in Readers, read_char(r) \/ do_kill(r)
      PROVE  UNCHANGED <<wait_queue, reader>>
  BY <1>8 DEF read_char, do_kill
<1> QED
  BY <1>1, <1>2, <1>3, <1>4, <1>6, <1>7, <1>8 DEF Frame, ReadStep

(* A reader that falls asleep joins the queue, one that leaves the queue   *)
(* is woken, and the positions differ only when all are woken.             *)
LEMMA SleepStep ==
    ASSUME StdinOK, ReaderOK, QueueOK, SleepOK, Frame
    PROVE  SleepOK'
<1>1. ASSUME UNCHANGED <<wait_queue, reader, woken>>, UNCHANGED stdin_vars
      PROVE  SleepOK'
  BY <1>1 DEF SleepOK, stdin_vars
<1>2. CASE dev_stdin_write
  <2>1. ASSUME NEW r \in Readers, reader'[r] = "waiting", ~woken'[r]
        PROVE  FALSE
    <3>1. reader[r] = "waiting" /\ ~woken[r] /\ ~wakes(r)
      BY <1>2, <2>1 DEF dev_stdin_write
    <3>2. \E i \in 1..Len(wait_queue) : wait_queue[i] = r
      BY <3>1 DEF SleepOK
    <3> QED
      BY <3>1, <3>2 DEF wakes, wake_count
  <2> QED
    BY <2>1 DEF SleepOK
<1>3. ASSUME NEW r \in Readers, read_char(r)
      PROVE  SleepOK'
  <2>1. p_rpos # p_wpos /\ UNCHANGED <<reader, woken>>
    <3>1. p_rpos < p_wpos /\ UNCHANGED <<reader, woken>>
      BY <1>3 DEF read_char
    <3> QED
      BY <3>1 DEF StdinOK
  <2> QED
    BY <2>1 DEF SleepOK
<1>4. ASSUME NEW r \in Readers, read_wait(r)
      PROVE  SleepOK'
  <2>1. /\ wait_queue' = Append(wait_queue, r) /\ p_rpos = p_wpos
        /\ UNCHANGED <<p_rpos, p_wpos>>
        /\ \A x \in Readers \ {r} : reader'[x] = reader[x] /\ woken'[x] = woken[x]
    BY <1>4 DEF read_wait, stdin_vars, ReaderOK
  <2>2. PICK n \in Nat : n = Len(wait_queue)
    BY DEF QueueOK
  <2>3. PICK t : t = wait_queue'
    OBVIOUS
  <2>4. Len(t) = n + 1 /\ t[n + 1] = r /\ \A i \in 1..n : t[i] = wait_queue[i]
    BY <2>1, <2>2, <2>3 DEF QueueOK
  <2>5. ASSUME NEW x \in Readers, reader'[x] = "waiting", ~woken'[x]
        PROVE  \E i \in 1..Len(t) : t[i] = x
    <3>1. CASE x = r
      BY <2>4, <3>1
    <3>2. CASE x # r
      <4>1. PICK i \in 1..n : wait_queue[i] = x
        BY <2>1, <2>2, <2>5, <3>2 DEF SleepOK
      <4>2. i \in 1..(n + 1)
        OBVIOUS
      <4> QED
        BY <2>4, <4>1, <4>2
    <3> QED
      BY <3>1, <3>2
  <2> QED
    BY <2>1, <2>3, <2>5 DEF SleepOK
<1>5. ASSUME NEW r \in Readers, read_resume(r)
      PROVE  SleepOK'
  <2>1. PICK t : t = leave_queue(r)
    OBVIOUS
  <2>2. \A i \in 1..Len(wait_queue) :
           wait_queue[i] # r => \E j \in 1..Len(t) : t[j] = wait_queue[i]
    <3>1. \A i \in 1..Len(wait_queue) :
             wait_queue[i] # r =>
                \E j \in 1..Len(leave_queue(r)) : leave_queue(r)[j] = wait_queue[i]
      BY LeaveQueue, Zenon
    <3> QED
      BY <2>1, <3>1, Zenon
  <2>3. /\ \A x \in Readers \ {r} : reader'[x] = reader[x]
        /\ UNCHANGED <<p_rpos, p_wpos, woken>> /\ woken[r]
    BY <1>5 DEF read_resume, Leave, ReaderOK, stdin_vars
  <2>4. wait_queue' = t
    BY <1>5, <2>1 DEF read_resume
  <2>5. ASSUME NEW x \in Readers, reader'[x] = "waiting", ~woken'[x]
        PROVE  (\E i \in 1..Len(t) : t[i] = x) /\ p_rpos = p_wpos
    <3>1. x # r /\ reader[x] = "waiting" /\ ~woken[x]
      BY <2>3, <2>5
    <3>2. (\E i \in 1..Len(wait_queue) : wait_queue[i] = x) /\ p_rpos = p_wpos
      BY <3>1 DEF SleepOK
    <3> QED
      BY <2>2, <3>1, <3>2
  <2> QED
    BY <2>3, <2>4, <2>5 DEF SleepOK
<1>6. ASSUME NEW r \in Readers, read_return(r)
      PROVE  SleepOK'
  <2>1. /\ \A x \in Readers : reader'[x] = "waiting" => reader[x] = "waiting"
        /\ UNCHANGED <<wait_queue, woken, p_rpos, p_wpos>>
    BY <1>6 DEF read_return, Leave, ReaderOK, stdin_vars
  <2> QED
    BY <2>1 DEF SleepOK
<1>7. ASSUME NEW r \in Readers, NEW len \in 1..ReadLen, dev_stdin_read(r, len)
      PROVE  SleepOK'
  <2>1. /\ \A x \in Readers : reader'[x] = "waiting" => reader[x] = "waiting"
        /\ UNCHANGED <<wait_queue, woken, p_rpos, p_wpos>>
    BY <1>7 DEF dev_stdin_read, ReaderOK, stdin_vars
  <2> QED
    BY <2>1 DEF SleepOK
<1>8. ASSUME NEW r \in Readers, do_kill(r)
      PROVE  SleepOK'
  <2>1. /\ \A x \in Readers : ~woken'[x] => ~woken[x]
        /\ UNCHANGED <<wait_queue, reader, p_rpos, p_wpos>>
    BY <1>8 DEF do_kill, ReaderOK, stdin_vars
  <2> QED
    BY <2>1 DEF SleepOK
<1>9. CASE UNCHANGED <<wait_queue, reader, woken>>
  <2>1. CASE UNCHANGED stdin_vars
    BY <1>1, <1>9, <2>1
  <2>2. CASE Reads
    BY <1>3, <2>2 DEF Reads
  <2> QED
    BY <1>2, <2>1, <2>2 DEF Frame
<1> QED
  BY <1>2, <1>3, <1>4, <1>5, <1>6, <1>7, <1>8, <1>9 DEF Frame, ReadStep

-----------------------------------------------------------------------------

(* The invariant gives the types and SleeperMissesNothing. *)
LEMMA SerialTypes == SerialInv => TypeOK /\ SleeperMissesNothing
<1> SUFFICES ASSUME SerialInv
             PROVE  TypeOK /\ SleeperMissesNothing
  OBVIOUS
<1>1. DOMAIN wait_queue = 1..Len(wait_queue)
  BY DEF SerialInv, QueueOK
<1>2. IsInjective(wait_queue)
  BY <1>1 DEF SerialInv, QueueOK, IsInjective
<1>3. ToSet(wait_queue) \subseteq {r \in Readers : reader[r] = "waiting"}
  BY <1>1 DEF SerialInv, QueueOK, ToSet
<1>4. SleeperMissesNothing
  BY <1>1 DEF SerialInv, SleepOK, SleeperMissesNothing, ToSet
<1>5. TypeOK
  BY <1>2, <1>3 DEF TypeOK, SerialInv, ComOK, CpuOK, ConsRec, StdinOK, ReaderOK
<1> QED
  BY <1>4, <1>5

(* The initial state has the invariant. *)
LEMMA SerialInit == Init => SerialInv
<1> SUFFICES ASSUME Init
             PROVE  SerialInv
  OBVIOUS
<1>0. NUL \in Char /\ <<>> \in Typing
  BY CatEmpty DEF NUL, Char
<1>1. ComOK
  BY <1>0, Sizes DEF Init, ComOK
<1>2. CpuOK
  BY DEF Init, CpuOK
<1>3. cons \in ConsRec
  BY <1>0, Sizes DEF Init, ConsRec
<1>4. StdinOK
  BY <1>0, Sizes DEF Init, StdinOK
<1>5. ReaderOK
  BY SizeAssumption, ReadersAssumption DEF Init, ReaderOK
<1>6. QueueOK
  BY DEF Init, QueueOK
<1>7. SleepOK
  BY DEF Init, SleepOK
<1> QED
  BY <1>1, <1>2, <1>3, <1>4, <1>5, <1>6, <1>7 DEF SerialInv

(* Every step keeps the invariant. *)
LEMMA SerialStep == SerialInv /\ [Next]_vars => SerialInv'
<1> SUFFICES ASSUME SerialInv, [Next]_vars
             PROVE  SerialInv'
  OBVIOUS
<1>1. Frame
  BY Frames
<1>2. ComOK' /\ CpuOK' /\ cons' \in ConsRec /\ StdinOK'
  BY <1>1, ComStep, CpuStep, ConsStep, StdinStep DEF SerialInv
<1>3. ReaderOK' /\ QueueOK' /\ SleepOK'
  BY <1>1, ReaderStep, QueueStep, SleepStep DEF SerialInv
<1>4. (cons \in ConsRec)' <=> cons' \in ConsRec
  BY DEF ConsRec
<1> QED
  BY <1>2, <1>3, <1>4 DEF SerialInv

(* In every state the rings, their indices, the processor, the reader and  *)
(* its wait queue fit together: whatever the sizes of the rings and        *)
(* whenever interrupts come in dev_stdin_read, dev_stdin_write and         *)
(* cons_intr.                                                              *)
THEOREM SerialInvariance == Spec => []SerialInv
BY SerialInit, SerialStep, PTL DEF Spec

(* Positions stay inside their rings, stdin holds at most its size, and    *)
(* only waiting readers are in its queue, each once, for all ring sizes.   *)
THEOREM SerialTypeOK == Spec => []TypeOK
BY SerialInvariance, SerialTypes, PTL

(* dev_stdin_read and dev_stdin_write lose no wake-up: whoever sleeps is   *)
(* in the queue that the next write wakes, and nothing waits in the ring.  *)
THEOREM SerialNoLostWakeup == Spec => []SleeperMissesNothing
BY SerialInvariance, SerialTypes, PTL

-----------------------------------------------------------------------------
(* A ring buffer *)

Slots(n) == [0..(n - 1) -> Char]

(* The k characters from position r on of a ring of n slots. *)
RingSeq(buf, n, r, k) == [i \in 1..k |-> buf[(r + i - 1) % n]]

(* c is written to slot w. *)
Put(new, buf, n, w, c) ==
    new[w] = c /\ \A j \in 0..(n - 1) : j # w => new[j] = buf[j]

(* The content of a ring is a sequence of characters of its length, *)
LEMMA RingIsSeq ==
    ASSUME NEW n \in Nat \ {0}, NEW buf \in Slots(n), NEW r \in Nat, NEW k \in Nat
    PROVE  RingSeq(buf, n, r, k) \in Typing /\ Len(RingSeq(buf, n, r, k)) = k
<1>1. \A i \in 1..k : (r + i - 1) % n \in 0..(n - 1)
  <2> SUFFICES ASSUME NEW i \in 1..k
               PROVE  (r + i - 1) % n \in 0..(n - 1)
    OBVIOUS
  <2>1. r + i - 1 \in Int
    OBVIOUS
  <2> QED
    BY <2>1, DivMod
<1>2. RingSeq(buf, n, r, k) \in [1..k -> Char]
  BY <1>1 DEF RingSeq, Slots
<1> QED
  BY <1>2 DEF Typing

(* A write to the slot behind the characters, which the reader then counts. *)
LEMMA RingPut ==
    ASSUME NEW n \in Nat \ {0}, NEW buf \in Slots(n), NEW r \in Nat, NEW k \in 0..(n - 1),
           NEW c \in Char, NEW new \in Slots(n), Put(new, buf, n, (r + k) % n, c)
    PROVE  /\ RingSeq(new, n, r, k) = RingSeq(buf, n, r, k)
           /\ RingSeq(new, n, r, k + 1) = Append(RingSeq(buf, n, r, k), c)
<1>1. /\ new[(r + k) % n] = c
      /\ \A j \in 0..(n - 1) : j # (r + k) % n => new[j] = buf[j]
  BY DEF Put
<1>2. \A i \in 1..k : new[(r + i - 1) % n] = buf[(r + i - 1) % n]
  <2> SUFFICES ASSUME NEW i \in 1..k
               PROVE  new[(r + i - 1) % n] = buf[(r + i - 1) % n]
    OBVIOUS
  <2>1. /\ r + i - 1 \in Int /\ r + k \in Int
        /\ r + i - 1 < r + k /\ r + k < (r + i - 1) + n
    OBVIOUS
  <2>2. (r + i - 1) % n # (r + k) % n /\ (r + i - 1) % n \in 0..(n - 1)
    BY <2>1, ModNear, DivMod
  <2> QED
    BY <1>1, <2>2
<1>3. RingSeq(new, n, r, k) = RingSeq(buf, n, r, k)
  BY <1>2 DEF RingSeq
<1>4. k \in Nat /\ k + 1 \in Nat /\ r + (k + 1) - 1 = r + k
  OBVIOUS
<1> DEFINE old == RingSeq(buf, n, r, k)
           longer == RingSeq(new, n, r, k + 1)
<1>5. /\ old \in Seq(Char) /\ Len(old) = k
      /\ longer \in Seq(Char) /\ Len(longer) = k + 1
      /\ \A i \in 1..k : old[i] = buf[(r + i - 1) % n]
      /\ \A i \in 1..(k + 1) : longer[i] = new[(r + i - 1) % n]
  <2>1. /\ old \in Seq(Char) /\ Len(old) = k
        /\ longer \in Seq(Char) /\ Len(longer) = k + 1
    BY <1>4, RingIsSeq DEF Typing
  <2>2. /\ \A i \in 1..k : old[i] = buf[(r + i - 1) % n]
        /\ \A i \in 1..(k + 1) : longer[i] = new[(r + i - 1) % n]
    BY DEF RingSeq
  <2> QED
    BY <2>1, <2>2
<1> HIDE DEF old, longer
<1>6. longer[k + 1] = c
  <2>1. k + 1 \in 1..(k + 1)
    BY <1>4
  <2> QED
    BY <1>1, <1>4, <1>5, <2>1
<1>7. ASSUME NEW i \in 1..k
      PROVE  longer[i] = old[i]
  <2>1. i \in 1..(k + 1)
    BY <1>4
  <2>2. longer[i] = new[(r + i - 1) % n]
    BY <1>5, <2>1
  <2> QED
    BY <1>2, <1>5, <2>2
<1>8. longer = Append(old, c)
  BY <1>4, <1>5, <1>6, <1>7
<1> QED
  BY <1>3, <1>8 DEF old, longer

(* The first character leaves the ring. *)
LEMMA RingTake ==
    ASSUME NEW n \in Nat \ {0}, NEW buf \in Slots(n), NEW r \in Nat, NEW k \in Nat \ {0}
    PROVE  RingSeq(buf, n, r, k) = Cat(<<buf[r % n]>>, RingSeq(buf, n, r + 1, k - 1))
<1>1. buf[r % n] \in Char
  <2>1. r \in Int
    OBVIOUS
  <2>2. r % n \in 0..(n - 1)
    BY <2>1, DivMod
  <2> QED
    BY <2>2 DEF Slots
<1>2. k - 1 \in Nat /\ r + 1 \in Nat /\ r + 1 - 1 = r
  OBVIOUS
<1> DEFINE s == RingSeq(buf, n, r, k)
           t == RingSeq(buf, n, r + 1, k - 1)
<1>3. /\ s \in Seq(Char) /\ Len(s) = k
      /\ t \in Seq(Char) /\ Len(t) = k - 1
      /\ \A i \in 1..k : s[i] = buf[(r + i - 1) % n]
      /\ \A i \in 1..(k - 1) : t[i] = buf[(r + 1 + i - 1) % n]
  <2>1. /\ s \in Seq(Char) /\ Len(s) = k
        /\ t \in Seq(Char) /\ Len(t) = k - 1
    BY <1>2, RingIsSeq DEF Typing
  <2>2. /\ \A i \in 1..k : s[i] = buf[(r + i - 1) % n]
        /\ \A i \in 1..(k - 1) : t[i] = buf[(r + 1 + i - 1) % n]
    BY DEF RingSeq
  <2> QED
    BY <2>1, <2>2
<1> HIDE DEF s, t
<1>4. s[1] = buf[r % n]
  BY <1>2, <1>3
<1>5. \A i \in 2..k : s[i] = t[i - 1]
  <2> SUFFICES ASSUME NEW i \in 2..k
               PROVE  s[i] = t[i - 1]
    OBVIOUS
  <2>1. i - 1 \in 1..(k - 1) /\ r + 1 + (i - 1) - 1 = r + i - 1 /\ i \in 1..k
    OBVIOUS
  <2> QED
    BY <1>3, <2>1
<1>6. s = <<buf[r % n]>> \o t
  BY <1>1, <1>3, <1>4, <1>5
<1> QED
  BY <1>6, Zenon DEF s, t, Cat

(* Positions count modulo n. *)
LEMMA RingShift ==
    ASSUME NEW n \in Nat \ {0}, NEW buf, NEW r \in Nat, NEW k \in Nat
    PROVE  RingSeq(buf, n, r % n, k) = RingSeq(buf, n, r, k)
<1>1. \A i \in 1..k : ((r % n) + i - 1) % n = (r + i - 1) % n
  <2> SUFFICES ASSUME NEW i \in 1..k
               PROVE  ((r % n) + i - 1) % n = (r + i - 1) % n
    OBVIOUS
  <2>1. r % n \in 0..(n - 1)
    BY DivMod
  <2>2. PICK j \in Int : j = i - 1
    OBVIOUS
  <2>3. (r % n) + i - 1 = (r % n) + j /\ r + i - 1 = r + j
    BY <2>1, <2>2
  <2>4. ((r % n) + j) % n = (r + j) % n
    <3>1. r \in Int
      OBVIOUS
    <3> QED
      BY <3>1, ModAdd, Zenon
  <2> QED
    BY <2>3, <2>4
<1> QED
  BY <1>1 DEF RingSeq

-----------------------------------------------------------------------------
(* The order of the characters *)

(* A ring with a write and a read position below its size. *)
Held(buf, n, r, w) == RingSeq(buf, n, r, (w - r) % n)

(* also where it is known from two indices. *)
LEMMA HeldSeq ==
    ASSUME NEW n \in Nat \ {0}, NEW buf \in Slots(n),
           NEW r \in 0..(n - 1), NEW w \in 0..(n - 1)
    PROVE  Held(buf, n, r, w) \in Typing
<1>1. PICK k \in Nat : k = (w - r) % n
  OBVIOUS
<1>2. r \in Nat
  OBVIOUS
<1>3. RingSeq(buf, n, r, k) \in Typing
  BY <1>2, RingIsSeq
<1> QED
  BY <1>1, <1>3 DEF Held

(* A write to the slot of the write position, and the position moved on. *)
LEMMA HeldPut ==
    ASSUME NEW n \in Nat \ {0}, NEW buf \in Slots(n),
           NEW r \in 0..(n - 1), NEW w \in 0..(n - 1), NEW c \in Char,
           NEW new \in Slots(n), Put(new, buf, n, w, c)
    PROVE  /\ Held(new, n, r, w) = Held(buf, n, r, w)
           /\ (w + 1) % n # r => Held(new, n, r, (w + 1) % n) = Append(Held(buf, n, r, w), c)
<1>0. PICK k : k = (w - r) % n
  OBVIOUS
<1>1. /\ k \in 0..(n - 1) /\ w = (r + k) % n
      /\ (w + 1) % n # r => (((w + 1) % n) - r) % n = k + 1
  BY <1>0
<1>2. r \in Nat /\ Put(new, buf, n, (r + k) % n, c)
  BY <1>1
<1>3. /\ RingSeq(new, n, r, k) = RingSeq(buf, n, r, k)
      /\ RingSeq(new, n, r, k + 1) = Append(RingSeq(buf, n, r, k), c)
  BY <1>1, <1>2, RingPut
<1>4. Held(new, n, r, w) = RingSeq(new, n, r, k) /\ Held(buf, n, r, w) = RingSeq(buf, n, r, k)
  BY <1>0 DEF Held
<1>5. (w + 1) % n # r => Held(new, n, r, (w + 1) % n) = RingSeq(new, n, r, k + 1)
  BY <1>1 DEF Held
<1> QED
  BY <1>3, <1>4, <1>5, Zenon

(* The read position moved on. *)
LEMMA HeldTake ==
    ASSUME NEW n \in Nat \ {0}, NEW buf \in Slots(n),
           NEW r \in 0..(n - 1), NEW w \in 0..(n - 1), w # r
    PROVE  Held(buf, n, r, w) = Cat(<<buf[r]>>, Held(buf, n, (r + 1) % n, w))
<1>1. PICK k \in Nat \ {0} : k = (w - r) % n /\ (w - ((r + 1) % n)) % n = k - 1
  OBVIOUS
<1>3. k - 1 \in Nat /\ r \in Nat /\ r + 1 \in Nat /\ r % n = r
  OBVIOUS
<1>4. RingSeq(buf, n, r, k) = Cat(<<buf[r % n]>>, RingSeq(buf, n, r + 1, k - 1))
  BY <1>3, RingTake, Zenon
<1>5. RingSeq(buf, n, (r + 1) % n, k - 1) = RingSeq(buf, n, r + 1, k - 1)
  BY <1>3, RingShift, ZenonT(60)
<1>7. Held(buf, n, (r + 1) % n, w) = RingSeq(buf, n, (r + 1) % n, k - 1)
  BY <1>1 DEF Held
<1>8. Held(buf, n, r, w) = RingSeq(buf, n, r, k)
  BY <1>1 DEF Held
<1> QED
  BY <1>3, <1>4, <1>5, <1>7, <1>8, Zenon

(* The content of the three rings. *)
LEMMA RingsAreHeld ==
    /\ InCom = Held(comBuffer, COM_SIZE, tailer, header)
    /\ InCons = Held(cons.buf, CONSBUFSIZE, cons.rpos, cons.wpos)
    /\ InStdin = RingSeq(stdin_buffer, STDIN_BUFSIZE, p_rpos, p_wpos - p_rpos)
BY DEF InCom, InCons, InStdin, Held, RingSeq

(* They are sequences of characters, *)
LEMMA RingsTyping ==
    ASSUME SerialInv
    PROVE  InCom \in Typing /\ InCons \in Typing /\ InStdin \in Typing
<1>1. InCom \in Typing
  BY Sizes, HeldSeq, RingsAreHeld DEF SerialInv, ComOK, Slots
<1>2. InCons \in Typing
  <2>1. /\ cons.buf \in [0..(CONSBUFSIZE - 1) -> Char]
        /\ cons.rpos \in 0..(CONSBUFSIZE - 1) /\ cons.wpos \in 0..(CONSBUFSIZE - 1)
    BY DEF SerialInv, ConsRec
  <2> QED
    BY <2>1, Sizes, HeldSeq, RingsAreHeld DEF Slots
<1>3. InStdin \in Typing
  <2>1. p_wpos - p_rpos \in Nat /\ p_rpos \in Nat
    BY Sizes DEF SerialInv, StdinOK
  <2> QED
    BY <2>1, Sizes, RingIsSeq, RingsAreHeld DEF SerialInv, StdinOK, Slots
<1> QED
  BY <1>1, <1>2, <1>3

(* in the next state too. *)
LEMMA RingsTypingNext ==
    SerialInv' => (InCom \in Typing /\ InCons \in Typing /\ InStdin \in Typing)'
<1>1. SerialInv => InCom \in Typing /\ InCons \in Typing /\ InStdin \in Typing
  BY RingsTyping
<1> QED
  BY <1>1, PTL

(* InOrder in terms of Cat. *)
Ordered(g, s, c, i, a) == Cat(Cat(Cat(g, s), c), i) = a

(* InOrder in terms of Ordered. *)
LEMMA OrderedDef == InOrder <=> (~lost => Ordered(got, InStdin, InCons, AsInput(InCom), AsInput(accepted)))
BY DEF InOrder, Ordered, Cat

(* A character may be moved from the front of one part to the end of the   *)
(* part before it, or be added at the end.                                 *)
LEMMA OrderedMove ==
    ASSUME NEW g \in Typing, NEW s \in Typing, NEW c \in Typing, NEW i \in Typing, NEW a \in Typing,
           NEW x \in Typing
    PROVE  /\ Ordered(g, Cat(x, s), c, i, a) => Ordered(Cat(g, x), s, c, i, a)
           /\ Ordered(g, s, Cat(x, c), i, a) => Ordered(g, Cat(s, x), c, i, a)
           /\ Ordered(g, s, c, Cat(x, i), a) => Ordered(g, s, Cat(c, x), i, a)
           /\ Ordered(g, s, c, i, a) => Ordered(g, s, c, Cat(i, x), Cat(a, x))
<1>1. Cat(Cat(g, x), s) = Cat(g, Cat(x, s))
  BY CatAssoc
<1>2. Cat(Cat(g, s), Cat(x, c)) = Cat(Cat(g, Cat(s, x)), c)
  <2>1. Cat(g, s) \in Typing
    BY CatTyping
  <2>2. Cat(Cat(g, s), Cat(x, c)) = Cat(Cat(Cat(g, s), x), c)
    BY <2>1, CatAssoc
  <2>3. Cat(Cat(g, s), x) = Cat(g, Cat(s, x))
    BY CatAssoc
  <2> QED
    BY <2>2, <2>3
<1>3. Cat(Cat(Cat(g, s), c), Cat(x, i)) = Cat(Cat(Cat(g, s), Cat(c, x)), i)
  <2>1. Cat(g, s) \in Typing /\ Cat(Cat(g, s), c) \in Typing
    BY CatTyping
  <2>2. Cat(Cat(Cat(g, s), c), Cat(x, i)) = Cat(Cat(Cat(Cat(g, s), c), x), i)
    BY <2>1, CatAssoc
  <2>3. Cat(Cat(Cat(g, s), c), x) = Cat(Cat(g, s), Cat(c, x))
    BY <2>1, CatAssoc
  <2> QED
    BY <2>2, <2>3
<1>4. Cat(Cat(Cat(g, s), c), Cat(i, x)) = Cat(Cat(Cat(Cat(g, s), c), i), x)
  <2>1. Cat(g, s) \in Typing /\ Cat(Cat(g, s), c) \in Typing
    BY CatTyping
  <2> QED
    BY <2>1, CatAssoc
<1> QED
  BY <1>1, <1>2, <1>3, <1>4 DEF Ordered

(* The content of the three rings in the next state. *)
LEMMA RingsAreHeldNext ==
    /\ InCom' = Held(comBuffer', COM_SIZE, tailer', header')
    /\ InCons' = Held(cons'.buf, CONSBUFSIZE, cons'.rpos, cons'.wpos)
    /\ InStdin' = RingSeq(stdin_buffer', STDIN_BUFSIZE, p_rpos', p_wpos' - p_rpos')
BY DEF InCom, InCons, InStdin, Held, RingSeq

(* The slot that the receiver fills is free, and header moves only when    *)
(* the buffer does not look empty afterwards.                              *)
LEMMA NotFull ==
    ASSUME ComOK, ~nearly_full
    PROVE  (header + 1) % COM_SIZE # tailer
<1>1. PICK n \in Nat \ {0} : n = COM_SIZE
  BY Sizes
<1>2. header \in 0..(n - 1) /\ tailer \in 0..(n - 1) /\ header # (tailer - 1) % n
  BY <1>1 DEF ComOK, nearly_full
<1>3. (header + 1) % n # tailer
  BY <1>2
<1> QED
  BY <1>1, <1>3

(* While a character arrives, nothing moves. *)
LEMMA OrderReceive ==
    ASSUME SerialInv, Receives
    PROVE  InCom' = InCom /\ UNCHANGED <<accepted, cons, stdin_vars, got, lost>>
<1>1. PICK c \in Char : receive(c)
  BY LineChars DEF Receives, SerialInv, ComOK
<1>2. /\ comBuffer \in Slots(COM_SIZE) /\ comBuffer' \in Slots(COM_SIZE)
      /\ Put(comBuffer', comBuffer, COM_SIZE, header, c)
  BY <1>1, Sizes DEF receive, SerialInv, ComOK, Slots, Put
<1>3. Held(comBuffer', COM_SIZE, tailer, header) = Held(comBuffer, COM_SIZE, tailer, header)
  BY <1>2, Sizes, HeldPut DEF SerialInv, ComOK
<1>4. UNCHANGED <<header, tailer>>
  BY <1>1 DEF receive
<1> QED
  BY <1>1, <1>3, <1>4, RingsAreHeld, RingsAreHeldNext DEF receive, reader_vars

(* A character that has arrived is the last of the receive buffer, or is   *)
(* refused.                                                                *)
LEMMA OrderReceived ==
    ASSUME SerialInv, receive_done
    PROVE  /\ UNCHANGED <<cons, stdin_vars, got, lost>>
           /\ \/ InCom' = InCom /\ accepted' = accepted
              \/ \E c \in Char : InCom' = Append(InCom, c) /\ accepted' = Append(accepted, c)
<1>0. UNCHANGED <<cons, stdin_vars, got, lost>>
  BY DEF receive_done, reader_vars
<1>1. CASE nearly_full
  <2>1. UNCHANGED <<comBuffer, header, tailer, accepted>>
    BY <1>1 DEF receive_done
  <2> QED
    BY <1>0, <2>1 DEF InCom
<1>2. CASE ~nearly_full
  <2>1. PICK c \in Char : c = comBuffer[header]
    BY DEF SerialInv, ComOK
  <2>2. comBuffer \in Slots(COM_SIZE) /\ Put(comBuffer, comBuffer, COM_SIZE, header, c)
    BY <2>1 DEF SerialInv, ComOK, Slots, Put
  <2>3. (header + 1) % COM_SIZE # tailer
    BY <1>2, NotFull DEF SerialInv
  <2>4. Held(comBuffer, COM_SIZE, tailer, (header + 1) % COM_SIZE)
           = Append(Held(comBuffer, COM_SIZE, tailer, header), c)
    BY <2>2, <2>3, Sizes, HeldPut DEF SerialInv, ComOK
  <2>5. /\ UNCHANGED <<comBuffer, tailer>> /\ header' = (header + 1) % COM_SIZE
        /\ accepted' = Append(accepted, c)
    BY <1>2, <2>1 DEF receive_done
  <2>6. InCom' = Append(InCom, c)
    BY <2>4, <2>5, RingsAreHeld, RingsAreHeldNext
  <2> QED
    BY <1>0, <2>5, <2>6
<1> QED
  BY <1>1, <1>2

(* The fields of the console. *)
LEMMA ConsFields ==
    ASSUME SerialInv
    PROVE  /\ cons.buf \in Slots(CONSBUFSIZE)
           /\ cons.rpos \in 0..(CONSBUFSIZE - 1) /\ cons.wpos \in 0..(CONSBUFSIZE - 1)
BY DEF SerialInv, ConsRec, Slots

(* cons_intr moves the first character of the receive buffer to the end of *)
(* the console ring, as input.                                             *)
LEMMA OrderConsole ==
    ASSUME SerialInv, cons_intr
    PROVE  /\ UNCHANGED <<accepted, stdin_vars, got>>
           /\ \E d \in Char :
                 /\ InCom = Cat(<<d>>, InCom')
                 /\ \/ InCons' = InCons /\ lost' = lost /\ Typed(d) = <<>>
                    \/ InCons' = Cat(InCons, Typed(d)) /\ (lost => lost')
                    \/ lost'
<1>1. PICK d \in Char : d = comBuffer[tailer]
  BY DEF SerialInv, ComOK
<1>2. InCom = Cat(<<d>>, InCom')
  <2>1. comBuffer \in Slots(COM_SIZE) /\ header # tailer
    BY DEF SerialInv, ComOK, Slots, cons_intr, com_Int
  <2>2. Held(comBuffer, COM_SIZE, tailer, header)
           = Cat(<<d>>, Held(comBuffer, COM_SIZE, (tailer + 1) % COM_SIZE, header))
    BY <1>1, <2>1, Sizes, HeldTake DEF SerialInv, ComOK
  <2>3. UNCHANGED <<comBuffer, header>> /\ tailer' = (tailer + 1) % COM_SIZE
    BY DEF cons_intr
  <2> QED
    BY <2>2, <2>3, RingsAreHeld, RingsAreHeldNext
<1>3. PICK c : c = serial_proc_data(d)
  OBVIOUS
<1>4. CASE c = NUL
  <2>1. d = NUL
    BY <1>3, <1>4 DEF serial_proc_data, NUL, BS, DEL
  <2>2. UNCHANGED <<cons, lost>>
    BY <1>1, <1>3, <1>4 DEF cons_intr
  <2>3. InCons' = InCons
    BY <2>2 DEF InCons
  <2>4. Typed(d) = <<>>
    BY <2>1 DEF Typed
  <2> QED
    BY <1>2, <2>2, <2>3, <2>4 DEF cons_intr, reader_vars
<1>5. CASE c # NUL
  <2>1. c \in Char /\ Typed(d) = <<c>>
    <3>1. BS \in Char
      BY DEF BS, Char
    <3>2. d # NUL /\ c \in Char
      BY <1>3, <1>5, <3>1 DEF serial_proc_data, DEL, NUL
    <3> QED
      BY <1>3, <3>2 DEF Typed, serial_proc_data
  <2>2. /\ cons' = [cons EXCEPT !.buf[cons.wpos] = c, !.wpos = (cons.wpos + 1) % CONSBUFSIZE]
        /\ lost' = (lost \/ (cons.wpos + 1) % CONSBUFSIZE = cons.rpos)
    BY <1>1, <1>3, <1>5 DEF cons_intr
  <2>3. CASE (cons.wpos + 1) % CONSBUFSIZE = cons.rpos
    BY <1>2, <2>2, <2>3 DEF cons_intr, reader_vars
  <2>4. CASE (cons.wpos + 1) % CONSBUFSIZE # cons.rpos
    <3>1. /\ cons'.buf = [cons.buf EXCEPT ![cons.wpos] = c]
          /\ cons'.wpos = (cons.wpos + 1) % CONSBUFSIZE
          /\ cons'.rpos = cons.rpos
      BY <2>2 DEF SerialInv, ConsRec
    <3>2. /\ cons'.buf \in Slots(CONSBUFSIZE)
          /\ Put(cons'.buf, cons.buf, CONSBUFSIZE, cons.wpos, c)
      BY <2>1, <3>1, ConsFields DEF Slots, Put
    <3>3. Held(cons'.buf, CONSBUFSIZE, cons.rpos, (cons.wpos + 1) % CONSBUFSIZE)
             = Append(Held(cons.buf, CONSBUFSIZE, cons.rpos, cons.wpos), c)
      <4>1. PICK b \in Slots(CONSBUFSIZE), r \in 0..(CONSBUFSIZE - 1), w \in 0..(CONSBUFSIZE - 1) :
               b = cons.buf /\ r = cons.rpos /\ w = cons.wpos
        BY ConsFields
      <4>2. PICK new \in Slots(CONSBUFSIZE) : new = cons'.buf
        BY <3>2
      <4>3. Put(new, b, CONSBUFSIZE, w, c) /\ (w + 1) % CONSBUFSIZE # r
        BY <2>4, <3>2, <4>1, <4>2
      <4>4. Held(new, CONSBUFSIZE, r, (w + 1) % CONSBUFSIZE) = Append(Held(b, CONSBUFSIZE, r, w), c)
        BY <2>1, <4>3, Sizes, HeldPut
      <4> QED
        BY <4>1, <4>2, <4>4
    <3>4. InCons' = Append(InCons, c)
      BY <3>1, <3>3, RingsAreHeld, RingsAreHeldNext
    <3>5. InCons' = Cat(InCons, Typed(d))
      BY <2>1, <3>4, RingsTyping, AppendTyping
    <3> QED
      BY <1>2, <2>2, <3>5 DEF cons_intr, reader_vars
  <2> QED
    BY <2>3, <2>4
<1> QED
  BY <1>4, <1>5

(* dev_stdin_write moves the first character of the console ring to the    *)
(* end of the stdin ring.                                                  *)
LEMMA OrderStdin ==
    ASSUME SerialInv, dev_stdin_write
    PROVE  /\ UNCHANGED <<com_vars, got>> /\ (lost => lost')
           /\ ~lost' => \E d \in Char :
                           InCons = Cat(<<d>>, InCons') /\ InStdin' = Cat(InStdin, <<d>>)
<1>1. UNCHANGED <<com_vars, got>> /\ (lost => lost')
  BY DEF dev_stdin_write
<1>2. ASSUME ~lost'
      PROVE  \E d \in Char : InCons = Cat(<<d>>, InCons') /\ InStdin' = Cat(InStdin, <<d>>)
  <2>1. PICK b \in Slots(CONSBUFSIZE), r \in 0..(CONSBUFSIZE - 1), w \in 0..(CONSBUFSIZE - 1) :
           b = cons.buf /\ r = cons.rpos /\ w = cons.wpos
    BY ConsFields
  <2>2. PICK d \in Char : d = b[r]
    BY Sizes DEF Slots
  <2>3. cons'.buf = b /\ cons'.rpos = (r + 1) % CONSBUFSIZE /\ cons'.wpos = w /\ w # r
    BY <2>1 DEF dev_stdin_write, SerialInv, ConsRec
  <2>4. InCons = Cat(<<d>>, InCons')
    <3>1. Held(b, CONSBUFSIZE, r, w) = Cat(<<d>>, Held(b, CONSBUFSIZE, (r + 1) % CONSBUFSIZE, w))
      BY <2>2, <2>3, Sizes, HeldTake
    <3> QED
      BY <2>1, <2>3, <3>1, RingsAreHeld, RingsAreHeldNext
  <2>5. PICK n \in Nat \ {0}, k \in 0..STDIN_BUFSIZE : n = STDIN_BUFSIZE /\ k = p_wpos - p_rpos
    BY Sizes DEF SerialInv, StdinOK
  <2>6. k \in 0..(n - 1) /\ p_wpos' = p_wpos + 1 /\ p_rpos' = p_rpos
    <3>1. write_pos # p_wpos /\ p_wpos' = write_pos /\ p_rpos' = p_rpos
      BY <1>2 DEF dev_stdin_write
    <3> QED
      BY <2>5, <3>1 DEF write_pos
  <2>7. p_rpos \in Nat /\ p_rpos + k = p_wpos /\ p_wpos' - p_rpos' = k + 1
    BY <2>5, <2>6 DEF SerialInv, StdinOK
  <2>8. PICK old \in Slots(n), new \in Slots(n) :
           /\ old = stdin_buffer /\ new = stdin_buffer'
           /\ Put(new, old, n, (p_rpos + k) % n, d)
    <3>1. (p_rpos + k) % n \in 0..(n - 1)
      <4>1. p_rpos + k \in Int
        BY <2>7
      <4> QED
        BY <4>1, DivMod
    <3>2. stdin_buffer \in Slots(n)
      BY <2>5 DEF SerialInv, StdinOK, Slots
    <3>3. stdin_buffer' = [stdin_buffer EXCEPT ![(p_rpos + k) % n] = d]
      BY <2>1, <2>2, <2>5, <2>7 DEF dev_stdin_write
    <3>4. /\ stdin_buffer' \in Slots(n)
          /\ Put(stdin_buffer', stdin_buffer, n, (p_rpos + k) % n, d)
      BY <3>1, <3>2, <3>3 DEF Slots, Put
    <3> QED
      BY <3>2, <3>4
  <2>9. RingSeq(new, n, p_rpos, k + 1) = Append(RingSeq(old, n, p_rpos, k), d)
    BY <2>6, <2>7, <2>8, RingPut
  <2>10. InStdin' = Append(InStdin, d)
    BY <2>5, <2>6, <2>7, <2>8, <2>9, RingsAreHeld, RingsAreHeldNext
  <2>11. InStdin' = Cat(InStdin, <<d>>)
    BY <2>10, RingsTyping, AppendTyping
  <2> QED
    BY <2>4, <2>11
<1> QED
  BY <1>1, <1>2

(* dev_stdin_read moves the first character of the stdin ring to the end   *)
(* of what was read.                                                       *)
LEMMA OrderRead ==
    ASSUME SerialInv, Reads
    PROVE  /\ UNCHANGED <<com_vars, cons, lost>>
           /\ \E d \in Char : InStdin = Cat(<<d>>, InStdin') /\ got' = Cat(got, <<d>>)
<1>1. PICK r \in Readers : read_char(r)
  BY DEF Reads
<1>2. PICK n \in Nat \ {0}, k \in Nat \ {0}, p \in Nat, b \in Slots(STDIN_BUFSIZE) :
         n = STDIN_BUFSIZE /\ k = p_wpos - p_rpos /\ p = p_rpos /\ b = stdin_buffer
  <2>1. p_wpos - p_rpos \in Nat \ {0} /\ p_rpos \in Nat /\ stdin_buffer \in Slots(STDIN_BUFSIZE)
    BY <1>1, Sizes DEF SerialInv, StdinOK, Slots, read_char
  <2> QED
    BY <2>1, Sizes
<1>0. b \in Slots(n)
  BY <1>2
<1>3. PICK d \in Char : d = b[p % n]
  <2>1. p \in Int
    OBVIOUS
  <2>2. p % n \in 0..(n - 1)
    BY <2>1, DivMod
  <2> QED
    BY <1>0, <2>2 DEF Slots
<1>4. RingSeq(b, n, p, k) = Cat(<<b[p % n]>>, RingSeq(b, n, p + 1, k - 1))
  BY <1>0, RingTake, Zenon
<1>5. /\ UNCHANGED <<stdin_buffer, p_wpos>> /\ p_rpos' = p + 1 /\ p_wpos' - p_rpos' = k - 1
      /\ got' = Append(got, d)
  BY <1>1, <1>2, <1>3 DEF read_char, SerialInv, StdinOK
<1>6. InStdin = Cat(<<d>>, InStdin')
  BY <1>2, <1>3, <1>4, <1>5, RingsAreHeld, RingsAreHeldNext
<1>7. got' = Cat(got, <<d>>)
  BY <1>5, AppendTyping DEF SerialInv, StdinOK
<1> QED
  BY <1>1, <1>6, <1>7 DEF read_char

(* One step of the way moves one character on, or drops a NUL. *)
LEMMA OrderStep == SerialInv /\ SerialInv' /\ InOrder /\ [Next]_vars => InOrder'
<1> SUFFICES ASSUME SerialInv, SerialInv', InOrder, [Next]_vars, ~lost'
             PROVE  Ordered(got', InStdin', InCons', AsInput(InCom'), AsInput(accepted'))
  BY DEF InOrder, Ordered, Cat
<1>0. /\ got \in Typing /\ InStdin \in Typing /\ InCons \in Typing /\ InCom \in Typing
      /\ accepted \in Typing /\ AsInput(InCom) \in Typing /\ AsInput(accepted) \in Typing
  BY RingsTyping, AsInputTyping DEF SerialInv, ComOK, StdinOK
<1>1. /\ InCom' \in Typing /\ InCons' \in Typing /\ InStdin' \in Typing
      /\ AsInput(InCom') \in Typing
  <2>1. InCom' \in Typing /\ InCons' \in Typing /\ InStdin' \in Typing
    BY RingsTypingNext
  <2> QED
    BY <2>1, AsInputTyping
<1>2. ~lost => Ordered(got, InStdin, InCons, AsInput(InCom), AsInput(accepted))
  BY OrderedDef
<1>3. CASE Receives
  BY <1>2, <1>3, OrderReceive DEF InCons, InStdin, stdin_vars
<1>4. CASE receive_done
  <2>1. InStdin' = InStdin /\ InCons' = InCons /\ got' = got /\ ~lost
    BY <1>4, OrderReceived DEF InCons, InStdin, stdin_vars
  <2>2. CASE InCom' = InCom /\ accepted' = accepted
    BY <1>2, <2>1, <2>2
  <2>3. ASSUME NEW c \in Char, InCom' = Append(InCom, c), accepted' = Append(accepted, c)
        PROVE  Ordered(got', InStdin', InCons', AsInput(InCom'), AsInput(accepted'))
    <3>1. /\ AsInput(InCom') = Cat(AsInput(InCom), Typed(c))
          /\ AsInput(accepted') = Cat(AsInput(accepted), Typed(c))
      BY <1>0, <2>3, AsInputAppend
    <3>2. Ordered(got, InStdin, InCons, Cat(AsInput(InCom), Typed(c)), Cat(AsInput(accepted), Typed(c)))
      BY <1>0, <1>2, <2>1, TypedSeq, OrderedMove
    <3> QED
      BY <2>1, <3>1, <3>2
  <2> QED
    BY <1>4, <2>2, <2>3, OrderReceived
<1>5. CASE cons_intr
  <2>1. InStdin' = InStdin /\ got' = got /\ accepted' = accepted
    BY <1>5, OrderConsole DEF InStdin, stdin_vars
  <2>2. PICK d \in Char :
           /\ InCom = Cat(<<d>>, InCom') /\ ~lost
           /\ \/ InCons' = InCons /\ Typed(d) = <<>>
              \/ InCons' = Cat(InCons, Typed(d))
    <3>1. PICK d \in Char :
             /\ InCom = Cat(<<d>>, InCom')
             /\ \/ InCons' = InCons /\ lost' = lost /\ Typed(d) = <<>>
                \/ InCons' = Cat(InCons, Typed(d)) /\ (lost => lost')
                \/ lost'
      BY <1>5, OrderConsole, Zenon
    <3> QED
      BY <3>1
  <2>3. AsInput(InCom) = Cat(Typed(d), AsInput(InCom')) /\ Typed(d) \in Typing
    BY <1>1, <2>2, AsInputCons, TypedSeq
  <2>4. InCons' = Cat(InCons, Typed(d))
    BY <1>0, <2>2, CatEmpty
  <2>5. Ordered(got, InStdin, Cat(InCons, Typed(d)), AsInput(InCom'), AsInput(accepted))
    BY <1>0, <1>1, <1>2, <2>2, <2>3, OrderedMove
  <2> QED
    BY <2>1, <2>4, <2>5
<1>6. CASE dev_stdin_write
  <2>1. got' = got /\ accepted' = accepted /\ InCom' = InCom /\ ~lost
    BY <1>6, OrderStdin DEF com_vars, InCom
  <2>2. PICK d \in Char : InCons = Cat(<<d>>, InCons') /\ InStdin' = Cat(InStdin, <<d>>)
    BY <1>6, OrderStdin
  <2>3. <<d>> \in Typing
    BY <1>0, AppendTyping
  <2>4. Ordered(got, Cat(InStdin, <<d>>), InCons', AsInput(InCom), AsInput(accepted))
    BY <1>0, <1>1, <1>2, <2>1, <2>2, <2>3, OrderedMove
  <2> QED
    BY <2>1, <2>2, <2>4
<1>7. CASE Reads
  <2>1. /\ accepted' = accepted /\ InCom' = InCom /\ InCons' = InCons /\ ~lost
    BY <1>7, OrderRead DEF com_vars, InCom, InCons
  <2>2. PICK d \in Char : InStdin = Cat(<<d>>, InStdin') /\ got' = Cat(got, <<d>>)
    BY <1>7, OrderRead
  <2>3. <<d>> \in Typing
    BY <1>0, AppendTyping
  <2>4. Ordered(Cat(got, <<d>>), InStdin', InCons, AsInput(InCom), AsInput(accepted))
    BY <1>0, <1>1, <1>2, <2>1, <2>2, <2>3, OrderedMove
  <2> QED
    BY <2>1, <2>2, <2>4
<1>8. CASE UNCHANGED com_vars /\ UNCHANGED <<cons, lost>> /\ UNCHANGED <<stdin_vars, got>>
  BY <1>2, <1>8 DEF com_vars, stdin_vars, InCom, InCons, InStdin
<1> QED
  BY <1>3, <1>4, <1>5, <1>6, <1>7, <1>8, Frames DEF Frame

(* For rings of all sizes, every interleaving of receiver, handler and     *)
(* readers keeps the characters in order and loses none of them, until one *)
(* of the kernel's rings overflows.                                        *)
THEOREM SerialInOrder == Spec => []InOrder
<1>1. Init => InOrder
  <2> SUFFICES ASSUME Init
               PROVE  InOrder
    OBVIOUS
  <2>1. InCom = <<>> /\ InCons = <<>> /\ InStdin = <<>> /\ got = <<>> /\ accepted = <<>>
    <3>1. (0 - 0) % COM_SIZE = 0 /\ (0 - 0) % CONSBUFSIZE = 0
      BY Sizes
    <3> QED
      BY <3>1 DEF Init, InCom, InCons, InStdin
  <2>2. Ordered(got, InStdin, InCons, AsInput(InCom), AsInput(accepted))
    BY <2>1, AsInputEmpty, CatEmpty DEF Ordered
  <2> QED
    BY <2>2, OrderedDef
<1>2. SerialInv /\ InOrder /\ [Next]_vars => InOrder'
  BY OrderStep, SerialStep
<1> QED
  BY <1>1, <1>2, SerialInvariance, PTL DEF Spec
=============================================================================
