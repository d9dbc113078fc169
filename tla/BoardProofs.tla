----------------------------- MODULE BoardProofs -----------------------------
(* Board's invariants hold for every number of processors, set of sources, *)
(* of ports and of software interrupts, and for every buffer size.         *)
EXTENDS Board, TLAPS

USE BoardAssumption DEF BoardAssumption

(* The parts of TypeOK that the interrupt lines, the CIO and the DUART     *)
(* change.                                                                 *)
LineTypes == ist \subseteq Line /\ flag \in BOOLEAN /\ unchecked \in BOOLEAN

CpuTypes ==
  ien \in [CPU -> SUBSET Line] /\ selected \in CPU /\ masked \subseteq CPU

CioTypes ==
  /\ cio_state \in {"cio_reset", "cio_state0", "c_micr"} \cup Source
  /\ mie \in BOOLEAN
  /\ ip \subseteq Source /\ ie \subseteq Source /\ ius \subseteq Source

BufferTypes ==
  /\ front \in [Port -> 0 .. IN_BUFFSIZ - 1]
  /\ rear \in [Port -> 0 .. IN_BUFFSIZ - 1]
  /\ count \in [Port -> 0 .. IN_BUFFSIZ] /\ unseen \subseteq Port

PortTypes ==
  /\ receiving \subseteq Port /\ ready \subseteq Port
  /\ isr \subseteq Event /\ imr \subseteq Event

DuartLine == "DUART" \in ist <=> isr \cap imr # {}

Types == LineTypes /\ CpuTypes /\ CioTypes /\ BufferTypes /\ PortTypes

IInv ==
  Types /\ Between /\ Announced /\ DuartLine /\ CioReady /\ Noticed

(***************************************************************************)
(* The three ways in which a line changes                                  *)
(***************************************************************************)
(* A check makes up for whatever has gone unnoticed.                       *)
LEMMA Checked ==
  ASSUME check_for_interrupt, flag \in BOOLEAN
  PROVE  flag' \in BOOLEAN /\ unchecked' \in BOOLEAN /\ Noticed'
  BY DEF check_for_interrupt, Noticed

(* What check_for_cio_interrupt leaves of the lines and the flag.          *)
LEMMA CioCheck ==
  ASSUME check_for_cio_interrupt, LineTypes, mie' \in BOOLEAN, UNCHANGED cpu,
         Noticed
  PROVE  LineTypes' /\ ("DUART" \in ist' <=> "DUART" \in ist)
         /\ CioReady' /\ Noticed'
<1>1. CASE mie' /\ Requests(ip', ie', ius')
  <2>1. set_ist({"CIO"})
    BY <1>1 DEF check_for_cio_interrupt
  <2>2. LineTypes' /\ Noticed' /\ ("DUART" \in ist' <=> "DUART" \in ist)
        /\ "CIO" \in ist'
    BY <2>1, Checked DEF set_ist, LineTypes, Line
  <2> QED BY <1>1, <2>2 DEF CioReady, Requests
<1>2. CASE mie' /\ ius' # {} /\ ~Requests(ip', ie', ius')
  BY <1>2 DEF check_for_cio_interrupt, check, cpu, LineTypes, CioReady, Noticed
<1>3. CASE ~(mie' /\ Requests(ip', ie', ius')) /\ ~(mie' /\ ius' # {})
  BY <1>3 DEF check_for_cio_interrupt, clear_ist, check, cpu, LineTypes,
              CioReady, Noticed, Line
<1> QED BY <1>1, <1>2, <1>3

(* The end of duart_operation keeps the DUART's line.                      *)
LEMMA DuartCheck ==
  ASSUME duart_operation, LineTypes, CpuTypes, CioTypes, CioReady, Noticed,
         DuartLine
  PROVE  LineTypes' /\ CpuTypes' /\ CioTypes' /\ CioReady' /\ Noticed'
         /\ DuartLine'
<1>1. UNCHANGED <<cpu, cio>>
  BY DEF duart_operation
<1>2. CpuTypes' /\ CioTypes'
  BY <1>1 DEF CpuTypes, CioTypes, cpu, cio
<1>3. "CIO" \in ist' <=> "CIO" \in ist
  BY DEF duart_operation, clear_ist, set_ist, check
<1>4. CioReady'
  BY <1>1, <1>3 DEF CioReady, cio
<1>5. LineTypes' /\ DuartLine' /\ Noticed'
  <2>1. CASE isr \cap imr # {} /\ isr' \cap imr' = {}
    BY <1>1, <2>1 DEF duart_operation, clear_ist, check, LineTypes, DuartLine,
                      Noticed, cpu, Line
  <2>2. CASE isr \cap imr = {} /\ isr' \cap imr' # {}
    <3>1. set_ist({"DUART"})
      BY <2>2 DEF duart_operation
    <3> QED BY <2>2, <3>1, Checked DEF set_ist, LineTypes, DuartLine, Line
  <2>3. CASE (isr \cap imr = {}) <=> (isr' \cap imr' = {})
    BY <1>1, <2>3 DEF duart_operation, check, LineTypes, DuartLine, Noticed, cpu
  <2> QED BY <2>1, <2>2, <2>3
<1> QED BY <1>2, <1>4, <1>5

(***************************************************************************)
(* The steps                                                               *)
(***************************************************************************)
LEMMA LinesStep ==
  ASSUME IInv, Lines PROVE IInv'
<1>1. UNCHANGED <<cio, duart, selected, masked>>
  BY DEF Lines, setswi, clrswi, ien_operation, cpu
<1>2. CioTypes' /\ BufferTypes' /\ PortTypes' /\ Between' /\ Announced'
  BY <1>1 DEF IInv, Types, CioTypes, BufferTypes, PortTypes, Between, Announced,
              cio, duart, buffer
<1>3. LineTypes' /\ CpuTypes' /\ Noticed'
      /\ \A l \in {"DUART", "CIO", "NMI"} : l \in ist' <=> l \in ist
  <2>1. CASE \E lines \in SUBSET SoftLine : setswi(lines)
    BY <2>1 DEF setswi, UncheckedBy, IInv, Types, LineTypes, CpuTypes, Noticed,
                Line, cpu
  <2>2. CASE \E lines \in SUBSET SoftLine : clrswi(lines)
    <3>1. PICK lines \in SUBSET SoftLine : clrswi(lines)
      BY <2>2
    <3>2. ist' = ist \ lines /\ UNCHANGED <<flag, unchecked, ien, selected, masked>>
      BY <3>1 DEF clrswi, clear_ist, check, cpu
    <3>3. \A l \in {"DUART", "CIO", "NMI"} : l \notin lines
      OBVIOUS
    <3> QED BY <3>2, <3>3 DEF IInv, Types, LineTypes, CpuTypes, Noticed
  <2>3. CASE \E set \in {CPU} \cup {{p} : p \in CPU}, value \in IenMenu :
               ien_operation(set, value)
    <3>1. check_for_interrupt /\ ist' = ist
      BY <2>3 DEF ien_operation
    <3>2. ien' \in [CPU -> SUBSET Line]
      BY <2>3 DEF ien_operation, IInv, Types, CpuTypes
    <3> QED BY <1>1, <3>1, <3>2, Checked DEF IInv, Types, LineTypes, CpuTypes
  <2> QED BY <2>1, <2>2, <2>3 DEF Lines
<1> QED BY <1>1, <1>2, <1>3 DEF IInv, Types, DuartLine, CioReady, cio, duart

LEMMA CioStep ==
  ASSUME IInv, Cio PROVE IInv'
<1>1. UNCHANGED <<cpu, duart>> /\ check_for_cio_interrupt
  BY DEF Cio, set_cio_interrupt, WriteMicr, cio_write_command_reg,
         WritePointer, OtherCio
<1>2. CioTypes'
  <2>1. CASE set_cio_interrupt
    BY <2>1 DEF set_cio_interrupt, IInv, Types, CioTypes
  <2>2. CASE \E enable \in BOOLEAN : WriteMicr(enable)
    BY <2>2 DEF WriteMicr, IInv, Types, CioTypes
  <2>3. CASE \E command \in 0 .. 7 : cio_write_command_reg(command)
    <3>1. PICK command \in 0 .. 7 : cio_write_command_reg(command)
      BY <2>3
    <3>2. cio_state' = "cio_state0" /\ mie' = mie /\ cio_state \in Source
      BY <3>1 DEF cio_write_command_reg
    <3>3. ip' \subseteq ip \cup {cio_state} /\ ius' \subseteq ius \cup {cio_state}
          /\ ie' \subseteq ie \cup {cio_state}
      BY <3>1 DEF cio_write_command_reg
    <3> QED BY <3>2, <3>3 DEF IInv, Types, CioTypes
  <2>4. CASE \E register \in Source \cup {"c_micr"} : WritePointer(register)
    BY <2>4 DEF WritePointer, IInv, Types, CioTypes
  <2>5. CASE OtherCio
    BY <2>5 DEF OtherCio, IInv, Types, CioTypes
  <2> QED BY <2>1, <2>2, <2>3, <2>4, <2>5 DEF Cio
<1>3. CpuTypes' /\ BufferTypes' /\ PortTypes' /\ Between' /\ Announced'
  BY <1>1 DEF IInv, Types, CpuTypes, BufferTypes, PortTypes, Between, Announced,
              cpu, duart, buffer
<1>4. LineTypes' /\ ("DUART" \in ist' <=> "DUART" \in ist) /\ CioReady' /\ Noticed'
  <2>1. mie' \in BOOLEAN /\ LineTypes /\ Noticed
    BY <1>2 DEF CioTypes, IInv, Types
  <2> QED BY <1>1, <2>1, CioCheck DEF cpu
<1> QED BY <1>1, <1>2, <1>3, <1>4 DEF IInv, Types, DuartLine, duart

LEMMA ProcessorStep ==
  ASSUME IInv, Processor PROVE IInv'
<1>1. CASE \E b \in BOOLEAN : stcr(b)
  <2>1. check_for_interrupt /\ UNCHANGED <<ist, ien, selected, cio, duart>>
        /\ masked' \subseteq CPU
    BY <1>1 DEF stcr, SetMask, IInv, Types, CpuTypes
  <2>2. LineTypes' /\ CpuTypes' /\ Noticed'
    BY <2>1, Checked DEF IInv, Types, LineTypes, CpuTypes
  <2> QED BY <2>1, <2>2 DEF IInv, Types, CioTypes, BufferTypes, PortTypes,
             Between, Announced, DuartLine, CioReady, cio, duart, buffer
<1>2. CASE sim_resume
  <2>1. check_for_interrupt /\ UNCHANGED <<ist, cpu, cio, duart>>
    BY <1>2 DEF sim_resume
  <2>2. LineTypes' /\ CpuTypes' /\ Noticed'
    BY <2>1, Checked DEF IInv, Types, LineTypes, CpuTypes, cpu
  <2> QED BY <2>1, <2>2 DEF IInv, Types, CioTypes, BufferTypes, PortTypes,
             Between, Announced, DuartLine, CioReady, cio, duart, buffer
<1>3. CASE \/ \E b \in BOOLEAN : rte(b)
           \/ TakeDevice \/ exception
           \/ \E p \in CPU : sim_select_processor(p)
  <2>1. UNCHANGED <<ist, ien, cio, duart>>
    BY <1>3 DEF rte, TakeDevice, exception, sim_select_processor
  <2>2. LineTypes' /\ CpuTypes' /\ Noticed'
    BY <1>3 DEF rte, TakeDevice, exception, sim_select_processor, UncheckedBy,
                SetMask, check, IInv, Types, LineTypes, CpuTypes, Noticed
  <2> QED BY <2>1, <2>2 DEF IInv, Types, CioTypes, BufferTypes, PortTypes,
             Between, Announced, DuartLine, CioReady, cio, duart, buffer
<1>4. CASE init
  <2>1. LineTypes' /\ CioTypes' /\ PortTypes'
    BY <1>4 DEF init, check, IInv, Types, LineTypes, CioTypes, PortTypes
  <2>4. CpuTypes'
    BY <1>4 DEF init, IInv, Types, CpuTypes, CPU
  <2>5. BufferTypes'
    BY <1>4 DEF init, BufferTypes
  <2>2. Between' /\ Announced'
    BY <1>4 DEF init, Between, Announced, Wrap
  <2>3. DuartLine' /\ CioReady' /\ Noticed'
    BY <1>4 DEF init, DuartLine, CioReady, Noticed, Requests, CPU
  <2> QED BY <2>1, <2>2, <2>3, <2>4, <2>5 DEF IInv, Types
<1> QED BY <1>1, <1>2, <1>3, <1>4 DEF Processor

(***************************************************************************)
(* The DUART                                                               *)
(***************************************************************************)
Buffers == BufferTypes /\ PortTypes /\ Between /\ Announced

(* Emptying a buffer, and adding to it, keep it sound.                     *)
LEMMA Cleared ==
  ASSUME NEW p \in Port, clear_in_buff(p), BufferTypes, Between
  PROVE  BufferTypes' /\ Between' /\ count'[p] = 0 /\ unseen' = unseen \ {p}
         /\ \A q \in Port : q # p => count'[q] = count[q]
  BY DEF clear_in_buff, BufferTypes, Between, Wrap

LEMMA Enqueued ==
  ASSUME NEW p \in Port, NEW n \in Nat, enqueue(p, n), BufferTypes, Between,
         unseen' \subseteq Port
  PROVE  BufferTypes' /\ Between' /\ (n > 0 => count'[p] > 0)
         /\ \A q \in Port : q # p => count'[q] = count[q]
<1> DEFINE room == IN_BUFFSIZ - count[p]
           k == IF n < room THEN n ELSE room
<1>1. /\ rear' = [rear EXCEPT ![p] = Wrap(@ + k)]
      /\ count' = [count EXCEPT ![p] = @ + k] /\ front' = front
  BY DEF enqueue
<1>2. rear[p] \in 0 .. IN_BUFFSIZ - 1 /\ front[p] \in 0 .. IN_BUFFSIZ - 1
      /\ count[p] \in 0 .. IN_BUFFSIZ
  BY DEF BufferTypes
<1>7. k \in 0 .. IN_BUFFSIZ - count[p]
      /\ (n > 0 /\ count[p] < IN_BUFFSIZ => k > 0)
  BY <1>2
<1> HIDE DEF k
<1>3. Wrap(rear[p] + k) \in 0 .. IN_BUFFSIZ - 1
      /\ (n > 0 => count[p] + k > 0)
  BY <1>2, <1>7 DEF Wrap
<1>4. Wrap(rear[p] + k) = Wrap(front[p] + (count[p] + k))
  BY <1>2, <1>7 DEF Between, Wrap
<1>6. BufferTypes'
  BY <1>1, <1>2, <1>3, <1>7 DEF BufferTypes
<1> QED BY <1>1, <1>2, <1>3, <1>4, <1>6, <1>7 DEF BufferTypes, Between

LEMMA Arrival ==
  ASSUME IInv, NEW p \in Port, NEW n \in 1 .. IN_BUFFSIZ + 1,
         NEW nmi \in BOOLEAN, NEW fails \in BOOLEAN,
         check_tty_line(p, n, nmi, fails)
  PROVE  IInv'
<1> DEFINE heard == p \in receiving /\ ~fails
<1>1. UNCHANGED <<receiving, imr, cpu, cio>>
      /\ isr' = (IF heard THEN isr \cup {<<p, "rx">>} ELSE isr)
      /\ ready' = (IF heard THEN ready \cup {p} ELSE ready)
  BY DEF check_tty_line
<1>2. PortTypes' /\ CpuTypes' /\ CioTypes'
  BY <1>1 DEF IInv, Types, PortTypes, CpuTypes, CioTypes, cpu, cio, Event
<1>3. BufferTypes' /\ Between' /\ Announced'
  <2>1. CASE fails \/ p \in receiving
    <3>1. enqueue(p, n)
          /\ unseen' = IF fails THEN unseen \cup {p} ELSE unseen \ {p}
      BY <2>1 DEF check_tty_line
    <3>2. BufferTypes' /\ Between' /\ count'[p] > 0
          /\ \A q \in Port : q # p => count'[q] = count[q]
      BY <3>1, Enqueued DEF IInv, Types, BufferTypes
    <3> QED BY <1>1, <2>1, <3>1, <3>2 DEF IInv, Announced, Types, BufferTypes
  <2>2. CASE ~fails /\ p \notin receiving
    <3>1. clear_in_buff(p)
      BY <2>2 DEF check_tty_line
    <3>2. BufferTypes' /\ Between' /\ count'[p] = 0 /\ unseen' = unseen \ {p}
          /\ \A q \in Port : q # p => count'[q] = count[q]
      BY <3>1, Cleared DEF IInv, Types
    <3>3. isr' = isr /\ ready' = ready /\ receiving' = receiving
      BY <1>1, <2>2
    <3> QED BY <2>2, <3>2, <3>3 DEF IInv, Announced
  <2> QED BY <2>1, <2>2
<1>4. LineTypes' /\ DuartLine' /\ CioReady' /\ Noticed'
  <2> DEFINE lines == (IF nmi THEN {"NMI"} ELSE {})
                        \cup (IF heard /\ isr' \cap imr # {} THEN {"DUART"} ELSE {})
  <2>1. IF lines = {} THEN UNCHANGED <<ist, check>> ELSE set_ist(lines)
    BY <1>1 DEF check_tty_line
  <2>2. LineTypes' /\ Noticed'
    <3>1. CASE lines = {}
      BY <1>1, <2>1, <3>1 DEF IInv, Types, LineTypes, Noticed, check, cpu
    <3>2. CASE lines # {}
      <4>1. check_for_interrupt /\ ist' = ist \cup lines
        BY <2>1, <3>2 DEF set_ist
      <4> QED BY <4>1, Checked DEF IInv, Types, LineTypes, Line
    <3> QED BY <3>1, <3>2
  <2>3. ist' = ist \cup lines
    BY <2>1 DEF set_ist
  <2>4. CioReady'
    BY <1>1, <2>3 DEF IInv, CioReady, cio
  <2>5. DuartLine'
    BY <1>1, <2>3 DEF IInv, DuartLine
  <2> QED BY <2>2, <2>4, <2>5
<1> QED BY <1>2, <1>3, <1>4 DEF IInv, Types

LEMMA BuffersStep ==
  ASSUME IInv,
         \/ \E set \in ImrMenu : WriteImr(set)
         \/ \E p \in Port : \/ ReadData(p) \/ WriteData(p)
                           \/ \E command \in {"none", "reset_recv", "reset_xmit"},
                                 tx, rx \in {"none", "enable", "disable"} :
                                CommandReg(p, command, tx, rx)
  PROVE  Buffers' /\ duart_operation
<1>1. CASE \E set \in ImrMenu : WriteImr(set)
  BY <1>1 DEF WriteImr, IInv, Types, Buffers, BufferTypes, PortTypes, Between,
              Announced, buffer
<1>2. ASSUME NEW p \in Port, ReadData(p) PROVE Buffers' /\ duart_operation
  <2>1. CASE p \in receiving /\ count[p] = 1
    <3>1. clear_in_buff(p) /\ ready' = ready \ {p} /\ isr' = isr \ {<<p, "rx">>}
          /\ UNCHANGED <<receiving, imr>> /\ duart_operation
      BY <1>2, <2>1 DEF ReadData, dequeue
    <3>2. BufferTypes' /\ Between' /\ count'[p] = 0 /\ unseen' = unseen \ {p}
          /\ \A q \in Port : q # p => count'[q] = count[q]
      BY <3>1, Cleared DEF IInv, Types
    <3>3. PortTypes'
      BY <3>1 DEF IInv, Types, PortTypes
    <3>4. ASSUME NEW q \in Port
          PROVE  /\ q \in ready' => count'[q] > 0 /\ q \in receiving'
                 /\ count'[q] > 0 => q \in ready' \cup unseen'
                 /\ q \in ready' <=> <<q, "rx">> \in isr'
      <4>1. <<q, "rx">> \in isr' <=> <<q, "rx">> \in isr /\ q # p
        BY <3>1
      <4> QED BY <3>1, <3>2, <4>1 DEF IInv, Announced
    <3> QED BY <3>1, <3>2, <3>3, <3>4 DEF Buffers, Announced
  <2>2. CASE p \in receiving /\ count[p] > 1
    <3>1. /\ count' = [count EXCEPT ![p] = @ - 1]
          /\ front' = [front EXCEPT ![p] = Wrap(@ + 1)]
          /\ UNCHANGED <<rear, unseen, receiving, ready, isr, imr>>
          /\ duart_operation
      BY <1>2, <2>2 DEF ReadData, dequeue, IInv, Types, BufferTypes
    <3>2. front[p] \in 0 .. IN_BUFFSIZ - 1 /\ count[p] \in 2 .. IN_BUFFSIZ
      BY <2>2 DEF IInv, Types, BufferTypes
    <3>3. Wrap(front[p] + 1) \in 0 .. IN_BUFFSIZ - 1
          /\ Wrap(Wrap(front[p] + 1) + (count[p] - 1)) = Wrap(front[p] + count[p])
      BY <3>2 DEF Wrap
    <3> QED BY <3>1, <3>2, <3>3 DEF IInv, Types, Buffers, BufferTypes,
                                    PortTypes, Between, Announced
  <2>3. CASE ~(p \in receiving /\ count[p] > 0)
    BY <1>2, <2>3 DEF ReadData, IInv, Types, Buffers, BufferTypes, PortTypes,
                      Between, Announced, buffer
  <2>4. count[p] \in 0 .. IN_BUFFSIZ
    BY DEF IInv, Types, BufferTypes
  <2> QED BY <2>1, <2>2, <2>3, <2>4
<1>3. ASSUME NEW p \in Port, WriteData(p) PROVE Buffers' /\ duart_operation
  BY <1>3 DEF WriteData, IInv, Types, Buffers, BufferTypes, PortTypes, Between,
              Announced, buffer, Event
<1>4. ASSUME NEW p \in Port, NEW command \in {"none", "reset_recv", "reset_xmit"},
             NEW tx \in {"none", "enable", "disable"},
             NEW rx \in {"none", "enable", "disable"},
             CommandReg(p, command, tx, rx)
      PROVE  Buffers' /\ duart_operation
  <2> DEFINE resets == command = "reset_recv"
             dumb   == resets \/ rx = "disable"
  <2>1. duart_operation /\ UNCHANGED imr
        /\ ready' = (IF dumb THEN ready \ {p} ELSE ready)
        /\ (IF dumb THEN clear_in_buff(p) ELSE UNCHANGED buffer)
    BY <1>4 DEF CommandReg
  <2>2. isr' \subseteq Event
        /\ \A q \in Port : <<q, "rx">> \in isr' <=>
                          <<q, "rx">> \in isr /\ (q = p => ~dumb)
    <3> DEFINE sent == IF command = "reset_xmit" THEN isr \ {<<p, "tx">>} ELSE isr
               turned == CASE tx = "enable" -> sent \cup {<<p, "tx">>}
                           [] tx = "disable" -> sent \ {<<p, "tx">>}
                           [] OTHER -> sent
    <3>1. isr' = IF dumb THEN turned \ {<<p, "rx">>} ELSE turned
      BY <1>4 DEF CommandReg
    <3>2. sent \subseteq Event /\ <<p, "tx">> \in Event
          /\ \A q \in Port : <<q, "rx">> \in sent <=> <<q, "rx">> \in isr
      BY DEF IInv, Types, PortTypes, Event
    <3>3. turned = sent \/ turned = sent \cup {<<p, "tx">>}
          \/ turned = sent \ {<<p, "tx">>}
      OBVIOUS
    <3> HIDE DEF sent, turned
    <3>4. turned \subseteq Event
          /\ \A q \in Port : <<q, "rx">> \in turned <=> <<q, "rx">> \in isr
      BY <3>2, <3>3
    <3> HIDE DEF dumb
    <3> QED BY <3>1, <3>4
  <2>3. receiving' \subseteq Port /\ (~dumb => receiving \subseteq receiving')
        /\ receiving \ {p} \subseteq receiving'
    BY <1>4 DEF CommandReg, IInv, Types, PortTypes
  <2> HIDE DEF dumb
  <2>4. BufferTypes' /\ Between'
    BY <2>1, Cleared DEF IInv, Types, BufferTypes, Between, buffer
  <2>5. Announced'
    <3>1. CASE dumb
      <4>1. clear_in_buff(p) /\ ready' = ready \ {p}
        BY <2>1, <3>1
      <4>2. count'[p] = 0 /\ unseen' = unseen \ {p}
            /\ \A q \in Port : q # p => count'[q] = count[q]
        BY <4>1, Cleared DEF IInv, Types
      <4>3. ASSUME NEW q \in Port
            PROVE  /\ q \in ready' => count'[q] > 0 /\ q \in receiving'
                   /\ count'[q] > 0 => q \in ready' \cup unseen'
                   /\ q \in ready' <=> <<q, "rx">> \in isr'
        <5>1. CASE q = p
          BY <2>2, <3>1, <4>1, <4>2, <5>1
        <5>2. CASE q # p
          BY <2>2, <2>3, <4>1, <4>2, <5>2 DEF IInv, Announced
        <5> QED BY <5>1, <5>2
      <4> QED BY <4>3 DEF Announced
    <3>2. CASE ~dumb
      BY <2>1, <2>2, <2>3, <3>2 DEF IInv, Announced, buffer
    <3> QED BY <3>1, <3>2
  <2>6. PortTypes'
    BY <2>1, <2>2, <2>3 DEF IInv, Types, PortTypes
  <2> QED BY <2>1, <2>4, <2>5, <2>6 DEF Buffers
<1> QED BY <1>1, <1>2, <1>3, <1>4

LEMMA DuartStep ==
  ASSUME IInv, Duart PROVE IInv'
<1>1. ASSUME NEW p \in Port, NEW n \in 1 .. IN_BUFFSIZ + 1,
             NEW nmi \in BOOLEAN, NEW fails \in BOOLEAN,
             check_tty_line(p, n, nmi, fails)
      PROVE  IInv'
  BY <1>1, Arrival
<1>2. CASE \/ \E set \in ImrMenu : WriteImr(set)
           \/ \E p \in Port :
                \/ ReadData(p) \/ WriteData(p)
                \/ \E command \in {"none", "reset_recv", "reset_xmit"},
                      tx, rx \in {"none", "enable", "disable"} :
                     CommandReg(p, command, tx, rx)
  <2>1. Buffers' /\ duart_operation
    BY <1>2, BuffersStep
  <2>2. LineTypes' /\ CpuTypes' /\ CioTypes' /\ CioReady' /\ Noticed'
        /\ DuartLine'
    BY <2>1, DuartCheck DEF IInv, Types
  <2> QED BY <2>1, <2>2 DEF IInv, Types, Buffers
<1> QED BY <1>1, <1>2 DEF Duart

(***************************************************************************)
(* The theorems                                                            *)
(***************************************************************************)
LEMMA Invariant == Spec => []IInv
<1>1. Init => IInv
  <2> SUFFICES ASSUME Init PROVE IInv
    OBVIOUS
  <2>1. LineTypes /\ CioTypes /\ PortTypes
    BY DEF Init, LineTypes, CioTypes, PortTypes
  <2>4. CpuTypes
    BY DEF Init, CpuTypes, CPU
  <2>2. BufferTypes /\ Between /\ Announced
    BY DEF Init, BufferTypes, Between, Announced, Wrap
  <2>3. DuartLine /\ CioReady /\ Noticed
    BY DEF Init, DuartLine, CioReady, Noticed, Requests
  <2> QED BY <2>1, <2>2, <2>3, <2>4 DEF IInv, Types
<1>2. IInv /\ [Next]_vars => IInv'
  <2> SUFFICES ASSUME IInv, [Next]_vars PROVE IInv'
    OBVIOUS
  <2>1. CASE UNCHANGED vars
    BY <2>1 DEF vars, cpu, check, cio, duart, buffer, IInv, Types, LineTypes,
                CpuTypes, CioTypes, BufferTypes, PortTypes, Between, Announced,
                DuartLine, CioReady, Noticed
  <2> QED BY <2>1, LinesStep, CioStep, DuartStep, ProcessorStep DEF Next
<1> QED BY <1>1, <1>2, PTL DEF Spec

(* The registers have their types (TypeOK).                                *)
THEOREM TypeCorrect == Spec => []TypeOK
<1>1. IInv => TypeOK
  BY DEF IInv, Types, LineTypes, CpuTypes, CioTypes, BufferTypes, PortTypes,
         TypeOK
<1> QED BY <1>1, Invariant, PTL

(* The typeahead buffers, the DUART's status and its interrupt line agree, *)
(* for every size of the buffers (duart.c:163-290, 517-619).               *)
THEOREM DuartAgrees == Spec => []DuartTrue
<1>1. IInv => DuartTrue
  BY DEF IInv, DuartLine, DuartTrue
<1> QED BY <1>1, Invariant, PTL

(* The CIO's line follows its sources (mvme188.c:459-530).                 *)
THEOREM CioAgrees == Spec => []CioReady
<1>1. IInv => CioReady
  BY DEF IInv
<1> QED BY <1>1, Invariant, PTL

(* A pending interrupt that is enabled has its flag, outside the three     *)
(* places that do not check (mvme188.c:14-32, execute.c:1888-1901).        *)
THEOREM InterruptNoticed == Spec => []Noticed
<1>1. IInv => Noticed
  BY DEF IInv
<1> QED BY <1>1, Invariant, PTL
=============================================================================
