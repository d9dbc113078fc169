-------------------------------- MODULE Board --------------------------------
(***************************************************************************)
(* The interrupt logic of the simulated 188 board: the interrupt enable    *)
(* and status registers and the CIO (sim/mvme188.c), the DUART             *)
(* (sim/duart.c), and the INT_DEVICE bit through which the processor that  *)
(* is selected learns of them (sim/execute.c).                             *)
(*                                                                         *)
(* ist and ien are sets of the board's interrupt lines.  The CIO's command *)
(* registers are three sets of sources, ip, ie and ius.  The characters in *)
(* a typeahead buffer are counted; the host's terminals and the processors *)
(* do anything.                                                            *)
(***************************************************************************)
EXTENDS Integers

CONSTANTS
  MAX_PROCESSORS,
  SoftLine,    \* the software interrupt bits in use
  Source,      \* the command registers of the CIO's sources in use
  Port,        \* the DUART's ports in use: 0 port A, 1 port B
  IN_BUFFSIZ,
  IenMenu, ImrMenu   \* values that programs store in ien and in the IMR

CPU  == 0 .. MAX_PROCESSORS - 1
Line == {"DUART", "CIO", "NMI"} \cup SoftLine
\* The order in which the CIO looks at its sources.
Rank == [s \in {"c_ctim3_com", "c_porta_com", "c_ctim2_com", "c_portb_com",
               "c_ctim1_com"} |->
           CASE s = "c_ctim3_com" -> 1 [] s = "c_porta_com" -> 2
             [] s = "c_ctim2_com" -> 3 [] s = "c_portb_com" -> 4
             [] s = "c_ctim1_com" -> 5]
Event == Port \X {"rx", "tx"}

ASSUME BoardAssumption ==
  /\ MAX_PROCESSORS \in Nat \ {0} /\ IN_BUFFSIZ \in Nat \ {0}
  /\ Source \subseteq DOMAIN Rank /\ "c_ctim1_com" \in Source
  /\ Port \subseteq {0, 1}
  /\ IenMenu \subseteq SUBSET Line /\ ImrMenu \subseteq SUBSET Event
  /\ SoftLine \cap {"DUART", "CIO", "NMI"} = {}

VARIABLES
  ist, ien,
  selected,   \* selected_processor
  masked,     \* processors whose PSR disables interrupts
  flag,       \* INT_DEVICE is set in sim_interrupt_flag
  unchecked,  \* history: see UncheckedBy
  cio_state,  \* "cio_reset", "cio_state0", or the register that
              \* cio_reg_pointer selects in cio_state1
  mie,        \* the master interrupt enable bit of c_micr
  ip, ie, ius,
  receiving,  \* ports whose receiver is enabled
  front, rear, count,   \* in_buff_front, in_buff_rear, in_buff_count
  ready,      \* ports with the receiver-ready bits set
  isr, imr,
  unseen      \* history: ports with characters that a read error hides

cpu    == <<ien, selected, masked>>
check  == <<flag, unchecked>>
cio    == <<cio_state, mie, ip, ie, ius>>
buffer == <<front, rear, count, unseen>>
duart  == <<receiving, buffer, ready, isr, imr>>
vars   == <<ist, cpu, check, cio, duart>>

(***************************************************************************)
(* Interrupt lines                                                         *)
(***************************************************************************)
check_for_interrupt ==
  /\ flag' = (flag \/ ist' \cap ien'[selected'] # {})
  /\ unchecked' = FALSE

set_ist(lines) == ist' = ist \cup lines /\ check_for_interrupt

clear_ist(lines) == ist' = ist \ lines /\ UNCHANGED check

\* What may leave an interrupt without the flag: nothing calls
\* check_for_interrupt.
UncheckedBy == flag' = flag /\ unchecked' = TRUE

setswi(lines) ==
  /\ ist' = ist \cup lines
  /\ UncheckedBy
  /\ UNCHANGED <<cpu, cio, duart>>

clrswi(lines) == clear_ist(lines) /\ UNCHANGED <<cpu, cio, duart>>

ien_operation_unchecked(set, value) ==
  /\ ien' = [p \in CPU |-> IF p \in set THEN value ELSE ien[p]]
  /\ UNCHANGED <<ist, selected, masked, check, cio, duart>>

\* A store to one of ien0 to ien3, or to ien.
ien_operation(set, value) ==
  /\ ien' = [p \in CPU |-> IF p \in set THEN value ELSE ien[p]]
  /\ ist' = ist /\ UNCHANGED <<selected, masked, cio, duart>>
  /\ check_for_interrupt

(***************************************************************************)
(* The CIO                                                                 *)
(***************************************************************************)
\* A source with IP and IE, and no IUS in it or above it.
Requests(pending, enable, service) ==
  \E s \in pending \cap enable : \A t \in service : Rank[s] < Rank[t]

check_for_cio_interrupt_forgets ==
  IF mie' /\ Requests(ip', ie', ius')
    THEN set_ist({"CIO"})
    ELSE UNCHANGED <<ist, check>>

check_for_cio_interrupt ==
  IF mie' /\ Requests(ip', ie', ius') THEN set_ist({"CIO"})
  ELSE IF mie' /\ ius' # {} THEN UNCHANGED <<ist, check>>
  ELSE clear_ist({"CIO"})

\* A tick of the timer.
set_cio_interrupt ==
  /\ ip' = ip \cup {"c_ctim1_com"}
  /\ UNCHANGED <<cio_state, mie, ie, ius, cpu, duart>>
  /\ check_for_cio_interrupt

\* A store to c_micr, after a reset and through the pointer.  Only the
\* former looks at the reset bit.
WriteMicr(enable) ==
  /\ cio_state \in {"cio_reset", "c_micr"} /\ cio_state' = "cio_state0"
  /\ mie' = enable
  /\ UNCHANGED <<ip, ie, ius, cpu, duart>>
  /\ check_for_cio_interrupt

\* A store to a command register: the command in its three upper bits.
cio_write_command_reg(command) ==
  LET s == cio_state IN
  /\ cio_state \in Source /\ cio_state' = "cio_state0"
  /\ ip' = CASE command \in {1, 5} -> ip \ {s}
             [] command = 4 -> ip \cup {s}
             [] OTHER -> ip
  /\ ius' = CASE command \in {1, 3} -> ius \ {s}
              [] command = 2 -> ius \cup {s}
              [] OTHER -> ius
  /\ ie' = CASE command = 6 -> ie \cup {s}
             [] command = 7 -> ie \ {s}
             [] OTHER -> ie
  /\ UNCHANGED <<mie, cpu, duart>>
  /\ check_for_cio_interrupt

\* A store of the pointer.
WritePointer(register) ==
  /\ cio_state = "cio_state0" /\ cio_state' = register
  /\ UNCHANGED <<mie, ip, ie, ius, cpu, duart>>
  /\ check_for_cio_interrupt

\* A load, a store to a register without effect, and the port data.
OtherCio ==
  /\ cio_state' \in {cio_state, IF cio_state = "cio_reset" THEN cio_state
                                ELSE "cio_state0"}
  /\ UNCHANGED <<mie, ip, ie, ius, cpu, duart>>
  /\ check_for_cio_interrupt

(***************************************************************************)
(* The DUART                                                               *)
(***************************************************************************)
clear_in_buff(p) ==
  /\ front' = [front EXCEPT ![p] = 0]
  /\ rear' = [rear EXCEPT ![p] = 0]
  /\ count' = [count EXCEPT ![p] = 0]
  /\ unseen' = unseen \ {p}

Wrap(i) == IF i < IN_BUFFSIZ THEN i ELSE i - IN_BUFFSIZ

\* n calls of enqueue; what does not fit is dropped.
enqueue(p, n) ==
  LET room == IN_BUFFSIZ - count[p]
      k == IF n < room THEN n ELSE room
  IN /\ rear' = [rear EXCEPT ![p] = Wrap(@ + k)]
     /\ count' = [count EXCEPT ![p] = @ + k]
     /\ UNCHANGED front

dequeue_never_wraps(p) ==
  /\ count' = [count EXCEPT ![p] = @ - 1]
  /\ front' = [front EXCEPT ![p] = @ + 1]
  /\ UNCHANGED <<rear, unseen>>

dequeue(p) ==
  IF count[p] = 1 THEN clear_in_buff(p)
  ELSE /\ count' = [count EXCEPT ![p] = @ - 1]
       /\ front' = [front EXCEPT ![p] = Wrap(@ + 1)]
       /\ UNCHANGED <<rear, unseen>>

\* check_tty_line, called by a signal: n characters are waiting, some of
\* which pull the NMI line, and the last read may fail.
check_tty_line(p, n, nmi, fails) ==
  LET heard == p \in receiving /\ ~fails
      now   == IF heard THEN isr \cup {<<p, "rx">>} ELSE isr
      lines == (IF nmi THEN {"NMI"} ELSE {})
                 \cup (IF heard /\ now \cap imr # {} THEN {"DUART"} ELSE {})
  IN /\ nmi => p = 1
     /\ IF fails \/ p \in receiving
          THEN /\ enqueue(p, n)
               /\ unseen' = IF fails THEN unseen \cup {p} ELSE unseen \ {p}
          ELSE clear_in_buff(p)
     /\ isr' = now
     /\ ready' = IF heard THEN ready \cup {p} ELSE ready
     /\ UNCHANGED <<receiving, imr, cpu, cio>>
     /\ IF lines = {} THEN UNCHANGED <<ist, check>> ELSE set_ist(lines)

duart_operation_only_clears ==
  /\ UNCHANGED <<cpu, cio>>
  /\ IF isr \cap imr # {} /\ isr' \cap imr' = {} THEN clear_ist({"DUART"})
     ELSE UNCHANGED <<ist, check>>

\* The end of duart_operation: the line follows ISR and IMR.
duart_operation ==
  /\ UNCHANGED <<cpu, cio>>
  /\ IF isr \cap imr # {} /\ isr' \cap imr' = {} THEN clear_ist({"DUART"})
     ELSE IF isr \cap imr = {} /\ isr' \cap imr' # {} THEN set_ist({"DUART"})
     ELSE UNCHANGED <<ist, check>>

\* A store to the interrupt mask register.
WriteImr(set) ==
  /\ imr' = set /\ UNCHANGED <<receiving, buffer, ready, isr>>
  /\ duart_operation

\* A store to a command register: a command of its upper half, then one for
\* the transmitter and one for the receiver.  reset_recv and reset_xmit of
\* port B index enables[8], so port B's receiver stays enabled.
CommandReg(p, command, tx, rx) ==
  LET resets == command = "reset_recv"
      dumb   == resets \/ rx = "disable"
      sent   == IF command = "reset_xmit" THEN isr \ {<<p, "tx">>} ELSE isr
      turned == CASE tx = "enable" -> sent \cup {<<p, "tx">>}
                  [] tx = "disable" -> sent \ {<<p, "tx">>}
                  [] OTHER -> sent
  IN /\ isr' = IF dumb THEN turned \ {<<p, "rx">>} ELSE turned
     /\ ready' = IF dumb THEN ready \ {p} ELSE ready
     /\ IF dumb THEN clear_in_buff(p) ELSE UNCHANGED buffer
     /\ receiving' = IF rx = "enable" THEN receiving \cup {p}
                     ELSE IF rx = "disable" \/ (resets /\ p = 0)
                            THEN receiving \ {p} ELSE receiving
     /\ UNCHANGED imr
     /\ duart_operation

\* A load from the data port.
ReadData(p) ==
  /\ IF p \in receiving /\ count[p] > 0
       THEN /\ dequeue(p)
            /\ IF count[p] = 1
                 THEN ready' = ready \ {p} /\ isr' = isr \ {<<p, "rx">>}
                 ELSE UNCHANGED <<ready, isr>>
       ELSE UNCHANGED <<buffer, ready, isr>>
  /\ UNCHANGED <<receiving, imr>>
  /\ duart_operation

\* A store to the data port that the host's terminal takes.
WriteData(p) ==
  /\ isr' = isr \cup {<<p, "tx">>}
  /\ UNCHANGED <<receiving, buffer, ready, imr>>
  /\ duart_operation

(***************************************************************************)
(* The processors                                                          *)
(***************************************************************************)
SetMask(b) == masked' = IF b THEN masked \cup {selected} ELSE masked \ {selected}

\* stcr and xcr.
stcr(b) ==
  /\ SetMask(b) /\ ist' = ist /\ UNCHANGED <<ien, selected, cio, duart>>
  /\ check_for_interrupt

\* rte takes the PSR from TPSR; so does a write of the user's to the PSR.
rte(b) ==
  /\ SetMask(b) /\ UncheckedBy
  /\ UNCHANGED <<ist, ien, selected, cio, duart>>

\* interrupt_label: E_INT is raised, or put off until somebody checks.
TakeDevice ==
  /\ flag /\ flag' = FALSE /\ SetMask(TRUE)
  /\ UNCHANGED <<ist, ien, selected, unchecked, cio, duart>>

\* E_INT at the entry of sim(), which leaves the flag set, and every other
\* exception.
exception ==
  SetMask(TRUE) /\ UNCHANGED <<ist, ien, selected, check, cio, duart>>

\* sim_resume.
sim_resume ==
  ist' = ist /\ UNCHANGED <<cpu, cio, duart>> /\ check_for_interrupt

sim_select_processor(p) ==
  /\ selected' = p /\ UncheckedBy
  /\ UNCHANGED <<ist, ien, masked, cio, duart>>

\* do_sim_reset: io_init, and the registers of processor 0.  What was in the
\* slot of the processor that was selected is its PSR again.
init ==
  /\ ist' = {} /\ ien' = [p \in CPU |-> {}]
  /\ selected' = 0
  /\ \E old \in SUBSET {selected} : masked' = (masked \ {selected}) \cup old \cup {0}
  /\ UNCHANGED check
  /\ cio_state' = "cio_reset" /\ mie' = FALSE /\ ip' = {} /\ ie' = {} /\ ius' = {}
  /\ receiving' = {} /\ ready' = {} /\ isr' = {} /\ imr' = {} /\ unseen' = {}
  /\ front' = [p \in Port |-> 0] /\ rear' = [p \in Port |-> 0]
  /\ count' = [p \in Port |-> 0]

Init ==
  /\ ist = {} /\ ien = [p \in CPU |-> {}] /\ selected = 0 /\ masked = CPU
  /\ flag = FALSE /\ unchecked = FALSE
  /\ cio_state = "cio_reset" /\ mie = FALSE /\ ip = {} /\ ie = {} /\ ius = {}
  /\ receiving = {} /\ ready = {} /\ isr = {} /\ imr = {} /\ unseen = {}
  /\ front = [p \in Port |-> 0] /\ rear = [p \in Port |-> 0]
  /\ count = [p \in Port |-> 0]

Lines ==
  \/ \E lines \in SUBSET SoftLine : setswi(lines) \/ clrswi(lines)
  \/ \E set \in {CPU} \cup {{p} : p \in CPU}, value \in IenMenu :
       ien_operation(set, value)

Cio ==
  \/ set_cio_interrupt
  \/ \E enable \in BOOLEAN : WriteMicr(enable)
  \/ \E command \in 0 .. 7 : cio_write_command_reg(command)
  \/ \E register \in Source \cup {"c_micr"} : WritePointer(register)
  \/ OtherCio

Duart ==
  \/ \E set \in ImrMenu : WriteImr(set)
  \/ \E p \in Port :
       \/ \E n \in 1 .. IN_BUFFSIZ + 1, nmi, fails \in BOOLEAN :
            check_tty_line(p, n, nmi, fails)
       \/ \E command \in {"none", "reset_recv", "reset_xmit"},
             tx, rx \in {"none", "enable", "disable"} :
            CommandReg(p, command, tx, rx)
       \/ ReadData(p) \/ WriteData(p)

Processor ==
  \/ \E b \in BOOLEAN : stcr(b) \/ rte(b)
  \/ TakeDevice \/ exception \/ sim_resume
  \/ \E p \in CPU : sim_select_processor(p)
  \/ init

Next == Lines \/ Cio \/ Duart \/ Processor

Spec == Init /\ [][Next]_vars

(***************************************************************************)
(* Properties                                                              *)
(***************************************************************************)
\* The types of the board's registers.
TypeOK ==
  /\ ist \subseteq Line /\ ien \in [CPU -> SUBSET Line]
  /\ selected \in CPU /\ masked \subseteq CPU
  /\ flag \in BOOLEAN /\ unchecked \in BOOLEAN
  /\ cio_state \in {"cio_reset", "cio_state0", "c_micr"} \cup Source
  /\ mie \in BOOLEAN
  /\ ip \subseteq Source /\ ie \subseteq Source /\ ius \subseteq Source
  /\ receiving \subseteq Port /\ ready \subseteq Port /\ unseen \subseteq Port
  /\ front \in [Port -> 0 .. IN_BUFFSIZ - 1]
  /\ rear \in [Port -> 0 .. IN_BUFFSIZ - 1]
  /\ count \in [Port -> 0 .. IN_BUFFSIZ]
  /\ isr \subseteq Event /\ imr \subseteq Event

\* The circular buffer: the characters lie between front and rear.
Between ==
  \A p \in Port : rear[p] = Wrap(front[p] + count[p])

\* A port says that a character is ready when there is one, in its status
\* and in the ISR, if its receiver is enabled; a read error half way is the
\* only thing that hides one.
Announced ==
  \A p \in Port :
    /\ p \in ready => count[p] > 0 /\ p \in receiving
    /\ count[p] > 0 => p \in ready \cup unseen
    /\ p \in ready <=> <<p, "rx">> \in isr

\* However characters arrive, overflow, are read, are thrown away by a
\* disabled or reset receiver, or get lost to a read error, the program is
\* told of each of them: the buffer is sound, the status agrees with it, and
\* the DUART's interrupt line is up exactly while an unmasked condition
\* holds (duart.c:163-290, 517-619).
DuartTrue ==
  Between /\ Announced /\ ("DUART" \in ist <=> isr \cap imr # {})

\* The CIO's interrupt line is up whenever a source asks for it that no
\* source in service holds back, and stays up without one only while some
\* interrupt is in service (mvme188.c:459-530).
CioReady ==
  /\ mie /\ Requests(ip, ie, ius) => "CIO" \in ist
  /\ "CIO" \in ist => mie /\ (ius # {} \/ ip \cap ie # {})

\* An interrupt for the processor that runs, with interrupts enabled, has
\* its flag, so that the next branch takes it: except after an rte, a
\* processor switch or a store to setswi, until something is checked again
\* (mvme188.c:14-16, execute.c:1888-1901).
Noticed ==
  selected \notin masked /\ ist \cap ien[selected] # {} => flag \/ unchecked

\* mvme188.c:14, of check_for_interrupt: "Called when a change of state in the
\* machine may have enabled an interrupt."  So an interrupt that the processor
\* that runs has enabled is flagged, with no exception for rte, setswi and a
\* switch of processors, which may enable one as well.
NoticedAtOnce ==
  selected \notin masked /\ ist \cap ien[selected] # {} => flag

\* duart.c:275, of the characters that check_tty_line has read in: "Set Rx
\* character available. If Rx interrupts are enabled, generate a CE interrupt."
\* So the status says that there is one while a port with an enabled receiver
\* has one.
ReadInIsReady ==
  \A p \in Port : count[p] > 0 /\ p \in receiving => p \in ready
=============================================================================
