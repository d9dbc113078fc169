-------------------------------- MODULE Link --------------------------------
(***************************************************************************)
(* The conversation of g88 (remote.c) with the monitor (hmon/mon.c) over a *)
(* serial line: commands and replies, checksums, damaged and lost          *)
(* characters, control-C, time-outs and the reset of the target.           *)
(*                                                                         *)
(* Towards the target a character string that begins with a command is one *)
(* frame.  Towards the host, where the reading is done in small steps, a   *)
(* token (COMMAND_PREFIX1, a code and its operands) and a word are one     *)
(* item each.  Commands differ in what the host waits for; what they read  *)
(* or write is left open.                                                  *)
(***************************************************************************)
EXTENDS Sequences, Integers

CONSTANTS
  MaxRequests,   \* bound: commands that the user gives
  MaxFaults,     \* bound: characters that the line loses or damages
  MaxNested      \* bound: control-Cs that are being handled at once

ASSUME LinkAssumption == {MaxRequests, MaxFaults, MaxNested} \subseteq Nat

VARIABLES
  phase,          \* where the host waits; "prompt": nowhere
  interrupted,    \* what remote_request_quit has interrupted, innermost first
  masked,         \* splhi: SIGINT is blocked
  seen,           \* what went into checksum since init_checksum
  ignore_errors, trying_to_sync, target_running,
  attention,      \* resetting_remote or nmiing_remote
  out,            \* output_buffer
  inbuf,          \* input_buffer
  tx, rx,         \* the line, with what its two ends have not read
  monitor,        \* what the target's CPU does
  flipflop,       \* the abort flip-flop
  started,        \* the command that started the program
  asked,          \* history: the last command
  answer,         \* history: the command to which belongs what was taken for
                  \* the answer to the last one
  broken,         \* history: the prompt by rerr or by a control-C that gives
                  \* up, since the last successful init
  faults          \* faults of the line so far

flags == <<ignore_errors, trying_to_sync, target_running, attention>>
line == <<out, inbuf, tx, rx>>
target == <<monitor, flipflop, started>>
history == <<asked, answer, broken>>
vars == <<phase, interrupted, masked, seen, flags, line, target, history,
          faults>>

Item(t, r) == [t |-> t, id |-> r]
Frame(t, r) == [t |-> t, id |-> r, good |-> TRUE]

Exceptions == {"TR_RESET", "TR_BPT", "TR_INT"}
Tokens == {"C_DATASTART", "C_DATAEND", "C_ACK", "C_SYNC"}
Words == {"word", "checksum", "noise"}  \* do not begin with COMMAND_PREFIX1
Errors == {"error"}                     \* C_CHECKSUMERR, C_BADCOMMAND, ...

\* upload_cmd's reply; its checksum is over the first three.
Reply(r) == << Item("C_DATASTART", r), Item("word", r), Item("C_DATAEND", r),
               Item("checksum", r) >>

\* prompt; reply, data, dataend, sum: forced_read_remote, read_remote; ack:
\* write_remote; goack, running: go_remote; sync, nmi: interrupt_remote; reset:
\* reset_remote; astray: the host has jumped into a frame that is gone.
Phases == {"prompt", "reply", "data", "dataend", "sum", "ack", "goack",
           "running", "sync", "nmi", "reset", "astray"}

\* What wait_for_token and wait_for_exception wait for.
Token == [reply |-> "C_DATASTART", dataend |-> "C_DATAEND", ack |-> "C_ACK",
          goack |-> "C_ACK", sync |-> "C_SYNC"]

\* interrupt_remote reads registers (through read_remote, as request 0) once it
\* has its exception.
Examining ==
  interrupted # << >> /\ phase \in {"reply", "data", "dataend", "sum"}

Expected == [running |-> "TR_BPT", nmi |-> "TR_INT", reset |-> "TR_RESET"]

Init ==
  /\ phase = "prompt" /\ interrupted = << >> /\ masked = FALSE
  /\ seen = << >>
  /\ ignore_errors = FALSE /\ trying_to_sync = FALSE
  /\ target_running = FALSE /\ attention = FALSE
  /\ out = << >> /\ inbuf = << >> /\ tx = << >> /\ rx = << >>
  /\ monitor = "loop" /\ flipflop = FALSE /\ started = 0
  /\ asked = 0 /\ answer = 0 /\ broken = FALSE
  /\ faults = 0

From(s, n) == SubSeq(s, n, Len(s))

-----------------------------------------------------------------------------
(* Reading.                                                                *)

\* get_remote_char has something to read, and n characters are read at once;
\* output is sent only when the input buffer is empty.
Readable == inbuf # << >> \/ (out = << >> /\ rx # << >>)

c == IF inbuf # << >> THEN Head(inbuf) ELSE Head(rx)

Buffered(n) == IF inbuf # << >> THEN Tail(inbuf) ELSE SubSeq(rx, 2, n)
Unread(n) == IF inbuf # << >> THEN rx ELSE From(rx, n + 1)

Batch == IF inbuf # << >> THEN {1} ELSE DOMAIN rx

\* While checksumming is set, which init_checksum does for a reply, each
\* character goes into the checksum.  (Four are not the three of a reply.)
Summed(p) ==
  IF p \notin {"reply", "data", "dataend"} \/ Len(seen) > 3 THEN seen
  ELSE Append(seen, c)

read_char(n) ==
  /\ Readable
  /\ inbuf' = Buffered(n) /\ rx' = Unread(n)
  /\ UNCHANGED <<out, tx, target, faults>>

\* flush_tty_line after that: of what is on its way, m have arrived.
read_and_flush(n, m) ==
  /\ Readable
  /\ inbuf' = Buffered(n) /\ rx' = From(Unread(n), m + 1)
  /\ out' = << >>
  /\ UNCHANGED <<tx, target, faults>>

\* get_remote_char with nothing to read: it sends, or it times out and lets
\* control-C through.
flush_output_buffer ==
  /\ phase \notin {"prompt", "astray"} /\ inbuf = << >> /\ out # << >>
  /\ tx' = tx \o out /\ out' = << >>
  /\ UNCHANGED <<phase, interrupted, masked, seen, flags, inbuf, rx, target,
                 history, faults>>

Dry == phase \notin {"prompt", "astray"} /\ inbuf \o out \o rx = << >>

KeepWaiting ==
  /\ Dry /\ masked
  /\ masked' = FALSE
  /\ UNCHANGED <<phase, interrupted, seen, flags, line, target, history,
                 faults>>

-----------------------------------------------------------------------------
(* Ends of commands.                                                       *)

\* Mutant: rerr forgets spllo.
ToPrompt_blocked ==
  /\ phase' = "prompt" /\ interrupted' = << >>
  /\ seen' = << >> /\ UNCHANGED masked

ToPrompt ==
  /\ phase' = "prompt" /\ interrupted' = << >>
  /\ masked' = FALSE /\ seen' = << >>

\* rerr: an error message, spllo and return_to_top_level.
rerr == ToPrompt /\ broken' = TRUE /\ answer' = 0 /\ UNCHANGED asked

\* The command is over; what it took for its answer belongs to r.
Completed(r) == ToPrompt /\ answer' = r /\ UNCHANGED <<asked, broken>>

Proceed(to) ==
  /\ phase' = to /\ seen' = Summed(phase)
  /\ UNCHANGED <<interrupted, masked, history>>

-----------------------------------------------------------------------------
(* Commands at the prompt.                                                 *)

send_request(command, wait) ==
  /\ phase = "prompt" /\ asked < MaxRequests
  /\ asked' = asked + 1
  /\ out' = Append(out, Frame(command, asked'))
  /\ phase' = wait /\ masked' = TRUE /\ seen' = << >>
  /\ UNCHANGED <<interrupted, flags, inbuf, tx, rx, target, answer, broken,
                 faults>>

forced_read_remote == send_request("C_UPLOAD", "reply")
write_remote == send_request("C_DOWNLOAD", "ack")
go_remote == send_request("C_GO", "goack")

\* interrupt_command only pulls the line.
interrupt_command ==
  /\ phase = "prompt"
  /\ flipflop' = TRUE
  /\ UNCHANGED <<phase, interrupted, masked, seen, flags, line, monitor,
                 started, history, faults>>

flush_command ==
  /\ phase = "prompt"
  /\ \E m \in 0 .. Len(rx) : rx' = From(rx, m + 1)
  /\ out' = << >>
  /\ UNCHANGED <<phase, interrupted, masked, seen, flags, inbuf, tx, target,
                 history, faults>>

\* Mutant: without flush_tty_line.
reset_remote_unflushed ==
  /\ phase = "prompt"
  /\ inbuf' = << >> /\ out' = << >> /\ tx' = << >>
  /\ ignore_errors' = FALSE /\ target_running' = FALSE /\ attention' = TRUE
  /\ monitor' = "booting" /\ started' = 0
  /\ phase' = "reset" /\ seen' = << >>
  /\ UNCHANGED <<interrupted, masked, trying_to_sync, rx, flipflop, history,
                 faults>>

\* reset_remote up to its wait: init_globals, flush_tty_line (by the time the
\* user has typed init, all that was on its way has arrived) and
\* send_reset_signal.  init_globals cannot reach trying_to_sync.
reset_remote ==
  /\ phase = "prompt"
  /\ inbuf' = << >> /\ out' = << >> /\ rx' = << >> /\ tx' = << >>
  /\ ignore_errors' = FALSE /\ target_running' = FALSE /\ attention' = TRUE
  /\ monitor' = "booting" /\ started' = 0
  /\ phase' = "reset" /\ seen' = << >>
  /\ UNCHANGED <<interrupted, masked, trying_to_sync, flipflop, history,
                 faults>>

-----------------------------------------------------------------------------
(* wait_for_token.                                                         *)

AtToken == phase \in DOMAIN Token /\ Readable

Stray == c.t \in Words

\* It returns something else than the token, with or without a message.
Without == \/ c.t \in Exceptions
           \/ Stray /\ ignore_errors
           \/ c.t \in Errors /\ target_running

WrongToken == c.t \in Tokens \ {"C_SYNC", Token[phase]}

FindToken(n) ==
  /\ AtToken /\ c.t = Token[phase]
  /\ read_char(n)
  /\ CASE phase = "reply" -> Proceed("data") /\ UNCHANGED flags
       [] phase = "dataend" -> Proceed("sum") /\ UNCHANGED flags
       [] phase = "ack" -> Completed(c.id) /\ UNCHANGED flags
       [] phase = "goack" ->
            /\ target_running' = TRUE
            /\ phase' = "running" /\ masked' = FALSE /\ answer' = c.id
            /\ UNCHANGED <<interrupted, seen, ignore_errors, trying_to_sync,
                           attention, asked, broken>>
       [] phase = "sync" ->
            /\ trying_to_sync' = FALSE
            /\ phase' = Head(interrupted).phase
            /\ interrupted' = Tail(interrupted)
            /\ seen' = Summed(phase')
            /\ UNCHANGED <<masked, ignore_errors, target_running, attention,
                           history>>

SkipSync(n) ==
  /\ AtToken /\ c.t = "C_SYNC" /\ phase # "sync"
  /\ read_char(n)
  /\ seen' = Summed(phase)
  /\ UNCHANGED <<phase, interrupted, masked, flags, history>>

\* forced_read_remote that goes without returns zero, go_remote says that it
\* found no C_ACK, and the others call rerr.
MissToken(n) ==
  /\ AtToken /\ Without /\ phase # "sync"
  /\ read_char(n)
  /\ CASE phase = "reply" /\ ~Examining -> Completed(0)
       [] phase = "goack" -> Completed(c.id)
       [] OTHER -> rerr
  /\ UNCHANGED flags

TokenError(n, m) ==
  /\ AtToken
  /\ \/ WrongToken /\ read_and_flush(n, m)
     \/ /\ \/ Stray /\ ~ignore_errors
           \/ c.t \in Errors /\ ~target_running
        /\ m = 0 /\ read_char(n)
  /\ rerr
  /\ UNCHANGED flags

\* get_word: a command in the place of data is an error, as a rule.
GetWord(n) ==
  /\ phase = "data" /\ Readable
  /\ read_char(n)
  /\ IF c.t \in Words \/ (c.t \in Errors /\ target_running)
       THEN /\ phase' = "dataend" /\ seen' = Summed(phase)
            /\ answer' = CASE ~Examining -> c.id
                           [] Examining /\ c.id = 0 -> answer
                           [] OTHER -> 0
            /\ UNCHANGED <<interrupted, masked, asked, broken>>
       ELSE rerr
  /\ UNCHANGED flags

\* Mutant: any word will do.
ChecksumAgrees_never_compared == c.t \in Words

ChecksumAgrees == c.t = "checksum" /\ seen = SubSeq(Reply(c.id), 1, 3)

\* The frame that longjmp(controlc_env) unwinds to: go_remote's.
InGoRemote == Head(interrupted).phase = "running"

\* interrupt_remote and remote_request_quit return, to what was interrupted or,
\* if the target was running, to controlc_env.
Return ==
  /\ ignore_errors' = FALSE /\ attention' = FALSE
  /\ UNCHANGED <<trying_to_sync, target_running>>
  /\ IF ~Head(interrupted).running
       THEN /\ phase' = Head(interrupted).phase
            /\ interrupted' = Tail(interrupted)
            /\ masked' = FALSE /\ UNCHANGED <<seen, history>>
       ELSE IF InGoRemote THEN Completed(answer)
       ELSE phase' = "astray" /\ UNCHANGED <<interrupted, masked, seen, history>>

verify_checksum(n) ==
  /\ phase = "sum" /\ Readable
  /\ read_char(n)
  /\ CASE ~ChecksumAgrees -> rerr /\ UNCHANGED flags
       [] ChecksumAgrees /\ Examining -> Return
       [] OTHER -> Completed(answer) /\ UNCHANGED flags

-----------------------------------------------------------------------------
(* wait_for_exception.                                                     *)

AtException == phase \in DOMAIN Expected /\ Readable

\* Mutant: target_running is cleared when the target is interrupted or reset,
\* not when it stops by itself.
TakeException_still_running(n) ==
  /\ AtException /\ c.t \in Exceptions
  /\ phase = "nmi" => c.t # "TR_INT"
  /\ read_char(n)
  /\ target_running' = (target_running /\ c.t = "TR_BPT")
  /\ UNCHANGED <<ignore_errors, trying_to_sync>>
  /\ \/ c.t # Expected[phase] /\ rerr /\ UNCHANGED attention
     \/ /\ c.t = Expected[phase] /\ phase = "running"
        /\ Completed(c.id) /\ UNCHANGED attention
     \/ /\ c.t = Expected[phase] /\ phase = "reset"
        /\ ToPrompt /\ attention' = FALSE
        /\ broken' = FALSE /\ answer' = asked /\ UNCHANGED asked

TakeException(n) ==
  /\ AtException /\ c.t \in Exceptions
  /\ phase = "nmi" => c.t # "TR_INT"
  /\ read_char(n)
  /\ target_running' = FALSE
  /\ UNCHANGED <<ignore_errors, trying_to_sync>>
  /\ \/ c.t # Expected[phase] /\ rerr /\ UNCHANGED attention
     \/ /\ c.t = Expected[phase] /\ phase = "running"
        /\ Completed(c.id) /\ UNCHANGED attention
     \/ /\ c.t = Expected[phase] /\ phase = "reset"
        /\ ToPrompt /\ attention' = FALSE
        /\ broken' = FALSE /\ answer' = asked /\ UNCHANGED asked

\* The interrupt worked: where is the target?
TakeInterrupt(n) ==
  /\ phase = "nmi" /\ Readable /\ c.t = "TR_INT"
  /\ inbuf' = Buffered(n) /\ rx' = Unread(n)
  /\ target_running' = FALSE
  /\ phase' = "reply" /\ masked' = TRUE /\ seen' = << >>
  /\ out' = Append(out, Frame("C_UPLOAD", 0))
  /\ answer' = IF InGoRemote THEN c.id ELSE answer
  /\ UNCHANGED <<interrupted, ignore_errors, trying_to_sync, attention, tx,
                 target, asked, broken, faults>>

\* An error token ends the wait.  While the target runs go_remote returns
\* without a message of its own; interrupt_remote clears nmiing_remote.
ExceptionError(n) ==
  /\ AtException
  /\ \/ c.t \in Errors
     \/ c.t \in Tokens /\ ~ignore_errors
  /\ read_char(n)
  /\ IF c.t \in Errors /\ target_running /\ phase = "running"
       THEN Completed(answer) ELSE rerr
  /\ attention' = (attention /\ ~(phase = "nmi" /\ c.t \in Errors
                                   /\ target_running))
  /\ UNCHANGED <<ignore_errors, trying_to_sync, target_running>>

SkipChar(n) ==
  /\ AtException
  /\ \/ Stray /\ UNCHANGED masked
     \/ c.t \in Tokens /\ ignore_errors /\ masked' = TRUE
  /\ read_char(n)
  /\ UNCHANGED <<phase, interrupted, seen, flags, history>>

-----------------------------------------------------------------------------
(* remote_request_quit and interrupt_remote.                               *)

Interrupted ==
  <<[phase |-> phase, running |-> target_running]>> \o interrupted

\* Interrupt the target, with m characters flushed before.
send_interrupt_signal ==
  /\ phase' = "nmi"
  /\ trying_to_sync' = FALSE /\ attention' = TRUE /\ ignore_errors' = TRUE
  /\ flipflop' = TRUE
  /\ seen' = << >>
  /\ UNCHANGED <<masked, target_running, tx, monitor, started, history,
                 faults>>

Quittable == ~masked /\ phase # "astray"

QuitWait ==
  /\ Quittable /\ attention
  /\ attention' = FALSE
  /\ rerr
  /\ UNCHANGED <<ignore_errors, trying_to_sync, target_running, line, target,
                 faults>>

\* The target is in the monitor, we think: is it listening?
Sync(m) ==
  /\ Quittable /\ ~attention /\ ~trying_to_sync /\ ~target_running
  /\ Len(interrupted) < MaxNested
  /\ interrupted' = Interrupted
  /\ phase' = "sync" /\ trying_to_sync' = TRUE
  /\ out' = << >> /\ rx' = From(rx, m + 1)
  /\ tx' = Append(tx, Frame("C_SYNC", 0))
  /\ UNCHANGED <<masked, seen, ignore_errors, target_running, attention,
                 inbuf, target, history, faults>>

Nmi(m) ==
  /\ Quittable /\ ~attention /\ (trying_to_sync \/ target_running)
  /\ Len(interrupted) < MaxNested
  /\ interrupted' = Interrupted
  /\ send_interrupt_signal
  /\ out' = << >> /\ rx' = From(rx, m + 1) /\ UNCHANGED inbuf

\* No C_SYNC came back: a time-out, or something else instead.
SyncTimeout ==
  /\ phase = "sync" /\ Dry
  /\ send_interrupt_signal
  /\ UNCHANGED <<interrupted, out, inbuf, rx>>

SyncWithout(n, m) ==
  /\ phase = "sync" /\ Readable /\ Without
  /\ inbuf' = Buffered(n) /\ rx' = From(Unread(n), m + 1) /\ out' = << >>
  /\ send_interrupt_signal
  /\ UNCHANGED interrupted

\* The exception does not come in time, or not yet.
ExceptionTimeout ==
  /\ phase \in {"nmi", "reset"} /\ Dry
  /\ attention' = FALSE
  /\ rerr
  /\ UNCHANGED <<ignore_errors, trying_to_sync, target_running, line, target,
                 faults>>

-----------------------------------------------------------------------------
(* The target.                                                             *)

Host == <<phase, interrupted, masked, seen, flags, out, inbuf, history>>

Send(items) == rx' = rx \o items

\* The monitor is entered; debug_mon_entry clears the flip-flop.
Enter(code) ==
  /\ monitor' = "loop" /\ flipflop' = FALSE /\ started' = 0
  /\ Send(<<Item(code, started)>>)

Boot ==
  /\ monitor = "booting"
  /\ Enter("TR_RESET")
  /\ UNCHANGED <<Host, tx, faults>>

Stop ==
  /\ monitor = "running"
  /\ \/ Enter("TR_BPT")
     \/ flipflop /\ Enter("TR_INT")
  /\ UNCHANGED <<Host, tx, faults>>

Arriving == tx # << >> /\ tx' = Tail(tx)

Serve ==
  /\ monitor = "loop" /\ Arriving /\ Head(tx).good
  /\ LET f == Head(tx) IN
       \/ /\ f.t = "C_UPLOAD" /\ Send(Reply(f.id))
          /\ UNCHANGED <<monitor, started>>
       \/ /\ f.t = "C_DOWNLOAD" /\ Send(<<Item("C_ACK", f.id)>>)
          /\ UNCHANGED <<monitor, started>>
       \/ /\ f.t = "C_SYNC" /\ Send(<<Item("C_SYNC", 0)>>)
          /\ UNCHANGED <<monitor, started>>
       \/ /\ f.t = "C_GO" /\ Send(<<Item("C_ACK", f.id)>>)
          /\ monitor' = "running" /\ started' = f.id
       \* A data access exception: the monitor says nothing more.
       \/ /\ f.t \in {"C_UPLOAD", "C_DOWNLOAD"} /\ UNCHANGED <<rx, started>>
          /\ monitor' = "deaf"
  /\ UNCHANGED <<Host, flipflop, faults>>

Error(n) == Send([i \in 1 .. n |-> Item("error", 0)])

\* A frame that is damaged: an unknown command (and then C_END is another), an
\* error that ends in xrestart, or a command that wants more characters.
Misread ==
  /\ monitor = "loop" /\ Arriving /\ ~Head(tx).good
  /\ \/ \E n \in 0 .. 2 : Error(n) /\ UNCHANGED monitor
     \/ Error(1) /\ monitor' = "deaf"
     \/ UNCHANGED rx /\ monitor' = "hungry"
  /\ UNCHANGED <<Host, flipflop, started, faults>>

Swallow ==
  /\ monitor = "hungry" /\ Arriving
  /\ \/ Error(1) /\ monitor' = "deaf"
     \/ UNCHANGED <<rx, monitor>>
  /\ UNCHANGED <<Host, flipflop, started, faults>>

\* xrestart leaves the CPU in wait_quietly, where it clears the flip-flop; a
\* program does not read the line, whose receiver is overrun.
Ignore ==
  /\ \/ monitor \in {"deaf", "running"} /\ Arriving /\ UNCHANGED flipflop
     \/ monitor = "deaf" /\ flipflop /\ flipflop' = FALSE /\ UNCHANGED tx
  /\ UNCHANGED <<Host, rx, monitor, started, faults>>

-----------------------------------------------------------------------------
(* The line.                                                               *)

Fault ==
  /\ faults < MaxFaults
  /\ faults' = faults + 1
  /\ \/ /\ \E i \in DOMAIN tx : tx' = [tx EXCEPT ![i].good = FALSE]
        /\ UNCHANGED rx
     \/ /\ \E i \in DOMAIN rx : \/ rx' = [rx EXCEPT ![i] = Item("noise", 0)]
                                \/ rx' = SubSeq(rx, 1, i - 1) \o From(rx, i + 1)
        /\ UNCHANGED tx
  /\ UNCHANGED <<Host, target>>

-----------------------------------------------------------------------------

Command ==
  \/ forced_read_remote \/ write_remote \/ go_remote
  \/ interrupt_command \/ flush_command \/ reset_remote

Read(n) ==
  \/ FindToken(n) \/ SkipSync(n) \/ MissToken(n)
  \/ GetWord(n) \/ verify_checksum(n)
  \/ TakeException(n) \/ TakeInterrupt(n) \/ ExceptionError(n) \/ SkipChar(n)

Target == Boot \/ Stop \/ Serve \/ Misread \/ Swallow \/ Ignore

Next ==
  \/ Command
  \/ flush_output_buffer \/ KeepWaiting
  \/ \E n \in Batch : Read(n)
  \/ \E n \in Batch : \E m \in 0 .. Len(Unread(n)) :
       TokenError(n, m) \/ SyncWithout(n, m)
  \/ \E m \in 0 .. Len(rx) : Sync(m) \/ Nmi(m)
  \/ QuitWait \/ SyncTimeout \/ ExceptionTimeout
  \/ Target
  \/ Fault

Spec == Init /\ [][Next]_vars

-----------------------------------------------------------------------------

Items == [t : Exceptions \cup Tokens \cup Words \cup Errors,
          id : 0 .. MaxRequests]

Frames == [t : {"C_UPLOAD", "C_DOWNLOAD", "C_GO", "C_SYNC"},
           id : 0 .. MaxRequests, good : BOOLEAN]

TypeOK ==
  /\ phase \in Phases
  /\ interrupted \in Seq([phase : Phases, running : BOOLEAN])
  /\ Len(interrupted) =< MaxNested
  /\ phase \in {"sync", "nmi"} => interrupted # << >>
  /\ phase = "prompt" => interrupted = << >> /\ ~masked
  /\ {masked, ignore_errors, trying_to_sync, target_running, attention,
      flipflop, broken} \subseteq BOOLEAN
  /\ {seen, inbuf, rx} \subseteq Seq(Items) /\ Len(seen) =< 4
  /\ {out, tx} \subseteq Seq(Frames)
  /\ monitor \in {"loop", "running", "booting", "deaf", "hungry"}
  /\ {started, asked, answer} \subseteq 0 .. MaxRequests
  /\ faults \in 0 .. MaxFaults

\* An answer belongs to the command that was asked: whatever the line loses or
\* damages, wherever the user types control-C, a command that ends without an
\* error message and is not given up has had its own reply, and an init makes
\* up for all that has gone wrong before.
Trusted == phase = "prompt" /\ ~broken => answer = asked

\* And then the conversation is over on both sides: nothing is on its way that
\* the next command could take for its answer, and the host is right about
\* what the target does: its monitor is listening.
QuietPrompt ==
  phase = "prompt" /\ ~broken =>
    /\ out \o tx = << >> /\ inbuf \o rx = << >>
    /\ monitor = "loop"
    /\ ~target_running /\ ~ignore_errors /\ ~attention

\* remote.c:1259: "Attempt to interrupt the target.  If we are successful,
\* unwind the stack and let go_remote return to its caller."  The jump finds
\* go_remote's frame gone only after a command that failed, with or without an
\* answer from the target, has left the host to think that the target runs.
JumpsIntoGoRemote == phase = "astray" => broken

\* remote.c:48, of ignore_errors: "True while interrupting target".  So it does
\* not outlive the interrupt: with it, the token and words of a reply that do
\* not come are taken for zero without an error (remote.c:555-558).
IgnoresOnlyInterrupting == phase = "prompt" => ~ignore_errors
=============================================================================
