----------------------------- MODULE Breakpoints -----------------------------
(***************************************************************************)
(* Breakpoints in the program: the table of breakpoint.c, and the part of  *)
(* infrun.c that puts them into the program's text and takes them out      *)
(* again: proceed, wait_for_inferior and normal_stop, with the special     *)
(* breakpoint at which "next" and "step" resume after a call.              *)
(*                                                                         *)
(* An address stands for itself and for the instruction that belongs       *)
(* there.  What the program does is left open: from any instruction it     *)
(* may go to any other, a breakpoint may have a condition, and a stop may  *)
(* be inside the line that is being stepped, behind it, or in a call.      *)
(*                                                                         *)
(* The host is sequential; its program counter is phase.  A memory access  *)
(* may fail and the target may take an exception that is no breakpoint:    *)
(* rerr() then unwinds everything to the prompt, without normal_stop.      *)
(***************************************************************************)
EXTENDS Sequences, FiniteSetsExt

CONSTANTS
  Addr,           \* addresses of the program's text
  Trap,           \* the breakpoint instruction
  Zero,           \* what a static array of the debugger holds at first
  NoAddr,         \* step_resume_break_address = 0
  MaxBreakpoints  \* bound: the user keeps this many breakpoints

ASSUME BreakpointsAssumption ==
  /\ Trap \notin Addr \cup {Zero} /\ Zero \notin Addr /\ NoAddr \notin Addr
  /\ MaxBreakpoints \in Nat

VARIABLES
  text,       \* the program as the target would fetch it
  chain,      \* breakpoint_chain
  pc,         \* where the target is stopped, or is executing
  phase,      \* where the host is
  sig,        \* stop_signal
  range,      \* step_range_end # 0: the command is a step, next, stepi, ...
  trap_expected, breakpoints_inserted,
  resume_at, resume_dup, resume_shadow,  \* step_resume_break_address, ...
  remove_following,  \* remove_breakpoints_on_following_step
  stop_bp,    \* stop_breakpoint as an index of chain, 0 for none
  unwound     \* history: rerr has ended a command

table == <<text, chain>>
special == <<resume_at, resume_dup, resume_shadow>>
status == <<sig, range, trap_expected, breakpoints_inserted,
            remove_following, stop_bp>>
vars == <<table, pc, phase, special, status, unwound>>

\* prompt: the command loop; insert: proceed, before insert_breakpoints;
\* running, stepping: the target executes, freely or one instruction;
\* stopped, range, reinsert: wait_for_inferior, from remote_wait down;
\* stop: normal_stop.
Phases == {"prompt", "insert", "running", "stepping", "stopped", "range",
           "reinsert", "stop"}

\* "momentary" is a breakpoint numbered -3, made by finish; it is deleted at
\* the next stop.
Enables == {"disabled", "enabled", "temporary", "delete", "momentary"}

Contents == Addr \cup {Trap, Zero}

Breakpoint ==
  [address : Addr, enable : Enables, inserted : BOOLEAN, duplicate : BOOLEAN,
   shadow : Contents]

Raw(a, e) == [address |-> a, enable |-> e, inserted |-> FALSE,
              duplicate |-> FALSE, shadow |-> Zero]

Init ==
  /\ text = [a \in Addr |-> a]
  /\ chain = << >>
  /\ pc \in Addr
  /\ phase = "prompt"
  /\ sig = "SIGTRAP" /\ range = FALSE
  /\ trap_expected = FALSE /\ breakpoints_inserted = FALSE
  /\ resume_at = NoAddr /\ resume_dup = FALSE /\ resume_shadow = Zero
  /\ remove_following = FALSE
  /\ stop_bp = 0
  /\ unwound = FALSE

-----------------------------------------------------------------------------
(* breakpoint.c: the table.  bs is a chain, i an index of it.              *)

EnabledAt(bs, a) ==
  {i \in DOMAIN bs : bs[i].enable # "disabled" /\ bs[i].address = a}

breakpoint_here_p(a) == EnabledAt(chain, a) # {}

\* Mark the first enabled breakpoint at a and the duplicates behind it; the
\* flag of a disabled one stays as it was.
check_duplicates(bs, a) ==
  [i \in DOMAIN bs |->
     IF i \in EnabledAt(bs, a)
       THEN [bs[i] EXCEPT !.duplicate = \E j \in EnabledAt(bs, a) : j < i]
       ELSE bs[i]]

\* delete_breakpoint, on the program ("text") and the table.
Restored(t, b) == IF b.inserted THEN [t EXCEPT ![b.address] = b.shadow] ELSE t

Deleted(bs, i) ==
  check_duplicates(SubSeq(bs, 1, i - 1) \o SubSeq(bs, i + 1, Len(bs)),
                   bs[i].address)

\* clear_momentary_breakpoints.
MomentaryIn(bs) == {i \in DOMAIN bs : bs[i].enable = "momentary"}

Cleared(t, bs) ==
  IF MomentaryIn(bs) = {} THEN <<t, bs>>
  ELSE LET i == Min(MomentaryIn(bs)) IN <<Restored(t, bs[i]), Deleted(bs, i)>>

\* What insert_breakpoints makes of program t and the table if write k is the
\* one that fails (none, if k > Len(chain)); stored tells whether that write
\* reached the target all the same.
Inserted(i) == chain[i].inserted

\* Mutant: insert the duplicates too.
ToInsert_duplicates(i) == chain[i].enable # "disabled" /\ ~chain[i].inserted

ToInsert(i) == /\ chain[i].enable # "disabled"
               /\ ~chain[i].inserted /\ ~chain[i].duplicate

Done(i, k, stored) == i < k \/ (i = k /\ stored)

WithTraps(t, k, stored) ==
  [a \in Addr |-> IF \E i \in DOMAIN chain : /\ ToInsert(i)
                                             /\ Done(i, k, stored)
                                             /\ chain[i].address = a
                    THEN Trap ELSE t[a]]

AsInserted(t, k) ==
  [i \in DOMAIN chain |->
     IF ToInsert(i) /\ i =< k
       THEN [chain[i] EXCEPT !.inserted = (i < k),
                             !.shadow = WithTraps(t, i, FALSE)[chain[i].address]]
       ELSE chain[i]]

\* The same for remove_breakpoints; the last one at an address prevails.
WithoutTraps(t, k, stored) ==
  [a \in Addr |->
     LET S == {i \in DOMAIN chain : /\ Inserted(i)
                                    /\ Done(i, k, stored)
                                    /\ chain[i].address = a}
     IN  IF S = {} THEN t[a] ELSE chain[Max(S)].shadow]

AsRemoved(k) ==
  [i \in DOMAIN chain |->
     IF i < k THEN [chain[i] EXCEPT !.inserted = FALSE] ELSE chain[i]]

\* How far a pass over the table may get: to its end, or to a breakpoint whose
\* access fails.
Whole(k) == k = Len(chain) + 1

PassTo(Wanted(_), k, stored) ==
  (Whole(k) /\ ~stored) \/ (k \in DOMAIN chain /\ Wanted(k))

\* infrun.c: the special breakpoint.  Mutant: insert it if it is a duplicate.
WithSpecial_duplicate(t, at, dup) ==
  IF at # NoAddr /\ dup THEN [t EXCEPT ![at] = Trap] ELSE t

WithSpecial(t, at, dup) ==
  IF at # NoAddr /\ ~dup THEN [t EXCEPT ![at] = Trap] ELSE t

SpecialShadow(t, at, dup) ==
  IF at # NoAddr /\ ~dup THEN t[at] ELSE resume_shadow

\* Mutant: forget the special breakpoint.
remove_step_breakpoint_not(t) == t

\* Whether or not it has been inserted.
remove_step_breakpoint(t) ==
  IF resume_at # NoAddr /\ ~resume_dup
    THEN [t EXCEPT ![resume_at] = resume_shadow] ELSE t

\* rerr, with the program and the table at t and bs: return_to_top_level
\* clears the momentary breakpoint on the way to the prompt.  (A write that
\* fails there calls rerr again, which tries again.)
rerr(t, bs) ==
  /\ text' = Cleared(t, bs)[1] /\ chain' = Cleared(t, bs)[2]
  /\ phase' = "prompt" /\ unwound' = TRUE

-----------------------------------------------------------------------------
(* Commands at the prompt.                                                 *)

break_command(a, e) ==
  /\ phase = "prompt" /\ Len(chain) < MaxBreakpoints
  /\ chain' = check_duplicates(Append(chain, Raw(a, e)), a)
  /\ UNCHANGED <<text, pc, phase, special, status, unwound>>

delete_command(i) ==
  /\ phase = "prompt"
  /\ text' = Restored(text, chain[i])
  /\ chain' = Deleted(chain, i)
  /\ UNCHANGED <<pc, phase, special, status, unwound>>

\* Mutant: leave the marks of the other breakpoints at that address.
enable_command_unmarked(i, e) ==
  /\ phase = "prompt" /\ chain[i].enable # "momentary"
  /\ chain' = [chain EXCEPT ![i].enable = e]
  /\ UNCHANGED <<text, pc, phase, special, status, unwound>>

\* enable, enable once, enable delete, disable.
enable_command(i, e) ==
  /\ phase = "prompt" /\ chain[i].enable # "momentary"
  /\ chain' = check_duplicates([chain EXCEPT ![i].enable = e],
                               chain[i].address)
  /\ UNCHANGED <<text, pc, phase, special, status, unwound>>

\* "We may have done this after the target went out to lunch, make sure that
\* we've removed any breakpoints."
init_command(k, stored, at) ==
  /\ phase = "prompt"
  /\ PassTo(Inserted, k, stored)
  /\ IF Whole(k)
       THEN /\ text' = remove_step_breakpoint(WithoutTraps(text, k, stored))
            /\ chain' = AsRemoved(k)
            /\ UNCHANGED <<phase, unwound>>
       ELSE rerr(WithoutTraps(text, k, stored), AsRemoved(k))
  /\ pc' = at
  /\ UNCHANGED <<special, status>>

\* load: download the text, mark_breakpoints_out.
load_command ==
  /\ phase = "prompt"
  /\ text' = [a \in Addr |-> a]
  /\ chain' = [i \in DOMAIN chain |-> [chain[i] EXCEPT !.inserted = FALSE]]
  /\ UNCHANGED <<pc, phase, special, status, unwound>>

\* continue, step, finish and jump: clear_proceed_status, set the momentary
\* breakpoint of finish (extra), and proceed up to its insert_breakpoints.  A
\* jump (to) does not step over a breakpoint where it goes.
proceed(step, extra, to) ==
  LET clear == Cleared(text, chain)
      bs == IF extra = NoAddr THEN clear[2]
            ELSE check_duplicates(Append(clear[2], Raw(extra, "momentary")),
                                  extra)
      oneproc == to = NoAddr /\ EnabledAt(bs, pc) # {}
  IN  /\ phase = "prompt"
      /\ extra # NoAddr => Len(chain) < MaxBreakpoints
      /\ pc' = IF to = NoAddr THEN pc ELSE to
      /\ text' = clear[1] /\ chain' = bs
      /\ range' = step
      /\ trap_expected' = oneproc
      /\ resume_at' = NoAddr
      /\ remove_following' = FALSE
      /\ phase' = IF oneproc THEN "stepping" ELSE "insert"
      /\ UNCHANGED <<sig, breakpoints_inserted, resume_dup,
                     resume_shadow, stop_bp, unwound>>

\* The rest of proceed: insert_breakpoints, and resume.
insert_breakpoints(k, stored) ==
  /\ phase = "insert"
  /\ PassTo(ToInsert, k, stored)
  /\ IF Whole(k)
       THEN /\ text' = WithTraps(text, k, stored)
            /\ chain' = AsInserted(text, k)
            /\ breakpoints_inserted' = TRUE
            /\ phase' = IF range THEN "stepping" ELSE "running"
            /\ UNCHANGED unwound
       ELSE /\ rerr(WithTraps(text, k, stored), AsInserted(text, k))
            /\ UNCHANGED breakpoints_inserted
  /\ UNCHANGED <<pc, special, sig, range, trap_expected, remove_following,
                 stop_bp>>

-----------------------------------------------------------------------------
(* The target.                                                             *)

\* It executes an instruction, and a step is complete.
Execute(to) ==
  /\ phase \in {"running", "stepping"}
  /\ text[pc] # Trap
  /\ pc' = to
  /\ IF phase = "stepping"
       THEN phase' = "stopped" /\ sig' \in {"SIGTRAP", "SIGINT"}
       ELSE UNCHANGED <<phase, sig>>
  /\ UNCHANGED <<table, special, range, trap_expected, breakpoints_inserted,
                 remove_following, stop_bp, unwound>>

\* go_remote returns: a breakpoint instruction, a control-C, or both.
Halt ==
  /\ phase = "running"
  /\ phase' = "stopped"
  /\ sig' \in IF text[pc] = Trap THEN {"SIGTRAP", "SIGINT"} ELSE {"SIGINT"}
  /\ UNCHANGED <<table, pc, special, range, trap_expected,
                 breakpoints_inserted, remove_following, stop_bp, unwound>>

\* The program takes another exception, or ss_remote refuses to step the
\* instruction, as it does with every trap.
Fault ==
  /\ phase \in {"running", "stepping"}
  /\ rerr(text, chain)
  /\ UNCHANGED <<pc, special, status>>

-----------------------------------------------------------------------------
(* wait_for_inferior: why did it stop?                                     *)

\* preliminary_trap_handler looks at breakpoints only then.
Unexpected == phase = "stopped" /\ sig = "SIGTRAP" /\ ~trap_expected
AtSpecial == resume_at = pc

\* breakpoint_stop_status finds one that wants us to stop; those before it
\* do not.  One that is enabled once is disabled.
HitBreakpoint(i) ==
  /\ Unexpected /\ ~AtSpecial
  /\ i \in EnabledAt(chain, pc)
  /\ chain' = IF chain[i].enable = "temporary"
                THEN [chain EXCEPT ![i].enable = "disabled"] ELSE chain
  /\ stop_bp' = i
  /\ phase' = "stop"
  /\ UNCHANGED <<text, pc, special, sig, range, trap_expected,
                 breakpoints_inserted, remove_following, unwound>>

\* handle_breakpoint: the special breakpoint, in the right frame.
HitSpecial ==
  /\ Unexpected /\ AtSpecial
  /\ text' = remove_step_breakpoint(text)
  /\ resume_at' = NoAddr
  /\ phase' = "range"
  /\ UNCHANGED <<chain, pc, resume_dup, resume_shadow, status, unwound>>

\* handle_breakpoint: the special one in a recursive call, or none of the
\* breakpoints here wants us to stop.  Take them out and step once.
PassBreakpoint(k, stored) ==
  /\ Unexpected
  /\ PassTo(Inserted, k, stored)
  /\ AtSpecial \/ breakpoint_here_p(pc)
  /\ IF Whole(k)
       THEN /\ text' = remove_step_breakpoint(WithoutTraps(text, k, stored))
            /\ chain' = AsRemoved(k)
            /\ breakpoints_inserted' = FALSE
            /\ trap_expected' = TRUE
            /\ phase' = "range"
            /\ UNCHANGED unwound
       ELSE /\ rerr(WithoutTraps(text, k, stored), AsRemoved(k))
            /\ UNCHANGED <<breakpoints_inserted, trap_expected>>
  /\ UNCHANGED <<pc, special, sig, range, remove_following, stop_bp>>

\* The trap that was expected, or the end of one of a range of steps.
Stepped ==
  /\ phase = "stopped" /\ sig = "SIGTRAP"
  /\ \/ trap_expected
     \/ range /\ resume_at = NoAddr /\ ~breakpoint_here_p(pc)
  /\ trap_expected' = FALSE
  /\ phase' = "range"
  /\ UNCHANGED <<table, pc, special, sig, range, breakpoints_inserted,
                 remove_following, stop_bp, unwound>>

\* Mutant: keep the number of the breakpoint we stopped at before.
RandomSignal_keeps ==
  /\ phase = "stopped"
  /\ \/ sig = "SIGINT"
     \/ /\ Unexpected /\ ~AtSpecial /\ ~breakpoint_here_p(pc)
        /\ ~(range /\ resume_at = NoAddr)
  /\ phase' = "stop"
  /\ UNCHANGED <<table, pc, special, status, unwound>>

\* random_signal: wait_for_inferior has set stop_breakpoint to 0.
RandomSignal ==
  /\ phase = "stopped"
  /\ \/ sig = "SIGINT"
     \/ /\ Unexpected /\ ~AtSpecial /\ ~breakpoint_here_p(pc)
        /\ ~(range /\ resume_at = NoAddr)
  /\ stop_bp' = 0
  /\ phase' = "stop"
  /\ UNCHANGED <<table, pc, special, sig, range, trap_expected,
                 breakpoints_inserted, remove_following, unwound>>

\* handle_stepping: nothing to do, or still within the line.
KeepGoing ==
  /\ phase = "range"
  /\ phase' = "reinsert"
  /\ UNCHANGED <<table, pc, special, status, unwound>>

\* handle_stepping: a call that is stepped over, or to the end of its
\* prologue, or a signal handler that runs first.
CallTo(r, handler) ==
  /\ phase = "range" /\ range /\ resume_at = NoAddr
  /\ resume_at' = r
  /\ resume_dup' = breakpoint_here_p(r)
  /\ IF breakpoints_inserted
       THEN /\ text' = WithSpecial(text, r, resume_dup')
            /\ resume_shadow' = SpecialShadow(text, r, resume_dup')
       ELSE UNCHANGED <<text, resume_shadow>>
  /\ remove_following' = (remove_following \/ handler)
  /\ phase' = "reinsert"
  /\ UNCHANGED <<chain, pc, sig, range, trap_expected, breakpoints_inserted,
                 stop_bp, unwound>>

\* handle_stepping: stop_step.
EndStep ==
  /\ phase = "range" /\ range /\ resume_at = NoAddr
  /\ stop_bp' = 0
  /\ phase' = "stop"
  /\ UNCHANGED <<table, pc, special, sig, range, trap_expected,
                 breakpoints_inserted, remove_following, unwound>>

Resumed ==
  phase' = IF (range /\ resume_at = NoAddr) \/ trap_expected
             THEN "stepping" ELSE "running"

\* The end of the loop: take the breakpoints out, put them in, or leave them
\* (trap_expected is another_trap by now), and resume.
PullOut(k, stored) ==
  /\ phase = "reinsert"
  /\ PassTo(Inserted, k, stored)
  /\ resume_at = NoAddr /\ remove_following
  /\ remove_following' = FALSE
  /\ IF Whole(k)
       THEN /\ text' = WithoutTraps(text, k, stored)
            /\ chain' = AsRemoved(k)
            /\ breakpoints_inserted' = FALSE
            /\ Resumed
            /\ UNCHANGED unwound
       ELSE /\ rerr(WithoutTraps(text, k, stored), AsRemoved(k))
            /\ UNCHANGED breakpoints_inserted
  /\ UNCHANGED <<pc, special, sig, range, trap_expected, stop_bp>>

PutBack(k, stored) ==
  LET t == WithSpecial(text, resume_at, resume_dup)
  IN  /\ phase = "reinsert"
      /\ PassTo(ToInsert, k, stored)
      /\ ~(resume_at = NoAddr /\ remove_following)
      /\ ~breakpoints_inserted /\ ~trap_expected
      /\ resume_shadow' = SpecialShadow(text, resume_at, resume_dup)
      /\ IF Whole(k)
           THEN /\ text' = WithTraps(t, k, stored)
                /\ chain' = AsInserted(t, k)
                /\ breakpoints_inserted' = TRUE
                /\ Resumed
                /\ UNCHANGED unwound
           ELSE /\ rerr(WithTraps(t, k, stored), AsInserted(t, k))
                /\ UNCHANGED breakpoints_inserted
      /\ UNCHANGED <<pc, resume_at, resume_dup, sig, range, trap_expected,
                     remove_following, stop_bp>>

Leave ==
  /\ phase = "reinsert"
  /\ ~(resume_at = NoAddr /\ remove_following)
  /\ breakpoints_inserted \/ trap_expected
  /\ Resumed
  /\ UNCHANGED <<table, pc, special, status, unwound>>

-----------------------------------------------------------------------------
(* normal_stop: take the breakpoints out, delete the one we stopped at if  *)
(* it wants that, and the momentary one.                                   *)

AutoDeleted(t, bs) ==
  IF stop_bp # 0 /\ bs[stop_bp].enable \in {"delete", "momentary"}
    THEN Cleared(Restored(t, bs[stop_bp]), Deleted(bs, stop_bp))
    ELSE Cleared(t, bs)

normal_stop(k, stored) ==
  LET special_out == remove_step_breakpoint(text)
      out == IF breakpoints_inserted
               THEN <<WithoutTraps(special_out, k, stored), AsRemoved(k)>>
               ELSE <<special_out, chain>>
      after == AutoDeleted(out[1], out[2])
  IN  /\ phase = "stop"
      /\ PassTo(Inserted, k, stored)
      /\ ~breakpoints_inserted => Whole(k)
      /\ IF Whole(k)
           THEN /\ text' = after[1] /\ chain' = after[2]
                /\ breakpoints_inserted' = FALSE
                /\ phase' = "prompt"
                /\ UNCHANGED unwound
           ELSE /\ rerr(out[1], out[2])
                /\ UNCHANGED breakpoints_inserted
      /\ UNCHANGED <<pc, special, sig, range, trap_expected,
                     remove_following, stop_bp>>

\* The write that puts the special breakpoint in or takes it out fails.
SpecialFails ==
  /\ resume_at # NoAddr /\ ~resume_dup
  /\ \/ phase = "stop"
     \/ Unexpected /\ AtSpecial
     \/ phase = "reinsert" /\ ~breakpoints_inserted /\ ~trap_expected
  /\ rerr(text, chain)
  /\ UNCHANGED <<pc, special, status>>

-----------------------------------------------------------------------------

Prompt ==
  \/ \E a \in Addr, e \in {"enabled", "temporary"} : break_command(a, e)
  \/ \E i \in DOMAIN chain : delete_command(i)
  \/ \E i \in DOMAIN chain, e \in Enables \ {"momentary"} :
       enable_command(i, e)
  \/ load_command
  \/ \E step \in BOOLEAN : proceed(step, NoAddr, NoAddr)
  \/ \E a \in Addr : proceed(FALSE, a, NoAddr) \/ proceed(FALSE, NoAddr, a)

Target == Halt \/ Fault \/ \E a \in Addr : Execute(a)

Decide ==
  \/ \E i \in DOMAIN chain : HitBreakpoint(i)
  \/ HitSpecial \/ Stepped \/ RandomSignal \/ KeepGoing \/ EndStep \/ Leave
  \/ \E r \in Addr, handler \in BOOLEAN : CallTo(r, handler)
  \/ SpecialFails

Pass(k, stored) ==
  \/ \E a \in Addr : init_command(k, stored, a)
  \/ insert_breakpoints(k, stored) \/ PassBreakpoint(k, stored)
  \/ PullOut(k, stored) \/ PutBack(k, stored) \/ normal_stop(k, stored)

Next ==
  \/ Prompt
  \/ Target
  \/ Decide
  \/ \E k \in 1 .. Len(chain) + 1, stored \in BOOLEAN : Pass(k, stored)

Spec == Init /\ [][Next]_vars

-----------------------------------------------------------------------------

TypeOK ==
  /\ text \in [Addr -> Contents]
  /\ chain \in Seq(Breakpoint) /\ Len(chain) =< MaxBreakpoints
  /\ pc \in Addr /\ phase \in Phases
  /\ sig \in {"SIGTRAP", "SIGINT"}
  /\ {range, trap_expected, breakpoints_inserted, resume_dup,
      remove_following, unwound} \subseteq BOOLEAN
  /\ resume_at \in Addr \cup {NoAddr} /\ resume_shadow \in Contents
  /\ stop_bp \in 0 .. MaxBreakpoints
  /\ phase = "stop" => stop_bp =< Len(chain)

\* The prompt shows the program, not the debugger: after any sequence of
\* stops, passed conditions, steps over calls and deleted breakpoints, no
\* breakpoint instruction is left in the text, unless rerr ended a command.
CleanPrompt ==
  phase = "prompt" /\ ~unwound => \A a \in Addr : text[a] # Trap

\* Breakpoints at one address are inserted once: check_duplicates leaves one
\* of the enabled ones at most unmarked, whatever is deleted, disabled,
\* enabled again or disabled by a hit, and leaves none unmarked only beside a
\* disabled one.
OneFirst ==
  \A a \in Addr :
    LET first == {i \in EnabledAt(chain, a) : ~chain[i].duplicate}
    IN  /\ Cardinality(first) =< 1
        /\ EnabledAt(chain, a) # {} /\ first = {} =>
             \E i \in DOMAIN chain :
               chain[i].address = a /\ chain[i].enable = "disabled"

\* Enabled breakpoints at a that are all marked as duplicates: none is inserted.
Orphaned(a) ==
  /\ EnabledAt(chain, a) # {}
  /\ \A i \in EnabledAt(chain, a) : chain[i].duplicate

\* Whenever the program runs freely, it cannot get past a breakpoint that is
\* to be inserted, nor past the end of the call that is stepped over, whether
\* the special breakpoint or one of the table is to stop it there.  What is
\* left out is a breakpoint of the table that is never inserted itself.
Armed ==
  phase = "running" /\ ~unwound =>
    /\ \A i \in DOMAIN chain :
         chain[i].enable # "disabled" /\ ~chain[i].duplicate
           => text[chain[i].address] = Trap
    /\ resume_at # NoAddr => text[resume_at] = Trap \/ Orphaned(resume_at)

\* infrun.c:1057: "A subroutine call has happened.  Set a special breakpoint
\* after the return."  The program that runs on will stop there.
CallEndIsArmed ==
  phase = "running" /\ ~unwound /\ resume_at # NoAddr => text[resume_at] = Trap

\* The instruction that belongs under a breakpoint.
SpecialIn == resume_at # NoAddr /\ ~resume_dup /\ text[resume_at] = Trap

Beneath(a) ==
  LET S == {i \in DOMAIN chain : Inserted(i) /\ chain[i].address = a}
  IN  IF S # {} THEN chain[Max(S)].shadow
      ELSE IF SpecialIn /\ resume_at = a THEN resume_shadow
      ELSE text[a]

\* A special breakpoint that is recorded but not in the text.
Phantom == resume_at # NoAddr /\ ~resume_dup /\ text[resume_at] # Trap

\* Shadows are put back where and when they belong: what lies beneath the
\* breakpoints changes only with a load, or, at one address, when normal_stop
\* or init takes out a special breakpoint that is not there.
OnlyPhantomsDamage ==
  [][~unwound' =>
       \/ phase = "prompt" /\ \A a \in Addr : text'[a] = a
       \/ \A a \in Addr :
            \/ Beneath(a)' = Beneath(a)
            \/ phase \in {"stop", "prompt"} /\ Phantom /\ a = resume_at]_vars

\* infrun.c:195: step_resume_break_shadow is the "original contents of the byte
\* where the special breakpoint is".  normal_stop writes it back.
ShadowIsOriginal ==
  phase = "stop" /\ ~unwound /\ resume_at # NoAddr /\ ~resume_dup
    => resume_shadow = resume_at

\* remcmd.c:579: "We may have done this after the target went out to lunch, make
\* sure that we've removed any breakpoints."  An init that gets to its end
\* leaves no breakpoint instruction in the program.
InitRemovesAll ==
  [][\A at \in Addr :
       init_command(Len(chain) + 1, FALSE, at) => \A a \in Addr : text'[a] # Trap]_vars

\* breakpoint.c:669: the first enabled breakpoint at an address is marked as
\* first "so that the bpt instruction is only inserted once": once, not never.
EnabledIsInserted ==
  phase = "running" /\ ~unwound =>
    \A i \in DOMAIN chain :
      chain[i].enable # "disabled" => text[chain[i].address] = Trap
=============================================================================
