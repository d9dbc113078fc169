-------------------------------- MODULE Cmmu --------------------------------
(***************************************************************************)
(* The 88200 CMMUs of the simulator (sim/cmmu.c) and what the simulator    *)
(* keeps so as not to ask them: the load and store TLBs of l_mem_op and    *)
(* the cache of decoded code pages of l_to_d (misc.c).                     *)
(*                                                                         *)
(* Each CPU has a data and a code CMMU.  The TLBs and the code cache are   *)
(* one set for the whole simulator and belong to the selected CPU.  They   *)
(* are filled by what the program does and emptied by what it writes to    *)
(* the CMMU registers, and an access that hits them is not translated      *)
(* again.                                                                  *)
(*                                                                         *)
(* Logical and physical pages are the numbers of Page.  A segment          *)
(* descriptor's page table is part of the table that holds it.  History:   *)
(* since[<<s, m, p>>] is the set of translations that page p has had, on   *)
(* side s and in mode m of the selected CPU, since the program last        *)
(* flushed it.                                                             *)
(***************************************************************************)
EXTENDS Integers

CONSTANTS
  CPU,         \* the processors (0 .. 3 in the code)
  PageMax,     \* pages are 0 .. PageMax
  BlockSize,   \* pages that a BATC entry maps (128 in the code)
  SegSize,     \* pages that a segment descriptor maps (1024 in the code)
  Control,     \* the supervisor's control memory, mapped by hardwired BATCs
  Memory,      \* the physical pages below memory_size; the others are I/O
  Port,        \* the BATC registers of a CMMU, 1 .. 8 in the code
  DECMAX,      \* entries of the code cache in each mode
  Table,       \* segment tables that the program keeps in memory
  Broken,      \* those of them that lie where nothing answers
  BatcMenu,    \* what the program writes to BATC registers
  SegMenu,     \* and to segment descriptors
  PageMenu,    \* and to page descriptors
  InitSegd,    \* the segment descriptors that memory holds at first
  InitPd,      \* and the page descriptors
  InitArea,    \* the area descriptors that it has set up
  Touched,     \* the <<side, mode, page>> triples that it uses
  MaxEdits,    \* bound: changes that the program makes to its mappings
  NoFrame,     \* no entry, no translation
  Off          \* an area descriptor that is not valid

Page == 0 .. PageMax
Seg  == {p \div SegSize : p \in Page}
Mode == {"M_USER", "M_SUPERVISOR"}
Side == {"data", "code"}
Slot == 1 .. DECMAX

Batc == [valid : BOOLEAN, supervisor : Mode, writeprotect : BOOLEAN,
         l_base : Int, p_base : Int]
SegDesc == [valid : BOOLEAN, supervisor_only : BOOLEAN, writeprotect : BOOLEAN]
PageDesc == [valid : BOOLEAN, supervisor_only : BOOLEAN, writeprotect : BOOLEAN,
             used : BOOLEAN, modified : BOOLEAN, frame : Page]

ASSUME CmmuAssumption ==
  /\ PageMax \in Nat /\ BlockSize \in Nat \ {0} /\ SegSize \in Nat \ {0}
  /\ DECMAX \in Nat \ {0} /\ MaxEdits \in Nat /\ Port \subseteq Nat
  /\ Control \subseteq Page /\ Memory \subseteq Page /\ Broken \subseteq Table
  /\ Touched \subseteq Side \X Mode \X Page
  /\ InitArea \in [CPU -> [Side -> [Mode -> Table \cup {Off}]]]
  /\ BatcMenu \subseteq Batc /\ SegMenu \subseteq SegDesc
  /\ PageMenu \subseteq PageDesc
  /\ InitSegd \in [Table -> [Seg -> SegDesc]]
  /\ InitPd \in [Table -> [Page -> PageDesc]]
  /\ NoFrame \notin Page /\ Off \notin Table

ASSUME BatcInRange ==
  \A b \in BatcMenu, p \in Page :
     b.p_base * BlockSize + (p % BlockSize) \in Page

VARIABLES
  area,      \* area[c][s][m]: SAPR and UAPR of CPU c's CMMU on side s
  batc,      \* batc[c][s][i]: its BATC registers
  segd,      \* segment descriptors in memory
  pd,        \* page descriptors in memory
  ltlb,      \* ltlb[m][p]: u_load_tlb and s_load_tlb
  stlb,      \* stlb[m][p]: u_store_tlb and s_store_tlb
  deccache,  \* deccache[m][k]: the code pages that l_to_d remembers
  nextdecp,  \* the slot that l_to_d fills next in each mode
  sel,       \* selected_processor
  since,     \* history: translations since the program's last flush
  edits      \* the changes made so far, for MaxEdits

tables == <<area, batc, segd, pd>>
tlbs   == <<ltlb, stlb>>
code   == <<deccache, nextdecp>>
vars   == <<tables, tlbs, code, sel, since, edits>>

BlockOf(p) == p \div BlockSize
SegOf(p)   == p \div SegSize

NoBatc  == [valid |-> FALSE, supervisor |-> "M_USER", writeprotect |-> FALSE,
            l_base |-> 0, p_base |-> 0]
NoEntry == [page |-> NoFrame, frame |-> NoFrame]

(***************************************************************************)
(* Translation: l_to_p, always in the CMMU of the selected CPU.            *)
(***************************************************************************)
Fixed(m, p) == m = "M_SUPERVISOR" /\ p \in Control

\* The BATC entries that map p; the search takes the first of them.
Hits(c, s, m, p) ==
  {i \in Port : LET b == batc[c][s][i] IN
                  b.valid /\ b.l_base = BlockOf(p) /\ b.supervisor = m}

BatcOf(c, s, m, p) ==
  batc[c][s][CHOOSE i \in Hits(c, s, m, p) :
                \A j \in Hits(c, s, m, p) : i <= j]

\* The translation goes through the tables in memory.
Paged(c, s, m, p) ==
  ~Fixed(m, p) /\ area[c][s][m] # Off /\ Hits(c, s, m, p) = {}

\* The walk finds valid descriptors that admit the mode.
Walked(c, s, m, p) ==
  LET t == area[c][s][m]
      d == segd[t][SegOf(p)]
      e == pd[t][p]
  IN  /\ t \notin Broken
      /\ d.valid /\ ~(m = "M_USER" /\ d.supervisor_only)
      /\ e.valid /\ ~(m = "M_USER" /\ e.supervisor_only)

Straight(f, w) ==
  [frame |-> f, write |-> w, paged |-> FALSE, used |-> FALSE, modified |-> FALSE]

\* What l_to_p makes of page p: the physical page, whether a write is
\* admitted, and the bits of the page descriptor it came from.
Xlate(c, s, m, p) ==
  CASE Fixed(m, p) -> Straight(p, TRUE)
    [] ~Fixed(m, p) /\ area[c][s][m] = Off -> Straight(p, TRUE)
    [] ~Fixed(m, p) /\ area[c][s][m] # Off /\ Hits(c, s, m, p) # {} ->
         LET b == BatcOf(c, s, m, p)
         IN  Straight(b.p_base * BlockSize + (p % BlockSize), ~b.writeprotect)
    [] Paged(c, s, m, p) /\ Walked(c, s, m, p) ->
         LET e == pd[area[c][s][m]][p]
         IN  [frame |-> e.frame, paged |-> TRUE,
              write |-> ~e.writeprotect
                          /\ ~segd[area[c][s][m]][SegOf(p)].writeprotect,
              used |-> e.used, modified |-> e.modified]
    [] OTHER -> Straight(NoFrame, FALSE)

Readable(s, m, p) == Xlate(sel, s, m, p).frame # NoFrame
Writable(s, m, p) == Readable(s, m, p) /\ Xlate(sel, s, m, p).write

\* The bits that a successful translation leaves in the page descriptor.
Marked(e, write) == [e EXCEPT !.used = TRUE, !.modified = @ \/ write]

MarkedPd(s, m, p, write) ==
  IF Paged(sel, s, m, p)
    THEN [pd EXCEPT ![area[sel][s][m]][p] = Marked(@, write)]
    ELSE pd

(***************************************************************************)
(* The history.  Every step adds the translations that hold behind it; a   *)
(* step in which the program flushes the pages F[s][m], or in which it may *)
(* rely on them being dropped, starts their sets again.                    *)
(***************************************************************************)
Nothing == [s \in Side |-> [m \in Mode |-> {}]]

Only(side, mode, P) ==
  [s \in Side |-> [m \in Mode |-> IF s = side /\ m = mode THEN P ELSE {}]]

Remember(F) ==
  since' = [x \in Touched |->
              (IF x[3] \in F[x[1]][x[2]] THEN {} ELSE since[x])
                \cup {Xlate(sel, x[1], x[2], x[3])'}]

Everything == [s \in Side |-> [m \in Mode |-> Page]]

(***************************************************************************)
(* What the selected CPU does: loads, stores and exchanges, fetches.       *)
(***************************************************************************)
\* A page that l_mem_op has reached, unless it is an I/O register.
Fill(tlb, m, p, f) ==
  IF f \in Memory THEN [tlb EXCEPT ![m][p] = f] ELSE tlb

\* A load that misses the load TLB.
Load(m, p) ==
  /\ <<"data", m, p>> \in Touched /\ ltlb[m][p] = NoFrame /\ Readable("data", m, p)
  /\ pd' = MarkedPd("data", m, p, FALSE)
  /\ ltlb' = Fill(ltlb, m, p, Xlate(sel, "data", m, p).frame)
  /\ UNCHANGED <<area, batc, segd, stlb, code, sel, edits>>
  /\ Remember(Nothing)

StoreFills_store_only(m, p, f) ==
  /\ UNCHANGED ltlb
  /\ stlb' = Fill(stlb, m, p, f)

\* The TLBs that a store or exchange loads: both.
StoreFills(m, p, f) ==
  /\ ltlb' = Fill(ltlb, m, p, f)
  /\ stlb' = Fill(stlb, m, p, f)

\* A store or an exchange that misses the store TLB.
Store(m, p) ==
  /\ <<"data", m, p>> \in Touched /\ stlb[m][p] = NoFrame /\ Writable("data", m, p)
  /\ pd' = MarkedPd("data", m, p, TRUE)
  /\ StoreFills(m, p, Xlate(sel, "data", m, p).frame)
  /\ UNCHANGED <<area, batc, segd, code, sel, edits>>
  /\ Remember(Nothing)

Cached(m, p) == \E k \in Slot : deccache[m][k].page = p

NextSlot_unwrapped(k) == k + 1

NextSlot(k) == (k % DECMAX) + 1

\* l_to_d for a page of the code that runs, which the cache does not have.
Fetch(m, p) ==
  /\ <<"code", m, p>> \in Touched /\ ~Cached(m, p) /\ Readable("code", m, p)
  /\ pd' = MarkedPd("code", m, p, FALSE)
  /\ LET f == Xlate(sel, "code", m, p).frame IN
       IF f \in Memory
         THEN /\ deccache' = [deccache EXCEPT ![m][nextdecp[m]] =
                                [page |-> p, frame |-> f]]
              /\ nextdecp' = [nextdecp EXCEPT ![m] = NextSlot(@)]
         ELSE UNCHANGED code
  /\ UNCHANGED <<area, batc, segd, tlbs, sel, edits>>
  /\ Remember(Nothing)

\* l_to_d for an address that is only looked up, and a probe command on
\* side s: a translation for reading that fills no cache.
Look(s, m, p) ==
  /\ <<s, m, p>> \in Touched /\ Readable(s, m, p)
  /\ pd' = MarkedPd(s, m, p, FALSE)
  /\ UNCHANGED <<area, batc, segd, tlbs, code, sel, edits>>
  /\ Remember(Nothing)

(***************************************************************************)
(* What flushes the caches.                                                *)
(***************************************************************************)
Dropped(tlb, m, P) == [tlb EXCEPT ![m] = [p \in Page |->
                         IF p \in P THEN NoFrame ELSE tlb[m][p]]]

flush_tlb_load_only(m, P) ==
  /\ ltlb' = Dropped(ltlb, m, P)
  /\ stlb' = stlb

flush_tlb(m, P) ==
  /\ ltlb' = Dropped(ltlb, m, P)
  /\ stlb' = Dropped(stlb, m, P)

flush_deccache(m) ==
  /\ deccache' = [deccache EXCEPT ![m] = [k \in Slot |-> NoEntry]]
  /\ nextdecp' = [nextdecp EXCEPT ![m] = 1]

sim_flush_all_translations ==
  /\ ltlb' = [m \in Mode |-> [p \in Page |-> NoFrame]]
  /\ stlb' = ltlb'
  /\ deccache' = [m \in Mode |-> [k \in Slot |-> NoEntry]]
  /\ nextdecp' = [m \in Mode |-> 1]

\* The pages that the program has a reason to flush or remap.
Used == {x[3] : x \in Touched}

\* What a flush command can name: a page, a segment or everything; of these
\* the pages in use.
Scopes ==
  {{p} : p \in Used} \cup {Used}
    \cup {{p \in Used : SegOf(p) = SegOf(q)} : q \in Used}

\* A flush command to CPU c's CMMU on side s.  The data side flushes the
\* simulator's TLBs whichever CPU is meant; only the commands that the
\* selected CPU's own CMMU gets are a promise about its translations.
FlushAtc(c, s, m, P) ==
  /\ \/ s = "data" /\ flush_tlb(m, P) /\ UNCHANGED code
     \/ s = "code" /\ flush_deccache(m) /\ UNCHANGED tlbs
  /\ UNCHANGED <<tables, sel, edits>>
  /\ Remember(IF c = sel THEN Only(s, m, P) ELSE Nothing)

(***************************************************************************)
(* What changes translations.  None of it flushes the caches, except that  *)
(* a write to a BATC register drops what the old entry mapped.             *)
(***************************************************************************)
Edit == edits < MaxEdits /\ edits' = edits + 1

WriteArea(c, s, m, a) ==
  /\ Edit /\ a # area[c][s][m] /\ \E p \in Page : <<s, m, p>> \in Touched
  /\ area' = [area EXCEPT ![c][s][m] = a]
  /\ UNCHANGED <<batc, segd, pd, tlbs, code, sel>>
  /\ Remember(Nothing)

BlockPages(b) == {p \in Page : BlockOf(p) = b.l_base}

Range512K_first_page(old) == {p \in BlockPages(old) : p % BlockSize = 0}

\* The pages that flush_tlb_range covers for an old entry.
Range512K(old) == BlockPages(old)

WriteBatc(c, s, i, new) ==
  LET old == batc[c][s][i] IN
  /\ Edit /\ new # old
  /\ batc' = [batc EXCEPT ![c][s][i] = new]
  /\ \/ s = "data" /\ flush_tlb(old.supervisor, Range512K(old))
        /\ UNCHANGED code
     \/ s = "code" /\ flush_deccache(old.supervisor) /\ UNCHANGED tlbs
  /\ UNCHANGED <<area, segd, pd, sel>>
  /\ Remember(IF c = sel /\ old.valid
                THEN Only(s, old.supervisor, BlockPages(old)) ELSE Nothing)

WriteSegd(t, g, d) ==
  /\ Edit /\ d # segd[t][g]
  /\ segd' = [segd EXCEPT ![t][g] = d]
  /\ UNCHANGED <<area, batc, pd, tlbs, code, sel>>
  /\ Remember(Nothing)

WritePd(t, p, d) ==
  /\ Edit /\ d # pd[t][p]
  /\ pd' = [pd EXCEPT ![t][p] = d]
  /\ UNCHANGED <<area, batc, segd, tlbs, code, sel>>
  /\ Remember(Nothing)

(***************************************************************************)
(* What the debugger does.                                                 *)
(***************************************************************************)
sim_select_processor_unflushed(c) ==
  /\ c # sel
  /\ sel' = c
  /\ UNCHANGED <<tables, tlbs, code, edits>>
  /\ Remember(Everything)

sim_select_processor(c) ==
  /\ c # sel
  /\ sel' = c
  /\ sim_flush_all_translations
  /\ UNCHANGED <<tables, edits>>
  /\ Remember(Everything)

ResetAreas == [c \in CPU |-> [s \in Side |-> [m \in Mode |-> Off]]]
ResetBatcs == [c \in CPU |-> [s \in Side |-> [i \in Port |-> NoBatc]]]

\* The init command: do_sim_reset, with io_init and so cmmu_init.  The
\* code selects processor 0, here any.
do_sim_reset ==
  /\ Edit
  /\ area' = ResetAreas /\ batc' = ResetBatcs
  /\ sel' \in CPU
  /\ sim_flush_all_translations
  /\ UNCHANGED <<segd, pd>>
  /\ Remember(Everything)

Init ==
  /\ area = InitArea /\ batc = ResetBatcs
  /\ segd = InitSegd /\ pd = InitPd
  /\ ltlb = [m \in Mode |-> [p \in Page |-> NoFrame]]
  /\ stlb = ltlb
  /\ deccache = [m \in Mode |-> [k \in Slot |-> NoEntry]]
  /\ nextdecp = [m \in Mode |-> 1]
  /\ sel \in CPU
  /\ since = [x \in Touched |-> {Xlate(sel, x[1], x[2], x[3])}]
  /\ edits = 0

Next ==
  \/ \E m \in Mode, p \in Page : Load(m, p) \/ Store(m, p) \/ Fetch(m, p)
  \/ \E s \in Side, m \in Mode, p \in Page : Look(s, m, p)
  \/ \E c \in CPU, s \in Side, m \in Mode, P \in Scopes : FlushAtc(c, s, m, P)
  \/ \E c \in CPU, s \in Side, m \in Mode, a \in Table \cup {Off} :
        WriteArea(c, s, m, a)
  \/ \E c \in CPU, s \in Side, i \in Port, b \in BatcMenu : WriteBatc(c, s, i, b)
  \/ \E t \in Table, p \in Used, d \in SegMenu : WriteSegd(t, SegOf(p), d)
  \/ \E t \in Table, p \in Used, d \in PageMenu : WritePd(t, p, d)
  \/ \E c \in CPU : sim_select_processor(c)
  \/ do_sim_reset

Spec == Init /\ [][Next]_vars

(***************************************************************************)
(* Properties                                                              *)
(***************************************************************************)
Frame  == Page \cup {NoFrame}
Xlated == [frame : Frame, write : BOOLEAN, paged : BOOLEAN,
           used : BOOLEAN, modified : BOOLEAN]

StateType ==
  /\ area \in [CPU -> [Side -> [Mode -> Table \cup {Off}]]]
  /\ batc \in [CPU -> [Side -> [Port -> BatcMenu \cup {NoBatc}]]]
  /\ segd \in [Table -> [Seg -> SegDesc]]
  /\ pd \in [Table -> [Page -> PageDesc]]
  /\ ltlb \in [Mode -> [Page -> Frame]]
  /\ stlb \in [Mode -> [Page -> Frame]]
  /\ deccache \in [Mode -> [Slot -> [page : Frame, frame : Frame]]]
  /\ nextdecp \in [Mode -> Slot]
  /\ sel \in CPU
  /\ edits \in 0 .. MaxEdits

\* The types of the CMMU registers, the descriptors and the caches, and of
\* the history.
TypeOK == StateType /\ since \in [Touched -> SUBSET Xlated]

\* An entry that lets the program load from a page without asking the CMMU
\* is a translation that the selected CPU's tables have given since the
\* program last flushed the page, with the used bit set (l_to_p, l_mem_op
\* and every flush in cmmu_operation).
LoadsPromised ==
  \A m \in Mode, p \in Page :
     ltlb[m][p] # NoFrame =>
        /\ <<"data", m, p>> \in Touched
        /\ \E x \in since[<<"data", m, p>>] :
              x.frame = ltlb[m][p] /\ (x.paged => x.used)

\* The same of an entry that lets the program store: the tables have
\* admitted a write there, and the page has been marked as modified.
StoresPromised ==
  \A m \in Mode, p \in Page :
     stlb[m][p] # NoFrame =>
        /\ <<"data", m, p>> \in Touched
        /\ \E x \in since[<<"data", m, p>>] :
              x.frame = stlb[m][p] /\ x.write /\ (x.paged => x.used /\ x.modified)

\* A load goes where a store to the same page goes: whatever the program
\* has done to its tables, the two TLBs never disagree on a page that may
\* be stored to (l_mem_op loads both, every flush empties both).
ReadBack ==
  \A m \in Mode, p \in Page :
     stlb[m][p] # NoFrame => ltlb[m][p] = stlb[m][p]

\* The code that runs is the code that the selected CPU's code CMMU has
\* mapped there since the program last flushed it (l_to_d's FIFO).
CodePromised ==
  \A m \in Mode, k \in Slot :
     LET p == deccache[m][k].page IN
     p # NoFrame =>
        /\ <<"code", m, p>> \in Touched
        /\ \E x \in since[<<"code", m, p>>] :
              x.frame = deccache[m][k].frame /\ (x.paged => x.used)
=============================================================================
