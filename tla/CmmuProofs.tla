----------------------------- MODULE CmmuProofs -----------------------------
(***************************************************************************)
(* For every number of CPUs, every tables, BATC entries and bounds: what   *)
(* the simulator caches of the selected CPU's translations is what its     *)
(* CMMU has given since the program's last flush.  The five invariants     *)
(* together are inductive.                                                 *)
(***************************************************************************)
EXTENDS Cmmu, WellFoundedInduction, TLAPS

IInv == TypeOK /\ LoadsPromised /\ StoresPromised /\ ReadBack /\ CodePromised

\* Which pages and modes a triple in use names.
LEMMA TouchedType ==
  ASSUME NEW x \in Touched
  PROVE  x[1] \in Side /\ x[2] \in Mode /\ x[3] \in Page /\ x = <<x[1], x[2], x[3]>>
BY CmmuAssumption

\* l_to_p searches the ports in their order: there is a first hit.
LEMMA PortOrder ==
  ASSUME NEW P \in SUBSET Port, P # {}
  PROVE  \E i \in P : \A j \in P : i <= j
<1> DEFINE R == {ss \in Nat \X Nat : ss[1] < ss[2]}
<1>1. IsWellFoundedOn(R, Nat) /\ P \subseteq Nat
  BY NatLessThanWellFounded, CmmuAssumption DEF OpToRel
<1>2. PICK i \in P : \A j \in P : ~ (<<j, i>> \in R)
  <2> HIDE DEF R
  <2> QED
    BY <1>1, WFMin
<1>3. ASSUME NEW j \in P PROVE i <= j
  <2>1. <<j, i>> \notin R /\ i \in Nat /\ j \in Nat
    BY <1>1, <1>2
  <2> QED
    BY <2>1
<1> QED
  BY <1>3

\* A translation of well-typed tables has the type of a translation.
XlateTyped ==
  \A c \in CPU, s \in Side, m \in Mode, p \in Page : Xlate(c, s, m, p) \in Xlated

LEMMA XlateType == StateType => XlateTyped
<1> SUFFICES ASSUME StateType, NEW c \in CPU, NEW s \in Side, NEW m \in Mode,
                    NEW p \in Page
             PROVE  Xlate(c, s, m, p) \in Xlated
  BY DEF XlateTyped
<1>1. CASE Fixed(m, p) \/ area[c][s][m] = Off
  BY <1>1 DEF Xlate, Straight, Xlated, Frame, Fixed, Paged
<1>2. CASE ~Fixed(m, p) /\ area[c][s][m] # Off /\ Hits(c, s, m, p) # {}
  <2> DEFINE H == Hits(c, s, m, p)
  <2>1. H \in SUBSET Port
    BY DEF Hits
  <2>2. \E i \in H : \A j \in H : i <= j
    <3> HIDE DEF H
    <3>1. H # {}
      BY <1>2 DEF H
    <3> QED
      BY <2>1, <3>1, PortOrder
  <2>3. PICK i \in H : BatcOf(c, s, m, p) = batc[c][s][i]
    BY <2>2 DEF BatcOf
  <2>4. batc[c][s][i] \in BatcMenu
    BY <2>1, <2>3 DEF StateType, Hits, NoBatc
  <2>5. /\ BatcOf(c, s, m, p).p_base * BlockSize + (p % BlockSize) \in Page
        /\ BatcOf(c, s, m, p).writeprotect \in BOOLEAN
    BY <2>3, <2>4, BatcInRange, CmmuAssumption DEF Batc
  <2>6. Xlate(c, s, m, p) =
          Straight(BatcOf(c, s, m, p).p_base * BlockSize + (p % BlockSize),
                   ~BatcOf(c, s, m, p).writeprotect)
    BY <1>2 DEF Xlate, Paged
  <2> QED
    BY <2>5, <2>6 DEF Straight, Xlated, Frame
<1>3. CASE Paged(c, s, m, p) /\ Walked(c, s, m, p)
  <2> DEFINE t == area[c][s][m]
  <2>1. t \in Table
    BY <1>3 DEF Paged, StateType
  <2>2. pd[t][p] \in PageDesc
    BY <2>1 DEF StateType
  <2>3. Xlate(c, s, m, p) =
          [frame |-> pd[t][p].frame, paged |-> TRUE,
           write |-> ~pd[t][p].writeprotect /\ ~segd[t][SegOf(p)].writeprotect,
           used |-> pd[t][p].used, modified |-> pd[t][p].modified]
    BY <1>3 DEF Xlate, Paged
  <2> HIDE DEF t
  <2> QED
    BY <2>2, <2>3 DEF Xlated, Frame, PageDesc
<1>4. CASE Paged(c, s, m, p) /\ ~Walked(c, s, m, p)
  BY <1>4 DEF Xlate, Paged, Straight, Xlated, Frame
<1> QED
  BY <1>1, <1>2, <1>3, <1>4 DEF Paged

\* Every step adds the translation that holds behind it, and keeps what it
\* does not forget.
LEMMA Remembered ==
  ASSUME NEW F, Remember(F), NEW s \in Side, NEW m \in Mode, NEW p \in Page,
         <<s, m, p>> \in Touched
  PROVE  /\ Xlate(sel, s, m, p)' \in since'[<<s, m, p>>]
         /\ p \notin F[s][m] => since[<<s, m, p>>] \subseteq since'[<<s, m, p>>]
BY DEF Remember


LEMMA SinceType ==
  ASSUME NEW F, Remember(F), TypeOK, StateType'
  PROVE  TypeOK'
<1>1. XlateTyped'
  BY XlateType, PTL
<1>2. \A x \in Touched : Xlate(sel, x[1], x[2], x[3])' \in Xlated
  BY <1>1, TouchedType DEF XlateTyped, StateType
<1>3. since' \in [Touched -> SUBSET Xlated]
  BY <1>2 DEF Remember, TypeOK
<1> QED
  BY <1>3 DEF TypeOK

(***************************************************************************)
(* An entry that a step leaves alone, and that it does not forget, keeps   *)
(* its promise.                                                            *)
(***************************************************************************)
LoadPromise(m, p) ==
  ltlb[m][p] # NoFrame =>
     /\ <<"data", m, p>> \in Touched
     /\ \E x \in since[<<"data", m, p>>] :
           x.frame = ltlb[m][p] /\ (x.paged => x.used)

StorePromise(m, p) ==
  stlb[m][p] # NoFrame =>
     /\ <<"data", m, p>> \in Touched
     /\ \E x \in since[<<"data", m, p>>] :
           x.frame = stlb[m][p] /\ x.write /\ (x.paged => x.used /\ x.modified)

CodePromise(m, k) ==
  deccache[m][k].page # NoFrame =>
     /\ <<"code", m, deccache[m][k].page>> \in Touched
     /\ \E x \in since[<<"code", m, deccache[m][k].page>>] :
           x.frame = deccache[m][k].frame /\ (x.paged => x.used)

LEMMA Promises ==
  /\ LoadsPromised <=> \A m \in Mode, p \in Page : LoadPromise(m, p)
  /\ StoresPromised <=> \A m \in Mode, p \in Page : StorePromise(m, p)
  /\ CodePromised <=> \A m \in Mode, k \in Slot : CodePromise(m, k)
BY DEF LoadsPromised, StoresPromised, CodePromised, LoadPromise, StorePromise,
   CodePromise

LEMMA LoadKept ==
  ASSUME NEW F, Remember(F), NEW m \in Mode, NEW p \in Page, LoadPromise(m, p),
         ltlb'[m][p] = NoFrame \/ (ltlb'[m][p] = ltlb[m][p] /\ p \notin F["data"][m])
  PROVE  LoadPromise(m, p)'
<1> SUFFICES ASSUME ltlb'[m][p] # NoFrame PROVE LoadPromise(m, p)'
  BY DEF LoadPromise
<1>1. <<"data", m, p>> \in Touched
  BY DEF LoadPromise
<1>2. since[<<"data", m, p>>] \subseteq since'[<<"data", m, p>>]
  BY <1>1, Remembered DEF Side
<1> QED
  BY <1>1, <1>2 DEF LoadPromise

LEMMA StoreKept ==
  ASSUME NEW F, Remember(F), NEW m \in Mode, NEW p \in Page, StorePromise(m, p),
         stlb'[m][p] = NoFrame \/ (stlb'[m][p] = stlb[m][p] /\ p \notin F["data"][m])
  PROVE  StorePromise(m, p)'
<1> SUFFICES ASSUME stlb'[m][p] # NoFrame PROVE StorePromise(m, p)'
  BY DEF StorePromise
<1>1. <<"data", m, p>> \in Touched
  BY DEF StorePromise
<1>2. since[<<"data", m, p>>] \subseteq since'[<<"data", m, p>>]
  BY <1>1, Remembered DEF Side
<1> QED
  BY <1>1, <1>2 DEF StorePromise

LEMMA CodeKept ==
  ASSUME NEW F, Remember(F), NEW m \in Mode, NEW k \in Slot, CodePromise(m, k),
         \/ deccache'[m][k].page = NoFrame
         \/ /\ deccache'[m][k] = deccache[m][k]
            /\ deccache[m][k].page \notin F["code"][m]
  PROVE  CodePromise(m, k)'
<1> SUFFICES ASSUME deccache'[m][k].page # NoFrame PROVE CodePromise(m, k)'
  BY DEF CodePromise
<1> DEFINE p == deccache[m][k].page
<1>1. <<"code", m, p>> \in Touched /\ p \in Page
  BY CmmuAssumption DEF CodePromise
<1>2. since[<<"code", m, p>>] \subseteq since'[<<"code", m, p>>]
  BY <1>1, Remembered DEF Side
<1> QED
  BY <1>1, <1>2 DEF CodePromise

\* A step that leaves the caches alone and forgets nothing.
LEMMA QuietStep ==
  ASSUME IInv, StateType', Remember(Nothing), UNCHANGED <<tlbs, code>>
  PROVE  IInv'
<1>1. TypeOK'
  BY SinceType DEF IInv
<1>2. \A s \in Side, m \in Mode : Nothing[s][m] = {}
  BY DEF Nothing
<1>3. \A m \in Mode, p \in Page : LoadPromise(m, p)' /\ StorePromise(m, p)'
  BY <1>2, Promises, LoadKept, StoreKept DEF IInv, tlbs, Side
<1>4. \A m \in Mode, k \in Slot : CodePromise(m, k)'
  BY <1>2, Promises, CodeKept DEF IInv, code, Side
<1>5. LoadsPromised' /\ StoresPromised' /\ CodePromised'
  BY <1>3, <1>4 DEF LoadPromise, StorePromise, CodePromise, LoadsPromised,
     StoresPromised, CodePromised
<1>6. ReadBack'
  BY DEF IInv, ReadBack, tlbs
<1> QED
  BY <1>1, <1>5, <1>6 DEF IInv

(***************************************************************************)
(* A translation that succeeds marks the page descriptor and changes       *)
(* nothing else about itself.                                              *)
(***************************************************************************)
LEMMA MarkedXlate ==
  ASSUME StateType, NEW s \in Side, NEW m \in Mode, NEW p \in Page,
         NEW w \in BOOLEAN, Readable(s, m, p), pd' = MarkedPd(s, m, p, w),
         UNCHANGED <<area, batc, segd, sel>>
  PROVE  /\ pd' \in [Table -> [Page -> PageDesc]]
         /\ Xlate(sel, s, m, p)'.frame = Xlate(sel, s, m, p).frame
         /\ Xlate(sel, s, m, p)'.write = Xlate(sel, s, m, p).write
         /\ Xlate(sel, s, m, p)'.paged =>
               Xlate(sel, s, m, p)'.used /\ (w => Xlate(sel, s, m, p)'.modified)
<1>1. CASE ~Paged(sel, s, m, p)
  <2>1. pd' = pd
    BY <1>1 DEF MarkedPd
  <2>2. Xlate(sel, s, m, p)' = Xlate(sel, s, m, p)
    BY <2>1 DEF Xlate, Paged, Walked, Hits, BatcOf
  <2>3. ~Xlate(sel, s, m, p).paged
    BY <1>1 DEF Xlate, Straight, Paged
  <2> QED
    BY <2>1, <2>2, <2>3 DEF StateType
<1>2. CASE Paged(sel, s, m, p)
  <2> DEFINE t == area[sel][s][m]
  <2>1. t \in Table /\ pd[t][p] \in PageDesc
    BY <1>2 DEF Paged, StateType
  <2>2. pd' = [pd EXCEPT ![t][p] = Marked(pd[t][p], w)]
    BY <1>2, <2>1 DEF MarkedPd, StateType
  <2>3. /\ pd' \in [Table -> [Page -> PageDesc]]
        /\ pd'[t][p].used /\ (w => pd'[t][p].modified)
        /\ pd'[t][p].valid = pd[t][p].valid
        /\ pd'[t][p].supervisor_only = pd[t][p].supervisor_only
        /\ pd'[t][p].writeprotect = pd[t][p].writeprotect
        /\ pd'[t][p].frame = pd[t][p].frame
    <3> DEFINE e == Marked(pd[t][p], w)
    <3>1. e \in PageDesc /\ e.used /\ (w => e.modified)
      BY <2>1 DEF PageDesc, Marked
    <3>2. /\ e.valid = pd[t][p].valid
          /\ e.supervisor_only = pd[t][p].supervisor_only
          /\ e.writeprotect = pd[t][p].writeprotect
          /\ e.frame = pd[t][p].frame
      BY <2>1 DEF PageDesc, Marked
    <3>3. pd' = [pd EXCEPT ![t][p] = e]
      BY <2>2
    <3> HIDE DEF e, t
    <3>4. pd' \in [Table -> [Page -> PageDesc]] /\ pd'[t][p] = e
      BY <3>1, <3>3, <2>1 DEF StateType
    <3> QED
      BY <3>1, <3>2, <3>4
  <2>4. Paged(sel, s, m, p)' /\ area'[sel'][s][m] = t
    BY <1>2 DEF Paged, Hits
  <2>5. Walked(sel, s, m, p)' <=> Walked(sel, s, m, p)
    BY <2>3, <2>4 DEF Walked
  <2>6. Walked(sel, s, m, p)
    BY <1>2 DEF Readable, Xlate, Paged, Straight
  <2>7. Xlate(sel, s, m, p) =
          [frame |-> pd[t][p].frame, paged |-> TRUE,
           write |-> ~pd[t][p].writeprotect /\ ~segd[t][SegOf(p)].writeprotect,
           used |-> pd[t][p].used, modified |-> pd[t][p].modified]
    BY <1>2, <2>6 DEF Xlate, Paged
  <2>8. Xlate(sel, s, m, p)' =
          [frame |-> pd'[t][p].frame, paged |-> TRUE,
           write |-> ~pd'[t][p].writeprotect /\ ~segd[t][SegOf(p)].writeprotect,
           used |-> pd'[t][p].used, modified |-> pd'[t][p].modified]
    BY <2>4, <2>5, <2>6 DEF Xlate, Paged
  <2> HIDE DEF t
  <2> QED
    BY <2>3, <2>7, <2>8
<1> QED
  BY <1>1, <1>2

(***************************************************************************)
(* The invariant, an action at a time.                                     *)
(***************************************************************************)
LEMMA Promised ==
  ASSUME \A m \in Mode, p \in Page : LoadPromise(m, p)' /\ StorePromise(m, p)',
         \A m \in Mode, k \in Slot : CodePromise(m, k)'
  PROVE  LoadsPromised' /\ StoresPromised' /\ CodePromised'
BY DEF LoadPromise, StorePromise, CodePromise, LoadsPromised, StoresPromised,
   CodePromised

LEMMA EmptyInv ==
  ASSUME TypeOK', \A m \in Mode, p \in Page : ltlb'[m][p] = NoFrame /\ stlb'[m][p] = NoFrame,
         \A m \in Mode, k \in Slot : deccache'[m][k].page = NoFrame
  PROVE  IInv'
<1>1. \A m \in Mode, p \in Page : LoadPromise(m, p)' /\ StorePromise(m, p)'
  BY DEF LoadPromise, StorePromise
<1>2. \A m \in Mode, k \in Slot : CodePromise(m, k)'
  BY DEF CodePromise
<1>3. ReadBack'
  BY DEF ReadBack
<1> QED
  BY <1>1, <1>2, <1>3, Promised DEF IInv

LEMMA InitInv == Init => IInv
<1> SUFFICES ASSUME Init PROVE IInv
  OBVIOUS
<1>1. StateType
  BY CmmuAssumption DEF Init, StateType, ResetBatcs, Frame, NoEntry, Slot
<1>2. TypeOK
  <2>1. \A x \in Touched : Xlate(sel, x[1], x[2], x[3]) \in Xlated
    BY <1>1, XlateType, TouchedType DEF XlateTyped, StateType
  <2> QED
    BY <1>1, <2>1 DEF TypeOK, Init
<1>3. LoadsPromised /\ StoresPromised /\ ReadBack /\ CodePromised
  BY DEF Init, LoadsPromised, StoresPromised, ReadBack, CodePromised, NoEntry
<1> QED
  BY <1>2, <1>3 DEF IInv

\* A translation that succeeds names a page.
LEMMA ReadablePage ==
  ASSUME StateType, NEW s \in Side, NEW m \in Mode, NEW p \in Page, Readable(s, m, p)
  PROVE  Xlate(sel, s, m, p).frame \in Page
BY XlateType DEF XlateTyped, StateType, Xlated, Frame, Readable

LEMMA LoadInv ==
  ASSUME IInv, NEW m \in Mode, NEW p \in Page, Load(m, p)
  PROVE  IInv'
<1> DEFINE f == Xlate(sel, "data", m, p).frame
<1> USE DEF Load, Side
<1>1. /\ pd' \in [Table -> [Page -> PageDesc]]
      /\ Xlate(sel, "data", m, p)'.frame = f
      /\ Xlate(sel, "data", m, p)'.paged => Xlate(sel, "data", m, p)'.used
  BY MarkedXlate DEF IInv, TypeOK
<1>2. f \in Page
  BY ReadablePage DEF IInv, TypeOK
<1>3. StateType'
  BY <1>1, <1>2 DEF IInv, TypeOK, StateType, Fill, code, Frame
<1>4. TypeOK'
  BY <1>3, SinceType DEF IInv
<1>5. \A s \in Side, n \in Mode : Nothing[s][n] = {}
  BY DEF Nothing
<1>6. LoadPromise(m, p)'
  <2>1. Xlate(sel, "data", m, p)' \in since'[<<"data", m, p>>]
    BY Remembered
  <2>2. ltlb'[m][p] \in {f, NoFrame}
    BY DEF Fill, IInv, TypeOK, StateType
  <2> QED
    BY <1>1, <2>1, <2>2 DEF LoadPromise
<1>7. \A n \in Mode, q \in Page : LoadPromise(n, q)'
  <2> SUFFICES ASSUME NEW n \in Mode, NEW q \in Page, <<n, q>> # <<m, p>>
               PROVE  LoadPromise(n, q)'
    BY <1>6
  <2>1. ltlb'[n][q] = ltlb[n][q]
    BY DEF Fill, IInv, TypeOK, StateType
  <2>2. LoadPromise(n, q)
    BY Promises DEF IInv
  <2> QED
    BY <1>5, <2>1, <2>2, LoadKept
<1>8. \A n \in Mode, q \in Page : StorePromise(n, q)'
  BY <1>5, Promises, StoreKept DEF IInv
<1>9. \A n \in Mode, k \in Slot : CodePromise(n, k)'
  BY <1>5, Promises, CodeKept DEF IInv, code
<1>10. ReadBack'
  BY <1>2 DEF IInv, ReadBack, TypeOK, StateType, Fill
<1> QED
  BY <1>4, <1>7, <1>8, <1>9, <1>10, Promised DEF IInv

LEMMA StoreInv ==
  ASSUME IInv, NEW m \in Mode, NEW p \in Page, Store(m, p)
  PROVE  IInv'
<1> DEFINE f == Xlate(sel, "data", m, p).frame
<1> USE DEF Store, Side, StoreFills
<1>1. /\ pd' \in [Table -> [Page -> PageDesc]]
      /\ Xlate(sel, "data", m, p)'.frame = f
      /\ Xlate(sel, "data", m, p)'.write
      /\ Xlate(sel, "data", m, p)'.paged =>
            Xlate(sel, "data", m, p)'.used /\ Xlate(sel, "data", m, p)'.modified
  BY MarkedXlate DEF IInv, TypeOK, Writable
<1>2. f \in Page
  BY ReadablePage DEF IInv, TypeOK, Writable
<1>3. StateType'
  BY <1>1, <1>2 DEF IInv, TypeOK, StateType, Fill, code, Frame
<1>4. TypeOK'
  BY <1>3, SinceType DEF IInv
<1>5. \A s \in Side, n \in Mode : Nothing[s][n] = {}
  BY DEF Nothing
<1>6. LoadPromise(m, p)' /\ StorePromise(m, p)'
  <2>1. Xlate(sel, "data", m, p)' \in since'[<<"data", m, p>>]
    BY Remembered
  <2>2. /\ stlb'[m][p] \in {f, NoFrame}
        /\ ltlb'[m][p] = f \/ ltlb'[m][p] = ltlb[m][p]
    BY DEF Fill, IInv, TypeOK, StateType
  <2>3. StorePromise(m, p)'
    BY <1>1, <2>1, <2>2 DEF StorePromise
  <2>4. CASE ltlb'[m][p] = f
    BY <1>1, <2>1, <2>3, <2>4 DEF LoadPromise
  <2>5. CASE ltlb'[m][p] = ltlb[m][p]
    BY <1>5, <2>3, <2>5, Promises, LoadKept DEF IInv
  <2> QED
    BY <2>2, <2>3, <2>4, <2>5
<1>7. \A n \in Mode, q \in Page : LoadPromise(n, q)' /\ StorePromise(n, q)'
  <2> SUFFICES ASSUME NEW n \in Mode, NEW q \in Page, <<n, q>> # <<m, p>>
               PROVE  LoadPromise(n, q)' /\ StorePromise(n, q)'
    BY <1>6
  <2>1. ltlb'[n][q] = ltlb[n][q] /\ stlb'[n][q] = stlb[n][q]
    BY DEF Fill, IInv, TypeOK, StateType
  <2>2. LoadPromise(n, q) /\ StorePromise(n, q)
    BY Promises DEF IInv
  <2> QED
    BY <1>5, <2>1, <2>2, LoadKept, StoreKept
<1>8. \A n \in Mode, k \in Slot : CodePromise(n, k)'
  BY <1>5, Promises, CodeKept DEF IInv, code
<1>9. ReadBack'
  BY <1>2 DEF IInv, ReadBack, TypeOK, StateType, Fill
<1> QED
  BY <1>4, <1>7, <1>8, <1>9, Promised DEF IInv

LEMMA FetchInv ==
  ASSUME IInv, NEW m \in Mode, NEW p \in Page, Fetch(m, p)
  PROVE  IInv'
<1> DEFINE f == Xlate(sel, "code", m, p).frame
<1> USE DEF Fetch, Side
<1>1. /\ pd' \in [Table -> [Page -> PageDesc]]
      /\ Xlate(sel, "code", m, p)'.frame = f
      /\ Xlate(sel, "code", m, p)'.paged => Xlate(sel, "code", m, p)'.used
  BY MarkedXlate DEF IInv, TypeOK
<1>2. f \in Page
  BY ReadablePage DEF IInv, TypeOK
<1>3. CASE f \notin Memory
  <2>1. UNCHANGED <<tlbs, code>>
    BY <1>3
  <2>2. StateType'
    BY <1>1, <2>1 DEF IInv, TypeOK, StateType, code, tlbs
  <2> QED
    BY <2>1, <2>2, QuietStep
<1>4. CASE f \in Memory
  <2>0. nextdecp[m] \in Slot
    BY DEF IInv, TypeOK, StateType
  <2> PICK j \in Slot : j = nextdecp[m]
    BY <2>0
  <2>1. /\ deccache' = [deccache EXCEPT ![m][j] = [page |-> p, frame |-> f]]
        /\ nextdecp' = [nextdecp EXCEPT ![m] = NextSlot(@)]
        /\ UNCHANGED tlbs
    BY <1>4
  <2>2. j \in Slot /\ NextSlot(j) \in Slot
    BY CmmuAssumption DEF IInv, TypeOK, StateType, NextSlot, Slot
  <2>3. StateType'
    BY <1>1, <1>2, <2>1, <2>2 DEF IInv, TypeOK, StateType, tlbs, Frame
  <2>4. TypeOK'
    BY <2>3, SinceType DEF IInv
  <2>5. \A s \in Side, n \in Mode : Nothing[s][n] = {}
    BY DEF Nothing
  <2>6. CodePromise(m, j)'
    <3>1. Xlate(sel, "code", m, p)' \in since'[<<"code", m, p>>]
      BY Remembered
    <3>2. deccache'[m][j] = [page |-> p, frame |-> f]
      BY <2>1, <2>2 DEF IInv, TypeOK, StateType
    <3>3. <<"code", m, p>> \in Touched
      OBVIOUS
    <3> HIDE DEF f, Fetch
    <3>4. deccache'[m][j].page = p /\ deccache'[m][j].frame = f
      BY <3>2
    <3> QED
      BY <1>1, <3>1, <3>3, <3>4 DEF CodePromise
  <2>7. \A n \in Mode, k \in Slot : CodePromise(n, k)'
    <3> HIDE DEF f, Fetch
    <3> SUFFICES ASSUME NEW n \in Mode, NEW k \in Slot, n # m \/ k # j
                 PROVE  CodePromise(n, k)'
      BY <2>6
    <3>1. deccache'[n][k] = deccache[n][k]
      BY <2>1, <2>2 DEF IInv, TypeOK, StateType
    <3>2. CodePromise(n, k)
      BY Promises DEF IInv
    <3> QED
      BY <2>5, <3>1, <3>2, CodeKept DEF Fetch
  <2>8. \A n \in Mode, q \in Page : LoadPromise(n, q)' /\ StorePromise(n, q)'
    BY <2>1, <2>5, Promises, LoadKept, StoreKept DEF IInv, tlbs
  <2>9. ReadBack'
    BY <2>1 DEF IInv, ReadBack, tlbs
  <2> QED
    BY <2>4, <2>7, <2>8, <2>9, Promised DEF IInv
<1> QED
  BY <1>3, <1>4

LEMMA LookInv ==
  ASSUME IInv, NEW s \in Side, NEW m \in Mode, NEW p \in Page, Look(s, m, p)
  PROVE  IInv'
<1>1. pd' \in [Table -> [Page -> PageDesc]]
  BY MarkedXlate DEF IInv, TypeOK, Look
<1>2. StateType'
  BY <1>1 DEF IInv, TypeOK, StateType, Look, tlbs, code
<1> QED
  BY <1>2, QuietStep DEF Look

\* A flush drops the entries of its pages, and forgets no others.
LEMMA DroppedInv ==
  ASSUME IInv, StateType', NEW F, Remember(F), NEW s \in Side, NEW m \in Mode,
         NEW P,
         \A t \in Side, n \in Mode : F[t][n] \subseteq Page,
         \A t \in Side, n \in Mode : <<t, n>> # <<s, m>> => F[t][n] = {},
         \/ s = "data" /\ flush_tlb(m, P) /\ F[s][m] \subseteq P /\ UNCHANGED code
         \/ s = "code" /\ flush_deccache(m) /\ UNCHANGED tlbs
  PROVE  IInv'
<1>1. TypeOK'
  BY SinceType DEF IInv
<1>2. CASE s = "data"
  <2>1. flush_tlb(m, P) /\ F[s][m] \subseteq P /\ UNCHANGED code
    BY <1>2
  <2>2. ASSUME NEW n \in Mode, NEW p \in Page
        PROVE  /\ LoadPromise(n, p)' /\ StorePromise(n, p)'
               /\ stlb'[n][p] # NoFrame => ltlb'[n][p] = stlb'[n][p]
    <3>1. CASE n = m /\ p \in P
      <4>1. ltlb \in [Mode -> [Page -> Frame]] /\ stlb \in [Mode -> [Page -> Frame]]
        BY DEF IInv, TypeOK, StateType
      <4>2. ltlb'[n] = [q \in Page |-> IF q \in P THEN NoFrame ELSE ltlb[m][q]]
        BY <2>1, <3>1, <4>1 DEF flush_tlb, Dropped
      <4>3. stlb'[n] = [q \in Page |-> IF q \in P THEN NoFrame ELSE stlb[m][q]]
        BY <2>1, <3>1, <4>1 DEF flush_tlb, Dropped
      <4>4. ltlb'[n][p] = NoFrame /\ stlb'[n][p] = NoFrame
        BY <3>1, <4>2, <4>3
      <4> QED
        BY <4>4 DEF LoadPromise, StorePromise
    <3>2. CASE ~(n = m /\ p \in P)
      <4>0. ltlb \in [Mode -> [Page -> Frame]] /\ stlb \in [Mode -> [Page -> Frame]]
        BY DEF IInv, TypeOK, StateType
      <4>1. ltlb'[n][p] = ltlb[n][p] /\ stlb'[n][p] = stlb[n][p]
        <5>1. CASE n # m
          BY <2>1, <4>0, <5>1 DEF flush_tlb, Dropped
        <5>2. CASE n = m
          <6>1. ltlb'[n] = [q \in Page |-> IF q \in P THEN NoFrame ELSE ltlb[m][q]]
            BY <2>1, <4>0, <5>2 DEF flush_tlb, Dropped
          <6>2. stlb'[n] = [q \in Page |-> IF q \in P THEN NoFrame ELSE stlb[m][q]]
            BY <2>1, <4>0, <5>2 DEF flush_tlb, Dropped
          <6> QED
            BY <3>2, <5>2, <6>1, <6>2
        <5> QED
          BY <5>1, <5>2
      <4>2. p \notin F["data"][n]
        BY <1>2, <2>1, <3>2 DEF Side
      <4>3. LoadPromise(n, p) /\ StorePromise(n, p)
        BY Promises DEF IInv
      <4> QED
        BY <4>1, <4>2, <4>3, LoadKept, StoreKept DEF IInv, ReadBack
    <3> QED
      BY <3>1, <3>2
  <2>3. ASSUME NEW n \in Mode, NEW k \in Slot
        PROVE  CodePromise(n, k)'
    <3>1. F["code"][n] = {}
      BY <1>2 DEF Side
    <3>2. CodePromise(n, k)
      BY Promises DEF IInv
    <3> QED
      BY <2>1, <3>1, <3>2, CodeKept DEF code
  <2>4. ReadBack'
    BY <2>2 DEF ReadBack
  <2> QED
    BY <1>1, <2>2, <2>3, <2>4, Promised DEF IInv
<1>3. CASE s = "code"
  <2>1. flush_deccache(m) /\ UNCHANGED tlbs
    BY <1>3
  <2>2. ASSUME NEW n \in Mode, NEW p \in Page
        PROVE  LoadPromise(n, p)' /\ StorePromise(n, p)'
    <3>1. F["data"][n] = {}
      BY <1>3 DEF Side
    <3>2. LoadPromise(n, p) /\ StorePromise(n, p)
      BY Promises DEF IInv
    <3> QED
      BY <2>1, <3>1, <3>2, LoadKept, StoreKept DEF tlbs
  <2>3. ASSUME NEW n \in Mode, NEW k \in Slot
        PROVE  CodePromise(n, k)'
    <3>1. CASE n = m
      <4>1. deccache'[n][k].page = NoFrame
        BY <2>1, <3>1 DEF flush_deccache, NoEntry, IInv, TypeOK, StateType
      <4> QED
        BY <4>1 DEF CodePromise
    <3>2. CASE n # m
      <4>1. deccache'[n][k] = deccache[n][k] /\ F["code"][n] = {}
        BY <1>3, <2>1, <3>2 DEF flush_deccache, IInv, TypeOK, StateType, Side
      <4>2. CodePromise(n, k)
        BY Promises DEF IInv
      <4> QED
        BY <4>1, <4>2, CodeKept
    <3> QED
      BY <3>1, <3>2
  <2>4. ReadBack'
    BY <2>1 DEF IInv, ReadBack, tlbs
  <2> QED
    BY <1>1, <2>2, <2>3, <2>4, Promised DEF IInv
<1> QED
  BY <1>2, <1>3 DEF Side

LEMMA FlushAtcInv ==
  ASSUME IInv, NEW c \in CPU, NEW s \in Side, NEW m \in Mode, NEW P \in Scopes,
         FlushAtc(c, s, m, P)
  PROVE  IInv'
<1> DEFINE F == IF c = sel THEN Only(s, m, P) ELSE Nothing
<1> USE DEF FlushAtc
<1>1. P \subseteq Page
  BY TouchedType DEF Scopes, Used
<1>2. /\ \A t \in Side, n \in Mode : F[t][n] \subseteq Page
      /\ \A t \in Side, n \in Mode : <<t, n>> # <<s, m>> => F[t][n] = {}
      /\ F[s][m] \subseteq P
  BY <1>1 DEF Only, Nothing
<1>3. Remember(F)
  OBVIOUS
<1>4. StateType'
  <2>1. CASE s = "data" /\ flush_tlb(m, P) /\ UNCHANGED code
    <3>1. \A tlb \in [Mode -> [Page -> Frame]] :
            Dropped(tlb, m, P) \in [Mode -> [Page -> Frame]]
      BY DEF Dropped, Frame
    <3> QED
      BY <2>1, <3>1 DEF IInv, TypeOK, StateType, tables, code, flush_tlb
  <2>2. CASE s = "code" /\ flush_deccache(m) /\ UNCHANGED tlbs
    BY <2>2, CmmuAssumption
    DEF IInv, TypeOK, StateType, tables, tlbs, flush_deccache, NoEntry, Frame, Slot
  <2> QED
    BY <2>1, <2>2
<1> HIDE DEF F
<1> QED
  BY <1>2, <1>3, <1>4, DroppedInv

LEMMA WriteBatcInv ==
  ASSUME IInv, NEW c \in CPU, NEW s \in Side, NEW i \in Port, NEW b \in BatcMenu,
         WriteBatc(c, s, i, b)
  PROVE  IInv'
<1> DEFINE old == batc[c][s][i]
           m == old.supervisor
           P == BlockPages(old)
           F == IF c = sel /\ old.valid THEN Only(s, m, P) ELSE Nothing
<1> USE DEF WriteBatc, Range512K
<1>1. old \in BatcMenu \cup {NoBatc} /\ m \in Mode
  BY CmmuAssumption DEF IInv, TypeOK, StateType, Batc, NoBatc, Mode
<1>2. P \subseteq Page
  BY DEF BlockPages
<1>3. /\ \A t \in Side, n \in Mode : F[t][n] \subseteq Page
      /\ \A t \in Side, n \in Mode : <<t, n>> # <<s, m>> => F[t][n] = {}
      /\ F[s][m] \subseteq P
  BY <1>1, <1>2 DEF Only, Nothing
<1>4. Remember(F)
  OBVIOUS
<1>5. StateType'
  <2>1. batc' \in [CPU -> [Side -> [Port -> BatcMenu \cup {NoBatc}]]]
    BY DEF IInv, TypeOK, StateType
  <2>2. edits' \in 0 .. MaxEdits
    BY CmmuAssumption DEF IInv, TypeOK, StateType, Edit
  <2>3. CASE s = "data" /\ flush_tlb(m, P) /\ UNCHANGED code
    <3>1. \A tlb \in [Mode -> [Page -> Frame]] :
            Dropped(tlb, m, P) \in [Mode -> [Page -> Frame]]
      BY <1>1 DEF Dropped, Frame
    <3> HIDE DEF old, m, P
    <3> QED
      BY <2>1, <2>2, <2>3, <3>1 DEF IInv, TypeOK, StateType, code, flush_tlb
  <2>4. CASE s = "code" /\ flush_deccache(m) /\ UNCHANGED tlbs
    <3> HIDE DEF old, m
    <3> QED
      BY <1>1, <2>1, <2>2, <2>4, CmmuAssumption
      DEF IInv, TypeOK, StateType, tlbs, flush_deccache, NoEntry, Frame, Slot
  <2> QED
    BY <2>3, <2>4
<1>6. \/ s = "data" /\ flush_tlb(m, P) /\ UNCHANGED code
      \/ s = "code" /\ flush_deccache(m) /\ UNCHANGED tlbs
  OBVIOUS
<1> HIDE DEF F, old, m, P
<1> QED
  BY <1>1, <1>3, <1>4, <1>5, <1>6, DroppedInv

\* What leaves no entry behind.
LEMMA FlushedInv ==
  ASSUME IInv, NEW F, Remember(F), sim_flush_all_translations, sel' \in CPU,
         area' \in [CPU -> [Side -> [Mode -> Table \cup {Off}]]],
         batc' \in [CPU -> [Side -> [Port -> BatcMenu \cup {NoBatc}]]],
         UNCHANGED <<segd, pd>>, edits' \in 0 .. MaxEdits
  PROVE  IInv'
<1>1. StateType'
  BY CmmuAssumption DEF IInv, TypeOK, StateType, sim_flush_all_translations,
     Frame, NoEntry, Slot
<1>2. TypeOK'
  BY <1>1, SinceType DEF IInv
<1> QED
  BY <1>2, EmptyInv DEF sim_flush_all_translations, NoEntry

LEMMA NextInv == IInv /\ [Next]_vars => IInv'
<1> SUFFICES ASSUME IInv, [Next]_vars PROVE IInv'
  OBVIOUS
<1>1. CASE \E m \in Mode, p \in Page : Load(m, p) \/ Store(m, p) \/ Fetch(m, p)
  BY <1>1, LoadInv, StoreInv, FetchInv
<1>2. CASE \E s \in Side, m \in Mode, p \in Page : Look(s, m, p)
  BY <1>2, LookInv
<1>3. CASE \E c \in CPU, s \in Side, m \in Mode, P \in Scopes : FlushAtc(c, s, m, P)
  BY <1>3, FlushAtcInv
<1>4. CASE \E c \in CPU, s \in Side, m \in Mode, a \in Table \cup {Off} :
              WriteArea(c, s, m, a)
  <2>1. StateType'
    BY <1>4, CmmuAssumption DEF WriteArea, Edit, IInv, TypeOK, StateType, tlbs, code
  <2> QED
    BY <1>4, <2>1, QuietStep DEF WriteArea
<1>5. CASE \E c \in CPU, s \in Side, i \in Port, b \in BatcMenu : WriteBatc(c, s, i, b)
  BY <1>5, WriteBatcInv
<1>6. CASE \E t \in Table, p \in Used, d \in SegMenu : WriteSegd(t, SegOf(p), d)
  <2> PICK t \in Table, p \in Used, d \in SegMenu : WriteSegd(t, SegOf(p), d)
    BY <1>6
  <2>1. segd' \in [Table -> [Seg -> SegDesc]]
    BY CmmuAssumption DEF WriteSegd, IInv, TypeOK, StateType
  <2>2. StateType'
    BY <2>1, CmmuAssumption
    DEF WriteSegd, Edit, IInv, TypeOK, StateType, tlbs, code
  <2> QED
    BY <2>2, QuietStep DEF WriteSegd
<1>7. CASE \E t \in Table, p \in Used, d \in PageMenu : WritePd(t, p, d)
  <2> PICK t \in Table, p \in Used, d \in PageMenu : WritePd(t, p, d)
    BY <1>7
  <2>1. pd' \in [Table -> [Page -> PageDesc]]
    BY CmmuAssumption DEF WritePd, IInv, TypeOK, StateType
  <2>2. StateType'
    BY <2>1, CmmuAssumption
    DEF WritePd, Edit, IInv, TypeOK, StateType, tlbs, code
  <2> QED
    BY <2>2, QuietStep DEF WritePd
<1>8. CASE \E c \in CPU : sim_select_processor(c)
  BY <1>8, FlushedInv DEF sim_select_processor, tables, IInv, TypeOK, StateType
<1>9. CASE do_sim_reset
  <2>1. /\ area' \in [CPU -> [Side -> [Mode -> Table \cup {Off}]]]
        /\ batc' \in [CPU -> [Side -> [Port -> BatcMenu \cup {NoBatc}]]]
        /\ edits' \in 0 .. MaxEdits
    BY <1>9, CmmuAssumption
    DEF do_sim_reset, ResetAreas, ResetBatcs, Edit, IInv, TypeOK, StateType
  <2> QED
    BY <1>9, <2>1, FlushedInv DEF do_sim_reset
<1>10. CASE UNCHANGED vars
  <2>1. IInv' <=> IInv
    BY <1>10
    DEF vars, tables, tlbs, code, IInv, TypeOK, StateType, LoadsPromised,
        StoresPromised, ReadBack, CodePromised
  <2> QED
    BY <2>1
<1> QED
  BY <1>1, <1>2, <1>3, <1>4, <1>5, <1>6, <1>7, <1>8, <1>9, <1>10 DEF Next

-----------------------------------------------------------------------------
LEMMA Inductive == Spec => []IInv
BY InitInv, NextInv, PTL DEF Spec

\* The registers, descriptors, caches and history keep their types
\* (cmmu.c, misc.c).
THEOREM TypeCorrect == Spec => []TypeOK
<1>1. IInv => TypeOK
  BY DEF IInv
<1> QED
  BY <1>1, Inductive, PTL

\* What a load finds in the load TLB is a translation that the selected
\* CPU's CMMU has given since the program's last flush (l_mem_op).
THEOREM LoadsTrue == Spec => []LoadsPromised
<1>1. IInv => LoadsPromised
  BY DEF IInv
<1> QED
  BY <1>1, Inductive, PTL

\* What a store finds in the store TLB is such a translation, it admitted
\* a write, and the page descriptor was marked (l_mem_op, l_to_p).
THEOREM StoresTrue == Spec => []StoresPromised
<1>1. IInv => StoresPromised
  BY DEF IInv
<1> QED
  BY <1>1, Inductive, PTL

\* The store TLB never sends a store where the load TLB does not look
\* (l_mem_op and the flushes of siminit.c).
THEOREM StoresReadBack == Spec => []ReadBack
<1>1. IInv => ReadBack
  BY DEF IInv
<1> QED
  BY <1>1, Inductive, PTL

\* What runs from the code cache is a translation that the code CMMU has
\* given since the program's last flush (l_to_d).
THEOREM CodeTrue == Spec => []CodePromised
<1>1. IInv => CodePromised
  BY DEF IInv
<1> QED
  BY <1>1, Inductive, PTL
=============================================================================
