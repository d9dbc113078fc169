-------------------------- MODULE BreakpointsProofs --------------------------
(***************************************************************************)
(* For every set of addresses and every number of breakpoints: the types   *)
(* hold, the marks of duplicates leave one breakpoint to insert, and until *)
(* rerr ends a command the program's text is clean at the prompt, armed    *)
(* while it runs, and damaged by phantoms only.                            *)
(***************************************************************************)
EXTENDS Breakpoints, SequenceTheorems, FiniteSetTheorems,
        WellFoundedInduction, TLAPS

Chain == Seq(Breakpoint)
Text  == [Addr -> Contents]

(***************************************************************************)
(* The inductive invariant, in parts.                                      *)
(***************************************************************************)
FirstAt(bs, a) == {i \in EnabledAt(bs, a) : ~bs[i].duplicate}

\* OneFirst at a, without cardinalities.
MarkedAt(bs, a) ==
  /\ \A i, j \in FirstAt(bs, a) : i = j
  /\ EnabledAt(bs, a) # {} /\ FirstAt(bs, a) = {} =>
       \E i \in DOMAIN bs : bs[i].address = a /\ bs[i].enable = "disabled"

Marked(bs) == \A a \in Addr : MarkedAt(bs, a)

\* The special breakpoint is to be in the program.
Active == resume_at # NoAddr /\ ~resume_dup

NoneIn(bs)  == \A i \in DOMAIN bs : ~bs[i].inserted
Clean(t)    == \A a \in Addr : t[a] # Trap
InAt(bs, a) == {i \in DOMAIN bs : bs[i].inserted /\ bs[i].address = a}

\* Nothing is in the program unless breakpoints_inserted says so.
Out == ~breakpoints_inserted => NoneIn(chain) /\ Clean(text)

\* Then everything is that should be, once, over what belongs there.
Shadowed(bs, t) ==
  /\ \A i \in DOMAIN bs : bs[i].inserted =>
       t[bs[i].address] = Trap /\ bs[i].shadow # Trap
  /\ \A i, j \in DOMAIN bs :
       bs[i].inserted /\ bs[j].inserted /\ bs[i].address = bs[j].address
         => i = j
  /\ \A i \in DOMAIN bs :
       bs[i].enable # "disabled" /\ ~bs[i].duplicate => bs[i].inserted

Covered(bs, t, at) ==
  \A a \in Addr : t[a] = Trap => InAt(bs, a) # {} \/ a = at

In ==
  breakpoints_inserted =>
    /\ Shadowed(chain, text)
    /\ Covered(chain, text, IF Active THEN resume_at ELSE NoAddr)
    /\ Active => text[resume_at] = Trap /\ InAt(chain, resume_at) = {}
    /\ phase # "stop" => \A i \in DOMAIN chain :
         chain[i].inserted => chain[i].enable # "disabled"

\* No enabled breakpoint of the table is where the special one is, and one is
\* where the special one is not needed.
Apart ==
  /\ resume_shadow # Trap
  /\ Active /\ phase # "prompt" => EnabledAt(chain, resume_at) = {}
  /\ resume_at # NoAddr /\ resume_dup /\ phase \notin {"prompt", "stop"} =>
       EnabledAt(chain, resume_at) # {}

Phased ==
  /\ phase \in {"prompt", "insert"} => ~breakpoints_inserted
  /\ phase = "running" => breakpoints_inserted
  /\ phase = "insert" => resume_at = NoAddr
  /\ remove_following => range
  /\ phase \in {"stepping", "stopped"} /\ resume_at # NoAddr =>
       breakpoints_inserted \/ trap_expected

Orderly == Out /\ In /\ Apart /\ Phased

IInv == TypeOK /\ Marked(chain) /\ (~unwound => Orderly)

-----------------------------------------------------------------------------
(***************************************************************************)
(* Least and greatest elements.                                            *)
(***************************************************************************)
LEMMA Least ==
  ASSUME NEW S, S \subseteq Nat, S # {}
  PROVE  \E x \in S : \A y \in S : x <= y
<1> DEFINE R == {ss \in Nat \X Nat : ss[1] < ss[2]}
<1>1. IsWellFoundedOn(R, Nat)
  BY NatLessThanWellFounded DEF OpToRel
<1>2. PICK x \in S : \A y \in S : ~ (<<y, x>> \in R)
  <2> HIDE DEF R
  <2> QED
    BY <1>1, WFMin
<1>3. ASSUME NEW y \in S PROVE x <= y
  <2>1. <<y, x>> \notin R /\ x \in Nat /\ y \in Nat
    BY <1>2
  <2> QED
    BY <2>1
<1> QED
  BY <1>3

LEMMA MinIn ==
  ASSUME NEW S, S \subseteq Nat, S # {}
  PROVE  Min(S) \in S /\ \A y \in S : Min(S) <= y
BY Least DEF Min

LEMMA MaxIn ==
  ASSUME NEW n \in Nat, NEW S, S \subseteq 1 .. n, S # {}
  PROVE  Max(S) \in S
<1> DEFINE T == {n - x : x \in S}
<1>1. T \subseteq Nat
  OBVIOUS
<1>2. PICK x0 \in S : TRUE
  OBVIOUS
<1>3. n - x0 \in T
  OBVIOUS
<1>4. PICK t \in T : \A y \in T : t <= y
  <2> HIDE DEF T
  <2> QED
    BY <1>1, <1>3, Least
<1>5. PICK x \in S : t = n - x
  OBVIOUS
<1>6. ASSUME NEW y \in S PROVE x >= y
  <2>1. n - x <= n - y
    BY <1>4, <1>5
  <2>2. x \in Int /\ y \in Int
    OBVIOUS
  <2> QED
    BY <2>1, <2>2
<1> QED
  BY <1>6 DEF Max

-----------------------------------------------------------------------------
(***************************************************************************)
(* The table.                                                              *)
(***************************************************************************)
LEMMA ChainAt ==
  ASSUME NEW bs \in Chain
  PROVE  /\ Len(bs) \in Nat /\ DOMAIN bs = 1 .. Len(bs)
         /\ \A i \in DOMAIN bs :
              /\ bs[i] \in Breakpoint
              /\ bs[i].address \in Addr /\ bs[i].enable \in Enables
              /\ bs[i].inserted \in BOOLEAN /\ bs[i].duplicate \in BOOLEAN
              /\ bs[i].shadow \in Contents
<1>1. Len(bs) \in Nat /\ DOMAIN bs = 1 .. Len(bs)
  BY LenProperties DEF Chain
<1>2. \A i \in DOMAIN bs : bs[i] \in Breakpoint
  BY <1>1, ElementOfSeq DEF Chain
<1> QED
  BY <1>1, <1>2 DEF Breakpoint

\* A function on 1 .. n to breakpoints is a chain.
LEMMA ChainOf ==
  ASSUME NEW n \in Nat, NEW f \in [1 .. n -> Breakpoint]
  PROVE  f \in Chain /\ Len(f) = n
<1>1. f \in Chain
  BY SeqDef DEF Chain
<1>2. DOMAIN f = 1 .. Len(f) /\ Len(f) \in Nat
  BY <1>1, LenProperties DEF Chain
<1> QED
  BY <1>1, <1>2

\* Chains that agree on addresses, enables and marks.
SameMarks(bs, cs) ==
  /\ DOMAIN bs = DOMAIN cs
  /\ \A i \in DOMAIN bs : /\ bs[i].address = cs[i].address
                          /\ bs[i].enable = cs[i].enable
                          /\ bs[i].duplicate = cs[i].duplicate

LEMMA SameMarked ==
  ASSUME NEW bs, NEW cs, SameMarks(bs, cs)
  PROVE  /\ \A a : EnabledAt(bs, a) = EnabledAt(cs, a)
         /\ \A a : FirstAt(bs, a) = FirstAt(cs, a)
         /\ \A a : MarkedAt(bs, a) <=> MarkedAt(cs, a)
         /\ Marked(bs) <=> Marked(cs)
<1>1. \A a : EnabledAt(bs, a) = EnabledAt(cs, a)
  BY DEF SameMarks, EnabledAt
<1>2. \A a : FirstAt(bs, a) = FirstAt(cs, a)
  BY <1>1 DEF SameMarks, FirstAt, EnabledAt
<1>3. \A a : MarkedAt(bs, a) <=> MarkedAt(cs, a)
  BY <1>1, <1>2 DEF SameMarks, MarkedAt
<1> QED
  BY <1>1, <1>2, <1>3 DEF Marked

LEMMA Checked ==
  ASSUME NEW bs \in Chain, NEW a
  PROVE  LET c == check_duplicates(bs, a) IN
         /\ c \in Chain /\ Len(c) = Len(bs) /\ DOMAIN c = DOMAIN bs
         /\ \A i \in DOMAIN bs :
              /\ c[i].address = bs[i].address /\ c[i].enable = bs[i].enable
              /\ c[i].inserted = bs[i].inserted /\ c[i].shadow = bs[i].shadow
              /\ c[i].duplicate = IF i \in EnabledAt(bs, a)
                                    THEN \E j \in EnabledAt(bs, a) : j < i
                                    ELSE bs[i].duplicate
         /\ NoneIn(bs) => NoneIn(c)
<1> DEFINE c == check_duplicates(bs, a)
           D(i) == \E j \in EnabledAt(bs, a) : j < i
<1>1. /\ DOMAIN c = DOMAIN bs
      /\ \A i \in DOMAIN bs :
           c[i] = IF i \in EnabledAt(bs, a)
                    THEN [bs[i] EXCEPT !.duplicate = D(i)] ELSE bs[i]
  BY DEF check_duplicates
<1> HIDE DEF c
<1>2. ASSUME NEW i \in DOMAIN bs
      PROVE  /\ c[i] \in Breakpoint
             /\ c[i].address = bs[i].address /\ c[i].enable = bs[i].enable
             /\ c[i].inserted = bs[i].inserted /\ c[i].shadow = bs[i].shadow
             /\ c[i].duplicate = IF i \in EnabledAt(bs, a)
                                   THEN D(i) ELSE bs[i].duplicate
  <2>1. bs[i] \in Breakpoint
    BY ChainAt
  <2>2. D(i) \in BOOLEAN
    OBVIOUS
  <2> HIDE DEF D
  <2> QED
    BY <1>1, <2>1, <2>2 DEF Breakpoint
<1>3. c \in [1 .. Len(bs) -> Breakpoint] /\ Len(bs) \in Nat
  <2>1. c = [i \in DOMAIN bs |-> c[i]]
    BY DEF check_duplicates, c
  <2> QED
    BY <2>1, <1>2, ChainAt
<1>4. c \in Chain /\ Len(c) = Len(bs)
  BY <1>3, ChainOf
<1>5. NoneIn(bs) => NoneIn(c)
  BY <1>1, <1>2 DEF NoneIn
<1> QED
  BY <1>1, <1>2, <1>4, <1>5 DEF c

LEMMA CheckedMarks ==
  ASSUME NEW bs \in Chain, NEW a
  PROVE  /\ MarkedAt(check_duplicates(bs, a), a)
         /\ \A b : b # a /\ MarkedAt(bs, b) =>
                     MarkedAt(check_duplicates(bs, a), b)
<1> DEFINE c == check_duplicates(bs, a)
<1>1. /\ DOMAIN c = DOMAIN bs
      /\ \A i \in DOMAIN bs :
           /\ c[i].address = bs[i].address /\ c[i].enable = bs[i].enable
           /\ c[i].duplicate = IF i \in EnabledAt(bs, a)
                                 THEN \E j \in EnabledAt(bs, a) : j < i
                                 ELSE bs[i].duplicate
  BY Checked
<1> HIDE DEF c
<1>2. \A b : EnabledAt(c, b) = EnabledAt(bs, b)
  BY <1>1 DEF EnabledAt
<1>3. EnabledAt(bs, a) \subseteq Nat /\ EnabledAt(bs, a) \subseteq DOMAIN bs
  BY ChainAt DEF EnabledAt
<1>4. MarkedAt(c, a)
  <2>1. ASSUME NEW i \in FirstAt(c, a), NEW j \in FirstAt(c, a) PROVE i = j
    <3>1. i \in EnabledAt(bs, a) /\ j \in EnabledAt(bs, a)
      BY <1>2 DEF FirstAt
    <3>2. ~(\E k \in EnabledAt(bs, a) : k < i)
          /\ ~(\E k \in EnabledAt(bs, a) : k < j)
      BY <3>1, <1>1, <1>3 DEF FirstAt
    <3> QED
      BY <3>1, <3>2, <1>3
  <2>2. ASSUME EnabledAt(c, a) # {} PROVE FirstAt(c, a) # {}
    <3>1. PICK m \in EnabledAt(bs, a) : \A y \in EnabledAt(bs, a) : m <= y
      BY <2>2, <1>2, <1>3, Least
    <3>2. ~(\E k \in EnabledAt(bs, a) : k < m)
      BY <3>1, <1>3
    <3>3. m \in FirstAt(c, a)
      BY <3>1, <3>2, <1>1, <1>2, <1>3 DEF FirstAt
    <3> QED
      BY <3>3
  <2> QED
    BY <2>1, <2>2 DEF MarkedAt
<1>5. ASSUME NEW b, b # a, MarkedAt(bs, b) PROVE MarkedAt(c, b)
  <2>1. ASSUME NEW i \in EnabledAt(bs, b) PROVE c[i].duplicate = bs[i].duplicate
    <3>1. i \in DOMAIN bs /\ i \notin EnabledAt(bs, a)
      BY <1>5 DEF EnabledAt
    <3> QED
      BY <3>1, <1>1
  <2>2. FirstAt(c, b) = FirstAt(bs, b)
    BY <2>1, <1>2 DEF FirstAt
  <2>3. ASSUME NEW i \in DOMAIN bs, bs[i].address = b, bs[i].enable = "disabled"
        PROVE  \E k \in DOMAIN c : c[k].address = b /\ c[k].enable = "disabled"
    BY <2>3, <1>1
  <2> QED
    BY <1>5, <2>2, <2>3, <1>2 DEF MarkedAt
<1> QED
  BY <1>4, <1>5 DEF c

\* Once the table has been marked everywhere but at a, check_duplicates(a)
\* makes up for a.
LEMMA CheckedAll ==
  ASSUME NEW bs \in Chain, NEW a,
         \A b \in Addr : b # a => MarkedAt(bs, b)
  PROVE  Marked(check_duplicates(bs, a))
BY CheckedMarks DEF Marked

LEMMA DeletedIs ==
  ASSUME NEW bs \in Chain, NEW i \in DOMAIN bs
  PROVE  /\ Deleted(bs, i) \in Chain /\ Len(Deleted(bs, i)) = Len(bs) - 1
         /\ Marked(bs) => Marked(Deleted(bs, i))
         /\ NoneIn(bs) => NoneIn(Deleted(bs, i))
<1> DEFINE a == bs[i].address
           cs == SubSeq(bs, 1, i - 1) \o SubSeq(bs, i + 1, Len(bs))
           was(k) == IF k < i THEN k ELSE k + 1
<1>1. Len(bs) \in Nat /\ DOMAIN bs = 1 .. Len(bs) /\ i \in 1 .. Len(bs)
  BY ChainAt
<1>2. /\ cs \in Chain /\ Len(cs) = Len(bs) - 1 /\ DOMAIN cs = 1 .. Len(cs)
      /\ \A k \in 1 .. Len(cs) : cs[k] = bs[was(k)]
  <2> DEFINE s1 == SubSeq(bs, 1, i - 1)
             s2 == SubSeq(bs, i + 1, Len(bs))
  <2>1. /\ s1 \in Chain /\ Len(s1) = i - 1
        /\ \A k \in 1 .. i - 1 : s1[k] = bs[k]
    BY <1>1, SubSeqProperties DEF Chain
  <2>2. /\ s2 \in Chain /\ Len(s2) = Len(bs) - i
        /\ \A k \in 1 .. Len(bs) - i : s2[k] = bs[i + k]
    BY <1>1, SubSeqProperties DEF Chain
  <2> HIDE DEF s1, s2
  <2>3. /\ s1 \o s2 \in Chain /\ Len(s1 \o s2) = Len(bs) - 1
        /\ \A k \in 1 .. Len(bs) - 1 :
             (s1 \o s2)[k] = IF k <= i - 1 THEN s1[k] ELSE s2[k - (i - 1)]
    <3>1. /\ s1 \o s2 \in Chain /\ Len(s1 \o s2) = Len(s1) + Len(s2)
          /\ \A k \in 1 .. Len(s1) + Len(s2) :
               (s1 \o s2)[k] = IF k <= Len(s1) THEN s1[k] ELSE s2[k - Len(s1)]
      BY <2>1, <2>2, ConcatProperties DEF Chain
    <3>2. Len(s1) + Len(s2) = Len(bs) - 1
      BY <1>1, <2>1, <2>2
    <3> QED
      BY <2>1, <3>1, <3>2
  <2>4. \A k \in 1 .. Len(bs) - 1 : (s1 \o s2)[k] = bs[was(k)]
    <3> SUFFICES ASSUME NEW k \in 1 .. Len(bs) - 1
                 PROVE  (s1 \o s2)[k] = bs[was(k)]
      OBVIOUS
    <3>1. CASE k < i
      BY <3>1, <1>1, <2>1, <2>3
    <3>2. CASE ~(k < i)
      <4>1. k - (i - 1) \in 1 .. Len(bs) - i /\ i + (k - (i - 1)) = k + 1
        BY <3>2, <1>1
      <4>2. (s1 \o s2)[k] = s2[k - (i - 1)]
        BY <3>2, <1>1, <2>3
      <4>3. s2[k - (i - 1)] = bs[i + (k - (i - 1))]
        BY <4>1, <2>2
      <4> QED
        BY <3>2, <4>1, <4>2, <4>3
    <3> QED
      BY <3>1, <3>2
  <2>5. cs = s1 \o s2
    BY DEF s1, s2
  <2> HIDE DEF cs, was
  <2>6. DOMAIN cs = 1 .. Len(cs)
    BY <2>3, <2>5, LenProperties DEF Chain
  <2> QED
    BY <2>3, <2>4, <2>5, <2>6
<1>3. \A k \in DOMAIN cs : was(k) \in DOMAIN bs /\ was(k) # i
  BY <1>1, <1>2
<1>4. \A j \in DOMAIN bs : j # i => \E k \in DOMAIN cs : was(k) = j
  <2> SUFFICES ASSUME NEW j \in DOMAIN bs, j # i
               PROVE  \E k \in DOMAIN cs : was(k) = j
    OBVIOUS
  <2>1. CASE j < i
    BY <2>1, <1>1, <1>2
  <2>2. CASE j > i
    <3>1. j - 1 \in DOMAIN cs /\ was(j - 1) = j
      BY <2>2, <1>1, <1>2
    <3> QED
      BY <3>1
  <2> QED
    BY <2>1, <2>2, <1>1
<1>5. \A k, l \in DOMAIN cs : was(k) = was(l) => k = l
  BY <1>1, <1>2
<1> HIDE DEF cs, was
<1>6. ASSUME Marked(bs), NEW b \in Addr, b # a PROVE MarkedAt(cs, b)
  <2>1. \A k : k \in EnabledAt(cs, b) <=>
                 k \in DOMAIN cs /\ was(k) \in EnabledAt(bs, b)
    BY <1>2, <1>3 DEF EnabledAt
  <2>2. \A k : k \in FirstAt(cs, b) <=>
                 k \in DOMAIN cs /\ was(k) \in FirstAt(bs, b)
    BY <2>1, <1>2 DEF FirstAt
  <2>3. \A j \in DOMAIN bs : bs[j].address = b =>
          \E k \in DOMAIN cs : was(k) = j
    BY <1>6, <1>4
  <2>4. MarkedAt(bs, b)
    BY <1>6 DEF Marked
  <2>5. \A k, l \in FirstAt(cs, b) : k = l
    BY <2>2, <2>4, <1>5 DEF MarkedAt
  <2>6. ASSUME EnabledAt(cs, b) # {}, FirstAt(cs, b) = {}
        PROVE  \E k \in DOMAIN cs :
                 cs[k].address = b /\ cs[k].enable = "disabled"
    <3>1. EnabledAt(bs, b) # {}
      BY <2>6, <2>1
    <3>2. FirstAt(bs, b) = {}
      <4> SUFFICES ASSUME NEW j \in FirstAt(bs, b) PROVE FALSE
        OBVIOUS
      <4>1. j \in DOMAIN bs /\ bs[j].address = b
        BY DEF FirstAt, EnabledAt
      <4> QED
        BY <4>1, <2>3, <2>2, <2>6
    <3>3. PICK j \in DOMAIN bs :
                 bs[j].address = b /\ bs[j].enable = "disabled"
      BY <3>1, <3>2, <2>4 DEF MarkedAt
    <3>4. PICK k \in DOMAIN cs : was(k) = j
      BY <3>3, <2>3
    <3> QED
      BY <3>3, <3>4, <1>2
  <2> QED
    BY <2>5, <2>6 DEF MarkedAt
<1>7. Marked(bs) => Marked(check_duplicates(cs, a))
  BY <1>2, <1>6, CheckedAll
<1>8. /\ check_duplicates(cs, a) \in Chain
      /\ Len(check_duplicates(cs, a)) = Len(cs)
  BY <1>2, Checked
<1>9. NoneIn(bs) => NoneIn(check_duplicates(cs, a))
  <2>1. NoneIn(bs) => NoneIn(cs)
    BY <1>2, <1>3 DEF NoneIn
  <2> QED
    BY <2>1, <1>2, Checked
<1>10. Deleted(bs, i) = check_duplicates(cs, a)
  BY DEF Deleted, cs
<1> QED
  BY <1>2, <1>7, <1>8, <1>9, <1>10

LEMMA RestoredIs ==
  ASSUME NEW t \in Text, NEW b \in Breakpoint
  PROVE  Restored(t, b) \in Text /\ (~b.inserted => Restored(t, b) = t)
BY DEF Restored, Text, Breakpoint

LEMMA ClearedIs ==
  ASSUME NEW t \in Text, NEW bs \in Chain
  PROVE  /\ Cleared(t, bs)[1] \in Text /\ Cleared(t, bs)[2] \in Chain
         /\ Len(Cleared(t, bs)[2]) <= Len(bs)
         /\ Marked(bs) => Marked(Cleared(t, bs)[2])
         /\ NoneIn(bs) => Cleared(t, bs)[1] = t /\ NoneIn(Cleared(t, bs)[2])
<1>0. Len(bs) \in Nat /\ DOMAIN bs = 1 .. Len(bs)
  BY ChainAt
<1>1. CASE MomentaryIn(bs) = {}
  BY <1>0, <1>1 DEF Cleared
<1>2. CASE MomentaryIn(bs) # {}
  <2> DEFINE i == Min(MomentaryIn(bs))
  <2>0. MomentaryIn(bs) \subseteq DOMAIN bs /\ DOMAIN bs \subseteq Nat
    BY <1>0 DEF MomentaryIn
  <2>1. i \in DOMAIN bs
    BY <2>0, <1>2, MinIn
  <2>2. Cleared(t, bs) = <<Restored(t, bs[i]), Deleted(bs, i)>>
    BY <1>2 DEF Cleared
  <2> HIDE DEF i
  <2>3. bs[i] \in Breakpoint
    BY <2>1, ChainAt
  <2>4. NoneIn(bs) => ~bs[i].inserted
    BY <2>1 DEF NoneIn
  <2> QED
    BY <1>0, <2>1, <2>2, <2>3, <2>4, RestoredIs, DeletedIs
<1> QED
  BY <1>1, <1>2

\* A breakpoint set at a.
LEMMA Appended ==
  ASSUME NEW bs \in Chain, NEW a \in Addr, NEW e \in Enables
  PROVE  LET c == check_duplicates(Append(bs, Raw(a, e)), a) IN
         /\ c \in Chain /\ Len(c) = Len(bs) + 1
         /\ Marked(bs) => Marked(c)
         /\ NoneIn(bs) => NoneIn(c)
<1> DEFINE b == Raw(a, e)
           cs == Append(bs, b)
<1>0. Len(bs) \in Nat /\ DOMAIN bs = 1 .. Len(bs)
  BY ChainAt
<1>1. b \in Breakpoint /\ b.address = a /\ ~b.inserted
  BY DEF Raw, Breakpoint, Contents
<1> HIDE DEF b
<1>2. /\ cs \in Chain /\ Len(cs) = Len(bs) + 1 /\ DOMAIN cs = 1 .. Len(cs)
      /\ \A k \in 1 .. Len(bs) : cs[k] = bs[k]
      /\ cs[Len(bs) + 1] = b
  BY <1>0, <1>1 DEF Chain
<1> HIDE DEF cs
<1>3. ASSUME Marked(bs), NEW x \in Addr, x # a PROVE MarkedAt(cs, x)
  <2>1. EnabledAt(cs, x) = EnabledAt(bs, x)
    BY <1>0, <1>1, <1>2, <1>3 DEF EnabledAt
  <2>2. FirstAt(cs, x) = FirstAt(bs, x)
    BY <2>1, <1>0, <1>2 DEF FirstAt, EnabledAt
  <2>3. \A k \in DOMAIN bs : k \in DOMAIN cs /\ cs[k] = bs[k]
    BY <1>0, <1>2
  <2> QED
    BY <1>3, <2>1, <2>2, <2>3 DEF Marked, MarkedAt
<1>4. NoneIn(bs) => NoneIn(cs)
  BY <1>0, <1>1, <1>2 DEF NoneIn
<1>5. /\ check_duplicates(cs, a) \in Chain
      /\ Len(check_duplicates(cs, a)) = Len(cs)
      /\ NoneIn(cs) => NoneIn(check_duplicates(cs, a))
  BY <1>2, Checked
<1>6. Marked(bs) => Marked(check_duplicates(cs, a))
  BY <1>2, <1>3, CheckedAll
<1> QED
  BY <1>2, <1>4, <1>5, <1>6 DEF cs, b

\* One that is enabled or disabled.
SetEnable(bs, i, e) == [bs EXCEPT ![i].enable = e]

LEMMA EnabledIs ==
  ASSUME NEW bs \in Chain, NEW i \in DOMAIN bs, NEW e \in Enables
  PROVE  LET c == SetEnable(bs, i, e) IN
         /\ c \in Chain /\ Len(c) = Len(bs) /\ DOMAIN c = DOMAIN bs
         /\ \A k \in DOMAIN bs :
              /\ c[k].address = bs[k].address
              /\ c[k].enable = IF k = i THEN e ELSE bs[k].enable
              /\ c[k].duplicate = bs[k].duplicate
              /\ c[k].inserted = bs[k].inserted
              /\ c[k].shadow = bs[k].shadow
         /\ \A b \in Addr : b # bs[i].address /\ MarkedAt(bs, b) =>
                             MarkedAt(c, b)
<1> DEFINE c == SetEnable(bs, i, e)
<1>0. Len(bs) \in Nat /\ DOMAIN bs = 1 .. Len(bs)
      /\ \A k \in DOMAIN bs : bs[k] \in Breakpoint
  BY ChainAt
<1>1. \A k \in DOMAIN bs :
        /\ c[k] \in Breakpoint
        /\ c[k].address = bs[k].address
        /\ c[k].enable = IF k = i THEN e ELSE bs[k].enable
        /\ c[k].duplicate = bs[k].duplicate
        /\ c[k].inserted = bs[k].inserted
        /\ c[k].shadow = bs[k].shadow
  BY <1>0 DEF Breakpoint, SetEnable
<1>2. DOMAIN c = DOMAIN bs /\ c = [k \in DOMAIN bs |-> c[k]]
  BY DEF SetEnable
<1> HIDE DEF c
<1>3. c \in [1 .. Len(bs) -> Breakpoint]
  BY <1>0, <1>1, <1>2
<1>4. c \in Chain /\ Len(c) = Len(bs)
  BY <1>0, <1>3, ChainOf
<1>5. ASSUME NEW b \in Addr, b # bs[i].address, MarkedAt(bs, b)
      PROVE  MarkedAt(c, b)
  <2>1. EnabledAt(c, b) = EnabledAt(bs, b)
    BY <1>1, <1>2, <1>5 DEF EnabledAt
  <2>2. FirstAt(c, b) = FirstAt(bs, b)
    BY <2>1, <1>1, <1>2 DEF FirstAt, EnabledAt
  <2>3. \A k \in DOMAIN bs : bs[k].address = b =>
          c[k].address = b /\ c[k].enable = bs[k].enable
    BY <1>1, <1>5
  <2> QED
    BY <1>2, <1>5, <2>1, <2>2, <2>3 DEF MarkedAt
<1> QED
  BY <1>1, <1>2, <1>4, <1>5 DEF c

-----------------------------------------------------------------------------
(***************************************************************************)
(* Passes over the table.                                                  *)
(***************************************************************************)
LEMMA InsertedIs ==
  ASSUME NEW t \in Text, chain \in Chain, NEW k \in Nat, NEW stored
  PROVE  /\ WithTraps(t, k, stored) \in Text
         /\ AsInserted(t, k) \in Chain /\ Len(AsInserted(t, k)) = Len(chain)
         /\ SameMarks(AsInserted(t, k), chain)
<1> DEFINE cs == AsInserted(t, k)
<1>0. /\ Len(chain) \in Nat /\ DOMAIN chain = 1 .. Len(chain)
      /\ \A i \in DOMAIN chain :
           chain[i] \in Breakpoint /\ chain[i].address \in Addr
  BY ChainAt
<1>1. ASSUME NEW n, NEW st PROVE WithTraps(t, n, st) \in Text
  BY DEF WithTraps, Text, Contents
<1>2. /\ DOMAIN cs = DOMAIN chain
      /\ \A i \in DOMAIN chain :
           cs[i] = IF ToInsert(i) /\ i =< k
                     THEN [chain[i] EXCEPT !.inserted = (i < k),
                             !.shadow = WithTraps(t, i, FALSE)[chain[i].address]]
                     ELSE chain[i]
      /\ cs = [i \in DOMAIN chain |-> cs[i]]
  BY DEF AsInserted
<1> HIDE DEF cs
<1>3. ASSUME NEW i \in DOMAIN chain
      PROVE  /\ cs[i] \in Breakpoint
             /\ cs[i].address = chain[i].address
             /\ cs[i].enable = chain[i].enable
             /\ cs[i].duplicate = chain[i].duplicate
  <2> DEFINE w == WithTraps(t, i, FALSE)[chain[i].address]
  <2>1. w \in Contents
    BY <1>0, <1>1 DEF Text
  <2>2. (i < k) \in BOOLEAN
    BY <1>0
  <2>3. chain[i] \in Breakpoint
    BY <1>0
  <2> HIDE DEF w
  <2>4. cs[i] = chain[i] \/
        cs[i] = [chain[i] EXCEPT !.inserted = (i < k), !.shadow = w]
    BY <1>2 DEF w
  <2> QED
    BY <2>1, <2>2, <2>3, <2>4 DEF Breakpoint
<1>4. cs \in Chain /\ Len(cs) = Len(chain)
  <2>1. cs \in [1 .. Len(chain) -> Breakpoint]
    BY <1>0, <1>2, <1>3
  <2> QED
    BY <2>1, <1>0, ChainOf
<1>5. SameMarks(cs, chain)
  BY <1>2, <1>3 DEF SameMarks
<1> QED
  BY <1>1, <1>4, <1>5 DEF cs

LEMMA RemovedIs ==
  ASSUME NEW t \in Text, chain \in Chain, NEW k \in Nat, NEW stored
  PROVE  /\ WithoutTraps(t, k, stored) \in Text
         /\ AsRemoved(k) \in Chain /\ Len(AsRemoved(k)) = Len(chain)
         /\ SameMarks(AsRemoved(k), chain)
         /\ k = Len(chain) + 1 => NoneIn(AsRemoved(k))
<1> DEFINE cs == AsRemoved(k)
<1>0. /\ Len(chain) \in Nat /\ DOMAIN chain = 1 .. Len(chain)
      /\ \A i \in DOMAIN chain : chain[i] \in Breakpoint
  BY ChainAt
<1>1. WithoutTraps(t, k, stored) \in Text
  <2> DEFINE S(a) == {i \in DOMAIN chain : /\ Inserted(i)
                                          /\ Done(i, k, stored)
                                          /\ chain[i].address = a}
             w(a) == IF S(a) = {} THEN t[a] ELSE chain[Max(S(a))].shadow
  <2>1. ASSUME NEW a \in Addr PROVE w(a) \in Contents
    <3>1. CASE S(a) = {}
      BY <3>1 DEF Text
    <3>2. CASE S(a) # {}
      <4>1. S(a) \subseteq 1 .. Len(chain)
        BY <1>0
      <4>2. Max(S(a)) \in 1 .. Len(chain)
        <5> HIDE DEF S
        <5> QED
          BY <3>2, <4>1, <1>0, MaxIn
      <4> HIDE DEF S
      <4>3. chain[Max(S(a))].shadow \in Contents
        BY <4>2, <1>0 DEF Breakpoint
      <4> QED
        BY <3>2, <4>3
    <3> QED
      BY <3>1, <3>2
  <2>2. WithoutTraps(t, k, stored) = [a \in Addr |-> w(a)]
    BY DEF WithoutTraps
  <2> HIDE DEF w
  <2> QED
    BY <2>1, <2>2 DEF Text
<1>2. /\ DOMAIN cs = DOMAIN chain
      /\ \A i \in DOMAIN chain :
           cs[i] = IF i < k THEN [chain[i] EXCEPT !.inserted = FALSE]
                            ELSE chain[i]
      /\ cs = [i \in DOMAIN chain |-> cs[i]]
  BY DEF AsRemoved
<1> HIDE DEF cs
<1>3. ASSUME NEW i \in DOMAIN chain
      PROVE  /\ cs[i] \in Breakpoint
             /\ cs[i].address = chain[i].address
             /\ cs[i].enable = chain[i].enable
             /\ cs[i].duplicate = chain[i].duplicate
             /\ i < k => ~cs[i].inserted
  BY <1>0, <1>2 DEF Breakpoint
<1>4. cs \in Chain /\ Len(cs) = Len(chain)
  <2>1. cs \in [1 .. Len(chain) -> Breakpoint]
    BY <1>0, <1>2, <1>3
  <2> QED
    BY <2>1, <1>0, ChainOf
<1>5. SameMarks(cs, chain)
  BY <1>2, <1>3 DEF SameMarks
<1>6. k = Len(chain) + 1 => NoneIn(cs)
  BY <1>0, <1>2, <1>3 DEF NoneIn
<1> QED
  BY <1>1, <1>4, <1>5, <1>6 DEF cs

\* Table cs and program u after a whole pass of insert_breakpoints over
\* program t, which had no breakpoints but the special one, at: everything
\* that is to be inserted is, once, over what was there.
AllIn(cs, u, t, at) ==
  /\ Shadowed(cs, u) /\ Covered(cs, u, at) /\ InAt(cs, at) = {}
  /\ \A i \in DOMAIN cs : cs[i].inserted =>
       cs[i].enable # "disabled" /\ cs[i].shadow = t[cs[i].address]
  /\ \A a \in Addr : t[a] = Trap => u[a] = Trap
  /\ \A a \in Addr : InAt(cs, a) = {} => u[a] = t[a]

LEMMA InsertedAll ==
  ASSUME NEW t \in Text, chain \in Chain, NEW stored, NEW at,
         NoneIn(chain), Marked(chain),
         \A a \in Addr : t[a] = Trap => a = at,
         EnabledAt(chain, at) = {}
  PROVE  AllIn(AsInserted(t, Len(chain) + 1),
               WithTraps(t, Len(chain) + 1, stored), t, at)
<1> DEFINE k == Len(chain) + 1
           cs == AsInserted(t, k)
           u == WithTraps(t, k, stored)
<1>0. /\ Len(chain) \in Nat /\ DOMAIN chain = 1 .. Len(chain)
      /\ \A i \in DOMAIN chain :
           chain[i] \in Breakpoint /\ chain[i].address \in Addr
  BY ChainAt
<1>1. \A i \in DOMAIN chain :
        ToInsert(i) <=> i \in FirstAt(chain, chain[i].address)
  BY DEF ToInsert, FirstAt, EnabledAt, NoneIn
<1>2. \A i, j \in DOMAIN chain :
        ToInsert(i) /\ ToInsert(j) /\ chain[i].address = chain[j].address
          => i = j
  BY <1>0, <1>1 DEF Marked, MarkedAt
<1>3. \A i \in DOMAIN chain : ToInsert(i) =>
        /\ WithTraps(t, i, FALSE)[chain[i].address] = t[chain[i].address]
        /\ chain[i].address # at
  <2> SUFFICES ASSUME NEW i \in DOMAIN chain, ToInsert(i)
               PROVE  /\ WithTraps(t, i, FALSE)[chain[i].address]
                            = t[chain[i].address]
                      /\ chain[i].address # at
    OBVIOUS
  <2>1. ~ \E j \in DOMAIN chain : /\ ToInsert(j) /\ Done(j, i, FALSE)
                                  /\ chain[j].address = chain[i].address
    <3> SUFFICES ASSUME NEW j \in DOMAIN chain, ToInsert(j),
                        Done(j, i, FALSE), chain[j].address = chain[i].address
                 PROVE  FALSE
      OBVIOUS
    <3>1. j = i
      BY <1>2
    <3> QED
      BY <3>1, <1>0 DEF Done
  <2>2. i \in EnabledAt(chain, chain[i].address)
    BY <1>1 DEF FirstAt
  <2> QED
    BY <2>1, <2>2, <1>0 DEF WithTraps
<1>4. /\ DOMAIN cs = DOMAIN chain
      /\ \A i \in DOMAIN chain :
           /\ cs[i].address = chain[i].address
           /\ cs[i].enable = chain[i].enable
           /\ cs[i].duplicate = chain[i].duplicate
           /\ cs[i].inserted <=> ToInsert(i)
           /\ ToInsert(i) => cs[i].shadow = t[chain[i].address]
  <2>1. DOMAIN cs = DOMAIN chain
    BY DEF AsInserted
  <2>2. ASSUME NEW i \in DOMAIN chain, ToInsert(i)
        PROVE  cs[i] = [chain[i] EXCEPT !.inserted = TRUE,
                                        !.shadow = t[chain[i].address]]
    <3>1. i =< k /\ i < k
      BY <1>0
    <3>2. cs[i] = [chain[i] EXCEPT !.inserted = (i < k),
                      !.shadow = WithTraps(t, i, FALSE)[chain[i].address]]
      BY <2>2, <3>1 DEF AsInserted
    <3>3. WithTraps(t, i, FALSE)[chain[i].address] = t[chain[i].address]
      BY <2>2, <1>3
    <3>4. (i < k) = TRUE
      BY <3>1
    <3> QED
      BY <3>2, <3>3, <3>4
  <2>3. ASSUME NEW i \in DOMAIN chain, ~ToInsert(i) PROVE cs[i] = chain[i]
    BY <2>3 DEF AsInserted
  <2> HIDE DEF cs
  <2>4. ASSUME NEW i \in DOMAIN chain
        PROVE  /\ cs[i].address = chain[i].address
               /\ cs[i].enable = chain[i].enable
               /\ cs[i].duplicate = chain[i].duplicate
               /\ cs[i].inserted <=> ToInsert(i)
               /\ ToInsert(i) => cs[i].shadow = t[chain[i].address]
    <3>1. CASE ToInsert(i)
      BY <3>1, <2>2, <1>0 DEF Breakpoint
    <3>2. CASE ~ToInsert(i)
      BY <3>2, <2>3 DEF NoneIn
    <3> QED
      BY <3>1, <3>2
  <2> QED
    BY <2>1, <2>4
<1> HIDE DEF cs
<1>5. \A a \in Addr :
        u[a] = IF InAt(cs, a) # {} THEN Trap ELSE t[a]
  <2> SUFFICES ASSUME NEW a \in Addr
               PROVE  u[a] = IF InAt(cs, a) # {} THEN Trap ELSE t[a]
    OBVIOUS
  <2>1. (\E i \in DOMAIN chain : /\ ToInsert(i) /\ Done(i, k, stored)
                                 /\ chain[i].address = a)
          <=> InAt(cs, a) # {}
    BY <1>0, <1>4 DEF InAt, Done
  <2> QED
    BY <2>1 DEF WithTraps
<1> HIDE DEF u
<1>6. \A i \in DOMAIN cs : cs[i].inserted => i \in InAt(cs, cs[i].address)
  BY DEF InAt
<1>7. Shadowed(cs, u)
  <2>1. ASSUME NEW i \in DOMAIN cs, cs[i].inserted
        PROVE  u[cs[i].address] = Trap /\ cs[i].shadow # Trap
    <3> DEFINE a == cs[i].address
    <3>1. ToInsert(i) /\ a = chain[i].address /\ i \in DOMAIN chain
      BY <2>1, <1>4
    <3>2. a \in Addr /\ a # at
      BY <3>1, <1>0, <1>3
    <3>3. cs[i].shadow = t[a]
      BY <3>1, <1>4
    <3>4. InAt(cs, a) # {}
      BY <2>1, <1>6
    <3> HIDE DEF a
    <3>5. u[a] = Trap
      BY <3>2, <3>4, <1>5
    <3> QED
      BY <3>2, <3>3, <3>5 DEF a
  <2>2. ASSUME NEW i \in DOMAIN cs, cs[i].enable # "disabled", ~cs[i].duplicate
        PROVE  cs[i].inserted
    BY <2>2, <1>4 DEF ToInsert, NoneIn
  <2> QED
    BY <2>1, <2>2, <1>2, <1>4 DEF Shadowed
<1>8. Covered(cs, u, at)
  BY <1>5 DEF Covered
<1>9. InAt(cs, at) = {}
  BY <1>3, <1>4 DEF InAt
<1>10. \A i \in DOMAIN cs : cs[i].inserted =>
         cs[i].enable # "disabled" /\ cs[i].shadow = t[cs[i].address]
  BY <1>4 DEF ToInsert
<1> QED
  BY <1>5, <1>7, <1>8, <1>9, <1>10 DEF cs, u, AllIn

\* A whole pass of remove_breakpoints puts every shadow back, and nothing else.
LEMMA RemovedAll ==
  ASSUME NEW t \in Text, chain \in Chain, NEW stored,
         \A i, j \in DOMAIN chain :
           chain[i].inserted /\ chain[j].inserted
             /\ chain[i].address = chain[j].address => i = j
  PROVE  LET u == WithoutTraps(t, Len(chain) + 1, stored)
         IN  /\ \A i \in DOMAIN chain : chain[i].inserted =>
                  u[chain[i].address] = chain[i].shadow
             /\ \A a \in Addr : InAt(chain, a) = {} => u[a] = t[a]
             /\ NoneIn(chain) => u = t
<1> DEFINE k == Len(chain) + 1
           u == WithoutTraps(t, k, stored)
           S(a) == {i \in DOMAIN chain : /\ Inserted(i) /\ Done(i, k, stored)
                                        /\ chain[i].address = a}
<1>0. /\ Len(chain) \in Nat /\ DOMAIN chain = 1 .. Len(chain)
      /\ \A i \in DOMAIN chain : chain[i].address \in Addr
  BY ChainAt
<1>1. \A a : S(a) = InAt(chain, a)
  BY <1>0 DEF InAt, Inserted, Done
<1>2. \A a \in Addr : u[a] = IF S(a) = {} THEN t[a] ELSE chain[Max(S(a))].shadow
  BY DEF WithoutTraps
<1>3. DOMAIN u = Addr /\ u = [a \in Addr |-> u[a]]
  BY DEF WithoutTraps
<1> HIDE DEF u, S, k
<1>4. ASSUME NEW i \in DOMAIN chain, chain[i].inserted
      PROVE  u[chain[i].address] = chain[i].shadow
  <2> DEFINE a == chain[i].address
  <2>1. i \in S(a) /\ S(a) \subseteq 1 .. Len(chain)
    BY <1>0, <1>1, <1>4 DEF InAt
  <2>2. Max(S(a)) \in S(a)
    BY <2>1, <1>0, MaxIn
  <2>3. Max(S(a)) = i
    BY <2>2, <1>1, <1>4 DEF InAt
  <2> QED
    BY <2>1, <2>3, <1>0, <1>2
<1>5. \A a \in Addr : InAt(chain, a) = {} => u[a] = t[a]
  BY <1>1, <1>2
<1>6. NoneIn(chain) => u = t
  <2>1. NoneIn(chain) => \A a \in Addr : u[a] = t[a]
    BY <1>5 DEF NoneIn, InAt
  <2> QED
    BY <2>1, <1>3 DEF Text
<1> QED
  BY <1>4, <1>5, <1>6 DEF u, k

-----------------------------------------------------------------------------
(***************************************************************************)
(* What lies beneath the breakpoints.                                      *)
(***************************************************************************)
BeneathOf(bs, t, at, dup, sh, a) ==
  IF InAt(bs, a) # {} THEN bs[Max(InAt(bs, a))].shadow
  ELSE IF at # NoAddr /\ ~dup /\ t[at] = Trap /\ at = a THEN sh
  ELSE t[a]

LEMMA BeneathIs ==
  ASSUME NEW a
  PROVE  /\ Beneath(a) =
              BeneathOf(chain, text, resume_at, resume_dup, resume_shadow, a)
         /\ Beneath(a)' =
              BeneathOf(chain', text', resume_at', resume_dup',
                        resume_shadow', a)
BY DEF Beneath, BeneathOf, InAt, Inserted, SpecialIn

LEMMA BeneathOut ==
  ASSUME NEW bs, NEW t, NEW at \in Addr \cup {NoAddr}, NEW dup, NEW sh,
         NoneIn(bs), Clean(t), NEW a
  PROVE  BeneathOf(bs, t, at, dup, sh, a) = t[a]
BY DEF BeneathOf, NoneIn, Clean, InAt

LEMMA BeneathIn ==
  ASSUME NEW bs \in Chain, NEW t, Shadowed(bs, t), NEW at, NEW dup, NEW sh,
         NEW a
  PROVE  /\ \A i \in InAt(bs, a) :
              BeneathOf(bs, t, at, dup, sh, a) = bs[i].shadow
         /\ InAt(bs, a) = {} =>
              BeneathOf(bs, t, at, dup, sh, a) =
                IF at # NoAddr /\ ~dup /\ t[at] = Trap /\ at = a
                  THEN sh ELSE t[a]
<1>1. ASSUME NEW i \in InAt(bs, a)
      PROVE  BeneathOf(bs, t, at, dup, sh, a) = bs[i].shadow
  <2>0. Len(bs) \in Nat /\ DOMAIN bs = 1 .. Len(bs)
    BY ChainAt
  <2>1. InAt(bs, a) \subseteq 1 .. Len(bs)
    BY <2>0 DEF InAt
  <2>2. Max(InAt(bs, a)) \in InAt(bs, a)
    BY <2>0, <2>1, <1>1, MaxIn
  <2>3. Max(InAt(bs, a)) = i
    BY <2>2, <1>1 DEF InAt, Shadowed
  <2> QED
    BY <2>3, <1>1 DEF BeneathOf
<1> QED
  BY <1>1 DEF BeneathOf

-----------------------------------------------------------------------------
(***************************************************************************)
(* Steps.                                                                  *)
(***************************************************************************)
\* The types of everything but the program, the table, phase and unwound.
Rest ==
  /\ pc \in Addr /\ sig \in {"SIGTRAP", "SIGINT"}
  /\ range \in BOOLEAN /\ trap_expected \in BOOLEAN
  /\ breakpoints_inserted \in BOOLEAN /\ resume_dup \in BOOLEAN
  /\ remove_following \in BOOLEAN
  /\ resume_at \in Addr \cup {NoAddr} /\ resume_shadow \in Contents
  /\ stop_bp \in 0 .. MaxBreakpoints

LEMMA Typed ==
  /\ TypeOK <=> /\ text \in Text /\ chain \in Chain /\ Len(chain) =< MaxBreakpoints
                /\ phase \in Phases /\ unwound \in BOOLEAN /\ Rest
                /\ phase = "stop" => stop_bp =< Len(chain)
  /\ TypeOK' <=> /\ text' \in Text /\ chain' \in Chain
                 /\ Len(chain') =< MaxBreakpoints
                 /\ phase' \in Phases /\ unwound' \in BOOLEAN /\ Rest'
                 /\ phase' = "stop" => stop_bp' =< Len(chain')
BY DEF TypeOK, Text, Chain, Rest

\* What a step may do to what lies beneath the breakpoints.
Damage ==
  \/ phase = "prompt" /\ \A a \in Addr : text'[a] = a
  \/ \A a \in Addr :
       \/ Beneath(a)' = Beneath(a)
       \/ phase \in {"stop", "prompt"} /\ Phantom /\ a = resume_at

Good == IInv' /\ (~unwound' => Damage)

\* rerr: nothing is promised but the types and the marks.
LEMMA Unwinds ==
  ASSUME IInv, NEW t \in Text, NEW bs \in Chain, Len(bs) =< MaxBreakpoints,
         Marked(bs), rerr(t, bs), Rest'
  PROVE  Good
<1>1. /\ Cleared(t, bs)[1] \in Text /\ Cleared(t, bs)[2] \in Chain
      /\ Len(Cleared(t, bs)[2]) <= Len(bs) /\ Marked(Cleared(t, bs)[2])
  BY ClearedIs
<1>2. /\ text' \in Text /\ chain' \in Chain /\ Marked(chain')
      /\ phase' = "prompt" /\ unwound' = TRUE
      /\ Len(chain') <= Len(bs)
  BY <1>1 DEF rerr
<1>3. Len(chain') =< MaxBreakpoints
  <2>1. Len(chain') \in Nat /\ Len(bs) \in Nat
    BY <1>2, ChainAt
  <2> QED
    BY <1>2, <2>1, BreakpointsAssumption
<1>4. TypeOK'
  BY <1>2, <1>3, Typed DEF Phases
<1> QED
  BY <1>2, <1>4 DEF Good, IInv

\* At the prompt and before insert_breakpoints nothing is in the program.
LEMMA Quiet ==
  ASSUME IInv, ~unwound, ~breakpoints_inserted
  PROVE  /\ NoneIn(chain) /\ Clean(text)
         /\ \A a : Beneath(a) = text[a]
<1>1. NoneIn(chain) /\ Clean(text)
  BY DEF IInv, Orderly, Out
<1>2. resume_at \in Addr \cup {NoAddr}
  BY Typed DEF IInv, Rest
<1>3. \A a : Beneath(a) = text[a]
  BY <1>1, <1>2, BeneathIs, BeneathOut
<1> QED
  BY <1>1, <1>3

\* A step that leaves nothing in the program.
LEMMA QuietAfter ==
  ASSUME TypeOK', Marked(chain'), Apart', Phased',
         NoneIn(chain'), Clean(text'), breakpoints_inserted' = FALSE
  PROVE  IInv' /\ \A a : Beneath(a)' = text'[a]
<1>1. resume_at' \in Addr \cup {NoAddr}
  BY Typed DEF Rest
<1>2. \A a : Beneath(a)' = text'[a]
  BY <1>1, BeneathIs, BeneathOut
<1> QED
  BY <1>2 DEF IInv, Orderly, Out, In

\* A command at the prompt that changes the program and the table.
LEMMA Prompted ==
  ASSUME IInv, phase = "prompt", phase' = "prompt",
         text' \in Text, chain' \in Chain, Len(chain') =< MaxBreakpoints,
         Marked(chain'), pc' \in Addr, UNCHANGED <<special, status, unwound>>,
         NoneIn(chain) => NoneIn(chain'),
         NoneIn(chain) /\ Clean(text) /\ resume_shadow # Trap => Clean(text')
  PROVE  /\ IInv'
         /\ ~unwound' => /\ \A a : Beneath(a) = text[a]
                         /\ \A a : Beneath(a)' = text'[a]
                         /\ NoneIn(chain) /\ Clean(text)
<1>1. TypeOK' /\ unwound' = unwound
  BY Typed DEF IInv, Rest, special, status
<1>2. CASE unwound
  BY <1>1, <1>2 DEF IInv
<1>3. CASE ~unwound
  <2>1. ~breakpoints_inserted /\ breakpoints_inserted \in BOOLEAN
    BY <1>3, Typed DEF IInv, Orderly, Phased, Rest
  <2>2. NoneIn(chain) /\ Clean(text) /\ \A a : Beneath(a) = text[a]
    BY <1>3, <2>1, Quiet
  <2>3. Apart' /\ resume_shadow # Trap
    BY <1>3 DEF IInv, Orderly, Apart, special
  <2>4. NoneIn(chain') /\ Clean(text') /\ breakpoints_inserted' = FALSE
    BY <2>1, <2>2, <2>3 DEF status
  <2>5. Phased'
    <3>1. remove_following' => range'
      BY <1>3 DEF IInv, Orderly, Phased, status
    <3> QED
      BY <2>4, <3>1 DEF Phased
  <2> QED
    BY <1>1, <2>2, <2>3, <2>4, <2>5, QuietAfter
<1> QED
  BY <1>2, <1>3

-----------------------------------------------------------------------------
(***************************************************************************)
(* Commands at the prompt.                                                 *)
(***************************************************************************)
LEMMA BreakCommand ==
  ASSUME IInv, NEW a \in Addr, NEW e \in Enables, break_command(a, e)
  PROVE  Good
<1>1. /\ chain \in Chain /\ Marked(chain) /\ text \in Text /\ pc \in Addr
      /\ Len(chain) \in Nat
  BY Typed, ChainAt DEF IInv, Rest
<1>2. /\ chain' \in Chain /\ Len(chain') = Len(chain) + 1 /\ Marked(chain')
      /\ NoneIn(chain) => NoneIn(chain')
  BY <1>1, Appended DEF break_command
<1>3. Len(chain') =< MaxBreakpoints
  BY <1>1, <1>2, BreakpointsAssumption DEF break_command
<1>4. /\ phase = "prompt" /\ phase' = "prompt" /\ text' = text /\ pc' = pc
      /\ UNCHANGED <<special, status, unwound>>
  BY DEF break_command
<1> QED
  BY <1>1, <1>2, <1>3, <1>4, Prompted DEF Good, Damage

LEMMA DeleteCommand ==
  ASSUME IInv, NEW i \in DOMAIN chain, delete_command(i)
  PROVE  Good
<1>1. /\ chain \in Chain /\ Marked(chain) /\ text \in Text /\ pc \in Addr
      /\ Len(chain) \in Nat /\ chain[i] \in Breakpoint
      /\ Len(chain) =< MaxBreakpoints
  BY Typed, ChainAt DEF IInv, Rest
<1>2. /\ chain' \in Chain /\ Len(chain') = Len(chain) - 1 /\ Marked(chain')
      /\ NoneIn(chain) => NoneIn(chain')
  BY <1>1, DeletedIs DEF delete_command
<1>3. Len(chain') =< MaxBreakpoints
  BY <1>1, <1>2, BreakpointsAssumption
<1>4. text' \in Text /\ (NoneIn(chain) => text' = text)
  BY <1>1, RestoredIs DEF delete_command, NoneIn
<1>5. /\ phase = "prompt" /\ phase' = "prompt" /\ pc' = pc
      /\ UNCHANGED <<special, status, unwound>>
  BY DEF delete_command
<1> QED
  BY <1>1, <1>2, <1>3, <1>4, <1>5, Prompted DEF Good, Damage

LEMMA EnableCommand ==
  ASSUME IInv, NEW i \in DOMAIN chain, NEW e \in Enables, enable_command(i, e)
  PROVE  Good
<1> DEFINE cs == SetEnable(chain, i, e)
<1>1. /\ chain \in Chain /\ Marked(chain) /\ text \in Text /\ pc \in Addr
      /\ Len(chain) =< MaxBreakpoints
  BY Typed DEF IInv, Rest
<1>2. /\ cs \in Chain /\ Len(cs) = Len(chain) /\ DOMAIN cs = DOMAIN chain
      /\ \A k \in DOMAIN chain : cs[k].inserted = chain[k].inserted
      /\ \A b \in Addr : b # chain[i].address /\ MarkedAt(chain, b) =>
                          MarkedAt(cs, b)
  BY <1>1, EnabledIs
<1>3. /\ phase = "prompt" /\ phase' = "prompt" /\ pc' = pc /\ text' = text
      /\ chain' = check_duplicates(cs, chain[i].address)
      /\ UNCHANGED <<special, status, unwound>>
  BY DEF enable_command, SetEnable
<1> HIDE DEF cs
<1>4. chain' \in Chain /\ Len(chain') = Len(cs)
      /\ (NoneIn(cs) => NoneIn(chain'))
  BY <1>2, <1>3, Checked
<1>5. Marked(chain')
  BY <1>1, <1>2, <1>3, CheckedAll DEF Marked
<1>6. NoneIn(chain) => NoneIn(cs)
  BY <1>2 DEF NoneIn
<1> QED
  BY <1>1, <1>2, <1>3, <1>4, <1>5, <1>6, Prompted DEF Good, Damage

LEMMA LoadCommand ==
  ASSUME IInv, load_command
  PROVE  Good
<1>1. /\ chain \in Chain /\ Marked(chain) /\ pc \in Addr
      /\ Len(chain) =< MaxBreakpoints /\ Len(chain) \in Nat
      /\ DOMAIN chain = 1 .. Len(chain)
      /\ \A i \in DOMAIN chain : chain[i] \in Breakpoint
  BY Typed, ChainAt DEF IInv, Rest
<1>2. /\ text' \in Text /\ Clean(text') /\ \A a \in Addr : text'[a] = a
  BY BreakpointsAssumption DEF load_command, Text, Contents, Clean
<1>3. /\ phase = "prompt" /\ phase' = "prompt" /\ pc' = pc
      /\ UNCHANGED <<special, status, unwound>>
      /\ chain' = [i \in DOMAIN chain |-> [chain[i] EXCEPT !.inserted = FALSE]]
  BY DEF load_command
<1>4. chain' \in [1 .. Len(chain) -> Breakpoint] /\ DOMAIN chain' = DOMAIN chain
      /\ \A i \in DOMAIN chain :
           /\ chain'[i].address = chain[i].address /\ ~chain'[i].inserted
           /\ chain'[i].enable = chain[i].enable
           /\ chain'[i].duplicate = chain[i].duplicate
  BY <1>1, <1>3 DEF Breakpoint
<1>5. chain' \in Chain /\ Len(chain') = Len(chain)
  BY <1>1, <1>4, ChainOf
<1>6. Marked(chain')
  BY <1>1, <1>4, SameMarked DEF SameMarks
<1>7. NoneIn(chain')
  BY <1>4 DEF NoneIn
<1> QED
  BY <1>1, <1>2, <1>3, <1>5, <1>6, <1>7, Prompted DEF Good, Damage

\* The special breakpoint is taken out.
LEMMA SpecialOut ==
  ASSUME TypeOK, NEW t \in Text
  PROVE  /\ remove_step_breakpoint(t) \in Text
         /\ \A a \in Addr :
              remove_step_breakpoint(t)[a] =
                IF Active /\ a = resume_at THEN resume_shadow ELSE t[a]
<1>1. resume_at \in Addr \cup {NoAddr} /\ resume_shadow \in Contents
  BY Typed DEF Rest
<1> QED
  BY <1>1 DEF remove_step_breakpoint, Active, Text

LEMMA InitCommand ==
  ASSUME IInv, NEW k \in 1 .. Len(chain) + 1, NEW stored \in BOOLEAN,
         NEW at \in Addr, init_command(k, stored, at)
  PROVE  Good
<1> DEFINE t == WithoutTraps(text, k, stored)
           cs == AsRemoved(k)
<1>1. /\ chain \in Chain /\ Marked(chain) /\ text \in Text /\ TypeOK
      /\ Len(chain) =< MaxBreakpoints /\ Len(chain) \in Nat
      /\ phase = "prompt" /\ pc' = at /\ UNCHANGED <<special, status>>
  BY Typed, ChainAt DEF IInv, Rest, init_command
<1>2. /\ t \in Text /\ cs \in Chain /\ Len(cs) = Len(chain) /\ Marked(cs)
      /\ k = Len(chain) + 1 => NoneIn(cs)
  BY <1>1, RemovedIs, SameMarked
<1>3. CASE ~Whole(k)
  <2>1. rerr(t, cs)
    BY <1>3 DEF init_command
  <2>2. Rest'
    BY <1>1, Typed DEF Rest, special, status
  <2> QED
    BY <1>1, <1>2, <2>1, <2>2, Unwinds
<1>4. CASE Whole(k)
  <2>1. k = Len(chain) + 1
    BY <1>4 DEF Whole
  <2>2. /\ text' = remove_step_breakpoint(t) /\ chain' = cs
        /\ UNCHANGED <<phase, unwound>>
    BY <1>4 DEF init_command
  <2>3. NoneIn(chain) => t = text
    BY <1>1, <2>1, RemovedAll DEF NoneIn
  <2> HIDE DEF t, cs
  <2>4. text' \in Text /\ \A a \in Addr :
          text'[a] = IF Active /\ a = resume_at THEN resume_shadow ELSE t[a]
    BY <1>1, <1>2, <2>2, SpecialOut
  <2>5. NoneIn(chain) /\ Clean(text) /\ resume_shadow # Trap => Clean(text')
    BY <2>3, <2>4 DEF Clean
  <2>6. /\ IInv'
        /\ ~unwound' => /\ \A a : Beneath(a) = text[a]
                        /\ \A a : Beneath(a)' = text'[a]
                        /\ NoneIn(chain) /\ Clean(text)
    BY <1>1, <1>2, <2>1, <2>2, <2>4, <2>5, Prompted
  <2>7. ASSUME ~unwound', NEW a \in Addr
        PROVE  Beneath(a)' = Beneath(a) \/ (Phantom /\ a = resume_at)
    <3>1. CASE Active /\ a = resume_at
      BY <3>1, <2>6, <2>7 DEF Phantom, Active, Clean
    <3>2. CASE ~(Active /\ a = resume_at)
      BY <3>2, <2>3, <2>4, <2>6, <2>7
    <3> QED
      BY <3>1, <3>2
  <2> QED
    BY <1>1, <2>6, <2>7 DEF Good, Damage
<1> QED
  BY <1>3, <1>4

-----------------------------------------------------------------------------
(***************************************************************************)
(* proceed and insert_breakpoints.                                         *)
(***************************************************************************)
LEMMA Proceed ==
  ASSUME IInv, NEW step \in BOOLEAN, NEW extra \in Addr \cup {NoAddr},
         NEW to \in Addr \cup {NoAddr}, proceed(step, extra, to)
  PROVE  Good
<1> DEFINE clear == Cleared(text, chain)
           bs == IF extra = NoAddr THEN clear[2]
                 ELSE check_duplicates(Append(clear[2], Raw(extra, "momentary")),
                                       extra)
<1>1. /\ chain \in Chain /\ Marked(chain) /\ text \in Text /\ TypeOK /\ Rest
      /\ Len(chain) =< MaxBreakpoints /\ Len(chain) \in Nat
  BY Typed, ChainAt DEF IInv
<1>2. /\ clear[1] \in Text /\ clear[2] \in Chain
      /\ Len(clear[2]) <= Len(chain) /\ Marked(clear[2])
      /\ NoneIn(chain) => clear[1] = text /\ NoneIn(clear[2])
  BY <1>1, ClearedIs
<1>3. /\ text' = clear[1] /\ chain' = bs
      /\ extra # NoAddr => Len(chain) < MaxBreakpoints
      /\ pc' = (IF to = NoAddr THEN pc ELSE to) /\ range' = step
      /\ trap_expected' \in BOOLEAN /\ phase' \in {"stepping", "insert"}
      /\ resume_at' = NoAddr /\ remove_following' = FALSE
      /\ phase = "prompt"
      /\ UNCHANGED <<sig, breakpoints_inserted, resume_dup, resume_shadow,
                     stop_bp, unwound>>
  BY DEF proceed
<1> HIDE DEF clear
<1>4. /\ bs \in Chain /\ Len(bs) =< MaxBreakpoints /\ Marked(bs)
      /\ NoneIn(clear[2]) => NoneIn(bs)
  <2>0. Len(clear[2]) \in Nat
    BY <1>2, ChainAt
  <2>1. CASE extra = NoAddr
    BY <2>0, <2>1, <1>1, <1>2, BreakpointsAssumption
  <2>2. CASE extra # NoAddr
    <3> DEFINE cs == check_duplicates(
                       Append(clear[2], Raw(extra, "momentary")), extra)
    <3>1. extra \in Addr /\ "momentary" \in Enables
      BY <2>2 DEF Enables
    <3>2. /\ cs \in Chain /\ Len(cs) = Len(clear[2]) + 1 /\ Marked(cs)
          /\ NoneIn(clear[2]) => NoneIn(cs)
      BY <3>1, <1>2, Appended
    <3>3. Len(cs) =< MaxBreakpoints
      BY <2>0, <2>2, <3>2, <1>1, <1>2, <1>3, BreakpointsAssumption
    <3> QED
      BY <2>2, <3>2, <3>3
  <2> QED
    BY <2>1, <2>2
<1> HIDE DEF bs
<1>5. TypeOK'
  BY <1>1, <1>2, <1>3, <1>4, Typed DEF Rest, Phases
<1>6. CASE unwound
  BY <1>3, <1>4, <1>5, <1>6 DEF Good, IInv
<1>7. CASE ~unwound
  <2>1. ~breakpoints_inserted
    BY <1>3, <1>7 DEF IInv, Orderly, Phased
  <2>2. NoneIn(chain) /\ Clean(text) /\ \A a : Beneath(a) = text[a]
    BY <1>7, <2>1, Quiet
  <2>3. text' = text /\ NoneIn(chain') /\ Clean(text')
    BY <2>2, <1>2, <1>3, <1>4
  <2>4. Apart'
    BY <1>3, <1>7 DEF IInv, Orderly, Apart, Active
  <2>5. Phased'
    BY <1>3, <2>1, <2>3 DEF Phased, NoneIn
  <2>6. breakpoints_inserted' = FALSE
    BY <1>1, <1>3, <2>1 DEF Rest
  <2> QED
    BY <1>3, <1>4, <1>5, <2>2, <2>3, <2>4, <2>5, <2>6, QuietAfter
    DEF Good, Damage
<1> QED
  BY <1>6, <1>7

\* Where the special breakpoint is to be, as an address.
At == IF Active THEN resume_at ELSE NoAddr

LEMMA AtApart ==
  ASSUME IInv, ~unwound, phase # "prompt"
  PROVE  EnabledAt(chain, At) = {} /\ At \in Addr \cup {NoAddr}
<1>1. TypeOK /\ Rest /\ chain \in Chain /\ Apart
  BY Typed DEF IInv, Orderly
<1>2. \A i \in DOMAIN chain : chain[i].address \in Addr
  BY <1>1, ChainAt
<1>3. CASE Active
  BY <1>1, <1>3 DEF Apart, At, Rest
<1>4. CASE ~Active
  BY <1>2, <1>4, BreakpointsAssumption DEF At, EnabledAt
<1> QED
  BY <1>3, <1>4

\* insert_breakpoints gets to the end, with the special breakpoint in before.
LEMMA Inserts ==
  ASSUME IInv, ~unwound, phase \notin {"prompt", "stop"},
         ~breakpoints_inserted, TypeOK', Phased', NEW stored, NEW t,
         t = WithSpecial(text, resume_at, resume_dup),
         text' = WithTraps(t, Len(chain) + 1, stored),
         chain' = AsInserted(t, Len(chain) + 1),
         resume_shadow' = SpecialShadow(text, resume_at, resume_dup),
         UNCHANGED <<resume_at, resume_dup, unwound>>,
         breakpoints_inserted' = TRUE
  PROVE  Good
<1> DEFINE n == Len(chain) + 1
<1>1. /\ chain \in Chain /\ Marked(chain) /\ text \in Text /\ Rest
      /\ n \in Nat /\ Apart /\ chain' \in Chain
  BY Typed, ChainAt DEF IInv, Orderly
<1>2. NoneIn(chain) /\ Clean(text) /\ \A a : Beneath(a) = text[a]
  BY Quiet
<1>3. /\ t \in Text /\ \A a \in Addr : t[a] = IF a = At THEN Trap ELSE text[a]
      /\ resume_shadow' = IF Active THEN text[resume_at] ELSE resume_shadow
  BY <1>1, BreakpointsAssumption
  DEF WithSpecial, SpecialShadow, Active, At, Text, Contents, Rest
<1>4. EnabledAt(chain, At) = {} /\ At \in Addr \cup {NoAddr}
  BY AtApart
<1>5. \A a \in Addr : t[a] = Trap => a = At
  BY <1>2, <1>3 DEF Clean
<1>6. /\ Shadowed(chain', text') /\ Covered(chain', text', At)
      /\ InAt(chain', At) = {}
      /\ \A i \in DOMAIN chain' : chain'[i].inserted =>
           /\ chain'[i].enable # "disabled"
           /\ chain'[i].shadow = t[chain'[i].address]
      /\ \A a \in Addr : t[a] = Trap => text'[a] = Trap
      /\ \A a \in Addr : InAt(chain', a) = {} => text'[a] = t[a]
  <2>1. AllIn(chain', text', t, At)
    BY <1>1, <1>2, <1>3, <1>4, <1>5, InsertedAll
  <2> QED
    BY <2>1 DEF AllIn
<1>7. Marked(chain') /\ EnabledAt(chain', resume_at) = EnabledAt(chain, resume_at)
  BY <1>1, <1>3, InsertedIs, SameMarked
<1>8. (Active' <=> Active) /\ At' = At /\ unwound' = unwound
      /\ resume_at' = resume_at
  BY DEF Active, At
<1>9. In'
  BY <1>3, <1>6, <1>8, <1>4 DEF In, At, Active
<1>10. Apart'
  <2>1. Active => resume_at \in Addr
    BY <1>1 DEF Rest, Active
  <2> QED
    BY <2>1, <1>1, <1>2, <1>3, <1>7, <1>8 DEF Apart, Clean
<1>11. IInv'
  BY <1>7, <1>9, <1>10 DEF IInv, Orderly, Out
<1>12. ASSUME NEW a \in Addr PROVE Beneath(a)' = Beneath(a)
  <2> DEFINE B == BeneathOf(chain', text', resume_at', resume_dup',
                            resume_shadow', a)
  <2>1. /\ \A i \in InAt(chain', a) : B = chain'[i].shadow
        /\ InAt(chain', a) = {} =>
             B = IF resume_at' # NoAddr /\ ~resume_dup' /\ text'[resume_at'] = Trap
                    /\ resume_at' = a
                   THEN resume_shadow' ELSE text'[a]
    BY <1>1, <1>6, BeneathIn
  <2> HIDE DEF B
  <2>2. ASSUME NEW i \in InAt(chain', a) PROVE B = text[a]
    <3>1. B = t[a] /\ a # At
      BY <2>1, <2>2, <1>6 DEF InAt
    <3> QED
      BY <3>1, <1>3
  <2>3. CASE InAt(chain', a) = {} /\ a = At
    <3>1. Active /\ resume_at = a
      BY <2>3, BreakpointsAssumption DEF At
    <3>2. text'[a] = Trap
      BY <2>3, <1>3, <1>6
    <3> QED
      BY <2>1, <2>3, <3>1, <3>2, <1>2, <1>3, <1>8, BeneathIs DEF Active, B
  <2>4. CASE InAt(chain', a) = {} /\ a # At
    <3>1. text'[a] = text[a]
      BY <2>4, <1>3, <1>6
    <3>2. ~(resume_at' # NoAddr /\ ~resume_dup' /\ resume_at' = a)
      BY <2>4 DEF At, Active
    <3> QED
      BY <2>1, <2>4, <3>1, <3>2, <1>2, BeneathIs DEF B
  <2> QED
    BY <2>2, <2>3, <2>4, <1>2, BeneathIs DEF B
<1> QED
  BY <1>11, <1>12 DEF Good, Damage

LEMMA InsertBreakpoints ==
  ASSUME IInv, NEW k \in 1 .. Len(chain) + 1, NEW stored \in BOOLEAN,
         insert_breakpoints(k, stored)
  PROVE  Good
<1>1. /\ chain \in Chain /\ Marked(chain) /\ text \in Text /\ TypeOK /\ Rest
      /\ Len(chain) =< MaxBreakpoints /\ Len(chain) \in Nat
      /\ k \in Nat /\ phase = "insert"
      /\ UNCHANGED <<pc, special, sig, range, trap_expected, remove_following,
                     stop_bp>>
  BY Typed, ChainAt DEF IInv, insert_breakpoints
<1>2. /\ WithTraps(text, k, stored) \in Text
      /\ AsInserted(text, k) \in Chain
      /\ Len(AsInserted(text, k)) = Len(chain) /\ Marked(AsInserted(text, k))
  BY <1>1, InsertedIs, SameMarked
<1>3. CASE ~Whole(k)
  <2>1. rerr(WithTraps(text, k, stored), AsInserted(text, k))
        /\ breakpoints_inserted' = breakpoints_inserted
    BY <1>3 DEF insert_breakpoints
  <2>2. Rest'
    BY <1>1, <2>1 DEF Rest, special
  <2> QED
    BY <1>1, <1>2, <2>1, <2>2, Unwinds
<1>4. CASE Whole(k)
  <2>1. /\ text' = WithTraps(text, k, stored) /\ chain' = AsInserted(text, k)
        /\ breakpoints_inserted' = TRUE /\ unwound' = unwound
        /\ phase' = IF range THEN "stepping" ELSE "running"
        /\ k = Len(chain) + 1
    BY <1>4 DEF insert_breakpoints, Whole
  <2>2. TypeOK'
    BY <1>1, <1>2, <2>1, Typed DEF Rest, special, Phases
  <2>3. CASE unwound
    BY <1>2, <2>1, <2>2, <2>3 DEF Good, IInv
  <2>4. CASE ~unwound
    <3>1. ~breakpoints_inserted /\ resume_at = NoAddr /\ Phased
      BY <1>1, <2>4 DEF IInv, Orderly, Phased
    <3>2. /\ text = WithSpecial(text, resume_at, resume_dup)
          /\ resume_shadow' = SpecialShadow(text, resume_at, resume_dup)
      BY <1>1, <3>1 DEF WithSpecial, SpecialShadow, special
    <3>3. Phased'
      BY <1>1, <2>1, <3>1 DEF Phased, special
    <3> QED
      BY <1>1, <2>1, <2>2, <2>4, <3>1, <3>2, <3>3, Inserts DEF special
  <2> QED
    BY <2>3, <2>4
<1> QED
  BY <1>3, <1>4

-----------------------------------------------------------------------------
(***************************************************************************)
(* Steps that leave the program and the table alone.                       *)
(***************************************************************************)
LEMMA Moves ==
  ASSUME IInv, phase # "prompt", TypeOK', ~unwound => Phased',
         phase # "stop" \/ phase' = "stop",
         UNCHANGED <<table, special, breakpoints_inserted, unwound>>
  PROVE  Good
<1>1. /\ UNCHANGED <<text, chain, resume_at, resume_dup, resume_shadow>>
      /\ breakpoints_inserted' = breakpoints_inserted /\ unwound' = unwound
  BY DEF table, special
<1>2. \A a : Beneath(a)' = Beneath(a)
  BY <1>1, BeneathIs
<1>3. ~unwound => Apart'
  BY <1>1 DEF IInv, Orderly, Apart, Active
<1>4. ~unwound => Out' /\ In'
  BY <1>1 DEF IInv, Orderly, Out, In, Active
<1> QED
  BY <1>1, <1>2, <1>3, <1>4 DEF Good, Damage, IInv, Orderly

LEMMA TargetStep ==
  ASSUME IInv, Target
  PROVE  Good
<1>1. /\ TypeOK /\ Rest /\ text \in Text /\ chain \in Chain /\ Marked(chain)
      /\ Len(chain) =< MaxBreakpoints
  BY Typed DEF IInv
<1>2. CASE Halt
  <2>1. /\ phase = "running" /\ phase' = "stopped"
        /\ sig' \in {"SIGTRAP", "SIGINT"}
        /\ UNCHANGED <<table, pc, special, range, trap_expected,
                       breakpoints_inserted, remove_following, stop_bp, unwound>>
    BY <1>2 DEF Halt
  <2>2. TypeOK'
    BY <1>1, <2>1, Typed DEF Rest, table, special, Phases
  <2>3. ~unwound => Phased'
    BY <2>1 DEF IInv, Orderly, Phased, special
  <2> QED
    BY <2>1, <2>2, <2>3, Moves
<1>3. CASE Fault
  <2>1. rerr(text, chain) /\ Rest'
    BY <1>1, <1>3 DEF Fault, Rest, special, status
  <2> QED
    BY <1>1, <2>1, Unwinds
<1>4. ASSUME NEW a \in Addr, Execute(a) PROVE Good
  <2>1. /\ phase \in {"running", "stepping"} /\ pc' = a
        /\ \/ phase = "stepping" /\ phase' = "stopped"
              /\ sig' \in {"SIGTRAP", "SIGINT"}
           \/ phase' = phase /\ sig' = sig
        /\ UNCHANGED <<table, special, range, trap_expected,
                       breakpoints_inserted, remove_following, stop_bp, unwound>>
    BY <1>4 DEF Execute
  <2>2. TypeOK'
    BY <1>1, <2>1, Typed DEF Rest, table, special, Phases
  <2>3. ~unwound => Phased'
    BY <2>1 DEF IInv, Orderly, Phased, special
  <2> QED
    BY <2>1, <2>2, <2>3, Moves
<1> QED
  BY <1>2, <1>3, <1>4 DEF Target

LEMMA MovingStep ==
  ASSUME IInv, Stepped \/ RandomSignal \/ KeepGoing \/ EndStep \/ Leave
  PROVE  Good
<1>1. /\ TypeOK /\ Rest /\ text \in Text /\ chain \in Chain
      /\ Len(chain) =< MaxBreakpoints /\ Len(chain) \in Nat
  BY Typed, ChainAt DEF IInv
<1>2. CASE Stepped
  <2>1. /\ phase = "stopped" /\ phase' = "range" /\ trap_expected' = FALSE
        /\ UNCHANGED <<table, pc, special, sig, range, breakpoints_inserted,
                       remove_following, stop_bp, unwound>>
    BY <1>2 DEF Stepped
  <2>2. TypeOK'
    BY <1>1, <2>1, Typed DEF Rest, table, special, Phases
  <2>3. ~unwound => Phased'
    BY <2>1 DEF IInv, Orderly, Phased, special
  <2> QED
    BY <2>1, <2>2, <2>3, Moves
<1>3. CASE RandomSignal \/ EndStep
  <2>1. /\ phase \in {"stopped", "range"} /\ phase' = "stop" /\ stop_bp' = 0
        /\ UNCHANGED <<table, pc, special, sig, range, trap_expected,
                       breakpoints_inserted, remove_following, unwound>>
    BY <1>3 DEF RandomSignal, EndStep
  <2>2. TypeOK'
    BY <1>1, <2>1, Typed, BreakpointsAssumption DEF Rest, table, special, Phases
  <2>3. ~unwound => Phased'
    BY <2>1 DEF IInv, Orderly, Phased, special
  <2> QED
    BY <2>1, <2>2, <2>3, Moves
<1>4. CASE KeepGoing
  <2>1. /\ phase = "range" /\ phase' = "reinsert"
        /\ UNCHANGED <<table, pc, special, status, unwound>>
    BY <1>4 DEF KeepGoing
  <2>2. TypeOK'
    BY <1>1, <2>1, Typed DEF Rest, table, special, status, Phases
  <2>3. ~unwound => Phased'
    BY <2>1 DEF IInv, Orderly, Phased, special, status
  <2> QED
    BY <2>1, <2>2, <2>3, Moves DEF status
<1>5. CASE Leave
  <2>1. /\ phase = "reinsert" /\ (breakpoints_inserted \/ trap_expected)
        /\ phase' \in {"stepping", "running"}
        /\ phase' = "running" => ~trap_expected
        /\ UNCHANGED <<table, pc, special, status, unwound>>
    BY <1>5 DEF Leave, Resumed
  <2>2. TypeOK'
    BY <1>1, <2>1, Typed DEF Rest, table, special, status, Phases
  <2>3. ~unwound => Phased'
    BY <2>1 DEF IInv, Orderly, Phased, special, status
  <2> QED
    BY <2>1, <2>2, <2>3, Moves DEF status
<1> QED
  BY <1>2, <1>3, <1>4, <1>5

LEMMA SpecialFailing ==
  ASSUME IInv, SpecialFails
  PROVE  Good
<1>1. /\ Rest /\ text \in Text /\ chain \in Chain /\ Marked(chain)
      /\ Len(chain) =< MaxBreakpoints
  BY Typed DEF IInv
<1>2. rerr(text, chain) /\ Rest'
  BY <1>1 DEF SpecialFails, Rest, special, status
<1> QED
  BY <1>1, <1>2, Unwinds

-----------------------------------------------------------------------------
(***************************************************************************)
(* The breakpoints that stop the program.                                  *)
(***************************************************************************)
\* One that is disabled as it stops us: the marks of the others stay, and a
\* duplicate of it is beside a disabled one.
LEMMA DisabledMarked ==
  ASSUME NEW bs \in Chain, NEW i \in DOMAIN bs, Marked(bs)
  PROVE  Marked(SetEnable(bs, i, "disabled"))
<1> DEFINE c == SetEnable(bs, i, "disabled")
<1>1. "disabled" \in Enables
  BY DEF Enables
<1>2. /\ DOMAIN c = DOMAIN bs
      /\ \A k \in DOMAIN bs :
           /\ c[k].address = bs[k].address
           /\ c[k].enable = IF k = i THEN "disabled" ELSE bs[k].enable
           /\ c[k].duplicate = bs[k].duplicate
      /\ \A b \in Addr : b # bs[i].address /\ MarkedAt(bs, b) => MarkedAt(c, b)
  BY <1>1, EnabledIs
<1> HIDE DEF c
<1>3. MarkedAt(c, bs[i].address)
  <2> DEFINE a == bs[i].address
  <2>1. FirstAt(c, a) \subseteq FirstAt(bs, a)
    BY <1>2 DEF FirstAt, EnabledAt
  <2>2. a \in Addr
    BY ChainAt
  <2>3. \A k, l \in FirstAt(c, a) : k = l
    BY <2>1, <2>2 DEF Marked, MarkedAt
  <2>4. c[i].address = a /\ c[i].enable = "disabled" /\ i \in DOMAIN c
    BY <1>2
  <2> QED
    BY <2>3, <2>4 DEF MarkedAt
<1> QED
  BY <1>2, <1>3 DEF Marked, c

LEMMA HittingBreakpoint ==
  ASSUME IInv, NEW i \in DOMAIN chain, HitBreakpoint(i)
  PROVE  Good
<1> DEFINE cs == SetEnable(chain, i, "disabled")
<1>1. /\ TypeOK /\ Rest /\ text \in Text /\ chain \in Chain /\ Marked(chain)
      /\ Len(chain) =< MaxBreakpoints /\ Len(chain) \in Nat
      /\ DOMAIN chain = 1 .. Len(chain)
  BY Typed, ChainAt DEF IInv
<1>2. /\ phase = "stopped" /\ phase' = "stop" /\ stop_bp' = i
      /\ chain' = cs \/ chain' = chain
      /\ UNCHANGED <<text, pc, special, sig, range, trap_expected,
                     breakpoints_inserted, remove_following, unwound>>
  BY DEF HitBreakpoint, Unexpected, SetEnable
<1>3. "disabled" \in Enables
  BY DEF Enables
<1> HIDE DEF cs
<1>4. /\ cs \in Chain /\ Len(cs) = Len(chain) /\ DOMAIN cs = DOMAIN chain
      /\ \A k \in DOMAIN chain :
           /\ cs[k].address = chain[k].address
           /\ cs[k].enable = IF k = i THEN "disabled" ELSE chain[k].enable
           /\ cs[k].duplicate = chain[k].duplicate
           /\ cs[k].inserted = chain[k].inserted
           /\ cs[k].shadow = chain[k].shadow
      /\ Marked(cs)
  BY <1>1, <1>3, EnabledIs, DisabledMarked DEF cs
<1>5. /\ chain' \in Chain /\ Len(chain') = Len(chain) /\ Marked(chain')
      /\ DOMAIN chain' = DOMAIN chain
      /\ \A k \in DOMAIN chain :
           /\ chain'[k].address = chain[k].address
           /\ chain'[k].enable # "disabled" =>
                chain'[k].enable = chain[k].enable
           /\ chain'[k].duplicate = chain[k].duplicate
           /\ chain'[k].inserted = chain[k].inserted
           /\ chain'[k].shadow = chain[k].shadow
  BY <1>1, <1>2, <1>4
<1>6. TypeOK'
  <2>1. stop_bp' \in 0 .. MaxBreakpoints /\ stop_bp' =< Len(chain')
    BY <1>1, <1>2, <1>5, BreakpointsAssumption
  <2> QED
    BY <1>1, <1>2, <1>5, <2>1, Typed DEF Rest, special, Phases
<1>7. CASE unwound
  BY <1>2, <1>5, <1>6, <1>7 DEF Good, IInv
<1>8. CASE ~unwound
  <2>1. Out /\ In /\ Apart /\ Phased
    BY <1>8 DEF IInv, Orderly
  <2>2. \A a : InAt(chain', a) = InAt(chain, a)
    BY <1>5 DEF InAt
  <2>3. Out'
    BY <1>2, <1>5, <2>1 DEF Out, NoneIn
  <2>4. In'
    <3> SUFFICES ASSUME breakpoints_inserted PROVE In'
      BY <1>2 DEF In
    <3>1. Shadowed(chain, text) => Shadowed(chain', text)
      BY <1>5 DEF Shadowed
    <3>2. \A at : Covered(chain, text, at) => Covered(chain', text, at)
      BY <2>2 DEF Covered
    <3> QED
      BY <1>2, <2>1, <2>2, <3>1, <3>2 DEF In, Active, special
  <2>5. Apart'
    <3>1. \A a : EnabledAt(chain', a) \subseteq EnabledAt(chain, a)
      BY <1>5 DEF EnabledAt
    <3> QED
      BY <1>2, <2>1, <3>1 DEF Apart, Active, special
  <2>6. Phased'
    BY <1>2, <2>1 DEF Phased, special
  <2>7. ASSUME NEW a PROVE Beneath(a)' = Beneath(a)
    <3>1. CASE InAt(chain, a) = {}
      BY <1>2, <2>2, <3>1, BeneathIs DEF BeneathOf, special
    <3>2. CASE InAt(chain, a) # {}
      <4>1. InAt(chain, a) \subseteq 1 .. Len(chain)
        BY <1>1 DEF InAt
      <4>2. Max(InAt(chain, a)) \in DOMAIN chain
        BY <1>1, <3>2, <4>1, MaxIn
      <4> QED
        BY <1>5, <2>2, <3>2, <4>2, BeneathIs DEF BeneathOf
    <3> QED
      BY <3>1, <3>2
  <2> QED
    BY <1>5, <1>6, <2>3, <2>4, <2>5, <2>6, <2>7 DEF Good, Damage, IInv, Orderly
<1> QED
  BY <1>7, <1>8

-----------------------------------------------------------------------------
(***************************************************************************)
(* The special breakpoint, and passes that take the others out.            *)
(***************************************************************************)
\* The program after everything has been taken out, in either order.
LEMMA TakenOut ==
  ASSUME IInv, ~unwound, NEW stored
  PROVE  LET u == WithoutTraps(text, Len(chain) + 1, stored)
             w == remove_step_breakpoint(u)
             v == WithoutTraps(remove_step_breakpoint(text), Len(chain) + 1,
                               stored)
         IN  /\ Clean(w)
             /\ \A a \in Addr :
                  /\ breakpoints_inserted =>
                       w[a] = Beneath(a) /\ v[a] = Beneath(a)
                  /\ ~breakpoints_inserted =>
                       /\ u[a] = Beneath(a)
                       /\ w[a] = IF Active /\ a = resume_at THEN resume_shadow
                                 ELSE Beneath(a)
                  /\ ~Active => u[a] = w[a]
<1> DEFINE n == Len(chain) + 1
           s == remove_step_breakpoint(text)
           u == WithoutTraps(text, n, stored)
           w == remove_step_breakpoint(u)
           v == WithoutTraps(s, n, stored)
<1>1. /\ TypeOK /\ Rest /\ text \in Text /\ chain \in Chain
      /\ n \in Nat /\ Out /\ In /\ Apart
      /\ \A i \in DOMAIN chain : chain[i].address \in Addr
  BY Typed, ChainAt DEF IInv, Orderly
<1>2. u \in Text /\ s \in Text /\ v \in Text
  BY <1>1, RemovedIs, SpecialOut
<1>3. \A a \in Addr :
        /\ s[a] = IF Active /\ a = resume_at THEN resume_shadow ELSE text[a]
        /\ w[a] = IF Active /\ a = resume_at THEN resume_shadow ELSE u[a]
  BY <1>1, <1>2, SpecialOut
<1>4. \A i, j \in DOMAIN chain :
        chain[i].inserted /\ chain[j].inserted
          /\ chain[i].address = chain[j].address => i = j
  BY <1>1 DEF Out, In, NoneIn, Shadowed
<1>5. /\ \A i \in DOMAIN chain : chain[i].inserted =>
           /\ u[chain[i].address] = chain[i].shadow
           /\ v[chain[i].address] = chain[i].shadow
      /\ \A a \in Addr : InAt(chain, a) = {} => u[a] = text[a] /\ v[a] = s[a]
      /\ NoneIn(chain) => u = text
  BY <1>1, <1>2, <1>4, RemovedAll
<1> HIDE DEF s, u, v, w
<1>6. ~Active => \A a \in Addr : u[a] = w[a]
  BY <1>3
<1>7. CASE ~breakpoints_inserted
  <2>1. NoneIn(chain) /\ Clean(text) /\ \A a : Beneath(a) = text[a]
    BY <1>7, Quiet
  <2>2. u = text /\ Clean(w)
    BY <2>1, <1>1, <1>3, <1>5 DEF Clean, Apart
  <2>3. \A a \in Addr :
          w[a] = IF Active /\ a = resume_at THEN resume_shadow ELSE Beneath(a)
    BY <2>1, <2>2, <1>3
  <2> QED
    BY <2>1, <2>2, <2>3, <1>6, <1>7 DEF n, s, u, v, w
<1>8. CASE breakpoints_inserted
  <2>1. /\ Shadowed(chain, text)
        /\ Covered(chain, text, IF Active THEN resume_at ELSE NoAddr)
        /\ Active => text[resume_at] = Trap /\ InAt(chain, resume_at) = {}
    BY <1>1, <1>8 DEF In
  <2>2. ASSUME NEW a \in Addr
        PROVE  /\ w[a] = Beneath(a) /\ v[a] = Beneath(a) /\ w[a] # Trap
    <3> DEFINE B == BeneathOf(chain, text, resume_at, resume_dup,
                              resume_shadow, a)
    <3>1. Beneath(a) = B
      BY BeneathIs
    <3>2. /\ \A i \in InAt(chain, a) : B = chain[i].shadow
          /\ InAt(chain, a) = {} =>
               B = IF resume_at # NoAddr /\ ~resume_dup
                       /\ text[resume_at] = Trap /\ resume_at = a
                     THEN resume_shadow ELSE text[a]
      BY <1>1, <2>1, BeneathIn
    <3> HIDE DEF B
    <3>3. ASSUME NEW i \in InAt(chain, a)
          PROVE  w[a] = B /\ v[a] = B /\ w[a] # Trap
      <4>1. i \in DOMAIN chain /\ chain[i].inserted /\ chain[i].address = a
        BY <3>3 DEF InAt
      <4>2. B = chain[i].shadow /\ chain[i].shadow # Trap
        BY <4>1, <2>1, <3>2, <3>3 DEF Shadowed
      <4>3. ~(Active /\ a = resume_at)
        BY <2>1, <3>3
      <4> QED
        BY <4>1, <4>2, <4>3, <1>3, <1>5
    <3>4. CASE InAt(chain, a) = {} /\ Active /\ a = resume_at
      <4>1. B = resume_shadow /\ resume_shadow # Trap
        BY <3>4, <3>2, <2>1, <1>1 DEF Active, Apart
      <4> QED
        BY <3>1, <3>4, <4>1, <1>3, <1>5
    <3>5. CASE InAt(chain, a) = {} /\ ~(Active /\ a = resume_at)
      <4>1. B = text[a]
        BY <3>5, <3>2 DEF Active
      <4>2. text[a] # Trap
        BY <3>5, <2>1, BreakpointsAssumption DEF Covered
      <4> QED
        BY <3>1, <3>5, <4>1, <4>2, <1>3, <1>5
    <3> QED
      BY <3>1, <3>3, <3>4, <3>5
  <2>3. Clean(w)
    BY <2>2 DEF Clean
  <2> QED
    BY <2>2, <2>3, <1>6, <1>8 DEF n, s, u, v, w
<1> QED
  BY <1>7, <1>8

LEMMA HittingSpecial ==
  ASSUME IInv, HitSpecial
  PROVE  Good
<1>1. /\ TypeOK /\ Rest /\ text \in Text /\ chain \in Chain /\ Marked(chain)
      /\ Len(chain) =< MaxBreakpoints
  BY Typed DEF IInv
<1>2. /\ phase = "stopped" /\ phase' = "range" /\ ~trap_expected
      /\ resume_at = pc /\ resume_at' = NoAddr
      /\ text' = remove_step_breakpoint(text)
      /\ UNCHANGED <<chain, pc, resume_dup, resume_shadow, status, unwound>>
  BY DEF HitSpecial, Unexpected, AtSpecial
<1>3. /\ text' \in Text
      /\ \A a \in Addr : text'[a] = IF Active /\ a = resume_at
                                      THEN resume_shadow ELSE text[a]
  BY <1>1, <1>2, SpecialOut
<1>4. TypeOK'
  BY <1>1, <1>2, <1>3, Typed DEF Rest, status, Phases
<1>5. CASE unwound
  BY <1>1, <1>2, <1>4, <1>5 DEF Good, IInv
<1>6. CASE ~unwound
  <2>1. /\ Out /\ In /\ Apart /\ Phased
        /\ breakpoints_inserted /\ breakpoints_inserted'
    BY <1>1, <1>2, <1>6, BreakpointsAssumption
    DEF IInv, Orderly, Phased, Rest, status
  <2>2. /\ Shadowed(chain, text)
        /\ Covered(chain, text, IF Active THEN resume_at ELSE NoAddr)
        /\ Active => text[resume_at] = Trap /\ InAt(chain, resume_at) = {}
        /\ \A i \in DOMAIN chain :
             chain[i].inserted => chain[i].enable # "disabled"
        /\ \A i \in DOMAIN chain : chain[i].address \in Addr
    BY <1>1, <1>2, <2>1, ChainAt DEF In
  <2>3. /\ chain' = chain /\ unwound' = unwound /\ ~Active'
        /\ resume_shadow' = resume_shadow
    BY <1>2 DEF Active
  <2>4. \A i \in DOMAIN chain : chain[i].inserted =>
          i \in InAt(chain, chain[i].address)
    BY DEF InAt
  <2>5. Shadowed(chain, text')
    BY <1>3, <2>2, <2>4 DEF Shadowed
  <2>6. Covered(chain, text', NoAddr)
    BY <1>3, <2>1, <2>2, BreakpointsAssumption DEF Covered, Apart
  <2>7. In'
    BY <1>2, <2>2, <2>3, <2>5, <2>6 DEF In
  <2>8. Out' /\ Apart' /\ Phased'
    BY <1>2, <2>1, <2>3 DEF Out, Apart, Phased, status
  <2>9. ASSUME NEW a \in Addr PROVE Beneath(a)' = Beneath(a)
    <3> DEFINE B == BeneathOf(chain, text, resume_at, resume_dup,
                              resume_shadow, a)
               C == BeneathOf(chain', text', resume_at', resume_dup',
                              resume_shadow', a)
    <3>1. Beneath(a) = B /\ Beneath(a)' = C
      BY BeneathIs
    <3>2. /\ \A i \in InAt(chain, a) : B = chain[i].shadow
          /\ InAt(chain, a) = {} =>
               B = IF resume_at # NoAddr /\ ~resume_dup
                       /\ text[resume_at] = Trap /\ resume_at = a
                     THEN resume_shadow ELSE text[a]
      BY <1>1, <2>2, BeneathIn
    <3>3. /\ \A i \in InAt(chain, a) : C = chain[i].shadow
          /\ InAt(chain, a) = {} => C = text'[a]
      BY <1>1, <1>2, <2>3, <2>5, BeneathIn
    <3> HIDE DEF B, C
    <3>4. CASE InAt(chain, a) # {}
      BY <3>1, <3>2, <3>3, <3>4
    <3>5. CASE InAt(chain, a) = {}
      BY <3>1, <3>2, <3>3, <3>5, <1>3, <2>2 DEF Active
    <3> QED
      BY <3>4, <3>5
  <2> QED
    BY <1>1, <1>4, <2>3, <2>7, <2>8, <2>9 DEF Good, Damage, IInv, Orderly
<1> QED
  BY <1>5, <1>6

LEMMA PassingBreakpoint ==
  ASSUME IInv, NEW k \in 1 .. Len(chain) + 1, NEW stored \in BOOLEAN,
         PassBreakpoint(k, stored)
  PROVE  Good
<1> DEFINE t == WithoutTraps(text, k, stored)
           cs == AsRemoved(k)
<1>1. /\ TypeOK /\ Rest /\ text \in Text /\ chain \in Chain /\ Marked(chain)
      /\ Len(chain) =< MaxBreakpoints /\ k \in Nat
      /\ phase = "stopped" /\ ~trap_expected
      /\ UNCHANGED <<pc, special, sig, range, remove_following, stop_bp>>
  BY Typed, ChainAt DEF IInv, PassBreakpoint, Unexpected
<1>2. /\ t \in Text /\ cs \in Chain /\ Len(cs) = Len(chain) /\ Marked(cs)
      /\ k = Len(chain) + 1 => NoneIn(cs)
      /\ \A a : EnabledAt(cs, a) = EnabledAt(chain, a)
  BY <1>1, RemovedIs, SameMarked
<1>3. CASE ~Whole(k)
  <2>1. rerr(t, cs) /\ UNCHANGED <<breakpoints_inserted, trap_expected>>
    BY <1>3 DEF PassBreakpoint
  <2>2. Rest'
    BY <1>1, <2>1 DEF Rest, special
  <2> QED
    BY <1>1, <1>2, <2>1, <2>2, Unwinds
<1>4. CASE Whole(k)
  <2>1. /\ k = Len(chain) + 1 /\ text' = remove_step_breakpoint(t)
        /\ chain' = cs /\ breakpoints_inserted' = FALSE
        /\ trap_expected' = TRUE /\ phase' = "range" /\ unwound' = unwound
    BY <1>4 DEF PassBreakpoint, Whole
  <2>2. text' \in Text
    BY <1>1, <1>2, <2>1, SpecialOut
  <2>3. TypeOK'
    BY <1>1, <1>2, <2>1, <2>2, Typed DEF Rest, special, Phases
  <2>4. CASE unwound
    BY <1>2, <2>1, <2>3, <2>4 DEF Good, IInv
  <2>5. CASE ~unwound
    <3>1. Apart /\ Phased
      BY <2>5 DEF IInv, Orderly
    <3>2. Apart' /\ Phased'
      BY <1>1, <1>2, <2>1, <3>1 DEF Apart, Phased, Active, special
    <3>3. Active => breakpoints_inserted
      BY <1>1, <3>1 DEF Phased, Active
    <3>4. Clean(text') /\ \A a \in Addr : text'[a] = Beneath(a)
      BY <2>1, <2>5, <3>3, TakenOut
    <3>5. IInv' /\ \A a : Beneath(a)' = text'[a]
      BY <1>2, <2>1, <2>3, <3>2, <3>4, QuietAfter
    <3> QED
      BY <3>4, <3>5 DEF Good, Damage
  <2> QED
    BY <2>4, <2>5
<1> QED
  BY <1>3, <1>4

LEMMA PullingOut ==
  ASSUME IInv, NEW k \in 1 .. Len(chain) + 1, NEW stored \in BOOLEAN,
         PullOut(k, stored)
  PROVE  Good
<1> DEFINE t == WithoutTraps(text, k, stored)
           cs == AsRemoved(k)
<1>1. /\ TypeOK /\ Rest /\ text \in Text /\ chain \in Chain /\ Marked(chain)
      /\ Len(chain) =< MaxBreakpoints /\ k \in Nat
      /\ phase = "reinsert" /\ resume_at = NoAddr /\ remove_following
      /\ remove_following' = FALSE
      /\ UNCHANGED <<pc, special, sig, range, trap_expected, stop_bp>>
  BY Typed, ChainAt DEF IInv, PullOut
<1>2. /\ t \in Text /\ cs \in Chain /\ Len(cs) = Len(chain) /\ Marked(cs)
      /\ k = Len(chain) + 1 => NoneIn(cs)
  BY <1>1, RemovedIs, SameMarked
<1>3. CASE ~Whole(k)
  <2>1. rerr(t, cs) /\ UNCHANGED breakpoints_inserted
    BY <1>3 DEF PullOut
  <2>2. Rest'
    BY <1>1, <2>1 DEF Rest, special
  <2> QED
    BY <1>1, <1>2, <2>1, <2>2, Unwinds
<1>4. CASE Whole(k)
  <2>1. /\ k = Len(chain) + 1 /\ text' = t /\ chain' = cs
        /\ breakpoints_inserted' = FALSE /\ Resumed /\ unwound' = unwound
    BY <1>4 DEF PullOut, Whole
  <2>2. phase' \in {"stepping", "running"}
    BY <2>1 DEF Resumed
  <2>3. TypeOK'
    BY <1>1, <1>2, <2>1, <2>2, Typed DEF Rest, special, Phases
  <2>4. CASE unwound
    BY <1>2, <2>1, <2>3, <2>4 DEF Good, IInv
  <2>5. CASE ~unwound
    <3>1. Apart /\ Phased /\ ~Active
      BY <1>1, <2>5 DEF IInv, Orderly, Active
    <3>2. phase' = "stepping" /\ resume_at' = NoAddr
      BY <1>1, <2>1, <3>1 DEF Resumed, Phased, special
    <3>3. Apart' /\ Phased'
      BY <1>1, <2>1, <3>1, <3>2 DEF Apart, Phased, Active, special
    <3>4. Clean(text') /\ \A a \in Addr : text'[a] = Beneath(a)
      BY <2>1, <2>5, <3>1, TakenOut DEF Clean
    <3>5. IInv' /\ \A a : Beneath(a)' = text'[a]
      BY <1>2, <2>1, <2>3, <3>3, <3>4, QuietAfter
    <3> QED
      BY <3>4, <3>5 DEF Good, Damage
  <2> QED
    BY <2>4, <2>5
<1> QED
  BY <1>3, <1>4

LEMMA PuttingBack ==
  ASSUME IInv, NEW k \in 1 .. Len(chain) + 1, NEW stored \in BOOLEAN,
         PutBack(k, stored)
  PROVE  Good
<1> DEFINE t == WithSpecial(text, resume_at, resume_dup)
<1>1. /\ TypeOK /\ Rest /\ text \in Text /\ chain \in Chain /\ Marked(chain)
      /\ Len(chain) =< MaxBreakpoints /\ k \in Nat
      /\ phase = "reinsert" /\ ~breakpoints_inserted /\ ~trap_expected
      /\ resume_shadow' = SpecialShadow(text, resume_at, resume_dup)
      /\ UNCHANGED <<pc, resume_at, resume_dup, sig, range, trap_expected,
                     remove_following, stop_bp>>
  BY Typed, ChainAt DEF IInv, PutBack
<1>2. t \in Text /\ resume_shadow' \in Contents
  BY <1>1 DEF WithSpecial, SpecialShadow, Text, Rest, Contents
<1>3. /\ WithTraps(t, k, stored) \in Text /\ AsInserted(t, k) \in Chain
      /\ Len(AsInserted(t, k)) = Len(chain) /\ Marked(AsInserted(t, k))
  <2> HIDE DEF t
  <2> QED
    BY <1>1, <1>2, InsertedIs, SameMarked
<1>4. CASE ~Whole(k)
  <2>1. rerr(WithTraps(t, k, stored), AsInserted(t, k))
        /\ breakpoints_inserted' = breakpoints_inserted
    BY <1>4 DEF PutBack
  <2>2. Rest'
    BY <1>1, <1>2, <2>1 DEF Rest
  <2> QED
    BY <1>1, <1>3, <2>1, <2>2, Unwinds
<1>5. CASE Whole(k)
  <2>1. /\ k = Len(chain) + 1
        /\ text' = WithTraps(t, k, stored) /\ chain' = AsInserted(t, k)
        /\ breakpoints_inserted' = TRUE /\ unwound' = unwound
        /\ phase' \in {"stepping", "running"}
    BY <1>5 DEF PutBack, Whole, Resumed
  <2>2. TypeOK'
    BY <1>1, <1>2, <1>3, <2>1, Typed DEF Rest, Phases
  <2>3. CASE unwound
    BY <1>3, <2>1, <2>2, <2>3 DEF Good, IInv
  <2>4. CASE ~unwound
    <3>1. Phased'
      BY <1>1, <2>1, <2>4 DEF IInv, Orderly, Phased
    <3> HIDE DEF t
    <3> QED
      BY <1>1, <2>1, <2>2, <2>4, <3>1, Inserts DEF t
  <2> QED
    BY <2>3, <2>4
<1> QED
  BY <1>4, <1>5

-----------------------------------------------------------------------------
(***************************************************************************)
(* normal_stop.                                                            *)
(***************************************************************************)
LEMMA AutoDeletedIs ==
  ASSUME NEW t \in Text, NEW bs \in Chain, stop_bp # 0 => stop_bp \in DOMAIN bs
  PROVE  LET d == AutoDeleted(t, bs) IN
         /\ d[1] \in Text /\ d[2] \in Chain /\ Len(d[2]) <= Len(bs)
         /\ Marked(bs) => Marked(d[2])
         /\ NoneIn(bs) => d[1] = t /\ NoneIn(d[2])
<1>1. CASE stop_bp # 0 /\ bs[stop_bp].enable \in {"delete", "momentary"}
  <2> DEFINE t1 == Restored(t, bs[stop_bp])
             bs1 == Deleted(bs, stop_bp)
  <2>1. stop_bp \in DOMAIN bs /\ bs[stop_bp] \in Breakpoint /\ Len(bs) \in Nat
    BY <1>1, ChainAt
  <2>2. t1 \in Text /\ (NoneIn(bs) => t1 = t)
    BY <2>1, RestoredIs DEF NoneIn
  <2>3. /\ bs1 \in Chain /\ Len(bs1) = Len(bs) - 1
        /\ Marked(bs) => Marked(bs1)
        /\ NoneIn(bs) => NoneIn(bs1)
    BY <2>1, DeletedIs
  <2>4. AutoDeleted(t, bs) = Cleared(t1, bs1)
    BY <1>1 DEF AutoDeleted
  <2> HIDE DEF t1, bs1
  <2>5. /\ Cleared(t1, bs1)[1] \in Text /\ Cleared(t1, bs1)[2] \in Chain
        /\ Len(Cleared(t1, bs1)[2]) <= Len(bs1)
        /\ Marked(bs1) => Marked(Cleared(t1, bs1)[2])
        /\ NoneIn(bs1) =>
             Cleared(t1, bs1)[1] = t1 /\ NoneIn(Cleared(t1, bs1)[2])
    BY <2>2, <2>3, ClearedIs
  <2>6. Len(Cleared(t1, bs1)[2]) \in Nat
    BY <2>5, ChainAt
  <2> QED
    BY <2>1, <2>2, <2>3, <2>4, <2>5, <2>6
<1>2. CASE ~(stop_bp # 0 /\ bs[stop_bp].enable \in {"delete", "momentary"})
  BY <1>2, ClearedIs DEF AutoDeleted
<1> QED
  BY <1>1, <1>2

LEMMA NormalStop ==
  ASSUME IInv, NEW k \in 1 .. Len(chain) + 1, NEW stored \in BOOLEAN,
         normal_stop(k, stored)
  PROVE  Good
<1> DEFINE s  == remove_step_breakpoint(text)
           t  == IF breakpoints_inserted THEN WithoutTraps(s, k, stored) ELSE s
           cs == IF breakpoints_inserted THEN AsRemoved(k) ELSE chain
           after == AutoDeleted(t, cs)
<1>1. /\ TypeOK /\ Rest /\ text \in Text /\ chain \in Chain /\ Marked(chain)
      /\ Len(chain) =< MaxBreakpoints /\ k \in Nat /\ Len(chain) \in Nat
      /\ DOMAIN chain = 1 .. Len(chain) /\ phase = "stop"
      /\ stop_bp \in 0 .. Len(chain)
      /\ UNCHANGED <<pc, special, sig, range, trap_expected, remove_following,
                     stop_bp>>
  BY Typed, ChainAt, BreakpointsAssumption DEF IInv, normal_stop, Rest
<1>2. s \in Text
  BY <1>1, SpecialOut
<1>3. /\ t \in Text /\ cs \in Chain /\ Len(cs) = Len(chain) /\ Marked(cs)
      /\ breakpoints_inserted /\ k = Len(chain) + 1 => NoneIn(cs)
  <2> HIDE DEF s
  <2>1. CASE breakpoints_inserted
    BY <2>1, <1>1, <1>2, RemovedIs, SameMarked
  <2>2. CASE ~breakpoints_inserted
    BY <2>2, <1>1, <1>2
  <2> QED
    BY <2>1, <2>2
<1>4. CASE ~Whole(k)
  <2>1. rerr(t, cs) /\ UNCHANGED breakpoints_inserted
    BY <1>4 DEF normal_stop
  <2>2. Rest'
    BY <1>1, <2>1 DEF Rest, special
  <2> QED
    BY <1>1, <1>3, <2>1, <2>2, Unwinds
<1>5. CASE Whole(k)
  <2>1. /\ k = Len(chain) + 1
        /\ text' = after[1] /\ chain' = after[2]
        /\ breakpoints_inserted' = FALSE /\ phase' = "prompt"
        /\ unwound' = unwound
    <3>1. CASE breakpoints_inserted
      BY <1>5, <3>1 DEF normal_stop, Whole
    <3>2. CASE ~breakpoints_inserted
      BY <1>5, <3>2 DEF normal_stop, Whole
    <3> QED
      BY <3>1, <3>2
  <2>2. stop_bp # 0 => stop_bp \in DOMAIN cs
    BY <1>1, <1>3, ChainAt
  <2> HIDE DEF t, cs, s
  <2>3. /\ text' \in Text /\ chain' \in Chain /\ Len(chain') <= Len(cs)
        /\ Marked(chain')
        /\ NoneIn(cs) => text' = t /\ NoneIn(chain')
    BY <1>3, <2>1, <2>2, AutoDeletedIs
  <2>4. Len(chain') =< MaxBreakpoints
    <3>1. Len(chain') \in Nat
      BY <2>3, ChainAt
    <3> QED
      BY <3>1, <1>1, <1>3, <2>3, BreakpointsAssumption
  <2>5. TypeOK'
    BY <1>1, <2>1, <2>3, <2>4, Typed DEF Rest, special, Phases
  <2>6. CASE unwound
    BY <2>1, <2>3, <2>5, <2>6 DEF Good, IInv
  <2>7. CASE ~unwound
    <3>1. Out /\ Apart /\ Phased
      BY <2>7 DEF IInv, Orderly
    <3>2. NoneIn(cs)
      BY <1>3, <2>1, <3>1 DEF Out, cs
    <3>3. text' = t /\ NoneIn(chain')
      BY <2>3, <3>2
    <3>4. /\ Clean(text')
          /\ \A a \in Addr :
               text'[a] = Beneath(a) \/ (Phantom /\ a = resume_at)
      <4> DEFINE u == WithoutTraps(text, Len(chain) + 1, stored)
                 w == remove_step_breakpoint(u)
                 v == WithoutTraps(s, Len(chain) + 1, stored)
      <4>1. /\ Clean(w)
            /\ \A a \in Addr :
                 /\ breakpoints_inserted =>
                      w[a] = Beneath(a) /\ v[a] = Beneath(a)
                 /\ ~breakpoints_inserted =>
                      w[a] = IF Active /\ a = resume_at THEN resume_shadow
                             ELSE Beneath(a)
        BY <2>7, TakenOut DEF s
      <4> HIDE DEF u, w, v
      <4>2. CASE breakpoints_inserted
        <5>1. text' = v
          BY <2>1, <3>3, <4>2 DEF t, v
        <5> QED
          BY <4>1, <4>2, <5>1 DEF Clean
      <4>3. CASE ~breakpoints_inserted
        <5>1. text' = s
          BY <3>3, <4>3 DEF t
        <5>2. Clean(text) /\ \A a : Beneath(a) = text[a]
          BY <2>7, <4>3, Quiet
        <5>3. \A a \in Addr :
                s[a] = IF Active /\ a = resume_at THEN resume_shadow ELSE text[a]
          BY <1>1, SpecialOut DEF s
        <5>4. Active => Phantom
          BY <1>1, <5>2 DEF Active, Phantom, Clean, Rest
        <5> QED
          BY <3>1, <5>1, <5>2, <5>3, <5>4 DEF Clean, Apart
      <4> QED
        BY <4>2, <4>3
    <3>5. Apart' /\ Phased'
      BY <1>1, <2>1, <3>1 DEF Apart, Phased, special
    <3>6. IInv' /\ \A a : Beneath(a)' = text'[a]
      BY <2>1, <2>3, <2>5, <3>3, <3>4, <3>5, QuietAfter
    <3> QED
      BY <1>1, <3>4, <3>6 DEF Good, Damage
  <2> QED
    BY <2>6, <2>7
<1> QED
  BY <1>4, <1>5

LEMMA CallingTo ==
  ASSUME IInv, NEW r \in Addr, NEW handler \in BOOLEAN, CallTo(r, handler)
  PROVE  Good
<1>1. /\ TypeOK /\ Rest /\ text \in Text /\ chain \in Chain /\ Marked(chain)
      /\ Len(chain) =< MaxBreakpoints
      /\ \A i \in DOMAIN chain : chain[i].address \in Addr
  BY Typed, ChainAt DEF IInv
<1>2. /\ phase = "range" /\ range /\ resume_at = NoAddr /\ resume_at' = r
      /\ resume_dup' = (EnabledAt(chain, r) # {})
      /\ phase' = "reinsert"
      /\ remove_following' = (remove_following \/ handler)
      /\ UNCHANGED <<chain, pc, sig, range, trap_expected,
                     breakpoints_inserted, stop_bp, unwound>>
      /\ r # NoAddr
  BY BreakpointsAssumption DEF CallTo, breakpoint_here_p
<1>3. breakpoints_inserted =>
        IF resume_dup' THEN text' = text /\ resume_shadow' = resume_shadow
        ELSE text' = [text EXCEPT ![r] = Trap] /\ resume_shadow' = text[r]
  BY <1>2 DEF CallTo, WithSpecial, SpecialShadow
<1>4. ~breakpoints_inserted => text' = text /\ resume_shadow' = resume_shadow
  BY DEF CallTo
<1>5. text' \in Text /\ resume_shadow' \in Contents
  BY <1>1, <1>3, <1>4 DEF Text, Rest, Contents
<1>6. Rest'
  BY <1>1, <1>2, <1>5 DEF Rest
<1>7. TypeOK'
  BY <1>1, <1>2, <1>5, <1>6, Typed DEF Phases
<1>8. CASE unwound
  BY <1>1, <1>2, <1>7, <1>8 DEF Good, IInv
<1>9. CASE ~unwound
  <2>1. Out /\ In /\ Apart /\ Phased /\ ~Active
    BY <1>2, <1>9 DEF IInv, Orderly, Active
  <2>2. Phased'
    BY <1>2, <2>1 DEF Phased
  <2>3. Active' => EnabledAt(chain, r) = {}
    BY <1>2 DEF Active
  <2>4. CASE ~breakpoints_inserted
    <3>1. Clean(text') /\ NoneIn(chain') /\ \A a : Beneath(a) = text'[a]
      BY <1>2, <1>4, <1>9, <2>4, Quiet
    <3>2. Apart'
      BY <1>2, <1>4, <2>1, <2>3, <2>4 DEF Apart
    <3>3. breakpoints_inserted' = FALSE
      BY <1>1, <1>2, <2>4 DEF Rest
    <3>4. IInv' /\ \A a : Beneath(a)' = text'[a]
      BY <1>1, <1>2, <1>7, <2>2, <3>1, <3>2, <3>3, QuietAfter
    <3> QED
      BY <3>1, <3>4 DEF Good, Damage
  <2>5. CASE breakpoints_inserted
    <3>1. /\ Shadowed(chain, text) /\ Covered(chain, text, NoAddr)
          /\ \A i \in DOMAIN chain :
               chain[i].inserted => chain[i].enable # "disabled"
      BY <1>2, <2>1, <2>5 DEF In
    <3>2. Active' => InAt(chain, r) = {}
      BY <2>3, <3>1 DEF InAt, EnabledAt
    <3>3. Active' => text[r] # Trap
      BY <1>2, <3>1, <3>2 DEF Covered
    <3>4. /\ \A a \in Addr :
               text'[a] = IF Active' /\ a = r THEN Trap ELSE text[a]
          /\ resume_shadow' = IF Active' THEN text[r] ELSE resume_shadow
      <4>1. Active' <=> ~resume_dup'
        BY <1>2 DEF Active
      <4>2. CASE resume_dup'
        BY <1>3, <2>5, <4>1, <4>2
      <4>3. CASE ~resume_dup'
        BY <1>1, <1>3, <2>5, <4>1, <4>3 DEF Text
      <4> QED
        BY <4>2, <4>3
    <3>5. \A i \in DOMAIN chain : chain[i].inserted =>
            i \in InAt(chain, chain[i].address)
      BY DEF InAt
    <3>6. Shadowed(chain, text')
      BY <1>1, <3>1, <3>2, <3>4, <3>5 DEF Shadowed
    <3>7. Covered(chain, text', IF Active' THEN r ELSE NoAddr)
      <4> SUFFICES ASSUME NEW a \in Addr, text'[a] = Trap
                   PROVE  InAt(chain, a) # {} \/ (Active' /\ a = r)
        BY <1>2 DEF Covered
      <4>1. CASE Active' /\ a = r
        BY <4>1
      <4>2. CASE ~(Active' /\ a = r)
        BY <4>2, <3>1, <3>4, BreakpointsAssumption DEF Covered
      <4> QED
        BY <4>1, <4>2
    <3>8. In'
      BY <1>2, <3>1, <3>2, <3>4, <3>6, <3>7 DEF In
    <3>9. Apart' /\ Out'
      BY <1>2, <2>1, <2>3, <2>5, <3>3, <3>4 DEF Apart, Out
    <3>10. ASSUME NEW a \in Addr PROVE Beneath(a)' = Beneath(a)
      <4> DEFINE B == BeneathOf(chain, text, resume_at, resume_dup,
                                resume_shadow, a)
                 C == BeneathOf(chain', text', resume_at', resume_dup',
                                resume_shadow', a)
      <4>1. Beneath(a) = B /\ Beneath(a)' = C
        BY BeneathIs
      <4>2. /\ \A i \in InAt(chain, a) : B = chain[i].shadow
            /\ InAt(chain, a) = {} =>
                 B = IF resume_at # NoAddr /\ ~resume_dup
                         /\ text[resume_at] = Trap /\ resume_at = a
                       THEN resume_shadow ELSE text[a]
        BY <1>1, <3>1, BeneathIn
      <4>3. /\ \A i \in InAt(chain, a) : C = chain[i].shadow
            /\ InAt(chain, a) = {} =>
                 C = IF resume_at' # NoAddr /\ ~resume_dup'
                         /\ text'[resume_at'] = Trap /\ resume_at' = a
                       THEN resume_shadow' ELSE text'[a]
        BY <1>1, <1>2, <3>6, BeneathIn
      <4> HIDE DEF B, C
      <4>4. CASE InAt(chain, a) # {}
        BY <4>1, <4>2, <4>3, <4>4
      <4>5. CASE InAt(chain, a) = {}
        <5>1. B = text[a]
          BY <1>2, <4>2, <4>5
        <5>2. C = text[a]
          BY <1>2, <3>4, <4>3, <4>5 DEF Active
        <5> QED
          BY <4>1, <5>1, <5>2
      <4> QED
        BY <4>4, <4>5
    <3> QED
      BY <1>1, <1>2, <1>7, <2>2, <3>8, <3>9, <3>10
      DEF Good, Damage, IInv, Orderly
  <2> QED
    BY <2>4, <2>5
<1> QED
  BY <1>8, <1>9

-----------------------------------------------------------------------------
(***************************************************************************)
(* The theorems.                                                           *)
(***************************************************************************)
LEMMA InitInv == Init => IInv
<1> SUFFICES ASSUME Init PROVE IInv
  OBVIOUS
<1>1. text \in Text /\ Clean(text)
  BY BreakpointsAssumption DEF Init, Text, Contents, Clean
<1>2. chain \in Chain /\ Len(chain) = 0 /\ DOMAIN chain = {}
  BY DEF Init, Chain
<1>3. TypeOK
  <2>0. 0 \in 0 .. MaxBreakpoints /\ Len(chain) =< MaxBreakpoints
    BY <1>2, BreakpointsAssumption
  <2>1. Rest
    BY <2>0, Zenon DEF Init, Rest, Contents
  <2>2. phase \in Phases /\ unwound \in BOOLEAN
    BY Zenon DEF Init, Phases
  <2>3. phase = "stop" => stop_bp =< Len(chain)
    BY DEF Init
  <2> QED
    BY <1>1, <1>2, <2>0, <2>1, <2>2, <2>3, Typed
<1>4. Marked(chain) /\ NoneIn(chain)
  BY <1>2 DEF Marked, MarkedAt, FirstAt, EnabledAt, NoneIn
<1>5. Orderly
  BY <1>1, <1>4, BreakpointsAssumption
  DEF Init, Orderly, Out, In, Apart, Phased, Active
<1> QED
  BY <1>3, <1>4, <1>5 DEF IInv

LEMMA NextGood == IInv /\ Next => Good
<1> SUFFICES ASSUME IInv, Next PROVE Good
  OBVIOUS
<1>1. CASE Prompt
  <2>1. ASSUME NEW a \in Addr, NEW e \in {"enabled", "temporary"},
               break_command(a, e)
        PROVE  Good
    BY <2>1, BreakCommand DEF Enables
  <2>2. ASSUME NEW i \in DOMAIN chain, delete_command(i) PROVE Good
    BY <2>2, DeleteCommand
  <2>3. ASSUME NEW i \in DOMAIN chain, NEW e \in Enables \ {"momentary"},
               enable_command(i, e)
        PROVE  Good
    BY <2>3, EnableCommand
  <2>4. CASE load_command
    BY <2>4, LoadCommand
  <2>5. ASSUME NEW step \in BOOLEAN, proceed(step, NoAddr, NoAddr) PROVE Good
    BY <2>5, Proceed
  <2>6. ASSUME NEW a \in Addr,
               proceed(FALSE, a, NoAddr) \/ proceed(FALSE, NoAddr, a)
        PROVE  Good
    BY <2>6, Proceed
  <2> QED
    BY <1>1, <2>1, <2>2, <2>3, <2>4, <2>5, <2>6 DEF Prompt
<1>2. CASE Target
  BY <1>2, TargetStep
<1>3. CASE Decide
  <2>1. ASSUME NEW i \in DOMAIN chain, HitBreakpoint(i) PROVE Good
    BY <2>1, HittingBreakpoint
  <2>2. CASE HitSpecial
    BY <2>2, HittingSpecial
  <2>3. CASE Stepped \/ RandomSignal \/ KeepGoing \/ EndStep \/ Leave
    BY <2>3, MovingStep
  <2>4. ASSUME NEW r \in Addr, NEW handler \in BOOLEAN, CallTo(r, handler)
        PROVE  Good
    BY <2>4, CallingTo
  <2>5. CASE SpecialFails
    BY <2>5, SpecialFailing
  <2> QED
    BY <1>3, <2>1, <2>2, <2>3, <2>4, <2>5 DEF Decide
<1>4. ASSUME NEW k \in 1 .. Len(chain) + 1, NEW stored \in BOOLEAN,
             Pass(k, stored)
      PROVE  Good
  <2>1. ASSUME NEW a \in Addr, init_command(k, stored, a) PROVE Good
    BY <2>1, InitCommand
  <2>2. CASE insert_breakpoints(k, stored)
    BY <2>2, InsertBreakpoints
  <2>3. CASE PassBreakpoint(k, stored)
    BY <2>3, PassingBreakpoint
  <2>4. CASE PullOut(k, stored)
    BY <2>4, PullingOut
  <2>5. CASE PutBack(k, stored)
    BY <2>5, PuttingBack
  <2>6. CASE normal_stop(k, stored)
    BY <2>6, NormalStop
  <2> QED
    BY <1>4, <2>1, <2>2, <2>3, <2>4, <2>5, <2>6 DEF Pass
<1> QED
  BY <1>1, <1>2, <1>3, <1>4 DEF Next

LEMMA StutterGood == IInv /\ UNCHANGED vars => Good
<1> SUFFICES ASSUME IInv, UNCHANGED vars PROVE Good
  OBVIOUS
<1>1. /\ UNCHANGED <<text, chain, pc, phase, resume_at, resume_dup,
                     resume_shadow, sig, range, trap_expected,
                     breakpoints_inserted, remove_following, stop_bp, unwound>>
  BY DEF vars, table, special, status
<1>2. TypeOK' /\ Marked(chain')
  BY <1>1 DEF IInv, TypeOK
<1>3. ~unwound => Orderly'
  BY <1>1 DEF IInv, Orderly, Out, In, Apart, Phased, Active
<1>4. \A a : Beneath(a)' = Beneath(a)
  BY <1>1, BeneathIs
<1> QED
  BY <1>1, <1>2, <1>3, <1>4 DEF Good, Damage, IInv

\* The inductive invariant holds in every state.
THEOREM Inductive == Spec => []IInv
<1>1. IInv /\ [Next]_vars => IInv'
  BY NextGood, StutterGood DEF Good
<1> QED
  BY InitInv, <1>1, PTL DEF Spec

\* The types hold, whatever the table has been through, with every index in
\* the table: a stop names a breakpoint that is there.
THEOREM TypeCorrect == Spec => []TypeOK
<1>1. IInv => TypeOK
  BY DEF IInv
<1> QED
  BY Inductive, <1>1, PTL

\* check_duplicates leaves one breakpoint to insert at every address.
THEOREM OneIsFirst == Spec => []OneFirst
<1>1. IInv => OneFirst
  <2> SUFFICES ASSUME IInv, NEW a \in Addr
               PROVE  /\ Cardinality(FirstAt(chain, a)) =< 1
                      /\ EnabledAt(chain, a) # {} /\ FirstAt(chain, a) = {} =>
                           \E i \in DOMAIN chain :
                             chain[i].address = a /\ chain[i].enable = "disabled"
    BY DEF OneFirst, FirstAt
  <2>1. MarkedAt(chain, a)
    BY DEF IInv, Marked
  <2>2. CASE FirstAt(chain, a) = {}
    BY <2>1, <2>2, FS_EmptySet DEF MarkedAt
  <2>3. CASE FirstAt(chain, a) # {}
    <3>1. PICK i \in FirstAt(chain, a) : TRUE
      BY <2>3
    <3>2. FirstAt(chain, a) = {i}
      BY <3>1, <2>1 DEF MarkedAt
    <3>3. Cardinality({i}) = 1
      BY FS_Singleton
    <3> QED
      BY <2>3, <3>2, <3>3
  <2> QED
    BY <2>2, <2>3
<1> QED
  BY Inductive, <1>1, PTL

\* Until rerr ends a command, no breakpoint instruction is left in the
\* program at the prompt.
THEOREM PromptIsClean == Spec => []CleanPrompt
<1>1. IInv => CleanPrompt
  BY DEF IInv, Orderly, Phased, Out, Clean, CleanPrompt
<1> QED
  BY Inductive, <1>1, PTL

\* Until then, the program never runs past a breakpoint that is to be in, nor
\* past the end of the call that is stepped over, be it marked by the special
\* breakpoint or by one of the table: only where every enabled breakpoint of
\* the table is marked as a duplicate is there no trap (CallEndIsArmed).
THEOREM RunsArmed == Spec => []Armed
<1>1. IInv => Armed
  <2> SUFFICES ASSUME IInv, phase = "running", ~unwound
               PROVE  Armed
    BY DEF Armed
  <2>1. Apart /\ In /\ breakpoints_inserted
    BY DEF IInv, Orderly, Phased
  <2>2. ASSUME NEW i \in DOMAIN chain,
               chain[i].enable # "disabled", ~chain[i].duplicate
        PROVE  text[chain[i].address] = Trap
    BY <2>1, <2>2 DEF In, Shadowed
  <2>3. ASSUME resume_at # NoAddr, text[resume_at] # Trap
        PROVE  Orphaned(resume_at)
    <3>1. resume_dup
      BY <2>1, <2>3 DEF In, Active
    <3>2. EnabledAt(chain, resume_at) # {}
      BY <2>1, <2>3, <3>1 DEF Apart
    <3>3. \A i \in EnabledAt(chain, resume_at) : chain[i].duplicate
      BY <2>2, <2>3 DEF EnabledAt
    <3> QED
      BY <3>2, <3>3 DEF Orphaned
  <2> QED
    BY <2>2, <2>3 DEF Armed
<1> QED
  BY Inductive, <1>1, PTL

\* Until then, every shadow is put back where and when it belongs.
THEOREM ShadowsReturn == Spec => OnlyPhantomsDamage
<1>1. IInv /\ [Next]_vars =>
        [~unwound' =>
           \/ phase = "prompt" /\ \A a \in Addr : text'[a] = a
           \/ \A a \in Addr :
                \/ Beneath(a)' = Beneath(a)
                \/ phase \in {"stop", "prompt"} /\ Phantom /\ a = resume_at]_vars
  BY NextGood DEF Good, Damage
<1> QED
  BY Inductive, <1>1, PTL DEF Spec, OnlyPhantomsDamage
=============================================================================
