---------------------------- MODULE MemoryProofs ----------------------------
(***************************************************************************)
(* Module Cow implements module ForkMem: copy-on-write, the page faults it *)
(* causes and the page by page construction of a child cannot be told from *)
(* memory that is copied at once.                                          *)
(*                                                                         *)
(* The invariant of CowProofs says who may write a page.  Here is needed   *)
(* besides what the child of a fork has so far (Copying), and that the new *)
(* page of a page fault holds what the old one does when it takes its      *)
(* place (Duplicated).                                                     *)
(***************************************************************************)
EXTENDS CowProofs

\* The loop of fork() is past page va, or between the two calls for it.
Reached(e, va) ==
  \/ call[e].at \in {"read", "child", "own"} => va < call[e].pn
  \/ call[e].at = "own" /\ va = call[e].pn

\* Both have the page or neither has; it is the same page, unless the parent has
\* got a new one by writing its stack.
Alike(e, c, va) ==
  /\ pt[e][va] = NULL <=> pt[c][va] = NULL
  /\ pt[e][va] # NULL =>
       /\ pt[e][va].tag = "share" <=> pt[c][va].tag = "share"
       /\ pt[e][va].tag = "share" \/ va \notin Stack => pt[c][va].page = pt[e][va].page

Copying(e, c) ==
  call[e].at \in Forking /\ call[e].child = c =>
    \A va \in Vas : /\ Reached(e, va) => Alike(e, c, va)
                    /\ ~Reached(e, va) => pt[c][va] = NULL

\* In fork() a program faults on its stack only.
OnStack(e) == pf[e].at # "none" /\ call[e].at \in Forking => pf[e].pn \in Stack

Duplicated(e) ==
  pf[e].at = "map" => data[pt[e][PFTEMP].page] = data[pt[e][pf[e].pn].page]

\* The invariant.
MemInv ==
  /\ Inv
  /\ \A e \in Envs : OnStack(e) /\ Duplicated(e)
  /\ \A e, c \in Envs : Copying(e, c)
-----------------------------------------------------------------------------
(* What is common to the steps. *)

\* No page that is mapped changes.
KeepsPages ==
  \A f \in Envs, a \in Pns : pt[f][a] # NULL => data'[pt[f][a].page] = data[pt[f][a].page]

\* No page below the stack's top changes that is mapped, and none that the fault
\* handler of another environment is copying.
KeepsVas ==
  \A f \in Envs, va \in Vas : pt[f][va] # NULL => data'[pt[f][va].page] = data[pt[f][va].page]

KeepsCopies(e) ==
  \A f \in Envs : f # e /\ pf[f].at = "map" =>
    /\ data'[pt[f][PFTEMP].page] = data[pt[f][PFTEMP].page]
    /\ data'[pt[f][pf[f].pn].page] = data[pt[f][pf[f].pn].page]

LEMMA KeepsBoth ==
  ASSUME Inv, KeepsPages, NEW e \in Envs
  PROVE  KeepsVas /\ KeepsCopies(e)
<1>1. PFTEMP \in Pns /\ (\A b \in Vas : b \in Pns) /\ \A f \in Envs : Handling(f)
  BY PageNumbers, Zenon DEF Inv
<1>2. KeepsVas
  BY <1>1, Zenon DEF KeepsPages, KeepsVas
<1>3. KeepsCopies(e)
  BY <1>1, Zenon DEF Handling, Own, KeepsPages, KeepsCopies
<1> QED BY <1>2, <1>3, Zenon

LEMMA SameData ==
  ASSUME data' = data, NEW e \in Envs
  PROVE  KeepsPages /\ KeepsVas /\ KeepsCopies(e)
  BY Zenon DEF KeepsPages, KeepsVas, KeepsCopies

LEMMA FreshPage ==
  ASSUME Inv, NEW p \in Pages, Free(p), NEW v, data' = [data EXCEPT ![p] = v]
  PROVE  KeepsPages /\ data'[p] = v
<1>1. \A q \in Pages : q # p => data'[q] = data[q]
  BY Zenon DEF Inv, TypeOK
<1>2. \A f \in Envs, a \in Pns : pt[f][a] # NULL => pt[f][a].page \in Pages
  BY DEF Inv, TypeOK, Ptes
<1>3. data'[p] = v
  BY Zenon DEF Inv, TypeOK
<1> QED BY <1>1, <1>2, <1>3, Zenon DEF KeepsPages, Free

\* What the fault handler copies, and where to, cannot be written from elsewhere.
LEMMA HandlerAlone ==
  ASSUME Inv, NEW e \in Envs, pf[e].at = "map",
         NEW f \in Envs, f # e, NEW a \in Pns, pt[f][a] # NULL, pt[f][a].w
  PROVE  /\ pt[f][a].page # pt[e][PFTEMP].page
         /\ pt[f][a].page # pt[e][pf[e].pn].page
<1>1. Handling(e) /\ Quiet(e) /\ Parent(f) /\ Isolation /\ Handling(f)
  BY Zenon DEF Inv
<1>2. /\ pf[e].pn \in Pns /\ PFTEMP \in Pns
      /\ Own(pt[e][PFTEMP]) /\ pt[e][pf[e].pn] # NULL /\ pt[e][pf[e].pn].tag = "cow"
  BY <1>1, PageNumbers, Zenon DEF Handling
<1>3. env_status[e] = "run"
  BY <1>1, Zenon DEF Quiet
<1>4. call[f].child # e
  BY <1>1, <1>3, CowAssumption, Zenon DEF Parent
<1>5. ASSUME NEW b \in Pns, pt[e][b] # NULL, pt[e][b].tag # "share", b # UTEMP
      PROVE  pt[f][a].page # pt[e][b].page
  <2>1. pt[f][a].page = pt[e][b].page => Excused(f, a, e, b)
    BY <1>1, <1>5, IsolationForm, Zenon
  <2>2. ~Given(f, e, b)
    BY <1>4, Zenon DEF Given
  <2> QED BY <1>4, <1>5, <2>1, <2>2, Zenon DEF Excused, InWindow
<1>6. pf[e].pn # UTEMP /\ PFTEMP # UTEMP
  BY <1>1, PageNumbers, Zenon DEF Handling
<1> QED BY <1>2, <1>5, <1>6, Zenon DEF Own

LEMMA SameCopying ==
  ASSUME NEW e \in Envs, NEW c \in Envs, Copying(e, c),
         call'[e].at \in Forking /\ call'[e].child = c =>
           call[e].at \in Forking /\ call[e].child = c,
         \A va \in Vas : /\ pt'[e][va] = pt[e][va] /\ pt'[c][va] = pt[c][va]
                         /\ Reached(e, va)' <=> Reached(e, va)
  PROVE  Copying(e, c)'
<1>1. \A va \in Vas : Alike(e, c, va)' <=> Alike(e, c, va)
  BY Zenon DEF Alike
<1> QED BY <1>1, Zenon DEF Copying

\* A step of e in which only the child c of e, if it has one or gets one, changes
\* besides e.
StepBy(e, c) ==
  /\ c # e /\ env_status[e] = "run"
  /\ call[e].child \in {NULL, c} /\ call'[e].child \in {NULL, c}
  /\ c # NULL => /\ \A f \in Envs : f # e => call[f].child # c
                 /\ call[c].child = NULL /\ call'[c].child = NULL
                 /\ call'[c].at = "none" /\ pf'[c].at = "none"
  /\ \A f \in Envs : f # e /\ f # c => Untouched(f)

LEMMA MemStep ==
  ASSUME MemInv, Inv', NEW e \in Envs, NEW c \in Envs \cup {NULL}, StepBy(e, c),
         KeepsCopies(e), \A d \in Envs : Copying(e, d)', OnStack(e)', Duplicated(e)'
  PROVE  MemInv'
<1> USE DEF StepBy, KeepsCopies
<1>1. ASSUME NEW f \in Envs, f # e, f # c
      PROVE  OnStack(f)' /\ Duplicated(f)' /\ \A d \in Envs : Copying(f, d)'
  <2>1. Untouched(f) /\ OnStack(f) /\ Duplicated(f) /\ Parent(f)
    BY <1>1, Zenon DEF MemInv, Inv
  <2>2. OnStack(f)' /\ Duplicated(f)'
    BY <1>1, <2>1, ZenonT(40) DEF Untouched, OnStack, Duplicated
  <2>3. ASSUME NEW d \in Envs PROVE Copying(f, d)'
    <3>1. SUFFICES ASSUME call[f].child = d PROVE Copying(f, d)'
      BY <2>1, Zenon DEF Copying, Untouched
    <3>2. d # e /\ d # c /\ Copying(f, d)
      BY <1>1, <2>1, <3>1, CowAssumption, Zenon DEF Parent, MemInv
    <3>3. Untouched(d)
      BY <3>2, Zenon
    <3>4. pt'[f] = pt[f] /\ pt'[d] = pt[d] /\ call'[f] = call[f]
      BY <2>1, <3>3, Zenon DEF Untouched
    <3>5. \A va \in Vas : Reached(f, va)' <=> Reached(f, va)
      BY <3>4, Zenon DEF Reached
    <3> QED BY <3>2, <3>4, <3>5, SameCopying, Zenon
  <2> QED BY <2>2, <2>3, Zenon
<1>2. ASSUME c # NULL PROVE OnStack(c)' /\ Duplicated(c)' /\ \A d \in Envs : Copying(c, d)'
  BY <1>2, Zenon DEF Copying, OnStack, Duplicated, Forking
<1> QED BY <1>1, <1>2, CowAssumption, Zenon DEF MemInv
-----------------------------------------------------------------------------
(* The memory a program sees, in the states of the invariant. *)

How(m) == IF call[m].at \in Spawning THEN "spawn" ELSE "fork"
NoMaker == [by |-> NULL, how |-> "none"]

MakersKnown ==
  \A c \in Envs :
    /\ \A m \in Envs : call[m].child = c => maker[c] = [by |-> m, how |-> How(m)]
    /\ (\A m \in Envs : call[m].child # c) => maker[c] = NoMaker

\* The page at va is in the parent's hands only, or in nobody's.
Hidden(f, va) ==
  \/ pt[f][va] = NULL
  \/ env_status[f] = "making" /\ \A m \in Envs : call[m].child # f
  \/ \E m \in Envs : call[m].child = f /\ InWindow(m, f, va)

Seen(f, va) == data[pt[f][va].page]
Group(f, va) == IF pt[f][va].tag = "share" THEN pt[f][va].page ELSE NULL

ViewsKnown ==
  \A f \in Envs, va \in Vas :
    /\ Hidden(f, va) => view[f][va] = NULL /\ group[f][va] = NULL
    /\ ~Hidden(f, va) => view[f][va] = Seen(f, va) /\ group[f][va] = Group(f, va)

LEMMA MadeBy ==
  ASSUME Inv, NEW c \in Envs
  PROVE  /\ \A m \in Envs : m \in Made(c) <=> call[m].child = c
         /\ \A m \in Envs : call[m].child = c => Made(c) = {m}
<1>1. \A m \in Envs : m \in Made(c) <=> call[m].child = c
  BY CowAssumption, Zenon DEF Inv, Quiet, Made
<1>2. ASSUME NEW m \in Envs, call[m].child = c PROVE Made(c) = {m}
  <2>1. \A n \in Envs : call[n].child = c => n = m
    BY <1>2, CowAssumption, Zenon DEF Inv, Parent
  <2>2. \A n : n \in Made(c) <=> n = m
    BY <1>1, <1>2, <2>1, Zenon DEF Made
  <2> QED BY <2>2, Zenon
<1> QED BY <1>1, <1>2, Zenon

LEMMA Makers == Inv => MakersKnown
<1> SUFFICES ASSUME Inv, NEW c \in Envs
             PROVE  /\ \A m \in Envs : call[m].child = c => maker[c] = [by |-> m, how |-> How(m)]
                    /\ (\A m \in Envs : call[m].child # c) => maker[c] = NoMaker
  BY Zenon DEF MakersKnown
<1>1. ASSUME NEW m \in Envs, call[m].child = c PROVE maker[c] = [by |-> m, how |-> How(m)]
  <2>1. Made(c) = {m}
    BY <1>1, MadeBy, Zenon
  <2>2. m = CHOOSE e \in {m} : TRUE
    BY Zenon
  <2> QED BY <2>1, <2>2, Zenon DEF maker, How, Spawning
<1>2. ASSUME \A m \in Envs : call[m].child # c PROVE maker[c] = NoMaker
  <2>1. Made(c) = {}
    BY <1>2, Zenon DEF Made
  <2> QED BY <2>1, Zenon DEF maker, NoMaker
<1> QED BY <1>1, <1>2, Zenon

LEMMA Views == Inv => ViewsKnown
<1> SUFFICES ASSUME Inv, NEW f \in Envs, NEW va \in Vas
             PROVE  /\ Hidden(f, va) => view[f][va] = NULL /\ group[f][va] = NULL
                    /\ ~Hidden(f, va) => view[f][va] = Seen(f, va) /\ group[f][va] = Group(f, va)
  BY Zenon DEF ViewsKnown
<1>a. \A m \in Envs : call[m].child = f => env_status[f] = "making"
  BY CowAssumption, Zenon DEF Inv, Parent
<1>1. \A m \in Envs : call[m].child = f => env_status[f] = "making" /\ Made(f) = {m}
  BY <1>a, MadeBy, Zenon
<1>2. \A m \in Envs : m \in Made(f) <=> call[m].child = f
  BY MadeBy, Zenon
<1>3. \A m \in Made(f) : m \in Envs
  BY Zenon DEF Made
<1>4. ASSUME NEW m \in Envs, call[m].child = f PROVE Hidden(f, va) <=> ~Visible(f, va)
  <2>1. \A n \in Envs : call[n].child = f => n = m
    BY <1>1, <1>2, <1>4, Zenon
  <2>2. env_status[f] = "making" /\ \A n : n \in Made(f) <=> n = m
    BY <1>1, <1>4, Zenon
  <2>3. Hidden(f, va) <=> pt[f][va] = NULL \/ InWindow(m, f, va)
    BY <1>4, <2>1, Zenon DEF Hidden
  <2>4. Visible(f, va) <=> pt[f][va] # NULL /\ ~InWindow(m, f, va)
    BY <2>2, Zenon DEF Visible
  <2> QED BY <2>3, <2>4, Zenon
<1>5. ASSUME \A m \in Envs : call[m].child # f PROVE Hidden(f, va) <=> ~Visible(f, va)
  BY <1>2, <1>3, <1>5, Zenon DEF Visible, Hidden
<1>6. Hidden(f, va) <=> ~Visible(f, va)
  BY <1>4, <1>5, Zenon
<1> QED BY <1>6, Zenon DEF view, group, Seen, Group

HiddenKnown ==
  \A f \in Envs, va \in Vas :
    /\ env_status[f] = "run" => (Hidden(f, va) <=> pt[f][va] = NULL)
    /\ \A m \in Envs :
         call[m].child = f => (Hidden(f, va) <=> pt[f][va] = NULL \/ InWindow(m, f, va))

LEMMA Hiding == Inv => HiddenKnown
<1> SUFFICES ASSUME Inv, NEW f \in Envs, NEW va \in Vas
             PROVE  /\ env_status[f] = "run" => (Hidden(f, va) <=> pt[f][va] = NULL)
                    /\ \A m \in Envs : call[m].child = f =>
                         (Hidden(f, va) <=> pt[f][va] = NULL \/ InWindow(m, f, va))
  BY Zenon DEF HiddenKnown
<1>1. \A m \in Envs : call[m].child = f => env_status[f] = "making"
  BY CowAssumption, Zenon DEF Inv, Parent
<1>2. \A m, n \in Envs : call[m].child = f /\ call[n].child = f => n = m
  BY CowAssumption DEF Inv, Parent
<1> QED BY <1>1, <1>2, Zenon DEF Hidden

LEMMA Known == Inv => ViewsKnown /\ MakersKnown /\ HiddenKnown
  BY Makers, Views, Hiding, Zenon

LEMMA KnownNext == Inv' => ViewsKnown' /\ MakersKnown' /\ HiddenKnown'
  BY Known, PTL

SameAt(f, va) == view'[f][va] = view[f][va] /\ group'[f][va] = group[f][va]

LEMMA Still ==
  ASSUME \A f \in Envs, va \in Vas : SameAt(f, va)
  PROVE  view' = view /\ group' = group
<1>1. view' = view
  BY Zenon DEF SameAt, view
<1>2. group' = group
  BY Zenon DEF SameAt, group
<1> QED BY <1>1, <1>2, Zenon

\* A family of address spaces that changes at one page.
LEMMA ChangeAt ==
  ASSUME NEW V, NEW W, NEW c \in Envs, NEW a \in Vas, NEW x,
         V = [f \in Envs |-> [va \in Vas |-> V[f][va]]],
         W = [f \in Envs |-> [va \in Vas |-> W[f][va]]],
         \A f \in Envs, va \in Vas : f # c \/ va # a => W[f][va] = V[f][va], W[c][a] = x
  PROVE  W = [V EXCEPT ![c][a] = x]
<1>1. ASSUME NEW f \in Envs, f # c PROVE W[f] = V[f]
  <2>1. W[f] = [va \in Vas |-> W[f][va]] /\ V[f] = [va \in Vas |-> V[f][va]]
    BY Zenon
  <2>2. \A va \in Vas : W[f][va] = V[f][va]
    BY <1>1, Zenon
  <2> QED BY <2>1, <2>2, Zenon
<1>2. W[c] = [V[c] EXCEPT ![a] = x]
  <2>1. W[c] = [va \in Vas |-> W[c][va]] /\ V[c] = [va \in Vas |-> V[c][va]]
    BY Zenon
  <2>2. \A va \in Vas : W[c][va] = IF va = a THEN x ELSE V[c][va]
    BY Zenon
  <2> QED BY <2>1, <2>2, Zenon
<1>3. W = [f \in Envs |-> W[f]] /\ V = [f \in Envs |-> V[f]]
  BY Zenon
<1> QED BY <1>1, <1>2, <1>3, Zenon

LEMMA Update ==
  ASSUME NEW c \in Envs, NEW a \in Vas, NEW x, NEW g,
         \A f \in Envs, va \in Vas : f # c \/ va # a => SameAt(f, va),
         view'[c][a] = x, group'[c][a] = g
  PROVE  view' = [view EXCEPT ![c][a] = x] /\ group' = [group EXCEPT ![c][a] = g]
<1>1. /\ view = [f \in Envs |-> [va \in Vas |-> view[f][va]]]
      /\ view' = [f \in Envs |-> [va \in Vas |-> view'[f][va]]]
      /\ group = [f \in Envs |-> [va \in Vas |-> group[f][va]]]
      /\ group' = [f \in Envs |-> [va \in Vas |-> group'[f][va]]]
  BY Zenon DEF view, group
<1>a. \A f \in Envs, va \in Vas :
        f # c \/ va # a => view'[f][va] = view[f][va] /\ group'[f][va] = group[f][va]
  BY Zenon DEF SameAt
<1> HIDE DEF view, group
<1>2. view' = [view EXCEPT ![c][a] = x]
  BY <1>1, <1>a, ChangeAt
<1>3. group' = [group EXCEPT ![c][a] = g]
  BY <1>1, <1>a, ChangeAt
<1> QED BY <1>2, <1>3, Zenon

LEMMA MakerStill ==
  ASSUME \A f \in Envs : maker'[f] = maker[f]
  PROVE  maker' = maker
  BY Zenon DEF maker

LEMMA MakerUpdate ==
  ASSUME NEW c \in Envs, NEW x, \A f \in Envs : f # c => maker'[f] = maker[f], maker'[c] = x
  PROVE  maker' = [maker EXCEPT ![c] = x]
  BY ZenonT(40) DEF maker

\* A page that is shown as before.
LEMMA SameHere ==
  ASSUME Inv, Inv', NEW f \in Envs, NEW va \in Vas, Hidden(f, va)' <=> Hidden(f, va),
         ~Hidden(f, va) => /\ Group(f, va)' = Group(f, va)
                           /\ Seen(f, va)' = Seen(f, va)
  PROVE  SameAt(f, va)
  BY Known, KnownNext, Zenon DEF ViewsKnown, SameAt

\* In a step of e, the memory of the environments that are neither e nor its child.
LEMMA Others ==
  ASSUME Inv, Inv', NEW e \in Envs, NEW c \in Envs \cup {NULL}, StepBy(e, c)
  PROVE  /\ maker[e] = NoMaker /\ maker'[e] = NoMaker
         /\ \A f \in Envs : f # e /\ f # c =>
              /\ maker'[f] = maker[f]
              /\ \A va \in Vas :
                   /\ Hidden(f, va)' <=> Hidden(f, va)
                   /\ (~Hidden(f, va) => data'[pt[f][va].page] = data[pt[f][va].page])
                        => SameAt(f, va)
<1> USE DEF StepBy
<1>1. ViewsKnown /\ MakersKnown /\ ViewsKnown' /\ MakersKnown'
  BY Known, KnownNext, Zenon
<1>2. \A m \in Envs : call[m].child # e /\ call'[m].child # e
  <2>1. \A m \in Envs : call[m].child # e
    BY CowAssumption DEF Inv, Parent
  <2> QED BY <2>1, CowAssumption, ZenonT(40) DEF Untouched
<1>3. maker[e] = NoMaker
  BY <1>1, <1>2, Zenon DEF MakersKnown
<1>4. maker'[e] = NoMaker
  BY <1>1, <1>2, Zenon DEF MakersKnown, NoMaker
<1>5. ASSUME NEW f \in Envs, f # e, f # c
      PROVE  /\ maker'[f] = maker[f]
             /\ \A va \in Vas :
                  /\ Hidden(f, va)' <=> Hidden(f, va)
                  /\ (~Hidden(f, va) => data'[pt[f][va].page] = data[pt[f][va].page])
                       => SameAt(f, va)
  <2>1. Untouched(f)
    BY <1>5, Zenon
  <2>2. \A m \in Envs : /\ call'[m].child = f <=> call[m].child = f
                        /\ call[m].child = f => Untouched(m)
    <3> SUFFICES ASSUME NEW m \in Envs
                 PROVE  /\ call'[m].child = f <=> call[m].child = f
                        /\ call[m].child = f => Untouched(m)
      BY Zenon
    <3>1. f # NULL /\ m # NULL
      BY CowAssumption, Zenon
    <3>2. m = e \/ m = c => call[m].child # f /\ call'[m].child # f
      BY <1>5, <3>1, Zenon
    <3>3. m # e /\ m # c => Untouched(m) /\ call'[m] = call[m]
      BY Zenon DEF Untouched
    <3> QED BY <3>2, <3>3, Zenon
  <2>3. maker'[f] = maker[f]
    <3>1. CASE \A m \in Envs : call[m].child # f
      <4>1. \A m \in Envs : call'[m].child # f
        BY <2>2, <3>1, Zenon
      <4>2. maker[f] = NoMaker
        BY <1>1, <3>1, Zenon DEF MakersKnown
      <4>3. maker'[f] = NoMaker
        BY <1>1, <4>1, Zenon DEF MakersKnown, NoMaker
      <4> QED BY <4>2, <4>3, Zenon
    <3>2. ASSUME NEW m \in Envs, call[m].child = f PROVE maker'[f] = maker[f]
      <4>1. call'[m].child = f /\ call'[m] = call[m]
        BY <2>2, <3>2, Zenon DEF Untouched
      <4>2. maker[f] = [by |-> m, how |-> How(m)]
        BY <1>1, <3>2, Zenon DEF MakersKnown
      <4>3. maker'[f] = [by |-> m, how |-> How(m)']
        BY <1>1, <4>1, Zenon DEF MakersKnown
      <4>4. How(m)' = How(m)
        BY <4>1, Zenon DEF How
      <4> QED BY <4>2, <4>3, <4>4, Zenon
    <3> QED BY <3>1, <3>2, Zenon
  <2>4. ASSUME NEW va \in Vas PROVE Hidden(f, va)' <=> Hidden(f, va)
    <3>1. \A m \in Envs : call[m].child = f => (InWindow(m, f, va)' <=> InWindow(m, f, va))
      BY <2>1, <2>2, ZenonT(60) DEF Untouched, InWindow
    <3> QED BY <2>1, <2>2, <3>1, Zenon DEF Hidden, Untouched
  <2>5. ASSUME NEW va \in Vas, ~Hidden(f, va) => data'[pt[f][va].page] = data[pt[f][va].page]
        PROVE  SameAt(f, va)
    <3>1. ~Hidden(f, va) => Group(f, va)' = Group(f, va) /\ Seen(f, va)' = Seen(f, va)
      BY <2>1, <2>5, Zenon DEF Untouched, Group, Seen
    <3> QED BY <2>4, <3>1, SameHere, Zenon
  <2> QED BY <2>3, <2>4, <2>5, Zenon
<1> QED BY <1>3, <1>4, <1>5, Zenon

LEMMA MakerBy ==
  ASSUME Inv, NEW c \in Envs, NEW e \in Envs
  PROVE  maker[c].by = e <=> call[e].child = c
<1>1. ASSUME NEW m \in Envs, call[m].child = c PROVE maker[c].by = m
  <2>1. maker[c] = [by |-> m, how |-> How(m)]
    BY <1>1, Known, Zenon DEF MakersKnown
  <2> QED BY <2>1
<1>2. ASSUME \A m \in Envs : call[m].child # c PROVE maker[c].by = NULL
  <2>1. maker[c] = NoMaker
    BY <1>2, Known, Zenon DEF MakersKnown
  <2> QED BY <2>1 DEF NoMaker
<1>3. e # NULL
  BY CowAssumption, Zenon
<1> QED BY <1>1, <1>2, <1>3, Zenon

\* Nobody begins or ends to make a child.
\* A program that makes a child in fork() is in it, and one in spawn() is not.
LEMMA InFork ==
  ASSUME Inv, NEW e \in Envs, NEW d \in Envs, maker[d] = [by |-> e, how |-> "fork"]
  PROVE  call[e].child = d /\ call[e].at \in Forking
<1>1. call[e].child = d
  BY MakerBy
<1>2. maker[d] = [by |-> e, how |-> How(e)]
  BY <1>1, Known, Zenon DEF MakersKnown
<1>3. call[e].at \notin Spawning
  BY <1>2 DEF How
<1>4. call[e].at # "none" /\ call[e] \in Call
  BY <1>1, CowAssumption, Zenon DEF Inv, TypeOK, Parent
<1> QED BY <1>1, <1>3, <1>4 DEF Call, Forking, Spawning

LEMMA SameMakers ==
  ASSUME Inv, Inv', NEW e \in Envs, NEW c \in Envs \cup {NULL}, StepBy(e, c),
         call'[e].child = call[e].child,
         call[e].child # NULL => (call'[e].at \in Spawning <=> call[e].at \in Spawning)
  PROVE  maker' = maker
<1>1. MakersKnown /\ MakersKnown'
  BY Known, KnownNext, Zenon
<1>2. ASSUME c # NULL PROVE maker'[c] = maker[c]
  <2>1. CASE call[e].child = c
    <3>1. maker[c] = [by |-> e, how |-> How(e)]
      BY <1>1, <1>2, <2>1, Zenon DEF MakersKnown
    <3>2. maker'[c] = [by |-> e, how |-> How(e)']
      BY <1>1, <1>2, <2>1, Zenon DEF MakersKnown
    <3>3. How(e)' = How(e)
      BY <1>2, <2>1, Zenon DEF How
    <3> QED BY <3>1, <3>2, <3>3, Zenon
  <2>2. CASE call[e].child # c
    <3>1. \A m \in Envs : call[m].child # c
      BY <1>2, <2>2, Zenon DEF StepBy
    <3>2. \A m \in Envs : m # e /\ m # c => call'[m].child # c
      BY <1>2, <3>1, Zenon DEF StepBy, Untouched
    <3>3. \A m \in Envs : call'[m].child # c
      BY <1>2, <2>2, <3>2, Zenon DEF StepBy
    <3>4. maker[c] = NoMaker
      BY <1>1, <1>2, <3>1, Zenon DEF MakersKnown
    <3>5. maker'[c] = NoMaker
      BY <1>1, <1>2, <3>3, Zenon DEF MakersKnown, NoMaker
    <3> QED BY <3>4, <3>5, Zenon
  <2> QED BY <2>1, <2>2, Zenon
<1>3. \A f \in Envs : f # c => maker'[f] = maker[f]
  BY Others, ZenonT(60)
<1>4. \A f \in Envs : maker'[f] = maker[f]
  BY <1>2, <1>3, CowAssumption, Zenon
<1> QED BY <1>4, MakerStill, Zenon

LEMMA StepWithChild ==
  ASSUME Inv, NEW e \in Envs, env_status[e] = "run", NEW c, c = call[e].child,
         call'[e].child \in {NULL, c},
         \A f \in Envs : f # e => call'[f] = call[f] /\ pf'[f] = pf[f],
         \A f \in Envs : f # e /\ f # c =>
           pt'[f] = pt[f] /\ upcall'[f] = upcall[f] /\ env_status'[f] = env_status[f]
  PROVE  c \in Envs \cup {NULL} /\ StepBy(e, c)
<1>1. call[e] \in Call /\ Parent(e)
  BY Zenon DEF Inv, TypeOK
<1>2. c \in Envs \cup {NULL}
  BY <1>1, Zenon DEF Call
<1>3. c # NULL => /\ c \in Envs /\ env_status[c] = "making" /\ c # e
                  /\ \A f \in Envs : f # e => call[f].child # c
  BY <1>1, <1>2, Zenon DEF Parent
<1>4. c # NULL => Quiet(c)
  BY <1>3, Zenon DEF Inv
<1>5. c # NULL => call[c].child = NULL /\ call[c].at = "none" /\ pf[c].at = "none"
  BY <1>3, <1>4, Zenon DEF Quiet
<1>6. c # NULL => call'[c] = call[c] /\ pf'[c] = pf[c]
  BY <1>3, Zenon
<1>7. \A f \in Envs : f # e /\ f # c => Untouched(f)
  BY Zenon DEF Untouched
<1>8. c # e
  BY <1>3, CowAssumption, Zenon
<1> QED BY <1>2, <1>3, <1>5, <1>6, <1>7, <1>8, Zenon DEF StepBy

\* Steps of ForkMem.
LEMMA AbstractSteps ==
  /\ \A e \in Envs, va \in Vas, v \in Values :
       Memory!Write(e, va, v) \/ Memory!Load(e, va, v) => Memory!Next
  /\ \A e \in Envs, va \in Vas, g \in Pages \cup {NULL} : Memory!Alloc(e, va, g) => Memory!Next
  /\ \A e \in Envs, va \in Vas : Memory!Unmap(e, va) => Memory!Next
  /\ \A e, c \in Envs, va \in Vas : Memory!Copy(e, c, va) => Memory!Next
  /\ \A e, c \in Envs, how \in {"fork", "spawn"} : Memory!Make(e, c, how) => Memory!Next
  /\ \A e \in Envs : Memory!Start(e) \/ Memory!GiveUp(e) \/ Memory!Exit(e) => Memory!Next
  BY Zenon DEF Memory!Next

\* The promise of ForkMem about one step, and the invariant after it.
Kept == MemInv' /\ [Memory!Next]_(Memory!vars)

LEMMA Stutters ==
  ASSUME MemInv', view' = view, group' = group, env_status' = env_status, maker' = maker
  PROVE  Kept
  BY Zenon DEF Kept, Memory!vars

LEMMA Steps ==
  ASSUME MemInv', Memory!Next
  PROVE  Kept
  BY Zenon DEF Kept

\* What a page that is shown holds.
LEMMA Shown ==
  ASSUME Inv, NEW f \in Envs, NEW va \in Vas, ~Hidden(f, va)
  PROVE  /\ pt[f][va] # NULL /\ pt[f][va].page \in Pages
         /\ view[f][va] = data[pt[f][va].page] /\ view[f][va] # NULL
         /\ group[f][va] = IF pt[f][va].tag = "share" THEN pt[f][va].page ELSE NULL
<1>1. pt[f][va] # NULL
  BY Zenon DEF Hidden
<1>2. pt[f][va].page \in Pages
  BY <1>1, PageNumbers DEF Inv, TypeOK, Ptes
<1>3. data[pt[f][va].page] \in Values
  BY <1>2, Zenon DEF Inv, TypeOK
<1>4. view[f][va] = data[pt[f][va].page]
  BY Known, Zenon DEF ViewsKnown, Seen
<1>5. group[f][va] = IF pt[f][va].tag = "share" THEN pt[f][va].page ELSE NULL
  BY Known, Zenon DEF ViewsKnown, Group
<1> QED BY <1>1, <1>2, <1>3, <1>4, <1>5, CowAssumption, Zenon
-----------------------------------------------------------------------------
(* User code. *)

LEMMA WriteMem ==
  ASSUME MemInv, NEW e \in Envs, NEW va \in Vas, NEW v \in Values, Write(e, va, v)
  PROVE  Kept
<1> DEFINE p == pt[e][va].page
<1>1. Inv /\ Inv' /\ va \in Pns /\ Runs(e) /\ (call[e].at \in Forking => va \in Stack)
  BY WriteInv, PageNumbers, Zenon DEF MemInv, Write, MayWrite
<1>2. /\ pt[e][va] # NULL /\ pt[e][va].w /\ data' = [data EXCEPT ![p] = v]
      /\ UNCHANGED <<pt, env_status, upcall, call, pf>>
  BY Zenon DEF Write, CanWrite
<1>3. env_status[e] = "run" /\ pf[e].at = "none" /\ Parent(e)
  BY <1>1, Actor, Zenon
<1>4. p \in Pages
  BY <1>1, <1>2 DEF Inv, TypeOK, Ptes
<1>5. data'[p] = v /\ \A q \in Pages : q # p => data'[q] = data[q]
  BY <1>1, <1>2, <1>4, Zenon DEF Inv, TypeOK
<1> HIDE DEF p
<1>6. PICK c : c = call[e].child
  BY Zenon
<1>7. c \in Envs \cup {NULL} /\ StepBy(e, c)
  BY <1>1, <1>2, <1>3, <1>6, StepWithChild, Zenon
<1>8. MemInv'
  <2>1. \A d \in Envs : Copying(e, d)'
    <3>1. \A b \in Vas : Reached(e, b)' <=> Reached(e, b)
      BY <1>2, Zenon DEF Reached
    <3> QED BY <1>2, <3>1, SameCopying, Zenon DEF MemInv
  <2>2. OnStack(e)' /\ Duplicated(e)'
    BY <1>2, <1>3, Zenon DEF OnStack, Duplicated
  <2>3. KeepsCopies(e)
    <3> SUFFICES ASSUME NEW f \in Envs, f # e, pf[f].at = "map"
                 PROVE  /\ data'[pt[f][PFTEMP].page] = data[pt[f][PFTEMP].page]
                        /\ data'[pt[f][pf[f].pn].page] = data[pt[f][pf[f].pn].page]
      BY Zenon DEF KeepsCopies
    <3>1. p # pt[f][PFTEMP].page /\ p # pt[f][pf[f].pn].page
      BY <1>1, <1>2, HandlerAlone, Zenon DEF p
    <3>2. Handling(f) /\ PFTEMP \in Pns /\ \A b \in Vas : b \in Pns
      BY <1>1, PageNumbers, Zenon DEF Inv
    <3>3. pt[f][PFTEMP].page \in Pages /\ pt[f][pf[f].pn].page \in Pages
      BY <1>1, <3>2 DEF Inv, TypeOK, Ptes, Handling, Own
    <3> QED BY <1>5, <3>1, <3>3, Zenon
  <2> QED BY <1>1, <1>7, <2>1, <2>2, <2>3, MemStep, Zenon
<1>9. maker' = maker
  BY <1>1, <1>2, <1>7, SameMakers, Zenon
<1>10. ASSUME NEW f \in Envs, NEW b \in Vas
       PROVE  Hidden(f, b)' <=> Hidden(f, b)
  BY <1>2, Zenon DEF Hidden, InWindow
<1>11. ~Hidden(e, va)
  BY <1>1, <1>2, <1>3, Known, Zenon DEF HiddenKnown
<1>12. ASSUME NEW f \in Envs, NEW b \in Vas
       PROVE  /\ view'[f][b] = IF Memory!Shares(e, va, f, b) THEN v ELSE view[f][b]
              /\ group'[f][b] = group[f][b]
  <2>1. group[e][va] = IF pt[e][va].tag = "share" THEN p ELSE NULL
    BY <1>1, <1>11, Shown, Zenon DEF p
  <2>2. CASE Hidden(f, b)
    <3>1. view[f][b] = NULL /\ group[f][b] = NULL /\ view'[f][b] = NULL /\ group'[f][b] = NULL
      BY <1>1, <1>10, <2>2, Known, KnownNext, Zenon DEF ViewsKnown
    <3>2. f # e \/ b # va
      BY <1>11, <2>2, Zenon
    <3>3. ~Memory!Shares(e, va, f, b)
      BY <3>1, <3>2, Zenon DEF Memory!Shares
    <3> QED BY <3>1, <3>3, Zenon
  <2>3. CASE ~Hidden(f, b)
    <3>1. /\ pt[f][b] # NULL /\ pt[f][b].page \in Pages /\ view[f][b] = data[pt[f][b].page]
          /\ group[f][b] = IF pt[f][b].tag = "share" THEN pt[f][b].page ELSE NULL
      BY <1>1, <2>3, Shown, Zenon
    <3>2. view'[f][b] = data'[pt[f][b].page] /\ group'[f][b] = Group(f, b)'
      BY <1>1, <1>2, <1>10, <2>3, KnownNext, ZenonT(40) DEF ViewsKnown, Seen
    <3>3. group'[f][b] = group[f][b]
      BY <1>2, <3>1, <3>2, Zenon DEF Group
    <3>4. CASE f = e /\ b = va
      BY <1>5, <3>2, <3>3, <3>4, Zenon DEF Memory!Shares, p
    <3>5. CASE pt[f][b].page # p
      <4>1. ~Memory!Shares(e, va, f, b)
        BY <2>1, <3>1, <3>5, CowAssumption, Zenon DEF Memory!Shares, p
      <4> QED BY <1>5, <3>1, <3>2, <3>3, <3>5, <4>1, Zenon
    <3>6. CASE pt[f][b].page = p /\ (f # e \/ b # va)
      <4>1. b \in Pns /\ Isolation
        BY <1>1, PageNumbers, Zenon DEF Inv
      <4>2. Excused(e, va, f, b)
        BY <1>1, <1>2, <3>1, <3>6, <4>1, IsolationForm, Zenon DEF p
      <4>3. ~InWindow(e, f, va) \/ b # va
        BY <2>3, Zenon DEF Hidden, InWindow
      <4>4. pt[e][va].tag = "share" /\ pt[f][b].tag = "share"
        BY <1>3, <4>2, <4>3, PageNumbers, Zenon DEF Excused
      <4>5. Memory!Shares(e, va, f, b)
        BY <1>4, <2>1, <3>1, <3>6, <4>4, CowAssumption, Zenon DEF Memory!Shares
      <4> QED BY <1>5, <3>2, <3>3, <3>6, <4>5, Zenon
    <3> QED BY <3>4, <3>5, <3>6, Zenon
  <2> QED BY <2>2, <2>3, Zenon
<1>13. group' = group
  BY <1>12, Zenon DEF group
<1>14. view' = [f \in Envs |-> [b \in Vas |-> IF Memory!Shares(e, va, f, b) THEN v ELSE view[f][b]]]
  <2>1. view' = [f \in Envs |-> [b \in Vas |-> view'[f][b]]]
    BY Zenon DEF view
  <2> QED BY <1>12, <2>1, Zenon
<1>15. \A d \in Envs : maker[d] = [by |-> e, how |-> "fork"] => va \in Stack
  <2>1. \A d \in Envs : maker[d] = [by |-> e, how |-> "fork"] => call[e].child = d
    BY <1>1, MakerBy
  <2> QED BY <1>1, <2>1, InFork, Zenon
<1>16. Memory!Write(e, va, v)
  BY <1>1, <1>2, <1>3, <1>9, <1>11, <1>13, <1>14, <1>15, Shown, Zenon DEF Memory!Write
<1> QED BY <1>8, <1>16, AbstractSteps, Steps, Zenon

\* Pages of e itself, and of its child, that are shown as before.
LEMMA SameSelf ==
  ASSUME Inv, Inv', NEW e \in Envs, env_status[e] = "run", env_status'[e] = "run",
         NEW b \in Vas, pt'[e][b] = pt[e][b],
         pt[e][b] # NULL => data'[pt[e][b].page] = data[pt[e][b].page]
  PROVE  SameAt(e, b)
<1>1. Hidden(e, b) <=> pt[e][b] = NULL
  BY Known, Zenon DEF HiddenKnown
<1>2. Hidden(e, b)' <=> pt[e][b] = NULL
  BY KnownNext, Zenon DEF HiddenKnown
<1>3. ~Hidden(e, b) => Group(e, b)' = Group(e, b) /\ Seen(e, b)' = Seen(e, b)
  BY <1>1, Zenon DEF Group, Seen
<1> QED BY <1>1, <1>2, <1>3, SameHere, Zenon

LEMMA SameChild ==
  ASSUME Inv, Inv', NEW e \in Envs, NEW c \in Envs, call[e].child = c, call'[e].child = c,
         NEW b \in Vas, pt'[c][b] = pt[c][b], InWindow(e, c, b)' <=> InWindow(e, c, b),
         pt[c][b] # NULL => data'[pt[c][b].page] = data[pt[c][b].page]
  PROVE  SameAt(c, b)
<1>1. Hidden(c, b) <=> pt[c][b] = NULL \/ InWindow(e, c, b)
  BY Known, Zenon DEF HiddenKnown
<1>2. Hidden(c, b)' <=> pt'[c][b] = NULL \/ InWindow(e, c, b)'
  BY KnownNext, Zenon DEF HiddenKnown
<1>3. ~Hidden(c, b) => Group(c, b)' = Group(c, b) /\ Seen(c, b)' = Seen(c, b)
  BY <1>1, Zenon DEF Group, Seen
<1> QED BY <1>1, <1>2, <1>3, SameHere, Zenon

\* A step after which e is in no fork() and in no fault handler.
LEMMA Settled ==
  ASSUME NEW e \in Envs, call'[e].at \notin Forking, pf'[e].at = "none"
  PROVE  OnStack(e)' /\ Duplicated(e)' /\ \A d \in Envs : Copying(e, d)'
  BY Zenon DEF OnStack, Duplicated, Copying

LEMMA EnvFreeMem ==
  ASSUME MemInv, NEW e \in Envs, env_status[e] = "run", EnvFree(e)
  PROVE  Kept
<1>1. Inv /\ Inv'
  BY EnvFreeInv, Zenon DEF MemInv
<1>2. /\ \A pn \in Pns : pt'[e][pn] = NULL
      /\ env_status'[e] = "free" /\ call'[e].at = "none" /\ call'[e].child = NULL
      /\ pf'[e].at = "none" /\ data' = data
      /\ env_status' = [env_status EXCEPT ![e] = "free"]
      /\ \A f \in Envs : f # e => Untouched(f)
  BY <1>1 DEF Inv, TypeOK, EnvFree, Untouched, Empty, Idle, NoFault
<1>3. PICK c : c = call[e].child
  BY Zenon
<1>4. c \in Envs \cup {NULL} /\ StepBy(e, c)
  BY <1>1, <1>2, <1>3, StepWithChild, Zenon DEF Untouched
<1>5. MemInv'
  BY <1>1, <1>2, <1>4, MemStep, Settled, SameData, Zenon DEF Forking
<1>6. ASSUME NEW f \in Envs
      PROVE  (f = e \/ maker[f].by = e) <=> (f = e \/ f = c)
  BY <1>1, <1>3, MakerBy, ZenonT(60)
<1>7. ASSUME NEW f \in Envs, f # e, f # c
      PROVE  maker'[f] = maker[f] /\ \A va \in Vas : SameAt(f, va)
  BY <1>1, <1>2, <1>4, <1>7, Others, Zenon
<1>8. ASSUME NEW f \in Envs, f = e \/ f = c, NEW va \in Vas
      PROVE  view'[f][va] = NULL /\ group'[f][va] = NULL
  <2>1. CASE f = e
    <3>1. Hidden(e, va)'
      BY <1>2, PageNumbers, Zenon DEF Hidden
    <3> QED BY <1>1, <2>1, <3>1, KnownNext, Zenon DEF ViewsKnown
  <2>2. CASE f = c
    <3>1. c # NULL /\ c # e /\ \A m \in Envs : m # e => call[m].child # c
      BY <1>4, <2>2, CowAssumption, Zenon DEF StepBy
    <3>2. \A m \in Envs : call'[m].child # c
      BY <1>2, <3>1, Zenon DEF Untouched
    <3>3. env_status[c] = "making"
      BY <1>1, <1>3, <3>1, Zenon DEF Inv, Parent
    <3>4. env_status'[c] = "making"
      BY <1>2, <2>2, <3>1, <3>3, Zenon DEF Untouched
    <3>5. Hidden(c, va)'
      BY <3>2, <3>4, Zenon DEF Hidden
    <3> QED BY <1>1, <2>2, <3>5, KnownNext, Zenon DEF ViewsKnown
  <2> QED BY <1>8, <2>1, <2>2, Zenon
<1>9. ASSUME NEW f \in Envs, f = e \/ f = c PROVE maker'[f] = NoMaker
  <2>1. f # NULL /\ \A m \in Envs : call[m].child # e
    BY <1>1, CowAssumption DEF Inv, Parent
  <2>2. f = c => \A m \in Envs : m # e => call[m].child # f
    BY <1>4, <2>1, Zenon DEF StepBy
  <2>3. \A m \in Envs : m # e => call'[m] = call[m]
    BY <1>2, Zenon DEF Untouched
  <2>4. \A m \in Envs : call'[m].child # f
    BY <1>2, <1>9, <2>1, <2>2, <2>3, Zenon
  <2> QED BY <1>1, <2>4, KnownNext, Zenon DEF MakersKnown, NoMaker
<1> DEFINE gone == {e} \cup {d \in Envs : maker[d].by = e}
<1>10. \A f \in Envs : f \in gone <=> f = e \/ f = c
  BY <1>6, Zenon
<1> HIDE DEF gone
<1>11. view' = [f \in Envs |-> IF f \in gone THEN Memory!None ELSE view[f]]
  <2>1. view' = [f \in Envs |-> [va \in Vas |-> view'[f][va]]]
    BY Zenon DEF view
  <2>2. \A f \in Envs : view[f] = [va \in Vas |-> view[f][va]]
    BY Zenon DEF view
  <2>3. \A f \in Envs : [va \in Vas |-> view'[f][va]] = IF f \in gone THEN Memory!None ELSE view[f]
    BY <1>7, <1>8, <1>10, <2>2, Zenon DEF Memory!None, SameAt
  <2> QED BY <2>1, <2>3, Zenon
<1>12. group' = [f \in Envs |-> IF f \in gone THEN Memory!None ELSE group[f]]
  <2>1. group' = [f \in Envs |-> [va \in Vas |-> group'[f][va]]]
    BY Zenon DEF group
  <2>2. \A f \in Envs : group[f] = [va \in Vas |-> group[f][va]]
    BY Zenon DEF group
  <2>3. \A f \in Envs : [va \in Vas |-> group'[f][va]] = IF f \in gone THEN Memory!None ELSE group[f]
    BY <1>7, <1>8, <1>10, <2>2, Zenon DEF Memory!None, SameAt
  <2> QED BY <2>1, <2>3, Zenon
<1>13. maker' = [f \in Envs |-> IF f \in gone THEN NoMaker ELSE maker[f]]
  <2>1. maker' = [f \in Envs |-> maker'[f]]
    BY Zenon DEF maker
  <2> QED BY <1>7, <1>9, <1>10, <2>1, Zenon
<1>14. Memory!Exit(e)
  BY <1>2, <1>11, <1>12, <1>13, Zenon DEF Memory!Exit, gone, NoMaker
<1> QED BY <1>5, <1>14, AbstractSteps, Steps, Zenon

LEMMA SameMemory ==
  ASSUME UNCHANGED <<pt, data, env_status, call>>
  PROVE  view' = view /\ group' = group /\ maker' = maker
<1>1. \A f \in Envs : Made(f)' = Made(f)
  BY Zenon DEF Made
<1>2. \A f \in Envs, va \in Vas, m \in Envs : InWindow(m, f, va)' <=> InWindow(m, f, va)
  BY ZenonT(60) DEF InWindow
<1>3. \A f \in Envs, va \in Vas : Visible(f, va)' <=> Visible(f, va)
  BY <1>1, <1>2, Zenon DEF Visible, Made
<1>4. view' = view
  BY <1>3, Zenon DEF view
<1>5. group' = group
  BY <1>3, Zenon DEF group
<1>6. maker' = maker
  BY <1>1, Zenon DEF maker
<1> QED BY <1>4, <1>5, <1>6, Zenon

\* A step in which e works on what no program sees.
LEMMA Unseen ==
  ASSUME MemInv, Inv', NEW e \in Envs, NEW c \in Envs \cup {NULL}, StepBy(e, c),
         c = call[e].child, call'[e].child = c, env_status' = env_status,
         c # NULL => (call'[e].at \in Spawning <=> call[e].at \in Spawning),
         KeepsVas, KeepsCopies(e),
         \A va \in Vas : /\ pt'[e][va] = pt[e][va]
                         /\ c # NULL => /\ pt'[c][va] = pt[c][va]
                                        /\ InWindow(e, c, va)' <=> InWindow(e, c, va),
         OnStack(e)', Duplicated(e)', \A d \in Envs : Copying(e, d)'
  PROVE  Kept
<1>1. MemInv' /\ Inv
  BY MemStep, Zenon DEF MemInv
<1>2. maker' = maker
  BY <1>1, SameMakers, Zenon
<1>3. ASSUME NEW f \in Envs, NEW va \in Vas PROVE SameAt(f, va)
  <2>1. CASE f = e
    <3>1. pt[e][va] # NULL => data'[pt[e][va].page] = data[pt[e][va].page]
      BY Zenon DEF KeepsVas
    <3>2. env_status[e] = "run" /\ env_status'[e] = "run"
      BY Zenon DEF StepBy
    <3> QED BY <1>1, <2>1, <3>1, <3>2, SameSelf, Zenon
  <2>2. CASE f = c
    <3>1. pt[c][va] # NULL => data'[pt[c][va].page] = data[pt[c][va].page]
      BY <2>2, Zenon DEF KeepsVas
    <3>2. c \in Envs /\ c # NULL
      BY <2>2, CowAssumption, Zenon
    <3> QED BY <1>1, <2>2, <3>1, <3>2, SameChild, Zenon
  <2>3. CASE f # e /\ f # c
    BY <1>1, <2>3, Others, ZenonT(40) DEF KeepsVas, Hidden
  <2> QED BY <2>1, <2>2, <2>3, Zenon
<1>4. view' = view /\ group' = group
  BY <1>3, Still, Zenon
<1> QED BY <1>1, <1>2, <1>4, Stutters, Zenon

LEMMA PanicMem ==
  ASSUME MemInv, Panic
  PROVE  Kept
<1>1. Inv' /\ UNCHANGED <<pt, data, env_status, upcall, call, pf>>
  BY PanicInv, Zenon DEF MemInv, Panic
<1>2. \A e \in Envs : OnStack(e)' /\ Duplicated(e)'
  BY <1>1, Zenon DEF MemInv, OnStack, Duplicated
<1>3. \A e \in Envs, va \in Vas : Reached(e, va)' <=> Reached(e, va)
  BY <1>1, Zenon DEF Reached
<1>4. \A e, c \in Envs : Copying(e, c)'
  BY <1>1, <1>3, SameCopying, Zenon DEF MemInv
<1>5. MemInv'
  BY <1>1, <1>2, <1>4, Zenon DEF MemInv
<1> QED BY <1>1, <1>5, SameMemory, Stutters, Zenon

LEMMA PageFaultMem ==
  ASSUME MemInv, NEW e \in Envs, NEW va \in Vas, PageFault(e, va)
  PROVE  Kept
<1>1. Inv /\ Inv' /\ Runs(e) /\ (call[e].at \in Forking => va \in Stack)
  BY PageFaultInv, Zenon DEF MemInv, PageFault, MayWrite
<1>2. env_status[e] = "run"
  BY <1>1, Actor, Zenon
<1>3. CASE EnvFree(e)
  BY <1>2, <1>3, EnvFreeMem, Zenon
<1>4. CASE /\ pf' = [pf EXCEPT ![e] = [at |-> "alloc", pn |-> va]]
           /\ UNCHANGED <<pt, data, env_status, upcall, call, halted>>
  <2>1. pf'[e] = [at |-> "alloc", pn |-> va] /\ \A f \in Envs : f # e => pf'[f] = pf[f]
    BY <1>1, <1>4, Zenon DEF Inv, TypeOK
  <2>2. PICK c : c = call[e].child
    BY Zenon
  <2>3. c \in Envs \cup {NULL} /\ StepBy(e, c)
    BY <1>1, <1>2, <1>4, <2>1, <2>2, StepWithChild, Zenon
  <2>4. OnStack(e)' /\ Duplicated(e)'
    BY <1>1, <1>4, <2>1 DEF OnStack, Duplicated
  <2>5. \A b \in Vas : Reached(e, b)' <=> Reached(e, b)
    BY <1>4, Zenon DEF Reached
  <2>6. \A d \in Envs : Copying(e, d)'
    BY <1>4, <2>5, SameCopying, Zenon DEF MemInv
  <2>7. MemInv'
    BY <1>1, <1>4, <2>3, <2>4, <2>6, MemStep, SameData, Zenon
  <2> QED BY <1>4, <2>7, SameMemory, Stutters, Zenon
<1> QED BY <1>3, <1>4, Zenon DEF PageFault

\* A page of e is exchanged for a new one, or unmapped, outside of fork().
LEMMA OwnPage ==
  ASSUME MemInv, Inv', NEW e \in Envs, Runs(e), call[e].at = "none", NEW va \in Vas,
         UNCHANGED <<env_status, upcall, call, pf>>, KeepsPages,
         \A f \in Envs : f # e => pt'[f] = pt[f],
         \A b \in Vas : b # va => pt'[e][b] = pt[e][b]
  PROVE  /\ MemInv' /\ Memory!NotMaking(e) /\ env_status[e] = "run" /\ maker' = maker
         /\ \A f \in Envs, b \in Vas : f # e \/ b # va => SameAt(f, b)
<1>1. Inv /\ Parent(e) /\ env_status[e] = "run" /\ pf[e].at = "none"
  BY Actor, Zenon DEF MemInv
<1>2. call[e].child = NULL
  BY <1>1, Zenon DEF Parent
<1>3. NULL \in Envs \cup {NULL} /\ StepBy(e, NULL)
  BY <1>1, <1>2, StepWithChild, Zenon
<1>4. KeepsVas /\ KeepsCopies(e)
  BY <1>1, KeepsBoth, Zenon
<1>5. MemInv'
  BY <1>1, <1>3, <1>4, MemStep, Settled, Zenon DEF Forking
<1>6. Memory!NotMaking(e)
  BY <1>1, <1>2, MakerBy, CowAssumption DEF Memory!NotMaking
<1>7. maker' = maker
  BY <1>1, <1>2, <1>3, SameMakers, Zenon
<1>8. ASSUME NEW f \in Envs, NEW b \in Vas, f # e \/ b # va PROVE SameAt(f, b)
  <2>1. CASE f = e
    BY <1>1, <1>4, <1>8, <2>1, SameSelf, Zenon DEF KeepsVas
  <2>2. CASE f # e
    BY <1>1, <1>3, <1>4, <2>2, Others, CowAssumption DEF KeepsVas, Hidden
  <2> QED BY <2>1, <2>2, Zenon
<1> QED BY <1>1, <1>5, <1>6, <1>7, <1>8, Zenon

LEMMA SysPageAllocMem ==
  ASSUME MemInv, NEW e \in Envs, NEW va \in Vas, NEW tag \in {"none", "share"},
         SysPageAlloc(e, va, tag)
  PROVE  Kept
<1>1. Inv /\ Inv' /\ va \in Pns /\ Runs(e) /\ call[e].at = "none"
  BY SysPageAllocInv, PageNumbers, Zenon DEF MemInv, SysPageAlloc, At
<1>2. UNCHANGED <<env_status, upcall, call, pf>>
  BY Zenon DEF SysPageAlloc
<1>3. PICK p \in Pages : PageAlloc(e, va, p, TRUE, tag)
  BY Zenon DEF SysPageAlloc
<1>4. /\ Free(p) /\ pt' = [pt EXCEPT ![e][va] = Pte(p, TRUE, tag)]
      /\ data' = [data EXCEPT ![p] = Zero]
  BY <1>3, Zenon DEF PageAlloc
<1>5. KeepsPages /\ data'[p] = Zero
  BY <1>1, <1>4, FreshPage, Zenon
<1>6. /\ \A f \in Envs : f # e => pt'[f] = pt[f]
      /\ \A b \in Vas : b # va => pt'[e][b] = pt[e][b]
      /\ pt'[e][va] = Pte(p, TRUE, tag)
  BY <1>1, <1>4, PageNumbers, Zenon DEF Inv, TypeOK
<1>7. /\ MemInv' /\ Memory!NotMaking(e) /\ env_status[e] = "run" /\ maker' = maker
      /\ \A f \in Envs, b \in Vas : f # e \/ b # va => SameAt(f, b)
  BY <1>1, <1>2, <1>5, <1>6, OwnPage
<1>8. pt'[e][va] # NULL /\ pt'[e][va].page = p /\ pt'[e][va].tag = tag
  <2>1. TRUE \in BOOLEAN /\ tag \in {"none", "cow", "share"}
    BY Zenon
  <2>2. /\ Pte(p, TRUE, tag) # NULL /\ Pte(p, TRUE, tag).page = p
        /\ Pte(p, TRUE, tag).tag = tag
    BY <2>1, PteType, ZenonT(40)
  <2> QED BY <1>6, <2>2, Zenon
<1> DEFINE g == IF tag = "share" THEN p ELSE NULL
<1>9. view'[e][va] = Zero /\ group'[e][va] = g
  <2>1. ~Hidden(e, va)'
    BY <1>1, <1>2, <1>7, <1>8, KnownNext, Zenon DEF HiddenKnown
  <2>2. view'[e][va] = Seen(e, va)' /\ group'[e][va] = Group(e, va)'
    BY <1>1, <2>1, KnownNext, Zenon DEF ViewsKnown
  <2> QED BY <1>5, <1>8, <2>2, Zenon DEF Seen, Group
<1>10. view' = [view EXCEPT ![e][va] = Zero] /\ group' = [group EXCEPT ![e][va] = g]
  <2> HIDE DEF g
  <2> QED BY <1>7, <1>9, Update
<1>11. g # NULL => \A f \in Envs, b \in Vas : group[f][b] # g
  <2> SUFFICES ASSUME g # NULL, NEW f \in Envs, NEW b \in Vas PROVE group[f][b] # p
    BY Zenon
  <2>1. CASE Hidden(f, b)
    BY <1>1, <2>1, Known, CowAssumption, Zenon DEF ViewsKnown
  <2>2. CASE ~Hidden(f, b)
    BY <1>1, <1>4, <2>2, Shown, PageNumbers, CowAssumption DEF Free
  <2> QED BY <2>1, <2>2, Zenon
<1>12. g \in Pages \cup {NULL}
  BY Zenon
<1> HIDE DEF g
<1>13. Memory!Alloc(e, va, g)
  BY <1>2, <1>7, <1>10, <1>11, Zenon DEF Memory!Alloc
<1> QED BY <1>7, <1>12, <1>13, AbstractSteps, Steps, Zenon

LEMMA SysPageUnmapMem ==
  ASSUME MemInv, NEW e \in Envs, NEW va \in Vas, SysPageUnmap(e, va)
  PROVE  Kept
<1>1. Inv /\ Inv' /\ va \in Pns /\ Runs(e) /\ call[e].at = "none"
  BY SysPageUnmapInv, PageNumbers, Zenon DEF MemInv, SysPageUnmap, At
<1>2. UNCHANGED <<data, env_status, upcall, call, pf>> /\ pt' = [pt EXCEPT ![e][va] = NULL]
  BY Zenon DEF SysPageUnmap
<1>3. /\ \A f \in Envs : f # e => pt'[f] = pt[f]
      /\ \A b \in Vas : b # va => pt'[e][b] = pt[e][b]
      /\ pt'[e][va] = NULL
  BY <1>1, <1>2, PageNumbers, Zenon DEF Inv, TypeOK
<1>4. KeepsPages
  BY <1>2, SameData, Zenon
<1>5. /\ MemInv' /\ Memory!NotMaking(e) /\ env_status[e] = "run" /\ maker' = maker
      /\ \A f \in Envs, b \in Vas : f # e \/ b # va => SameAt(f, b)
  BY <1>1, <1>2, <1>3, <1>4, OwnPage
<1>6. view'[e][va] = NULL /\ group'[e][va] = NULL
  BY <1>1, <1>3, KnownNext, Zenon DEF ViewsKnown, Hidden
<1>7. view' = [view EXCEPT ![e][va] = NULL] /\ group' = [group EXCEPT ![e][va] = NULL]
  BY <1>5, <1>6, Update
<1>8. \A d \in Envs : maker[d] # [by |-> e, how |-> "fork"]
  BY <1>1, InFork, Zenon DEF Forking
<1>9. Memory!Unmap(e, va)
  BY <1>2, <1>5, <1>7, <1>8, Zenon DEF Memory!Unmap
<1> QED BY <1>5, <1>9, AbstractSteps, Steps, Zenon
-----------------------------------------------------------------------------
(* The page fault handler. *)

LEMMA FaultUnseen ==
  ASSUME MemInv, Inv', NEW e \in Envs, env_status[e] = "run",
         UNCHANGED <<env_status, upcall, call>>,
         \A f \in Envs : f # e => pf'[f] = pf[f] /\ pt'[f] = pt[f],
         \A va \in Vas : pt'[e][va] = pt[e][va],
         KeepsVas, KeepsCopies(e), OnStack(e)', Duplicated(e)'
  PROVE  Kept
<1>1. PICK c : c = call[e].child
  BY Zenon
<1>2. Inv
  BY Zenon DEF MemInv
<1>3. c \in Envs \cup {NULL} /\ StepBy(e, c)
  BY <1>1, <1>2, StepWithChild, Zenon
<1>4. \A f \in Envs, va \in Vas : pt'[f][va] = pt[f][va]
  BY Zenon
<1>5. \A d \in Envs : Copying(e, d)'
  <2>1. \A va \in Vas : Reached(e, va)' <=> Reached(e, va)
    BY Zenon DEF Reached
  <2> QED BY <1>4, <2>1, SameCopying, Zenon DEF MemInv
<1>6. \A d \in Envs, va \in Vas : InWindow(e, d, va)' <=> InWindow(e, d, va)
  BY <1>4, Zenon DEF InWindow
<1> QED BY <1>1, <1>3, <1>4, <1>5, <1>6, Unseen, Zenon

LEMMA TempAlone ==
  ASSUME Inv, NEW e \in Envs, pf[e].at \in {"copy", "map"},
         NEW f \in Envs, NEW b \in Pns, f # e \/ b # PFTEMP, pt[f][b] # NULL
  PROVE  pt[f][b].page # pt[e][PFTEMP].page
<1>1. Handling(e) /\ Calling(e) /\ Isolation /\ PFTEMP \in Pns
  BY PageNumbers, Zenon DEF Inv
<1>2. pt[e][PFTEMP] # NULL /\ pt[e][PFTEMP].w /\ pt[e][PFTEMP].tag = "none"
  BY <1>1, Zenon DEF Handling, Own
<1>3. ~InWindow(e, f, PFTEMP)
  BY <1>1, Zenon DEF Calling, InWindow
<1>4. pf[e].at # "unmap"
  BY Zenon
<1>5. pt[e][PFTEMP].page = pt[f][b].page => Excused(e, PFTEMP, f, b)
  BY <1>1, <1>2, IsolationForm, Zenon
<1>6. PFTEMP # UTEMP /\ ~Given(f, e, PFTEMP)
  BY NotGiven, PageNumbers, Zenon
<1> QED BY <1>2, <1>3, <1>4, <1>5, <1>6, Zenon DEF Excused

LEMMA PgfaultAllocMem ==
  ASSUME MemInv, NEW e \in Envs, PgfaultAlloc(e)
  PROVE  Kept
<1>1. Inv /\ Inv' /\ pf[e].at = "alloc"
  BY PgfaultAllocInv, Zenon DEF MemInv, PgfaultAlloc, FaultAt
<1>2. CASE Panic
  BY <1>2, PanicMem, Zenon
<1>3. CASE /\ \E p \in Pages : PageAlloc(e, PFTEMP, p, TRUE, "none")
           /\ pf' = [pf EXCEPT ![e].at = "copy"]
           /\ UNCHANGED <<env_status, upcall, call, halted>>
  <2>1. PICK p \in Pages : PageAlloc(e, PFTEMP, p, TRUE, "none")
    BY <1>3, Zenon
  <2>2. /\ Free(p) /\ pt' = [pt EXCEPT ![e][PFTEMP] = Pte(p, TRUE, "none")]
        /\ data' = [data EXCEPT ![p] = Zero]
    BY <2>1, Zenon DEF PageAlloc
  <2>3. KeepsVas /\ KeepsCopies(e)
    BY <1>1, <2>2, FreshPage, KeepsBoth, Zenon
  <2>4. /\ \A f \in Envs : f # e => pt'[f] = pt[f]
        /\ \A b \in Vas : pt'[e][b] = pt[e][b]
    BY <1>1, <2>2, PageNumbers, Zenon DEF Inv, TypeOK
  <2>5. pf'[e].at = "copy" /\ pf'[e].pn = pf[e].pn /\ \A f \in Envs : f # e => pf'[f] = pf[f]
    BY <1>1, <1>3 DEF Inv, TypeOK, Fault
  <2>6. OnStack(e)' /\ Duplicated(e)'
    BY <1>1, <1>3, <2>5, Zenon DEF MemInv, OnStack, Duplicated
  <2>7. env_status[e] = "run"
    BY <1>1, Faulting, Zenon
  <2> QED BY <1>1, <1>3, <2>3, <2>4, <2>5, <2>6, <2>7, FaultUnseen, Zenon
<1> QED BY <1>2, <1>3, Zenon DEF PgfaultAlloc

LEMMA PgfaultCopyMem ==
  ASSUME MemInv, NEW e \in Envs, PgfaultCopy(e)
  PROVE  Kept
<1> DEFINE p == pt[e][PFTEMP].page
           a == pf[e].pn
<1>1. Inv /\ Inv' /\ pf[e].at = "copy"
  BY PgfaultCopyInv, Zenon DEF MemInv, PgfaultCopy, FaultAt
<1>2. /\ data' = [data EXCEPT ![p] = data[pt[e][a].page]] /\ pf' = [pf EXCEPT ![e].at = "map"]
      /\ UNCHANGED <<pt, env_status, upcall, call, halted>>
  BY Zenon DEF PgfaultCopy
<1>3. /\ env_status[e] = "run" /\ a \in Vas /\ a \in Pns /\ a # PFTEMP /\ PFTEMP \in Pns
      /\ pt[e][PFTEMP] # NULL /\ pt[e][PFTEMP].w /\ pt[e][a] # NULL
  <2>1. Handling(e)
    BY <1>1, Zenon DEF Inv
  <2> QED BY <1>1, <2>1, Faulting, PageNumbers, Zenon DEF Handling, Own
<1>4. pf'[e].at = "map" /\ pf'[e].pn = a /\ \A f \in Envs : f # e => pf'[f] = pf[f]
  BY <1>1, <1>2 DEF Inv, TypeOK, Fault
<1>5. \A f \in Envs, b \in Pns : pt[f][b] # NULL => pt[f][b].page \in Pages
  BY <1>1 DEF Inv, TypeOK, Ptes
<1>6. data'[p] = data[pt[e][a].page] /\ \A q \in Pages : q # p => data'[q] = data[q]
  BY <1>1, <1>2, <1>3, <1>5, Zenon DEF Inv, TypeOK
<1>7. \A f \in Envs, b \in Pns :
        (f # e \/ b # PFTEMP) /\ pt[f][b] # NULL => data'[pt[f][b].page] = data[pt[f][b].page]
  BY <1>1, <1>5, <1>6, TempAlone, Zenon
<1>8. KeepsVas
  BY <1>7, PageNumbers, Zenon DEF KeepsVas
<1>9. KeepsCopies(e)
  <2>1. \A f \in Envs : Handling(f)
    BY <1>1, Zenon DEF Inv
  <2> QED BY <1>3, <1>7, <2>1, PageNumbers, Zenon DEF Handling, Own, KeepsCopies
<1>10. OnStack(e)'
  BY <1>1, <1>2, <1>4, Zenon DEF MemInv, OnStack
<1>11. Duplicated(e)'
  <2>1. data'[pt[e][PFTEMP].page] = data'[pt[e][a].page]
    BY <1>3, <1>6, <1>7, Zenon
  <2> QED BY <1>2, <1>4, <2>1, Zenon DEF Duplicated
<1> QED BY <1>1, <1>2, <1>3, <1>4, <1>8, <1>9, <1>10, <1>11, FaultUnseen, Zenon

LEMMA PgfaultUnmapMem ==
  ASSUME MemInv, NEW e \in Envs, PgfaultUnmap(e)
  PROVE  Kept
<1>1. Inv /\ Inv' /\ pf[e].at = "unmap"
  BY PgfaultUnmapInv, Zenon DEF MemInv, PgfaultUnmap, FaultAt
<1>2. /\ pt' = [pt EXCEPT ![e][PFTEMP] = NULL] /\ pf' = [pf EXCEPT ![e] = NoFault]
      /\ UNCHANGED <<data, env_status, upcall, call, halted>>
  BY Zenon DEF PgfaultUnmap
<1>3. /\ \A f \in Envs : f # e => pt'[f] = pt[f]
      /\ \A b \in Vas : pt'[e][b] = pt[e][b]
  BY <1>1, <1>2, PageNumbers, Zenon DEF Inv, TypeOK
<1>4. pf'[e].at = "none" /\ \A f \in Envs : f # e => pf'[f] = pf[f]
  BY <1>1, <1>2, Zenon DEF Inv, TypeOK, NoFault
<1>5. OnStack(e)' /\ Duplicated(e)'
  BY <1>4, Zenon DEF OnStack, Duplicated
<1>6. env_status[e] = "run" /\ KeepsVas /\ KeepsCopies(e)
  BY <1>1, <1>2, Faulting, SameData, Zenon
<1> QED BY <1>1, <1>2, <1>3, <1>4, <1>5, <1>6, FaultUnseen, Zenon

LEMMA PgfaultMapMem ==
  ASSUME MemInv, NEW e \in Envs, PgfaultMap(e)
  PROVE  Kept
<1> DEFINE p == pt[e][PFTEMP].page
<1>a. PICK a : a = pf[e].pn
  BY Zenon
<1>1. Inv /\ Inv' /\ pf[e].at = "map"
  BY PgfaultMapInv, Zenon DEF MemInv, PgfaultMap, FaultAt
<1>2. /\ pt' = [pt EXCEPT ![e][a] = Pte(p, TRUE, "none")] /\ pf' = [pf EXCEPT ![e].at = "unmap"]
      /\ UNCHANGED <<data, env_status, upcall, call, halted>>
  BY <1>a, Zenon DEF PgfaultMap
<1>3. /\ env_status[e] = "run" /\ a \in Vas /\ a \in Pns /\ a # PFTEMP /\ PFTEMP \in Pns
      /\ pt[e][PFTEMP] # NULL /\ pt[e][a] # NULL /\ pt[e][a].tag = "cow" /\ ~pt[e][a].w
  <2>1. Handling(e) /\ \A pn \in Pns : Tagged(pt[e][pn])
    BY <1>1, Zenon DEF Inv
  <2> QED BY <1>1, <1>a, <2>1, Faulting, PageNumbers, Zenon DEF Handling, Own, Tagged
<1>4. pf'[e].at = "unmap" /\ \A f \in Envs : f # e => pf'[f] = pf[f]
  BY <1>1, <1>2 DEF Inv, TypeOK, Fault
<1>5. p \in Pages
  BY <1>1, <1>3 DEF Inv, TypeOK, Ptes
<1>6. /\ \A f \in Envs : f # e => pt'[f] = pt[f]
      /\ \A b \in Vas : b # a => pt'[e][b] = pt[e][b]
      /\ pt'[e][a] = Pte(p, TRUE, "none")
  BY <1>1, <1>2, <1>3, PageNumbers, Zenon DEF Inv, TypeOK
<1>7. pt'[e][a] # NULL /\ pt'[e][a].page = p /\ pt'[e][a].tag = "none"
  <2>1. /\ Pte(p, TRUE, "none") # NULL /\ Pte(p, TRUE, "none").page = p
        /\ Pte(p, TRUE, "none").tag = "none"
    BY <1>5, PteType, Zenon
  <2> QED BY <1>6, <2>1, Zenon
<1>8. \A f \in Envs : f # e /\ pt[f][a] # NULL => pt[f][a].page # p
  BY <1>1, <1>3, TempAlone, Zenon
<1>9. data[p] = data[pt[e][a].page]
  BY <1>1, <1>a, Zenon DEF MemInv, Duplicated
<1> HIDE DEF p
<1>10. PICK c : c = call[e].child
  BY Zenon
<1>11. c \in Envs \cup {NULL} /\ StepBy(e, c)
  BY <1>1, <1>2, <1>3, <1>4, <1>6, <1>10, StepWithChild, Zenon
<1>12. OnStack(e)' /\ Duplicated(e)'
  <2>1. pf'[e].pn = a
    BY <1>1, <1>2, <1>a DEF Inv, TypeOK, Fault
  <2>2. call[e].at \in Forking => a \in Stack
    BY <1>1, <1>a, Zenon DEF MemInv, OnStack
  <2> QED BY <1>2, <1>4, <2>1, <2>2, Zenon DEF OnStack, Duplicated
<1>13. ASSUME NEW d \in Envs PROVE Copying(e, d)'
  <2>1. SUFFICES ASSUME call[e].at \in Forking, call[e].child = d PROVE Copying(e, d)'
    BY <1>2, Zenon DEF Copying
  <2>2. d # e
    BY <1>10, <1>11, <2>1, Zenon DEF StepBy
  <2>3. a \in Stack
    BY <1>1, <1>a, <2>1, Zenon DEF MemInv, OnStack
  <2>4. \A va \in Vas : Reached(e, va)' <=> Reached(e, va)
    BY <1>2, Zenon DEF Reached
  <2>5. Copying(e, d)
    BY Zenon DEF MemInv
  <2>6. \A va \in Vas : pt'[d][va] = pt[d][va]
    BY <1>6, <2>2, Zenon
  <2>7. \A va \in Vas : va # a => (Alike(e, d, va)' <=> Alike(e, d, va))
    BY <1>6, <2>6, Zenon DEF Alike
  <2>8. Alike(e, d, a) => Alike(e, d, a)'
    BY <1>3, <1>7, <2>3, <2>6, Zenon DEF Alike
  <2> QED BY <1>2, <2>1, <2>4, <2>5, <2>6, <2>7, <2>8, Zenon DEF Copying
<1>14. MemInv'
  BY <1>1, <1>2, <1>11, <1>12, <1>13, MemStep, SameData, Zenon
<1>15. maker' = maker
  BY <1>1, <1>2, <1>10, <1>11, SameMakers, Zenon
<1>16. SameAt(e, a)
  <2>1. ~Hidden(e, a) /\ ~Hidden(e, a)'
    BY <1>1, <1>2, <1>3, <1>7, Known, KnownNext, Zenon DEF HiddenKnown
  <2>2. Seen(e, a)' = Seen(e, a)
    BY <1>2, <1>7, <1>9, Zenon DEF Seen
  <2>3. Group(e, a)' = Group(e, a)
    BY <1>3, <1>7, Zenon DEF Group
  <2> QED BY <1>1, <1>3, <2>1, <2>2, <2>3, SameHere, Zenon
<1>17. ASSUME NEW b \in Vas, c # NULL
       PROVE  InWindow(e, c, b)' <=> InWindow(e, c, b)
  <2>1. c \in Envs /\ c # e
    BY <1>11, <1>17, Zenon DEF StepBy
  <2>2. CASE b # a
    BY <1>2, <1>6, <2>1, <2>2, Zenon DEF InWindow
  <2>3. CASE b = a
    <3>1. ~InWindow(e, c, a)
      BY <1>3, Zenon DEF InWindow
    <3>2. ASSUME InWindow(e, c, a)' PROVE FALSE
      <4>1. pt[c][a].page = p /\ call[e].at = "own" /\ call[e].child = c /\ call[e].pn = a
        BY <1>2, <1>6, <1>7, <2>1, <3>2, Zenon DEF InWindow
      <4>2. Copying(e, c)
        BY <2>1, Zenon DEF MemInv
      <4>3. Alike(e, c, a)
        BY <1>3, <4>1, <4>2, Zenon DEF Copying, Reached, Forking
      <4>4. pt[c][a] # NULL
        BY <1>3, <4>3, Zenon DEF Alike
      <4> QED BY <1>8, <2>1, <4>1, <4>4, Zenon
    <3> QED BY <2>3, <3>1, <3>2, Zenon
  <2> QED BY <2>2, <2>3, Zenon
<1>18. ASSUME NEW f \in Envs, NEW b \in Vas PROVE SameAt(f, b)
  <2>1. CASE f = e /\ b = a
    BY <1>16, <2>1, Zenon
  <2>2. CASE f = e /\ b # a
    BY <1>1, <1>2, <1>3, <1>6, <2>2, SameSelf, Zenon
  <2>3. CASE f = c
    <3>1. c # NULL /\ c # e
      BY <1>11, <2>3, CowAssumption, Zenon DEF StepBy
    <3> QED BY <1>1, <1>2, <1>6, <1>10, <1>17, <2>3, <3>1, SameChild, Zenon
  <2>4. CASE f # e /\ f # c
    BY <1>1, <1>2, <1>11, <2>4, Others, Zenon
  <2> QED BY <2>1, <2>2, <2>3, <2>4, Zenon
<1>19. view' = view /\ group' = group
  BY <1>18, Still, Zenon
<1> QED BY <1>2, <1>14, <1>15, <1>19, Stutters, Zenon
-----------------------------------------------------------------------------
(* fork(). *)

LEMMA SetPgfaultHandlerMem ==
  ASSUME MemInv, NEW e \in Envs, SetPgfaultHandler(e)
  PROVE  Kept
<1>1. Inv /\ Inv' /\ Runs(e) /\ call[e].at = "none" /\ TypeOK
  BY SetPgfaultHandlerInv, Zenon DEF MemInv, SetPgfaultHandler, At, Inv
<1>2. Parent(e) /\ env_status[e] = "run" /\ pf[e].at = "none" /\ call[e].child = NULL
  BY <1>1, Actor, Zenon DEF Parent
<1>3. CASE Panic
  BY <1>3, PanicMem, Zenon
<1>4. CASE ~Panic
  <2>1. Goto(e, "exofork") /\ UNCHANGED <<env_status, pf>>
    BY <1>4, Zenon DEF SetPgfaultHandler
  <2>2. call'[e].child = NULL /\ \A f \in Envs : f # e => call'[f] = call[f]
    BY <1>1, <1>2, <2>1, GotoMoves, Zenon
  <2>3. /\ KeepsVas /\ KeepsCopies(e) /\ \A b \in Vas : pt'[e][b] = pt[e][b]
        /\ \A f \in Envs : f # e => pt'[f] = pt[f] /\ upcall'[f] = upcall[f]
    <3>1. CASE UNCHANGED <<pt, data, upcall>>
      BY <3>1, SameData, Zenon
    <3>2. CASE /\ \E p \in Pages : PageAlloc(e, XSTACK, p, TRUE, "none")
               /\ upcall' = [upcall EXCEPT ![e] = TRUE]
      <4>1. PICK p \in Pages : PageAlloc(e, XSTACK, p, TRUE, "none")
        BY <3>2, Zenon
      <4>2. /\ Free(p) /\ pt' = [pt EXCEPT ![e][XSTACK] = Pte(p, TRUE, "none")]
            /\ data' = [data EXCEPT ![p] = Zero]
        BY <4>1, Zenon DEF PageAlloc
      <4>3. KeepsVas /\ KeepsCopies(e)
        BY <1>1, <4>2, FreshPage, KeepsBoth, Zenon
      <4>4. /\ \A f \in Envs : f # e => pt'[f] = pt[f] /\ upcall'[f] = upcall[f]
            /\ \A b \in Vas : pt'[e][b] = pt[e][b]
        BY <1>1, <3>2, <4>2, PageNumbers, Zenon DEF TypeOK
      <4> QED BY <4>3, <4>4, Zenon
    <3> QED BY <1>4, <3>1, <3>2, Zenon DEF SetPgfaultHandler
  <2>4. NULL \in Envs \cup {NULL} /\ StepBy(e, NULL)
    BY <1>1, <1>2, <2>1, <2>2, <2>3, StepWithChild, Zenon
  <2>5. OnStack(e)' /\ Duplicated(e)' /\ \A d \in Envs : Copying(e, d)'
    BY <1>2, <2>1, <2>2, CowAssumption, Zenon DEF OnStack, Duplicated, Copying
  <2> QED BY <1>1, <1>2, <2>1, <2>2, <2>3, <2>4, <2>5, Unseen, Zenon
<1> QED BY <1>3, <1>4, Zenon

LEMMA ExoforkMem ==
  ASSUME MemInv, NEW e \in Envs, NEW from \in {"none", "exofork"}, NEW to \in {"read", "load"},
         NEW pn \in Pns, to = "read" => from = "exofork" /\ pn = 0, to = "load" => pn \in Vas,
         Exofork(e, from, to, pn)
  PROVE  Kept
<1>1. Inv /\ Inv' /\ Runs(e) /\ call[e].at = from /\ TypeOK
  BY ExoforkInv, Zenon DEF MemInv, Exofork, At, Inv
<1>2. PICK c \in Envs :
        /\ env_status[c] = "free"
        /\ env_status' = [env_status EXCEPT ![c] = "making"]
        /\ call' = [call EXCEPT ![e] = [Idle EXCEPT !.at = to, !.child = c, !.pn = pn]]
  BY Zenon DEF Exofork
<1>3. UNCHANGED <<pt, data, upcall, pf, halted>>
  BY Zenon DEF Exofork
<1>4. Parent(e) /\ env_status[e] = "run" /\ pf[e].at = "none" /\ call[e].child = NULL
  BY <1>1, Actor, Zenon DEF Parent
<1>5. Quiet(c) /\ \A f \in Envs : Parent(f)
  BY <1>1, Zenon DEF Inv
<1>6. /\ c # e /\ c # NULL /\ call[c].child = NULL /\ call[c].at = "none" /\ pf[c].at = "none"
      /\ \A b \in Pns : pt[c][b] = NULL
      /\ \A f \in Envs : call[f].child # c
  BY <1>2, <1>4, <1>5, CowAssumption, Zenon DEF Quiet, Parent
<1>7. /\ call'[e].at = to /\ call'[e].child = c /\ call'[e].pn = pn
      /\ \A f \in Envs : f # e => call'[f] = call[f]
  BY <1>1, <1>2, Zenon DEF TypeOK, Idle
<1>8. env_status'[c] = "making" /\ \A f \in Envs : f # c => env_status'[f] = env_status[f]
  BY <1>1, <1>2, Zenon DEF TypeOK
<1>9. \A f \in Envs : f # e /\ f # c => Untouched(f)
  BY <1>3, <1>7, <1>8, Zenon DEF Untouched
<1>10. StepBy(e, c)
  BY <1>3, <1>4, <1>6, <1>7, <1>9, Zenon DEF StepBy
<1>11. \A d \in Envs : Copying(e, d)'
  <2>1. \A va \in Vas : pt'[c][va] = NULL
    BY <1>3, <1>6, PageNumbers, Zenon
  <2>2. to = "read" => \A va \in Vas : ~Reached(e, va)'
    BY <1>7 DEF Reached, Vas
  <2> QED BY <1>7, <2>1, <2>2, Zenon DEF Copying, Forking
<1>12. MemInv'
  BY <1>1, <1>3, <1>4, <1>10, <1>11, MemStep, SameData, Zenon DEF OnStack, Duplicated
<1>13. ASSUME NEW f \in Envs, NEW b \in Vas PROVE SameAt(f, b)
  <2>1. CASE f = e
    BY <1>1, <1>3, <1>4, <1>6, <1>8, <2>1, SameSelf, Zenon
  <2>2. CASE f = c
    <3>1. Hidden(c, b) /\ Hidden(c, b)'
      BY <1>3, <1>6, PageNumbers, Zenon DEF Hidden
    <3> QED BY <1>1, <2>2, <3>1, Known, KnownNext, ZenonT(40) DEF ViewsKnown, SameAt
  <2>3. CASE f # e /\ f # c
    BY <1>1, <1>3, <1>10, <2>3, Others, Zenon
  <2> QED BY <2>1, <2>2, <2>3, Zenon
<1>14. view' = view /\ group' = group
  BY <1>13, Still, Zenon
<1> DEFINE how == IF to = "load" THEN "spawn" ELSE "fork"
<1>15. maker'[c] = [by |-> e, how |-> how]
  <2>1. maker'[c] = [by |-> e, how |-> How(e)']
    BY <1>1, <1>7, KnownNext, Zenon DEF MakersKnown
  <2>2. How(e)' = how
    BY <1>7, Zenon DEF How, Spawning
  <2> QED BY <2>1, <2>2, Zenon
<1> HIDE DEF how
<1>16. maker' = [maker EXCEPT ![c] = [by |-> e, how |-> how]]
  <2>1. \A f \in Envs : f # c => maker'[f] = maker[f]
    BY <1>1, <1>10, Others
  <2> QED BY <1>15, <2>1, MakerUpdate, Zenon
<1>17. Memory!NotMaking(e)
  BY <1>1, <1>4, MakerBy, CowAssumption DEF Memory!NotMaking
<1>18. how \in {"fork", "spawn"}
  BY Zenon DEF how
<1>19. Memory!Make(e, c, how)
  BY <1>2, <1>4, <1>14, <1>16, <1>17, Zenon DEF Memory!Make
<1> QED BY <1>12, <1>18, <1>19, AbstractSteps, Steps, Zenon

LEMMA ForkExoforkMem ==
  ASSUME MemInv, NEW e \in Envs, ForkExofork(e)
  PROVE  Kept
<1>1. CASE Exofork(e, "exofork", "read", 0)
  BY <1>1, ExoforkMem, PageNumbers, Zenon DEF UTEMP
<1>2. CASE Panic
  BY <1>2, PanicMem, Zenon
<1> QED BY <1>1, <1>2, Zenon DEF ForkExofork

\* The page duppage() is called for next: those it passes over are not there.
LEMMA NextPageMem ==
  ASSUME TypeOK, NEW e \in Envs, call[e].at = "read", NEW va \in Vas, ~Reached(e, va),
         DuppageRead(e)
  PROVE  \/ call'[e].at = "child" /\ ~(va < call'[e].pn)
         \/ pt[e][va] = NULL
<1>1. call[e].pn \in Nat /\ va \in call[e].pn .. TopStack
  BY CowAssumption DEF Reached, TypeOK, Call, Pns, Vas, TopStack
<1>2. pt[e][va] # NULL => va \in NextPage(e, call[e].pn)
  BY <1>1, Zenon DEF NextPage
<1>3. SUFFICES ASSUME pt[e][va] # NULL PROVE call'[e].at = "child" /\ ~(va < call'[e].pn)
  BY Zenon
<1>4. PICK pn \in NextPage(e, call[e].pn) :
        /\ \A m \in NextPage(e, call[e].pn) : pn <= m
        /\ call' = [call EXCEPT ![e] = [@ EXCEPT !.at = "child", !.pn = pn,
                                               !.perm = DupPerm(pt[e][pn])]]
  BY <1>2, <1>3, Zenon DEF DuppageRead
<1>5. pn <= va /\ pn \in Nat
  BY <1>1, <1>2, <1>3, <1>4 DEF NextPage
<1>6. call'[e].at = "child" /\ call'[e].pn = pn
  BY <1>4 DEF TypeOK, Call
<1> QED BY <1>1, <1>5, <1>6

LEMMA DuppageReadMem ==
  ASSUME MemInv, NEW e \in Envs, DuppageRead(e)
  PROVE  Kept
<1>a. PICK c : c = call[e].child
  BY Zenon
<1>1. /\ Inv /\ Inv' /\ Runs(e) /\ call[e].at = "read" /\ TypeOK
      /\ UNCHANGED <<pt, data, env_status, upcall, pf, halted>>
  BY DuppageReadInv, Zenon DEF MemInv, DuppageRead, At, Inv
<1>2. /\ env_status[e] = "run" /\ pf[e].at = "none" /\ call[e] \in Call /\ c \in Envs /\ c # NULL
  BY <1>a, <1>1, Actor, Child, Zenon
<1>3. /\ call'[e].at \in {"xstack", "child"} /\ call'[e].child = c
      /\ call'[e].pn \in Nat /\ (call'[e].at = "child" => call[e].pn <= call'[e].pn)
      /\ \A f \in Envs : f # e => call'[f] = call[f]
  <2>1. CASE call' = [call EXCEPT ![e] = [@ EXCEPT !.at = "xstack", !.perm = NoPerm]]
    BY <1>a, <1>1, <1>2, <2>1 DEF TypeOK, Call, Pns
  <2>2. CASE \E pn \in NextPage(e, call[e].pn) :
               call' = [call EXCEPT ![e] = [@ EXCEPT !.at = "child", !.pn = pn,
                                                     !.perm = DupPerm(pt[e][pn])]]
    <3>1. PICK pn \in NextPage(e, call[e].pn) :
               call' = [call EXCEPT ![e] = [@ EXCEPT !.at = "child", !.pn = pn,
                                                     !.perm = DupPerm(pt[e][pn])]]
      BY <2>2, Zenon
    <3>2. call[e].pn <= pn /\ pn \in Nat
      BY <1>2 DEF NextPage, Call, Pns
    <3> QED BY <1>a, <1>1, <1>2, <3>1, <3>2, Zenon DEF TypeOK, Call
  <2> QED BY <2>1, <2>2, Zenon DEF DuppageRead
<1>4. c \in Envs \cup {NULL} /\ StepBy(e, c)
  BY <1>a, <1>1, <1>2, <1>3, StepWithChild, Zenon
<1>5. ASSUME NEW d \in Envs PROVE Copying(e, d)'
  <2>1. SUFFICES ASSUME d = c, NEW va \in Vas
                 PROVE  /\ Reached(e, va)' => Alike(e, c, va)'
                        /\ ~Reached(e, va)' => pt'[c][va] = NULL
    BY <1>3, Zenon DEF Copying
  <2>2. (Reached(e, va) => Alike(e, c, va)) /\ (~Reached(e, va) => pt[c][va] = NULL)
    BY <1>a, <1>1, <1>2, Zenon DEF MemInv, Copying, Forking
  <2>3. Alike(e, c, va)' <=> Alike(e, c, va)
    BY <1>1, Zenon DEF Alike
  <2>4. va \in Nat /\ call[e].pn \in Nat
    BY <1>2 DEF Vas, Call, Pns
  <2>5. CASE Reached(e, va)
    <3>1. Reached(e, va)'
      BY <1>1, <1>3, <2>4, <2>5 DEF Reached
    <3> QED BY <2>2, <2>3, <2>5, <3>1, Zenon
  <2>6. CASE ~Reached(e, va)
    <3>1. \/ call'[e].at = "child" /\ ~(va < call'[e].pn)
          \/ pt[e][va] = NULL
      BY <1>1, <2>6, NextPageMem, Zenon
    <3>2. pt[c][va] = NULL
      BY <2>2, <2>6, Zenon
    <3>3. CASE pt[e][va] = NULL
      BY <1>1, <2>3, <3>2, <3>3, Zenon DEF Alike
    <3>4. CASE call'[e].at = "child" /\ ~(va < call'[e].pn)
      <4>1. ~Reached(e, va)'
        BY <3>4, Zenon DEF Reached
      <4> QED BY <1>1, <3>2, <4>1, Zenon
    <3> QED BY <3>1, <3>3, <3>4, Zenon
  <2> QED BY <2>5, <2>6, Zenon
<1>6. OnStack(e)' /\ Duplicated(e)'
  BY <1>1, <1>2, Zenon DEF OnStack, Duplicated
<1>7. KeepsVas /\ KeepsCopies(e)
  BY <1>1, SameData, Zenon
<1>8. \A va \in Vas : /\ pt'[e][va] = pt[e][va]
                      /\ c # NULL => /\ pt'[c][va] = pt[c][va]
                                     /\ InWindow(e, c, va)' <=> InWindow(e, c, va)
  BY <1>1, <1>3, Zenon DEF InWindow
<1>9. call'[e].at \notin Spawning /\ call[e].at \notin Spawning
  BY <1>1, <1>3, Zenon DEF Spawning
<1> QED BY <1>a, <1>1, <1>3, <1>4, <1>5, <1>6, <1>7, <1>8, <1>9, Unseen, Zenon

\* The steps that give the child a page, or end the window it is in.
LEMMA ChildPage ==
  ASSUME MemInv, Inv', NEW e \in Envs, NEW c \in Envs, StepBy(e, c),
         c = call[e].child, call'[e].child = c, env_status' = env_status,
         call'[e].at \in Spawning <=> call[e].at \in Spawning,
         KeepsVas, KeepsCopies(e), \A va \in Vas : SameAt(e, va),
         NEW a \in Vas,
         \A va \in Vas : va # a => /\ pt'[c][va] = pt[c][va]
                                   /\ InWindow(e, c, va)' <=> InWindow(e, c, va),
         OnStack(e)', Duplicated(e)', \A d \in Envs : Copying(e, d)'
  PROVE  /\ MemInv' /\ maker' = maker /\ maker[c].by = e
         /\ \A f \in Envs, va \in Vas : f # c \/ va # a => SameAt(f, va)
<1>1. MemInv' /\ Inv /\ c \in Envs \cup {NULL}
  BY MemStep, Zenon DEF MemInv
<1>2. maker' = maker
  BY <1>1, SameMakers, Zenon
<1>3. maker[c].by = e
  BY <1>1, MakerBy, Zenon
<1>4. ASSUME NEW f \in Envs, NEW va \in Vas, f # c \/ va # a PROVE SameAt(f, va)
  <2>1. CASE f = c
    <3>1. pt[c][va] # NULL => data'[pt[c][va].page] = data[pt[c][va].page]
      BY Zenon DEF KeepsVas
    <3> QED BY <1>1, <1>4, <2>1, <3>1, SameChild, Zenon
  <2>2. CASE f # e /\ f # c
    <3>1. ~Hidden(f, va) => data'[pt[f][va].page] = data[pt[f][va].page]
      BY Zenon DEF KeepsVas, Hidden
    <3> QED BY <1>1, <2>2, <3>1, Others
  <2> QED BY <2>1, <2>2, Zenon
<1> QED BY <1>1, <1>2, <1>3, <1>4, Zenon

LEMMA DuppageChildMem ==
  ASSUME MemInv, NEW e \in Envs, DuppageChild(e)
  PROVE  Kept
<1>a. PICK k, c, a, r : k = call[e] /\ c = call[e].child /\ a = call[e].pn /\ r = pt[e][a]
  BY Zenon
<1> DEFINE q == Pte(r.page, k.perm.w, k.perm.tag)
           j == IF k.perm.again THEN [k EXCEPT !.at = "own"]
                ELSE [k EXCEPT !.at = "read", !.pn = k.pn + 1]
<1>1. Inv /\ Inv' /\ TypeOK
  BY DuppageChildInv, Zenon DEF MemInv, Inv
<1>2. Runs(e) /\ k.at = "child"
  BY <1>a, Zenon DEF DuppageChild, At
<1>3. CASE Panic
  BY <1>3, PanicMem, Zenon
<1>4. CASE ~Panic
  <2>1. /\ pt' = [pt EXCEPT ![c][a] = q]
        /\ call' = [call EXCEPT ![e] = j]
        /\ UNCHANGED <<data, env_status, upcall, pf, halted>>
    <3>1. /\ pt' = [pt EXCEPT ![c][a] = q]
          /\ UNCHANGED <<data, env_status, upcall, pf, halted>>
      BY <1>a, <1>4, Zenon DEF DuppageChild
    <3>2. call' = [call EXCEPT ![e] = j]
      BY <1>a, <1>4, Zenon DEF DuppageChild
    <3> QED BY <3>1, <3>2, Zenon
  <2>2. /\ env_status[e] = "run" /\ pf[e].at = "none" /\ k \in Call /\ Calling(e)
        /\ c \in Envs /\ c # e /\ c # NULL
    BY <1>a, <1>1, <1>2, Actor, Child, Zenon DEF Local
  <2>3. /\ a \in Pns /\ a # PFTEMP /\ a # XSTACK /\ Suits(k.perm, r) /\ r \in Ptes /\ r # NULL
        /\ k.perm.w \in BOOLEAN /\ k.perm.tag \in {"none", "cow", "share"} /\ r.page \in Pages
    BY <1>a, <1>1, <1>2, <2>2 DEF Calling, Suits, TypeOK, Call, Ptes
  <2>4. q # NULL /\ q.page = r.page /\ q.w = k.perm.w /\ q.tag = k.perm.tag
    BY <2>3, PteType
  <2>5. /\ j.child = c /\ j.at \in {"own", "read"}
        /\ j.at = "own" => j.pn = a
        /\ j.at = "read" => j.pn = a + 1
    BY <1>a, <2>2, Zenon DEF Call
  <2> HIDE DEF q, j
  <2>6. /\ \A f \in Envs : f # c => pt'[f] = pt[f]
        /\ \A b \in Pns : b # a => pt'[c][b] = pt[c][b]
        /\ pt'[c][a] = q
    BY <1>1, <2>1, <2>2, <2>3, Zenon DEF TypeOK
  <2>7. call'[e] = j /\ \A f \in Envs : f # e => call'[f] = call[f]
    BY <1>1, <2>1, Zenon DEF TypeOK
  <2>8. c \in Envs \cup {NULL} /\ StepBy(e, c)
    BY <1>a, <1>1, <2>1, <2>2, <2>5, <2>6, <2>7, StepWithChild, Zenon
  <2>9. \A va \in Vas : (Reached(e, va) => Alike(e, c, va)) /\ (~Reached(e, va) => pt[c][va] = NULL)
    BY <1>a, <1>2, <2>2, Zenon DEF MemInv, Copying, Forking
  <2>10. r.tag = "share" <=> q.tag = "share"
    BY <2>3, <2>4, Zenon DEF Suits
  <2>11. ASSUME NEW d \in Envs PROVE Copying(e, d)'
    <3>1. SUFFICES ASSUME d = c, NEW va \in Vas
                   PROVE  /\ Reached(e, va)' => Alike(e, c, va)'
                          /\ ~Reached(e, va)' => pt'[c][va] = NULL
      BY <2>5, <2>7, Zenon DEF Copying
    <3>2. va \in Nat /\ a \in Nat /\ va \in Pns
      BY <2>3, PageNumbers DEF Vas, Pns
    <3>3. CASE va = a
      <4>1. Reached(e, va)'
        BY <2>5, <2>7, <3>2, <3>3 DEF Reached
      <4>2. Alike(e, c, va)'
        BY <1>a, <2>2, <2>3, <2>4, <2>6, <2>10, <3>3, Zenon DEF Alike
      <4> QED BY <4>1, <4>2, Zenon
    <3>4. CASE va # a
      <4>1. Reached(e, va)' <=> Reached(e, va)
        BY <1>a, <1>2, <2>5, <2>7, <3>2, <3>4 DEF Reached
      <4>2. pt'[c][va] = pt[c][va] /\ pt'[e][va] = pt[e][va]
        BY <2>2, <2>6, <3>2, <3>4, Zenon
      <4>3. Alike(e, c, va)' <=> Alike(e, c, va)
        BY <4>2, Zenon DEF Alike
      <4> QED BY <2>9, <4>1, <4>2, <4>3, Zenon
    <3> QED BY <3>3, <3>4, Zenon
  <2>12. OnStack(e)' /\ Duplicated(e)'
    BY <2>1, <2>2, Zenon DEF OnStack, Duplicated
  <2>13. KeepsVas /\ KeepsCopies(e)
    BY <2>1, SameData, Zenon
  <2>14. \A va \in Vas : va # a => /\ pt'[c][va] = pt[c][va]
                                   /\ InWindow(e, c, va)' <=> InWindow(e, c, va)
    <3>1. \A va \in Vas : va # a => ~InWindow(e, c, va)'
      BY <2>5, <2>7, Zenon DEF InWindow
    <3>2. \A va \in Vas : ~InWindow(e, c, va)
      BY <1>a, <1>2, Zenon DEF InWindow
    <3> QED BY <2>6, <3>1, <3>2, PageNumbers, Zenon
  <2>15. call'[e].at \notin Spawning /\ call[e].at \notin Spawning
    BY <1>a, <1>2, <2>5, <2>7, Zenon DEF Spawning
  <2>16. \A va \in Vas : pt'[e][va] = pt[e][va]
    BY <2>2, <2>6, Zenon
  <2>17. CASE a \notin Vas
    BY <1>a, <1>1, <2>1, <2>5, <2>7, <2>8, <2>11, <2>12, <2>13, <2>14, <2>15, <2>16, <2>17, Unseen, Zenon
  <2>18. CASE a \in Vas
    <3>1. \A va \in Vas : SameAt(e, va)
      <4>1. env_status'[e] = "run"
        BY <2>1, <2>2, Zenon
      <4> QED BY <1>1, <2>1, <2>2, <2>16, <4>1, SameSelf, Zenon
    <3>2. /\ MemInv' /\ maker' = maker /\ maker[c].by = e
          /\ \A f \in Envs, va \in Vas : f # c \/ va # a => SameAt(f, va)
      BY <1>a, <1>1, <2>1, <2>2, <2>5, <2>7, <2>8, <2>11, <2>12, <2>13, <2>14, <2>15, <2>18,
         <3>1, ChildPage
    <3>3. pt[c][a] = NULL
      <4>1. ~Reached(e, a)
        BY <1>a, <1>2, <2>3 DEF Reached, Pns
      <4> QED BY <2>9, <2>18, <4>1, Zenon
    <3>4. Hidden(c, a) /\ view[c][a] = NULL /\ group[c][a] = NULL
      BY <1>1, <2>2, <2>18, <3>3, Known, Zenon DEF Hidden, ViewsKnown
    <3>5. Hidden(c, a)' <=> InWindow(e, c, a)'
      <4>1. Hidden(c, a)' <=> pt'[c][a] = NULL \/ InWindow(e, c, a)'
        BY <1>1, <2>2, <2>5, <2>7, <2>18, KnownNext, Zenon DEF HiddenKnown
      <4> QED BY <2>4, <2>6, <4>1, Zenon
    <3>6. CASE InWindow(e, c, a)'
      <4>1. SameAt(c, a)
        BY <1>1, <2>2, <2>18, <3>4, <3>5, <3>6, KnownNext, Zenon DEF ViewsKnown, SameAt
      <4>2. view' = view /\ group' = group
        BY <3>2, <4>1, Still, Zenon
      <4> QED BY <2>1, <3>2, <4>2, Stutters, Zenon
    <3>7. CASE ~InWindow(e, c, a)'
      <4>1. /\ view'[c][a] = data'[pt'[c][a].page]
            /\ group'[c][a] = IF pt'[c][a].tag = "share" THEN pt'[c][a].page ELSE NULL
        BY <1>1, <2>2, <2>18, <3>5, <3>7, KnownNext, Zenon DEF ViewsKnown, Seen, Group
      <4>2. ~Hidden(e, a)
        BY <1>a, <1>1, <2>2, <2>3, <2>18, Known, Zenon DEF HiddenKnown
      <4>3. /\ view[e][a] = data[r.page] /\ view[e][a] # NULL
            /\ group[e][a] = IF r.tag = "share" THEN r.page ELSE NULL
        BY <1>a, <1>1, <2>18, <4>2, Shown, Zenon
      <4>4. view'[c][a] = view[e][a] /\ group'[c][a] = group[e][a]
        BY <2>1, <2>4, <2>6, <2>10, <4>1, <4>3
      <4>5. view' = [view EXCEPT ![c][a] = view[e][a]] /\ group' = [group EXCEPT ![c][a] = group[e][a]]
        BY <2>2, <2>18, <3>2, <4>4, Update
      <4>6. maker[c].how = "fork"
        <5>1. maker[c] = [by |-> e, how |-> How(e)]
          BY <1>a, <1>1, <2>2, Known, Zenon DEF MakersKnown
        <5> QED BY <2>15, <5>1 DEF How
      <4>7. Memory!Copy(e, c, a)
        BY <2>1, <3>2, <4>3, <4>5, <4>6, Zenon DEF Memory!Copy
      <4> QED BY <2>2, <2>18, <3>2, <4>7, AbstractSteps, Steps, Zenon
    <3> QED BY <3>6, <3>7, Zenon
  <2> QED BY <2>17, <2>18, Zenon
<1> QED BY <1>3, <1>4, Zenon

LEMMA DuppageOwnMem ==
  ASSUME MemInv, NEW e \in Envs, DuppageOwn(e)
  PROVE  Kept
<1>a. PICK k, c, a, r : k = call[e] /\ c = call[e].child /\ a = call[e].pn /\ r = pt[e][a]
  BY Zenon
<1> DEFINE q == Pte(r.page, k.perm.w, k.perm.tag)
           j == [k EXCEPT !.at = "read", !.pn = k.pn + 1]
<1>1. Inv /\ Inv' /\ TypeOK
  BY DuppageOwnInv, Zenon DEF MemInv, Inv
<1>2. Runs(e) /\ k.at = "own"
  BY <1>a, Zenon DEF DuppageOwn, At
<1>3. /\ pt' = [pt EXCEPT ![e][a] = q]
      /\ call' = [call EXCEPT ![e] = j]
      /\ UNCHANGED <<data, env_status, upcall, pf, halted>>
  BY <1>a, Zenon DEF DuppageOwn
<1>4. /\ env_status[e] = "run" /\ pf[e].at = "none" /\ k \in Call /\ Calling(e)
      /\ c \in Envs /\ c # e /\ c # NULL
  BY <1>a, <1>1, <1>2, Actor, Child, Zenon DEF Local
<1>5. /\ a \in Pns /\ a # PFTEMP /\ a # XSTACK /\ Suits(k.perm, r) /\ r \in Ptes /\ r # NULL
      /\ k.perm.w \in BOOLEAN /\ k.perm.tag \in {"none", "cow", "share"} /\ r.page \in Pages
  BY <1>a, <1>1, <1>2, <1>4 DEF Calling, Suits, TypeOK, Call, Ptes
<1>6. q # NULL /\ q.page = r.page /\ q.w = k.perm.w /\ q.tag = k.perm.tag
  BY <1>5, PteType
<1>7. j.child = c /\ j.at = "read" /\ j.pn = a + 1
  BY <1>a, <1>4, Zenon DEF Call
<1> HIDE DEF q, j
<1>8. /\ \A f \in Envs : f # e => pt'[f] = pt[f]
      /\ \A b \in Pns : b # a => pt'[e][b] = pt[e][b]
      /\ pt'[e][a] = q
  BY <1>1, <1>3, <1>5, Zenon DEF TypeOK
<1>9. call'[e] = j /\ \A f \in Envs : f # e => call'[f] = call[f]
  BY <1>1, <1>3, Zenon DEF TypeOK
<1>10. c \in Envs \cup {NULL} /\ StepBy(e, c)
  BY <1>a, <1>1, <1>3, <1>4, <1>7, <1>8, <1>9, StepWithChild, Zenon
<1>11. \A va \in Vas : (Reached(e, va) => Alike(e, c, va)) /\ (~Reached(e, va) => pt[c][va] = NULL)
  BY <1>a, <1>2, <1>4, Zenon DEF MemInv, Copying, Forking
<1>12. r.tag = "share" <=> q.tag = "share"
  BY <1>5, <1>6, Zenon DEF Suits
<1>13. ASSUME NEW d \in Envs PROVE Copying(e, d)'
  <2>1. SUFFICES ASSUME d = c, NEW va \in Vas
                 PROVE  /\ Reached(e, va)' => Alike(e, c, va)'
                        /\ ~Reached(e, va)' => pt'[c][va] = NULL
    BY <1>7, <1>9, Zenon DEF Copying
  <2>2. va \in Nat /\ a \in Nat /\ va \in Pns
    BY <1>5, PageNumbers DEF Vas, Pns
  <2>3. Reached(e, va)' <=> Reached(e, va)
    BY <1>a, <1>2, <1>7, <1>9, <2>2 DEF Reached
  <2>4. Alike(e, c, va)' <=> Alike(e, c, va)
    <3>1. pt'[c][va] = pt[c][va]
      BY <1>4, <1>8, Zenon
    <3>2. CASE va = a
      BY <1>a, <1>5, <1>6, <1>8, <1>12, <3>1, <3>2, Zenon DEF Alike
    <3>3. CASE va # a
      BY <1>8, <2>2, <3>1, <3>3, Zenon DEF Alike
    <3> QED BY <3>2, <3>3, Zenon
  <2> QED BY <1>4, <1>8, <1>11, <2>3, <2>4, Zenon
<1>14. OnStack(e)' /\ Duplicated(e)'
  BY <1>3, <1>4, Zenon DEF OnStack, Duplicated
<1>15. KeepsVas /\ KeepsCopies(e)
  BY <1>3, SameData, Zenon
<1>16. \A va \in Vas : pt'[c][va] = pt[c][va] /\ ~InWindow(e, c, va)'
  BY <1>4, <1>7, <1>8, <1>9, Zenon DEF InWindow
<1>17. \A va \in Vas : va # a => ~InWindow(e, c, va)
  BY <1>a, Zenon DEF InWindow
<1>18. call'[e].at \notin Spawning /\ call[e].at \notin Spawning
  BY <1>a, <1>2, <1>7, <1>9, Zenon DEF Spawning
<1>19. CASE a \notin Vas
  <2>1. \A va \in Vas : pt'[e][va] = pt[e][va]
    BY <1>8, <1>19, PageNumbers, Zenon
  <2> QED BY <1>a, <1>1, <1>3, <1>7, <1>9, <1>10, <1>13, <1>14, <1>15, <1>16, <1>17, <1>18, <1>19, <2>1,
             Unseen, Zenon
<1>20. CASE a \in Vas
  <2>1. env_status'[e] = "run"
    BY <1>3, <1>4, Zenon
  <2>2. SameAt(e, a)
    <3>1. ~Hidden(e, a) /\ ~Hidden(e, a)'
      BY <1>a, <1>1, <1>4, <1>5, <1>6, <1>8, <1>20, <2>1, Known, KnownNext, Zenon DEF HiddenKnown
    <3>2. Seen(e, a)' = Seen(e, a) /\ Group(e, a)' = Group(e, a)
      BY <1>a, <1>3, <1>6, <1>8, <1>12, Zenon DEF Seen, Group
    <3> QED BY <1>1, <1>20, <3>1, <3>2, Known, KnownNext, Zenon DEF ViewsKnown, SameAt
  <2>3. \A va \in Vas : SameAt(e, va)
    <3>1. \A va \in Vas : va # a => pt'[e][va] = pt[e][va]
      BY <1>8, PageNumbers, Zenon
    <3> QED BY <1>1, <1>3, <1>4, <2>1, <2>2, <3>1, SameSelf, Zenon
  <2>4. /\ MemInv' /\ maker' = maker /\ maker[c].by = e
        /\ \A f \in Envs, va \in Vas : f # c \/ va # a => SameAt(f, va)
    BY <1>a, <1>1, <1>3, <1>4, <1>7, <1>9, <1>10, <1>13, <1>14, <1>15, <1>16, <1>17, <1>18, <1>20,
       <2>3, ChildPage
  <2>5. Alike(e, c, a)
    BY <1>a, <1>2, <1>11, <1>20, Zenon DEF Reached
  <2>6. pt[c][a] # NULL /\ (r.tag = "share" <=> pt[c][a].tag = "share")
    BY <1>a, <1>5, <2>5, Zenon DEF Alike
  <2>7. CASE ~InWindow(e, c, a)
    <3>1. pt[c][a] # NULL => data'[pt[c][a].page] = data[pt[c][a].page]
      BY <1>3, Zenon
    <3>2. InWindow(e, c, a)' <=> InWindow(e, c, a)
      BY <1>16, <1>20, <2>7, Zenon
    <3>3. SameAt(c, a)
      BY <1>a, <1>1, <1>4, <1>7, <1>9, <1>16, <1>20, <3>1, <3>2, SameChild, Zenon
    <3>4. view' = view /\ group' = group
      BY <2>4, <3>3, Still, Zenon
    <3> QED BY <1>3, <2>4, <3>4, Stutters, Zenon
  <2>8. CASE InWindow(e, c, a)
    <3>1. r.tag # "share" /\ pt[c][a].page = r.page
      BY <1>a, <2>8, Zenon DEF InWindow
    <3>2. ~Hidden(c, a)'
      <4>1. Hidden(c, a)' <=> pt'[c][a] = NULL \/ InWindow(e, c, a)'
        BY <1>1, <1>4, <1>7, <1>9, <1>20, KnownNext, Zenon DEF HiddenKnown
      <4> QED BY <1>16, <1>20, <2>6, <4>1, Zenon
    <3>3. /\ view'[c][a] = data'[pt'[c][a].page]
          /\ group'[c][a] = IF pt'[c][a].tag = "share" THEN pt'[c][a].page ELSE NULL
      BY <1>1, <1>4, <1>20, <3>2, KnownNext, Zenon DEF ViewsKnown, Seen, Group
    <3>4. ~Hidden(e, a)
      BY <1>a, <1>1, <1>4, <1>5, <1>20, Known, Zenon DEF HiddenKnown
    <3>5. /\ view[e][a] = data[r.page] /\ view[e][a] # NULL
          /\ group[e][a] = IF r.tag = "share" THEN r.page ELSE NULL
      BY <1>a, <1>1, <1>20, <3>4, Shown, Zenon
    <3>6. view'[c][a] = view[e][a] /\ group'[c][a] = group[e][a]
      BY <1>3, <1>16, <1>20, <2>6, <3>1, <3>3, <3>5
    <3>7. view' = [view EXCEPT ![c][a] = view[e][a]] /\ group' = [group EXCEPT ![c][a] = group[e][a]]
      BY <1>4, <1>20, <2>4, <3>6, Update
    <3>8. maker[c].how = "fork"
      <4>1. maker[c] = [by |-> e, how |-> How(e)]
        BY <1>a, <1>1, <1>4, Known, Zenon DEF MakersKnown
      <4> QED BY <1>18, <4>1 DEF How
    <3>9. Memory!Copy(e, c, a)
      BY <1>3, <2>4, <3>5, <3>7, <3>8, Zenon DEF Memory!Copy
    <3> QED BY <1>4, <1>20, <2>4, <3>9, AbstractSteps, Steps, Zenon
  <2> QED BY <2>7, <2>8, Zenon
<1> QED BY <1>19, <1>20, Zenon

\* The loop of fork() is over.
LEMMA AllReached ==
  ASSUME NEW e \in Envs, NEW c, c = call[e].child, call'[e].child = c,
         call[e].at \in {"xstack", "upcall"}, call'[e].at \in {"xstack", "upcall", "status"},
         \A va \in Vas : pt'[e][va] = pt[e][va] /\ pt'[c][va] = pt[c][va],
         \A d \in Envs : Copying(e, d)
  PROVE  \A d \in Envs : Copying(e, d)'
<1>1. \A va \in Vas : Reached(e, va) /\ Reached(e, va)'
  BY Zenon DEF Reached
<1>2. \A va \in Vas : Alike(e, c, va)' <=> Alike(e, c, va)
  BY Zenon DEF Alike
<1> QED BY <1>1, <1>2, Zenon DEF Copying, Forking

LEMMA ForkXstackMem ==
  ASSUME MemInv, NEW e \in Envs, ForkXstack(e)
  PROVE  Kept
<1>a. PICK c : c = call[e].child
  BY Zenon
<1>1. Inv /\ Inv' /\ Runs(e) /\ call[e].at = "xstack" /\ TypeOK
  BY ForkXstackInv, Zenon DEF MemInv, ForkXstack, At, Inv
<1>2. /\ env_status[e] = "run" /\ pf[e].at = "none" /\ c \in Envs /\ c # NULL /\ c # e
  BY <1>a, <1>1, Actor, Child, Zenon
<1>3. CASE OutOfPages
  BY <1>3, PanicMem, Zenon DEF ForkXstack
<1>4. CASE ~OutOfPages
  <2>1. PICK p \in Pages : PageAlloc(c, XSTACK, p, TRUE, "none")
    BY <1>a, <1>4, Zenon DEF ForkXstack
  <2>2. Goto(e, "upcall") /\ UNCHANGED <<env_status, upcall, pf, halted>>
    BY <1>4, Zenon DEF ForkXstack
  <2>3. /\ call'[e].at = "upcall" /\ call'[e].child = c
        /\ \A f \in Envs : f # e => call'[f] = call[f]
    BY <1>a, <1>1, <2>2, GotoMoves, Zenon
  <2>4. /\ Free(p) /\ pt' = [pt EXCEPT ![c][XSTACK] = Pte(p, TRUE, "none")]
        /\ data' = [data EXCEPT ![p] = Zero]
    BY <2>1, Zenon DEF PageAlloc
  <2>5. KeepsVas /\ KeepsCopies(e)
    BY <1>1, <2>4, FreshPage, KeepsBoth, Zenon
  <2>6. \A f \in Envs : f # c => pt'[f] = pt[f]
    BY <1>1, <1>2, <2>4, Zenon DEF TypeOK
  <2>7. \A va \in Vas : pt'[e][va] = pt[e][va] /\ pt'[c][va] = pt[c][va]
    BY <1>1, <1>2, <2>4, PageNumbers, Zenon DEF TypeOK
  <2>8. c \in Envs \cup {NULL} /\ StepBy(e, c)
    BY <1>a, <1>1, <1>2, <2>2, <2>3, <2>6, StepWithChild, Zenon
  <2>9. \A d \in Envs : Copying(e, d)'
    BY <1>a, <1>1, <2>3, <2>7, AllReached, Zenon DEF MemInv
  <2>10. OnStack(e)' /\ Duplicated(e)'
    BY <1>2, <2>2, Zenon DEF OnStack, Duplicated
  <2>11. \A va \in Vas : InWindow(e, c, va)' <=> InWindow(e, c, va)
    BY <1>1, <2>3, Zenon DEF InWindow
  <2>12. call'[e].at \notin Spawning /\ call[e].at \notin Spawning
    BY <1>1, <2>3, Zenon DEF Spawning
  <2> QED BY <1>a, <1>1, <2>2, <2>3, <2>5, <2>7, <2>8, <2>9, <2>10, <2>11, <2>12, Unseen, Zenon
<1> QED BY <1>3, <1>4, Zenon

LEMMA ForkUpcallMem ==
  ASSUME MemInv, NEW e \in Envs, ForkUpcall(e)
  PROVE  Kept
<1>a. PICK c : c = call[e].child
  BY Zenon
<1>1. Inv /\ Inv' /\ Runs(e) /\ call[e].at = "upcall" /\ TypeOK
  BY ForkUpcallInv, Zenon DEF MemInv, ForkUpcall, At, Inv
<1>2. /\ env_status[e] = "run" /\ pf[e].at = "none" /\ c \in Envs /\ c # NULL /\ c # e
  BY <1>a, <1>1, Actor, Child, Zenon
<1>3. /\ Goto(e, "status") /\ UNCHANGED <<pt, data, env_status, pf, halted>>
      /\ upcall' = [upcall EXCEPT ![c] = TRUE]
  BY <1>a, Zenon DEF ForkUpcall
<1>4. /\ call'[e].at = "status" /\ call'[e].child = c
      /\ \A f \in Envs : f # e => call'[f] = call[f]
  BY <1>a, <1>1, <1>3, GotoMoves, Zenon
<1>5. \A f \in Envs : f # c => upcall'[f] = upcall[f]
  BY <1>1, <1>2, <1>3, Zenon DEF TypeOK
<1>6. c \in Envs \cup {NULL} /\ StepBy(e, c)
  BY <1>a, <1>1, <1>2, <1>3, <1>4, <1>5, StepWithChild, Zenon
<1>7. \A d \in Envs : Copying(e, d)'
  BY <1>a, <1>1, <1>3, <1>4, AllReached, Zenon DEF MemInv
<1>8. OnStack(e)' /\ Duplicated(e)'
  BY <1>2, <1>3, Zenon DEF OnStack, Duplicated
<1>9. \A va \in Vas : InWindow(e, c, va)' <=> InWindow(e, c, va)
  BY <1>1, <1>4, Zenon DEF InWindow
<1>10. call'[e].at \notin Spawning /\ call[e].at \notin Spawning
  BY <1>1, <1>4, Zenon DEF Spawning
<1>11. KeepsVas /\ KeepsCopies(e)
  BY <1>3, SameData, Zenon
<1> QED BY <1>a, <1>1, <1>3, <1>4, <1>6, <1>7, <1>8, <1>9, <1>10, <1>11, Unseen, Zenon

\* At the end of fork() the child has what its parent has.
LEMMA ForkComplete ==
  ASSUME MemInv, NEW e \in Envs, Runs(e), call[e].at = "status", NEW c \in Envs, c = call[e].child
  PROVE  Memory!Complete(e, c)
<1>1. SUFFICES ASSUME NEW va \in Vas
               PROVE  /\ view[e][va] = NULL <=> view[c][va] = NULL
                      /\ group[c][va] = group[e][va]
                      /\ va \notin Stack => view[c][va] = view[e][va]
  BY Zenon DEF Memory!Complete
<1>2. Inv /\ env_status[e] = "run"
  BY Zenon DEF MemInv, Runs
<1>3. Alike(e, c, va)
  BY <1>1, Zenon DEF MemInv, Copying, Forking, Reached
<1>4. Hidden(e, va) <=> pt[e][va] = NULL
  BY <1>1, <1>2, Known, Zenon DEF HiddenKnown
<1>5. Hidden(c, va) <=> pt[c][va] = NULL
  <2>1. Hidden(c, va) <=> pt[c][va] = NULL \/ InWindow(e, c, va)
    BY <1>1, <1>2, Known, Zenon DEF HiddenKnown
  <2> QED BY <2>1, Zenon DEF InWindow
<1>6. CASE pt[e][va] = NULL
  <2>1. Hidden(e, va) /\ Hidden(c, va)
    BY <1>3, <1>4, <1>5, <1>6, Zenon DEF Alike
  <2> QED BY <1>1, <1>2, <2>1, Known, Zenon DEF ViewsKnown
<1>7. CASE pt[e][va] # NULL
  <2>1. ~Hidden(e, va) /\ ~Hidden(c, va)
    BY <1>3, <1>4, <1>5, <1>7, Zenon DEF Alike
  <2>2. /\ view[e][va] = data[pt[e][va].page] /\ view[e][va] # NULL
        /\ group[e][va] = IF pt[e][va].tag = "share" THEN pt[e][va].page ELSE NULL
    BY <1>1, <1>2, <2>1, Shown, Zenon
  <2>3. /\ view[c][va] = data[pt[c][va].page] /\ view[c][va] # NULL
        /\ group[c][va] = IF pt[c][va].tag = "share" THEN pt[c][va].page ELSE NULL
    BY <1>1, <1>2, <2>1, Shown, Zenon
  <2> QED BY <1>3, <1>7, <2>2, <2>3, Zenon DEF Alike
<1> QED BY <1>6, <1>7, Zenon

LEMMA SetRunnableMem ==
  ASSUME MemInv, NEW e \in Envs, NEW from \in {"status", "go"}, SetRunnable(e, from)
  PROVE  Kept
<1>a. PICK c : c = call[e].child
  BY Zenon
<1>1. Inv /\ Inv' /\ Runs(e) /\ call[e].at = from /\ TypeOK
  BY SetRunnableInv, Zenon DEF MemInv, SetRunnable, At, Inv
<1>2. /\ env_status[e] = "run" /\ pf[e].at = "none" /\ c \in Envs /\ c # NULL /\ c # e
  BY <1>a, <1>1, Actor, Child, Zenon
<1>3. /\ env_status' = [env_status EXCEPT ![c] = "run"]
      /\ call' = [call EXCEPT ![e] = Idle]
      /\ UNCHANGED <<pt, data, upcall, pf, halted>>
  BY <1>a, Zenon DEF SetRunnable
<1>4. /\ call'[e].at = "none" /\ call'[e].child = NULL
      /\ \A f \in Envs : f # e => call'[f] = call[f]
  BY <1>1, <1>3, IdleCall, Zenon DEF TypeOK
<1>5. env_status'[c] = "run" /\ \A f \in Envs : f # c => env_status'[f] = env_status[f]
  BY <1>1, <1>2, <1>3, Zenon DEF TypeOK
<1>6. c \in Envs \cup {NULL} /\ StepBy(e, c)
  BY <1>a, <1>1, <1>2, <1>3, <1>4, <1>5, StepWithChild, Zenon
<1>7. OnStack(e)' /\ Duplicated(e)' /\ \A d \in Envs : Copying(e, d)'
  BY <1>2, <1>3, <1>4, Settled, Zenon DEF Forking
<1>8. MemInv'
  BY <1>1, <1>3, <1>6, <1>7, MemStep, SameData, Zenon
<1>9. ASSUME NEW f \in Envs, NEW va \in Vas PROVE SameAt(f, va)
  <2>1. CASE f = e
    BY <1>1, <1>2, <1>3, <1>5, <2>1, SameSelf, Zenon
  <2>2. CASE f = c
    <3>1. Hidden(c, va) <=> pt[c][va] = NULL
      <4>1. Hidden(c, va) <=> pt[c][va] = NULL \/ InWindow(e, c, va)
        BY <1>a, <1>1, <1>2, Known, Zenon DEF HiddenKnown
      <4> QED BY <1>1, <4>1, Zenon DEF InWindow
    <3>2. Hidden(c, va)' <=> pt[c][va] = NULL
      BY <1>1, <1>2, <1>3, <1>5, KnownNext, Zenon DEF HiddenKnown
    <3>3. Seen(c, va)' = Seen(c, va) /\ Group(c, va)' = Group(c, va)
      BY <1>3, Zenon DEF Seen, Group
    <3> QED BY <1>1, <2>2, <3>1, <3>2, <3>3, SameHere, Zenon
  <2>3. CASE f # e /\ f # c
    BY <1>1, <1>3, <1>6, <2>3, Others, Zenon
  <2> QED BY <2>1, <2>2, <2>3, Zenon
<1>10. view' = view /\ group' = group
  BY <1>9, Still, Zenon
<1>11. maker'[c] = NoMaker
  <2>1. \A m \in Envs : call'[m].child # c
    BY <1>2, <1>4, <1>6, Zenon DEF StepBy
  <2> QED BY <1>1, <1>2, <2>1, KnownNext, Zenon DEF MakersKnown
<1>12. maker' = [maker EXCEPT ![c] = NoMaker]
  <2>1. \A f \in Envs : f # c => maker'[f] = maker[f]
    BY <1>1, <1>6, Others
  <2> QED BY <1>2, <1>11, <2>1, MakerUpdate, Zenon
<1>13. maker[c] = [by |-> e, how |-> How(e)]
  BY <1>a, <1>1, <1>2, Known, Zenon DEF MakersKnown
<1>14. maker[c].by = e /\ (maker[c].how = "fork" => call[e].at = "status")
  BY <1>1, <1>13 DEF How, Spawning
<1>15. maker[c].how = "fork" => Memory!Complete(maker[c].by, c)
  BY <1>a, <1>1, <1>2, <1>14, ForkComplete, Zenon
<1>16. Memory!Start(c)
  BY <1>3, <1>10, <1>12, <1>14, <1>15, CowAssumption, Zenon DEF Memory!Start, NoMaker
<1> QED BY <1>2, <1>8, <1>16, AbstractSteps, Steps, Zenon
-----------------------------------------------------------------------------
(* spawn(). *)

LEMMA SpawnStep ==
  ASSUME Inv, NEW e \in Envs, Runs(e), call[e].at \in Spawning, NEW c, c = call[e].child,
         call'[e].child = c, call'[e].at \in Spawning,
         \A f \in Envs : f # e => call'[f] = call[f],
         \A f \in Envs : f # e /\ f # c => pt'[f] = pt[f],
         UNCHANGED <<env_status, upcall, pf>>
  PROVE  /\ c \in Envs /\ c # NULL /\ c # e /\ StepBy(e, c)
         /\ env_status[e] = "run" /\ env_status'[e] = "run"
         /\ OnStack(e)' /\ Duplicated(e)' /\ \A d \in Envs : Copying(e, d)'
         /\ \A va \in Vas : ~InWindow(e, c, va) /\ ~InWindow(e, c, va)'
<1>1. /\ call[e].at \notin {"none", "exofork"} /\ call[e].at # "own" /\ call'[e].at # "own"
      /\ call'[e].at \notin Forking
  BY Zenon DEF Spawning, Forking
<1>2. env_status[e] = "run" /\ pf[e].at = "none" /\ c \in Envs /\ c # NULL /\ c # e
  <2>1. env_status[e] = "run" /\ pf[e].at = "none"
    BY Actor, Zenon
  <2>2. c \in Envs /\ c # NULL /\ c # e
    BY <1>1, Child
  <2> QED BY <2>1, <2>2, Zenon
<1>3. StepBy(e, c)
  BY <1>2, StepWithChild, Zenon
<1>4. OnStack(e)' /\ Duplicated(e)' /\ \A d \in Envs : Copying(e, d)'
  BY <1>1, <1>2, Settled, Zenon
<1>5. \A va \in Vas : ~InWindow(e, c, va) /\ ~InWindow(e, c, va)'
  BY <1>1, Zenon DEF InWindow
<1> QED BY <1>2, <1>3, <1>4, <1>5, Zenon

\* A step of spawn() that changes no page of the program and none of the child.
LEMMA SpawnUnseen ==
  ASSUME MemInv, Inv', NEW e \in Envs, Runs(e), call[e].at \in Spawning, NEW c, c = call[e].child,
         call'[e].child = c, call'[e].at \in Spawning,
         \A f \in Envs : f # e => call'[f] = call[f],
         \A f \in Envs : f # e /\ f # c => pt'[f] = pt[f],
         UNCHANGED <<env_status, upcall, pf>>, KeepsVas, KeepsCopies(e),
         \A va \in Vas : pt'[e][va] = pt[e][va] /\ pt'[c][va] = pt[c][va]
  PROVE  Kept
<1>1. Inv
  BY Zenon DEF MemInv
<1>2. /\ c \in Envs /\ c # NULL /\ c # e /\ StepBy(e, c)
      /\ OnStack(e)' /\ Duplicated(e)' /\ \A d \in Envs : Copying(e, d)'
      /\ \A va \in Vas : ~InWindow(e, c, va) /\ ~InWindow(e, c, va)'
  BY <1>1, SpawnStep
<1> QED BY <1>1, <1>2, Unseen, Zenon

\* One that maps a page of the child, which is seen from then on.
SpawnGives(e, c, a) ==
  /\ MemInv' /\ maker' = maker /\ maker[c] = [by |-> e, how |-> "spawn"]
  /\ view' = [view EXCEPT ![c][a] = data'[pt'[c][a].page]]
  /\ group' = [group EXCEPT ![c][a] =
                 IF pt'[c][a].tag = "share" THEN pt'[c][a].page ELSE NULL]

LEMMA SpawnPage ==
  ASSUME MemInv, Inv', NEW e \in Envs, Runs(e), call[e].at \in Spawning, NEW c, c = call[e].child,
         call'[e].child = c, call'[e].at \in Spawning,
         \A f \in Envs : f # e => call'[f] = call[f],
         \A f \in Envs : f # e /\ f # c => pt'[f] = pt[f],
         UNCHANGED <<env_status, upcall, pf>>, KeepsVas, KeepsCopies(e),
         NEW a \in Vas, pt'[c][a] # NULL,
         \A va \in Vas : pt'[e][va] = pt[e][va] /\ (va # a => pt'[c][va] = pt[c][va])
  PROVE  SpawnGives(e, c, a)
<1>1. Inv
  BY Zenon DEF MemInv
<1>2. /\ c \in Envs /\ c # NULL /\ c # e /\ StepBy(e, c)
      /\ env_status[e] = "run" /\ env_status'[e] = "run"
      /\ OnStack(e)' /\ Duplicated(e)' /\ \A d \in Envs : Copying(e, d)'
      /\ \A va \in Vas : ~InWindow(e, c, va) /\ ~InWindow(e, c, va)'
  BY <1>1, SpawnStep, Zenon
<1>3. \A va \in Vas : SameAt(e, va)
  BY <1>1, <1>2, SameSelf, Zenon DEF KeepsVas
<1>4. /\ MemInv' /\ maker' = maker /\ maker[c].by = e
      /\ \A f \in Envs, va \in Vas : f # c \/ va # a => SameAt(f, va)
  <2>1. /\ call'[e].at \in Spawning <=> call[e].at \in Spawning
        /\ \A va \in Vas : va # a => /\ pt'[c][va] = pt[c][va]
                                    /\ InWindow(e, c, va)' <=> InWindow(e, c, va)
    BY <1>2, Zenon
  <2>2. env_status' = env_status
    BY Zenon
  <2>3. \A va \in Vas : va # a => /\ pt'[c][va] = pt[c][va]
                                   /\ InWindow(e, c, va)' <=> InWindow(e, c, va)
    BY <2>1, Zenon
  <2>4. c \in Envs /\ StepBy(e, c) /\ OnStack(e)' /\ Duplicated(e)' /\ \A d \in Envs : Copying(e, d)'
    BY <1>2, Zenon
  <2>5. call'[e].at \in Spawning <=> call[e].at \in Spawning
    BY <2>1, Zenon
  <2> QED BY <1>3, <2>2, <2>3, <2>4, <2>5, ChildPage, SMTT(60)
<1>5. maker[c] = [by |-> e, how |-> "spawn"]
  <2>1. maker[c] = [by |-> e, how |-> How(e)]
    BY <1>1, <1>2, Known, Zenon DEF MakersKnown
  <2> QED BY <2>1, Zenon DEF How
<1>6. ~Hidden(c, a)'
  <2>1. Hidden(c, a)' <=> pt'[c][a] = NULL \/ InWindow(e, c, a)'
    BY <1>2, KnownNext, Zenon DEF HiddenKnown
  <2> QED BY <1>2, <2>1, Zenon
<1>7. /\ view'[c][a] = data'[pt'[c][a].page]
      /\ group'[c][a] = IF pt'[c][a].tag = "share" THEN pt'[c][a].page ELSE NULL
  BY <1>2, <1>6, KnownNext, Zenon DEF ViewsKnown, Seen, Group
<1>8. /\ view' = [view EXCEPT ![c][a] = data'[pt'[c][a].page]]
      /\ group' = [group EXCEPT ![c][a] =
                     IF pt'[c][a].tag = "share" THEN pt'[c][a].page ELSE NULL]
  <2>1. PICK x, g : /\ x = data'[pt'[c][a].page]
                    /\ g = IF pt'[c][a].tag = "share" THEN pt'[c][a].page ELSE NULL
    BY Zenon
  <2>2. view'[c][a] = x /\ group'[c][a] = g
    BY <1>7, <2>1, Zenon
  <2>3. view' = [view EXCEPT ![c][a] = x] /\ group' = [group EXCEPT ![c][a] = g]
    BY <1>2, <1>4, <2>2, Update
  <2> QED BY <2>1, <2>3, Zenon
<1> QED BY <1>4, <1>5, <1>8, Zenon DEF SpawnGives

LEMMA SpawnSkipMem ==
  ASSUME MemInv, NEW e \in Envs, SpawnSkip(e)
  PROVE  Kept
<1>a. PICK c : c = call[e].child
  BY Zenon
<1>1. /\ Inv /\ Inv' /\ Runs(e) /\ call[e].at = "load" /\ TypeOK
      /\ call' = [call EXCEPT ![e] = Loaded(e)]
      /\ UNCHANGED <<pt, data, env_status, upcall, pf, halted>>
  BY SpawnSkipInv, Zenon DEF MemInv, SpawnSkip, At, Inv
<1>2. call[e] \in Call /\ call[e].pn \in Vas
  BY <1>1, Actor, Zenon DEF Local, Calling
<1>3. Loaded(e) \in Call /\ Loaded(e).child = c /\ Loaded(e).at \in {"load", "close"}
  BY <1>a, <1>2, LoadedCall, Zenon
<1>4. call'[e] = Loaded(e) /\ \A f \in Envs : f # e => call'[f] = call[f]
  BY <1>1, <1>3, CallMoves, Zenon
<1>5. call[e].at \in Spawning /\ call'[e].at \in Spawning
  BY <1>1, <1>3, <1>4, Zenon DEF Spawning
<1>6. KeepsVas /\ KeepsCopies(e)
  BY <1>1, SameData, Zenon
<1> QED BY <1>a, <1>1, <1>3, <1>4, <1>5, <1>6, SpawnUnseen, Zenon

LEMMA GiveUpView ==
  ASSUME NEW c \in Envs, \A f \in Envs, va \in Vas : f # c => SameAt(f, va),
         \A va \in Vas : view'[c][va] = NULL /\ group'[c][va] = NULL
  PROVE  view' = [view EXCEPT ![c] = Memory!None] /\ group' = [group EXCEPT ![c] = Memory!None]
<1>1. view' = [view EXCEPT ![c] = Memory!None]
  <2>1. view' = [f \in Envs |-> [va \in Vas |-> view'[f][va]]] /\ view = [f \in Envs |-> view[f]]
    BY Zenon DEF view
  <2>2. \A f \in Envs : view[f] = [va \in Vas |-> view[f][va]]
    BY Zenon DEF view
  <2>3. [va \in Vas |-> view'[c][va]] = Memory!None
    BY Zenon DEF Memory!None
  <2>4. \A f \in Envs : f # c => [va \in Vas |-> view'[f][va]] = view[f]
    BY <2>2, Zenon DEF SameAt
  <2> QED BY <2>1, <2>3, <2>4, Zenon
<1>2. group' = [group EXCEPT ![c] = Memory!None]
  <2>1. group' = [f \in Envs |-> [va \in Vas |-> group'[f][va]]] /\ group = [f \in Envs |-> group[f]]
    BY Zenon DEF group
  <2>2. \A f \in Envs : group[f] = [va \in Vas |-> group[f][va]]
    BY Zenon DEF group
  <2>3. [va \in Vas |-> group'[c][va]] = Memory!None
    BY Zenon DEF Memory!None
  <2>4. \A f \in Envs : f # c => [va \in Vas |-> group'[f][va]] = group[f]
    BY <2>2, Zenon DEF SameAt
  <2> QED BY <2>1, <2>3, <2>4, Zenon
<1> QED BY <1>1, <1>2, Zenon

LEMMA SpawnFailsMem ==
  ASSUME MemInv, NEW e \in Envs, Runs(e), call[e].at \in {"load", "give"},
         NEW u \in {NULL, pt[e][UTEMP]}, SpawnFails(e, u)
  PROVE  Kept
<1>a. PICK c : c = call[e].child
  BY Zenon
<1>1. Inv /\ Inv' /\ TypeOK
  BY SpawnFailsInv, Zenon DEF MemInv, Inv
<1>2. env_status[e] = "run" /\ pf[e].at = "none"
  BY <1>1, Actor, Zenon
<1>3. c \in Envs /\ c # NULL /\ c # e /\ env_status[c] = "making"
  BY <1>a, <1>1, Child
<1> DEFINE left == [pt EXCEPT ![e][UTEMP] = u]
<1>4. /\ call' = [call EXCEPT ![e] = Idle] /\ UNCHANGED <<data, upcall, pf, halted>>
      /\ \/ pt' = left /\ UNCHANGED env_status
         \/ /\ pt' = [left EXCEPT ![c] = Empty]
            /\ env_status' = [env_status EXCEPT ![c] = "free"]
  BY <1>a, Zenon DEF SpawnFails
<1>5. /\ left \in [Envs -> [Pns -> Ptes \cup {NULL}]]
      /\ \A f \in Envs : f # e => left[f] = pt[f]
      /\ \A b \in Pns : b # UTEMP => left[e][b] = pt[e][b]
  BY <1>1, PageNumbers, Zenon DEF TypeOK
<1> HIDE DEF left
<1>6. /\ \A f \in Envs : f # e /\ f # c => pt'[f] = pt[f]
      /\ \A b \in Pns : b # UTEMP => pt'[e][b] = pt[e][b]
      /\ \A f \in Envs : f # c => env_status'[f] = env_status[f]
      /\ env_status' \in {env_status, [env_status EXCEPT ![c] = "free"]}
      /\ env_status'[c] = "making" \/ \A b \in Pns : pt'[c][b] = NULL
  <2>1. CASE pt' = left /\ UNCHANGED env_status
    BY <1>3, <1>5, <2>1, Zenon
  <2>2. CASE /\ pt' = [left EXCEPT ![c] = Empty]
             /\ env_status' = [env_status EXCEPT ![c] = "free"]
    BY <1>1, <1>3, <1>5, <2>2, Zenon DEF TypeOK, Empty
  <2> QED BY <1>4, <2>1, <2>2, Zenon
<1>7. /\ call'[e].at = "none" /\ call'[e].child = NULL
      /\ \A f \in Envs : f # e => call'[f] = call[f]
  BY <1>1, <1>4, IdleCall, Zenon DEF TypeOK
<1>8. c \in Envs \cup {NULL} /\ StepBy(e, c)
  BY <1>a, <1>1, <1>2, <1>4, <1>6, <1>7, StepWithChild, Zenon
<1>9. OnStack(e)' /\ Duplicated(e)' /\ \A d \in Envs : Copying(e, d)'
  BY <1>2, <1>4, <1>7, Settled, Zenon DEF Forking
<1>10. MemInv'
  BY <1>1, <1>4, <1>8, <1>9, MemStep, SameData, Zenon
<1>11. \A m \in Envs : call'[m].child # c
  BY <1>3, <1>7, <1>8, Zenon DEF StepBy
<1>12. ASSUME NEW f \in Envs, NEW va \in Vas, f # c PROVE SameAt(f, va)
  <2>1. CASE f = e
    <3>1. env_status'[e] = "run" /\ pt'[e][va] = pt[e][va]
      BY <1>2, <1>3, <1>6, PageNumbers, Zenon
    <3> QED BY <1>1, <1>2, <1>4, <2>1, <3>1, SameSelf, Zenon
  <2>2. CASE f # e
    BY <1>1, <1>4, <1>8, <1>12, <2>2, Others, Zenon
  <2> QED BY <2>1, <2>2, Zenon
<1>13. \A va \in Vas : view'[c][va] = NULL /\ group'[c][va] = NULL
  <2>1. \A va \in Vas : Hidden(c, va)'
    BY <1>6, <1>11, PageNumbers, Zenon DEF Hidden
  <2> QED BY <1>1, <1>3, <2>1, KnownNext, Zenon DEF ViewsKnown
<1>14. view' = [view EXCEPT ![c] = Memory!None] /\ group' = [group EXCEPT ![c] = Memory!None]
  BY <1>3, <1>12, <1>13, GiveUpView, Zenon
<1>15. maker'[c] = NoMaker
  BY <1>1, <1>3, <1>11, KnownNext, Zenon DEF MakersKnown
<1>16. maker' = [maker EXCEPT ![c] = NoMaker]
  <2>1. \A f \in Envs : f # c => maker'[f] = maker[f]
    BY <1>1, <1>8, Others
  <2> QED BY <1>3, <1>15, <2>1, MakerUpdate, Zenon
<1>17. maker[c].by # NULL
  BY <1>a, <1>1, <1>3, MakerBy, CowAssumption
<1>18. Memory!GiveUp(c)
  BY <1>6, <1>14, <1>16, <1>17, Zenon DEF Memory!GiveUp, NoMaker
<1> QED BY <1>3, <1>10, <1>18, AbstractSteps, Steps, Zenon

LEMMA SpawnLoadMem ==
  ASSUME MemInv, NEW e \in Envs, NEW v \in Values, SpawnLoad(e, v)
  PROVE  Kept
<1>a. PICK c : c = call[e].child
  BY Zenon
<1>1. Inv /\ Inv' /\ Runs(e) /\ call[e].at = "load" /\ TypeOK
  BY SpawnLoadInv, Zenon DEF MemInv, SpawnLoad, At, Inv
<1>2. CASE OutOfPages
  BY <1>1, <1>2, SpawnFailsMem, Zenon DEF SpawnLoad
<1>3. CASE ~OutOfPages
  <2>1. PICK p \in Pages :
          /\ Free(p) /\ pt' = [pt EXCEPT ![e][UTEMP] = Pte(p, TRUE, "none")]
          /\ data' = [data EXCEPT ![p] = v]
    BY <1>3, Zenon DEF SpawnLoad
  <2>2. Goto(e, "give") /\ UNCHANGED <<env_status, upcall, pf, halted>>
    BY <1>3, Zenon DEF SpawnLoad
  <2>3. /\ call'[e].at = "give" /\ call'[e].child = c
        /\ \A f \in Envs : f # e => call'[f] = call[f]
    BY <1>a, <1>1, <2>2, GotoMoves, Zenon
  <2>4. KeepsVas /\ KeepsCopies(e)
    BY <1>1, <2>1, FreshPage, KeepsBoth, Zenon
  <2>5. c \in Envs /\ c # e
    BY <1>a, <1>1, Child, Zenon
  <2>6. \A f \in Envs : f # e => pt'[f] = pt[f]
    BY <1>1, <2>1, Zenon DEF TypeOK
  <2>7. \A va \in Vas : pt'[e][va] = pt[e][va]
    BY <1>1, <2>1, PageNumbers, Zenon DEF TypeOK
  <2>8. call[e].at \in Spawning /\ call'[e].at \in Spawning
    BY <1>1, <2>3, Zenon DEF Spawning
  <2> QED BY <1>a, <1>1, <2>2, <2>3, <2>4, <2>5, <2>6, <2>7, <2>8, SpawnUnseen
<1> QED BY <1>2, <1>3, Zenon

LEMMA SpawnReadFailsMem ==
  ASSUME MemInv, NEW e \in Envs, SpawnReadFails(e)
  PROVE  Kept
  BY SpawnFailsMem, Zenon DEF SpawnReadFails, At

LEMMA SpawnBlankMem ==
  ASSUME MemInv, NEW e \in Envs, NEW w \in BOOLEAN, SpawnBlank(e, w)
  PROVE  Kept
<1>a. PICK c, a : c = call[e].child /\ a = call[e].pn
  BY Zenon
<1>1. Inv /\ Inv' /\ Runs(e) /\ call[e].at = "load" /\ TypeOK
  BY SpawnBlankInv, Zenon DEF MemInv, SpawnBlank, At, Inv
<1>2. CASE OutOfPages
  BY <1>1, <1>2, SpawnFailsMem, Zenon DEF SpawnBlank
<1>3. CASE ~OutOfPages
  <2>1. PICK p \in Pages : PageAlloc(c, a, p, w, "none")
    BY <1>a, <1>3, Zenon DEF SpawnBlank
  <2>2. call' = [call EXCEPT ![e] = Loaded(e)] /\ UNCHANGED <<env_status, upcall, pf, halted>>
    BY <1>3, Zenon DEF SpawnBlank
  <2>3. call[e] \in Call /\ a \in Vas
    BY <1>a, <1>1, Actor, Zenon DEF Local, Calling
  <2>4. Loaded(e) \in Call /\ Loaded(e).child = c /\ Loaded(e).at \in {"load", "close"}
    BY <1>a, <2>3, LoadedCall, Zenon
  <2>5. call'[e] = Loaded(e) /\ \A f \in Envs : f # e => call'[f] = call[f]
    BY <1>1, <2>2, <2>4, CallMoves, Zenon
  <2>6. call[e].at \in Spawning /\ call'[e].at \in Spawning
    BY <1>1, <2>4, <2>5, Zenon DEF Spawning
  <2>7. c \in Envs /\ c # e
    BY <1>a, <1>1, Child, Zenon
  <2>8. /\ Free(p) /\ pt' = [pt EXCEPT ![c][a] = Pte(p, w, "none")]
        /\ data' = [data EXCEPT ![p] = Zero]
    BY <2>1, Zenon DEF PageAlloc
  <2>9. Pte(p, w, "none") # NULL /\ Pte(p, w, "none").page = p /\ Pte(p, w, "none").tag = "none"
    BY PteType
  <2>10. KeepsVas /\ KeepsCopies(e) /\ data'[p] = Zero
    BY <1>1, <2>8, FreshPage, KeepsBoth, Zenon
  <2>11. /\ \A f \in Envs : f # c => pt'[f] = pt[f]
         /\ \A va \in Vas : va # a => pt'[c][va] = pt[c][va]
         /\ pt'[c][a] = Pte(p, w, "none")
    BY <1>1, <2>3, <2>7, <2>8, PageNumbers, Zenon DEF TypeOK
  <2>b. /\ call'[e].child = c /\ pt'[c][a] # NULL
        /\ \A f \in Envs : f # e /\ f # c => pt'[f] = pt[f]
        /\ \A va \in Vas : pt'[e][va] = pt[e][va] /\ (va # a => pt'[c][va] = pt[c][va])
    BY <2>4, <2>5, <2>7, <2>9, <2>11, Zenon
  <2>12. SpawnGives(e, c, a)
    BY <1>a, <1>1, <2>2, <2>3, <2>5, <2>6, <2>10, <2>b, SpawnPage, Zenon
  <2>13. data'[pt'[c][a].page] = Zero /\ pt'[c][a].tag # "share"
    BY <2>9, <2>10, <2>11, Zenon
  <2>14. Memory!Load(c, a, Zero)
    BY <2>2, <2>12, <2>13 DEF SpawnGives, Memory!Load
  <2> QED BY <2>3, <2>7, <2>12, <2>14, AbstractSteps, Steps, CowAssumption, Zenon DEF SpawnGives
<1> QED BY <1>2, <1>3, Zenon

LEMMA SpawnGiveMem ==
  ASSUME MemInv, NEW e \in Envs, NEW w \in BOOLEAN, SpawnGive(e, w)
  PROVE  Kept
<1>a. PICK c, a, r : c = call[e].child /\ a = call[e].pn /\ r = pt[e][UTEMP]
  BY Zenon
<1>1. Inv /\ Inv' /\ Runs(e) /\ call[e].at = "give" /\ TypeOK
  BY SpawnGiveInv, Zenon DEF MemInv, SpawnGive, At, Inv
<1> DEFINE q == Pte(r.page, w, "none")
<1>2. CASE Panic
  BY <1>2, PanicMem, Zenon
<1>3. CASE SpawnFails(e, NULL)
  BY <1>1, <1>3, SpawnFailsMem, Zenon
<1>4. CASE /\ pt' = [pt EXCEPT ![c][a] = q] /\ Goto(e, "unmap")
           /\ UNCHANGED <<data, env_status, upcall, pf, halted>>
  <2>1. call[e] \in Call /\ a \in Vas /\ Own(r)
    BY <1>a, <1>1, Actor, Zenon DEF Local, Calling
  <2>3. /\ call'[e].at = "unmap" /\ call'[e].child = c
        /\ \A f \in Envs : f # e => call'[f] = call[f]
    BY <1>a, <1>1, <1>4, GotoMoves, Zenon
  <2>4. call[e].at \in Spawning /\ call'[e].at \in Spawning
    BY <1>1, <2>3, Zenon DEF Spawning
  <2>5. c \in Envs /\ c # e
    BY <1>a, <1>1, Child, Zenon
  <2>6. r \in Ptes /\ r.page \in Pages /\ data[r.page] \in Values
    BY <1>a, <1>1, <2>1, PageNumbers DEF TypeOK, Own, Ptes
  <2>7. q # NULL /\ q.page = r.page /\ q.tag = "none"
    BY <2>6, PteType
  <2> HIDE DEF q
  <2>8. KeepsVas /\ KeepsCopies(e)
    BY <1>4, SameData, Zenon
  <2>9. /\ \A f \in Envs : f # e /\ f # c => pt'[f] = pt[f]
        /\ \A va \in Vas : pt'[e][va] = pt[e][va] /\ (va # a => pt'[c][va] = pt[c][va])
        /\ pt'[c][a] = q
    BY <1>1, <1>4, <2>1, <2>5, PageNumbers, Zenon DEF TypeOK
  <2>10. call'[e].child = c /\ pt'[c][a] # NULL
    BY <2>3, <2>7, <2>9, Zenon
  <2>11. SpawnGives(e, c, a)
    BY <1>a, <1>1, <1>4, <2>1, <2>3, <2>4, <2>8, <2>9, <2>10, SpawnPage, Zenon
  <2>12. data'[pt'[c][a].page] = data[r.page] /\ pt'[c][a].tag # "share"
    BY <1>4, <2>7, <2>9, Zenon
  <2>13. Memory!Load(c, a, data[r.page])
    BY <1>4, <2>11, <2>12 DEF SpawnGives, Memory!Load
  <2> QED BY <2>1, <2>5, <2>6, <2>11, <2>13, AbstractSteps, Steps, Zenon DEF SpawnGives
<1> QED BY <1>a, <1>2, <1>3, <1>4, Zenon DEF SpawnGive

LEMMA SpawnUnmapMem ==
  ASSUME MemInv, NEW e \in Envs, SpawnUnmap(e)
  PROVE  Kept
<1>a. PICK c : c = call[e].child
  BY Zenon
<1>1. /\ Inv /\ Inv' /\ Runs(e) /\ call[e].at = "unmap" /\ TypeOK
      /\ pt' = [pt EXCEPT ![e][UTEMP] = NULL] /\ call' = [call EXCEPT ![e] = Loaded(e)]
      /\ UNCHANGED <<data, env_status, upcall, pf, halted>>
  BY SpawnUnmapInv, Zenon DEF MemInv, SpawnUnmap, At, Inv
<1>2. call[e] \in Call /\ call[e].pn \in Vas
  BY <1>1, Actor, Zenon DEF Local, Calling
<1>3. Loaded(e) \in Call /\ Loaded(e).child = c /\ Loaded(e).at \in {"load", "close"}
  BY <1>a, <1>2, LoadedCall, Zenon
<1>4. call'[e] = Loaded(e) /\ \A f \in Envs : f # e => call'[f] = call[f]
  BY <1>1, <1>3, CallMoves, Zenon
<1>5. call[e].at \in Spawning /\ call'[e].at \in Spawning
  BY <1>1, <1>3, <1>4, Zenon DEF Spawning
<1>6. KeepsVas /\ KeepsCopies(e)
  BY <1>1, SameData, Zenon
<1>7. c \in Envs /\ c # e
  BY <1>a, <1>1, Child, Zenon
<1>8. \A f \in Envs, va \in Vas : pt'[f][va] = pt[f][va]
  BY <1>1, PageNumbers, Zenon DEF TypeOK
<1>9. \A f \in Envs : f # e => pt'[f] = pt[f]
  BY <1>1, Zenon DEF TypeOK
<1>10. /\ call'[e].child = c
       /\ \A f \in Envs : f # e /\ f # c => pt'[f] = pt[f]
       /\ \A va \in Vas : pt'[e][va] = pt[e][va] /\ pt'[c][va] = pt[c][va]
  BY <1>3, <1>4, <1>7, <1>8, <1>9, Zenon
<1> QED BY <1>a, <1>1, <1>4, <1>5, <1>6, <1>10, SpawnUnseen, Zenon

\* close() of the program file's descriptor takes the page of the descriptor out
\* of the program's memory.
LEMMA SpawnCloseMem ==
  ASSUME MemInv, NEW e \in Envs, SpawnClose(e)
  PROVE  Kept
<1>a. PICK c : c = call[e].child
  BY Zenon
<1>1. /\ Inv /\ Inv' /\ Runs(e) /\ call[e].at = "close" /\ TypeOK /\ Goto(e, "shared")
      /\ UNCHANGED <<data, env_status, upcall, pf, halted>>
      /\ pt' = pt \/ \E va \in Vas : pt' = [pt EXCEPT ![e][va] = NULL]
  BY SpawnCloseInv, Zenon DEF MemInv, SpawnClose, At, Inv
<1>2. /\ call'[e].at = "shared" /\ call'[e].child = c
      /\ \A f \in Envs : f # e => call'[f] = call[f]
  BY <1>a, <1>1, GotoMoves, Zenon
<1>3. call[e].at \in Spawning /\ call'[e].at \in Spawning /\ call[e].at \notin Forking
  BY <1>1, <1>2, Zenon DEF Spawning, Forking
<1>4. KeepsVas /\ KeepsCopies(e)
  BY <1>1, SameData, Zenon
<1>5. c \in Envs /\ c # e
  BY <1>a, <1>1, Child, Zenon
<1>6. CASE pt' = pt
  BY <1>a, <1>1, <1>2, <1>3, <1>4, <1>6, SpawnUnseen, Zenon
<1>7. ASSUME NEW va \in Vas, pt' = [pt EXCEPT ![e][va] = NULL] PROVE Kept
  <2>1. /\ \A f \in Envs : f # e => pt'[f] = pt[f]
        /\ \A b \in Vas : b # va => pt'[e][b] = pt[e][b]
        /\ pt'[e][va] = NULL
    BY <1>1, <1>7, PageNumbers, Zenon DEF TypeOK
  <2>2. /\ c \in Envs /\ c # NULL /\ c # e /\ StepBy(e, c)
        /\ env_status[e] = "run" /\ env_status'[e] = "run"
        /\ OnStack(e)' /\ Duplicated(e)' /\ \A d \in Envs : Copying(e, d)'
        /\ \A b \in Vas : ~InWindow(e, c, b) /\ ~InWindow(e, c, b)'
    BY <1>a, <1>1, <1>2, <1>3, <2>1, SpawnStep, Zenon
  <2>3. MemInv'
    BY <1>1, <1>4, <2>2, MemStep, Zenon
  <2>4. maker' = maker
    BY <1>a, <1>1, <1>2, <1>3, <2>2, SameMakers, Zenon
  <2>5. ASSUME NEW f \in Envs, NEW b \in Vas, f # e \/ b # va PROVE SameAt(f, b)
    <3>1. CASE f = e
      BY <1>1, <1>4, <2>1, <2>2, <2>5, <3>1, SameSelf, Zenon DEF KeepsVas
    <3>2. CASE f = c
      BY <1>a, <1>1, <1>2, <2>1, <2>2, <3>2, SameChild, Zenon
    <3>3. CASE f # e /\ f # c
      BY <1>1, <2>2, <3>3, Others, Zenon
    <3> QED BY <3>1, <3>2, <3>3, Zenon
  <2>6. view'[e][va] = NULL /\ group'[e][va] = NULL
    BY <1>1, <2>1, KnownNext, Zenon DEF ViewsKnown, Hidden
  <2>7. view' = [view EXCEPT ![e][va] = NULL] /\ group' = [group EXCEPT ![e][va] = NULL]
    BY <2>5, <2>6, Update
  <2>8. \A d \in Envs : maker[d] # [by |-> e, how |-> "fork"]
    BY <1>1, <1>3, InFork, Zenon
  <2>9. Memory!Unmap(e, va)
    BY <1>1, <2>2, <2>4, <2>7, <2>8, Zenon DEF Memory!Unmap
  <2> QED BY <2>3, <2>9, AbstractSteps, Steps, Zenon
<1> QED BY <1>1, <1>6, <1>7, Zenon

LEMMA SpawnSharedMem ==
  ASSUME MemInv, NEW e \in Envs, SpawnShared(e)
  PROVE  Kept
<1>a. PICK c : c = call[e].child
  BY Zenon
<1>1. Inv /\ Inv' /\ Runs(e) /\ call[e].at = "shared" /\ TypeOK /\ call[e] \in Call
  BY SpawnSharedInv, Actor, Zenon DEF MemInv, SpawnShared, At, Inv
<1>2. c \in Envs /\ c # e /\ env_status[e] = "run"
  BY <1>a, <1>1, Child, Actor, Zenon
<1>3. CASE Panic
  BY <1>3, PanicMem, Zenon
<1>4. CASE Goto(e, "go") /\ UNCHANGED <<pt, data, env_status, upcall, pf, halted>>
  <2>1. /\ call'[e].at = "go" /\ call'[e].child = c
        /\ \A f \in Envs : f # e => call'[f] = call[f]
    BY <1>a, <1>1, <1>4, GotoMoves, Zenon
  <2>2. KeepsVas /\ KeepsCopies(e)
    BY <1>4, SameData, Zenon
  <2>3. call[e].at \in Spawning /\ call'[e].at \in Spawning
    BY <1>1, <2>1, Zenon DEF Spawning
  <2> QED BY <1>a, <1>1, <1>4, <2>1, <2>2, <2>3, SpawnUnseen, Zenon
<1>5. ASSUME NEW pn \in NextPage(e, call[e].pn), pt[e][pn].tag = "share",
             pt' = [pt EXCEPT ![c][pn] = pt[e][pn]],
             call' = [call EXCEPT ![e].pn = pn + 1],
             UNCHANGED <<data, env_status, upcall, pf, halted>>
      PROVE  Kept
  <2>1. pn \in Pns /\ pt[e][pn] # NULL
    BY <1>1, CowAssumption DEF NextPage, Call, TopStack, XSTACK, Pns
  <2>2. pt[e][pn] \in Ptes /\ pt[e][pn].page \in Pages
    BY <1>1, <2>1 DEF TypeOK, Ptes
  <2>3. /\ call'[e].at = "shared" /\ call'[e].child = c
        /\ \A f \in Envs : f # e => call'[f] = call[f]
    BY <1>a, <1>1, <1>5, Zenon DEF TypeOK, Call
  <2>4. KeepsVas /\ KeepsCopies(e)
    BY <1>5, SameData, Zenon
  <2>5. call[e].at \in Spawning /\ call'[e].at \in Spawning
    BY <1>1, <2>3, Zenon DEF Spawning
  <2>6. /\ \A f \in Envs : f # c => pt'[f] = pt[f]
        /\ \A b \in Pns : b # pn => pt'[c][b] = pt[c][b]
        /\ pt'[c][pn] = pt[e][pn]
    BY <1>1, <1>2, <1>5, <2>1, Zenon DEF TypeOK
  <2>7. /\ \A f \in Envs : f # e /\ f # c => pt'[f] = pt[f]
        /\ \A va \in Vas : pt'[e][va] = pt[e][va] /\ (va # pn => pt'[c][va] = pt[c][va])
    BY <1>2, <2>6, PageNumbers, Zenon
  <2>8. CASE pn \notin Vas
    <3>1. \A va \in Vas : pt'[e][va] = pt[e][va] /\ pt'[c][va] = pt[c][va]
      BY <2>7, <2>8, Zenon
    <3> QED BY <1>a, <1>1, <1>5, <2>3, <2>4, <2>5, <2>7, <3>1, SpawnUnseen
  <2>9. CASE pn \in Vas
    <3>1. pt'[c][pn] # NULL
      BY <2>1, <2>6, Zenon
    <3>2. SpawnGives(e, c, pn)
      BY <1>a, <1>1, <1>5, <2>3, <2>4, <2>5, <2>7, <2>9, <3>1, SpawnPage, Zenon
    <3>3. ~Hidden(e, pn)
      BY <1>1, <1>2, <2>1, <2>9, Known, Zenon DEF HiddenKnown
    <3>4. /\ view[e][pn] = data[pt[e][pn].page] /\ view[e][pn] # NULL
          /\ group[e][pn] = pt[e][pn].page
      BY <1>1, <1>5, <2>9, <3>3, Shown, Zenon
    <3>5. group[e][pn] # NULL
      BY <2>2, <3>4, CowAssumption, Zenon
    <3>6. /\ data'[pt'[c][pn].page] = view[e][pn]
          /\ pt'[c][pn].tag = "share" /\ pt'[c][pn].page = group[e][pn]
      BY <1>5, <2>6, <3>4, Zenon
    <3>7. Memory!Copy(e, c, pn)
      <4>1. maker' = maker /\ env_status' = env_status /\ maker[c].by = e
        BY <1>5, <3>2 DEF SpawnGives
      <4>2. view' = [view EXCEPT ![c][pn] = view[e][pn]]
        BY <3>2, <3>6, Zenon DEF SpawnGives
      <4>3. group' = [group EXCEPT ![c][pn] = group[e][pn]]
        BY <3>2, <3>6, Zenon DEF SpawnGives
      <4> QED BY <3>4, <3>5, <4>1, <4>2, <4>3, Zenon DEF Memory!Copy
    <3> QED BY <1>2, <2>9, <3>2, <3>7, AbstractSteps, Steps, Zenon DEF SpawnGives
  <2> QED BY <2>8, <2>9, Zenon
<1> QED BY <1>a, <1>3, <1>4, <1>5, Zenon DEF SpawnShared
-----------------------------------------------------------------------------

LEMMA InitMem == Init => MemInv /\ Memory!Init
<1> SUFFICES ASSUME Init PROVE MemInv /\ Memory!Init
  BY Zenon
<1>1. PICK e \in Envs, own \in [Vas -> Pages], v \in [Pages -> Values] :
        /\ pt = [f \in Envs |-> [pn \in Pns |->
                   IF f = e /\ pn \in Vas THEN Pte(own[pn], TRUE, "none") ELSE NULL]]
        /\ data = v
        /\ env_status = [f \in Envs |-> IF f = e THEN "run" ELSE "free"]
        /\ call = [f \in Envs |-> Idle]
        /\ pf = [f \in Envs |-> NoFault]
  BY Zenon DEF Init
<1>2. Inv
  BY InitInv, Zenon
<1>3. /\ \A f \in Envs : call[f].at = "none" /\ call[f].child = NULL /\ pf[f].at = "none"
      /\ env_status[e] = "run"
      /\ \A f \in Envs : f # e => env_status[f] = "free" /\ \A va \in Vas : pt[f][va] = NULL
  BY <1>1, IdleCall, PageNumbers, Zenon DEF NoFault
<1>4. \A va \in Vas : /\ pt[e][va] # NULL /\ pt[e][va].tag = "none"
                      /\ data[pt[e][va].page] \in Values
  <2>1. ASSUME NEW va \in Vas
        PROVE  /\ pt[e][va] # NULL /\ pt[e][va].tag = "none"
               /\ data[pt[e][va].page] \in Values
    <3>1. /\ own[va] \in Pages /\ TRUE \in BOOLEAN
          /\ "none" \in {"none", "cow", "share"} /\ va \in Pns
      BY <2>1, PageNumbers, Zenon
    <3>2. /\ Pte(own[va], TRUE, "none") # NULL /\ Pte(own[va], TRUE, "none").page = own[va]
          /\ Pte(own[va], TRUE, "none").tag = "none"
      BY <3>1, PteType, ZenonT(60)
    <3>3. pt[e][va] = Pte(own[va], TRUE, "none")
      BY <1>1, <2>1, <3>1, Zenon
    <3> QED BY <1>1, <3>1, <3>2, <3>3, Zenon
  <2> QED BY <2>1, Zenon
<1>5. MemInv
  BY <1>2, <1>3, Zenon DEF MemInv, OnStack, Duplicated, Copying, Forking
<1>6. \A f \in Envs : maker[f] = NoMaker
  BY <1>2, <1>3, Known, CowAssumption, ZenonT(40) DEF MakersKnown
<1>7. \A f \in Envs : f # e => \A va \in Vas : view[f][va] = NULL /\ group[f][va] = NULL
  <2>1. \A f \in Envs : f # e => \A va \in Vas : Hidden(f, va)
    BY <1>3, Zenon DEF Hidden
  <2> QED BY <1>2, <2>1, Known, Zenon DEF ViewsKnown
<1>8. \A va \in Vas : view[e][va] \in Values /\ group[e][va] = NULL
  <2>1. \A va \in Vas : ~Hidden(e, va)
    BY <1>2, <1>3, <1>4, Known, Zenon DEF HiddenKnown
  <2> QED BY <1>2, <1>4, <2>1, Known, Zenon DEF ViewsKnown, Seen, Group
<1>9. /\ view = [f \in Envs |-> view[f]] /\ group = [f \in Envs |-> group[f]]
      /\ maker = [f \in Envs |-> maker[f]]
      /\ \A f \in Envs : /\ view[f] = [va \in Vas |-> view[f][va]]
                         /\ group[f] = [va \in Vas |-> group[f][va]]
  BY Zenon DEF view, group, maker
<1>10. \A f \in Envs : group[f] = Memory!None /\ (f # e => view[f] = Memory!None)
  BY <1>7, <1>8, <1>9, ZenonT(60) DEF Memory!None
<1>11. view[e] \in [Vas -> Values \cup {NULL}]
  BY <1>8, <1>9, Zenon
<1>12. view = [f \in Envs |-> IF f = e THEN view[e] ELSE Memory!None]
  BY <1>9, <1>10, Zenon
<1>13. group = [f \in Envs |-> Memory!None] /\ maker = [f \in Envs |-> NoMaker]
  BY <1>6, <1>9, <1>10, Zenon
<1>14. Memory!Init
  BY <1>1, <1>11, <1>12, <1>13, Zenon DEF Memory!Init, NoMaker
<1> QED BY <1>5, <1>14, Zenon

LEMMA NextMem == MemInv /\ [Next]_vars => Kept
<1> SUFFICES ASSUME MemInv, [Next]_vars PROVE Kept
  BY Zenon
<1>1. CASE UNCHANGED vars
  <2>1. Inv'
    BY <1>1, NextInv, Zenon DEF MemInv
  <2>0. /\ pt' = pt /\ data' = data /\ env_status' = env_status /\ call' = call /\ pf' = pf
    BY <1>1, Zenon DEF vars
  <2>a. \A e, c \in Envs, va \in Vas :
          /\ Reached(e, va)' <=> Reached(e, va)
          /\ Alike(e, c, va)' <=> Alike(e, c, va)
    BY <2>0 DEF Reached, Alike
  <2>b. \A e, c \in Envs : Copying(e, c) => Copying(e, c)'
    BY <2>0, <2>a, Zenon DEF Copying
  <2>c. \A e \in Envs : OnStack(e) /\ Duplicated(e) => OnStack(e)' /\ Duplicated(e)'
    BY <2>0, Zenon DEF OnStack, Duplicated
  <2>2. MemInv'
    BY <2>1, <2>b, <2>c, Zenon DEF MemInv
  <2>d. \A c \in Envs : Made(c)' = Made(c)
    BY <2>0, Zenon DEF Made
  <2>e. \A e \in Envs, va \in Vas : Visible(e, va)' <=> Visible(e, va)
    BY <2>0, <2>d DEF Visible, InWindow
  <2>3. view' = view /\ group' = group /\ maker' = maker /\ env_status' = env_status
    <3>1. view' = view
      BY <2>0, <2>e, Zenon DEF view
    <3>2. group' = group
      BY <2>0, <2>e, Zenon DEF group
    <3>3. maker' = maker
      BY <2>0, <2>d, Zenon DEF maker
    <3> QED BY <2>0, <3>1, <3>2, <3>3, Zenon
  <2> QED BY <2>2, <2>3, Stutters, Zenon
<1>2. ASSUME NEW e \in Envs, User(e) PROVE Kept
  BY <1>2, PageFaultMem, SysPageUnmapMem, WriteMem, SysPageAllocMem, EnvFreeMem, Zenon
    DEF User, Destroy
<1>3. ASSUME NEW e \in Envs, Pgfault(e) PROVE Kept
  BY <1>3, PgfaultAllocMem, PgfaultCopyMem, PgfaultMapMem, PgfaultUnmapMem, Zenon DEF Pgfault
<1>4. ASSUME NEW e \in Envs, Fork(e) PROVE Kept
  <2>1. CASE ForkStart(e)
    BY <2>1, SetRunnableMem, Zenon DEF ForkStart
  <2> QED BY <1>4, <2>1, SetPgfaultHandlerMem, ForkExoforkMem, DuppageReadMem, DuppageChildMem,
             DuppageOwnMem, ForkXstackMem, ForkUpcallMem, Zenon DEF Fork
<1>5. ASSUME NEW e \in Envs, Spawn(e) PROVE Kept
  <2>1. CASE SpawnExofork(e)
    BY <2>1, ExoforkMem, PageNumbers, Zenon DEF SpawnExofork
  <2>2. CASE SpawnStart(e)
    BY <2>2, SetRunnableMem, Zenon DEF SpawnStart
  <2>3. ASSUME NEW w \in BOOLEAN, SpawnGive(e, w) \/ SpawnBlank(e, w) PROVE Kept
    BY <2>3, SpawnGiveMem, SpawnBlankMem, Zenon
  <2> QED BY <1>5, <2>1, <2>2, <2>3, SpawnReadFailsMem, SpawnSkipMem, SpawnUnmapMem,
             SpawnCloseMem, SpawnSharedMem, SpawnLoadMem, Zenon DEF Spawn
<1> QED BY <1>1, <1>2, <1>3, <1>4, <1>5, Zenon DEF Next

\* fork() with copy-on-write, the page fault handler, spawn() and the exits of any
\* number of environments, in any interleaving, implement memory that is copied
\* when it is asked for (ForkMem): no program can tell from what is in its pages
\* that a copy was put off, and a child of fork() starts with what its parent has.
THEOREM MemoryImplemented == Spec => MemorySpec
<1>1. Init => MemInv /\ Memory!Init
  BY InitMem, Zenon
<1>2. MemInv /\ [Next]_vars => MemInv' /\ [Memory!Next]_(Memory!vars)
  BY NextMem, Zenon DEF Kept
<1> QED BY <1>1, <1>2, PTL DEF Spec, MemorySpec, Memory!Spec
=============================================================================
