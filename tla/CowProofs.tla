------------------------------ MODULE CowProofs -----------------------------
(***************************************************************************)
(* Proofs about fork(), spawn() and the page fault handler, for any number *)
(* of environments and pages.                                              *)
(*                                                                         *)
(* Isolation alone is not inductive: it needs to know what the entries of  *)
(* an environment look like at each point of its call and of its fault     *)
(* (Calling, Handling), above all that the permissions duppage() has read  *)
(* still suit the entry it changes after a page fault in between (Suits).  *)
(***************************************************************************)
EXTENDS Cow, TLAPS

\* An environment that does not run is in no call and no fault; a free one has
\* nothing.
Quiet(e) ==
  /\ env_status[e] # "run" => call[e].at = "none" /\ call[e].child = NULL /\ pf[e].at = "none"
  /\ env_status[e] = "free" => ~upcall[e] /\ \A pn \in Pns : pt[e][pn] = NULL

\* The child is nobody else's, and does not run.
Parent(e) ==
  /\ call[e].child = NULL <=> call[e].at \in {"none", "exofork"}
  /\ call[e].child # NULL =>
       /\ env_status[call[e].child] = "making"
       /\ \A f \in Envs : call[f].child = call[e].child => f = e

\* Copy-on-write pages cannot be written, shared ones can.
Tagged(q) == q # NULL => (q.tag = "cow" => ~q.w) /\ (q.tag = "share" => q.w)

\* A new page of the environment's own.
Own(q) == q # NULL /\ q.w /\ q.tag = "none"

\* What the fault handler has at PFTEMP.
Handling(e) ==
  /\ pf[e].at # "none" => pf[e].pn \in Vas
  /\ pf[e].at \in {"none", "alloc"} => pt[e][PFTEMP] = NULL
  /\ pf[e].at \in {"copy", "map", "unmap"} => Own(pt[e][PFTEMP])
  /\ pf[e].at \in {"copy", "map"} => pt[e][pf[e].pn] # NULL /\ pt[e][pf[e].pn].tag = "cow"

\* The permissions duppage() has chosen still suit the entry q, although the page
\* may have been replaced by a page fault since.
Suits(k, q) ==
  /\ q # NULL
  /\ k.tag = "share" => q.tag = "share" /\ k.w
  /\ k.tag = "cow" => q.tag # "share" /\ ~k.w /\ k.again
  /\ k.tag = "none" => q.tag = "none" /\ ~q.w /\ ~k.w /\ ~k.again

Calling(e) ==
  LET k == call[e]
  IN  /\ k.at \in {"child", "own"} =>
           k.pn # PFTEMP /\ k.pn # XSTACK /\ Suits(k.perm, pt[e][k.pn])
      /\ k.at = "own" => k.perm.again
      /\ k.at \in {"load", "give", "unmap"} => k.pn \in Vas
      /\ k.at = "give" => Own(pt[e][UTEMP])
      /\ k.at \in Forking => upcall[e]
      /\ k.at = "upcall" => CanWrite(k.child, XSTACK)
      /\ k.at = "status" => upcall[k.child]
      /\ k.at \in Spawning =>
           /\ ~upcall[k.child]
           /\ \A pn \in Pns : pt[k.child][pn] # NULL => pt[k.child][pn].tag # "cow"

\* An environment with a handler has an exception stack to run it on, and one
\* that runs with copy-on-write pages has a handler.
Handled(e) ==
  /\ upcall[e] => CanWrite(e, XSTACK)
  /\ env_status[e] = "run" /\ (\E pn \in Pns : pt[e][pn] # NULL /\ pt[e][pn].tag = "cow")
       => upcall[e]

\* The invariant.
Inv ==
  /\ TypeOK
  /\ \A e \in Envs : Quiet(e) /\ Parent(e) /\ Handling(e) /\ Calling(e) /\ Handled(e)
  /\ \A e \in Envs, pn \in Pns : Tagged(pt[e][pn])
  /\ Isolation
-----------------------------------------------------------------------------
(* What is common to the steps. *)

Local(e) == Quiet(e) /\ Handling(e) /\ Calling(e) /\ Handled(e)

\* A step does not touch environment f.
Untouched(f) ==
  /\ pt'[f] = pt[f] /\ call'[f] = call[f] /\ pf'[f] = pf[f]
  /\ upcall'[f] = upcall[f] /\ env_status'[f] = env_status[f]

LEMMA Frame ==
  ASSUME NEW f \in Envs, Local(f), Parent(f), Untouched(f),
         call[f].child # NULL => Untouched(call[f].child)
  PROVE  Local(f)'
<1>1. Quiet(f)' /\ Handling(f)' /\ Handled(f)'
  BY DEF Local, Untouched, Quiet, Handling, Handled, CanWrite
<1>2. Calling(f)'
  BY ZenonT(60) DEF Local, Parent, Untouched, Calling, CanWrite, Forking, Spawning
<1> QED BY <1>1, <1>2, Zenon DEF Local

LEMMA KeepSelf ==
  ASSUME NEW e \in Envs, Local(e), env_status[e] = "run", env_status'[e] = env_status[e],
         pt'[e] = pt[e], upcall'[e] = upcall[e], pf'[e] = pf[e]
  PROVE  Quiet(e)' /\ Handling(e)' /\ Handled(e)'
  BY Zenon DEF Local, Quiet, Handling, Handled, CanWrite

\* A step of e, which may also change c, a child that is or becomes e's own or
\* ends as one.
LEMMA StepOf ==
  ASSUME Inv, TypeOK', NEW e \in Envs, NEW c \in Envs \cup {NULL}, c # e,
         env_status[e] = "run",
         c # NULL => \A f \in Envs : f # e => call[f].child # c,
         \A f \in Envs : f # e /\ f # c => Untouched(f),
         Parent(e)', Local(e)',
         c # NULL => call'[c].child = NULL /\ call'[c].at = "none" /\ Local(c)',
         \A f \in Envs, pn \in Pns : Tagged(pt'[f][pn]),
         Isolation'
  PROVE  Inv'
<1>1. ASSUME NEW f \in Envs, f # e, f # c
      PROVE  Local(f)' /\ Parent(f)'
  <2> DEFINE d == call[f].child
  <2>1. /\ Local(f) /\ Untouched(f) /\ Parent(f) /\ d \in Envs \cup {NULL}
        /\ call'[f].child = d /\ call'[f].at = call[f].at
    BY <1>1, Zenon DEF Inv, Local, TypeOK, Call, Untouched
  <2>2. d # NULL => env_status[d] = "making" /\ \A g \in Envs : call[g].child = d => g = f
    BY <2>1, Zenon DEF Parent
  <2>3. d # NULL => d # e /\ d # c
    BY <1>1, <2>2, Zenon
  <2>4. d # NULL => Untouched(d)
    BY <2>1, <2>3, Zenon
  <2>5. Local(f)'
    BY <2>1, <2>4, Frame, Zenon
  <2>6. ASSUME d # NULL, NEW g \in Envs, call'[g].child = d
        PROVE  g = f
    <3>1. CASE g = e
      BY <1>1, <2>1, <2>6, <3>1, Zenon DEF Parent
    <3>2. CASE g = c
      BY <2>6, <3>2, CowAssumption, Zenon
    <3>3. CASE g # e /\ g # c
      BY <2>2, <2>6, <3>3, Zenon DEF Untouched
    <3> QED BY <3>1, <3>2, <3>3, Zenon
  <2> HIDE DEF d
  <2>7. d # NULL => env_status'[d] = "making"
    BY <2>2, <2>4, Zenon DEF Untouched
  <2>8. call'[f].child = NULL <=> call'[f].at \in {"none", "exofork"}
    BY <2>1, Zenon DEF Parent, d
  <2>9. Parent(f)'
    BY <2>1, <2>6, <2>7, <2>8, Zenon DEF Parent
  <2> QED BY <2>5, <2>9, Zenon
<1>2. ASSUME c # NULL PROVE Parent(c)'
  BY <1>2, Zenon DEF Parent
<1>3. \A f \in Envs : Local(f)' /\ Parent(f)'
  BY <1>1, <1>2, CowAssumption, Zenon
<1> QED BY <1>3, Zenon DEF Inv, Local
-----------------------------------------------------------------------------
(* Isolation. *)

\* No other entry maps the page of this one.
Alone(e, a) ==
  \A f \in Envs, b \in Pns :
    (f # e \/ b # a) /\ pt[f][b] # NULL => pt[f][b].page # pt[e][a].page

\* The reasons for which a page that can be written at a in e may be at b in f.
Excused(e, a, f, b) ==
  \/ pt[e][a].tag = "share" /\ pt[f][b].tag = "share"
  \/ a = b /\ InWindow(e, f, a)
  \/ a = UTEMP /\ Given(e, f, b)
  \/ b = UTEMP /\ Given(f, e, a)
  \/ /\ e = f /\ pf[e].at = "unmap"
     /\ (a = PFTEMP /\ b = pf[e].pn) \/ (b = PFTEMP /\ a = pf[e].pn)

LEMMA IsolationForm ==
  ASSUME Isolation, NEW e \in Envs, NEW f \in Envs, NEW a \in Pns, NEW b \in Pns,
         e # f \/ a # b, pt[e][a] # NULL, pt[f][b] # NULL,
         pt[e][a].page = pt[f][b].page, pt[e][a].w
  PROVE  Excused(e, a, f, b)
<1>1. e = f => a # b
  BY Zenon
<1>2. \/ pt[e][a].tag = "share" /\ pt[f][b].tag = "share"
      \/ a = b /\ InWindow(e, f, a)
      \/ a = UTEMP /\ Given(e, f, b)
      \/ b = UTEMP /\ Given(f, e, a)
      \/ e = f /\ pf[e].at = "unmap" /\ {a, b} = {PFTEMP, pf[e].pn}
  BY DEF Isolation
<1>3. ASSUME {a, b} = {PFTEMP, pf[e].pn}, a # b
      PROVE  (a = PFTEMP /\ b = pf[e].pn) \/ (b = PFTEMP /\ a = pf[e].pn)
  <2>1. a \in {a, b} /\ b \in {a, b}
    BY Zenon
  <2>2. a \in {PFTEMP, pf[e].pn} /\ b \in {PFTEMP, pf[e].pn}
    BY <1>3, <2>1, Zenon
  <2> QED BY <1>3, <2>2, Zenon
<1> QED BY <1>1, <1>2, <1>3, Zenon DEF Excused

LEMMA IsolationForm2 ==
  ASSUME \A e, f \in Envs, a, b \in Pns :
           (e # f \/ a # b) /\ pt'[e][a] # NULL /\ pt'[f][b] # NULL
           /\ pt'[e][a].page = pt'[f][b].page /\ pt'[e][a].w => Excused(e, a, f, b)'
  PROVE  Isolation'
<1> SUFFICES ASSUME NEW e \in Envs, NEW f \in Envs, NEW a \in Pns, NEW b \in Pns,
                    <<e, a>> # <<f, b>>, pt'[e][a] # NULL, pt'[f][b] # NULL,
                    pt'[e][a].page = pt'[f][b].page, pt'[e][a].w
             PROVE  \/ pt'[e][a].tag = "share" /\ pt'[f][b].tag = "share"
                    \/ a = b /\ InWindow(e, f, a)'
                    \/ a = UTEMP /\ Given(e, f, b)'
                    \/ b = UTEMP /\ Given(f, e, a)'
                    \/ e = f /\ pf'[e].at = "unmap" /\ {a, b} = {PFTEMP, pf'[e].pn}
  BY DEF Isolation
<1>1. e # f \/ a # b
  BY Zenon
<1>2. Excused(e, a, f, b)'
  BY <1>1, Zenon
<1>3. (a = PFTEMP /\ b = pf'[e].pn) \/ (b = PFTEMP /\ a = pf'[e].pn) => {a, b} = {PFTEMP, pf'[e].pn}
  BY Zenon
<1> QED BY <1>2, <1>3, Zenon DEF Excused

\* A pair that is excused stays so while the moment that excuses it lasts.
LEMMA KeepExcused ==
  ASSUME NEW e \in Envs, NEW f \in Envs, NEW a \in Pns, NEW b \in Pns, Excused(e, a, f, b),
         pt'[e][a] = pt[e][a], pt'[f][b] = pt[f][b],
         call[e].at = "own" => call'[e] = call[e],
         call[e].at = "unmap" /\ a = UTEMP => call'[e] = call[e],
         call[f].at = "unmap" /\ b = UTEMP => call'[f] = call[f],
         pf[e].at = "unmap" => pf'[e] = pf[e]
  PROVE  Excused(e, a, f, b)'
<1>1. ASSUME a = b, InWindow(e, f, a) PROVE InWindow(e, f, a)'
  <2>1. pt'[f][a] = pt[f][a] /\ call'[e] = call[e]
    BY <1>1, Zenon DEF InWindow
  <2> QED BY <1>1, <2>1 DEF InWindow
<1>2. ASSUME a = UTEMP, Given(e, f, b) PROVE Given(e, f, b)'
  BY <1>2, Zenon DEF Given
<1>3. ASSUME b = UTEMP, Given(f, e, a) PROVE Given(f, e, a)'
  BY <1>3, Zenon DEF Given
<1>4. CASE pt[e][a].tag = "share" /\ pt[f][b].tag = "share"
  BY <1>4, Zenon DEF Excused
<1>5. CASE a = b /\ InWindow(e, f, a)
  BY <1>1, <1>5, Zenon DEF Excused
<1>6. CASE a = UTEMP /\ Given(e, f, b)
  BY <1>2, <1>6, Zenon DEF Excused
<1>7. CASE b = UTEMP /\ Given(f, e, a)
  BY <1>3, <1>7, Zenon DEF Excused
<1>8. CASE /\ e = f /\ pf[e].at = "unmap"
           /\ (a = PFTEMP /\ b = pf[e].pn) \/ (b = PFTEMP /\ a = pf[e].pn)
  BY <1>8, Zenon DEF Excused
<1> QED BY <1>4, <1>5, <1>6, <1>7, <1>8, Zenon DEF Excused

\* Entries that are removed, or replaced by entries for pages that nothing else
\* maps, disturb nothing.
LEMMA KeepIsolated ==
  ASSUME Isolation,
         \A e \in Envs, a \in Pns :
           pt'[e][a] # NULL =>
             \/ /\ pt'[e][a] = pt[e][a]
                /\ call[e].at \in {"own", "unmap"} => call'[e] = call[e]
                /\ pf[e].at = "unmap" => pf'[e] = pf[e]
             \/ Alone(e, a)'
  PROVE  Isolation'
<1> SUFFICES ASSUME NEW e \in Envs, NEW f \in Envs, NEW a \in Pns, NEW b \in Pns,
                    e # f \/ a # b, pt'[e][a] # NULL, pt'[f][b] # NULL,
                    pt'[e][a].page = pt'[f][b].page, pt'[e][a].w
             PROVE  Excused(e, a, f, b)'
  BY IsolationForm2
<1>1. ~Alone(e, a)' /\ ~Alone(f, b)'
  BY Zenon DEF Alone
<1>2. /\ pt'[e][a] = pt[e][a] /\ pt'[f][b] = pt[f][b]
      /\ call[e].at \in {"own", "unmap"} => call'[e] = call[e]
      /\ call[f].at \in {"own", "unmap"} => call'[f] = call[f]
      /\ pf[e].at = "unmap" => pf'[e] = pf[e]
  BY <1>1, Zenon
<1>3. Excused(e, a, f, b)
  BY <1>2, IsolationForm, Zenon
<1> QED BY <1>2, <1>3, KeepExcused, Zenon
-----------------------------------------------------------------------------
(* Facts about the actors. *)

LEMMA SameInv ==
  ASSUME Inv, TypeOK', UNCHANGED <<pt, env_status, upcall, call, pf>>
  PROVE  Inv'
<1>1. ASSUME NEW e \in Envs
      PROVE  Quiet(e)' /\ Parent(e)' /\ Handling(e)' /\ Calling(e)' /\ Handled(e)'
  BY DEF Inv, Quiet, Parent, Handling, Calling, Handled, CanWrite
<1>2. Isolation'
  BY DEF Inv, Isolation, InWindow, Given
<1> QED BY <1>1, <1>2, Zenon DEF Inv

LEMMA PanicInv == Inv /\ Panic => Inv'
  BY SameInv, Zenon DEF Panic, Inv, TypeOK

\* An environment in its own code, and the child it makes.
LEMMA Actor ==
  ASSUME Inv, NEW e \in Envs, Runs(e)
  PROVE  /\ Local(e) /\ Parent(e)
         /\ env_status[e] = "run" /\ pf[e].at = "none" /\ pt[e][PFTEMP] = NULL
         /\ call[e] \in Call /\ pf[e] \in Fault
  BY DEF Inv, Runs, Local, Handling, NoFault, TypeOK

LEMMA Child ==
  ASSUME Inv, NEW e \in Envs, Runs(e), call[e].at \notin {"none", "exofork"}, NEW c, c = call[e].child
  PROVE  /\ c \in Envs /\ c # e /\ c # NULL
         /\ env_status[c] = "making" /\ call[c].at = "none" /\ call[c].child = NULL
         /\ pf[c].at = "none" /\ pt[c][PFTEMP] = NULL
         /\ \A f \in Envs : f # e => call[f].child # c
         /\ Local(c) /\ Parent(c)
<1>1. Parent(e) /\ call[e] \in Call /\ env_status[e] = "run"
  BY Actor, Zenon
<1>2. c # NULL
  BY <1>1, Zenon DEF Parent
<1>3. c \in Envs /\ env_status[c] = "making" /\ \A f \in Envs : call[f].child = c => f = e
  BY <1>1, <1>2, Zenon DEF Parent, Call
<1>4. Quiet(c) /\ Handling(c) /\ Local(c) /\ Parent(c)
  BY <1>3, Zenon DEF Inv, Local
<1>5. call[c].at = "none" /\ call[c].child = NULL /\ pf[c].at = "none" /\ pt[c][PFTEMP] = NULL
  BY <1>3, <1>4, Zenon DEF Quiet, Handling
<1> QED BY <1>1, <1>2, <1>3, <1>4, <1>5, Zenon

\* What spawn() gives, it gives to an environment that does not run, below its
\* exception stack.
LEMMA NotGiven ==
  ASSUME Inv, NEW e \in Envs, NEW f \in Envs, NEW a
  PROVE  /\ env_status[e] # "making" => ~Given(f, e, a)
         /\ a \notin Vas => ~Given(f, e, a)
<1>1. Parent(f) /\ Calling(f)
  BY Zenon DEF Inv
<1>2. e # NULL
  BY CowAssumption, Zenon
<1> QED BY <1>1, <1>2, Zenon DEF Parent, Calling, Given

LEMMA PteType ==
  ASSUME NEW p \in Pages, NEW w \in BOOLEAN, NEW tag \in {"none", "cow", "share"}
  PROVE  /\ Pte(p, w, tag) \in Ptes /\ Pte(p, w, tag) # NULL
         /\ Pte(p, w, tag).page = p /\ Pte(p, w, tag).w = w /\ Pte(p, w, tag).tag = tag
  BY CowAssumption DEF Pte, Ptes

LEMMA PageNumbers ==
  /\ UTEMP \in Pns /\ PFTEMP \in Pns /\ XSTACK \in Pns /\ TopStack \in Pns /\ TopStack \in Vas
  /\ UTEMP # PFTEMP /\ UTEMP # XSTACK /\ PFTEMP # XSTACK
  /\ \A va \in Vas : va \in Pns /\ va # UTEMP /\ va # PFTEMP /\ va # XSTACK
  BY CowAssumption DEF UTEMP, PFTEMP, XSTACK, TopStack, Vas, Pns

\* The steps in which duppage(), spawn() and the fault handler are at their two
\* mappings of one page are the only ones that end those moments.
KeepsWindows ==
  \A f \in Envs : /\ call[f].at \in {"own", "unmap"} => call'[f] = call[f]
                  /\ pf[f].at = "unmap" => pf'[f] = pf[f]

LEMMA Entered ==
  ASSUME Inv, KeepsWindows, NEW d \in Envs, NEW a \in Pns,
         \A f \in Envs, b \in Pns : f # d \/ b # a => pt'[f][b] = pt[f][b],
         pt'[d][a] # NULL => Tagged(pt'[d][a]) /\ Free(pt'[d][a].page)
  PROVE  Isolation' /\ \A f \in Envs, b \in Pns : Tagged(pt'[f][b])
<1>1. pt'[d][a] # NULL => Alone(d, a)'
  BY DEF Alone, Free
<1>2. \A f \in Envs, b \in Pns :
        pt'[f][b] # NULL =>
          \/ /\ pt'[f][b] = pt[f][b]
             /\ call[f].at \in {"own", "unmap"} => call'[f] = call[f]
             /\ pf[f].at = "unmap" => pf'[f] = pf[f]
          \/ Alone(f, b)'
  BY <1>1, Zenon DEF KeepsWindows
<1>3. Isolation'
  BY <1>2, KeepIsolated, Zenon DEF Inv
<1>4. \A f \in Envs, b \in Pns : Tagged(pt'[f][b])
  BY DEF Inv, Tagged
<1> QED BY <1>3, <1>4, Zenon

LEMMA Allocated ==
  ASSUME Inv, KeepsWindows, NEW d \in Envs, NEW a \in Pns, NEW p \in Pages, NEW w \in BOOLEAN,
         NEW tag \in {"none", "share"}, tag = "share" => w, Free(p),
         pt' = [pt EXCEPT ![d][a] = Pte(p, w, tag)]
  PROVE  /\ pt' \in [Envs -> [Pns -> Ptes \cup {NULL}]]
         /\ \A f \in Envs : f # d => pt'[f] = pt[f]
         /\ \A f \in Envs, b \in Pns : f # d \/ b # a => pt'[f][b] = pt[f][b]
         /\ pt'[d][a] # NULL /\ pt'[d][a].w = w /\ pt'[d][a].tag = tag
         /\ Isolation'
         /\ \A f \in Envs, b \in Pns : Tagged(pt'[f][b])
<1> DEFINE q == Pte(p, w, tag)
<1>0. TypeOK
  BY Zenon DEF Inv
<1>1. q \in Ptes /\ q # NULL /\ q.page = p /\ q.w = w /\ q.tag = tag
  BY PteType
<1>2. pt' = [pt EXCEPT ![d][a] = q]
  BY Zenon
<1> HIDE DEF q
<1>3. /\ pt' \in [Envs -> [Pns -> Ptes \cup {NULL}]]
      /\ \A f \in Envs : f # d => pt'[f] = pt[f]
      /\ \A f \in Envs, b \in Pns : f # d \/ b # a => pt'[f][b] = pt[f][b]
      /\ pt'[d][a] = q
  BY <1>0, <1>1, <1>2 DEF TypeOK
<1>4. Tagged(q)
  BY <1>1, Zenon DEF Tagged
<1>5. Isolation' /\ \A f \in Envs, b \in Pns : Tagged(pt'[f][b])
  BY <1>1, <1>3, <1>4, Entered
<1> QED BY <1>1, <1>3, <1>5, Zenon

LEMMA Unmapped ==
  ASSUME Inv, KeepsWindows, NEW d \in Envs, NEW a \in Pns, pt' = [pt EXCEPT ![d][a] = NULL]
  PROVE  /\ pt' \in [Envs -> [Pns -> Ptes \cup {NULL}]]
         /\ \A f \in Envs : f # d => pt'[f] = pt[f]
         /\ \A f \in Envs, b \in Pns : f # d \/ b # a => pt'[f][b] = pt[f][b]
         /\ pt'[d][a] = NULL
         /\ Isolation'
         /\ \A f \in Envs, b \in Pns : Tagged(pt'[f][b])
<1>0. TypeOK
  BY Zenon DEF Inv
<1>3. /\ pt' \in [Envs -> [Pns -> Ptes \cup {NULL}]]
      /\ \A f \in Envs : f # d => pt'[f] = pt[f]
      /\ \A f \in Envs, b \in Pns : f # d \/ b # a => pt'[f][b] = pt[f][b]
      /\ pt'[d][a] = NULL
  BY <1>0, Zenon DEF TypeOK
<1>5. Isolation' /\ \A f \in Envs, b \in Pns : Tagged(pt'[f][b])
  BY <1>3, Entered
<1> QED BY <1>3, <1>5, Zenon

LEMMA SamePages ==
  ASSUME Inv, KeepsWindows, pt' = pt
  PROVE  Isolation' /\ \A f \in Envs, b \in Pns : Tagged(pt'[f][b])
<1>1. Isolation'
  BY KeepIsolated, Zenon DEF Inv, KeepsWindows
<1> QED BY <1>1, Zenon DEF Inv
-----------------------------------------------------------------------------
(* User code. *)

LEMMA WriteInv ==
  ASSUME Inv, NEW e \in Envs, NEW va \in Vas, NEW v \in Values, Write(e, va, v)
  PROVE  Inv'
<1>1. pt[e][va].page \in Pages
  BY PageNumbers DEF Inv, TypeOK, Write, CanWrite, Ptes
<1>2. TypeOK'
  BY <1>1, Zenon DEF Inv, TypeOK, Write
<1> QED BY <1>2, SameInv, Zenon DEF Write

LEMMA EnvFreeInv ==
  ASSUME Inv, NEW e \in Envs, env_status[e] = "run", EnvFree(e)
  PROVE  Inv'
<1>0. NULL # e /\ NULL \in Envs \cup {NULL}
  BY CowAssumption, Zenon
<1>1. TypeOK'
  BY PageNumbers, Zenon DEF Inv, TypeOK, EnvFree, Empty, Idle, NoPerm, Call, NoFault, Fault, Pns, UTEMP
<1>2. /\ \A f \in Envs : f # e => Untouched(f)
      /\ \A pn \in Pns : pt'[e][pn] = NULL
      /\ env_status'[e] = "free" /\ ~upcall'[e]
      /\ call'[e].at = "none" /\ call'[e].child = NULL /\ pf'[e].at = "none"
  BY Zenon DEF Inv, TypeOK, EnvFree, Untouched, Empty, Idle, NoFault
<1>3. Parent(e)'
  BY <1>2, Zenon DEF Parent
<1>4. Local(e)'
  BY <1>2, PageNumbers, Zenon DEF Local, Quiet, Handling, Calling, Handled, Forking, Spawning
<1>5. \A f \in Envs, pn \in Pns : pt'[f][pn] # NULL => f # e /\ pt'[f][pn] = pt[f][pn]
  BY <1>2, Zenon DEF Untouched
<1>6. Isolation'
  BY <1>2, <1>5, KeepIsolated, Zenon DEF Inv, Untouched
<1>7. \A f \in Envs, pn \in Pns : Tagged(pt'[f][pn])
  BY <1>5 DEF Inv, Tagged
<1> QED BY <1>0, <1>1, <1>2, <1>3, <1>4, <1>6, <1>7, StepOf, Zenon

LEMMA PageFaultInv ==
  ASSUME Inv, NEW e \in Envs, NEW va \in Vas, PageFault(e, va)
  PROVE  Inv'
<1>0. NULL # e /\ NULL \in Envs \cup {NULL}
  BY CowAssumption, Zenon
<1>1. Runs(e)
  BY Zenon DEF PageFault, MayWrite
<1>2. CASE ~(upcall[e] /\ CanWrite(e, XSTACK))
  BY <1>1, <1>2, EnvFreeInv, Zenon DEF PageFault, Runs
<1>3. CASE upcall[e] /\ CanWrite(e, XSTACK)
  <2>1. /\ pf' = [pf EXCEPT ![e] = [at |-> "alloc", pn |-> va]]
        /\ UNCHANGED <<pt, data, env_status, upcall, call, halted>>
    BY <1>3, Zenon DEF PageFault
  <2>2. TypeOK'
    BY <2>1, PageNumbers, Zenon DEF Inv, TypeOK, Fault
  <2>3. /\ \A f \in Envs : f # e => Untouched(f)
        /\ pf'[e].at = "alloc" /\ pf'[e].pn = va
    BY <2>1, Zenon DEF Inv, TypeOK, Untouched
  <2>4. Local(e) /\ Parent(e) /\ env_status[e] = "run" /\ pf[e].at = "none" /\ pt[e][PFTEMP] = NULL
    BY <1>1, Actor, Zenon
  <2>5. KeepsWindows
    BY <2>1, <2>3, <2>4, Zenon DEF KeepsWindows, Untouched
  <2>6. Isolation' /\ \A f \in Envs, b \in Pns : Tagged(pt'[f][b])
    BY <2>1, <2>5, SamePages, Zenon
  <2>7. Parent(e)'
    BY <2>1, <2>4, Zenon DEF Parent
  <2>8. Local(e)'
    BY <2>1, <2>3, <2>4, ZenonT(60) DEF Local, Quiet, Handling, Calling, Handled, CanWrite
  <2> QED BY <1>0, <2>2, <2>3, <2>4, <2>6, <2>7, <2>8, StepOf, Zenon
<1> QED BY <1>2, <1>3, Zenon

LEMMA SysPageAllocInv ==
  ASSUME Inv, NEW e \in Envs, NEW va \in Vas, NEW tag \in {"none", "share"},
         SysPageAlloc(e, va, tag)
  PROVE  Inv'
<1>0. NULL # e /\ NULL \in Envs \cup {NULL} /\ va \in Pns /\ va # XSTACK /\ va # PFTEMP
  BY CowAssumption, PageNumbers, Zenon
<1>1. /\ Runs(e) /\ call[e].at = "none"
      /\ UNCHANGED <<env_status, upcall, call, pf, halted>>
  BY Zenon DEF SysPageAlloc, At
<1>2. PICK p \in Pages : PageAlloc(e, va, p, TRUE, tag)
  BY Zenon DEF SysPageAlloc
<1>3. KeepsWindows
  BY <1>1, Zenon DEF KeepsWindows
<1>4. /\ pt' \in [Envs -> [Pns -> Ptes \cup {NULL}]]
      /\ \A f \in Envs : f # e => pt'[f] = pt[f]
      /\ \A f \in Envs, b \in Pns : f # e \/ b # va => pt'[f][b] = pt[f][b]
      /\ pt'[e][va] # NULL /\ pt'[e][va].w = TRUE /\ pt'[e][va].tag = tag
      /\ Isolation' /\ \A f \in Envs, b \in Pns : Tagged(pt'[f][b])
  BY <1>0, <1>2, <1>3, Allocated, Zenon DEF PageAlloc
<1>5. TypeOK'
  BY <1>1, <1>2, <1>4, CowAssumption, Zenon DEF Inv, TypeOK, PageAlloc
<1>6. \A f \in Envs : f # e => Untouched(f)
  BY <1>1, <1>4, Zenon DEF Untouched
<1>7. Local(e) /\ Parent(e) /\ env_status[e] = "run" /\ pf[e].at = "none"
  BY <1>1, Actor, Zenon
<1>8. Parent(e)'
  BY <1>1, <1>7, Zenon DEF Parent
<1>9. Local(e)'
  BY <1>0, <1>1, <1>4, <1>7, PageNumbers, ZenonT(60)
    DEF Local, Quiet, Handling, Calling, Handled, CanWrite, Forking, Spawning
<1> QED BY <1>0, <1>4, <1>5, <1>6, <1>7, <1>8, <1>9, StepOf, Zenon

LEMMA SysPageUnmapInv ==
  ASSUME Inv, NEW e \in Envs, NEW va \in Vas, SysPageUnmap(e, va)
  PROVE  Inv'
<1>0. NULL # e /\ NULL \in Envs \cup {NULL} /\ va \in Pns /\ va # XSTACK /\ va # PFTEMP
  BY CowAssumption, PageNumbers, Zenon
<1>1. /\ Runs(e) /\ call[e].at = "none" /\ pt' = [pt EXCEPT ![e][va] = NULL]
      /\ UNCHANGED <<data, env_status, upcall, call, pf, halted>>
  BY Zenon DEF SysPageUnmap, At
<1>3. KeepsWindows
  BY <1>1, Zenon DEF KeepsWindows
<1>4. /\ pt' \in [Envs -> [Pns -> Ptes \cup {NULL}]]
      /\ \A f \in Envs : f # e => pt'[f] = pt[f]
      /\ \A f \in Envs, b \in Pns : f # e \/ b # va => pt'[f][b] = pt[f][b]
      /\ pt'[e][va] = NULL
      /\ Isolation' /\ \A f \in Envs, b \in Pns : Tagged(pt'[f][b])
  BY <1>0, <1>1, <1>3, Unmapped, Zenon
<1>5. TypeOK'
  BY <1>1, <1>4, Zenon DEF Inv, TypeOK
<1>6. \A f \in Envs : f # e => Untouched(f)
  BY <1>1, <1>4, Zenon DEF Untouched
<1>7. Local(e) /\ Parent(e) /\ env_status[e] = "run" /\ pf[e].at = "none"
  BY <1>1, Actor, Zenon
<1>8. Parent(e)'
  BY <1>1, <1>7, Zenon DEF Parent
<1>9. Local(e)'
  BY <1>0, <1>1, <1>4, <1>7, PageNumbers, ZenonT(60)
    DEF Local, Quiet, Handling, Calling, Handled, CanWrite, Forking, Spawning
<1> QED BY <1>0, <1>4, <1>5, <1>6, <1>7, <1>8, <1>9, StepOf, Zenon
-----------------------------------------------------------------------------
(* The fault handler. *)

LEMMA Faulting ==
  ASSUME Inv, NEW e \in Envs, pf[e].at # "none"
  PROVE  /\ Local(e) /\ Parent(e) /\ env_status[e] = "run"
         /\ call[e] \in Call /\ pf[e] \in Fault
         /\ pf[e].pn \in Vas /\ pf[e].pn \in Pns /\ pf[e].pn # PFTEMP /\ pf[e].pn # XSTACK
         /\ pf[e].pn # UTEMP
         /\ call[e].child # NULL => call[e].child \in Envs /\ call[e].child # e
<1>1. Quiet(e) /\ Handling(e) /\ Parent(e) /\ Local(e) /\ TypeOK
  BY Zenon DEF Inv, Local
<1>2. env_status[e] = "run" /\ pf[e].pn \in Vas /\ call[e] \in Call /\ pf[e] \in Fault
  BY <1>1, Zenon DEF Quiet, Handling, TypeOK
<1>3. call[e].child # NULL => call[e].child \in Envs /\ call[e].child # e
  BY <1>1, <1>2, Zenon DEF Parent, Call
<1> QED BY <1>1, <1>2, <1>3, PageNumbers, Zenon

LEMMA PgfaultAllocInv ==
  ASSUME Inv, NEW e \in Envs, PgfaultAlloc(e)
  PROVE  Inv'
<1> DEFINE q == pt[e][pf[e].pn]
<1>0. NULL # e /\ NULL \in Envs \cup {NULL}
  BY CowAssumption, Zenon
<1>1. pf[e].at = "alloc"
  BY Zenon DEF PgfaultAlloc, FaultAt
<1>2. CASE Panic
  BY <1>2, PanicInv, Zenon
<1>3. CASE ~Panic
  <2>1. /\ q # NULL /\ q.tag = "cow" /\ pf' = [pf EXCEPT ![e].at = "copy"]
        /\ UNCHANGED <<env_status, upcall, call, halted>>
        /\ \E p \in Pages : PageAlloc(e, PFTEMP, p, TRUE, "none")
    BY <1>3, Zenon DEF PgfaultAlloc
  <2>2. PICK p \in Pages : PageAlloc(e, PFTEMP, p, TRUE, "none")
    BY <2>1, Zenon
  <2> DEFINE a == pf[e].pn
  <2>3. /\ Local(e) /\ Parent(e) /\ env_status[e] = "run"
        /\ call[e] \in Call /\ pf[e] \in Fault
        /\ a \in Vas /\ a \in Pns /\ a # PFTEMP /\ a # XSTACK /\ a # UTEMP
        /\ call[e].child # NULL => call[e].child \in Envs /\ call[e].child # e
    BY <1>1, Faulting, Zenon
  <2>4. /\ \A f \in Envs : f # e => pf'[f] = pf[f]
        /\ pf'[e].at = "copy" /\ pf'[e].pn = a /\ pf' \in [Envs -> Fault]
    BY <2>1, <2>3, Zenon DEF Inv, TypeOK, Fault
  <2>5. KeepsWindows
    BY <1>1, <2>1, <2>4, Zenon DEF KeepsWindows
  <2>6. /\ pt' \in [Envs -> [Pns -> Ptes \cup {NULL}]]
        /\ \A f \in Envs : f # e => pt'[f] = pt[f]
        /\ \A f \in Envs, b \in Pns : f # e \/ b # PFTEMP => pt'[f][b] = pt[f][b]
        /\ pt'[e][PFTEMP] # NULL /\ pt'[e][PFTEMP].w = TRUE /\ pt'[e][PFTEMP].tag = "none"
        /\ Isolation' /\ \A f \in Envs, b \in Pns : Tagged(pt'[f][b])
    BY <2>2, <2>5, PageNumbers, Allocated, Zenon DEF PageAlloc
  <2>7. TypeOK'
    BY <2>1, <2>2, <2>4, <2>6, CowAssumption, Zenon DEF Inv, TypeOK, PageAlloc
  <2>8. \A f \in Envs : f # e => Untouched(f)
    BY <2>1, <2>4, <2>6, Zenon DEF Untouched
  <2>9. Parent(e)'
    BY <2>1, <2>3, Zenon DEF Parent
  <2>10. Quiet(e)' /\ Handling(e)' /\ Handled(e)'
    BY <2>1, <2>3, <2>4, <2>6, PageNumbers DEF Local, Quiet, Handling, Handled, CanWrite, Own
  <2>11. Calling(e)'
    BY <2>1, <2>3, <2>4, <2>6, PageNumbers
      DEF Local, Parent, Calling, CanWrite, Own, Forking, Spawning, Call
  <2> QED BY <1>0, <2>3, <2>6, <2>7, <2>8, <2>9, <2>10, <2>11, StepOf, Zenon DEF Local
<1> QED BY <1>2, <1>3, Zenon

LEMMA PgfaultCopyInv ==
  ASSUME Inv, NEW e \in Envs, PgfaultCopy(e)
  PROVE  Inv'
<1> DEFINE a == pf[e].pn
<1>0. NULL # e /\ NULL \in Envs \cup {NULL}
  BY CowAssumption, Zenon
<1>1. /\ pf[e].at = "copy" /\ pf' = [pf EXCEPT ![e].at = "map"]
      /\ data' = [data EXCEPT ![pt[e][PFTEMP].page] = data[pt[e][a].page]]
      /\ UNCHANGED <<pt, env_status, upcall, call, halted>>
  BY Zenon DEF PgfaultCopy, FaultAt
<1>2. /\ Local(e) /\ Parent(e) /\ env_status[e] = "run"
      /\ pf[e] \in Fault /\ a \in Pns
  BY <1>1, Faulting, Zenon
<1>3. /\ \A f \in Envs : f # e => pf'[f] = pf[f]
      /\ pf'[e].at = "map" /\ pf'[e].pn = a /\ pf' \in [Envs -> Fault]
  BY <1>1, <1>2, Zenon DEF Inv, TypeOK, Fault
<1>4. KeepsWindows
  BY <1>1, <1>3, Zenon DEF KeepsWindows
<1>5. Isolation' /\ \A f \in Envs, b \in Pns : Tagged(pt'[f][b])
  BY <1>1, <1>4, SamePages, Zenon
<1>6. pt[e][PFTEMP] # NULL /\ pt[e][a] # NULL
  BY <1>1, <1>2, Zenon DEF Local, Handling, Own
<1>7. data' \in [Pages -> Values]
  BY <1>1, <1>2, <1>6, PageNumbers DEF Inv, TypeOK, Ptes
<1>8. TypeOK'
  BY <1>1, <1>3, <1>7, Zenon DEF Inv, TypeOK
<1>9. \A f \in Envs : f # e => Untouched(f)
  BY <1>1, <1>3, Zenon DEF Untouched
<1>10. Parent(e)'
  BY <1>1, <1>2, Zenon DEF Parent
<1>11. Local(e)'
  BY <1>1, <1>2, <1>3, Zenon DEF Local, Quiet, Handling, Calling, Handled, CanWrite
<1> QED BY <1>0, <1>2, <1>5, <1>8, <1>9, <1>10, <1>11, StepOf, Zenon

LEMMA PgfaultMapInv ==
  ASSUME Inv, NEW e \in Envs, PgfaultMap(e)
  PROVE  Inv'
<1> DEFINE a == pf[e].pn
           q == Pte(pt[e][PFTEMP].page, TRUE, "none")
<1>0. NULL # e /\ NULL \in Envs \cup {NULL} /\ TypeOK /\ Isolation
  BY CowAssumption, Zenon DEF Inv
<1>1. /\ pf[e].at = "map" /\ pf' = [pf EXCEPT ![e].at = "unmap"]
      /\ pt' = [pt EXCEPT ![e][a] = q]
      /\ UNCHANGED <<data, env_status, upcall, call, halted>>
  BY Zenon DEF PgfaultMap, FaultAt
<1>2. /\ Local(e) /\ Parent(e) /\ env_status[e] = "run" /\ pf[e] \in Fault /\ call[e] \in Call
      /\ a \in Vas /\ a \in Pns /\ a # PFTEMP /\ a # XSTACK /\ a # UTEMP
      /\ call[e].child # NULL => call[e].child \in Envs /\ call[e].child # e
  BY <1>1, Faulting, Zenon
<1>3. /\ \A f \in Envs : f # e => pf'[f] = pf[f]
      /\ pf'[e].at = "unmap" /\ pf'[e].pn = a /\ pf' \in [Envs -> Fault]
  BY <1>0, <1>1, <1>2, Zenon DEF TypeOK, Fault
<1>4. Own(pt[e][PFTEMP]) /\ pt[e][a] # NULL /\ pt[e][a].tag = "cow" /\ pt[e][PFTEMP] \in Ptes
  BY <1>0, <1>1, <1>2, PageNumbers DEF Local, Handling, Own, TypeOK
<1>5. q \in Ptes /\ q # NULL /\ q.page = pt[e][PFTEMP].page /\ q.w = TRUE /\ q.tag = "none"
  BY <1>4, PteType, Zenon DEF Ptes
<1> HIDE DEF q, a
<1>6. /\ pt' \in [Envs -> [Pns -> Ptes \cup {NULL}]]
      /\ \A f \in Envs : f # e => pt'[f] = pt[f]
      /\ \A f \in Envs, b \in Pns : f # e \/ b # a => pt'[f][b] = pt[f][b]
      /\ pt'[e][a] = q
  BY <1>0, <1>1, <1>2, <1>5, Zenon DEF TypeOK
<1>7. TypeOK'
  BY <1>0, <1>1, <1>3, <1>6, Zenon DEF TypeOK
<1>8. \A f \in Envs : f # e => Untouched(f)
  BY <1>1, <1>3, <1>6, Zenon DEF Untouched
<1>9. Parent(e)'
  BY <1>1, <1>2, Zenon DEF Parent
<1>10. \A f \in Envs, b \in Pns : Tagged(pt'[f][b])
  BY <1>5, <1>6 DEF Inv, Tagged
<1>11. Quiet(e)' /\ Handling(e)' /\ Handled(e)'
  BY <1>1, <1>2, <1>3, <1>4, <1>5, <1>6, PageNumbers
    DEF Local, Quiet, Handling, Handled, CanWrite, Own
<1>12. call[e].at \in {"child", "own"} => Suits(call[e].perm, pt'[e][call[e].pn])
  <2>1. call[e].at \in {"child", "own"} => Suits(call[e].perm, pt[e][call[e].pn])
    BY <1>2, Zenon DEF Local, Calling
  <2>2. call[e].perm.tag \in {"none", "cow", "share"} /\ call[e].pn \in Pns
    BY <1>2, Zenon DEF Call
  <2>3. CASE call[e].pn = a
    BY <1>4, <1>5, <1>6, <2>1, <2>2, <2>3, Zenon DEF Suits
  <2>4. CASE call[e].pn # a
    BY <1>6, <2>1, <2>2, <2>4, Zenon
  <2> QED BY <2>3, <2>4, Zenon
<1>13. Calling(e)'
  BY <1>1, <1>2, <1>3, <1>6, <1>12, PageNumbers
    DEF Local, Parent, Calling, CanWrite, Own, Forking, Spawning
<1>14. ASSUME NEW f \in Envs, NEW b \in Pns, f # e \/ b # PFTEMP, pt[f][b] # NULL
       PROVE  pt[f][b].page # pt[e][PFTEMP].page
  <2> SUFFICES ASSUME pt[f][b].page = pt[e][PFTEMP].page PROVE FALSE
    BY Zenon
  <2>1. Excused(e, PFTEMP, f, b)
    BY <1>0, <1>4, <1>14, PageNumbers, IsolationForm, Zenon DEF Own
  <2>2. call[e].at = "own" => call[e].pn # PFTEMP
    BY <1>2, Zenon DEF Local, Calling
  <2>3. ~Given(f, e, PFTEMP) /\ PFTEMP # UTEMP
    BY <1>2, NotGiven, PageNumbers, Zenon
  <2> QED BY <1>1, <1>4, <2>1, <2>2, <2>3, Zenon DEF Excused, InWindow, Own
<1>15. Isolation'
  <2> SUFFICES ASSUME NEW e1 \in Envs, NEW f \in Envs, NEW a1 \in Pns, NEW b \in Pns,
                      e1 # f \/ a1 # b, pt'[e1][a1] # NULL, pt'[f][b] # NULL,
                      pt'[e1][a1].page = pt'[f][b].page, pt'[e1][a1].w
               PROVE  Excused(e1, a1, f, b)'
    BY IsolationForm2
  <2>1. CASE e1 = e /\ a1 = a
    <3>1. pt'[f][b] = pt[f][b]
      BY <1>6, <2>1, Zenon
    <3>2. f = e /\ b = PFTEMP
      BY <1>5, <1>6, <1>14, <2>1, <3>1
    <3> QED BY <1>3, <2>1, <3>2, Zenon DEF Excused
  <2>2. CASE f = e /\ b = a
    <3>1. pt'[e1][a1] = pt[e1][a1]
      BY <1>6, <2>2, Zenon
    <3>2. e1 = e /\ a1 = PFTEMP
      BY <1>5, <1>6, <1>14, <2>2, <3>1
    <3> QED BY <1>3, <2>2, <3>2, Zenon DEF Excused
  <2>3. CASE ~(e1 = e /\ a1 = a) /\ ~(f = e /\ b = a)
    <3>1. pt'[e1][a1] = pt[e1][a1] /\ pt'[f][b] = pt[f][b]
      BY <1>6, <2>3, Zenon
    <3>2. Excused(e1, a1, f, b)
      BY <1>0, <3>1, IsolationForm, Zenon
    <3>3. pf[e1].at = "unmap" => pf'[e1] = pf[e1]
      BY <1>1, <1>3, Zenon
    <3> QED BY <1>1, <3>1, <3>2, <3>3, Zenon DEF Excused, InWindow, Given
  <2> QED BY <2>1, <2>2, <2>3, Zenon
<1> QED BY <1>0, <1>2, <1>7, <1>8, <1>9, <1>10, <1>11, <1>13, <1>15, StepOf, Zenon DEF Local

LEMMA PgfaultUnmapInv ==
  ASSUME Inv, NEW e \in Envs, PgfaultUnmap(e)
  PROVE  Inv'
<1>0. NULL # e /\ NULL \in Envs \cup {NULL} /\ TypeOK /\ Isolation
  BY CowAssumption, Zenon DEF Inv
<1>1. /\ pf[e].at = "unmap" /\ pf' = [pf EXCEPT ![e] = NoFault]
      /\ pt' = [pt EXCEPT ![e][PFTEMP] = NULL]
      /\ UNCHANGED <<data, env_status, upcall, call, halted>>
  BY Zenon DEF PgfaultUnmap, FaultAt
<1>2. /\ Local(e) /\ Parent(e) /\ env_status[e] = "run" /\ call[e] \in Call
      /\ call[e].child # NULL => call[e].child \in Envs /\ call[e].child # e
  BY <1>1, Faulting, Zenon
<1>3. /\ \A f \in Envs : f # e => pf'[f] = pf[f]
      /\ pf'[e].at = "none" /\ pf' \in [Envs -> Fault]
  BY <1>0, <1>1, PageNumbers, Zenon DEF TypeOK, Fault, NoFault, UTEMP
<1>4. /\ pt' \in [Envs -> [Pns -> Ptes \cup {NULL}]]
      /\ \A f \in Envs : f # e => pt'[f] = pt[f]
      /\ \A f \in Envs, b \in Pns : f # e \/ b # PFTEMP => pt'[f][b] = pt[f][b]
      /\ pt'[e][PFTEMP] = NULL
  BY <1>0, <1>1, PageNumbers, Zenon DEF TypeOK
<1>5. TypeOK'
  BY <1>0, <1>1, <1>3, <1>4, Zenon DEF TypeOK
<1>6. \A f \in Envs : f # e => Untouched(f)
  BY <1>1, <1>3, <1>4, Zenon DEF Untouched
<1>7. Parent(e)'
  BY <1>1, <1>2, Zenon DEF Parent
<1>8. \A f \in Envs, b \in Pns : Tagged(pt'[f][b])
  BY <1>4, ZenonT(60) DEF Inv, Tagged
<1>a. /\ call'[e] = call[e] /\ env_status'[e] = "run" /\ upcall' = upcall
      /\ \A b \in Pns : b # PFTEMP => pt'[e][b] = pt[e][b]
  BY <1>1, <1>2, <1>4, Zenon
<1>b. Handling(e)'
  BY <1>3, <1>4, Zenon DEF Handling
<1>c. Quiet(e)' /\ Handled(e)'
  BY <1>2, <1>4, <1>a, PageNumbers, Zenon DEF Local, Quiet, Handled, CanWrite
<1>9. Quiet(e)' /\ Handling(e)' /\ Handled(e)'
  BY <1>b, <1>c, Zenon
<1>10. Calling(e)'
  <2>1. call[e].child # NULL => pt'[call[e].child] = pt[call[e].child]
    BY <1>2, <1>4, Zenon
  <2>2. call[e].pn \in Pns
    BY <1>2, Zenon DEF Call
  <2>3. call[e].at \in {"child", "own"} => pt'[e][call[e].pn] = pt[e][call[e].pn]
    BY <1>2, <1>a, <2>2, Zenon DEF Local, Calling
  <2>4. pt'[e][UTEMP] = pt[e][UTEMP]
    BY <1>a, PageNumbers, Zenon
  <2>5. Calling(e) /\ (call[e].child = NULL <=> call[e].at \in {"none", "exofork"})
    BY <1>2, Zenon DEF Local, Parent
  <2> QED BY <1>a, <2>1, <2>3, <2>4, <2>5 DEF Calling, CanWrite, Own, Forking, Spawning
<1>11. Isolation'
  <2> SUFFICES ASSUME NEW e1 \in Envs, NEW f \in Envs, NEW a1 \in Pns, NEW b \in Pns,
                      e1 # f \/ a1 # b, pt'[e1][a1] # NULL, pt'[f][b] # NULL,
                      pt'[e1][a1].page = pt'[f][b].page, pt'[e1][a1].w
               PROVE  Excused(e1, a1, f, b)'
    BY IsolationForm2
  <2>1. /\ pt'[e1][a1] = pt[e1][a1] /\ pt'[f][b] = pt[f][b]
        /\ ~(e1 = e /\ a1 = PFTEMP) /\ ~(f = e /\ b = PFTEMP)
    BY <1>4, Zenon
  <2>2. Excused(e1, a1, f, b)
    BY <1>0, <2>1, IsolationForm, Zenon
  <2> QED BY <1>1, <1>3, <2>1, <2>2, Zenon DEF Excused, InWindow, Given
<1> QED BY <1>0, <1>2, <1>5, <1>6, <1>7, <1>8, <1>9, <1>10, <1>11, StepOf, Zenon DEF Local
-----------------------------------------------------------------------------
(* fork(). *)

\* A call that goes on to its next step.
LEMMA CallMoves ==
  ASSUME TypeOK, NEW e \in Envs, NEW k \in Call, call' = [call EXCEPT ![e] = k]
  PROVE  /\ call' \in [Envs -> Call] /\ call'[e] = k
         /\ \A f \in Envs : f # e => call'[f] = call[f]
  BY Zenon DEF TypeOK

LEMMA GotoMoves ==
  ASSUME TypeOK, NEW e \in Envs,
         NEW at \in {"none", "exofork", "read", "child", "own", "xstack", "upcall", "status",
                     "load", "give", "unmap", "close", "shared", "go"},
         Goto(e, at)
  PROVE  /\ call' \in [Envs -> Call] /\ call'[e].at = at
         /\ call'[e].child = call[e].child /\ call'[e].pn = call[e].pn
         /\ call'[e].perm = call[e].perm
         /\ \A f \in Envs : f # e => call'[f] = call[f]
<1>1. call[e] \in Call
  BY Zenon DEF TypeOK
<1>2. [call[e] EXCEPT !.at = at] \in Call
  BY <1>1, Zenon DEF Call
<1>3. call' = [call EXCEPT ![e] = [call[e] EXCEPT !.at = at]]
  BY Zenon DEF Goto, TypeOK
<1> QED BY <1>1, <1>2, <1>3 DEF TypeOK, Call

LEMMA SetPgfaultHandlerInv ==
  ASSUME Inv, NEW e \in Envs, SetPgfaultHandler(e)
  PROVE  Inv'
<1>0. NULL # e /\ NULL \in Envs \cup {NULL} /\ TypeOK
  BY CowAssumption, Zenon DEF Inv
<1>1. Runs(e) /\ call[e].at = "none"
  BY Zenon DEF SetPgfaultHandler, At
<1>2. Local(e) /\ Parent(e) /\ env_status[e] = "run" /\ pf[e].at = "none" /\ call[e].child = NULL
  BY <1>1, Actor, Zenon DEF Parent
<1>3. CASE Panic
  BY <1>3, PanicInv, Zenon
<1>4. ASSUME ~Panic PROVE Goto(e, "exofork") /\ UNCHANGED <<env_status, pf, halted>>
  BY <1>4, Zenon DEF SetPgfaultHandler
<1>5. ASSUME ~Panic
      PROVE  /\ call' \in [Envs -> Call] /\ call'[e].at = "exofork" /\ call'[e].child = NULL
             /\ \A f \in Envs : f # e => call'[f] = call[f]
  BY <1>0, <1>2, <1>4, <1>5, GotoMoves, Zenon
<1>6. ASSUME ~Panic PROVE KeepsWindows /\ Parent(e)'
  BY <1>1, <1>4, <1>5, <1>6, Zenon DEF KeepsWindows, Parent
<1>7. CASE ~Panic /\ upcall[e]
  <2>1. UNCHANGED <<pt, data, upcall>>
    BY <1>7, Zenon DEF SetPgfaultHandler
  <2>2. Isolation' /\ \A f \in Envs, b \in Pns : Tagged(pt'[f][b])
    BY <1>6, <1>7, <2>1, SamePages, Zenon
  <2>3. TypeOK'
    BY <1>0, <1>4, <1>5, <1>7, <2>1, Zenon DEF TypeOK
  <2>4. \A f \in Envs : f # e => Untouched(f)
    BY <1>4, <1>5, <1>7, <2>1, Zenon DEF Untouched
  <2>5. Local(e)'
    BY <1>2, <1>4, <1>5, <1>7, <2>1, Zenon
      DEF Local, Quiet, Handling, Calling, Handled, CanWrite, Forking, Spawning
  <2> QED BY <1>0, <1>2, <1>6, <1>7, <2>2, <2>3, <2>4, <2>5, StepOf, Zenon
<1>8. CASE ~Panic /\ ~upcall[e]
  <2>1. /\ upcall' = [upcall EXCEPT ![e] = TRUE]
        /\ \E p \in Pages : PageAlloc(e, XSTACK, p, TRUE, "none")
    BY <1>8, Zenon DEF SetPgfaultHandler
  <2>2. PICK p \in Pages : PageAlloc(e, XSTACK, p, TRUE, "none")
    BY <2>1, Zenon
  <2>3. /\ pt' \in [Envs -> [Pns -> Ptes \cup {NULL}]]
        /\ \A f \in Envs : f # e => pt'[f] = pt[f]
        /\ \A f \in Envs, b \in Pns : f # e \/ b # XSTACK => pt'[f][b] = pt[f][b]
        /\ pt'[e][XSTACK] # NULL /\ pt'[e][XSTACK].w = TRUE /\ pt'[e][XSTACK].tag = "none"
        /\ Isolation' /\ \A f \in Envs, b \in Pns : Tagged(pt'[f][b])
    BY <1>6, <1>8, <2>2, PageNumbers, Allocated, Zenon DEF PageAlloc
  <2>4. TypeOK'
    BY <1>0, <1>4, <1>5, <1>8, <2>1, <2>2, <2>3, CowAssumption, Zenon DEF TypeOK, PageAlloc
  <2>5. upcall'[e] /\ \A f \in Envs : f # e => upcall'[f] = upcall[f]
    BY <1>0, <2>1, Zenon DEF TypeOK
  <2>6. \A f \in Envs : f # e => Untouched(f)
    BY <1>4, <1>5, <1>8, <2>3, <2>5, Zenon DEF Untouched
  <2>7. Local(e)'
    BY <1>2, <1>4, <1>5, <1>8, <2>3, <2>5, PageNumbers, Zenon
      DEF Local, Quiet, Handling, Calling, Handled, CanWrite, Forking, Spawning
  <2> QED BY <1>0, <1>2, <1>6, <1>8, <2>3, <2>4, <2>6, <2>7, StepOf, ZenonT(60)
<1> QED BY <1>3, <1>7, <1>8, Zenon

LEMMA ExoforkInv ==
  ASSUME Inv, NEW e \in Envs, NEW from \in {"none", "exofork"}, NEW to \in {"read", "load"},
         NEW pn \in Pns, to = "read" => from = "exofork", to = "load" => pn \in Vas,
         Exofork(e, from, to, pn)
  PROVE  Inv'
<1>0. TypeOK
  BY Zenon DEF Inv
<1>1. Runs(e) /\ call[e].at = from /\ UNCHANGED <<pt, data, upcall, pf, halted>>
  BY Zenon DEF Exofork, At
<1>2. PICK c \in Envs :
        /\ env_status[c] = "free"
        /\ env_status' = [env_status EXCEPT ![c] = "making"]
        /\ call' = [call EXCEPT ![e] = [Idle EXCEPT !.at = to, !.child = c, !.pn = pn]]
  BY Zenon DEF Exofork
<1>3. Local(e) /\ Parent(e) /\ env_status[e] = "run" /\ pf[e].at = "none"
  BY <1>1, Actor, Zenon
<1>4. c # e /\ c # NULL
  BY <1>2, <1>3, CowAssumption, Zenon
<1>5. \A f \in Envs : call[f].child # c
  <2> SUFFICES ASSUME NEW f \in Envs, call[f].child = c PROVE FALSE
    BY Zenon
  <2>1. Parent(f)
    BY Zenon DEF Inv
  <2> QED BY <1>2, <1>4, <2>1, Zenon DEF Parent
<1>6. Local(c) /\ Quiet(c)
  BY Zenon DEF Inv, Local
<1> DEFINE k == [Idle EXCEPT !.at = to, !.child = c, !.pn = pn]
<1>7. k \in Call /\ k.at = to /\ k.child = c /\ k.pn = pn
  BY PageNumbers, Zenon DEF Idle, NoPerm, Call
<1>8. call' = [call EXCEPT ![e] = k]
  BY <1>2, Zenon
<1> HIDE DEF k
<1>9. call' \in [Envs -> Call] /\ call'[e] = k /\ \A f \in Envs : f # e => call'[f] = call[f]
  BY <1>0, <1>7, <1>8, CallMoves, Zenon
<1>10. /\ env_status' \in [Envs -> {"free", "making", "run"}]
       /\ env_status'[c] = "making" /\ \A f \in Envs : f # c => env_status'[f] = env_status[f]
  BY <1>0, <1>2, Zenon DEF TypeOK
<1>11. TypeOK'
  BY <1>0, <1>1, <1>9, <1>10, Zenon DEF TypeOK
<1>12. \A f \in Envs : f # e /\ f # c => Untouched(f)
  BY <1>1, <1>9, <1>10, Zenon DEF Untouched
<1>13. KeepsWindows
  BY <1>1, <1>9, Zenon DEF KeepsWindows
<1>14. Isolation' /\ \A f \in Envs, b \in Pns : Tagged(pt'[f][b])
  BY <1>1, <1>13, SamePages, Zenon
<1>15. Parent(e)'
  BY <1>4, <1>5, <1>7, <1>9, <1>10 DEF Parent
<1>16. call[c].at = "none" /\ call[c].child = NULL /\ pf[c].at = "none" /\ ~upcall[c]
       /\ \A b \in Pns : pt[c][b] = NULL
  BY <1>2, <1>6, Zenon DEF Quiet
<1>17. call'[c].child = NULL /\ call'[c].at = "none" /\ Local(c)'
  BY <1>1, <1>4, <1>9, <1>10, <1>16, PageNumbers, Zenon
    DEF Local, Quiet, Handling, Calling, Handled, Forking, Spawning
<1>18. Quiet(e)' /\ Handling(e)' /\ Handled(e)'
  BY <1>1, <1>3, <1>4, <1>10, Zenon DEF Local, Quiet, Handling, Handled, CanWrite
<1>19. Calling(e)'
  BY <1>1, <1>3, <1>7, <1>9, <1>16, Zenon DEF Local, Calling, Forking, Spawning
<1> QED BY <1>3, <1>4, <1>5, <1>11, <1>12, <1>14, <1>15, <1>17, <1>18, <1>19, StepOf, Zenon DEF Local

LEMMA ForkExoforkInv ==
  ASSUME Inv, NEW e \in Envs, ForkExofork(e)
  PROVE  Inv'
<1>1. CASE Panic
  BY <1>1, PanicInv, Zenon
<1>2. CASE Exofork(e, "exofork", "read", 0)
  BY <1>2, ExoforkInv, PageNumbers, Zenon DEF UTEMP
<1> QED BY <1>1, <1>2, Zenon DEF ForkExofork

\* What duppage() chooses suits the entry it chooses it for.
LEMMA DupPermSuits ==
  ASSUME NEW q \in Ptes, Tagged(q), q # NULL
  PROVE  /\ DupPerm(q) \in [w : BOOLEAN, tag : {"none", "cow", "share"}, again : BOOLEAN]
         /\ Suits(DupPerm(q), q)
  BY Zenon DEF Ptes, Tagged, DupPerm, NoPerm, Suits

LEMMA DuppageReadInv ==
  ASSUME Inv, NEW e \in Envs, DuppageRead(e)
  PROVE  Inv'
<1>0. NULL # e /\ NULL \in Envs \cup {NULL} /\ TypeOK
  BY CowAssumption, Zenon DEF Inv
<1>1. Runs(e) /\ call[e].at = "read" /\ UNCHANGED <<pt, data, env_status, upcall, pf, halted>>
  BY Zenon DEF DuppageRead, At
<1>2. /\ Local(e) /\ Parent(e) /\ env_status[e] = "run" /\ pf[e].at = "none"
      /\ pt[e][PFTEMP] = NULL /\ call[e] \in Call
  BY <1>1, Actor, Zenon
<1>3. \E k \in Call :
        /\ call' = [call EXCEPT ![e] = k] /\ k.child = call[e].child
        /\ \/ k.at = "xstack"
           \/ /\ k.at = "child" /\ k.pn # PFTEMP /\ k.pn # XSTACK
              /\ Suits(k.perm, pt[e][k.pn])
  <2> DEFINE N == NextPage(e, call[e].pn)
  <2>1. CASE call' = [call EXCEPT ![e] = [@ EXCEPT !.at = "xstack", !.perm = NoPerm]]
    <3> DEFINE k == [call[e] EXCEPT !.at = "xstack", !.perm = NoPerm]
    <3>1. k \in Call /\ k.at = "xstack" /\ k.child = call[e].child
      BY <1>2, Zenon DEF Call, NoPerm
    <3>2. call' = [call EXCEPT ![e] = k]
      BY <2>1, Zenon
    <3> QED BY <3>1, <3>2, Zenon
  <2>2. CASE \E pn \in N : call' = [call EXCEPT ![e] =
                                      [@ EXCEPT !.at = "child", !.pn = pn, !.perm = DupPerm(pt[e][pn])]]
    <3>1. PICK pn \in N : call' = [call EXCEPT ![e] =
                                     [@ EXCEPT !.at = "child", !.pn = pn, !.perm = DupPerm(pt[e][pn])]]
      BY <2>2, Zenon
    <3>2. pn \in Pns /\ pn # XSTACK /\ pt[e][pn] # NULL
      BY <1>2, CowAssumption DEF NextPage, Call, TopStack, XSTACK, Pns
    <3>3. pt[e][pn] \in Ptes /\ Tagged(pt[e][pn]) /\ pn # PFTEMP
      BY <1>0, <1>2, <3>2 DEF TypeOK, Inv
    <3> DEFINE d == DupPerm(pt[e][pn])
               k == [call[e] EXCEPT !.at = "child", !.pn = pn, !.perm = d]
    <3>4. d \in [w : BOOLEAN, tag : {"none", "cow", "share"}, again : BOOLEAN] /\ Suits(d, pt[e][pn])
      BY <3>2, <3>3, DupPermSuits, Zenon
    <3>5. call' = [call EXCEPT ![e] = k]
      BY <3>1, Zenon
    <3> HIDE DEF d
    <3>6. k \in Call /\ k.at = "child" /\ k.child = call[e].child /\ k.pn = pn /\ k.perm = d
      BY <1>2, <3>2, <3>4, Zenon DEF Call
    <3> QED BY <3>2, <3>3, <3>4, <3>5, <3>6, Zenon
  <2> QED BY <2>1, <2>2, Zenon DEF DuppageRead
<1>4. PICK k \in Call :
        /\ call' = [call EXCEPT ![e] = k] /\ k.child = call[e].child
        /\ \/ k.at = "xstack"
           \/ /\ k.at = "child" /\ k.pn # PFTEMP /\ k.pn # XSTACK
              /\ Suits(k.perm, pt[e][k.pn])
  BY <1>3, Zenon
<1>5. call' \in [Envs -> Call] /\ call'[e] = k /\ \A f \in Envs : f # e => call'[f] = call[f]
  BY <1>0, <1>4, CallMoves, Zenon
<1>6. TypeOK'
  BY <1>0, <1>1, <1>5, Zenon DEF TypeOK
<1>7. \A f \in Envs : f # e => Untouched(f)
  BY <1>1, <1>5, Zenon DEF Untouched
<1>8. KeepsWindows
  BY <1>1, <1>5, Zenon DEF KeepsWindows
<1>9. Isolation' /\ \A f \in Envs, b \in Pns : Tagged(pt'[f][b])
  BY <1>1, <1>8, SamePages, Zenon
<1>10. Parent(e)'
  <2>1. call[e].child # NULL /\ \A f \in Envs : call'[f].child = call[f].child
    BY <1>1, <1>2, <1>4, <1>5, Zenon DEF Parent
  <2> QED BY <1>1, <1>2, <1>4, <1>5, <2>1, Zenon DEF Parent
<1>11. Quiet(e)' /\ Handling(e)' /\ Handled(e)'
  BY <1>1, <1>2, Zenon DEF Local, Quiet, Handling, Handled, CanWrite
<1>12. Calling(e)'
  BY <1>1, <1>2, <1>4, <1>5, Zenon DEF Local, Calling, Forking, Spawning
<1> QED BY <1>0, <1>2, <1>6, <1>7, <1>9, <1>10, <1>11, <1>12, StepOf, Zenon DEF Local

\* A page of an environment that runs, and that it does not share, is written
\* through no other entry: the environment is nobody's child, and in no fault.
LEMMA SoleWriter ==
  ASSUME Inv, NEW e \in Envs, Runs(e), call[e].at # "unmap",
         NEW a \in Pns, pt[e][a] # NULL, pt[e][a].tag # "share",
         NEW g \in Envs, NEW b \in Pns, g # e \/ b # a, pt[g][b] # NULL,
         pt[g][b].page = pt[e][a].page
  PROVE  ~pt[g][b].w
<1> SUFFICES ASSUME pt[g][b].w PROVE FALSE
  BY Zenon
<1>1. Excused(g, b, e, a)
  BY IsolationForm, Zenon DEF Inv
<1>2. env_status[e] = "run" /\ pf[e].at = "none" /\ e # NULL
  BY Actor, CowAssumption, Zenon
<1>3. call[g].child # e
  BY <1>2, Zenon DEF Inv, Parent
<1> QED BY <1>1, <1>2, <1>3, Zenon DEF Excused, InWindow, Given

LEMMA DuppageChildInv ==
  ASSUME Inv, NEW e \in Envs, DuppageChild(e)
  PROVE  Inv'
<1>a. PICK k, c, a, r : k = call[e] /\ c = call[e].child /\ a = call[e].pn /\ r = pt[e][a]
  BY Zenon
<1> USE <1>a
<1> DEFINE q == Pte(r.page, k.perm.w, k.perm.tag)
           j == IF k.perm.again THEN [k EXCEPT !.at = "own"]
                ELSE [k EXCEPT !.at = "read", !.pn = k.pn + 1]
<1>0. TypeOK /\ Isolation
  BY Zenon DEF Inv
<1>1. Runs(e) /\ k.at = "child"
  BY Zenon DEF DuppageChild, At
<1>2. CASE Panic
  BY <1>2, PanicInv, Zenon
<1>3. CASE ~Panic
  <2>1. /\ pt' = [pt EXCEPT ![c][a] = q]
        /\ call' = [call EXCEPT ![e] = j]
        /\ UNCHANGED <<data, env_status, upcall, pf, halted>>
    <3>1. /\ pt' = [pt EXCEPT ![c][a] = q]
          /\ UNCHANGED <<data, env_status, upcall, pf, halted>>
      BY <1>3, Zenon DEF DuppageChild
    <3>2. call' = [call EXCEPT ![e] = j]
      BY <1>3, Zenon DEF DuppageChild
    <3> QED BY <3>1, <3>2, Zenon
  <2>2. /\ Local(e) /\ Parent(e) /\ env_status[e] = "run" /\ pf[e].at = "none" /\ k \in Call
    BY <1>1, Actor, Zenon
  <2>3. /\ c \in Envs /\ c # e /\ c # NULL
        /\ env_status[c] = "making" /\ call[c].at = "none" /\ call[c].child = NULL
        /\ pf[c].at = "none" /\ pt[c][PFTEMP] = NULL
        /\ \A f \in Envs : f # e => call[f].child # c
        /\ Local(c) /\ Parent(c)
    BY <1>1, Child, ZenonT(60)
  <2>4. /\ a \in Pns /\ a # PFTEMP /\ a # XSTACK /\ Suits(k.perm, r) /\ r \in Ptes
        /\ k.perm.w \in BOOLEAN /\ k.perm.tag \in {"none", "cow", "share"} /\ k.perm.again \in BOOLEAN
    BY <1>0, <1>1, <2>2 DEF Local, Calling, Suits, TypeOK, Call
  <2>5. q \in Ptes /\ q # NULL /\ q.page = r.page /\ q.w = k.perm.w /\ q.tag = k.perm.tag
    <3>1. r.page \in Pages
      BY <2>4, Zenon DEF Ptes
    <3>2. q.page = r.page /\ q.w = k.perm.w /\ q.tag = k.perm.tag
      BY Zenon DEF Pte
    <3>3. q \in Ptes
      BY <2>4, <3>1, Zenon DEF Pte, Ptes
    <3> QED BY <3>2, <3>3, CowAssumption, Zenon
  <2>6. /\ j \in Call /\ j.child = c /\ j.perm = k.perm
        /\ k.perm.again => j.at = "own" /\ j.pn = a
        /\ ~k.perm.again => j.at = "read"
    <3>1. a + 1 \in Pns
      BY <2>4, CowAssumption DEF Pns, XSTACK
    <3>2. CASE k.perm.again
      BY <2>2, <3>2, Zenon DEF Call
    <3>3. CASE ~k.perm.again
      BY <2>2, <3>1, <3>3, Zenon DEF Call
    <3> QED BY <3>2, <3>3, Zenon
  <2> HIDE DEF q, j
  <2>7. /\ pt' \in [Envs -> [Pns -> Ptes \cup {NULL}]]
        /\ \A f \in Envs : f # c => pt'[f] = pt[f]
        /\ \A f \in Envs, b \in Pns : f # c \/ b # a => pt'[f][b] = pt[f][b]
        /\ pt'[c][a] = q
    BY <1>0, <2>1, <2>3, <2>4, <2>5, Zenon DEF TypeOK
  <2>8. call' \in [Envs -> Call] /\ call'[e] = j /\ \A f \in Envs : f # e => call'[f] = call[f]
    BY <1>0, <2>1, <2>6, CallMoves, Zenon
  <2>9. TypeOK'
    BY <1>0, <2>1, <2>7, <2>8, Zenon DEF TypeOK
  <2>10. \A f \in Envs : f # e /\ f # c => Untouched(f)
    BY <2>1, <2>7, <2>8, Zenon DEF Untouched
  <2>11. \A f \in Envs, b \in Pns : Tagged(pt'[f][b])
    <3>1. Tagged(q)
      BY <2>4, <2>5, Zenon DEF Suits, Tagged
    <3> QED BY <2>7, <3>1, Zenon DEF Inv
  <2>12. Parent(e)'
    BY <2>1, <2>2, <2>3, <2>6, <2>8, ZenonT(60) DEF Parent
  <2>13. call'[c].child = NULL /\ call'[c].at = "none" /\ Local(c)'
    <3>1. call'[c] = call[c] /\ pt'[c][PFTEMP] = NULL /\ pt'[c][XSTACK] = pt[c][XSTACK]
      BY <2>3, <2>4, <2>7, <2>8, PageNumbers, Zenon
    <3>2. Quiet(c)' /\ Handling(c)'
      BY <2>1, <2>3, <3>1, Zenon DEF Local, Quiet, Handling
    <3>3. Handled(c)' /\ Calling(c)'
      BY <2>1, <2>3, <3>1, Zenon DEF Local, Calling, Handled, CanWrite, Forking, Spawning
    <3> QED BY <2>3, <3>1, <3>2, <3>3, Zenon DEF Local
  <2>14. Quiet(e)' /\ Handling(e)' /\ Handled(e)'
    BY <2>1, <2>2, <2>3, <2>7, Zenon DEF Local, Quiet, Handling, Handled, CanWrite
  <2>15. Calling(e)'
    <3>1. upcall'[e] /\ pt'[e] = pt[e]
      BY <1>1, <2>1, <2>2, <2>3, <2>7, Zenon DEF Local, Calling, Forking
    <3> QED BY <2>4, <2>6, <2>8, <3>1, Zenon DEF Calling, Forking, Spawning
  <2>16. Isolation'
    <3> SUFFICES ASSUME NEW e1 \in Envs, NEW f \in Envs, NEW a1 \in Pns, NEW b \in Pns,
                        e1 # f \/ a1 # b, pt'[e1][a1] # NULL, pt'[f][b] # NULL,
                        pt'[e1][a1].page = pt'[f][b].page, pt'[e1][a1].w
                 PROVE  Excused(e1, a1, f, b)'
      BY IsolationForm2, ZenonT(60)
    <3>1. CASE e1 = c /\ a1 = a
      <4>1. q.w /\ k.perm.tag = "share" /\ r.tag = "share" /\ q.tag = "share"
        BY <2>4, <2>5, <2>7, <3>1, Zenon DEF Suits
      <4>2. r.w
        BY <1>0, <2>4, <4>1, Zenon DEF Inv, Tagged, Suits
      <4>3. pt'[f][b] = pt[f][b]
        BY <2>7, <3>1, Zenon
      <4>4. CASE f = e /\ b = a
        BY <2>7, <3>1, <4>1, <4>3, <4>4, Zenon DEF Excused
      <4>5. CASE f # e \/ b # a
        <5>1. Excused(e, a, f, b)
          BY <1>0, <2>4, <2>5, <2>7, <3>1, <4>2, <4>3, <4>5, IsolationForm, ZenonT(60) DEF Suits
        <5>2. pt[f][b].tag = "share"
          <6>1. ~Given(f, e, a)
            BY <2>2, NotGiven, Zenon
          <6> QED BY <1>1, <2>2, <5>1, <6>1, Zenon DEF Excused, InWindow, Given
        <5> QED BY <2>7, <3>1, <4>1, <4>3, <5>2, Zenon DEF Excused
      <4> QED BY <4>4, <4>5, Zenon
    <3>2. CASE f = c /\ b = a
      <4>1. pt'[e1][a1] = pt[e1][a1] /\ pt[e1][a1].page = r.page
        BY <2>5, <2>7, <3>2, ZenonT(60)
      <4>2. CASE r.tag = "share"
        <5>1. k.perm.tag = "share" /\ q.tag = "share"
          BY <2>4, <2>5, <4>2, Zenon DEF Suits
        <5>2. pt[e1][a1].tag = "share"
          <6>1. CASE e1 = e /\ a1 = a
            BY <4>2, <6>1, Zenon
          <6>2. CASE e1 # e \/ a1 # a
            <7>1. Excused(e1, a1, e, a)
              BY <1>0, <2>4, <4>1, <6>2, IsolationForm, Zenon DEF Suits
            <7>2. call[e1].child # e
              BY <2>2, CowAssumption, Zenon DEF Inv, Parent
            <7> QED BY <1>1, <2>2, <7>1, <7>2, Zenon DEF Excused, InWindow, Given
          <6> QED BY <6>1, <6>2, Zenon
        <5> QED BY <2>7, <3>2, <4>1, <5>1, <5>2, Zenon DEF Excused
      <4>3. CASE r.tag # "share"
        <5>1. e1 = e /\ a1 = a
          BY <1>1, <2>4, <4>1, <4>3, SoleWriter, ZenonT(60) DEF Suits
        <5>2. r.w /\ k.perm.tag = "cow" /\ k.perm.again
          BY <2>4, <4>1, <4>3, <5>1, Zenon DEF Suits
        <5>3. pt'[e][a] = r
          BY <4>1, <5>1, Zenon
        <5>4. /\ call'[e].at = "own" /\ call'[e].child = c /\ call'[e].pn = a
              /\ pt'[c][a].page = r.page /\ r # NULL
          BY <2>4, <2>5, <2>6, <2>7, <2>8, <5>2, Zenon DEF Suits
        <5>5. InWindow(e, c, a)'
          BY <4>3, <5>2, <5>3, <5>4, Zenon DEF InWindow
        <5> QED BY <3>2, <5>1, <5>5, Zenon DEF Excused
      <4> QED BY <4>2, <4>3, Zenon
    <3>3. CASE ~(e1 = c /\ a1 = a) /\ ~(f = c /\ b = a)
      <4>1. pt'[e1][a1] = pt[e1][a1] /\ pt'[f][b] = pt[f][b]
        BY <2>7, <3>3, Zenon
      <4>2. Excused(e1, a1, f, b)
        BY <1>0, <4>1, IsolationForm, Zenon
      <4>3. \A g \in Envs : call[g].at \in {"own", "unmap"} => call'[g] = call[g]
        BY <1>1, <2>8, Zenon
      <4>4. pf' = pf
        BY <2>1, Zenon
      <4> QED BY <4>1, <4>2, <4>3, <4>4, KeepExcused, Zenon
    <3> QED BY <3>1, <3>2, <3>3, Zenon
  <2> QED BY <2>2, <2>3, <2>9, <2>10, <2>11, <2>12, <2>13, <2>14, <2>15, <2>16, StepOf, Zenon DEF Local
<1> QED BY <1>2, <1>3, Zenon

LEMMA DuppageOwnInv ==
  ASSUME Inv, NEW e \in Envs, DuppageOwn(e)
  PROVE  Inv'
<1>a. PICK k, a, r : k = call[e] /\ a = call[e].pn /\ r = pt[e][a]
  BY Zenon
<1> USE <1>a
<1> DEFINE q == Pte(r.page, k.perm.w, k.perm.tag)
           j == [k EXCEPT !.at = "read", !.pn = k.pn + 1]
<1>0. NULL # e /\ NULL \in Envs \cup {NULL} /\ TypeOK /\ Isolation
  BY CowAssumption, Zenon DEF Inv
<1>1. Runs(e) /\ k.at = "own"
  BY Zenon DEF DuppageOwn, At
<1>2. /\ pt' = [pt EXCEPT ![e][a] = q]
      /\ call' = [call EXCEPT ![e] = j]
      /\ UNCHANGED <<data, env_status, upcall, pf, halted>>
  BY Zenon DEF DuppageOwn
<1>3. Local(e) /\ Parent(e) /\ env_status[e] = "run" /\ pf[e].at = "none" /\ k \in Call
  BY <1>1, Actor, Zenon
<1>4. /\ a \in Pns /\ a # PFTEMP /\ a # XSTACK /\ Suits(k.perm, r) /\ r \in Ptes /\ r # NULL
      /\ k.perm.w \in BOOLEAN /\ k.perm.tag \in {"none", "cow", "share"} /\ k.perm.again
  BY <1>0, <1>1, <1>3 DEF Local, Calling, Suits, TypeOK, Call
<1>5. q \in Ptes /\ q # NULL /\ q.page = r.page /\ q.w = k.perm.w /\ q.tag = k.perm.tag
  <2>1. r.page \in Pages
    BY <1>4, Zenon DEF Ptes
  <2>2. q.page = r.page /\ q.w = k.perm.w /\ q.tag = k.perm.tag
    BY Zenon DEF Pte
  <2>3. q \in Ptes
    BY <1>4, <2>1, Zenon DEF Pte, Ptes
  <2> QED BY <2>2, <2>3, CowAssumption, Zenon
<1>6. j \in Call /\ j.child = call[e].child /\ j.at = "read"
  <2>1. a + 1 \in Pns
    BY <1>4, CowAssumption DEF Pns, XSTACK
  <2> QED BY <1>3, <2>1, Zenon DEF Call
<1> HIDE DEF q, j
<1>7. /\ pt' \in [Envs -> [Pns -> Ptes \cup {NULL}]]
      /\ \A f \in Envs : f # e => pt'[f] = pt[f]
      /\ \A f \in Envs, b \in Pns : f # e \/ b # a => pt'[f][b] = pt[f][b]
      /\ pt'[e][a] = q
  BY <1>0, <1>2, <1>4, <1>5, Zenon DEF TypeOK
<1>8. call' \in [Envs -> Call] /\ call'[e] = j /\ \A f \in Envs : f # e => call'[f] = call[f]
  BY <1>0, <1>2, <1>6, CallMoves, Zenon
<1>9. TypeOK'
  BY <1>0, <1>2, <1>7, <1>8, Zenon DEF TypeOK
<1>10. \A f \in Envs : f # e => Untouched(f)
  BY <1>2, <1>7, <1>8, Zenon DEF Untouched
<1>11. \A f \in Envs, b \in Pns : Tagged(pt'[f][b])
  <2>1. Tagged(q)
    BY <1>4, <1>5, Zenon DEF Suits, Tagged
  <2> QED BY <1>7, <2>1, Zenon DEF Inv
<1>12. Parent(e)'
  <2>1. \A f \in Envs : call'[f].child = call[f].child
    BY <1>6, <1>8, Zenon
  <2> QED BY <1>1, <1>2, <1>3, <1>6, <1>8, <2>1, Zenon DEF Parent
<1>13. upcall[e]
  BY <1>1, <1>3, Zenon DEF Local, Calling, Forking
<1>14. Quiet(e)' /\ Handling(e)' /\ Handled(e)'
  <2>1. pt'[e][XSTACK] = pt[e][XSTACK] /\ pt'[e][PFTEMP] = pt[e][PFTEMP]
    BY <1>4, <1>7, PageNumbers, Zenon
  <2> QED BY <1>2, <1>3, <1>13, <2>1, Zenon DEF Local, Quiet, Handling, Handled, CanWrite
<1>15. Calling(e)'
  BY <1>2, <1>6, <1>8, <1>13, Zenon DEF Calling, Forking, Spawning
<1>16. Isolation'
  <2> SUFFICES ASSUME NEW e1 \in Envs, NEW f \in Envs, NEW a1 \in Pns, NEW b \in Pns,
                      e1 # f \/ a1 # b, pt'[e1][a1] # NULL, pt'[f][b] # NULL,
                      pt'[e1][a1].page = pt'[f][b].page, pt'[e1][a1].w
               PROVE  Excused(e1, a1, f, b)'
    BY IsolationForm2, ZenonT(60)
  <2>1. CASE r.tag = "share"
    <3>1. q.tag = "share" /\ q.page = r.page /\ r.w
      BY <1>0, <1>4, <1>5, <2>1, Zenon DEF Suits, Inv, Tagged
    <3>2. /\ pt[e1][a1] # NULL /\ pt[e1][a1].page = pt'[e1][a1].page /\ pt[e1][a1].w
          /\ pt[e1][a1].tag = pt'[e1][a1].tag
      <4>1. CASE e1 = e /\ a1 = a
        BY <1>4, <1>7, <2>1, <3>1, <4>1, Zenon
      <4>2. CASE e1 # e \/ a1 # a
        BY <1>7, <4>2, Zenon
      <4> QED BY <4>1, <4>2, Zenon
    <3>3. /\ pt[f][b] # NULL /\ pt[f][b].page = pt'[f][b].page
          /\ pt[f][b].tag = pt'[f][b].tag
      <4>1. CASE f = e /\ b = a
        BY <1>4, <1>7, <2>1, <3>1, <4>1, Zenon
      <4>2. CASE f # e \/ b # a
        BY <1>7, <4>2, Zenon
      <4> QED BY <4>1, <4>2, Zenon
    <3>4. Excused(e1, a1, f, b)
      BY <1>0, <3>2, <3>3, IsolationForm, Zenon
    <3>5. ASSUME InWindow(e1, f, a1), a1 = b PROVE InWindow(e1, f, a1)'
      <4>1. e1 # e
        BY <1>1, <2>1, <3>5, Zenon DEF InWindow
      <4>2. pt'[e1][a1] = pt[e1][a1] /\ call'[e1] = call[e1]
        BY <1>7, <1>8, <4>1, Zenon
      <4> QED BY <3>3, <3>5, <4>2, Zenon DEF InWindow
    <3>6. \A g \in Envs : call[g].at = "unmap" => call'[g] = call[g]
      BY <1>1, <1>8, Zenon
    <3> QED BY <1>2, <3>2, <3>3, <3>4, <3>5, <3>6, Zenon DEF Excused, Given
  <2>2. CASE r.tag # "share"
    <3>1. ~q.w
      BY <1>4, <1>5, <2>2, Zenon DEF Suits
    <3>2. e1 # e \/ a1 # a
      BY <1>7, <3>1, Zenon
    <3>3. pt'[e1][a1] = pt[e1][a1]
      BY <1>7, <3>2, Zenon
    <3>4. f # e \/ b # a
      <4> SUFFICES ASSUME f = e, b = a PROVE FALSE
        BY Zenon
      <4>1. pt[e1][a1].w /\ pt[e1][a1] # NULL /\ pt[e1][a1].page = pt[e][a].page
        BY <1>5, <1>7, <3>3, Zenon
      <4>2. ~pt[e1][a1].w
        BY <1>1, <1>4, <2>2, <3>2, <4>1, SoleWriter, Zenon
      <4> QED BY <4>1, <4>2, Zenon
    <3>5. pt'[f][b] = pt[f][b]
      BY <1>7, <3>4, Zenon
    <3>6. Excused(e1, a1, f, b)
      BY <1>0, <3>3, <3>5, IsolationForm, Zenon
    <3>7. ASSUME InWindow(e1, f, a1), a1 = b PROVE InWindow(e1, f, a1)'
      <4>1. e1 # e
        BY <3>2, <3>7, Zenon DEF InWindow
      <4>2. call'[e1] = call[e1]
        BY <1>8, <4>1, Zenon
      <4> QED BY <3>3, <3>5, <3>7, <4>2, Zenon DEF InWindow
    <3>8. \A g \in Envs : call[g].at = "unmap" => call'[g] = call[g]
      BY <1>1, <1>8, Zenon
    <3> QED BY <1>2, <3>3, <3>5, <3>6, <3>7, <3>8, Zenon DEF Excused, Given
  <2> QED BY <2>1, <2>2, Zenon
<1> QED BY <1>0, <1>3, <1>9, <1>10, <1>11, <1>12, <1>14, <1>15, <1>16, StepOf, Zenon DEF Local

LEMMA ForkXstackInv ==
  ASSUME Inv, NEW e \in Envs, ForkXstack(e)
  PROVE  Inv'
<1>a. PICK c : c = call[e].child
  BY Zenon
<1> USE <1>a
<1>0. TypeOK
  BY Zenon DEF Inv
<1>1. Runs(e) /\ call[e].at = "xstack"
  BY Zenon DEF ForkXstack, At
<1>2. CASE Panic
  BY <1>2, PanicInv, Zenon
<1>3. CASE ~Panic
  <2>1. /\ Goto(e, "upcall") /\ UNCHANGED <<env_status, upcall, pf, halted>>
        /\ \E p \in Pages : PageAlloc(c, XSTACK, p, TRUE, "none")
    BY <1>3, Zenon DEF ForkXstack
  <2>2. PICK p \in Pages : PageAlloc(c, XSTACK, p, TRUE, "none")
    BY <2>1, Zenon
  <2>3. /\ Local(e) /\ Parent(e) /\ env_status[e] = "run" /\ pf[e].at = "none"
    BY <1>1, Actor, Zenon
  <2>4. /\ c \in Envs /\ c # e /\ c # NULL
        /\ env_status[c] = "making" /\ call[c].at = "none" /\ call[c].child = NULL
        /\ pf[c].at = "none" /\ pt[c][PFTEMP] = NULL
        /\ \A f \in Envs : f # e => call[f].child # c
        /\ Local(c) /\ Parent(c)
    BY <1>1, Child, ZenonT(60)
  <2>5. /\ call' \in [Envs -> Call] /\ call'[e].at = "upcall" /\ call'[e].child = c
        /\ \A f \in Envs : f # e => call'[f] = call[f]
    BY <1>0, <2>1, GotoMoves, Zenon
  <2>6. KeepsWindows
    BY <1>1, <2>1, <2>5, Zenon DEF KeepsWindows
  <2>7. /\ pt' \in [Envs -> [Pns -> Ptes \cup {NULL}]]
        /\ \A f \in Envs : f # c => pt'[f] = pt[f]
        /\ \A f \in Envs, b \in Pns : f # c \/ b # XSTACK => pt'[f][b] = pt[f][b]
        /\ pt'[c][XSTACK] # NULL /\ pt'[c][XSTACK].w = TRUE /\ pt'[c][XSTACK].tag = "none"
        /\ Isolation' /\ \A f \in Envs, b \in Pns : Tagged(pt'[f][b])
    BY <2>2, <2>4, <2>6, PageNumbers, Allocated, ZenonT(60) DEF PageAlloc
  <2>8. TypeOK'
    BY <1>0, <2>1, <2>2, <2>5, <2>7, CowAssumption, Zenon DEF TypeOK, PageAlloc
  <2>9. \A f \in Envs : f # e /\ f # c => Untouched(f)
    BY <2>1, <2>5, <2>7, Zenon DEF Untouched
  <2>10. Parent(e)'
    BY <2>1, <2>3, <2>4, <2>5, Zenon DEF Parent
  <2>11. call'[c].child = NULL /\ call'[c].at = "none" /\ Local(c)'
    BY <2>1, <2>4, <2>5, <2>7, PageNumbers, ZenonT(60)
      DEF Local, Quiet, Handling, Calling, Handled, CanWrite, Forking, Spawning
  <2>12. Quiet(e)' /\ Handling(e)' /\ Handled(e)'
    BY <2>1, <2>3, <2>4, <2>7, KeepSelf, Zenon
  <2>13. Calling(e)'
    BY <1>1, <2>1, <2>3, <2>5, <2>7, Zenon DEF Local, Calling, CanWrite, Forking, Spawning
  <2> QED BY <2>3, <2>4, <2>7, <2>8, <2>9, <2>10, <2>11, <2>12, <2>13, StepOf, ZenonT(60) DEF Local
<1> QED BY <1>2, <1>3, Zenon

LEMMA ForkUpcallInv ==
  ASSUME Inv, NEW e \in Envs, ForkUpcall(e)
  PROVE  Inv'
<1>a. PICK c : c = call[e].child
  BY Zenon
<1> USE <1>a
<1>0. TypeOK
  BY Zenon DEF Inv
<1>1. /\ Runs(e) /\ call[e].at = "upcall" /\ Goto(e, "status")
      /\ upcall' = [upcall EXCEPT ![c] = TRUE]
      /\ UNCHANGED <<pt, data, env_status, pf, halted>>
  BY Zenon DEF ForkUpcall, At
<1>2. Local(e) /\ Parent(e) /\ env_status[e] = "run" /\ pf[e].at = "none"
  BY <1>1, Actor, Zenon
<1>3. /\ c \in Envs /\ c # e /\ c # NULL
      /\ env_status[c] = "making" /\ call[c].at = "none" /\ call[c].child = NULL
      /\ pf[c].at = "none" /\ pt[c][PFTEMP] = NULL
      /\ \A f \in Envs : f # e => call[f].child # c
      /\ Local(c) /\ Parent(c)
  BY <1>1, Child, ZenonT(60)
<1>4. /\ call' \in [Envs -> Call] /\ call'[e].at = "status" /\ call'[e].child = c
      /\ \A f \in Envs : f # e => call'[f] = call[f]
  BY <1>0, <1>1, GotoMoves, Zenon
<1>5. /\ upcall' \in [Envs -> BOOLEAN] /\ upcall'[c]
      /\ \A f \in Envs : f # c => upcall'[f] = upcall[f]
  BY <1>0, <1>1, <1>3, Zenon DEF TypeOK
<1>6. KeepsWindows
  BY <1>1, <1>4, Zenon DEF KeepsWindows
<1>7. Isolation' /\ \A f \in Envs, b \in Pns : Tagged(pt'[f][b])
  BY <1>1, <1>6, SamePages, Zenon
<1>8. TypeOK'
  BY <1>0, <1>1, <1>4, <1>5, Zenon DEF TypeOK
<1>9. \A f \in Envs : f # e /\ f # c => Untouched(f)
  BY <1>1, <1>4, <1>5, Zenon DEF Untouched
<1>10. Parent(e)'
  BY <1>1, <1>2, <1>3, <1>4, Zenon DEF Parent
<1>11. CanWrite(c, XSTACK) /\ upcall[e]
  BY <1>1, <1>2, Zenon DEF Local, Calling, Forking
<1>12. call'[c].child = NULL /\ call'[c].at = "none" /\ Local(c)'
  BY <1>1, <1>3, <1>4, <1>11, Zenon
    DEF Local, Quiet, Handling, Calling, Handled, CanWrite, Forking, Spawning
<1>13. Quiet(e)' /\ Handling(e)' /\ Handled(e)'
  BY <1>1, <1>2, <1>3, <1>5, KeepSelf, Zenon
<1>14. Calling(e)'
  BY <1>3, <1>4, <1>5, <1>11, Zenon DEF Calling, Forking, Spawning
<1> QED BY <1>2, <1>3, <1>7, <1>8, <1>9, <1>10, <1>12, <1>13, <1>14, StepOf, Zenon DEF Local

LEMMA IdleCall == Idle \in Call /\ Idle.at = "none" /\ Idle.child = NULL
  BY PageNumbers, Zenon DEF Idle, NoPerm, Call, UTEMP

LEMMA SetRunnableInv ==
  ASSUME Inv, NEW e \in Envs, NEW from \in {"status", "go"}, SetRunnable(e, from)
  PROVE  Inv'
<1>a. PICK c : c = call[e].child
  BY Zenon
<1> USE <1>a
<1>0. TypeOK
  BY Zenon DEF Inv
<1>1. /\ Runs(e) /\ call[e].at = from
      /\ env_status' = [env_status EXCEPT ![c] = "run"]
      /\ call' = [call EXCEPT ![e] = Idle]
      /\ UNCHANGED <<pt, data, upcall, pf, halted>>
  BY Zenon DEF SetRunnable, At
<1>2. Local(e) /\ Parent(e) /\ env_status[e] = "run" /\ pf[e].at = "none"
  BY <1>1, Actor, Zenon
<1>3. /\ c \in Envs /\ c # e /\ c # NULL
      /\ env_status[c] = "making" /\ call[c].at = "none" /\ call[c].child = NULL
      /\ pf[c].at = "none" /\ pt[c][PFTEMP] = NULL
      /\ \A f \in Envs : f # e => call[f].child # c
      /\ Local(c) /\ Parent(c)
  BY <1>1, Child, ZenonT(60)
<1>4. /\ call' \in [Envs -> Call] /\ call'[e] = Idle
      /\ \A f \in Envs : f # e => call'[f] = call[f]
  BY <1>0, <1>1, IdleCall, CallMoves, Zenon
<1>5. /\ env_status' \in [Envs -> {"free", "making", "run"}] /\ env_status'[c] = "run"
      /\ \A f \in Envs : f # c => env_status'[f] = env_status[f]
  BY <1>0, <1>1, <1>3, Zenon DEF TypeOK
<1>6. KeepsWindows
  BY <1>1, <1>4, Zenon DEF KeepsWindows
<1>7. Isolation' /\ \A f \in Envs, b \in Pns : Tagged(pt'[f][b])
  BY <1>1, <1>6, SamePages, Zenon
<1>8. TypeOK'
  BY <1>0, <1>1, <1>4, <1>5, Zenon DEF TypeOK
<1>9. \A f \in Envs : f # e /\ f # c => Untouched(f)
  BY <1>1, <1>4, <1>5, Zenon DEF Untouched
<1>10. Parent(e)'
  BY <1>4, IdleCall, Zenon DEF Parent
<1>11. upcall[c] \/ \A pn \in Pns : pt[c][pn] # NULL => pt[c][pn].tag # "cow"
  BY <1>1, <1>2, Zenon DEF Local, Calling, Spawning
<1>12. call'[c].child = NULL /\ call'[c].at = "none" /\ Local(c)'
  BY <1>1, <1>3, <1>4, <1>5, <1>11, Zenon
    DEF Local, Quiet, Handling, Calling, Handled, CanWrite, Forking, Spawning
<1>13. Quiet(e)' /\ Handling(e)' /\ Handled(e)'
  BY <1>1, <1>2, <1>3, <1>5, KeepSelf, Zenon
<1>14. Calling(e)'
  BY <1>4, IdleCall, Zenon DEF Calling, Forking, Spawning
<1> QED BY <1>2, <1>3, <1>7, <1>8, <1>9, <1>10, <1>12, <1>13, <1>14, StepOf, Zenon DEF Local
-----------------------------------------------------------------------------
(* spawn(). *)

LEMMA LoadedCall ==
  ASSUME NEW e \in Envs, call[e] \in Call, call[e].pn \in Vas
  PROVE  /\ Loaded(e) \in Call /\ Loaded(e).child = call[e].child
         /\ Loaded(e).at \in {"load", "close"}
         /\ Loaded(e).at = "load" => Loaded(e).pn \in Vas
<1>a. PICK k : k = call[e]
  BY Zenon
<1> DEFINE n == IF k.pn = TopStack THEN 2 ELSE k.pn + 1
           j == [k EXCEPT !.at = IF n = TopStack THEN "close" ELSE "load",
                          !.pn = IF n = TopStack THEN 0 ELSE n]
<1>1. k.pn \in Vas /\ n \in Vas /\ n \in Pns /\ 0 \in Pns
  BY <1>a, CowAssumption DEF Vas, TopStack, Pns
<1> HIDE DEF n
<1>2. /\ j \in Call /\ j.child = k.child
      /\ j.at \in {"load", "close"}
      /\ j.at = "load" => j.pn \in Vas
  <2>1. CASE n = TopStack
    BY <1>a, <1>1, <2>1, Zenon DEF Call
  <2>2. CASE n # TopStack
    BY <1>a, <1>1, <2>2, Zenon DEF Call
  <2> QED BY <2>1, <2>2, Zenon
<1>3. Loaded(e) = j
  BY <1>a, Zenon DEF Loaded, n
<1> HIDE DEF j
<1> QED BY <1>a, <1>2, <1>3, Zenon

\* What spawn() knows of its child.
LEMMA SpawnChild ==
  ASSUME Inv, NEW e \in Envs, Runs(e), call[e].at \in Spawning, NEW c, c = call[e].child
  PROVE  ~upcall[c] /\ \A pn \in Pns : pt[c][pn] # NULL => pt[c][pn].tag # "cow"
<1>1. Local(e)
  BY Actor, Zenon
<1> QED BY <1>1, Zenon DEF Local, Calling

\* The child after a step of spawn().
LEMMA SpawnKeepsChild ==
  ASSUME NEW c \in Envs, call'[c].at = "none", call'[c].child = NULL, pf'[c].at = "none",
         ~upcall'[c], env_status'[c] = "making", pt'[c][PFTEMP] = NULL
  PROVE  Local(c)'
  BY Zenon DEF Local, Quiet, Handling, Calling, Handled, Forking, Spawning

LEMMA SpawnFailsInv ==
  ASSUME Inv, NEW e \in Envs, Runs(e), call[e].at \in {"load", "give"},
         NEW u \in {NULL, pt[e][UTEMP]}, SpawnFails(e, u)
  PROVE  Inv'
<1>a. PICK c : c = call[e].child
  BY Zenon
<1> USE <1>a
<1>0. TypeOK /\ call[e].at \in Spawning /\ UTEMP \in Pns
  BY PageNumbers, Zenon DEF Inv, Spawning
<1>1. Local(e) /\ Parent(e) /\ env_status[e] = "run" /\ pf[e].at = "none"
  BY Actor, Zenon
<1>2. /\ c \in Envs /\ c # e /\ c # NULL
      /\ env_status[c] = "making" /\ call[c].at = "none" /\ call[c].child = NULL
      /\ pf[c].at = "none" /\ pt[c][PFTEMP] = NULL
      /\ \A f \in Envs : f # e => call[f].child # c
      /\ Local(c) /\ Parent(c)
  BY Child, ZenonT(60)
<1>3. ~upcall[c]
  BY <1>0, SpawnChild, Zenon
<1> DEFINE left == [pt EXCEPT ![e][UTEMP] = u]
<1>4. /\ call' = [call EXCEPT ![e] = Idle] /\ UNCHANGED <<data, upcall, pf, halted>>
      /\ \/ pt' = left /\ UNCHANGED env_status
         \/ /\ pt' = [left EXCEPT ![c] = Empty]
            /\ env_status' = [env_status EXCEPT ![c] = "free"]
  BY Zenon DEF SpawnFails
<1>5. /\ left \in [Envs -> [Pns -> Ptes \cup {NULL}]]
      /\ \A f \in Envs : f # e => left[f] = pt[f]
      /\ \A b \in Pns : left[e][b] # NULL => left[e][b] = pt[e][b]
      /\ \A b \in Pns : b # UTEMP => left[e][b] = pt[e][b]
  BY <1>0, ZenonT(60) DEF TypeOK
<1> HIDE DEF left
<1>6. /\ pt' \in [Envs -> [Pns -> Ptes \cup {NULL}]]
      /\ \A f \in Envs : f # e /\ f # c => pt'[f] = pt[f]
      /\ \A f \in Envs, b \in Pns : pt'[f][b] # NULL => pt'[f][b] = pt[f][b]
      /\ \A b \in Pns : b # UTEMP => pt'[e][b] = pt[e][b]
  <2>1. Empty \in [Pns -> Ptes \cup {NULL}] /\ \A b \in Pns : Empty[b] = NULL
    BY Zenon DEF Empty
  <2>2. CASE pt' = left
    BY <1>5, <2>2, Zenon
  <2>3. CASE pt' = [left EXCEPT ![c] = Empty]
    BY <1>2, <1>5, <2>1, <2>3, ZenonT(60)
  <2> QED BY <1>4, <2>2, <2>3, Zenon
<1>7. /\ call' \in [Envs -> Call] /\ call'[e] = Idle
      /\ \A f \in Envs : f # e => call'[f] = call[f]
  BY <1>0, <1>4, IdleCall, CallMoves, Zenon
<1>8. /\ env_status' \in [Envs -> {"free", "making", "run"}]
      /\ \A f \in Envs : f # c => env_status'[f] = env_status[f]
      /\ env_status'[c] = "making" \/ (env_status'[c] = "free" /\ \A b \in Pns : pt'[c][b] = NULL)
  <2>1. CASE pt' = left /\ UNCHANGED env_status
    BY <1>0, <1>2, <2>1, Zenon DEF TypeOK
  <2>2. CASE /\ pt' = [left EXCEPT ![c] = Empty]
             /\ env_status' = [env_status EXCEPT ![c] = "free"]
    BY <1>0, <1>2, <1>5, <2>2, Zenon DEF TypeOK, Empty
  <2> QED BY <1>4, <2>1, <2>2, Zenon
<1>9. TypeOK'
  BY <1>0, <1>4, <1>6, <1>7, <1>8, Zenon DEF TypeOK
<1>10. \A f \in Envs : f # e /\ f # c => Untouched(f)
  BY <1>4, <1>6, <1>7, <1>8, Zenon DEF Untouched
<1>11. Isolation'
  <2>1. \A f \in Envs : call[f].at \in {"own", "unmap"} => call'[f] = call[f]
    BY <1>7, Zenon
  <2>2. \A f \in Envs, b \in Pns :
          pt'[f][b] # NULL =>
            /\ pt'[f][b] = pt[f][b]
            /\ call[f].at \in {"own", "unmap"} => call'[f] = call[f]
            /\ pf[f].at = "unmap" => pf'[f] = pf[f]
    BY <1>4, <1>6, <2>1, Zenon
  <2> QED BY <2>2, KeepIsolated, Zenon DEF Inv
<1>12. \A f \in Envs, b \in Pns : Tagged(pt'[f][b])
  <2> SUFFICES ASSUME NEW f \in Envs, NEW b \in Pns PROVE Tagged(pt'[f][b])
    BY Zenon
  <2>1. Tagged(pt[f][b]) /\ (pt'[f][b] # NULL => pt'[f][b] = pt[f][b])
    BY <1>6, Zenon DEF Inv
  <2> QED BY <2>1, Zenon DEF Tagged
<1>13. Parent(e)'
  BY <1>7, IdleCall, Zenon DEF Parent
<1>14. pt'[c][PFTEMP] = NULL
  BY <1>2, <1>6, PageNumbers, Zenon
<1>15. call'[c].child = NULL /\ call'[c].at = "none" /\ Local(c)'
  BY <1>2, <1>3, <1>4, <1>7, <1>8, <1>14, Zenon
    DEF Local, Quiet, Handling, Calling, Handled, Forking, Spawning
<1>16. Quiet(e)' /\ Handling(e)' /\ Handled(e)'
  <2>1. /\ pt'[e][XSTACK] = pt[e][XSTACK] /\ pt'[e][PFTEMP] = pt[e][PFTEMP]
        /\ \A b \in Pns : pt'[e][b] # NULL => pt'[e][b] = pt[e][b]
        /\ env_status'[e] = "run" /\ upcall'[e] = upcall[e] /\ pf'[e] = pf[e]
    BY <1>1, <1>2, <1>4, <1>6, <1>8, PageNumbers, Zenon
  <2> QED BY <1>1, <2>1, Zenon DEF Local, Quiet, Handling, Handled, CanWrite
<1>17. Calling(e)'
  BY <1>7, IdleCall, Zenon DEF Calling, Forking, Spawning
<1> QED BY <1>1, <1>2, <1>9, <1>10, <1>11, <1>12, <1>13, <1>15, <1>16, <1>17, StepOf, Zenon DEF Local

LEMMA SpawnReadFailsInv ==
  ASSUME Inv, NEW e \in Envs, SpawnReadFails(e)
  PROVE  Inv'
  BY SpawnFailsInv, Zenon DEF SpawnReadFails, At

LEMMA SpawnSkipInv ==
  ASSUME Inv, NEW e \in Envs, SpawnSkip(e)
  PROVE  Inv'
<1>a. PICK c : c = call[e].child
  BY Zenon
<1> USE <1>a
<1>0. NULL # e /\ NULL \in Envs \cup {NULL} /\ TypeOK
  BY CowAssumption, Zenon DEF Inv
<1>1. /\ Runs(e) /\ call[e].at = "load" /\ call' = [call EXCEPT ![e] = Loaded(e)]
      /\ UNCHANGED <<pt, data, env_status, upcall, pf, halted>>
  BY Zenon DEF SpawnSkip, At
<1>2. /\ Local(e) /\ Parent(e) /\ env_status[e] = "run" /\ pf[e].at = "none" /\ call[e] \in Call
      /\ call[e].pn \in Vas
  BY <1>1, Actor, Zenon DEF Local, Calling
<1>3. /\ Loaded(e) \in Call /\ Loaded(e).child = call[e].child
      /\ Loaded(e).at \in {"load", "close"}
      /\ Loaded(e).at = "load" => Loaded(e).pn \in Vas
  BY <1>2, LoadedCall, Zenon
<1>4. /\ call' \in [Envs -> Call] /\ call'[e] = Loaded(e)
      /\ \A f \in Envs : f # e => call'[f] = call[f]
  BY <1>0, <1>1, <1>3, CallMoves, Zenon
<1>5. KeepsWindows
  BY <1>1, <1>4, Zenon DEF KeepsWindows
<1>6. Isolation' /\ \A f \in Envs, b \in Pns : Tagged(pt'[f][b])
  BY <1>1, <1>5, SamePages, Zenon
<1>7. TypeOK'
  BY <1>0, <1>1, <1>4, Zenon DEF TypeOK
<1>8. \A f \in Envs : f # e => Untouched(f)
  BY <1>1, <1>4, Zenon DEF Untouched
<1>9. Parent(e)'
  <2>1. call[e].child # NULL /\ \A f \in Envs : call'[f].child = call[f].child
    BY <1>1, <1>2, <1>3, <1>4, Zenon DEF Parent
  <2> QED BY <1>1, <1>2, <1>3, <1>4, <2>1, Zenon DEF Parent
<1>10. Quiet(e)' /\ Handling(e)' /\ Handled(e)'
  BY <1>1, <1>2, KeepSelf, Zenon
<1>11. Calling(e)'
  BY <1>1, <1>2, <1>3, <1>4, ZenonT(60) DEF Local, Calling, Forking, Spawning
<1> QED BY <1>0, <1>2, <1>6, <1>7, <1>8, <1>9, <1>10, <1>11, StepOf, Zenon DEF Local

LEMMA SpawnLoadInv ==
  ASSUME Inv, NEW e \in Envs, NEW v \in Values, SpawnLoad(e, v)
  PROVE  Inv'
<1>a. PICK c : c = call[e].child
  BY Zenon
<1> USE <1>a
<1>0. NULL # e /\ NULL \in Envs \cup {NULL} /\ TypeOK
  BY CowAssumption, Zenon DEF Inv
<1>1. Runs(e) /\ call[e].at = "load"
  BY Zenon DEF SpawnLoad, At
<1>2. CASE OutOfPages
  BY <1>1, <1>2, SpawnFailsInv, Zenon DEF SpawnLoad
<1>3. CASE ~OutOfPages
  <2>1. /\ Goto(e, "give") /\ UNCHANGED <<env_status, upcall, pf, halted>>
        /\ \E p \in Pages : /\ Free(p)
                            /\ pt' = [pt EXCEPT ![e][UTEMP] = Pte(p, TRUE, "none")]
                            /\ data' = [data EXCEPT ![p] = v]
    BY <1>3, Zenon DEF SpawnLoad
  <2>2. PICK p \in Pages : /\ Free(p)
                           /\ pt' = [pt EXCEPT ![e][UTEMP] = Pte(p, TRUE, "none")]
                           /\ data' = [data EXCEPT ![p] = v]
    BY <2>1, Zenon
  <2>3. /\ Local(e) /\ Parent(e) /\ env_status[e] = "run" /\ pf[e].at = "none"
        /\ call[e].pn \in Vas
    BY <1>1, Actor, Zenon DEF Local, Calling
  <2>4. c \in Envs /\ c # e /\ c # NULL
    BY <1>1, Child, Zenon
  <2>5. /\ call' \in [Envs -> Call] /\ call'[e].at = "give" /\ call'[e].child = c
        /\ call'[e].pn = call[e].pn
        /\ \A f \in Envs : f # e => call'[f] = call[f]
    BY <1>0, <2>1, GotoMoves, Zenon
  <2>6. KeepsWindows
    BY <1>1, <2>1, <2>5, Zenon DEF KeepsWindows
  <2>7. /\ pt' \in [Envs -> [Pns -> Ptes \cup {NULL}]]
        /\ \A f \in Envs : f # e => pt'[f] = pt[f]
        /\ \A f \in Envs, b \in Pns : f # e \/ b # UTEMP => pt'[f][b] = pt[f][b]
        /\ pt'[e][UTEMP] # NULL /\ pt'[e][UTEMP].w = TRUE /\ pt'[e][UTEMP].tag = "none"
        /\ Isolation' /\ \A f \in Envs, b \in Pns : Tagged(pt'[f][b])
    BY <2>2, <2>6, PageNumbers, Allocated, Zenon
  <2>8. TypeOK'
    BY <1>0, <2>1, <2>2, <2>5, <2>7, Zenon DEF TypeOK
  <2>9. \A f \in Envs : f # e => Untouched(f)
    BY <2>1, <2>5, <2>7, Zenon DEF Untouched
  <2>10. Parent(e)'
    <3>1. \A f \in Envs : call'[f].child = call[f].child
      BY <2>5, Zenon
    <3> QED BY <2>1, <2>3, <2>4, <2>5, <3>1, Zenon DEF Parent
  <2>11. Quiet(e)' /\ Handling(e)' /\ Handled(e)'
    <3>1. pt'[e][XSTACK] = pt[e][XSTACK] /\ pt'[e][PFTEMP] = pt[e][PFTEMP]
      BY <2>7, PageNumbers, Zenon
    <3>2. (\E b \in Pns : pt'[e][b] # NULL /\ pt'[e][b].tag = "cow")
            => \E b \in Pns : pt[e][b] # NULL /\ pt[e][b].tag = "cow"
      BY <2>7, Zenon
    <3> QED BY <2>1, <2>3, <3>1, <3>2, Zenon DEF Local, Quiet, Handling, Handled, CanWrite
  <2>12. Calling(e)'
    <3>1. Own(pt'[e][UTEMP])
      BY <2>7, Zenon DEF Own
    <3>2. pt'[c] = pt[c] /\ upcall'[c] = upcall[c]
      BY <2>1, <2>4, <2>7, Zenon
    <3>3. ~upcall[c] /\ \A pn \in Pns : pt[c][pn] # NULL => pt[c][pn].tag # "cow"
      BY <1>1, SpawnChild, Zenon DEF Spawning
    <3> QED BY <2>3, <2>5, <3>1, <3>2, <3>3, Zenon DEF Calling, Forking, Spawning
  <2> QED BY <1>0, <2>3, <2>7, <2>8, <2>9, <2>10, <2>11, <2>12, StepOf, Zenon DEF Local
<1> QED BY <1>2, <1>3, Zenon

LEMMA SpawnBlankInv ==
  ASSUME Inv, NEW e \in Envs, NEW w \in BOOLEAN, SpawnBlank(e, w)
  PROVE  Inv'
<1>a. PICK c, a : c = call[e].child /\ a = call[e].pn
  BY Zenon
<1> USE <1>a
<1>0. TypeOK
  BY Zenon DEF Inv
<1>1. Runs(e) /\ call[e].at = "load"
  BY Zenon DEF SpawnBlank, At
<1>2. CASE OutOfPages
  BY <1>1, <1>2, SpawnFailsInv, Zenon DEF SpawnBlank
<1>3. CASE ~OutOfPages
  <2>1. /\ call' = [call EXCEPT ![e] = Loaded(e)] /\ UNCHANGED <<env_status, upcall, pf, halted>>
        /\ \E p \in Pages : PageAlloc(c, a, p, w, "none")
    BY <1>3, Zenon DEF SpawnBlank
  <2>2. PICK p \in Pages : PageAlloc(c, a, p, w, "none")
    BY <2>1, Zenon
  <2>3. /\ Local(e) /\ Parent(e) /\ env_status[e] = "run" /\ pf[e].at = "none"
        /\ a \in Vas /\ call[e] \in Call
    BY <1>1, Actor, Zenon DEF Local, Calling
  <2>4. /\ c \in Envs /\ c # e /\ c # NULL
        /\ env_status[c] = "making" /\ call[c].at = "none" /\ call[c].child = NULL
        /\ pf[c].at = "none" /\ pt[c][PFTEMP] = NULL
        /\ \A f \in Envs : f # e => call[f].child # c
        /\ Local(c) /\ Parent(c)
    BY <1>1, Child, ZenonT(60)
  <2>5. /\ Loaded(e) \in Call /\ Loaded(e).child = c
        /\ Loaded(e).at \in {"load", "close"}
        /\ Loaded(e).at = "load" => Loaded(e).pn \in Vas
    BY <2>3, LoadedCall, Zenon
  <2>6. /\ call' \in [Envs -> Call] /\ call'[e] = Loaded(e)
        /\ \A f \in Envs : f # e => call'[f] = call[f]
    BY <1>0, <2>1, <2>5, CallMoves, Zenon
  <2>7. KeepsWindows
    BY <1>1, <2>1, <2>6, Zenon DEF KeepsWindows
  <2>8. a \in Pns /\ a # PFTEMP
    BY <2>3, PageNumbers, Zenon
  <2>9. /\ pt' \in [Envs -> [Pns -> Ptes \cup {NULL}]]
        /\ \A f \in Envs : f # c => pt'[f] = pt[f]
        /\ \A f \in Envs, b \in Pns : f # c \/ b # a => pt'[f][b] = pt[f][b]
        /\ pt'[c][a] # NULL /\ pt'[c][a].w = w /\ pt'[c][a].tag = "none"
        /\ Isolation' /\ \A f \in Envs, b \in Pns : Tagged(pt'[f][b])
    <3> DEFINE q == Pte(p, w, "none")
    <3>1. Free(p) /\ pt' = [pt EXCEPT ![c][a] = q]
      BY <2>2, Zenon DEF PageAlloc
    <3>2. q \in Ptes /\ q # NULL /\ q.page = p /\ q.w = w /\ q.tag = "none"
      BY PteType
    <3> HIDE DEF q
    <3>3. /\ pt' \in [Envs -> [Pns -> Ptes \cup {NULL}]]
          /\ \A f \in Envs : f # c => pt'[f] = pt[f]
          /\ \A f \in Envs, b \in Pns : f # c \/ b # a => pt'[f][b] = pt[f][b]
          /\ pt'[c][a] = q
      BY <1>0, <2>4, <2>8, <3>1, <3>2, Zenon DEF TypeOK
    <3>4. Tagged(q)
      BY <3>2, Zenon DEF Tagged
    <3>5. Isolation' /\ \A f \in Envs, b \in Pns : Tagged(pt'[f][b])
      <4>1. pt'[c][a] # NULL => Tagged(pt'[c][a]) /\ Free(pt'[c][a].page)
        BY <3>1, <3>2, <3>3, <3>4, Zenon
      <4> QED BY <2>4, <2>7, <2>8, <3>3, <4>1, Entered, Zenon
    <3> QED BY <3>2, <3>3, <3>5, Zenon
  <2>10. TypeOK'
    BY <1>0, <2>1, <2>2, <2>6, <2>9, CowAssumption, Zenon DEF TypeOK, PageAlloc
  <2>11. \A f \in Envs : f # e /\ f # c => Untouched(f)
    BY <2>1, <2>6, <2>9, Zenon DEF Untouched
  <2>12. ~upcall[c] /\ \A pn \in Pns : pt[c][pn] # NULL => pt[c][pn].tag # "cow"
    BY <1>1, SpawnChild, Zenon DEF Spawning
  <2>13. call'[c].child = NULL /\ call'[c].at = "none" /\ Local(c)'
    <3>1. pt'[c][PFTEMP] = NULL /\ call'[c] = call[c]
      BY <2>4, <2>6, <2>8, <2>9, PageNumbers, Zenon
    <3> QED BY <2>1, <2>4, <2>12, <3>1, SpawnKeepsChild, Zenon
  <2>14. Parent(e)'
    <3>1. \A f \in Envs : call'[f].child = call[f].child
      BY <2>5, <2>6, Zenon
    <3> QED BY <2>1, <2>3, <2>4, <2>5, <2>6, <3>1, ZenonT(60) DEF Parent
  <2>15. Quiet(e)' /\ Handling(e)' /\ Handled(e)'
    BY <2>1, <2>3, <2>4, <2>9, KeepSelf, Zenon
  <2>16. Calling(e)'
    <3>1. ~upcall'[c] /\ \A pn \in Pns : pt'[c][pn] # NULL => pt'[c][pn].tag # "cow"
      BY <2>1, <2>4, <2>9, <2>12, ZenonT(60)
    <3> QED BY <2>5, <2>6, <3>1, Zenon DEF Calling, Forking, Spawning
  <2> QED BY <2>3, <2>4, <2>9, <2>10, <2>11, <2>13, <2>14, <2>15, <2>16, StepOf, Zenon DEF Local
<1> QED BY <1>2, <1>3, Zenon

LEMMA SpawnGiveInv ==
  ASSUME Inv, NEW e \in Envs, NEW w \in BOOLEAN, SpawnGive(e, w)
  PROVE  Inv'
<1>a. PICK c, a, r : c = call[e].child /\ a = call[e].pn /\ r = pt[e][UTEMP]
  BY Zenon
<1> USE <1>a
<1>0. TypeOK /\ Isolation
  BY Zenon DEF Inv
<1>1. Runs(e) /\ call[e].at = "give"
  BY Zenon DEF SpawnGive, At
<1> DEFINE q == Pte(r.page, w, "none")
<1>2. CASE Panic
  BY <1>2, PanicInv, Zenon
<1>3. CASE SpawnFails(e, NULL)
  BY <1>1, <1>3, SpawnFailsInv, Zenon
<1>4. CASE ~Panic /\ ~SpawnFails(e, NULL)
  <2>1. /\ pt' = [pt EXCEPT ![c][a] = q] /\ Goto(e, "unmap")
        /\ UNCHANGED <<data, env_status, upcall, pf, halted>>
    BY <1>4, Zenon DEF SpawnGive
  <2>2. /\ Local(e) /\ Parent(e) /\ env_status[e] = "run" /\ pf[e].at = "none"
        /\ a \in Vas /\ call[e] \in Call /\ Own(r)
    BY <1>1, Actor, Zenon DEF Local, Calling
  <2>3. /\ c \in Envs /\ c # e /\ c # NULL
        /\ env_status[c] = "making" /\ call[c].at = "none" /\ call[c].child = NULL
        /\ pf[c].at = "none" /\ pt[c][PFTEMP] = NULL
        /\ \A f \in Envs : f # e => call[f].child # c
        /\ Local(c) /\ Parent(c)
    BY <1>1, Child, ZenonT(60)
  <2>4. a \in Pns /\ a # PFTEMP /\ UTEMP \in Pns /\ r \in Ptes
    BY <1>0, <2>2, PageNumbers DEF TypeOK, Own
  <2>5. q \in Ptes /\ q # NULL /\ q.page = r.page /\ q.tag = "none"
    BY <2>4, PteType DEF Ptes
  <2> HIDE DEF q
  <2>7. /\ call' \in [Envs -> Call] /\ call'[e].at = "unmap" /\ call'[e].child = c
        /\ call'[e].pn = a /\ call'[e].perm = call[e].perm
        /\ \A f \in Envs : f # e => call'[f] = call[f]
    BY <1>0, <2>1, GotoMoves, Zenon
  <2>8. /\ pt' \in [Envs -> [Pns -> Ptes \cup {NULL}]]
        /\ \A f \in Envs : f # c => pt'[f] = pt[f]
        /\ \A b \in Pns : b # a => pt'[c][b] = pt[c][b]
        /\ pt'[c][a] = q
    BY <1>0, <2>1, <2>3, <2>4, <2>5, Zenon DEF TypeOK
  <2>9. TypeOK'
    BY <1>0, <2>1, <2>7, <2>8, Zenon DEF TypeOK
  <2>10. \A f \in Envs : f # e /\ f # c => Untouched(f)
    BY <2>1, <2>7, <2>8, Zenon DEF Untouched
  <2>11. \A f \in Envs, b \in Pns : pt'[f][b] = pt[f][b] \/ (f = c /\ b = a)
    BY <2>8, ZenonT(60)
  <2>12. \A f \in Envs, b \in Pns : Tagged(pt'[f][b])
    BY <2>5, <2>8, <2>11, ZenonT(60) DEF Inv, Tagged
  <2>13. ASSUME NEW f \in Envs, NEW b \in Pns, f # e \/ b # UTEMP, pt[f][b] # NULL
         PROVE  pt[f][b].page # r.page
    <3> SUFFICES ASSUME pt[f][b].page = r.page PROVE FALSE
      BY Zenon
    <3>1. Excused(e, UTEMP, f, b)
      BY <1>0, <2>2, <2>4, <2>13, IsolationForm, Zenon DEF Own
    <3>2. ~Given(e, f, b)
      BY <1>1, Zenon DEF Given
    <3>3. ~Given(f, e, UTEMP)
      BY <2>2, NotGiven, Zenon
    <3> QED BY <1>1, <2>2, <3>1, <3>2, <3>3, Zenon DEF Excused, InWindow, Own
  <2>14. ASSUME NEW f \in Envs, NEW b \in Pns, f # c \/ b # a, pt'[f][b] # NULL,
                pt'[f][b].page = pt'[c][a].page
         PROVE  f = e /\ b = UTEMP
    <3>1. pt'[f][b] = pt[f][b] /\ pt'[c][a].page = r.page
      BY <2>5, <2>8, <2>11, <2>14, Zenon
    <3> QED BY <2>13, <2>14, <3>1, Zenon
  <2>14a. Given(e, c, a)'
    BY <2>7, Zenon DEF Given
  <2>15. Isolation'
    <3> SUFFICES ASSUME NEW e1 \in Envs, NEW f \in Envs, NEW a1 \in Pns, NEW b \in Pns,
                        e1 # f \/ a1 # b, pt'[e1][a1] # NULL, pt'[f][b] # NULL,
                        pt'[e1][a1].page = pt'[f][b].page, pt'[e1][a1].w
                 PROVE  Excused(e1, a1, f, b)'
      BY IsolationForm2, Zenon
    <3>1. CASE e1 = c /\ a1 = a
      BY <2>14, <2>14a, <3>1, Zenon DEF Excused
    <3>2. CASE f = c /\ b = a
      BY <2>14, <2>14a, <3>2, Zenon DEF Excused
    <3>3. CASE ~(e1 = c /\ a1 = a) /\ ~(f = c /\ b = a)
      <4>1. pt'[e1][a1] = pt[e1][a1] /\ pt'[f][b] = pt[f][b]
        BY <2>11, <3>3, Zenon
      <4>2. Excused(e1, a1, f, b)
        BY <1>0, <4>1, IsolationForm, Zenon
      <4>3. \A g \in Envs : call[g].at \in {"own", "unmap"} => call'[g] = call[g]
        BY <1>1, <2>7, Zenon
      <4> QED BY <2>1, <4>1, <4>2, <4>3, KeepExcused, Zenon
    <3> QED BY <3>1, <3>2, <3>3, Zenon
  <2>16. ~upcall[c] /\ \A pn \in Pns : pt[c][pn] # NULL => pt[c][pn].tag # "cow"
    BY <1>1, SpawnChild, Zenon DEF Spawning
  <2>17. call'[c].child = NULL /\ call'[c].at = "none" /\ Local(c)'
    <3>1. pt'[c][PFTEMP] = NULL /\ call'[c] = call[c]
      BY <2>3, <2>4, <2>7, <2>8, PageNumbers, Zenon
    <3> QED BY <2>1, <2>3, <2>16, <3>1, SpawnKeepsChild, Zenon
  <2>18. Parent(e)'
    <3>1. \A f \in Envs : call'[f].child = call[f].child
      BY <2>7, Zenon
    <3> QED BY <2>1, <2>2, <2>3, <2>7, <3>1, ZenonT(60) DEF Parent
  <2>19. Quiet(e)' /\ Handling(e)' /\ Handled(e)'
    BY <2>1, <2>2, <2>3, <2>8, KeepSelf, Zenon
  <2>20. Calling(e)'
    <3>1. ~upcall'[c] /\ \A pn \in Pns : pt'[c][pn] # NULL => pt'[c][pn].tag # "cow"
      BY <2>1, <2>3, <2>5, <2>8, <2>16, ZenonT(60)
    <3> QED BY <2>2, <2>7, <3>1, Zenon DEF Calling, Forking, Spawning
  <2> QED BY <2>2, <2>3, <2>9, <2>10, <2>12, <2>15, <2>17, <2>18, <2>19, <2>20, StepOf, Zenon DEF Local
<1> QED BY <1>2, <1>3, <1>4, Zenon

LEMMA SpawnUnmapInv ==
  ASSUME Inv, NEW e \in Envs, SpawnUnmap(e)
  PROVE  Inv'
<1>a. PICK c : c = call[e].child
  BY Zenon
<1> USE <1>a
<1>0. NULL # e /\ NULL \in Envs \cup {NULL} /\ TypeOK /\ Isolation /\ UTEMP \in Pns
  BY CowAssumption, PageNumbers, Zenon DEF Inv
<1>1. /\ Runs(e) /\ call[e].at = "unmap" /\ pt' = [pt EXCEPT ![e][UTEMP] = NULL]
      /\ call' = [call EXCEPT ![e] = Loaded(e)]
      /\ UNCHANGED <<data, env_status, upcall, pf, halted>>
  BY Zenon DEF SpawnUnmap, At
<1>2. /\ Local(e) /\ Parent(e) /\ env_status[e] = "run" /\ pf[e].at = "none" /\ call[e] \in Call
      /\ call[e].pn \in Vas
  BY <1>1, Actor, Zenon DEF Local, Calling
<1>3. /\ Loaded(e) \in Call /\ Loaded(e).child = c
      /\ Loaded(e).at \in {"load", "close"}
      /\ Loaded(e).at = "load" => Loaded(e).pn \in Vas
  BY <1>2, LoadedCall, Zenon
<1>4. /\ call' \in [Envs -> Call] /\ call'[e] = Loaded(e)
      /\ \A f \in Envs : f # e => call'[f] = call[f]
  BY <1>0, <1>1, <1>3, CallMoves, Zenon
<1>5. /\ pt' \in [Envs -> [Pns -> Ptes \cup {NULL}]]
      /\ \A f \in Envs : f # e => pt'[f] = pt[f]
      /\ \A f \in Envs, b \in Pns : f # e \/ b # UTEMP => pt'[f][b] = pt[f][b]
      /\ pt'[e][UTEMP] = NULL
  BY <1>0, <1>1, Zenon DEF TypeOK
<1>6. TypeOK'
  BY <1>0, <1>1, <1>4, <1>5, Zenon DEF TypeOK
<1>7. \A f \in Envs : f # e => Untouched(f)
  BY <1>1, <1>4, <1>5, Zenon DEF Untouched
<1>8. \A f \in Envs, b \in Pns : Tagged(pt'[f][b])
  BY <1>5, Zenon DEF Inv, Tagged
<1>9. Isolation'
  <2> SUFFICES ASSUME NEW e1 \in Envs, NEW f \in Envs, NEW a1 \in Pns, NEW b \in Pns,
                      e1 # f \/ a1 # b, pt'[e1][a1] # NULL, pt'[f][b] # NULL,
                      pt'[e1][a1].page = pt'[f][b].page, pt'[e1][a1].w
               PROVE  Excused(e1, a1, f, b)'
    BY IsolationForm2, Zenon
  <2>1. /\ pt'[e1][a1] = pt[e1][a1] /\ pt'[f][b] = pt[f][b]
        /\ e1 # e \/ a1 # UTEMP
        /\ f # e \/ b # UTEMP
    BY <1>5, Zenon
  <2>2. Excused(e1, a1, f, b)
    BY <1>0, <2>1, IsolationForm, Zenon
  <2>3. \A g \in Envs : /\ call[g].at = "own" => call'[g] = call[g]
                       /\ call[g].at = "unmap" /\ g # e => call'[g] = call[g]
    BY <1>1, <1>4, Zenon
  <2>4. /\ call[e1].at = "own" => call'[e1] = call[e1]
        /\ call[e1].at = "unmap" /\ a1 = UTEMP => call'[e1] = call[e1]
        /\ call[f].at = "unmap" /\ b = UTEMP => call'[f] = call[f]
        /\ pf'[e1] = pf[e1]
    BY <1>1, <2>1, <2>3
  <2> QED BY <2>1, <2>2, <2>4, KeepExcused, Zenon
<1>10. Parent(e)'
  <2>1. c # NULL /\ \A f \in Envs : call'[f].child = call[f].child
    BY <1>1, <1>2, <1>3, <1>4, Zenon DEF Parent
  <2> QED BY <1>1, <1>2, <1>3, <1>4, <2>1, Zenon DEF Parent
<1>11. Quiet(e)' /\ Handling(e)' /\ Handled(e)'
  <2>1. pt'[e][XSTACK] = pt[e][XSTACK] /\ pt'[e][PFTEMP] = pt[e][PFTEMP]
    BY <1>5, PageNumbers, Zenon
  <2>2. (\E b \in Pns : pt'[e][b] # NULL /\ pt'[e][b].tag = "cow")
          => \E b \in Pns : pt[e][b] # NULL /\ pt[e][b].tag = "cow"
    BY <1>5, Zenon
  <2> QED BY <1>1, <1>2, <2>1, <2>2, Zenon DEF Local, Quiet, Handling, Handled, CanWrite
<1>12. Calling(e)'
  <2>1. ~upcall[c] /\ \A pn \in Pns : pt[c][pn] # NULL => pt[c][pn].tag # "cow"
    BY <1>1, SpawnChild, Zenon DEF Spawning
  <2>2. c \in Envs /\ c # e
    BY <1>1, Child, ZenonT(60)
  <2>3. ~upcall'[c] /\ \A pn \in Pns : pt'[c][pn] # NULL => pt'[c][pn].tag # "cow"
    BY <1>1, <1>5, <2>1, <2>2, Zenon
  <2> QED BY <1>3, <1>4, <2>3, Zenon DEF Calling, Forking, Spawning
<1> QED BY <1>0, <1>2, <1>6, <1>7, <1>8, <1>9, <1>10, <1>11, <1>12, StepOf, Zenon DEF Local

LEMMA SpawnCloseInv ==
  ASSUME Inv, NEW e \in Envs, SpawnClose(e)
  PROVE  Inv'
<1>a. PICK c : c = call[e].child
  BY Zenon
<1> USE <1>a
<1>0. NULL # e /\ NULL \in Envs \cup {NULL} /\ TypeOK
  BY CowAssumption, Zenon DEF Inv
<1>1. /\ Runs(e) /\ call[e].at = "close" /\ Goto(e, "shared")
      /\ UNCHANGED <<data, env_status, upcall, pf, halted>>
      /\ pt' = pt \/ \E va \in Vas : pt' = [pt EXCEPT ![e][va] = NULL]
  BY Zenon DEF SpawnClose, At
<1>2. Local(e) /\ Parent(e) /\ env_status[e] = "run" /\ pf[e].at = "none" /\ call[e] \in Call
  BY <1>1, Actor, Zenon
<1>3. /\ call' \in [Envs -> Call] /\ call'[e].at = "shared" /\ call'[e].child = c
      /\ \A f \in Envs : f # e => call'[f] = call[f]
  BY <1>0, <1>1, GotoMoves, Zenon
<1>4. KeepsWindows
  BY <1>1, <1>3, Zenon DEF KeepsWindows
<1>5. /\ pt' \in [Envs -> [Pns -> Ptes \cup {NULL}]]
      /\ \A f \in Envs : f # e => pt'[f] = pt[f]
      /\ \A b \in Pns : pt'[e][b] = pt[e][b] \/ (b \in Vas /\ pt'[e][b] = NULL)
      /\ Isolation' /\ \A f \in Envs, b \in Pns : Tagged(pt'[f][b])
  <2>1. CASE pt' = pt
    BY <1>0, <1>4, <2>1, SamePages, Zenon DEF TypeOK
  <2>2. ASSUME NEW va \in Vas, pt' = [pt EXCEPT ![e][va] = NULL]
        PROVE  /\ pt' \in [Envs -> [Pns -> Ptes \cup {NULL}]]
               /\ \A f \in Envs : f # e => pt'[f] = pt[f]
               /\ \A b \in Pns : pt'[e][b] = pt[e][b] \/ (b \in Vas /\ pt'[e][b] = NULL)
               /\ Isolation' /\ \A f \in Envs, b \in Pns : Tagged(pt'[f][b])
    <3>1. va \in Pns
      BY PageNumbers, Zenon
    <3> QED BY <1>4, <2>2, <3>1, Unmapped, Zenon
  <2> QED BY <1>1, <2>1, <2>2, Zenon
<1>6. TypeOK'
  BY <1>0, <1>1, <1>3, <1>5, Zenon DEF TypeOK
<1>7. \A f \in Envs : f # e => Untouched(f)
  BY <1>1, <1>3, <1>5, Zenon DEF Untouched
<1>8. Parent(e)'
  <2>1. c # NULL /\ \A f \in Envs : call'[f].child = call[f].child
    BY <1>1, <1>2, <1>3, Zenon DEF Parent
  <2> QED BY <1>1, <1>2, <1>3, <2>1, Zenon DEF Parent
<1>9. Quiet(e)' /\ Handling(e)' /\ Handled(e)'
  <2>1. pt'[e][XSTACK] = pt[e][XSTACK] /\ pt'[e][PFTEMP] = pt[e][PFTEMP]
    BY <1>5, PageNumbers, Zenon
  <2>2. (\E b \in Pns : pt'[e][b] # NULL /\ pt'[e][b].tag = "cow")
          => \E b \in Pns : pt[e][b] # NULL /\ pt[e][b].tag = "cow"
    BY <1>5, Zenon
  <2> QED BY <1>1, <1>2, <2>1, <2>2, Zenon DEF Local, Quiet, Handling, Handled, CanWrite
<1>10. Calling(e)'
  <2>1. ~upcall[c] /\ \A pn \in Pns : pt[c][pn] # NULL => pt[c][pn].tag # "cow"
    BY <1>1, SpawnChild, Zenon DEF Spawning
  <2>2. c \in Envs /\ c # e
    BY <1>1, Child, ZenonT(60)
  <2>3. ~upcall'[c] /\ \A pn \in Pns : pt'[c][pn] # NULL => pt'[c][pn].tag # "cow"
    BY <1>1, <1>5, <2>1, <2>2, Zenon
  <2> QED BY <1>3, <2>3, Zenon DEF Calling, Forking, Spawning
<1> QED BY <1>0, <1>2, <1>5, <1>6, <1>7, <1>8, <1>9, <1>10, StepOf, Zenon DEF Local

LEMMA SpawnSharedInv ==
  ASSUME Inv, NEW e \in Envs, SpawnShared(e)
  PROVE  Inv'
<1>a. PICK c : c = call[e].child
  BY Zenon
<1> USE <1>a
<1> DEFINE N == {pn \in NextPage(e, call[e].pn) : pt[e][pn].tag = "share"}
<1>0. TypeOK /\ Isolation
  BY Zenon DEF Inv
<1>1. Runs(e) /\ call[e].at = "shared"
  BY Zenon DEF SpawnShared, At
<1>2. /\ Local(e) /\ Parent(e) /\ env_status[e] = "run" /\ pf[e].at = "none"
      /\ call[e] \in Call /\ pt[e][PFTEMP] = NULL
  BY <1>1, Actor, Zenon
<1>3. /\ c \in Envs /\ c # e /\ c # NULL
      /\ env_status[c] = "making" /\ call[c].at = "none" /\ call[c].child = NULL
      /\ pf[c].at = "none" /\ pt[c][PFTEMP] = NULL
      /\ \A f \in Envs : f # e => call[f].child # c
      /\ Local(c) /\ Parent(c)
  BY <1>1, Child, ZenonT(60)
<1>4. ~upcall[c] /\ \A pn \in Pns : pt[c][pn] # NULL => pt[c][pn].tag # "cow"
  BY <1>1, SpawnChild, Zenon DEF Spawning
<1>5. CASE Panic
  BY <1>5, PanicInv, Zenon
<1>6. CASE Goto(e, "go") /\ UNCHANGED <<pt, data, env_status, upcall, pf, halted>>
  <2>1. /\ call' \in [Envs -> Call] /\ call'[e].at = "go" /\ call'[e].child = c
        /\ \A f \in Envs : f # e => call'[f] = call[f]
    BY <1>0, <1>6, GotoMoves, Zenon
  <2>2. KeepsWindows
    BY <1>1, <1>6, <2>1, Zenon DEF KeepsWindows
  <2>3. Isolation' /\ \A f \in Envs, b \in Pns : Tagged(pt'[f][b])
    BY <1>6, <2>2, SamePages, Zenon
  <2>4. TypeOK'
    BY <1>0, <1>6, <2>1, Zenon DEF TypeOK
  <2>5. \A f \in Envs : f # e => Untouched(f)
    BY <1>6, <2>1, Zenon DEF Untouched
  <2>6. Parent(e)'
    BY <1>2, <1>3, <1>6, <2>1, Zenon DEF Parent
  <2>7. Quiet(e)' /\ Handling(e)' /\ Handled(e)'
    BY <1>2, <1>6, KeepSelf, Zenon
  <2>8. Calling(e)'
    BY <1>4, <1>6, <2>1, Zenon DEF Calling, Forking, Spawning
  <2>9. NULL # e /\ NULL \in Envs \cup {NULL}
    BY CowAssumption, Zenon
  <2> QED BY <1>2, <2>3, <2>4, <2>5, <2>6, <2>7, <2>8, <2>9, StepOf, Zenon DEF Local
<1>7. ASSUME NEW a \in N, pt' = [pt EXCEPT ![c][a] = pt[e][a]],
             call' = [call EXCEPT ![e].pn = a + 1],
             UNCHANGED <<data, env_status, upcall, pf, halted>>
      PROVE  Inv'
  <2>a. PICK r : r = pt[e][a]
    BY Zenon
  <2>1. a \in Pns /\ a + 1 \in Pns /\ r # NULL /\ r.tag = "share"
    BY <1>2, <2>a, CowAssumption DEF NextPage, Call, TopStack, Pns
  <2>2. a # PFTEMP /\ r \in Ptes /\ Tagged(r)
    BY <1>0, <1>2, <2>a, <2>1 DEF TypeOK, Inv
  <2>3. pt' = [pt EXCEPT ![c][a] = r]
    BY <1>7, <2>a, Zenon
  <2> HIDE DEF N
  <2>4. /\ pt' \in [Envs -> [Pns -> Ptes \cup {NULL}]]
        /\ \A f \in Envs : f # c => pt'[f] = pt[f]
        /\ \A f \in Envs, b \in Pns : f # c \/ b # a => pt'[f][b] = pt[f][b]
        /\ pt'[c][a] = r
    BY <1>0, <1>3, <2>1, <2>2, <2>3, Zenon DEF TypeOK
  <2>5. /\ call' \in [Envs -> Call] /\ call'[e].at = "shared" /\ call'[e].child = c
        /\ \A f \in Envs : f # e => call'[f] = call[f]
    BY <1>0, <1>1, <1>2, <1>7, <2>1, Zenon DEF TypeOK, Call
  <2>6. TypeOK'
    BY <1>0, <1>7, <2>4, <2>5, Zenon DEF TypeOK
  <2>7. \A f \in Envs : f # e /\ f # c => Untouched(f)
    BY <1>7, <2>4, <2>5, Zenon DEF Untouched
  <2>8. \A f \in Envs, b \in Pns : Tagged(pt'[f][b])
    BY <2>2, <2>4, Zenon DEF Inv
  <2>9. call'[c].child = NULL /\ call'[c].at = "none" /\ Local(c)'
    <3>1. pt'[c][PFTEMP] = NULL /\ call'[c] = call[c]
      BY <1>3, <2>2, <2>4, <2>5, PageNumbers, Zenon
    <3> QED BY <1>3, <1>4, <1>7, <3>1, SpawnKeepsChild, Zenon
  <2>10. Parent(e)'
    <3>1. \A f \in Envs : call'[f].child = call[f].child
      BY <2>5, Zenon
    <3> QED BY <1>2, <1>3, <1>7, <2>5, <3>1 DEF Parent
  <2>11. Quiet(e)' /\ Handling(e)' /\ Handled(e)'
    BY <1>2, <1>3, <1>7, <2>4, KeepSelf, Zenon
  <2>12. Calling(e)'
    <3>1. ~upcall'[c] /\ \A pn \in Pns : pt'[c][pn] # NULL => pt'[c][pn].tag # "cow"
      BY <1>3, <1>4, <1>7, <2>1, <2>4, Zenon
    <3> QED BY <2>5, <3>1, Zenon DEF Calling, Forking, Spawning
  <2>13. ASSUME NEW g \in Envs, NEW b \in Pns, pt[g][b] # NULL, pt[g][b].page = r.page
         PROVE  pt[g][b].tag = "share"
    <3>1. CASE g = e /\ b = a
      BY <2>a, <2>1, <3>1, Zenon
    <3>2. CASE g # e \/ b # a
      <4>1. pt[e][a] # NULL /\ pt[e][a].w /\ pt[g][b].page = pt[e][a].page
        BY <2>a, <2>1, <2>2, <2>13, Zenon DEF Tagged
      <4>2. Excused(e, a, g, b)
        BY <1>0, <2>1, <2>13, <3>2, <4>1, IsolationForm, Zenon
      <4>3. ~Given(g, e, a)
        BY <1>2, NotGiven, Zenon
      <4> QED BY <1>1, <1>2, <4>2, <4>3, Zenon DEF Excused, InWindow, Given
    <3> QED BY <3>1, <3>2, Zenon
  <2>14. Isolation'
    <3> SUFFICES ASSUME NEW e1 \in Envs, NEW f \in Envs, NEW a1 \in Pns, NEW b \in Pns,
                        e1 # f \/ a1 # b, pt'[e1][a1] # NULL, pt'[f][b] # NULL,
                        pt'[e1][a1].page = pt'[f][b].page, pt'[e1][a1].w
                 PROVE  Excused(e1, a1, f, b)'
      BY IsolationForm2, Zenon
    <3>1. CASE (e1 = c /\ a1 = a) \/ (f = c /\ b = a)
      <4>1. pt'[e1][a1].tag = "share" /\ pt'[f][b].tag = "share"
        BY <2>1, <2>4, <2>13, <3>1
      <4> QED BY <4>1, Zenon DEF Excused
    <3>2. CASE ~(e1 = c /\ a1 = a) /\ ~(f = c /\ b = a)
      <4>1. pt'[e1][a1] = pt[e1][a1] /\ pt'[f][b] = pt[f][b]
        BY <2>4, <3>2, Zenon
      <4>2. Excused(e1, a1, f, b)
        BY <1>0, <4>1, IsolationForm, Zenon
      <4>3. (\A g \in Envs : call[g].at \in {"own", "unmap"} => call'[g] = call[g]) /\ pf' = pf
        BY <1>1, <1>7, <2>5, Zenon
      <4> QED BY <4>1, <4>2, <4>3, KeepExcused, Zenon
    <3> QED BY <3>1, <3>2, Zenon
  <2> QED BY <1>2, <1>3, <2>6, <2>7, <2>8, <2>9, <2>10, <2>11, <2>12, <2>14, StepOf, Zenon DEF Local
<1> QED BY <1>5, <1>6, <1>7, Zenon DEF SpawnShared
-----------------------------------------------------------------------------
(* The invariant. *)

LEMMA InitInv == Init => Inv
<1> SUFFICES ASSUME Init PROVE Inv
  BY Zenon
<1>1. PICK e \in Envs, own \in [Vas -> Pages], v \in [Pages -> Values] :
        /\ \A a, b \in Vas : own[a] = own[b] => a = b
        /\ pt = [f \in Envs |-> [pn \in Pns |->
                   IF f = e /\ pn \in Vas THEN Pte(own[pn], TRUE, "none") ELSE NULL]]
        /\ data = v
        /\ env_status = [f \in Envs |-> IF f = e THEN "run" ELSE "free"]
        /\ upcall = [f \in Envs |-> FALSE]
        /\ call = [f \in Envs |-> Idle]
        /\ pf = [f \in Envs |-> NoFault]
        /\ halted = FALSE
  BY Zenon DEF Init
<1>2. \A pn \in Vas : /\ Pte(own[pn], TRUE, "none") \in Ptes
                      /\ Pte(own[pn], TRUE, "none").page = own[pn]
                      /\ Pte(own[pn], TRUE, "none").tag = "none"
  BY Zenon DEF Pte, Ptes
<1>3. /\ pt \in [Envs -> [Pns -> Ptes \cup {NULL}]]
      /\ \A f \in Envs, pn \in Pns :
           pt[f][pn] # NULL => f = e /\ pn \in Vas /\ pt[f][pn].page = own[pn]
                               /\ pt[f][pn].tag = "none"
  BY <1>1, <1>2, Zenon
<1>4. NoFault \in Fault /\ NoFault.at = "none"
  BY PageNumbers, Zenon DEF NoFault, Fault, UTEMP
<1>5. TypeOK
  BY <1>1, <1>3, <1>4, IdleCall, Zenon DEF TypeOK
<1>6. ASSUME NEW f \in Envs
      PROVE  Quiet(f) /\ Parent(f) /\ Handling(f) /\ Calling(f) /\ Handled(f)
  <2>1. /\ call[f].at = "none" /\ call[f].child = NULL /\ pf[f].at = "none" /\ ~upcall[f]
        /\ env_status[f] = IF f = e THEN "run" ELSE "free"
    BY <1>1, <1>4, IdleCall, Zenon
  <2>2. pt[f][PFTEMP] = NULL
    BY <1>3, PageNumbers, Zenon
  <2> QED BY <1>3, <2>1, <2>2, Zenon
        DEF Quiet, Parent, Handling, Calling, Handled, Forking, Spawning
<1>7. \A f \in Envs, pn \in Pns : Tagged(pt[f][pn])
  BY <1>3, Zenon DEF Tagged
<1>8. Isolation
  <2>1. \A f, g \in Envs, a, b \in Pns :
          pt[f][a] # NULL /\ pt[g][b] # NULL /\ pt[f][a].page = pt[g][b].page => f = g /\ a = b
    <3> SUFFICES ASSUME NEW f \in Envs, NEW g \in Envs, NEW a \in Pns, NEW b \in Pns,
                        pt[f][a] # NULL, pt[g][b] # NULL, pt[f][a].page = pt[g][b].page
                 PROVE  f = g /\ a = b
      OBVIOUS
    <3>1. f = e /\ g = e /\ a \in Vas /\ b \in Vas /\ own[a] = own[b]
      BY <1>3, Zenon
    <3>2. \A x, y \in Vas : own[x] = own[y] => x = y
      BY <1>1, Zenon
    <3> QED BY ONLY <3>1, <3>2, Zenon
  <2> QED BY <2>1 DEF Isolation
<1> QED BY <1>5, <1>6, <1>7, <1>8, Zenon DEF Inv

LEMMA NextInv == Inv /\ [Next]_vars => Inv'
<1> SUFFICES ASSUME Inv, [Next]_vars PROVE Inv'
  BY Zenon
<1>1. CASE UNCHANGED vars
  BY <1>1, SameInv, Zenon DEF vars, Inv, TypeOK
<1>2. ASSUME NEW e \in Envs, User(e) PROVE Inv'
  BY <1>2, PageFaultInv, SysPageUnmapInv, WriteInv, SysPageAllocInv, EnvFreeInv, Zenon DEF User, Destroy
<1>3. ASSUME NEW e \in Envs, Pgfault(e) PROVE Inv'
  BY <1>3, PgfaultAllocInv, PgfaultCopyInv, PgfaultMapInv, PgfaultUnmapInv, Zenon DEF Pgfault
<1>4. ASSUME NEW e \in Envs, Fork(e) PROVE Inv'
  <2>1. CASE ForkStart(e)
    BY <2>1, SetRunnableInv, Zenon DEF ForkStart
  <2> QED BY <1>4, <2>1, SetPgfaultHandlerInv, ForkExoforkInv, DuppageReadInv, DuppageChildInv,
             DuppageOwnInv, ForkXstackInv, ForkUpcallInv, Zenon DEF Fork
<1>5. ASSUME NEW e \in Envs, Spawn(e) PROVE Inv'
  <2>1. CASE SpawnExofork(e)
    BY <2>1, ExoforkInv, PageNumbers, Zenon DEF SpawnExofork
  <2>2. CASE SpawnStart(e)
    BY <2>2, SetRunnableInv, Zenon DEF SpawnStart
  <2>3. ASSUME NEW w \in BOOLEAN, SpawnGive(e, w) \/ SpawnBlank(e, w) PROVE Inv'
    BY <2>3, SpawnGiveInv, SpawnBlankInv, ZenonT(30)
  <2> QED BY <1>5, <2>1, <2>2, <2>3, SpawnReadFailsInv, SpawnSkipInv, SpawnUnmapInv,
             SpawnCloseInv, SpawnSharedInv, SpawnLoadInv, Zenon DEF Spawn
<1> QED BY <1>1, <1>2, <1>3, <1>4, <1>5, Zenon DEF Next

LEMMA AlwaysInv == Spec => []Inv
  BY InitInv, NextInv, PTL DEF Spec

\* However fork(), spawn(), page faults, exits and writes of any number of
\* environments interleave, a page that can be written through one mapping is
\* seen through no other, except where it is shared on purpose, and between two
\* system calls of duppage(), of spawn() and of the fault handler.
THEOREM PagesIsolated == Spec => []Isolation
<1>1. Inv => Isolation
  BY Zenon DEF Inv
<1> QED BY <1>1, AlwaysInv, PTL

\* No environment can meet a copy-on-write page and be destroyed for want of a
\* handler or of an exception stack that page_fault_handler() can write: fork()
\* gives the child both before it starts it, and never takes them away.
THEOREM CowIsHandled == Spec => []CowHandled
<1>1. Inv => CowHandled
  BY PageNumbers, Zenon DEF Inv, CowHandled, Handled
<1> QED BY <1>1, AlwaysInv, PTL
=============================================================================
