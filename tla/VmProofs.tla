------------------------------ MODULE VmProofs ------------------------------
(***************************************************************************)
(* Proofs about the page allocator, the reference counts and the page      *)
(* tables, and about the TLBs, for any number of pages, environments,      *)
(* processors and table sizes.                                             *)
(*                                                                         *)
(* pp_ref has 16 bits, and nothing in kern/pmap.c keeps it from wrapping.  *)
(* What is said about counts and the free list is therefore said of the    *)
(* executions in which no page has RefMod references at once (NoWrap).     *)
(*                                                                         *)
(* The functions of pmap.c are operators on memories, so the argument is   *)
(* about memories: Good(m, X) says that m is in order except that the      *)
(* pages of X are taken from the free list and not pointed to yet, as they *)
(* are between page_alloc() and page_insert().  All changes are made of    *)
(* three: a page is taken (AllocGood), a place comes to point to a page    *)
(* (LinkGood), a place no longer points to one (UnlinkGood).               *)
(***************************************************************************)
EXTENDS Tlb, TLAPS

\* No page has so many references that pp_ref wraps.
NoWrap == \A p \in Pages : Cardinality(Refs(mem, p)) < RefMod

In(L, p) == \E i \in DOMAIN L : L[i] = p
Once(L) == \A i, j \in DOMAIN L : L[i] = L[j] => i = j

\* The type of a memory, and how its tables hang together.
Formed(m) ==
  /\ m \in Memory
  /\ \A e \in Envs, t \in Tables :
       m.pde[e][t] # NULL => m.env_pgdir[e] # NULL
  /\ \A e \in Envs, va \in VAs :
       m.pde[e][va[1]] = NULL => m.pte[e][va] = NULL

Counted(m) == \A p \in Pages : m.pp_ref[p] = Cardinality(Refs(m, p))

Listed(m, X) ==
  \A p \in Pages : In(m.page_free_list, p) <=> Refs(m, p) = {} /\ p \notin X

Private(m) ==
  \A p \in Pages : \A x, y \in Refs(m, p) : x[1] # "pte" => y = x

Good(m, X) ==
  /\ Formed(m) /\ m.panic = "no"
  /\ Once(m.page_free_list) /\ Listed(m, X) /\ Counted(m) /\ Private(m)
  /\ \A p \in X : p \in Pages /\ Refs(m, p) = {}

\* The invariant.
Inv ==
  /\ Formed(mem)
  /\ freeing \in Envs \cup {NULL}
  /\ freeing # NULL => mem.env_pgdir[freeing] # NULL
  /\ mem.panic \in {"no", "fault"}
  /\ mem.panic = "no" => Good(mem, {})
  /\ Private(mem)
-----------------------------------------------------------------------------
(* Lists, places and counts. *)

\* page_free(): a page that is not on the list is put at its front.
LEMMA PushList ==
  ASSUME NEW L \in Seq(Pages), NEW p \in Pages
  PROVE  /\ <<p>> \o L \in Seq(Pages)
         /\ \A q : In(<<p>> \o L, q) <=> q = p \/ In(L, q)
         /\ Once(L) /\ ~In(L, p) => Once(<<p>> \o L)
<1> DEFINE N == <<p>> \o L
<1>1. /\ N \in Seq(Pages) /\ Len(N) = Len(L) + 1 /\ Len(L) \in Nat
      /\ N[1] = p /\ \A i \in 1 .. Len(L) : N[i + 1] = L[i]
      /\ DOMAIN N = 1 .. Len(N) /\ DOMAIN L = 1 .. Len(L)
  OBVIOUS
<1> HIDE DEF N
<1>2. \A i \in DOMAIN N : i = 1 \/ (i - 1 \in DOMAIN L /\ N[i] = L[i - 1])
  BY <1>1
<1>3. 1 \in DOMAIN N /\ \A i \in DOMAIN L : i + 1 \in DOMAIN N
  BY <1>1
<1>4. \A q : In(N, q) <=> q = p \/ In(L, q)
  <2>1. ASSUME NEW q, In(N, q) PROVE q = p \/ In(L, q)
    BY <1>1, <1>2, <2>1, ZenonT(60) DEF In
  <2>2. ASSUME NEW q, q = p \/ In(L, q) PROVE In(N, q)
    <3>1. CASE q = p
      BY <1>1, <1>3, <3>1, Zenon DEF In
    <3>2. ASSUME NEW i \in DOMAIN L, L[i] = q PROVE In(N, q)
      BY <1>1, <1>3, <3>2, Zenon DEF In
    <3> QED BY <2>2, <3>1, <3>2, Zenon DEF In
  <2> QED BY <2>1, <2>2, Zenon
<1>5. ASSUME Once(L), ~In(L, p),
             NEW i \in DOMAIN N, NEW j \in DOMAIN N, N[i] = N[j]
      PROVE  i = j
  BY <1>1, <1>2, <1>5, SMTT(30) DEF Once, In
<1>6. Once(L) /\ ~In(L, p) => Once(N)
  BY <1>5, Zenon DEF Once
<1> QED BY <1>1, <1>4, <1>6, Zenon DEF N

\* page_alloc(): the head of the list is taken.
LEMMA PopList ==
  ASSUME NEW L \in Seq(Pages), L # << >>, Once(L)
  PROVE  /\ Head(L) \in Pages /\ Tail(L) \in Seq(Pages) /\ In(L, Head(L))
         /\ \A q : In(Tail(L), q) <=> q # Head(L) /\ In(L, q)
         /\ Once(Tail(L))
<1> DEFINE T == Tail(L)
<1>1. /\ Head(L) \in Pages /\ Head(L) = L[1] /\ T \in Seq(Pages)
      /\ Len(T) = Len(L) - 1 /\ Len(L) \in Nat \ {0}
      /\ \A i \in 1 .. Len(T) : T[i] = L[i + 1]
      /\ DOMAIN T = 1 .. Len(T) /\ DOMAIN L = 1 .. Len(L)
  OBVIOUS
<1> HIDE DEF T
<1>2. \A i \in DOMAIN T : i + 1 \in DOMAIN L /\ i + 1 # 1 /\ T[i] = L[i + 1]
  BY <1>1
<1>3. \A i \in DOMAIN L : i = 1 \/ (i - 1 \in DOMAIN T /\ T[i - 1] = L[i])
  BY <1>1
<1>4. 1 \in DOMAIN L
  BY <1>1
<1>5. \A q : In(T, q) <=> q # Head(L) /\ In(L, q)
  <2>1. ASSUME NEW i \in DOMAIN T
        PROVE  T[i] # Head(L) /\ In(L, T[i])
    BY <1>1, <1>2, <1>4, Zenon DEF Once, In
  <2>2. ASSUME NEW i \in DOMAIN L, L[i] # Head(L)
        PROVE  In(T, L[i])
    BY <1>1, <1>3, <2>2, Zenon DEF In
  <2> QED BY <2>1, <2>2, Zenon DEF In
<1>6. Once(T)
  BY <1>1, <1>2 DEF Once
<1>7. In(L, Head(L))
  BY <1>1, <1>4, Zenon DEF In
<1> QED BY <1>1, <1>5, <1>6, <1>7, Zenon DEF T

\* What is used of Cardinality; it follows from the finiteness of Places (Counting,
\* below).
CountLaws ==
  \A S \in SUBSET Places :
    /\ Cardinality(S) \in Nat /\ (Cardinality(S) = 0 <=> S = {})
    /\ \A x \in Places \ S : Cardinality(S \cup {x}) = Cardinality(S) + 1
    /\ \A x \in S : Cardinality(S \ {x}) = Cardinality(S) - 1

LEMMA RefsCount ==
  ASSUME CountLaws, NEW m, NEW p
  PROVE  /\ Cardinality(Refs(m, p)) \in Nat
         /\ Cardinality(Refs(m, p)) = 0 <=> Refs(m, p) = {}
         /\ \A x \in Places \ Refs(m, p) :
              Cardinality(Refs(m, p) \cup {x}) = Cardinality(Refs(m, p)) + 1
         /\ \A x \in Refs(m, p) :
              Cardinality(Refs(m, p) \ {x}) = Cardinality(Refs(m, p)) - 1
<1>1. Refs(m, p) \in SUBSET Places
  BY Zenon DEF Refs
<1> QED BY <1>1, Zenon DEF CountLaws

\* One place changes: what becomes of the references to a page.
LEMMA RefsMove ==
  ASSUME NEW m, NEW n, NEW x \in Places, NEW p,
         \A y \in Places : y # x => Target(n, y) = Target(m, y)
  PROVE  /\ Target(n, x) = p => Refs(n, p) = Refs(m, p) \cup {x}
         /\ Target(n, x) # p => Refs(n, p) = Refs(m, p) \ {x}
         /\ Target(m, x) = p <=> x \in Refs(m, p)
  BY Zenon DEF Refs

\* What does not touch page tables changes no reference.
LEMMA SameRefs ==
  ASSUME NEW m, NEW n,
         n.env_pgdir = m.env_pgdir, n.pde = m.pde, n.pte = m.pte
  PROVE  \A p : Refs(n, p) = Refs(m, p)
<1>1. \A x : Target(n, x) = Target(m, x)
  BY Zenon DEF Target
<1> QED BY <1>1, Zenon DEF Refs
-----------------------------------------------------------------------------
(* The three changes. *)

\* page_alloc().
LEMMA AllocGood ==
  ASSUME NEW m, NEW X, Good(m, X), Avail(m)
  PROVE  /\ AllocPage(m) \in Pages /\ AllocPage(m) \notin X
         /\ Refs(m, AllocPage(m)) = {}
         /\ Good(PageAlloc(m), X \cup {AllocPage(m)})
         /\ PageAlloc(m).env_pgdir = m.env_pgdir /\ PageAlloc(m).pde = m.pde
         /\ PageAlloc(m).pte = m.pte /\ PageAlloc(m).pdew = m.pdew
         /\ \A p : Refs(PageAlloc(m), p) = Refs(m, p)
<1> DEFINE a == PageAlloc(m)
           h == AllocPage(m)
           L == m.page_free_list
<1>1. m \in Memory /\ L \in Seq(Pages) /\ L # << >>
  BY Zenon DEF Good, Formed, Memory, Avail
<1>2. /\ a \in Memory /\ a.page_free_list = Tail(L) /\ a.pp_ref = m.pp_ref
      /\ a.env_pgdir = m.env_pgdir /\ a.pde = m.pde /\ a.pdew = m.pdew
      /\ a.pte = m.pte /\ a.panic = m.panic
  <2>1. Tail(L) \in Seq(Pages)
    BY <1>1
  <2> QED BY <1>1, <2>1, Zenon DEF PageAlloc, Memory
<1>3. \A p : Refs(a, p) = Refs(m, p)
  BY <1>2, SameRefs, Zenon
<1>4. Once(L)
  BY Zenon DEF Good
<1>5. /\ h \in Pages /\ In(L, h)
      /\ \A q : In(a.page_free_list, q) <=> q # h /\ In(L, q)
      /\ Once(a.page_free_list)
  <2> HIDE DEF L, a, h
  <2>1. h = Head(L)
    BY Zenon DEF h, L, AllocPage
  <2> QED BY <1>1, <1>2, <1>4, <2>1, PopList
<1>6. Refs(m, h) = {} /\ h \notin X
  BY <1>5, Zenon DEF Good, Listed
<1> HIDE DEF a, h, L
<1>7. Listed(a, X \cup {h})
  BY <1>3, <1>5, Zenon DEF Good, Listed, L
<1>8. Formed(a)
  BY <1>2 DEF Good, Formed
<1>9. Counted(a) /\ Private(a)
  BY <1>2, <1>3, Zenon DEF Good, Counted, Private
<1>10. Good(a, X \cup {h})
  BY <1>2, <1>3, <1>5, <1>6, <1>7, <1>8, <1>9, Zenon DEF Good
<1> QED BY <1>2, <1>3, <1>5, <1>6, <1>10, Zenon DEF a, h

\* A place that was empty points to p: a page just taken, or one more entry for
\* a page that entries of page tables point to.
LEMMA LinkGood ==
  ASSUME CountLaws, NEW m, NEW n, NEW X, NEW x \in Places, NEW p \in Pages,
         Good(m, X), Formed(n), n.panic = "no",
         Target(m, x) = NULL, Target(n, x) = p,
         \A y \in Places : y # x => Target(n, y) = Target(m, y),
         n.page_free_list = m.page_free_list,
         n.pp_ref = [m.pp_ref EXCEPT ![p] = (m.pp_ref[p] + 1) % RefMod],
         p \in X \/ (x[1] = "pte" /\ \E y \in Refs(m, p) : y[1] = "pte"),
         Cardinality(Refs(n, p)) < RefMod
  PROVE  Good(n, X \ {p})
<1>1. /\ Refs(n, p) = Refs(m, p) \cup {x} /\ x \notin Refs(m, p)
      /\ \A q \in Pages : q # p => Refs(n, q) = Refs(m, q)
  <2>1. NULL \notin Pages
    BY VmAssumption, Zenon
  <2>2. \A q \in Pages : x \notin Refs(m, q)
    BY <2>1, Zenon DEF Refs
  <2>3. ASSUME NEW q \in Pages
        PROVE  /\ q = p => Refs(n, q) = Refs(m, q) \cup {x}
               /\ q # p => Refs(n, q) = Refs(m, q) \ {x}
    BY RefsMove
  <2> QED BY <2>2, <2>3
<1>2. Cardinality(Refs(n, p)) = Cardinality(Refs(m, p)) + 1
  BY <1>1, RefsCount
<1>3. Counted(n)
  <2>1. m.pp_ref \in [Pages -> 0 .. RefMod - 1]
    BY Zenon DEF Good, Formed, Memory
  <2>2. m.pp_ref[p] = Cardinality(Refs(m, p))
    BY Zenon DEF Good, Counted
  <2>3. n.pp_ref[p] = m.pp_ref[p] + 1
    <3>1. m.pp_ref[p] + 1 \in 0 .. RefMod - 1
      BY <1>2, <2>1, <2>2, VmAssumption
    <3>2. \A k \in 0 .. RefMod - 1 : k % RefMod = k
      BY VmAssumption, Z3
    <3> QED BY <2>1, <3>1, <3>2, Zenon
  <2> QED BY <1>1, <1>2, <2>1, <2>2, <2>3, Zenon DEF Good, Counted
<1>5. Listed(n, X \ {p})
  <2>1. Refs(n, p) # {} /\ ~In(m.page_free_list, p)
    BY <1>1, Zenon DEF Good, Listed
  <2> QED BY <1>1, <2>1, Zenon DEF Good, Listed
<1>6. Private(n)
  <2>1. ASSUME NEW y \in Refs(n, p), NEW z \in Refs(n, p), y[1] # "pte"
        PROVE  z = y
    <3>1. CASE p \in X
      BY <1>1, <3>1, Zenon DEF Good
    <3>2. CASE x[1] = "pte" /\ \E w \in Refs(m, p) : w[1] = "pte"
      BY <1>1, <2>1, <3>2, Zenon DEF Good, Private
    <3> QED BY <3>1, <3>2, Zenon
  <2> QED BY <1>1, <2>1, Zenon DEF Good, Private
<1>7. \A q \in X \ {p} : q \in Pages /\ Refs(n, q) = {}
  BY <1>1, Zenon DEF Good
<1> QED BY <1>3, <1>5, <1>6, <1>7, Zenon DEF Good

\* page_decref() and the place that pointed to q is cleared: q goes back to
\* the list with its last reference.
LEMMA UnlinkGood ==
  ASSUME CountLaws, NEW m, NEW n, NEW X, NEW x \in Places, NEW q \in Pages,
         Good(m, X), Formed(n), n.panic = "no",
         Target(m, x) = q, Target(n, x) = NULL,
         \A y \in Places : y # x => Target(n, y) = Target(m, y),
         n.pp_ref = [m.pp_ref EXCEPT ![q] = (m.pp_ref[q] + RefMod - 1) % RefMod],
         n.page_free_list = IF n.pp_ref[q] = 0 THEN <<q>> \o m.page_free_list
                            ELSE m.page_free_list
  PROVE  Good(n, X)
<1>1. /\ Refs(n, q) = Refs(m, q) \ {x} /\ x \in Refs(m, q)
      /\ \A p \in Pages : p # q => Refs(n, p) = Refs(m, p)
  <2>1. NULL \notin Pages
    BY VmAssumption, Zenon
  <2>2. x \in Refs(m, q) /\ \A p \in Pages : p # q => x \notin Refs(m, p)
    BY Zenon DEF Refs
  <2>3. ASSUME NEW p \in Pages
        PROVE  Refs(n, p) = Refs(m, p) \ {x}
    BY <2>1, RefsMove
  <2>4. ASSUME NEW p \in Pages, p # q
        PROVE  Refs(m, p) \ {x} = Refs(m, p)
    BY <2>2, <2>4
  <2> QED BY <2>2, <2>3, <2>4, Zenon
<1>2. /\ Cardinality(Refs(n, q)) = Cardinality(Refs(m, q)) - 1
      /\ Cardinality(Refs(m, q)) \in Nat \ {0}
  BY <1>1, RefsCount
<1>3. /\ m.pp_ref \in [Pages -> 0 .. RefMod - 1] /\ m.page_free_list \in Seq(Pages)
      /\ m.pp_ref[q] = Cardinality(Refs(m, q))
  BY Zenon DEF Good, Formed, Memory, Counted
<1>4. n.pp_ref[q] = Cardinality(Refs(n, q))
  <2>1. m.pp_ref[q] \in 1 .. RefMod - 1
    BY <1>2, <1>3, VmAssumption
  <2>2. \A k \in 1 .. RefMod - 1 : (k + RefMod - 1) % RefMod = k - 1
    BY VmAssumption, Z3
  <2> QED BY <1>2, <1>3, <2>1, <2>2, Zenon
<1>5. Counted(n)
  BY <1>1, <1>3, <1>4, Zenon DEF Good, Counted
<1>6. ~In(m.page_free_list, q) /\ q \notin X
  BY <1>1, Zenon DEF Good, Listed
<1>7. /\ Once(n.page_free_list)
      /\ \A p : In(n.page_free_list, p)
                  <=> In(m.page_free_list, p) \/ (p = q /\ Refs(n, q) = {})
  <2>1. Once(m.page_free_list)
    BY Zenon DEF Good
  <2>2. CASE n.pp_ref[q] = 0
    <3>1. Refs(n, q) = {}
      BY <1>4, <2>2, RefsCount, Zenon
    <3>2. n.page_free_list = <<q>> \o m.page_free_list
      BY <2>2, Zenon
    <3> QED BY <1>3, <1>6, <2>1, <3>1, <3>2, PushList
  <2>3. CASE n.pp_ref[q] # 0
    <3>1. Refs(n, q) # {}
      BY <1>4, <2>3, RefsCount, Zenon
    <3> QED BY <2>1, <2>3, <3>1, Zenon
  <2> QED BY <2>2, <2>3, Zenon
<1>8. Listed(n, X)
  BY <1>1, <1>6, <1>7, Zenon DEF Good, Listed
<1>9. Private(n) /\ \A p \in X : p \in Pages /\ Refs(n, p) = {}
  BY <1>1, <1>6, Zenon DEF Good, Private
<1> QED BY <1>5, <1>7, <1>8, <1>9, Zenon DEF Good
-----------------------------------------------------------------------------
(* The functions of pmap.c. *)

LEMMA PlaceTypes ==
  /\ \A e \in Envs : <<"env_pgdir", e>> \in Places
  /\ \A e \in Envs, t \in Tables : <<"pde", e, t>> \in Places
  /\ \A e \in Envs, va \in VAs : <<"pte", e, va>> \in Places
  BY Zenon DEF Places

LEMMA IncRefFields ==
  ASSUME NEW m \in Memory, NEW p \in Pages
  PROVE  LET n == IncRef(m, p)
         IN  /\ n \in Memory
             /\ n.pp_ref = [m.pp_ref EXCEPT ![p] = (m.pp_ref[p] + 1) % RefMod]
             /\ n.page_free_list = m.page_free_list /\ n.panic = m.panic
             /\ n.env_pgdir = m.env_pgdir /\ n.pde = m.pde /\ n.pdew = m.pdew /\ n.pte = m.pte
<1>1. (m.pp_ref[p] + 1) % RefMod \in 0 .. RefMod - 1
  <2>1. m.pp_ref[p] \in Nat
    BY VmAssumption DEF Memory
  <2> QED BY <2>1, VmAssumption, Z3
<1> DEFINE v == (m.pp_ref[p] + 1) % RefMod
           f == [m.pp_ref EXCEPT ![p] = v]
<1>2. v \in 0 .. RefMod - 1
  BY <1>1, Zenon
<1>3. IncRef(m, p) = [m EXCEPT !.pp_ref = f]
  BY Zenon DEF IncRef, Memory
<1> HIDE DEF v
<1>4. f \in [Pages -> 0 .. RefMod - 1]
  BY <1>2, Zenon DEF Memory
<1> HIDE DEF f
<1>5. LET n == IncRef(m, p)
      IN  /\ n \in Memory
          /\ n.pp_ref = f
          /\ n.page_free_list = m.page_free_list /\ n.panic = m.panic
          /\ n.env_pgdir = m.env_pgdir /\ n.pde = m.pde /\ n.pdew = m.pdew /\ n.pte = m.pte
  BY <1>3, <1>4, Zenon DEF Memory
<1> QED BY <1>5, Zenon DEF f, v

\* page_decref(), of a page whose references are counted.
LEMMA DecrefFields ==
  ASSUME NEW m \in Memory, NEW q \in Pages
  PROVE  LET n == PageDecref(m, q)
         IN  /\ n \in Memory
             /\ n.pp_ref = [m.pp_ref EXCEPT ![q] = (m.pp_ref[q] + RefMod - 1) % RefMod]
             /\ n.page_free_list = IF n.pp_ref[q] = 0 THEN <<q>> \o m.page_free_list
                                   ELSE m.page_free_list
             /\ n.env_pgdir = m.env_pgdir /\ n.pde = m.pde /\ n.pdew = m.pdew /\ n.pte = m.pte
             /\ n.panic = m.panic
<1> DEFINE v == (m.pp_ref[q] + RefMod - 1) % RefMod
           f == [m.pp_ref EXCEPT ![q] = v]
           d == [m EXCEPT !.pp_ref = f]
<1>1. v \in 0 .. RefMod - 1
  <2>1. m.pp_ref[q] \in Nat
    BY VmAssumption DEF Memory
  <2> QED BY <2>1, VmAssumption, Z3
<1>2. [m EXCEPT !.pp_ref[q] = (m.pp_ref[q] + RefMod - 1) % RefMod] = d
  BY Zenon DEF Memory
<1> HIDE DEF v
<1>3. f \in [Pages -> 0 .. RefMod - 1] /\ f[q] = v
  BY <1>1, Zenon DEF Memory
<1> HIDE DEF f
<1>4. /\ d \in Memory /\ d.pp_ref = f
      /\ d.page_free_list = m.page_free_list /\ d.panic = m.panic
      /\ d.env_pgdir = m.env_pgdir /\ d.pde = m.pde /\ d.pdew = m.pdew /\ d.pte = m.pte
  BY <1>3, Zenon DEF Memory
<1>5. PageDecref(m, q) = IF d.pp_ref[q] = 0 THEN PageFree(d, q) ELSE d
  BY <1>2, Zenon DEF PageDecref
<1> HIDE DEF d
<1>6. CASE d.pp_ref[q] = 0
  <2>1. PageDecref(m, q) = [d EXCEPT !.page_free_list = <<q>> \o d.page_free_list]
    BY <1>5, <1>6, Zenon DEF PageFree
  <2>2. <<q>> \o d.page_free_list \in Seq(Pages)
    BY <1>4, PushList, Zenon DEF Memory
  <2>3. LET n == PageDecref(m, q)
        IN  /\ n \in Memory /\ n.pp_ref = f /\ n.page_free_list = <<q>> \o m.page_free_list
            /\ n.env_pgdir = m.env_pgdir /\ n.pde = m.pde /\ n.pdew = m.pdew /\ n.pte = m.pte
            /\ n.panic = m.panic
    BY <1>4, <2>1, <2>2, Zenon DEF Memory
  <2> QED BY <1>4, <1>6, <2>3, Zenon DEF f, v
<1>7. CASE d.pp_ref[q] # 0
  <2>1. PageDecref(m, q) = d
    BY <1>5, <1>7, Zenon
  <2> QED BY <1>4, <1>7, <2>1, Zenon DEF f, v
<1> QED BY <1>6, <1>7, Zenon

LEMMA PteFields ==
  ASSUME NEW m \in Memory, NEW e \in Envs, NEW va \in VAs, NEW v \in Ptes \cup {NULL}
  PROVE  LET n == [m EXCEPT !.pte[e][va] = v]
         IN  /\ n \in Memory
             /\ n.pp_ref = m.pp_ref /\ n.page_free_list = m.page_free_list
             /\ n.env_pgdir = m.env_pgdir /\ n.pde = m.pde /\ n.pdew = m.pdew
             /\ n.panic = m.panic
             /\ n.pte[e][va] = v
             /\ \A f \in Envs, vb \in VAs :
                  f # e \/ vb # va => n.pte[f][vb] = m.pte[f][vb]
<1> DEFINE g == [m.pte EXCEPT ![e][va] = v]
<1>1. m.pte \in [Envs -> [VAs -> Ptes \cup {NULL}]]
  BY Zenon DEF Memory
<1>2. /\ g \in [Envs -> [VAs -> Ptes \cup {NULL}]] /\ g[e][va] = v
      /\ \A f \in Envs, vb \in VAs : f # e \/ vb # va => g[f][vb] = m.pte[f][vb]
  BY <1>1, Zenon
<1>3. [m EXCEPT !.pte[e][va] = v] = [m EXCEPT !.pte = g]
  BY Zenon DEF Memory
<1> HIDE DEF g
<1>4. LET n == [m EXCEPT !.pte[e][va] = v]
      IN  /\ n \in Memory
          /\ n.pp_ref = m.pp_ref /\ n.page_free_list = m.page_free_list
          /\ n.env_pgdir = m.env_pgdir /\ n.pde = m.pde /\ n.pdew = m.pdew
          /\ n.panic = m.panic /\ n.pte = g
  BY <1>2, <1>3, Zenon DEF Memory
<1> QED BY <1>2, <1>4

LEMMA PdeFields ==
  ASSUME NEW m \in Memory, NEW e \in Envs, NEW t \in Tables, NEW v \in Pages \cup {NULL}
  PROVE  LET n == [m EXCEPT !.pde[e][t] = v]
         IN  /\ n \in Memory
             /\ n.pp_ref = m.pp_ref /\ n.page_free_list = m.page_free_list
             /\ n.env_pgdir = m.env_pgdir /\ n.pte = m.pte /\ n.pdew = m.pdew
             /\ n.panic = m.panic
             /\ n.pde[e][t] = v
             /\ \A f \in Envs, u \in Tables : f # e \/ u # t => n.pde[f][u] = m.pde[f][u]
<1> DEFINE g == [m.pde EXCEPT ![e][t] = v]
<1>1. m.pde \in [Envs -> [Tables -> Pages \cup {NULL}]]
  BY Zenon DEF Memory
<1>2. /\ g \in [Envs -> [Tables -> Pages \cup {NULL}]] /\ g[e][t] = v
      /\ \A f \in Envs, u \in Tables : f # e \/ u # t => g[f][u] = m.pde[f][u]
  BY <1>1, Zenon
<1>3. [m EXCEPT !.pde[e][t] = v] = [m EXCEPT !.pde = g]
  BY Zenon DEF Memory
<1> HIDE DEF g
<1>4. LET n == [m EXCEPT !.pde[e][t] = v]
      IN  /\ n \in Memory
          /\ n.pp_ref = m.pp_ref /\ n.page_free_list = m.page_free_list
          /\ n.env_pgdir = m.env_pgdir /\ n.pte = m.pte /\ n.pdew = m.pdew
          /\ n.panic = m.panic /\ n.pde = g
  BY <1>2, <1>3, Zenon DEF Memory
<1> QED BY <1>2, <1>4

LEMMA PdewFields ==
  ASSUME NEW m \in Memory, NEW e \in Envs, NEW t \in Tables, NEW w \in BOOLEAN
  PROVE  LET n == [m EXCEPT !.pdew[e][t] = w]
         IN  /\ n \in Memory
             /\ n.pp_ref = m.pp_ref /\ n.page_free_list = m.page_free_list
             /\ n.env_pgdir = m.env_pgdir /\ n.pte = m.pte /\ n.pde = m.pde
             /\ n.panic = m.panic
<1> DEFINE g == [m.pdew EXCEPT ![e][t] = w]
<1>1. g \in [Envs -> [Tables -> BOOLEAN]]
  BY Zenon DEF Memory
<1>2. [m EXCEPT !.pdew[e][t] = w] = [m EXCEPT !.pdew = g]
  BY Zenon DEF Memory
<1> HIDE DEF g
<1> QED BY <1>1, <1>2, Zenon DEF Memory

LEMMA DirFields ==
  ASSUME NEW m \in Memory, NEW e \in Envs, NEW v \in Pages \cup {NULL}
  PROVE  LET n == [m EXCEPT !.env_pgdir[e] = v]
         IN  /\ n \in Memory
             /\ n.pp_ref = m.pp_ref /\ n.page_free_list = m.page_free_list
             /\ n.pde = m.pde /\ n.pte = m.pte /\ n.pdew = m.pdew
             /\ n.panic = m.panic
             /\ n.env_pgdir[e] = v
             /\ \A f \in Envs : f # e => n.env_pgdir[f] = m.env_pgdir[f]
<1> DEFINE g == [m.env_pgdir EXCEPT ![e] = v]
<1>1. /\ g \in [Envs -> Pages \cup {NULL}] /\ g[e] = v
      /\ \A f \in Envs : f # e => g[f] = m.env_pgdir[f]
  BY Zenon DEF Memory
<1>2. [m EXCEPT !.env_pgdir[e] = v] = [m EXCEPT !.env_pgdir = g]
  BY Zenon DEF Memory
<1> HIDE DEF g
<1>3. LET n == [m EXCEPT !.env_pgdir[e] = v]
      IN  /\ n \in Memory
          /\ n.pp_ref = m.pp_ref /\ n.page_free_list = m.page_free_list
          /\ n.pde = m.pde /\ n.pte = m.pte /\ n.pdew = m.pdew
          /\ n.panic = m.panic /\ n.env_pgdir = g
  BY <1>1, <1>2, Zenon DEF Memory
<1> QED BY <1>1, <1>3, Zenon

LEMMA FaultFields ==
  ASSUME NEW m \in Memory
  PROVE  LET n == Fault(m)
         IN  /\ n \in Memory /\ n.panic = "fault"
             /\ n.env_pgdir = m.env_pgdir /\ n.pde = m.pde /\ n.pte = m.pte
  BY Zenon DEF Fault, Memory

\* One reference more and one less: on the same page they cancel, on two pages
\* they commute.
Up(f, p) == [f EXCEPT ![p] = (f[p] + 1) % RefMod]
Down(f, p) == [f EXCEPT ![p] = (f[p] + RefMod - 1) % RefMod]

LEMMA UpDown ==
  ASSUME NEW f \in [Pages -> 0 .. RefMod - 1], NEW p \in Pages
  PROVE  /\ Down(Up(f, p), p) = f
         /\ \A q \in Pages : q # p => /\ Down(Up(f, p), q) = Up(Down(f, q), p)
                                      /\ Down(Up(f, p), q)[q] = Down(f, q)[q]
<1> DEFINE r == f[p]
           s == (r + 1) % RefMod
<1>1. r \in 0 .. RefMod - 1
  BY Zenon
<1> HIDE DEF r
<1>2. (s + RefMod - 1) % RefMod = r
  BY <1>1, VmAssumption, Z3
<1> HIDE DEF s
<1>3. Up(f, p) = [f EXCEPT ![p] = s] /\ Up(f, p)[p] = s
  BY Zenon DEF Up, s, r
<1>4. Down(Up(f, p), p) = f
  <2>1. Down(Up(f, p), p) = [Up(f, p) EXCEPT ![p] = r]
    BY <1>2, <1>3, Zenon DEF Down
  <2>2. [[f EXCEPT ![p] = s] EXCEPT ![p] = r] = f
    BY Zenon DEF r
  <2> QED BY <1>3, <2>1, <2>2, Zenon
<1>5. ASSUME NEW q \in Pages, q # p
      PROVE  /\ Down(Up(f, p), q) = Up(Down(f, q), p)
             /\ Down(Up(f, p), q)[q] = Down(f, q)[q]
  <2> DEFINE t == (f[q] + RefMod - 1) % RefMod
  <2>1. Down(f, q) = [f EXCEPT ![q] = t] /\ Down(f, q)[p] = r /\ Down(f, q)[q] = t
    BY <1>5, Zenon DEF Down, r
  <2>2. Up(f, p)[q] = f[q]
    BY <1>3, <1>5, Zenon
  <2>3. Down(Up(f, p), q) = [Up(f, p) EXCEPT ![q] = t]
    BY <2>2, Zenon DEF Down
  <2>4. Up(Down(f, q), p) = [Down(f, q) EXCEPT ![p] = s]
    BY <2>1, Zenon DEF Up, s
  <2> HIDE DEF t
  <2>5. /\ [[f EXCEPT ![p] = s] EXCEPT ![q] = t] = [[f EXCEPT ![q] = t] EXCEPT ![p] = s]
        /\ [[f EXCEPT ![p] = s] EXCEPT ![q] = t][q] = t
    BY <1>5, Zenon
  <2> QED BY <1>3, <2>1, <2>3, <2>4, <2>5, Zenon
<1> QED BY <1>4, <1>5, Zenon

\* What page_insert() stores.
LEMMA SetPteFields ==
  ASSUME NEW m \in Memory, m.panic = "no", NEW e \in Envs, NEW p \in Pages,
         NEW va \in VAs, NEW w \in BOOLEAN
  PROVE  LET n == SetPte(m, e, p, va, w)
         IN  /\ n \in Memory
             /\ n.pp_ref = m.pp_ref /\ n.page_free_list = m.page_free_list
             /\ n.env_pgdir = m.env_pgdir /\ n.pde = m.pde
             /\ n.panic = m.panic
             /\ n.pte[e][va] = [page |-> p, w |-> w]
             /\ \A f \in Envs, vb \in VAs :
                  f # e \/ vb # va => n.pte[f][vb] = m.pte[f][vb]
<1> DEFINE v == [page |-> p, w |-> w]
           t == va[1]
           b == m.pdew[e][t] \/ w
           g == [m.pte EXCEPT ![e][va] = v]
           h == [m.pdew EXCEPT ![e][t] = b]
           n == SetPte(m, e, p, va, w)
<1>1. v \in Ptes /\ t \in Tables
  BY Zenon DEF Ptes, VAs
<1>2. n = [m EXCEPT !.pte[e][va] = v, !.pdew[e][t] = b]
  BY Zenon DEF SetPte
<1>3. b \in BOOLEAN
  BY Zenon
<1> HIDE DEF v, t, b, n
<1>4. n = [m EXCEPT !.pte = g, !.pdew = h]
  BY <1>2, Zenon DEF Memory
<1>5. /\ g \in [Envs -> [VAs -> Ptes \cup {NULL}]] /\ g[e][va] = v
      /\ \A f \in Envs, vb \in VAs : f # e \/ vb # va => g[f][vb] = m.pte[f][vb]
  <2>1. m.pte \in [Envs -> [VAs -> Ptes \cup {NULL}]]
    BY Zenon DEF Memory
  <2> QED BY <1>1, <2>1, Zenon
<1>6. h \in [Envs -> [Tables -> BOOLEAN]]
  BY <1>1, <1>3, Zenon DEF Memory
<1> HIDE DEF g, h
<1>7. /\ n \in Memory
      /\ n.pp_ref = m.pp_ref /\ n.page_free_list = m.page_free_list
      /\ n.env_pgdir = m.env_pgdir /\ n.pde = m.pde
      /\ n.panic = m.panic /\ n.pte = g
  BY <1>4, <1>5, <1>6, Zenon DEF Memory
<1> QED BY <1>5, <1>7, Zenon DEF n, v

\* Which targets a change of one entry changes.
LEMMA PteTargets ==
  ASSUME NEW m, NEW n, NEW e \in Envs, NEW va \in VAs,
         n.env_pgdir = m.env_pgdir, n.pde = m.pde,
         \A f \in Envs, vb \in VAs : f # e \/ vb # va => n.pte[f][vb] = m.pte[f][vb]
  PROVE  LET x == <<"pte", e, va>>
         IN  /\ \A y \in Places : y # x => Target(n, y) = Target(m, y)
             /\ Target(n, x) = IF n.pte[e][va] = NULL THEN NULL ELSE n.pte[e][va].page
             /\ Target(m, x) = IF m.pte[e][va] = NULL THEN NULL ELSE m.pte[e][va].page
<1> DEFINE x == <<"pte", e, va>>
<1>1. ASSUME NEW y \in Places, y # x
      PROVE  Target(n, y) = Target(m, y)
  <2>1. CASE y \in {"env_pgdir"} \X Envs
    BY <2>1, Zenon DEF Target
  <2>2. CASE y \in {"pde"} \X Envs \X Tables
    BY <2>2, Zenon DEF Target
  <2>3. CASE y \in {"pte"} \X Envs \X VAs
    <3>1. y = <<"pte", y[2], y[3]>> /\ y[2] \in Envs /\ y[3] \in VAs /\ y[1] = "pte"
      BY <2>3
    <3>2. y[2] # e \/ y[3] # va
      BY <1>1, <3>1, Zenon
    <3>3. n.pte[y[2]][y[3]] = m.pte[y[2]][y[3]]
      BY <3>1, <3>2, Zenon
    <3> QED BY <3>1, <3>3, Zenon DEF Target
  <2> QED BY <2>1, <2>2, <2>3, Zenon DEF Places
<1>2. x[1] = "pte" /\ x[2] = e /\ x[3] = va
  BY Zenon
<1> HIDE DEF x
<1>3. /\ Target(n, x) = IF n.pte[e][va] = NULL THEN NULL ELSE n.pte[e][va].page
      /\ Target(m, x) = IF m.pte[e][va] = NULL THEN NULL ELSE m.pte[e][va].page
  BY <1>2, Zenon DEF Target
<1> QED BY <1>1, <1>3, Zenon DEF x

LEMMA PdeTargets ==
  ASSUME NEW m, NEW n, NEW e \in Envs, NEW t \in Tables,
         n.env_pgdir = m.env_pgdir, n.pte = m.pte,
         \A f \in Envs, u \in Tables : f # e \/ u # t => n.pde[f][u] = m.pde[f][u]
  PROVE  LET x == <<"pde", e, t>>
         IN  /\ \A y \in Places : y # x => Target(n, y) = Target(m, y)
             /\ Target(n, x) = n.pde[e][t]
             /\ Target(m, x) = m.pde[e][t]
<1> DEFINE x == <<"pde", e, t>>
<1>1. ASSUME NEW y \in Places, y # x
      PROVE  Target(n, y) = Target(m, y)
  <2>1. CASE y \in {"env_pgdir"} \X Envs
    BY <2>1, Zenon DEF Target
  <2>2. CASE y \in {"pte"} \X Envs \X VAs
    BY <2>2, Zenon DEF Target
  <2>3. CASE y \in {"pde"} \X Envs \X Tables
    <3>1. y = <<"pde", y[2], y[3]>> /\ y[2] \in Envs /\ y[3] \in Tables /\ y[1] = "pde"
      BY <2>3
    <3>2. y[2] # e \/ y[3] # t
      BY <1>1, <3>1, Zenon
    <3>3. n.pde[y[2]][y[3]] = m.pde[y[2]][y[3]]
      BY <3>1, <3>2, Zenon
    <3> QED BY <3>1, <3>3, Zenon DEF Target
  <2> QED BY <2>1, <2>2, <2>3, Zenon DEF Places
<1>2. x[1] = "pde" /\ x[2] = e /\ x[3] = t
  BY Zenon
<1> HIDE DEF x
<1>3. Target(n, x) = n.pde[e][t] /\ Target(m, x) = m.pde[e][t]
  BY <1>2, Zenon DEF Target
<1> QED BY <1>1, <1>3, Zenon DEF x

LEMMA DirTargets ==
  ASSUME NEW m, NEW n, NEW e \in Envs,
         n.pde = m.pde, n.pte = m.pte,
         \A f \in Envs : f # e => n.env_pgdir[f] = m.env_pgdir[f]
  PROVE  LET x == <<"env_pgdir", e>>
         IN  /\ \A y \in Places : y # x => Target(n, y) = Target(m, y)
             /\ Target(n, x) = n.env_pgdir[e]
             /\ Target(m, x) = m.env_pgdir[e]
<1> DEFINE x == <<"env_pgdir", e>>
<1>1. ASSUME NEW y \in Places, y # x
      PROVE  Target(n, y) = Target(m, y)
  <2>1. CASE y \in {"pde"} \X Envs \X Tables
    BY <2>1, Zenon DEF Target
  <2>2. CASE y \in {"pte"} \X Envs \X VAs
    BY <2>2, Zenon DEF Target
  <2>3. CASE y \in {"env_pgdir"} \X Envs
    <3>1. y = <<"env_pgdir", y[2]>> /\ y[2] \in Envs /\ y[1] = "env_pgdir"
      BY <2>3
    <3>2. n.env_pgdir[y[2]] = m.env_pgdir[y[2]]
      BY <1>1, <3>1, Zenon
    <3> QED BY <3>1, <3>2, Zenon DEF Target
  <2> QED BY <2>1, <2>2, <2>3, Zenon DEF Places
<1>2. x[1] = "env_pgdir" /\ x[2] = e
  BY Zenon
<1> HIDE DEF x
<1>3. Target(n, x) = n.env_pgdir[e] /\ Target(m, x) = m.env_pgdir[e]
  BY <1>2, Zenon DEF Target
<1> QED BY <1>1, <1>3, Zenon DEF x

\* A page that an entry of a page table points to.
Mapped(m, p) ==
  \E e \in Envs, va \in VAs : m.pte[e][va] # NULL /\ m.pte[e][va].page = p

LEMMA MappedRef ==
  ASSUME NEW m, NEW p, Mapped(m, p)
  PROVE  \E y \in Refs(m, p) : y[1] = "pte"
<1>1. PICK e \in Envs, va \in VAs : m.pte[e][va] # NULL /\ m.pte[e][va].page = p
  BY Zenon DEF Mapped
<1> DEFINE x == <<"pte", e, va>>
<1>2. x \in Places /\ x[1] = "pte" /\ x[2] = e /\ x[3] = va
  BY PlaceTypes, Zenon
<1> HIDE DEF x
<1>3. Target(m, x) = p
  BY <1>1, <1>2, Zenon DEF Target
<1> QED BY <1>2, <1>3, Zenon DEF Refs

\* The first reference to a page just taken does not wrap its count.
LEMMA FirstRef ==
  ASSUME CountLaws, NEW m, NEW n, NEW x \in Places, NEW p, Refs(m, p) = {}, Target(n, x) = p,
         \A y \in Places : y # x => Target(n, y) = Target(m, y)
  PROVE  Cardinality(Refs(n, p)) < RefMod
<1>1. Refs(n, p) = {x}
  BY RefsMove
<1>2. Cardinality({x}) = 1
  <2>1. Cardinality({}) = 0 /\ Cardinality({} \cup {x}) = Cardinality({}) + 1
    BY Zenon DEF CountLaws
  <2>2. {} \cup {x} = {x}
    BY Zenon
  <2> QED BY <2>1, <2>2
<1> QED BY <1>1, <1>2, VmAssumption

\* pgdir_walk(create).
LEMMA WalkGood ==
  ASSUME CountLaws, NEW m, NEW X, Good(m, X), NEW e \in Envs, NEW va \in VAs,
         m.env_pgdir[e] # NULL, CanWalk(m, e, va)
  PROVE  LET n == PgdirWalk(m, e, va)
         IN  /\ Good(n, X) /\ n.pde[e][va[1]] # NULL
             /\ n.env_pgdir = m.env_pgdir /\ n.pte = m.pte
<1>1. CASE HasTable(m, e, va)
  BY <1>1, Zenon DEF HasTable, PgdirWalk
<1>2. CASE ~HasTable(m, e, va)
  <2> DEFINE t == va[1]
             h == AllocPage(m)
             a == PageAlloc(m)
             i == IncRef(a, h)
             n == [i EXCEPT !.pde[e][t] = h]
             x == <<"pde", e, t>>
  <2>1. t \in Tables /\ m.pde[e][t] = NULL /\ Avail(m) /\ PgdirWalk(m, e, va) = n
    BY <1>2, Zenon DEF HasTable, CanWalk, PgdirWalk, VAs
  <2>2. /\ h \in Pages /\ h \notin X /\ Good(a, X \cup {h}) /\ Refs(a, h) = {}
        /\ a.env_pgdir = m.env_pgdir /\ a.pde = m.pde /\ a.pte = m.pte
    BY <2>1, AllocGood, Zenon
  <2>3. a \in Memory /\ a.panic = "no"
    BY <2>2, Zenon DEF Good, Formed
  <2> HIDE DEF t, h, a, n
  <2>4. /\ i \in Memory
        /\ i.pp_ref = [a.pp_ref EXCEPT ![h] = (a.pp_ref[h] + 1) % RefMod]
        /\ i.page_free_list = a.page_free_list /\ i.panic = a.panic
        /\ i.env_pgdir = a.env_pgdir /\ i.pde = a.pde /\ i.pte = a.pte
    BY <2>2, <2>3, IncRefFields
  <2> HIDE DEF i
  <2>5. /\ n \in Memory
        /\ n.pp_ref = i.pp_ref /\ n.page_free_list = i.page_free_list
        /\ n.env_pgdir = i.env_pgdir /\ n.pte = i.pte /\ n.panic = i.panic
        /\ n.pde[e][t] = h
        /\ \A f \in Envs, u \in Tables : f # e \/ u # t => n.pde[f][u] = i.pde[f][u]
    BY <2>1, <2>2, <2>4, PdeFields DEF n
  <2>6. /\ \A y \in Places : y # x => Target(n, y) = Target(a, y)
        /\ Target(n, x) = h /\ Target(a, x) = NULL
    <3>1. /\ \A f \in Envs, u \in Tables : f # e \/ u # t => n.pde[f][u] = a.pde[f][u]
          /\ n.env_pgdir = a.env_pgdir /\ n.pte = a.pte
      BY <2>4, <2>5
    <3> QED BY <2>1, <2>2, <2>5, <3>1, PdeTargets
  <2>7. Formed(n)
    <3>1. Formed(a)
      BY <2>2, Zenon DEF Good
    <3>2. ASSUME NEW f \in Envs, NEW u \in Tables, n.pde[f][u] # NULL
          PROVE  n.env_pgdir[f] # NULL
      BY <2>2, <2>4, <2>5, <3>1, <3>2 DEF Formed
    <3>3. ASSUME NEW f \in Envs, NEW vb \in VAs, n.pde[f][vb[1]] = NULL
          PROVE  n.pte[f][vb] = NULL
      <4>1. vb[1] \in Tables /\ h # NULL
        BY <2>2, VmAssumption, Zenon DEF VAs
      <4>2. n.pde[f][vb[1]] = a.pde[f][vb[1]]
        BY <2>4, <2>5, <3>3, <4>1
      <4> QED BY <2>4, <2>5, <3>1, <3>3, <4>2 DEF Formed
    <3> QED BY <2>5, <3>2, <3>3, Zenon DEF Formed
  <2>8. x \in Places
    BY <2>1, PlaceTypes, Zenon
  <2> HIDE DEF x
  <2>9. Cardinality(Refs(n, h)) < RefMod
    BY <2>2, <2>6, <2>8, FirstRef, Zenon
  <2>10. Good(n, (X \cup {h}) \ {h})
    BY <2>2, <2>3, <2>4, <2>5, <2>6, <2>7, <2>8, <2>9, LinkGood
  <2>11. (X \cup {h}) \ {h} = X
    BY <2>2, Zenon
  <2> QED BY <2>1, <2>2, <2>4, <2>5, <2>10, <2>11, VmAssumption, Zenon DEF t
<1> QED BY <1>1, <1>2, Zenon

LEMMA FormedPte ==
  ASSUME NEW m, Formed(m), NEW n \in Memory, NEW e \in Envs, NEW va \in VAs,
         n.env_pgdir = m.env_pgdir, n.pde = m.pde,
         \A f \in Envs, vb \in VAs : f # e \/ vb # va => n.pte[f][vb] = m.pte[f][vb],
         n.pte[e][va] = NULL \/ m.pde[e][va[1]] # NULL
  PROVE  Formed(n)
  BY DEF Formed

\* What a system call leaves when the kernel faults in it: the tables as they
\* are, the counts no longer right.
Stopped(m, n) ==
  /\ Formed(n) /\ Private(n) /\ n.panic = "fault"
  /\ n.env_pgdir = m.env_pgdir /\ n.pte = m.pte

\* What a function of pmap.c leaves: a memory in order, or a stopped kernel.
Leaves(m, n, X) == Stopped(m, n) \/ (Good(n, X) /\ n.env_pgdir = m.env_pgdir)

LEMMA StoppedFields ==
  ASSUME NEW m, Formed(m), Private(m), NEW d \in Memory,
         d.env_pgdir = m.env_pgdir, d.pde = m.pde, d.pte = m.pte
  PROVE  Stopped(m, Fault(d))
<1> DEFINE n == Fault(d)
<1>1. n \in Memory /\ n.panic = "fault" /\ n.env_pgdir = m.env_pgdir /\ n.pde = m.pde /\ n.pte = m.pte
  BY FaultFields, Zenon
<1> HIDE DEF n
<1>2. Formed(n)
  BY <1>1 DEF Formed
<1>3. \A p : Refs(n, p) = Refs(m, p)
  BY <1>1, SameRefs, Zenon
<1>4. Private(n)
  BY <1>3, Zenon DEF Private
<1> QED BY <1>1, <1>2, <1>4, Zenon DEF Stopped, n

\* page_remove().
LEMMA RemoveGood ==
  ASSUME CountLaws, NEW m, NEW X, Good(m, X), NEW e \in Envs, NEW va \in VAs,
         NEW n \in PageRemove(m, e, va)
  PROVE  Leaves(m, n, X)
<1>1. CASE m.pte[e][va] = NULL
  BY <1>1, Zenon DEF PageRemove, Leaves
<1>2. CASE m.pte[e][va] # NULL
  <2> DEFINE q == m.pte[e][va].page
             d == PageDecref(m, q)
             k == [d EXCEPT !.pte[e][va] = NULL]
             x == <<"pte", e, va>>
  <2>1. n = k \/ n = Fault(d)
    BY <1>2, Zenon DEF PageRemove
  <2>2. m \in Memory /\ q \in Pages
    BY <1>2 DEF Good, Formed, Memory, Ptes
  <2> HIDE DEF q, k
  <2>3. /\ d \in Memory
        /\ d.pp_ref = [m.pp_ref EXCEPT ![q] = (m.pp_ref[q] + RefMod - 1) % RefMod]
        /\ d.page_free_list = IF d.pp_ref[q] = 0 THEN <<q>> \o m.page_free_list
                              ELSE m.page_free_list
        /\ d.env_pgdir = m.env_pgdir /\ d.pde = m.pde /\ d.pte = m.pte
        /\ d.panic = m.panic
    BY <2>2, DecrefFields
  <2> HIDE DEF d
  <2>4. CASE n = Fault(d)
    BY <2>3, <2>4, StoppedFields, Zenon DEF Good, Leaves
  <2>5. CASE n = k
    <3>1. /\ n \in Memory
          /\ n.pp_ref = d.pp_ref /\ n.page_free_list = d.page_free_list
          /\ n.env_pgdir = d.env_pgdir /\ n.pde = d.pde
          /\ n.panic = d.panic
          /\ n.pte[e][va] = NULL
          /\ \A f \in Envs, vb \in VAs : f # e \/ vb # va => n.pte[f][vb] = d.pte[f][vb]
      <4> DEFINE v == NULL
      <4>1. v \in Ptes \cup {NULL} /\ n = [d EXCEPT !.pte[e][va] = v]
        BY <2>5, Zenon DEF k
      <4>2. v = NULL
        BY Zenon
      <4> HIDE DEF v
      <4> QED BY <2>3, <4>1, <4>2, PteFields
    <3>2. /\ n.env_pgdir = m.env_pgdir /\ n.pde = m.pde /\ n.panic = "no"
          /\ \A f \in Envs, vb \in VAs : f # e \/ vb # va => n.pte[f][vb] = m.pte[f][vb]
      BY <2>3, <3>1 DEF Good
    <3>3. Formed(n)
      BY <3>1, <3>2, FormedPte DEF Good
    <3>4. /\ \A y \in Places : y # x => Target(n, y) = Target(m, y)
          /\ Target(n, x) = NULL /\ Target(m, x) = q
      BY <1>2, <3>1, <3>2, PteTargets DEF q
    <3>5. x \in Places
      BY PlaceTypes, Zenon
    <3> HIDE DEF x
    <3>6. /\ n.pp_ref = [m.pp_ref EXCEPT ![q] = (m.pp_ref[q] + RefMod - 1) % RefMod]
          /\ n.page_free_list = IF n.pp_ref[q] = 0 THEN <<q>> \o m.page_free_list
                                ELSE m.page_free_list
      BY <2>3, <3>1, Zenon
    <3>7. Good(n, X)
      BY <2>2, <3>2, <3>3, <3>4, <3>5, <3>6, UnlinkGood, ZenonT(30)
    <3> QED BY <3>2, <3>7, Zenon DEF Leaves
  <2> QED BY <2>1, <2>4, <2>5, Zenon
<1> QED BY <1>1, <1>2, Zenon

\* page_insert() of a page just taken, or of one that is mapped.
LEMMA InsertGood ==
  ASSUME CountLaws, NEW m, NEW X, Good(m, X), NEW e \in Envs, NEW p \in Pages, NEW va \in VAs,
         NEW w \in BOOLEAN, m.env_pgdir[e] # NULL, CanWalk(m, e, va),
         p \in X \/ Mapped(m, p),
         NEW n \in PageInsert(m, e, p, va, w),
         Cardinality(Refs(n, p)) < RefMod
  PROVE  Leaves(m, n, X \ {p})
<1> DEFINE g == PgdirWalk(m, e, va)
           i == IncRef(g, p)
           x == <<"pte", e, va>>
           v == [page |-> p, w |-> w]
<1>1. PICK b \in PageRemove(i, e, va) : n = SetPte(b, e, p, va, w)
  BY Zenon DEF PageInsert
<1>2. /\ Good(g, X) /\ g.pde[e][va[1]] # NULL
      /\ g.env_pgdir = m.env_pgdir /\ g.pte = m.pte
  BY WalkGood, Zenon
<1> HIDE DEF g
<1>3. g \in Memory /\ g.panic = "no" /\ Formed(g) /\ Private(g)
  BY <1>2, Zenon DEF Good, Formed
<1>4. p \in X \/ Mapped(g, p)
  BY <1>2, Zenon DEF Mapped
<1>5. /\ i \in Memory
      /\ i.pp_ref = [g.pp_ref EXCEPT ![p] = (g.pp_ref[p] + 1) % RefMod]
      /\ i.page_free_list = g.page_free_list /\ i.panic = g.panic
      /\ i.env_pgdir = g.env_pgdir /\ i.pde = g.pde /\ i.pte = g.pte
  BY <1>3, IncRefFields, Zenon
<1> HIDE DEF i
<1>6. x \in Places /\ x[1] = "pte"
  BY PlaceTypes, Zenon
<1>7. v # NULL /\ v.page = p
  BY VmAssumption DEF Ptes
<1>8. CASE g.pte[e][va] = NULL
  <2>1. n = SetPte(i, e, p, va, w)
    BY <1>1, <1>5, <1>8, Zenon DEF PageRemove
  <2>2. /\ n \in Memory
        /\ n.pp_ref = i.pp_ref /\ n.page_free_list = i.page_free_list
        /\ n.env_pgdir = i.env_pgdir /\ n.pde = i.pde
        /\ n.panic = i.panic /\ n.pte[e][va] = v
        /\ \A f \in Envs, vb \in VAs : f # e \/ vb # va => n.pte[f][vb] = i.pte[f][vb]
    BY <1>3, <1>5, <2>1, SetPteFields
  <2>3. /\ n.pp_ref = [g.pp_ref EXCEPT ![p] = (g.pp_ref[p] + 1) % RefMod]
        /\ n.page_free_list = g.page_free_list /\ n.panic = "no"
        /\ n.env_pgdir = g.env_pgdir /\ n.pde = g.pde
        /\ \A f \in Envs, vb \in VAs : f # e \/ vb # va => n.pte[f][vb] = g.pte[f][vb]
    BY <1>3, <1>5, <2>2
  <2>4. /\ \A y \in Places : y # x => Target(n, y) = Target(g, y)
        /\ Target(n, x) = p /\ Target(g, x) = NULL
    <3> HIDE DEF v
    <3> QED BY <1>7, <1>8, <2>2, <2>3, PteTargets, SMTT(30)
  <2>5. Formed(n)
    BY <1>2, <1>3, <2>2, <2>3, FormedPte
  <2>6. p \in X \/ (x[1] = "pte" /\ \E y \in Refs(g, p) : y[1] = "pte")
    BY <1>4, <1>6, MappedRef, Zenon
  <2> HIDE DEF x, v
  <2>7. Good(n, X \ {p})
    BY <1>2, <1>6, <2>3, <2>4, <2>5, <2>6, LinkGood
  <2> QED BY <1>2, <2>3, <2>7, Zenon DEF Leaves
<1>9. CASE g.pte[e][va] # NULL
  <2> DEFINE q == g.pte[e][va].page
             d == PageDecref(i, q)
             c == [d EXCEPT !.pte[e][va] = NULL]
  <2>1. b = c \/ b = Fault(d)
    BY <1>1, <1>5, <1>9, Zenon DEF PageRemove
  <2>2. q \in Pages
    BY <1>3, <1>9 DEF Memory, Ptes
  <2> HIDE DEF q, c
  <2>3. /\ d \in Memory
        /\ d.pp_ref = [i.pp_ref EXCEPT ![q] = (i.pp_ref[q] + RefMod - 1) % RefMod]
        /\ d.page_free_list = IF d.pp_ref[q] = 0 THEN <<q>> \o i.page_free_list
                              ELSE i.page_free_list
        /\ d.env_pgdir = i.env_pgdir /\ d.pde = i.pde /\ d.pte = i.pte
        /\ d.panic = i.panic
    BY <1>5, <2>2, DecrefFields
  <2> HIDE DEF d
  <2>4. CASE b = Fault(d)
    <3>1. d.env_pgdir = g.env_pgdir /\ d.pde = g.pde /\ d.pte = g.pte
      BY <1>5, <2>3, Zenon
    <3>2. Stopped(g, b)
      BY <1>3, <2>3, <2>4, <3>1, StoppedFields, Zenon
    <3>3. n = b
      BY <1>1, <3>2, Zenon DEF SetPte, Stopped
    <3> QED BY <1>2, <3>2, <3>3, Zenon DEF Stopped, Leaves
  <2>5. CASE b = c
    <3>1. /\ b \in Memory
          /\ b.pp_ref = d.pp_ref /\ b.page_free_list = d.page_free_list
          /\ b.env_pgdir = d.env_pgdir /\ b.pde = d.pde
          /\ b.panic = d.panic
          /\ \A f \in Envs, vb \in VAs : f # e \/ vb # va => b.pte[f][vb] = d.pte[f][vb]
      <4> DEFINE u == NULL
      <4>1. u \in Ptes \cup {NULL} /\ b = [d EXCEPT !.pte[e][va] = u]
        BY <2>5, Zenon DEF c
      <4> HIDE DEF u
      <4> QED BY <2>3, <4>1, PteFields, SMTT(30)
    <3>2. /\ n \in Memory
          /\ n.pp_ref = b.pp_ref /\ n.page_free_list = b.page_free_list
          /\ n.env_pgdir = b.env_pgdir /\ n.pde = b.pde
          /\ n.panic = b.panic /\ n.pte[e][va] = v
          /\ \A f \in Envs, vb \in VAs : f # e \/ vb # va => n.pte[f][vb] = b.pte[f][vb]
      <4>1. b \in Memory /\ b.panic = "no" /\ n = SetPte(b, e, p, va, w)
        BY <1>1, <1>3, <1>5, <2>3, <3>1, Zenon
      <4> HIDE DEF x
      <4> QED BY <4>1, SetPteFields, SMTT(20), ZenonT(20)
    <3>3. /\ n.pp_ref = d.pp_ref /\ n.page_free_list = d.page_free_list
          /\ n.env_pgdir = g.env_pgdir /\ n.pde = g.pde /\ n.panic = "no"
          /\ \A f \in Envs, vb \in VAs : f # e \/ vb # va => n.pte[f][vb] = g.pte[f][vb]
      BY <1>3, <1>5, <2>3, <3>1, <3>2
    <3>4. /\ \A y \in Places : y # x => Target(n, y) = Target(g, y)
          /\ Target(n, x) = p /\ Target(g, x) = q
      <4> HIDE DEF v
      <4>1. n.pte[e][va] # NULL /\ n.pte[e][va].page = p
        BY <1>7, <3>2, Zenon
      <4>2. g.pte[e][va] # NULL /\ g.pte[e][va].page = q
        BY <1>9, Zenon DEF q
      <4> QED BY <3>3, <4>1, <4>2, PteTargets
    <3>5. Formed(n)
      BY <1>2, <1>3, <3>2, <3>3, FormedPte
    <3> HIDE DEF x, v
    <3>6. Good(n, X \ {p})
      <4>1. CASE q = p
        <5>1. \A y \in Places : Target(n, y) = Target(g, y)
          BY <3>4, <4>1, Zenon
        <5>2. \A r : Refs(n, r) = Refs(g, r)
          BY <5>1, Zenon DEF Refs
        <5>3. x \in Refs(g, p)
          BY <1>6, <3>4, <4>1, Zenon DEF Refs
        <5>4. g.pp_ref \in [Pages -> 0 .. RefMod - 1] /\ g.pp_ref[p] # 0
          <6>1. g.pp_ref[p] = Cardinality(Refs(g, p))
            BY <1>2, Zenon DEF Good, Counted
          <6> QED BY <1>3, <5>3, <6>1, RefsCount, Zenon DEF Memory
        <5>5. d.pp_ref = g.pp_ref
          <6>1. d.pp_ref = Down(Up(g.pp_ref, p), p)
            BY <1>5, <2>3, <4>1, Zenon DEF Up, Down
          <6> QED BY <5>4, <6>1, UpDown, Zenon
        <5>6. n.page_free_list = g.page_free_list
          BY <1>5, <2>3, <3>3, <4>1, <5>4, <5>5, Zenon
        <5>7. p \notin X
          BY <1>2, <5>3, Zenon DEF Good
        <5>8. Listed(n, X) /\ Counted(n) /\ Private(n)
          BY <1>2, <3>3, <5>2, <5>5, <5>6 DEF Good, Listed, Counted, Private
        <5>9. Good(n, X)
          BY <1>2, <3>3, <3>5, <5>2, <5>6, <5>8, Zenon DEF Good
        <5> QED BY <5>7, <5>9, Zenon
      <4>2. CASE q # p
        <5> DEFINE h == PageDecref(g, q)
                   k == [h EXCEPT !.pte[e][va] = NULL]
        <5>1. k \in PageRemove(g, e, va)
          BY <1>9, Zenon DEF PageRemove, q
        <5> HIDE DEF k
        <5>2. /\ h \in Memory
              /\ h.pp_ref = [g.pp_ref EXCEPT ![q] = (g.pp_ref[q] + RefMod - 1) % RefMod]
              /\ h.page_free_list = IF h.pp_ref[q] = 0 THEN <<q>> \o g.page_free_list
                                    ELSE g.page_free_list
              /\ h.env_pgdir = g.env_pgdir /\ h.pde = g.pde /\ h.pte = g.pte
              /\ h.panic = g.panic
          BY <1>3, <2>2, DecrefFields
        <5> HIDE DEF h
        <5>3. /\ k.pp_ref = h.pp_ref /\ k.page_free_list = h.page_free_list
              /\ k.env_pgdir = h.env_pgdir /\ k.pde = h.pde
              /\ k.panic = h.panic /\ k.pte[e][va] = NULL
              /\ \A f \in Envs, vb \in VAs : f # e \/ vb # va => k.pte[f][vb] = h.pte[f][vb]
          <6> DEFINE u == NULL
          <6>1. u \in Ptes \cup {NULL} /\ k = [h EXCEPT !.pte[e][va] = u]
            BY Zenon DEF k
          <6>2. u = NULL
            BY Zenon
          <6> HIDE DEF u
          <6> QED BY <5>2, <6>1, <6>2, PteFields
        <5>4. Good(k, X)
          <6>1. k.panic = "no"
            BY <1>3, <5>2, <5>3, Zenon
          <6>2. Leaves(g, k, X)
            BY <1>2, <5>1, RemoveGood, Zenon
          <6> QED BY <6>1, <6>2, Zenon DEF Stopped, Leaves
        <5>5. /\ n.env_pgdir = k.env_pgdir /\ n.pde = k.pde
              /\ \A f \in Envs, vb \in VAs : f # e \/ vb # va => n.pte[f][vb] = k.pte[f][vb]
          BY <3>3, <5>2, <5>3
        <5>6. /\ \A y \in Places : y # x => Target(n, y) = Target(k, y)
              /\ Target(k, x) = NULL
          BY <5>3, <5>5, PteTargets, SMTT(30) DEF x
        <5>7. g.pp_ref \in [Pages -> 0 .. RefMod - 1]
          BY <1>3, Zenon DEF Memory
        <5>8. /\ n.pp_ref = [k.pp_ref EXCEPT ![p] = (k.pp_ref[p] + 1) % RefMod]
              /\ n.pp_ref[q] = k.pp_ref[q]
          <6>1. n.pp_ref = Down(Up(g.pp_ref, p), q)
            BY <1>5, <2>3, <3>3, Zenon DEF Up, Down
          <6>2. k.pp_ref = Down(g.pp_ref, q)
            BY <5>2, <5>3, Zenon DEF Down
          <6>3. n.pp_ref = Up(k.pp_ref, p) /\ n.pp_ref[q] = k.pp_ref[q]
            BY <2>2, <4>2, <5>7, <6>1, <6>2, UpDown
          <6> QED BY <6>3, Zenon DEF Up
        <5>9. n.page_free_list = k.page_free_list
          <6>1. d.pp_ref[q] = h.pp_ref[q]
            BY <3>3, <5>3, <5>8, Zenon
          <6>2. i.page_free_list = g.page_free_list
            BY <1>5, Zenon
          <6>3. d.page_free_list = IF d.pp_ref[q] = 0 THEN <<q>> \o i.page_free_list
                                   ELSE i.page_free_list
            BY <2>3, Zenon
          <6>4. h.page_free_list = IF h.pp_ref[q] = 0 THEN <<q>> \o g.page_free_list
                                   ELSE g.page_free_list
            BY <5>2, Zenon
          <6>5. n.page_free_list = d.page_free_list
            BY <3>3, Zenon
          <6>6. k.page_free_list = h.page_free_list
            BY <5>3, Zenon
          <6> QED BY ONLY <6>1, <6>2, <6>3, <6>4, <6>5, <6>6, SMTT(20), ZenonT(20)
        <5>10. p \in X \/ (x[1] = "pte" /\ \E y \in Refs(k, p) : y[1] = "pte")
          <6>1. ASSUME Mapped(g, p)
                PROVE  Mapped(k, p)
            <7>1. PICK f \in Envs, vb \in VAs : g.pte[f][vb] # NULL /\ g.pte[f][vb].page = p
              BY <6>1, Zenon DEF Mapped
            <7>2. f # e \/ vb # va
              BY <4>2, <7>1, Zenon DEF q
            <7>3. k.pte[f][vb] = g.pte[f][vb]
              BY <5>2, <5>3, <7>2
            <7> QED BY <7>1, <7>3, Zenon DEF Mapped
          <6> QED BY <1>4, <1>6, <6>1, MappedRef, Zenon DEF x
        <5> QED BY <1>6, <3>3, <3>4, <3>5, <5>4, <5>6, <5>8, <5>9, <5>10, LinkGood
      <4> QED BY <4>1, <4>2, Zenon
    <3> QED BY <1>2, <3>3, <3>6, Zenon DEF Leaves
  <2> QED BY <2>1, <2>4, <2>5, Zenon
<1> QED BY <1>8, <1>9, Zenon
-----------------------------------------------------------------------------
(* The actions. *)

\* A call leaves the memory in order, or stopped.
LEMMA CallInv ==
  ASSUME Inv, UNCHANGED freeing, mem'.env_pgdir = mem.env_pgdir,
         NEW m, Stopped(m, mem') \/ Good(mem', {})
  PROVE  Inv'
<1>1. freeing' \in Envs \cup {NULL} /\ (freeing' # NULL => mem'.env_pgdir[freeing'] # NULL)
  BY Zenon DEF Inv
<1>2. CASE Stopped(m, mem')
  BY <1>1, <1>2, Zenon DEF Inv, Stopped
<1>3. CASE Good(mem', {})
  BY <1>1, <1>3, Zenon DEF Inv, Good
<1> QED BY <1>2, <1>3, Zenon

LEMMA IdleGood ==
  ASSUME Inv, mem.panic = "no"
  PROVE  Good(mem, {}) /\ mem \in Memory
  BY Zenon DEF Inv, Formed

LEMMA EnvSetupVmInv ==
  ASSUME CountLaws, Inv, NEW e \in Envs, EnvSetupVm(e)
  PROVE  Inv'
<1> DEFINE h == AllocPage(mem)
           a == PageAlloc(mem)
           i == IncRef(a, h)
           x == <<"env_pgdir", e>>
<1>1. /\ freeing = NULL /\ mem.panic = "no" /\ mem.env_pgdir[e] = NULL /\ Avail(mem)
      /\ mem' = [i EXCEPT !.env_pgdir[e] = h] /\ UNCHANGED freeing
  BY Zenon DEF EnvSetupVm, Idle, Alive
<1>2. Good(mem, {})
  BY <1>1, IdleGood, Zenon
<1>3. /\ h \in Pages /\ Good(a, {} \cup {h}) /\ Refs(a, h) = {}
      /\ a.env_pgdir = mem.env_pgdir /\ a.pde = mem.pde /\ a.pte = mem.pte
  BY <1>1, <1>2, AllocGood, Zenon
<1>4. a \in Memory /\ a.panic = "no" /\ Formed(a)
  BY <1>3, Zenon DEF Good, Formed
<1> HIDE DEF h, a
<1>5. /\ i \in Memory
      /\ i.pp_ref = [a.pp_ref EXCEPT ![h] = (a.pp_ref[h] + 1) % RefMod]
      /\ i.page_free_list = a.page_free_list /\ i.panic = a.panic
      /\ i.env_pgdir = a.env_pgdir /\ i.pde = a.pde /\ i.pte = a.pte
  BY <1>3, <1>4, IncRefFields, Zenon
<1> HIDE DEF i
<1>6. /\ mem' \in Memory
      /\ mem'.pp_ref = i.pp_ref /\ mem'.page_free_list = i.page_free_list
      /\ mem'.pde = i.pde /\ mem'.pte = i.pte /\ mem'.panic = i.panic
      /\ mem'.env_pgdir[e] = h
      /\ \A f \in Envs : f # e => mem'.env_pgdir[f] = i.env_pgdir[f]
  BY <1>1, <1>3, <1>5, DirFields
<1>7. /\ \A y \in Places : y # x => Target(mem', y) = Target(a, y)
      /\ Target(mem', x) = h /\ Target(a, x) = NULL
  <2>1. /\ mem'.pde = a.pde /\ mem'.pte = a.pte
        /\ \A f \in Envs : f # e => mem'.env_pgdir[f] = a.env_pgdir[f]
    BY <1>5, <1>6, Zenon
  <2>2. a.env_pgdir[e] = NULL /\ mem'.env_pgdir[e] = h
    BY <1>1, <1>3, <1>6, Zenon
  <2> DEFINE n == mem'
  <2>3. /\ n.pde = a.pde /\ n.pte = a.pte
        /\ \A f \in Envs : f # e => n.env_pgdir[f] = a.env_pgdir[f]
        /\ n.env_pgdir[e] = h
    BY <2>1, <2>2, Zenon
  <2> HIDE DEF n
  <2>4. /\ \A y \in Places : y # x => Target(n, y) = Target(a, y)
        /\ Target(n, x) = h /\ Target(a, x) = NULL
    BY <2>2, <2>3, DirTargets
  <2> QED BY <2>4, Zenon DEF n
<1>8. Formed(mem')
  <2>1. h # NULL
    BY <1>3, VmAssumption, Zenon
  <2> QED BY <1>4, <1>5, <1>6, <2>1 DEF Formed
<1>9. x \in Places
  BY PlaceTypes, Zenon
<1> HIDE DEF x
<1>10. Cardinality(Refs(mem', h)) < RefMod
  BY <1>3, <1>7, <1>9, FirstRef, Zenon
<1>11. Good(mem', ({} \cup {h}) \ {h})
  <2>1. h \in {} \cup {h}
    BY Zenon
  <2>2. /\ mem'.pp_ref = [a.pp_ref EXCEPT ![h] = (a.pp_ref[h] + 1) % RefMod]
        /\ mem'.page_free_list = a.page_free_list /\ mem'.panic = "no"
    BY <1>4, <1>5, <1>6, Zenon
  <2> QED BY <1>3, <1>7, <1>8, <1>9, <1>10, <2>1, <2>2, LinkGood, Zenon
<1>12. ({} \cup {h}) \ {h} = {}
  BY Zenon
<1> QED BY <1>1, <1>11, <1>12, Zenon DEF Inv, Good

\* The page that sys_page_alloc() could not insert goes back to the list.
LEMMA GiveBackGood ==
  ASSUME CountLaws, NEW a, NEW p \in Pages, Good(a, {p})
  PROVE  Good(PageFree(a, p), {}) /\ PageFree(a, p).env_pgdir = a.env_pgdir
                                  /\ PageFree(a, p).pte = a.pte
<1> DEFINE n == PageFree(a, p)
           L == a.page_free_list
<1>1. a \in Memory /\ Refs(a, p) = {} /\ Once(L)
  BY Zenon DEF Good, Formed
<1>2. a.pp_ref[p] = 0
  BY <1>1, RefsCount, Zenon DEF Good, Counted
<1>3. n = [a EXCEPT !.page_free_list = <<p>> \o L]
  BY <1>2, Zenon DEF PageFree
<1>4. L \in Seq(Pages) /\ ~In(L, p)
  BY <1>1, Zenon DEF Good, Listed, Memory
<1>5. /\ <<p>> \o L \in Seq(Pages) /\ Once(<<p>> \o L)
      /\ \A q : In(<<p>> \o L, q) <=> q = p \/ In(L, q)
  BY <1>1, <1>4, PushList, Zenon
<1> HIDE DEF n
<1>6. /\ n \in Memory /\ n.page_free_list = <<p>> \o L /\ n.pp_ref = a.pp_ref
      /\ n.env_pgdir = a.env_pgdir /\ n.pde = a.pde /\ n.pte = a.pte /\ n.panic = a.panic
  BY <1>1, <1>3, <1>5, Zenon DEF Memory
<1>7. \A q : Refs(n, q) = Refs(a, q)
  BY <1>6, SameRefs, Zenon
<1> HIDE DEF L
<1>8. Formed(n) /\ Counted(n) /\ Private(n)
  BY <1>6, <1>7 DEF Good, Formed, Counted, Private
<1>9. Listed(n, {})
  BY <1>1, <1>5, <1>6, <1>7, Zenon DEF Good, Listed, L
<1>10. Good(n, {})
  BY <1>5, <1>6, <1>8, <1>9, Zenon DEF Good
<1> QED BY <1>6, <1>10, Zenon DEF n

LEMMA SysPageAllocInv ==
  ASSUME CountLaws, Inv, NoWrap', NEW e \in Envs, NEW va \in VAs, NEW w \in BOOLEAN,
         SysPageAlloc(e, va, w)
  PROVE  Inv'
<1> DEFINE p == AllocPage(mem)
           a == PageAlloc(mem)
<1>1. /\ mem.panic = "no" /\ mem.env_pgdir[e] # NULL /\ Avail(mem) /\ UNCHANGED freeing
      /\ mem' \in IF CanWalk(a, e, va) THEN PageInsert(a, e, p, va, w) ELSE {PageFree(a, p)}
  BY Zenon DEF SysPageAlloc, Idle, Alive
<1>2. /\ p \in Pages /\ Good(a, {} \cup {p}) /\ {} \cup {p} = {p}
      /\ a.env_pgdir = mem.env_pgdir
  BY <1>1, IdleGood, AllocGood, Zenon
<1> HIDE DEF a, p
<1>3. CASE CanWalk(a, e, va)
  <2>1. mem' \in PageInsert(a, e, p, va, w) /\ Cardinality(Refs(mem', p)) < RefMod
    BY <1>1, <1>2, <1>3, Zenon DEF NoWrap
  <2>2. Good(a, {p}) /\ p \in {p} /\ a.env_pgdir[e] # NULL
    BY <1>1, <1>2, Zenon
  <2>3. Leaves(a, mem', {p} \ {p})
    BY <1>2, <1>3, <2>1, <2>2, InsertGood, ZenonT(30)
  <2>4. {p} \ {p} = {}
    BY Zenon
  <2> QED BY <1>1, <1>2, <2>3, <2>4, CallInv, Zenon DEF Stopped, Leaves
<1>4. CASE ~CanWalk(a, e, va)
  BY <1>1, <1>2, <1>4, GiveBackGood, CallInv, Zenon
<1> QED BY <1>3, <1>4, Zenon

LEMMA SysPageMapInv ==
  ASSUME CountLaws, Inv, NoWrap', NEW s \in Envs, NEW sva \in VAs, NEW d \in Envs, NEW dva \in VAs,
         NEW w \in BOOLEAN, SysPageMap(s, sva, d, dva, w)
  PROVE  Inv'
<1> DEFINE p == mem.pte[s][sva].page
<1>1. /\ mem.panic = "no" /\ mem.env_pgdir[d] # NULL /\ UNCHANGED freeing
      /\ mem.pte[s][sva] # NULL
  BY Zenon DEF SysPageMap, Idle, Alive
<1>2. Good(mem, {}) /\ mem \in Memory
  BY <1>1, IdleGood, Zenon
<1>3. p \in Pages /\ Mapped(mem, p)
  BY <1>1, <1>2 DEF Memory, Ptes, Mapped
<1>4. CASE mem' = Fault(mem)
  <2>1. Stopped(mem, mem')
    BY <1>2, <1>4, StoppedFields, Zenon DEF Good
  <2> QED BY <1>1, <2>1, CallInv, Zenon DEF Stopped
<1>5. CASE CanWalk(mem, d, dva) /\ mem' \in PageInsert(mem, d, p, dva, w)
  <2> HIDE DEF p
  <2>1. Cardinality(Refs(mem', p)) < RefMod
    BY <1>3, Zenon DEF NoWrap
  <2>2. Leaves(mem, mem', {} \ {p})
    BY <1>1, <1>2, <1>3, <1>5, <2>1, InsertGood, ZenonT(30)
  <2>3. {} \ {p} = {}
    BY Zenon
  <2> QED BY <1>1, <2>2, <2>3, CallInv, Zenon DEF Stopped, Leaves
<1> QED BY <1>4, <1>5, Zenon DEF SysPageMap

\* SysPageUnmap and the inner loop of env_free().
LEMMA PageRemoveInv ==
  ASSUME CountLaws, Inv, mem.panic = "no", UNCHANGED freeing, NEW e \in Envs, NEW va \in VAs,
         mem' \in PageRemove(mem, e, va)
  PROVE  Inv'
<1>1. Leaves(mem, mem', {})
  BY IdleGood, RemoveGood, Zenon
<1> QED BY <1>1, CallInv, Zenon DEF Stopped, Leaves

\* An emptied directory entry.
ClearTable(m, e, t) == [m EXCEPT !.pde[e][t] = NULL, !.pdew[e][t] = FALSE]

LEMMA TableFields ==
  ASSUME NEW m \in Memory, NEW e \in Envs, NEW t \in Tables
  PROVE  LET n == ClearTable(m, e, t)
         IN  /\ n \in Memory
             /\ n.pp_ref = m.pp_ref /\ n.page_free_list = m.page_free_list
             /\ n.env_pgdir = m.env_pgdir /\ n.pte = m.pte /\ n.panic = m.panic
             /\ n.pde[e][t] = NULL
             /\ \A f \in Envs, u \in Tables : f # e \/ u # t => n.pde[f][u] = m.pde[f][u]
<1> DEFINE g == [m.pde EXCEPT ![e][t] = NULL]
           h == [m.pdew EXCEPT ![e][t] = FALSE]
           n == ClearTable(m, e, t)
<1>1. n = [m EXCEPT !.pde = g, !.pdew = h]
  BY Zenon DEF Memory, ClearTable
<1> HIDE DEF n
<1>2. /\ g \in [Envs -> [Tables -> Pages \cup {NULL}]] /\ g[e][t] = NULL
      /\ \A f \in Envs, u \in Tables : f # e \/ u # t => g[f][u] = m.pde[f][u]
  <2>1. m.pde \in [Envs -> [Tables -> Pages \cup {NULL}]]
    BY Zenon DEF Memory
  <2> QED BY <2>1, Zenon
<1>3. h \in [Envs -> [Tables -> BOOLEAN]]
  BY Zenon DEF Memory
<1> HIDE DEF g, h
<1>4. /\ n \in Memory
      /\ n.pp_ref = m.pp_ref /\ n.page_free_list = m.page_free_list
      /\ n.env_pgdir = m.env_pgdir /\ n.pte = m.pte /\ n.panic = m.panic
      /\ n.pde = g
  BY <1>1, <1>2, <1>3, Zenon DEF Memory
<1> QED BY <1>2, <1>4, Zenon DEF n

LEMMA EnvFreeTableInv ==
  ASSUME CountLaws, Inv, NEW t \in Tables, EnvFreeTable(t)
  PROVE  Inv'
<1> DEFINE e == freeing
           q == mem.pde[e][t]
           d == PageDecref(mem, q)
           x == <<"pde", e, t>>
           n == mem'
<1>1. /\ e \in Envs /\ mem.panic = "no" /\ q # NULL /\ UNCHANGED freeing
      /\ n = ClearTable(d, e, t)
      /\ \A s \in Slots : mem.pte[e][<<t, s>>] = NULL
  BY Zenon DEF EnvFreeTable, Inv, ClearTable
<1>2. Good(mem, {}) /\ mem \in Memory
  BY <1>1, IdleGood, Zenon
<1>3. q \in Pages
  BY <1>1, <1>2 DEF Memory
<1> HIDE DEF q, e, n
<1>4. /\ d \in Memory
      /\ d.pp_ref = [mem.pp_ref EXCEPT ![q] = (mem.pp_ref[q] + RefMod - 1) % RefMod]
      /\ d.page_free_list = IF d.pp_ref[q] = 0 THEN <<q>> \o mem.page_free_list
                            ELSE mem.page_free_list
      /\ d.env_pgdir = mem.env_pgdir /\ d.pde = mem.pde /\ d.pte = mem.pte
      /\ d.panic = mem.panic
  BY <1>2, <1>3, DecrefFields
<1> HIDE DEF d
<1>5. /\ n \in Memory
      /\ n.pp_ref = d.pp_ref /\ n.page_free_list = d.page_free_list
      /\ n.env_pgdir = d.env_pgdir /\ n.pte = d.pte /\ n.panic = d.panic
      /\ n.pde[e][t] = NULL
      /\ \A f \in Envs, u \in Tables : f # e \/ u # t => n.pde[f][u] = d.pde[f][u]
  BY <1>1, <1>4, TableFields, SMTT(20)
<1>6. /\ n.env_pgdir = mem.env_pgdir /\ n.pte = mem.pte /\ n.panic = "no"
      /\ \A f \in Envs, u \in Tables : f # e \/ u # t => n.pde[f][u] = mem.pde[f][u]
  BY <1>1, <1>4, <1>5
<1>7. /\ \A y \in Places : y # x => Target(n, y) = Target(mem, y)
      /\ Target(n, x) = NULL /\ Target(mem, x) = q
  <2>1. q = mem.pde[e][t] /\ e \in Envs
    BY <1>1, Zenon DEF q
  <2> QED BY <1>5, <1>6, <2>1, PdeTargets
<1>8. Formed(n)
  <2>1. Formed(mem)
    BY <1>2, Zenon DEF Good
  <2>2. ASSUME NEW f \in Envs, NEW u \in Tables, n.pde[f][u] # NULL
        PROVE  n.env_pgdir[f] # NULL
    BY <1>5, <1>6, <2>1, <2>2 DEF Formed
  <2>3. ASSUME NEW f \in Envs, NEW va \in VAs, n.pde[f][va[1]] = NULL
        PROVE  n.pte[f][va] = NULL
    <3>1. va[1] \in Tables /\ va[2] \in Slots /\ va = <<va[1], va[2]>>
      BY DEF VAs
    <3>2. CASE f = e /\ va[1] = t
      <4>1. mem.pte[e][<<t, va[2]>>] = NULL
        BY <1>1, <3>1, Zenon
      <4> QED BY <1>6, <3>1, <3>2, <4>1, Zenon
    <3>3. CASE f # e \/ va[1] # t
      BY <1>6, <2>1, <2>3, <3>1, <3>3 DEF Formed
    <3> QED BY <3>2, <3>3, Zenon
  <2> QED BY <1>5, <2>2, <2>3, Zenon DEF Formed
<1>9. x \in Places
  BY <1>1, PlaceTypes, Zenon
<1> HIDE DEF x
<1>10. Good(n, {})
  <2>1. /\ n.pp_ref = [mem.pp_ref EXCEPT ![q] = (mem.pp_ref[q] + RefMod - 1) % RefMod]
        /\ n.page_free_list = IF n.pp_ref[q] = 0 THEN <<q>> \o mem.page_free_list
                              ELSE mem.page_free_list
    BY <1>4, <1>5, Zenon
  <2> QED BY <1>2, <1>3, <1>6, <1>7, <1>8, <1>9, <2>1, UnlinkGood, ZenonT(30)
<1> QED BY <1>1, <1>6, <1>10, CallInv, Zenon DEF n

LEMMA EnvFreeDirInv ==
  ASSUME CountLaws, Inv, EnvFreeDir
  PROVE  Inv'
<1> DEFINE e == freeing
           q == mem.env_pgdir[e]
           d == PageDecref(mem, q)
           x == <<"env_pgdir", e>>
           n == mem'
<1>1. /\ e \in Envs /\ mem.panic = "no" /\ q # NULL /\ freeing' = NULL
      /\ n = [d EXCEPT !.env_pgdir[e] = NULL]
      /\ \A t \in Tables : mem.pde[e][t] = NULL
  BY Zenon DEF EnvFreeDir, Inv
<1>2. Good(mem, {}) /\ mem \in Memory
  BY <1>1, IdleGood, Zenon
<1>3. q \in Pages
  BY <1>1, <1>2, Zenon DEF Memory
<1> HIDE DEF q, e, n
<1>4. /\ d \in Memory
      /\ d.pp_ref = [mem.pp_ref EXCEPT ![q] = (mem.pp_ref[q] + RefMod - 1) % RefMod]
      /\ d.page_free_list = IF d.pp_ref[q] = 0 THEN <<q>> \o mem.page_free_list
                            ELSE mem.page_free_list
      /\ d.env_pgdir = mem.env_pgdir /\ d.pde = mem.pde /\ d.pte = mem.pte
      /\ d.panic = mem.panic
  BY <1>2, <1>3, DecrefFields
<1> HIDE DEF d
<1>5. /\ n \in Memory
      /\ n.pp_ref = d.pp_ref /\ n.page_free_list = d.page_free_list
      /\ n.pde = d.pde /\ n.pte = d.pte /\ n.panic = d.panic
      /\ n.env_pgdir[e] = NULL
      /\ \A f \in Envs : f # e => n.env_pgdir[f] = d.env_pgdir[f]
  <2>1. LET k == [d EXCEPT !.env_pgdir[e] = NULL]
        IN  /\ k \in Memory
            /\ k.pp_ref = d.pp_ref /\ k.page_free_list = d.page_free_list
            /\ k.pde = d.pde /\ k.pte = d.pte /\ k.panic = d.panic
            /\ k.env_pgdir[e] = NULL
            /\ \A f \in Envs : f # e => k.env_pgdir[f] = d.env_pgdir[f]
    <3>1. NULL \in Pages \cup {NULL} /\ e \in Envs
      BY <1>1, Zenon
    <3> QED BY <1>4, <3>1, DirFields
  <2> QED BY <1>1, <2>1, Zenon
<1>6. /\ n.pde = mem.pde /\ n.pte = mem.pte /\ n.panic = "no"
      /\ \A f \in Envs : f # e => n.env_pgdir[f] = mem.env_pgdir[f]
  BY <1>1, <1>4, <1>5
<1>7. /\ \A y \in Places : y # x => Target(n, y) = Target(mem, y)
      /\ Target(n, x) = NULL /\ Target(mem, x) = q
  <2>1. q = mem.env_pgdir[e] /\ e \in Envs
    BY <1>1, Zenon DEF q
  <2> QED BY <1>5, <1>6, <2>1, DirTargets
<1>8. Formed(n)
  BY <1>1, <1>2, <1>5, <1>6 DEF Good, Formed
<1>9. x \in Places
  BY <1>1, PlaceTypes, Zenon
<1> HIDE DEF x
<1>10. Good(n, {})
  <2>1. /\ n.pp_ref = [mem.pp_ref EXCEPT ![q] = (mem.pp_ref[q] + RefMod - 1) % RefMod]
        /\ n.page_free_list = IF n.pp_ref[q] = 0 THEN <<q>> \o mem.page_free_list
                              ELSE mem.page_free_list
    BY <1>4, <1>5, Zenon
  <2> QED BY <1>2, <1>3, <1>6, <1>7, <1>8, <1>9, <2>1, UnlinkGood, ZenonT(30)
<1> QED BY <1>1, <1>10, Zenon DEF Inv, Good, n

\* page_init() leaves a list that holds each page: as many entries as pages,
\* so each page once.
LEMMA NextInv ==
  ASSUME CountLaws
  PROVE  Inv /\ NoWrap' /\ [Next]_vars => Inv'
<1> SUFFICES ASSUME Inv, NoWrap', [Next]_vars PROVE Inv'
  BY Zenon
<1>1. CASE UNCHANGED vars
  <2>1. mem' = mem /\ freeing' = freeing
    BY <1>1, Zenon DEF vars
  <2> QED BY <2>1, Zenon DEF Inv
<1>2. ASSUME NEW e \in Envs, EnvFreeStart(e)
      PROVE  Inv'
  <2>1. mem' = mem /\ freeing' = e /\ mem.env_pgdir[e] # NULL
    BY <1>2, Zenon DEF EnvFreeStart, Alive
  <2> QED BY <2>1, Zenon DEF Inv
<1>3. ASSUME NEW e \in Envs, NEW va \in VAs, SysPageUnmap(e, va)
      PROVE  Inv'
  BY <1>3, PageRemoveInv, Zenon DEF SysPageUnmap, Idle
<1>4. ASSUME NEW va \in VAs, EnvFreePage(va)
      PROVE  Inv'
  <2>1. freeing \in Envs
    BY <1>4, Zenon DEF EnvFreePage, Inv
  <2> QED BY <1>4, <2>1, PageRemoveInv, Zenon DEF EnvFreePage
<1>5. ASSUME NEW s \in Envs, NEW d \in Envs, NEW sva \in VAs, NEW dva \in VAs,
             IpcSendPage(s, sva, d, dva)
      PROVE  Inv'
  <2>1. SysPageMap(s, sva, d, dva, TRUE) /\ TRUE \in BOOLEAN
    BY <1>5, Zenon DEF IpcSendPage
  <2> QED BY <2>1, SysPageMapInv, Zenon
<1>6. CASE \E e \in Envs : EnvSetupVm(e) \/ EnvFreeStart(e)
  BY <1>2, <1>6, EnvSetupVmInv, Zenon
<1>7. CASE \E e \in Envs, va \in VAs :
             SysPageUnmap(e, va) \/ \E w \in BOOLEAN : SysPageAlloc(e, va, w)
  BY <1>3, <1>7, SysPageAllocInv, Zenon
<1>8. CASE \E s, d \in Envs, sva, dva \in VAs :
             \/ \E w \in BOOLEAN : SysPageMap(s, sva, d, dva, w)
             \/ IpcSendPage(s, sva, d, dva)
  BY <1>5, <1>8, SysPageMapInv, Zenon
<1>9. CASE \E va \in VAs : EnvFreePage(va)
  BY <1>4, <1>9, Zenon
<1>10. CASE \E t \in Tables : EnvFreeTable(t)
  BY <1>10, EnvFreeTableInv, Zenon
<1>11. CASE EnvFreeDir
  BY <1>11, EnvFreeDirInv, Zenon
<1>12. CASE Panicked
  BY <1>1, <1>12, Zenon DEF Panicked
<1> QED BY <1>1, <1>6, <1>7, <1>8, <1>9, <1>10, <1>11, <1>12, Zenon DEF Next

LEMMA LibIsVm == [LibNext]_tlbVars => [Next]_vars
<1> SUFFICES ASSUME LibNext PROVE [Next]_vars
  BY Zenon DEF tlbVars, vars
<1>1. CASE Common
  <2>1. ASSUME NEW c \in CPUs, SchedHalt(c) \/ EnvFreeTurn(c)
        PROVE  [Next]_vars
    BY <2>1, Zenon DEF SchedHalt, EnvFreeTurn, Next
  <2>2. ASSUME NEW c \in CPUs, NEW e \in Envs, EnvRun(c, e) \/ EnvFreeOn(c, e)
        PROVE  [Next]_vars
    BY <2>2, Zenon DEF EnvRun, EnvFreeOn, Next
  <2>3. ASSUME NEW c \in CPUs, NEW va \in VAs, Access(c, va)
        PROVE  [Next]_vars
    BY <2>3, Zenon DEF Access, vars
  <2> QED BY <1>1, <2>1, <2>2, <2>3, Zenon DEF Common, Next
<1>2. ASSUME NEW c \in CPUs, NEW e \in Envs, PageCall(c, e)
      PROVE  Next
  <2>1. PICK va \in VAs :
          \/ \E w \in BOOLEAN : SysPageAlloc(e, va, w)
          \/ \E s \in Envs, sva \in VAs, w \in BOOLEAN : SysPageMap(s, sva, e, va, w)
          \/ \E s \in Envs, sva \in VAs : IpcSendPage(s, sva, e, va)
          \/ SysPageUnmap(e, va)
    BY <1>2, Zenon DEF PageCall
  <2> QED BY <2>1, Zenon DEF Next
<1> QED BY <1>1, <1>2, Zenon DEF LibNext
-----------------------------------------------------------------------------
(* What the steps do to the entries of the page tables, whatever the counts. *)

LEMMA AllocFields ==
  ASSUME NEW m \in Memory, Avail(m)
  PROVE  LET n == PageAlloc(m)
         IN  /\ AllocPage(m) \in Pages /\ n \in Memory
             /\ n.env_pgdir = m.env_pgdir /\ n.pde = m.pde /\ n.pte = m.pte
             /\ n.panic = m.panic
<1> DEFINE L == m.page_free_list
<1>1. L \in Seq(Pages) /\ L # << >>
  BY Zenon DEF Memory, Avail
<1>2. Head(L) \in Pages /\ Tail(L) \in Seq(Pages)
  BY <1>1
<1> QED BY <1>2, Zenon DEF AllocPage, PageAlloc, Memory

LEMMA WalkEffect ==
  ASSUME NEW m \in Memory, NEW e \in Envs, NEW va \in VAs, CanWalk(m, e, va)
  PROVE  LET n == PgdirWalk(m, e, va)
         IN  /\ n \in Memory
             /\ n.env_pgdir = m.env_pgdir /\ n.pte = m.pte /\ n.panic = m.panic
<1>1. CASE HasTable(m, e, va)
  BY <1>1, Zenon DEF PgdirWalk
<1>2. CASE ~HasTable(m, e, va)
  <2> DEFINE t == va[1]
             h == AllocPage(m)
             a == PageAlloc(m)
             i == IncRef(a, h)
             n == [i EXCEPT !.pde[e][t] = h]
  <2>1. t \in Tables /\ Avail(m) /\ PgdirWalk(m, e, va) = n
    BY <1>2, Zenon DEF CanWalk, PgdirWalk, VAs
  <2>2. /\ h \in Pages /\ a \in Memory
        /\ a.env_pgdir = m.env_pgdir /\ a.pte = m.pte /\ a.panic = m.panic
    BY <2>1, AllocFields, Zenon
  <2> HIDE DEF t, h, a, n
  <2>3. /\ i \in Memory
        /\ i.env_pgdir = a.env_pgdir /\ i.pte = a.pte /\ i.panic = a.panic
    BY <2>2, IncRefFields, Zenon
  <2> HIDE DEF i
  <2>4. /\ n \in Memory
        /\ n.env_pgdir = i.env_pgdir /\ n.pte = i.pte /\ n.panic = i.panic
    BY <2>1, <2>2, <2>3, PdeFields DEF n
  <2> QED BY <2>1, <2>2, <2>3, <2>4, Zenon
<1> QED BY <1>1, <1>2, Zenon

\* From m to n, only the entry of va in e may change, and not if the kernel
\* panics.
OneEntry(m, n, e, va) ==
  /\ n \in Memory /\ n.env_pgdir = m.env_pgdir
  /\ \A f \in Envs, vb \in VAs : f # e \/ vb # va => n.pte[f][vb] = m.pte[f][vb]
  /\ n.panic # "no" => n.pte[e][va] = m.pte[e][va]

LEMMA RemoveEffect ==
  ASSUME NEW m \in Memory, m.panic = "no", NEW e \in Envs, NEW va \in VAs,
         NEW n \in PageRemove(m, e, va)
  PROVE  OneEntry(m, n, e, va) /\ (n.panic = "no" => n.pte[e][va] = NULL)
<1>1. CASE m.pte[e][va] = NULL
  BY <1>1, Zenon DEF PageRemove, OneEntry
<1>2. CASE m.pte[e][va] # NULL
  <2> DEFINE q == m.pte[e][va].page
             d == PageDecref(m, q)
             k == [d EXCEPT !.pte[e][va] = NULL]
  <2>1. n = k \/ n = Fault(d)
    BY <1>2, Zenon DEF PageRemove
  <2>2. q \in Pages
    BY <1>2 DEF Memory, Ptes
  <2> HIDE DEF q, k
  <2>3. d \in Memory /\ d.env_pgdir = m.env_pgdir /\ d.pte = m.pte /\ d.panic = m.panic
    BY <2>2, DecrefFields, Zenon
  <2> HIDE DEF d
  <2>4. CASE n = Fault(d)
    <3>1. n \in Memory /\ n.env_pgdir = m.env_pgdir /\ n.pte = m.pte /\ n.panic = "fault"
      BY <2>3, <2>4, FaultFields, Zenon
    <3> QED BY <3>1, Zenon DEF OneEntry
  <2>5. CASE n = k
    <3>1. /\ n \in Memory /\ n.env_pgdir = d.env_pgdir /\ n.panic = d.panic
          /\ n.pte[e][va] = NULL
          /\ \A f \in Envs, vb \in VAs : f # e \/ vb # va => n.pte[f][vb] = d.pte[f][vb]
      <4> DEFINE v == NULL
      <4>1. v \in Ptes \cup {NULL} /\ n = [d EXCEPT !.pte[e][va] = v]
        BY <2>5, Zenon DEF k
      <4>2. v = NULL
        BY Zenon
      <4> HIDE DEF v
      <4> QED BY <2>3, <4>1, <4>2, PteFields
    <3> QED BY <2>3, <3>1 DEF OneEntry
  <2> QED BY <2>1, <2>4, <2>5, Zenon
<1> QED BY <1>1, <1>2, Zenon

LEMMA InsertEffect ==
  ASSUME NEW m \in Memory, m.panic = "no", NEW e \in Envs, NEW p \in Pages, NEW va \in VAs,
         NEW w \in BOOLEAN, CanWalk(m, e, va), NEW n \in PageInsert(m, e, p, va, w)
  PROVE  OneEntry(m, n, e, va) /\ (n.panic = "no" => n.pte[e][va] = [page |-> p, w |-> w])
<1> DEFINE g == PgdirWalk(m, e, va)
           i == IncRef(g, p)
<1>1. PICK b \in PageRemove(i, e, va) : n = SetPte(b, e, p, va, w)
  BY Zenon DEF PageInsert
<1>2. g \in Memory /\ g.env_pgdir = m.env_pgdir /\ g.pte = m.pte /\ g.panic = m.panic
  BY WalkEffect, Zenon
<1> HIDE DEF g
<1>3. i \in Memory /\ i.env_pgdir = g.env_pgdir /\ i.pte = g.pte /\ i.panic = g.panic
  BY <1>2, IncRefFields, Zenon
<1> HIDE DEF i
<1>4. OneEntry(i, b, e, va)
  BY <1>1, <1>2, <1>3, RemoveEffect, Zenon
<1>5. OneEntry(m, b, e, va)
  BY <1>2, <1>3, <1>4 DEF OneEntry
<1>6. CASE b.panic # "no"
  <2>1. n = b
    BY <1>1, <1>6, Zenon DEF SetPte
  <2> QED BY <1>5, <1>6, <2>1, Zenon
<1>7. CASE b.panic = "no"
  <2>1. /\ n \in Memory /\ n.env_pgdir = b.env_pgdir /\ n.panic = b.panic
        /\ n.pte[e][va] = [page |-> p, w |-> w]
        /\ \A f \in Envs, vb \in VAs : f # e \/ vb # va => n.pte[f][vb] = b.pte[f][vb]
    <3>1. b \in Memory
      BY <1>5, Zenon DEF OneEntry
    <3> QED BY <1>1, <1>7, <3>1, SetPteFields
  <2>2. OneEntry(m, n, e, va)
    BY <1>5, <1>7, <2>1 DEF OneEntry
  <2> QED BY <2>1, <2>2, Zenon
<1> QED BY <1>6, <1>7, Zenon

LEMMA AllocEffect ==
  ASSUME mem \in Memory, NEW e \in Envs, NEW va \in VAs, NEW w \in BOOLEAN,
         SysPageAlloc(e, va, w)
  PROVE  /\ OneEntry(mem, mem', e, va) /\ AllocPage(mem) \in Pages
         /\ mem'.pte[e][va] \in {mem.pte[e][va], [page |-> AllocPage(mem), w |-> w]}
<1> DEFINE p == AllocPage(mem)
           a == PageAlloc(mem)
           v == [page |-> p, w |-> w]
<1>1. /\ mem.panic = "no" /\ Avail(mem)
      /\ mem' \in IF CanWalk(a, e, va) THEN PageInsert(a, e, p, va, w) ELSE {PageFree(a, p)}
  BY Zenon DEF SysPageAlloc, Idle
<1>2. /\ p \in Pages /\ a \in Memory /\ a.env_pgdir = mem.env_pgdir /\ a.pte = mem.pte
      /\ a.panic = "no"
  BY <1>1, AllocFields, Zenon
<1> HIDE DEF a, p
<1>3. CASE CanWalk(a, e, va)
  <2>1. mem' \in PageInsert(a, e, p, va, w)
    BY <1>1, <1>3, Zenon
  <2>2. OneEntry(a, mem', e, va) /\ (mem'.panic = "no" => mem'.pte[e][va] = v)
    BY <1>2, <1>3, <2>1, InsertEffect, ZenonT(30)
  <2> HIDE DEF v
  <2>3. OneEntry(mem, mem', e, va) /\ mem'.pte[e][va] \in {mem.pte[e][va], v}
    BY <1>2, <2>2 DEF OneEntry
  <2> QED BY <1>2, <2>3, Zenon DEF p, v
<1>4. CASE ~CanWalk(a, e, va)
  <2>1. mem' = PageFree(a, p)
    BY <1>1, <1>4, Zenon
  <2>2. mem' \in Memory /\ mem'.env_pgdir = a.env_pgdir /\ mem'.pte = a.pte
    <3>1. a.page_free_list \in Seq(Pages)
      BY <1>2, Zenon DEF Memory
    <3>2. <<p>> \o a.page_free_list \in Seq(Pages)
      BY <1>2, <3>1, PushList, Zenon
    <3> QED BY <1>2, <2>1, <3>2, Zenon DEF PageFree, Memory
  <2>3. OneEntry(mem, mem', e, va) /\ mem'.pte[e][va] = mem.pte[e][va]
    BY <1>2, <2>2, Zenon DEF OneEntry
  <2> QED BY <1>2, <2>3, Zenon DEF p
<1> QED BY <1>3, <1>4, Zenon

LEMMA MapEffect ==
  ASSUME mem \in Memory, NEW s \in Envs, NEW sva \in VAs, NEW d \in Envs, NEW dva \in VAs,
         NEW w \in BOOLEAN, SysPageMap(s, sva, d, dva, w)
  PROVE  /\ OneEntry(mem, mem', d, dva) /\ mem.pte[s][sva] \in Ptes
         /\ \/ mem'.pte[d][dva] = mem.pte[d][dva]
            \/ /\ mem'.pte[d][dva] = [page |-> mem.pte[s][sva].page, w |-> w]
               /\ w => mem.pte[s][sva].w
<1> DEFINE p == mem.pte[s][sva].page
           v == [page |-> p, w |-> w]
<1>1. mem.panic = "no" /\ mem.pte[s][sva] \in Ptes /\ p \in Pages
  <2>1. mem.panic = "no" /\ mem.pte[s][sva] # NULL
    BY Zenon DEF SysPageMap, Idle
  <2>2. mem.pte[s][sva] \in Ptes
    BY <2>1 DEF Memory
  <2> QED BY <2>1, <2>2, Zenon DEF Ptes
<1>2. CASE mem' = Fault(mem)
  BY <1>1, <1>2, FaultFields, Zenon DEF OneEntry
<1>3. CASE CanWalk(mem, d, dva) /\ (w => mem.pte[s][sva].w)
           /\ mem' \in PageInsert(mem, d, p, dva, w)
  <2>0. CanWalk(mem, d, dva) /\ mem' \in PageInsert(mem, d, p, dva, w)
    BY <1>3, Zenon
  <2> HIDE DEF p
  <2>1. OneEntry(mem, mem', d, dva) /\ (mem'.panic = "no" => mem'.pte[d][dva] = v)
    BY <1>1, <2>0, InsertEffect, ZenonT(30)
  <2> HIDE DEF v
  <2>2. mem'.pte[d][dva] = mem.pte[d][dva] \/ mem'.pte[d][dva] = v
    BY <2>1, Zenon DEF OneEntry
  <2> QED BY <1>1, <1>3, <2>1, <2>2, Zenon DEF p, v
<1> QED BY <1>2, <1>3, Zenon DEF SysPageMap

LEMMA SetupEffect ==
  ASSUME mem \in Memory, NEW e \in Envs, EnvSetupVm(e)
  PROVE  /\ mem' \in Memory /\ mem'.pte = mem.pte
         /\ mem'.env_pgdir[e] # NULL
         /\ \A f \in Envs : f # e => mem'.env_pgdir[f] = mem.env_pgdir[f]
<1> DEFINE h == AllocPage(mem)
           a == PageAlloc(mem)
           i == IncRef(a, h)
<1>1. Avail(mem) /\ mem' = [i EXCEPT !.env_pgdir[e] = h]
  BY Zenon DEF EnvSetupVm
<1>2. h \in Pages /\ a \in Memory /\ a.env_pgdir = mem.env_pgdir /\ a.pte = mem.pte
  BY <1>1, AllocFields, Zenon
<1> HIDE DEF h, a
<1>3. i \in Memory /\ i.env_pgdir = a.env_pgdir /\ i.pte = a.pte
  BY <1>2, IncRefFields, Zenon
<1> HIDE DEF i
<1>4. /\ mem' \in Memory /\ mem'.pte = i.pte /\ mem'.env_pgdir[e] = h
      /\ \A f \in Envs : f # e => mem'.env_pgdir[f] = i.env_pgdir[f]
  BY <1>1, <1>2, <1>3, DirFields
<1> QED BY <1>2, <1>3, <1>4, VmAssumption, Zenon

LEMMA TableEffect ==
  ASSUME mem \in Memory, freeing \in Envs \cup {NULL}, NEW t \in Tables, EnvFreeTable(t)
  PROVE  mem' \in Memory /\ mem'.pte = mem.pte /\ mem'.env_pgdir = mem.env_pgdir
<1> DEFINE e == freeing
           q == mem.pde[e][t]
           d == PageDecref(mem, q)
<1>1. e \in Envs /\ q # NULL /\ mem' = ClearTable(d, e, t)
  BY Zenon DEF EnvFreeTable, ClearTable
<1>2. q \in Pages
  BY <1>1 DEF Memory
<1> HIDE DEF q, e
<1>3. d \in Memory /\ d.env_pgdir = mem.env_pgdir /\ d.pte = mem.pte
  BY <1>2, DecrefFields, Zenon
<1> HIDE DEF d
<1>4. mem' \in Memory /\ mem'.env_pgdir = d.env_pgdir /\ mem'.pte = d.pte
  BY <1>1, <1>3, TableFields
<1> QED BY <1>3, <1>4, Zenon

LEMMA DirEffect ==
  ASSUME mem \in Memory, freeing \in Envs \cup {NULL},
         freeing # NULL => mem.env_pgdir[freeing] # NULL, EnvFreeDir
  PROVE  /\ mem' \in Memory /\ mem'.pte = mem.pte
         /\ \A f \in Envs : f # freeing => mem'.env_pgdir[f] = mem.env_pgdir[f]
<1> DEFINE e == freeing
           q == mem.env_pgdir[e]
           d == PageDecref(mem, q)
           v == NULL
<1>1. e \in Envs /\ q # NULL /\ mem' = [d EXCEPT !.env_pgdir[e] = v]
  BY Zenon DEF EnvFreeDir
<1>2. q \in Pages
  BY <1>1, Zenon DEF Memory
<1>3. v \in Pages \cup {NULL}
  BY Zenon
<1> HIDE DEF q, v
<1>4. d \in Memory /\ d.env_pgdir = mem.env_pgdir /\ d.pte = mem.pte
  BY <1>2, DecrefFields, Zenon
<1> HIDE DEF d, e
<1>5. /\ mem' \in Memory /\ mem'.pte = d.pte
      /\ \A f \in Envs : f # e => mem'.env_pgdir[f] = d.env_pgdir[f]
  BY <1>1, <1>3, <1>4, DirFields
<1> QED BY <1>4, <1>5, Zenon DEF e
-----------------------------------------------------------------------------
\* A writable entry for p.
WEntry(v, p) == v # NULL /\ v = [page |-> p, w |-> TRUE]

\* A call that changes one entry makes a page writable only through that entry.
LEMMA NewWritable ==
  ASSUME NEW m, NEW n, NEW e \in Envs, NEW va \in VAs, OneEntry(m, n, e, va),
         NEW p, ~Writable(m, p), Writable(n, p)
  PROVE  n.pte[e][va] # m.pte[e][va] /\ WEntry(n.pte[e][va], p)
<1>1. PICK f \in Envs, vb \in VAs : WEntry(n.pte[f][vb], p)
  BY Zenon DEF Writable, WEntry
<1>2. ~WEntry(m.pte[f][vb], p)
  BY Zenon DEF Writable, WEntry
<1>3. f = e /\ vb = va
  BY <1>1, <1>2, Zenon DEF OneEntry
<1> QED BY <1>1, <1>2, <1>3, Zenon

LEMMA AllocReadOnly ==
  ASSUME Inv, NEW e \in Envs, NEW va \in VAs, NEW w \in BOOLEAN, SysPageAlloc(e, va, w),
         NEW p \in Pages, Refs(mem, p) # {}, ~Writable(mem, p)
  PROVE  ~Writable(mem', p)
<1> SUFFICES ASSUME Writable(mem', p) PROVE FALSE
  BY Zenon
<1>1. mem \in Memory /\ mem.panic = "no" /\ Avail(mem) /\ Good(mem, {})
  BY Zenon DEF Inv, Formed, SysPageAlloc, Idle
<1>2. /\ OneEntry(mem, mem', e, va)
      /\ mem'.pte[e][va] \in {mem.pte[e][va], [page |-> AllocPage(mem), w |-> w]}
  BY <1>1, AllocEffect, Zenon
<1>3. mem'.pte[e][va] # mem.pte[e][va] /\ WEntry(mem'.pte[e][va], p)
  BY <1>2, NewWritable, Zenon
<1>4. AllocPage(mem) = p
  BY <1>2, <1>3 DEF WEntry
<1>6. Refs(mem, p) = {}
  <2>1. In(mem.page_free_list, p)
    <3>1. mem.page_free_list \in Seq(Pages) /\ mem.page_free_list # << >>
      BY <1>1, Zenon DEF Memory, Avail
    <3>2. Once(mem.page_free_list)
      BY <1>1, Zenon DEF Good
    <3> QED BY <1>4, <3>1, <3>2, PopList, Zenon DEF AllocPage
  <2> QED BY <1>1, <2>1, Zenon DEF Good, Listed
<1> QED BY <1>6, Zenon

LEMMA MapReadOnly ==
  ASSUME Inv, NEW s \in Envs, NEW sva \in VAs, NEW d \in Envs, NEW dva \in VAs,
         NEW w \in BOOLEAN, SysPageMap(s, sva, d, dva, w),
         NEW p \in Pages, ~Writable(mem, p)
  PROVE  ~Writable(mem', p)
<1> SUFFICES ASSUME Writable(mem', p) PROVE FALSE
  BY Zenon
<1>1. mem \in Memory
  BY Zenon DEF Inv, Formed
<1>2. /\ OneEntry(mem, mem', d, dva) /\ mem.pte[s][sva] \in Ptes
      /\ \/ mem'.pte[d][dva] = mem.pte[d][dva]
         \/ /\ mem'.pte[d][dva] = [page |-> mem.pte[s][sva].page, w |-> w]
            /\ w => mem.pte[s][sva].w
  BY <1>1, MapEffect
<1>3. mem'.pte[d][dva] # mem.pte[d][dva] /\ WEntry(mem'.pte[d][dva], p)
  BY <1>2, NewWritable, Zenon
<1>4. mem.pte[s][sva].page = p /\ mem.pte[s][sva].w = TRUE
  BY <1>2, <1>3 DEF Ptes, WEntry
<1>5. mem.pte[s][sva] = [page |-> p, w |-> TRUE] /\ mem.pte[s][sva] # NULL
  BY <1>2, <1>4, VmAssumption, Zenon DEF Ptes
<1> QED BY <1>5, Zenon DEF Writable

LEMMA RemoveReadOnly ==
  ASSUME Inv, mem.panic = "no", NEW e \in Envs, NEW va \in VAs,
         mem' \in PageRemove(mem, e, va), NEW p \in Pages, ~Writable(mem, p)
  PROVE  ~Writable(mem', p)
<1>1. mem \in Memory
  BY Zenon DEF Inv, Formed
<1>2. OneEntry(mem, mem', e, va) /\ (mem'.panic = "no" => mem'.pte[e][va] = NULL)
  BY <1>1, RemoveEffect, Zenon
<1>3. mem'.pte[e][va] = NULL \/ mem'.pte[e][va] = mem.pte[e][va]
  BY <1>2, Zenon DEF OneEntry
<1>4. OneEntry(mem, mem', e, va)
  BY <1>2, Zenon
<1>5. ASSUME Writable(mem', p)
      PROVE  mem'.pte[e][va] # mem.pte[e][va] /\ WEntry(mem'.pte[e][va], p)
  BY <1>4, <1>5, NewWritable, Zenon
<1> QED BY <1>3, <1>5, Zenon DEF WEntry

LEMMA ReadOnlyStep ==
  ASSUME Inv, [Next]_vars, NEW p \in Pages, Refs(mem, p) # {}, ~Writable(mem, p)
  PROVE  ~Writable(mem', p)
<1>0. mem \in Memory /\ freeing \in Envs \cup {NULL}
      /\ (freeing # NULL => mem.env_pgdir[freeing] # NULL)
  BY Zenon DEF Inv, Formed
<1>1. ASSUME mem'.pte = mem.pte PROVE ~Writable(mem', p)
  BY <1>1, Zenon DEF Writable
<1>2. CASE UNCHANGED vars
  BY <1>1, <1>2, Zenon DEF vars
<1>3. ASSUME NEW e \in Envs, EnvSetupVm(e) \/ EnvFreeStart(e)
      PROVE  ~Writable(mem', p)
  BY <1>0, <1>1, <1>3, SetupEffect, Zenon DEF EnvFreeStart
<1>4. ASSUME NEW e \in Envs, NEW va \in VAs, SysPageUnmap(e, va)
      PROVE  ~Writable(mem', p)
  BY <1>4, RemoveReadOnly, Zenon DEF SysPageUnmap, Idle
<1>5. ASSUME NEW e \in Envs, NEW va \in VAs, NEW w \in BOOLEAN, SysPageAlloc(e, va, w)
      PROVE  ~Writable(mem', p)
  BY <1>5, AllocReadOnly, Zenon
<1>6. ASSUME NEW s \in Envs, NEW d \in Envs, NEW sva \in VAs, NEW dva \in VAs,
             NEW w \in BOOLEAN, SysPageMap(s, sva, d, dva, w)
      PROVE  ~Writable(mem', p)
  BY <1>6, MapReadOnly, Zenon
<1>7. ASSUME NEW s \in Envs, NEW d \in Envs, NEW sva \in VAs, NEW dva \in VAs,
             IpcSendPage(s, sva, d, dva)
      PROVE  ~Writable(mem', p)
  <2>1. SysPageMap(s, sva, d, dva, TRUE)
    BY <1>7, Zenon DEF IpcSendPage
  <2> DEFINE w == TRUE
  <2>2. w \in BOOLEAN /\ SysPageMap(s, sva, d, dva, w)
    BY <2>1, Zenon
  <2> HIDE DEF w
  <2> QED BY <1>6, <2>2, Zenon
<1>8. ASSUME NEW va \in VAs, EnvFreePage(va)
      PROVE  ~Writable(mem', p)
  <2>1. freeing \in Envs /\ mem.panic = "no" /\ mem' \in PageRemove(mem, freeing, va)
    BY <1>0, <1>8, Zenon DEF EnvFreePage
  <2> QED BY <2>1, RemoveReadOnly, Zenon
<1>9. ASSUME NEW t \in Tables, EnvFreeTable(t)
      PROVE  ~Writable(mem', p)
  BY <1>0, <1>1, <1>9, TableEffect, Zenon
<1>10. CASE EnvFreeDir
  BY <1>0, <1>1, <1>10, DirEffect, Zenon
<1>11. CASE Panicked
  BY <1>1, <1>11, Zenon DEF Panicked, vars
<1> QED BY <1>2, <1>3, <1>4, <1>5, <1>6, <1>7, <1>8, <1>9, <1>10, <1>11, Zenon DEF Next
-----------------------------------------------------------------------------
(* The TLBs. *)

Held == cr3 \in [CPUs -> Envs \cup {NULL}] /\ tlb \in [CPUs -> SUBSET (VAs \X Ptes)]

\* The invariant: it needs no bound on the counts.
TlbInv ==
  /\ mem \in Memory /\ Held
  /\ freeing \in Envs \cup {NULL}
  /\ freeing # NULL => mem.env_pgdir[freeing] # NULL
  /\ \A c \in CPUs : cr3[c] = NULL => tlb[c] = {}
  /\ TlbCoherent

\* Page directories come and go under no CPU, and entries stay.
LEMMA QuietCoherent ==
  ASSUME TlbInv, mem' \in Memory, mem'.pte = mem.pte, UNCHANGED <<cr3, tlb>>,
         freeing' \in Envs \cup {NULL}, freeing' # NULL => mem'.env_pgdir[freeing'] # NULL,
         \A c \in CPUs : cr3[c] # NULL => cr3[c] # freeing' /\ mem'.env_pgdir[cr3[c]] # NULL
  PROVE  TlbInv'
<1>1. \A c \in CPUs : (cr3[c] = NULL => tlb[c] = {})
                      /\ \A x \in tlb[c] : mem.pte[cr3[c]][x[1]] = x[2]
  BY Zenon DEF TlbInv, TlbCoherent
<1>2. Held'
  BY Zenon DEF TlbInv, Held
<1>3. TlbCoherent'
  BY <1>1 DEF TlbCoherent, Alive
<1> QED BY <1>1, <1>2, <1>3, Zenon DEF TlbInv

LEMMA LoadCoherent ==
  ASSUME TlbInv, NEW c \in CPUs, NEW e \in Envs \cup {NULL}, Lcr3(c, e), UNCHANGED mem,
         e # NULL => Alive(e),
         freeing' \in Envs \cup {NULL}, freeing' # NULL => Alive(freeing'),
         \A d \in CPUs : d # c /\ cr3[d] # NULL => cr3[d] # freeing',
         e # NULL => e # freeing'
  PROVE  TlbInv'
<1>1. /\ cr3' \in [CPUs -> Envs \cup {NULL}] /\ tlb' \in [CPUs -> SUBSET (VAs \X Ptes)]
      /\ cr3'[c] = e /\ tlb'[c] = {}
      /\ \A d \in CPUs : d # c => cr3'[d] = cr3[d] /\ tlb'[d] = tlb[d]
  BY Zenon DEF TlbInv, Held, Lcr3
<1>2. \A d \in CPUs : cr3'[d] = NULL => tlb'[d] = {}
  BY <1>1, Zenon DEF TlbInv
<1>3. TlbCoherent'
  <2> SUFFICES ASSUME NEW d \in CPUs
               PROVE  /\ cr3'[d] # NULL => mem'.env_pgdir[cr3'[d]] # NULL /\ cr3'[d] # freeing'
                      /\ \A x \in tlb'[d] : mem'.pte[cr3'[d]][x[1]] = x[2]
    BY Zenon DEF TlbCoherent, Alive
  <2>1. CASE d = c
    BY <1>1, <2>1, Zenon DEF Alive
  <2>2. CASE d # c
    BY <1>1, <2>2 DEF Alive, TlbInv, TlbCoherent
  <2> QED BY <2>1, <2>2, Zenon
<1> QED BY <1>1, <1>2, <1>3, Zenon DEF TlbInv, Held, Alive

\* The entry that changes is out of the TLB of the CPU that changes it, and in
\* no other.
LEMMA FlushCoherent ==
  ASSUME TlbInv, NEW c \in CPUs, NEW e \in Envs, NEW va \in VAs,
         OneEntry(mem, mem', e, va), Flush(c, e, va), UNCHANGED <<freeing, cr3>>,
         \A d \in CPUs \ {c} : cr3[d] # e
  PROVE  TlbInv'
<1>0. mem \in Memory /\ mem' \in Memory /\ mem'.env_pgdir = mem.env_pgdir
  BY Zenon DEF TlbInv, OneEntry
<1>1. /\ tlb' \in [CPUs -> SUBSET (VAs \X Ptes)]
      /\ \A d \in CPUs : tlb'[d] \subseteq tlb[d]
      /\ mem.pte[e][va] # NULL /\ mem'.panic = "no" => \A x \in tlb'[c] : x[1] # va
  <2>1. tlb \in [CPUs -> SUBSET (VAs \X Ptes)]
    BY Zenon DEF TlbInv, Held
  <2>2. CASE mem.pte[e][va] = NULL \/ mem'.panic # "no"
    BY <2>1, <2>2, Zenon DEF Flush
  <2>3. CASE ~(mem.pte[e][va] = NULL \/ mem'.panic # "no")
    <3>1. tlb' = [tlb EXCEPT ![c] = {x \in tlb[c] : x[1] # va}]
      BY <2>3, Zenon DEF Flush
    <3> QED BY <2>1, <3>1, Zenon
  <2> QED BY <2>2, <2>3, Zenon
<1>2. ASSUME NEW d \in CPUs, NEW x \in tlb'[d]
      PROVE  mem'.pte[cr3[d]][x[1]] = x[2]
  <2>1. x \in tlb[d] /\ x \in VAs \X Ptes
    BY <1>1, <1>2, Zenon
  <2>2. cr3[d] \in Envs /\ mem.pte[cr3[d]][x[1]] = x[2]
    BY <2>1 DEF TlbInv, TlbCoherent, Held
  <2>3. x[1] \in VAs /\ x[2] \in Ptes
    BY <2>1, Zenon
  <2>4. CASE cr3[d] # e \/ x[1] # va
    BY <2>2, <2>3, <2>4, Zenon DEF OneEntry
  <2>5. CASE cr3[d] = e /\ x[1] = va
    <3>1. d = c
      BY <2>5, Zenon
    <3>2. mem.pte[e][va] # NULL
      BY <2>2, <2>3, <2>5, VmAssumption, Zenon
    <3>3. mem'.panic # "no"
      BY <1>1, <1>2, <2>5, <3>1, <3>2, Zenon
    <3> QED BY <2>2, <2>5, <3>3, Zenon DEF OneEntry
  <2> QED BY <2>4, <2>5, Zenon
<1>3. \A d \in CPUs : cr3[d] = NULL => tlb'[d] = {}
  BY <1>1, Zenon DEF TlbInv
<1>4. TlbCoherent'
  <2>1. \A d \in CPUs : cr3[d] # NULL => mem'.env_pgdir[cr3[d]] # NULL /\ cr3[d] # freeing
    BY <1>0, Zenon DEF TlbInv, TlbCoherent, Alive
  <2> QED BY <1>2, <2>1, Zenon DEF TlbCoherent, Alive
<1> QED BY <1>0, <1>1, <1>3, <1>4, Zenon DEF TlbInv, Held

LEMMA AccessCoherent ==
  ASSUME TlbInv, NEW c \in CPUs, NEW va \in VAs, Access(c, va)
  PROVE  TlbInv'
<1> DEFINE x == <<va, mem.pte[cr3[c]][va]>>
<1>1. /\ cr3[c] # NULL /\ mem.pte[cr3[c]][va] # NULL /\ UNCHANGED <<mem, freeing, cr3>>
      /\ tlb' = [tlb EXCEPT ![c] = tlb[c] \cup {x}]
  BY Zenon DEF Access
<1>2. cr3[c] \in Envs /\ x \in VAs \X Ptes
  BY <1>1 DEF TlbInv, Held, Memory
<1>3. x[1] = va /\ x[2] = mem.pte[cr3[c]][va]
  BY Zenon
<1> HIDE DEF x
<1>4. /\ tlb' \in [CPUs -> SUBSET (VAs \X Ptes)]
      /\ tlb'[c] = tlb[c] \cup {x} /\ \A d \in CPUs : d # c => tlb'[d] = tlb[d]
  BY <1>1, <1>2, Zenon DEF TlbInv, Held
<1>5. ASSUME NEW d \in CPUs, NEW y \in tlb'[d]
      PROVE  mem.pte[cr3[d]][y[1]] = y[2]
  <2>1. CASE y \in tlb[d]
    BY <2>1, Zenon DEF TlbInv, TlbCoherent
  <2>2. CASE d = c /\ y = x
    BY <1>3, <2>2, Zenon
  <2> QED BY <1>4, <1>5, <2>1, <2>2, Zenon
<1>6. TlbCoherent'
  BY <1>1, <1>5 DEF TlbInv, TlbCoherent, Alive
<1>7. \A d \in CPUs : cr3[d] = NULL => tlb'[d] = {}
  BY <1>1, <1>4, Zenon DEF TlbInv
<1> QED BY <1>1, <1>4, <1>6, <1>7, Zenon DEF TlbInv, Held

LEMMA PageCallCoherent ==
  ASSUME TlbInv, NEW c \in CPUs, NEW e \in Envs, PageCall(c, e),
         \A d \in CPUs \ {c} : cr3[d] # e
  PROVE  TlbInv'
<1>0. mem \in Memory
  BY Zenon DEF TlbInv
<1>1. PICK va \in VAs :
        /\ \/ \E w \in BOOLEAN : SysPageAlloc(e, va, w)
           \/ \E s \in Envs, sva \in VAs, w \in BOOLEAN : SysPageMap(s, sva, e, va, w)
           \/ \E s \in Envs, sva \in VAs : IpcSendPage(s, sva, e, va)
           \/ SysPageUnmap(e, va)
        /\ Flush(c, e, va) /\ UNCHANGED cr3
  BY Zenon DEF PageCall
<1>2. ASSUME NEW w \in BOOLEAN, SysPageAlloc(e, va, w)
      PROVE  OneEntry(mem, mem', e, va) /\ UNCHANGED freeing
  BY <1>0, <1>2, AllocEffect, Zenon DEF SysPageAlloc
<1>3. ASSUME NEW s \in Envs, NEW sva \in VAs, NEW w \in BOOLEAN, SysPageMap(s, sva, e, va, w)
      PROVE  OneEntry(mem, mem', e, va) /\ UNCHANGED freeing
  BY <1>0, <1>3, MapEffect, Zenon DEF SysPageMap
<1>4. ASSUME NEW s \in Envs, NEW sva \in VAs, IpcSendPage(s, sva, e, va)
      PROVE  OneEntry(mem, mem', e, va) /\ UNCHANGED freeing
  <2> DEFINE w == TRUE
  <2>1. w \in BOOLEAN /\ SysPageMap(s, sva, e, va, w)
    BY <1>4, Zenon DEF IpcSendPage
  <2> HIDE DEF w
  <2> QED BY <1>3, <2>1, Zenon
<1>5. ASSUME SysPageUnmap(e, va)
      PROVE  OneEntry(mem, mem', e, va) /\ UNCHANGED freeing
  BY <1>0, <1>5, RemoveEffect, Zenon DEF SysPageUnmap, Idle
<1>6. OneEntry(mem, mem', e, va) /\ UNCHANGED freeing
  BY <1>1, <1>2, <1>3, <1>4, <1>5, Zenon
<1> QED BY <1>1, <1>6, FlushCoherent, Zenon

LEMMA FreeTurnCoherent ==
  ASSUME TlbInv, NEW c \in CPUs, EnvFreeTurn(c)
  PROVE  TlbInv'
<1>0. /\ mem \in Memory /\ freeing \in Envs \cup {NULL}
      /\ freeing # NULL => mem.env_pgdir[freeing] # NULL
      /\ \A d \in CPUs : cr3[d] # NULL =>
           cr3[d] \in Envs /\ mem.env_pgdir[cr3[d]] # NULL /\ cr3[d] # freeing
  BY Zenon DEF TlbInv, TlbCoherent, Held, Alive
<1>1. ASSUME NEW va \in VAs, EnvFreePage(va), Flush(c, freeing, va), UNCHANGED cr3
      PROVE  TlbInv'
  <2>1. /\ freeing \in Envs /\ mem.panic = "no" /\ UNCHANGED freeing
        /\ mem' \in PageRemove(mem, freeing, va)
    BY <1>0, <1>1, Zenon DEF EnvFreePage
  <2>2. OneEntry(mem, mem', freeing, va)
    BY <1>0, <2>1, RemoveEffect, Zenon
  <2>3. \A d \in CPUs \ {c} : cr3[d] # freeing
    BY <1>0, <2>1, VmAssumption, Zenon
  <2> QED BY <1>1, <2>1, <2>2, <2>3, FlushCoherent, Zenon
<1>2. ASSUME NEW t \in Tables, EnvFreeTable(t), UNCHANGED <<cr3, tlb>>
      PROVE  TlbInv'
  <2>1. mem' \in Memory /\ mem'.pte = mem.pte /\ mem'.env_pgdir = mem.env_pgdir
    BY <1>0, <1>2, TableEffect, Zenon
  <2>2. UNCHANGED freeing
    BY <1>2, Zenon DEF EnvFreeTable
  <2> QED BY <1>0, <1>2, <2>1, <2>2, QuietCoherent
<1>3. ASSUME EnvFreeDir, UNCHANGED <<cr3, tlb>>
      PROVE  TlbInv'
  <2>1. /\ mem' \in Memory /\ mem'.pte = mem.pte
        /\ \A f \in Envs : f # freeing => mem'.env_pgdir[f] = mem.env_pgdir[f]
    BY <1>0, <1>3, DirEffect, Zenon
  <2>2. freeing' = NULL
    BY <1>3, Zenon DEF EnvFreeDir
  <2> QED BY <1>0, <1>3, <2>1, <2>2, QuietCoherent, Zenon
<1> QED BY <1>1, <1>2, <1>3, Zenon DEF EnvFreeTurn

LEMMA TlbNextInv == TlbInv /\ [LibNext]_tlbVars => TlbInv'
<1> SUFFICES ASSUME TlbInv, [LibNext]_tlbVars PROVE TlbInv'
  BY Zenon
<1>0. /\ mem \in Memory /\ freeing \in Envs \cup {NULL}
      /\ freeing # NULL => mem.env_pgdir[freeing] # NULL
      /\ \A d \in CPUs : cr3[d] # NULL =>
           cr3[d] \in Envs /\ mem.env_pgdir[cr3[d]] # NULL /\ cr3[d] # freeing
  BY Zenon DEF TlbInv, TlbCoherent, Held, Alive
<1>1. ASSUME UNCHANGED tlbVars PROVE TlbInv'
  BY <1>0, <1>1, QuietCoherent, Zenon DEF tlbVars
<1>2. ASSUME NEW e \in Envs, EnvSetupVm(e), UNCHANGED <<cr3, tlb>>
      PROVE  TlbInv'
  <2>1. /\ mem' \in Memory /\ mem'.pte = mem.pte /\ mem'.env_pgdir[e] # NULL
        /\ \A f \in Envs : f # e => mem'.env_pgdir[f] = mem.env_pgdir[f]
    BY <1>0, <1>2, SetupEffect, Zenon
  <2>2. UNCHANGED freeing
    BY <1>2, Zenon DEF EnvSetupVm
  <2> QED BY <1>0, <1>2, <2>1, <2>2, QuietCoherent, Zenon
<1>3. ASSUME NEW c \in CPUs, SchedHalt(c)
      PROVE  TlbInv'
  <2> DEFINE v == NULL
  <2>1. /\ v \in Envs \cup {NULL} /\ v = NULL /\ Lcr3(c, v) /\ UNCHANGED <<mem, freeing>>
        /\ freeing = NULL
    BY <1>3, Zenon DEF SchedHalt, vars, Idle
  <2> HIDE DEF v
  <2> QED BY <2>1, LoadCoherent, Zenon
<1>4. ASSUME NEW c \in CPUs, NEW e \in Envs, EnvRun(c, e)
      PROVE  TlbInv'
  <2>1. Lcr3(c, e) /\ UNCHANGED <<mem, freeing>> /\ freeing = NULL /\ Alive(e)
    BY <1>4, Zenon DEF EnvRun, vars, Idle
  <2> QED BY <2>1, LoadCoherent, Zenon
<1>5. ASSUME NEW c \in CPUs, NEW e \in Envs, EnvFreeOn(c, e)
      PROVE  TlbInv'
  <2>1. /\ \A d \in CPUs \ {c} : cr3[d] # e
        /\ freeing' = e /\ UNCHANGED mem /\ Alive(e)
    BY <1>5, Zenon DEF EnvFreeOn, EnvFreeStart
  <2>2. CASE cr3[c] = e
    <3> DEFINE v == NULL
    <3>1. v \in Envs \cup {NULL} /\ v = NULL /\ Lcr3(c, v)
      BY <1>5, <2>2, Zenon DEF EnvFreeOn
    <3> HIDE DEF v
    <3> QED BY <2>1, <3>1, LoadCoherent, Zenon
  <2>3. CASE cr3[c] # e
    <3>1. UNCHANGED <<cr3, tlb>>
      BY <1>5, <2>3, Zenon DEF EnvFreeOn
    <3> QED BY <1>0, <2>1, <2>3, <3>1, QuietCoherent, Zenon DEF Alive
  <2> QED BY <2>2, <2>3, Zenon
<1>6. CASE Common
  <2>1. ASSUME Panicked, UNCHANGED <<cr3, tlb>> PROVE TlbInv'
    BY <1>1, <2>1, Zenon DEF Panicked, vars, tlbVars
  <2> QED BY <1>2, <1>3, <1>4, <1>5, <1>6, <2>1, FreeTurnCoherent, AccessCoherent, Zenon DEF Common
<1>7. ASSUME NEW c \in CPUs, NEW e \in Envs, \A d \in CPUs \ {c} : cr3[d] # e, PageCall(c, e)
      PROVE  TlbInv'
  BY <1>7, PageCallCoherent, Zenon
<1> QED BY <1>1, <1>6, <1>7, Zenon DEF LibNext
-----------------------------------------------------------------------------
(* The initial states, the facts about finite sets that the counting needs, and *)
(* the conclusions. *)

INSTANCE FiniteSetTheorems

LEMMA PlacesFinite == IsFiniteSet(Places)
<1>1. IsFiniteSet(VAs)
  BY VmAssumption, FS_Product, Zenon DEF VAs
<1> DEFINE A == {"env_pgdir"} \X Envs
           B == {"pde"} \X Envs \X Tables
           C == {"pte"} \X Envs \X VAs
           D == Envs \X VAs
<1>2. \A s : IsFiniteSet({s})
  BY FS_Singleton, Zenon
<1>3. IsFiniteSet(A)
  BY <1>2, VmAssumption, FS_Product, Zenon
<1>4. ASSUME NEW s, NEW R, IsFiniteSet(R)
      PROVE  IsFiniteSet({s} \X Envs \X R)
  <2> DEFINE E == {s} \X Envs
             F == {s} \X Envs \X R
             f == [z \in E \X R |-> <<z[1][1], z[1][2], z[2]>>]
  <2>1. IsFiniteSet(E \X R)
    BY <1>2, <1>4, VmAssumption, FS_Product, Zenon
  <2>2. f \in [E \X R -> F]
    BY Zenon
  <2>3. ASSUME NEW y \in F
        PROVE  \E z \in E \X R : f[z] = y
    <3>1. y = <<y[1], y[2], y[3]>> /\ y[1] = s /\ y[2] \in Envs /\ y[3] \in R
      OBVIOUS
    <3>2. <<y[1], y[2]>> \in E
      BY <3>1, Zenon
    <3>3. <<<<y[1], y[2]>>, y[3]>> \in E \X R
      BY <3>1, <3>2, Zenon
    <3>4. f[<<<<y[1], y[2]>>, y[3]>>] = y
      BY <3>1, <3>3, Zenon
    <3> QED BY <3>3, <3>4, Zenon
  <2>4. f \in Surjection(E \X R, F)
    BY <2>2, <2>3, <2>1, Zenon DEF Surjection
  <2> QED BY <2>1, <2>4, FS_Surjection, Zenon
<1>5. IsFiniteSet(B) /\ IsFiniteSet(C)
  BY <1>1, <1>4, VmAssumption, Zenon
<1>6. IsFiniteSet(A \cup B \cup C)
  BY <1>3, <1>5, FS_Union, Zenon
<1> QED BY <1>6, Zenon DEF Places

LEMMA Counting == CountLaws
<1> SUFFICES ASSUME NEW S \in SUBSET Places
             PROVE  /\ Cardinality(S) \in Nat /\ (Cardinality(S) = 0 <=> S = {})
                    /\ \A x \in Places \ S : Cardinality(S \cup {x}) = Cardinality(S) + 1
                    /\ \A x \in S : Cardinality(S \ {x}) = Cardinality(S) - 1
  BY Zenon DEF CountLaws
<1>1. IsFiniteSet(S)
  BY PlacesFinite, FS_Subset, Zenon
<1>2. Cardinality(S) \in Nat /\ (Cardinality(S) = 0 <=> S = {})
  BY <1>1, FS_CardinalityType, FS_EmptySet, Zenon
<1>3. \A x \in Places \ S : Cardinality(S \cup {x}) = Cardinality(S) + 1
  BY <1>1, FS_AddElement, Zenon
<1>4. \A x \in S : Cardinality(S \ {x}) = Cardinality(S) - 1
  BY <1>1, FS_RemoveElement, Zenon
<1> QED BY <1>2, <1>3, <1>4, Zenon

LEMMA InitInv == Init => Inv
<1> SUFFICES ASSUME Init PROVE Inv
  BY Zenon
<1> DEFINE L == mem.page_free_list
           N == Cardinality(Pages)
<1>1. N \in Nat /\ IsFiniteSet(1 .. N) /\ Cardinality(1 .. N) = N
  <2>1. N \in Nat
    BY VmAssumption, FS_CardinalityType, Zenon
  <2> HIDE DEF N
  <2> QED BY <2>1, FS_Interval
<1>2. /\ L \in [1 .. N -> Pages] /\ \A p \in Pages : \E i \in DOMAIN L : L[i] = p
      /\ mem.pp_ref = [p \in Pages |-> 0] /\ mem.panic = "no"
      /\ mem.env_pgdir = [e \in Envs |-> NULL]
      /\ mem.pde = [e \in Envs |-> [t \in Tables |-> NULL]]
      /\ mem.pdew = [e \in Envs |-> [t \in Tables |-> FALSE]]
      /\ mem.pte = [e \in Envs |-> [va \in VAs |-> NULL]]
      /\ mem = [pp_ref |-> mem.pp_ref, page_free_list |-> L, env_pgdir |-> mem.env_pgdir,
                pde |-> mem.pde, pdew |-> mem.pdew, pte |-> mem.pte, panic |-> mem.panic]
      /\ freeing = NULL
  BY Zenon DEF Init
<1> HIDE DEF L, N
<1>3. L \in Seq(Pages) /\ DOMAIN L = 1 .. N
  BY <1>1, <1>2
<1>4. Once(L)
  <2>1. L \in Surjection(1 .. N, Pages)
    BY <1>2, <1>3, <1>1, Zenon DEF Surjection
  <2>2. L \in Injection(1 .. N, Pages)
    BY <1>1, <2>1, FS_SurjSameCardinalityImpliesInj, Zenon DEF N
  <2> QED BY <1>3, <2>2, Zenon DEF Injection, IsInjective, Once
<1>5. mem \in Memory
  <2>1. mem.pp_ref \in [Pages -> 0 .. RefMod - 1]
    BY <1>2, VmAssumption
  <2>2. mem.env_pgdir \in [Envs -> Pages \cup {NULL}]
    BY <1>2, Zenon
  <2>3. mem.pde \in [Envs -> [Tables -> Pages \cup {NULL}]]
    BY <1>2
  <2>4. mem.pdew \in [Envs -> [Tables -> BOOLEAN]]
    BY <1>2
  <2>5. mem.pte \in [Envs -> [VAs -> Ptes \cup {NULL}]]
    BY <1>2
  <2>6. mem.panic \in {"no", "page_free", "fault"}
    BY <1>2, Zenon
  <2>7. mem = [pp_ref |-> mem.pp_ref, page_free_list |-> L, env_pgdir |-> mem.env_pgdir,
               pde |-> mem.pde, pdew |-> mem.pdew, pte |-> mem.pte, panic |-> mem.panic]
    BY <1>2, Zenon
  <2> QED BY <1>3, <2>1, <2>2, <2>3, <2>4, <2>5, <2>6, <2>7 DEF Memory
<1>6. \A x \in Places : Target(mem, x) = NULL
  <2> SUFFICES ASSUME NEW x \in Places PROVE Target(mem, x) = NULL
    BY Zenon
  <2>1. CASE x \in {"env_pgdir"} \X Envs
    BY <1>2, <2>1 DEF Target
  <2>2. CASE x \in {"pde"} \X Envs \X Tables
    BY <1>2, <2>2 DEF Target
  <2>3. CASE x \in {"pte"} \X Envs \X VAs
    BY <1>2, <2>3 DEF Target
  <2> QED BY <2>1, <2>2, <2>3, Zenon DEF Places
<1>7. \A p \in Pages : Refs(mem, p) = {}
  BY <1>6, VmAssumption, Zenon DEF Refs
<1>8. Formed(mem)
  BY <1>2, <1>5 DEF Formed, VAs
<1>9. Listed(mem, {})
  BY <1>2, <1>7, Zenon DEF Listed, In, L
<1>10. Counted(mem)
  <2>1. Cardinality({}) = 0
    BY FS_EmptySet, Zenon
  <2>2. \A p \in Pages : mem.pp_ref[p] = 0
    BY <1>2, Zenon
  <2> QED BY <1>7, <2>1, <2>2, Zenon DEF Counted
<1>11. Private(mem)
  BY <1>7, Zenon DEF Private
<1> QED BY <1>2, <1>4, <1>8, <1>9, <1>10, <1>11, Zenon DEF Inv, Good, L

LEMMA TlbInitInv == TlbInit => TlbInv
<1> SUFFICES ASSUME TlbInit PROVE TlbInv
  BY Zenon
<1>1. Formed(mem) /\ freeing = NULL
  BY InitInv, Zenon DEF TlbInit, Inv, Init
<1>2. \A c \in CPUs : cr3[c] = NULL /\ tlb[c] = {}
  BY Zenon DEF TlbInit
<1>3. Held
  BY Zenon DEF TlbInit, Held
<1> QED BY <1>1, <1>2, <1>3, Zenon DEF TlbInv, TlbCoherent, Formed

-----------------------------------------------------------------------------
(* The theorems. *)

LEMMA LibInv == LibSpec /\ []NoWrap => []Inv
<1>1. TlbInit => Inv
  BY InitInv, Zenon DEF TlbInit
<1>2. Inv /\ NoWrap' /\ [LibNext]_tlbVars => Inv'
  BY LibIsVm, NextInv, Counting, Zenon
<1> QED BY <1>1, <1>2, PTL DEF LibSpec

\* pp_ref of every page is the number of pointers to it, whatever the
\* environments do with sys_page_alloc, sys_page_map, sys_page_unmap and IPC and
\* however they end, as long as no count wraps.
THEOREM CountsExact == LibSpec /\ []NoWrap => []RefCountsExact
<1>1. Inv => RefCountsExact
  BY Zenon DEF Inv, Good, Counted, RefCountsExact
<1> QED BY <1>1, LibInv, PTL

\* Under the same condition the free list holds exactly the pages that nothing
\* points to, each once, and page_free() does not panic.
THEOREM FreeListExact == LibSpec /\ []NoWrap => []FreePagesExact
<1>1. Inv => FreePagesExact
  BY Zenon DEF Inv, Good, Listed, In, Once, FreePagesExact
<1> QED BY <1>1, LibInv, PTL

\* Under the same condition a page directory or a page table has exactly one
\* pointer to it, and so is mapped by no environment.
THEOREM TablesArePrivate == LibSpec /\ []NoWrap => []TablesPrivate
<1>1. ASSUME Inv, NEW p \in Pages, NEW x \in Refs(mem, p), x[1] # "pte"
      PROVE  Cardinality(Refs(mem, p)) = 1
  <2>1. Refs(mem, p) = {x}
    BY <1>1, Zenon DEF Inv, Private
  <2> QED BY <2>1, FS_Singleton, Zenon
<1>2. Inv => TablesPrivate
  BY <1>1, Zenon DEF TablesPrivate
<1> QED BY <1>2, LibInv, PTL

\* Under the same condition no step gives write permission to a page in use
\* that nobody may write: what sys_page_map() checks against the caller's entry
\* is enough.
THEOREM ReadOnlyKept == LibSpec /\ []NoWrap => ReadOnlyStays
<1> DEFINE A == \A p \in Pages :
                  Refs(mem, p) # {} /\ ~Writable(mem, p) => ~Writable(mem', p)
<1>1. Inv /\ [LibNext]_tlbVars => [A]_vars
  BY LibIsVm, ReadOnlyStep, Zenon
<1>2. LibSpec /\ []NoWrap => [][A]_vars
  BY <1>1, LibInv, PTL DEF LibSpec
<1> QED BY <1>2, Zenon DEF ReadOnlyStays

\* No CPU keeps a translation that the page tables no longer have, although
\* tlb_invalidate() acts on one CPU only, as long as an address space that
\* another CPU has loaded is not changed.
THEOREM TlbsCoherent == LibSpec => []TlbCoherent
<1>1. TlbInv => TlbCoherent
  BY Zenon DEF TlbInv
<1> QED BY <1>1, TlbInitInv, TlbNextInv, PTL DEF LibSpec
=============================================================================
