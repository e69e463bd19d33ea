-------------------------- MODULE SetupRate_proofs --------------------------
(***************************************************************************)
(* The safety properties of measure_setup_rate.py, for SetupRate.          *)
(*                                                                         *)
(* First the mode that is a MeasureSetupRate, for any number of leaves and *)
(* of runs, with any ranges, whatever fails and wherever a run is cut      *)
(* short.                                                                  *)
(*                                                                         *)
(* Then the single-homed mode, for every number of ports and VLANs and all *)
(* times that satisfy the assumption on them: the polls of the tool        *)
(* neither stop early nor go on for ever, and the times they report are    *)
(* those of the leaves.  Two leaves that take their time and a tool that   *)
(* reads them one port after the other have no common state to relate them *)
(* but the clock: the invariant bounds, for every place the tool can be    *)
(* at, how long ago what it has not seen yet can have happened.            *)
(***************************************************************************)
EXTENDS SetupRate, FiniteSetTheorems, TLAPS
-----------------------------------------------------------------------------
(* The multi-homing mode.                                                  *)

Loops  == {"checkactive", "checksubif", "prewarm", "poll", "clear", "teardown"}
Places == Loops \cup {"trigger", "clients"} \cup Stopped

\* A loop goes through the leaves in their order: what is left of them.
IsRest(s) ==
  /\ s \in Seq(Leaf) /\ Len(s) \in 1..Len(Order)
  /\ \A n \in 1..Len(s) : s[n] = Order[(Len(Order) - Len(s)) + n]

Elems(s) == {s[n] : n \in 1..Len(s)}
Left     == Elems(todo)
Visited  == Len(Order) - Len(todo)

TodoInv == pc \in Places /\ IsRest(todo) /\ (pc \notin Loops => todo = Order)

\* Routes lead from a leaf to another one; --vlans is a finite range.
DataInv ==
  /\ bind \in [Leaf -> SUBSET Vlan]
  /\ routes \subseteq Leaf \X Leaf \X Vlan
  /\ IsFiniteSet(range)

\* The handler answers to what is active, unless an event says it changed; it
\* has nothing left on a leaf where nothing is active, unless it is due.
HandlerInv ==
  \A l \in Leaf :
    /\ ~running[l] => snap[l] = {}
    /\ running[l] /\ ~event[l] => snap[l] = active[l]
    /\ ~running[l] /\ ~event[l] /\ active[l] = {} => sub[l] = {}

\* From the cold check to the trigger of a sound run, on leaf l: nothing brings
\* a VLAN of the range in, what is active of it is configured, and the handler
\* run on its way does not add to it; what was checked is cold.
ColdLeaf(l) ==
  /\ active[l] \cap range \subseteq sub[l]
  /\ running[l] => /\ snap[l] \cap range \subseteq sub[l]
                   /\ active[l] \cap range \subseteq snap[l]
  /\ pc # "checkactive" \/ l \notin Left => active[l] \cap range = {}
  /\ pc \in {"prewarm", "trigger"} \/ (pc = "checksubif" /\ l \notin Left) =>
       sub[l] \cap range = {}

ColdInv ==
  pc \in {"checkactive", "checksubif", "prewarm", "trigger"} /\ memory.sound =>
    /\ client \cap range = {}
    /\ \A r \in routes : r[3] \notin range
    /\ \A l \in Leaf : ColdLeaf(l)

\* The MAC-VRFs of the range are there where the pre-warm has gone through, and
\* on every leaf until they are torn down.
WarmLeaf(l) ==
  (\/ pc \in {"trigger", "poll", "clients", "clear"}
   \/ pc = "prewarm" /\ l \notin Left \cup memory.failed)
  => range \subseteq ni[l]

WarmInv == \A l \in Leaf : WarmLeaf(l)

\* While a sound run measures, what is configured of the range stays active and
\* wanted, so that it stays bound: that is why reading leaf after leaf is enough.
StableLeaf(l) ==
  /\ sub[l] \cap range \subseteq active[l]
  /\ running[l] => /\ sub[l] \cap range \subseteq snap[l]
                   /\ snap[l] \cap range \subseteq active[l]

StableInv ==
  pc \in {"poll", "clients"} /\ memory.sound => \A l \in Leaf : StableLeaf(l)

\* The count of a round reaches what was visited times the range only if all of
\* it was read.
CountInv ==
  /\ pc # "poll" => memory.seen = 0
  /\ pc = "poll" /\ memory.sound =>
       /\ memory.seen <= Cardinality(range) * Visited
       /\ memory.seen = Cardinality(range) * Visited =>
            \A l \in Leaf \ Left : range \subseteq bind[l]

\* What the clearing has not cleared, or came back, is on record.
UnclearedLeaf(l) ==
  pc \in {"teardown", "done"} \/ (pc = "clear" /\ l \notin Left) =>
    \A v \in active[l] \cap range : <<l, v>> \in uncleared

UnclearedInv ==
  /\ pc = "clear" => \A p \in uncleared : p[1] \notin Left
  /\ pc \in {"checkactive", "checksubif", "prewarm", "trigger", "poll", "clients"} => uncleared = {}
  /\ \A l \in Leaf : UnclearedLeaf(l)

\* The inductive invariant.
MhInv ==
  /\ TypeOK /\ DataInv /\ TodoInv /\ HandlerInv
  /\ ColdInv /\ WarmInv /\ StableInv /\ CountInv /\ CompleteIsTrue /\ UnclearedInv
-----------------------------------------------------------------------------
(* Going through the leaves.                                               *)

\* The loops visit all leaves.
LEMMA OrderFacts == IsRest(Order) /\ Elems(Order) = Leaf /\ Leaf # {}
<1>1. IsRest(Order)
  BY MeasureAssumption DEF IsRest
<1>2. Elems(Order) = Leaf
  BY DEF Elems, Leaf
<1>3. Order[1] \in Leaf
  BY MeasureAssumption DEF Leaf
<1> QED
  BY <1>1, <1>2, <1>3

\* A visit takes the first leaf of the rest; no leaf is visited twice.
LEMMA RestFacts ==
  ASSUME NEW s, IsRest(s)
  PROVE  /\ Head(s) \in Elems(s) /\ Elems(s) \subseteq Leaf
         /\ Len(s) > 1 => /\ IsRest(Tail(s))
                          /\ Len(Tail(s)) = Len(s) - 1
                          /\ Elems(Tail(s)) = Elems(s) \ {Head(s)}
         /\ ~(Len(s) > 1) => Len(s) = 1 /\ Elems(s) = {Head(s)}
<1>1. /\ s \in Seq(Leaf) /\ Len(s) \in Nat /\ Len(s) >= 1 /\ Len(s) <= Len(Order)
      /\ Len(Order) \in Nat /\ Head(s) = s[1]
      /\ \A n \in 1..Len(s) : s[n] = Order[(Len(Order) - Len(s)) + n]
  BY MeasureAssumption DEF IsRest
<1>2. Head(s) \in Elems(s) /\ Elems(s) \subseteq Leaf
  BY <1>1 DEF Elems
<1>3. ASSUME Len(s) > 1
      PROVE  /\ IsRest(Tail(s))
             /\ Len(Tail(s)) = Len(s) - 1
             /\ Elems(Tail(s)) = Elems(s) \ {Head(s)}
  <2>1. /\ Tail(s) \in Seq(Leaf) /\ Len(Tail(s)) = Len(s) - 1
        /\ \A n \in 1..(Len(s) - 1) : Tail(s)[n] = s[n + 1]
    BY <1>1, <1>3
  <2>2. IsRest(Tail(s))
    <3>1. \A n \in 1..(Len(s) - 1) : Tail(s)[n] = Order[(Len(Order) - (Len(s) - 1)) + n]
      <4> TAKE n \in 1..(Len(s) - 1)
      <4>1. n + 1 \in 1..Len(s) /\ Tail(s)[n] = s[n + 1]
        BY <1>1, <2>1
      <4>2. (Len(Order) - Len(s)) + (n + 1) = (Len(Order) - (Len(s) - 1)) + n
        BY <1>1
      <4> QED
        BY <1>1, <4>1, <4>2
    <3> QED
      BY <1>1, <1>3, <2>1, <3>1 DEF IsRest
  <2>3. \A n \in 1..Len(s) : s[n] = s[1] => n = 1
    <3> SUFFICES ASSUME NEW n \in 1..Len(s), s[n] = s[1] PROVE n = 1
      OBVIOUS
    <3>1. Order[(Len(Order) - Len(s)) + n] = Order[(Len(Order) - Len(s)) + 1]
      BY <1>1
    <3>2. /\ (Len(Order) - Len(s)) + n \in 1..Len(Order)
          /\ (Len(Order) - Len(s)) + 1 \in 1..Len(Order)
      BY <1>1
    <3>3. (Len(Order) - Len(s)) + n = (Len(Order) - Len(s)) + 1
      BY <3>1, <3>2, MeasureAssumption
    <3> QED
      BY <1>1, <3>3
  <2>4. Elems(Tail(s)) \subseteq Elems(s) \ {Head(s)}
    <3> SUFFICES ASSUME NEW n \in 1..(Len(s) - 1)
                 PROVE  Tail(s)[n] \in Elems(s) \ {Head(s)}
      BY <2>1 DEF Elems
    <3>1. Tail(s)[n] = s[n + 1] /\ n + 1 \in 1..Len(s) /\ n + 1 # 1
      BY <1>1, <2>1
    <3> QED
      BY <1>1, <2>3, <3>1 DEF Elems
  <2>5. Elems(s) \ {Head(s)} \subseteq Elems(Tail(s))
    <3> SUFFICES ASSUME NEW n \in 1..Len(s), s[n] # s[1]
                 PROVE  s[n] \in Elems(Tail(s))
      BY <1>1 DEF Elems
    <3>1. n - 1 \in 1..(Len(s) - 1) /\ (n - 1) + 1 = n
      BY <1>1
    <3>2. Tail(s)[n - 1] = s[n]
      BY <2>1, <3>1
    <3> QED
      BY <2>1, <3>1, <3>2 DEF Elems
  <2> QED
    BY <2>1, <2>2, <2>4, <2>5
<1>4. ASSUME ~(Len(s) > 1) PROVE Len(s) = 1 /\ Elems(s) = {Head(s)}
  <2>1. \A n \in Nat : n >= 1 /\ ~(n > 1) => n = 1
    OBVIOUS
  <2>2. Len(s) = 1
    BY <1>1, <1>4, <2>1
  <2> QED
    BY <1>1, <2>2 DEF Elems
<1> QED
  BY <1>2, <1>3, <1>4
-----------------------------------------------------------------------------
(* The initial state.                                                      *)

\* Before the first run the invariant holds.
LEMMA InitMhInv == RateInit => MhInv
<1> SUFFICES ASSUME RateInit PROVE MhInv
  OBVIOUS
<1> USE DEF RateInit, Init, EachLeaf, Blank
<1>1. TypeOK
  <2>1. memory \in Memory
    BY DEF Memory
  <2>2. runs \in 0..Len(Ranges)
    BY MeasureAssumption
  <2> QED
    BY <2>1, <2>2 DEF TypeOK
<1>2. DataInv
  BY FS_EmptySet DEF DataInv
<1>3. TodoInv
  BY OrderFacts DEF TodoInv, Places, Loops, Stopped
<1>4. HandlerInv /\ ColdInv /\ WarmInv /\ StableInv /\ CountInv /\ CompleteIsTrue
  BY DEF HandlerInv, ColdInv, WarmInv, WarmLeaf, StableInv, CountInv, CompleteIsTrue
<1>5. UnclearedInv
  BY DEF UnclearedInv, UnclearedLeaf
<1> QED
  BY <1>1, <1>2, <1>3, <1>4, <1>5 DEF MhInv
-----------------------------------------------------------------------------
(* The leaves' steps.                                                      *)

\* A leaf passes the clearing when the loop has visited it.
LEMMA ClearedFacts ==
  ASSUME NEW l
  PROVE  Cleared(l) <=> pc \in {"teardown", "done"} \/ (pc = "clear" /\ l \notin Left)
BY DEF Cleared, Left, Elems

\* A VLAN becomes active, because of a frame or of a route.
LEMMA ActivateStep ==
  ASSUME MhInv, NEW l \in Leaf, NEW v \in Vlan, Activate(l, v), UNCHANGED tool,
         routes' \subseteq routes,
         v \in client \/ \E r \in routes : r[3] = v
  PROVE  MhInv'
<1>1. /\ UNCHANGED <<running, snap, sub, bind, ni>>
      /\ UNCHANGED <<client, pc, todo, runs, range, memory>> /\ Left' = Left
  BY DEF Activate, tool, Left, Elems
<1>2. /\ active' = [active EXCEPT ![l] = active[l] \cup {v}]
      /\ event' = [event EXCEPT ![l] = event[l] \/ v \notin active[l]]
      /\ active \in [Leaf -> SUBSET Vlan] /\ event \in [Leaf -> BOOLEAN]
  BY DEF Activate, MhInv, TypeOK
<1>3. /\ active' \in [Leaf -> SUBSET Vlan] /\ event' \in [Leaf -> BOOLEAN]
      /\ active'[l] = active[l] \cup {v}
      /\ event'[l] = (event[l] \/ v \notin active[l])
      /\ \A k \in Leaf : k # l => active'[k] = active[k] /\ event'[k] = event[k]
      /\ \A k \in Leaf : active[k] \subseteq active'[k]
  BY <1>2
<1>4. uncleared' = IF v \in range /\ Cleared(l) THEN uncleared \cup {<<l, v>>} ELSE uncleared
  BY DEF Activate
<1>5. TypeOK'
  <2>1. uncleared' \subseteq {p \in Leaf \X range' : p[2] \in active'[p[1]]}
    BY <1>1, <1>3, <1>4 DEF MhInv, TypeOK
  <2> QED
    BY <1>1, <1>3, <2>1 DEF MhInv, TypeOK
<1>6. DataInv' /\ TodoInv' /\ WarmInv' /\ CountInv' /\ CompleteIsTrue'
  BY <1>1 DEF MhInv, DataInv, TodoInv, IsRest, Elems, WarmInv, WarmLeaf, CountInv,
              Visited, CompleteIsTrue
<1>7. HandlerInv'
  BY <1>1, <1>3 DEF MhInv, HandlerInv
<1>8. ColdInv'
  <2> SUFFICES ASSUME pc \in {"checkactive", "checksubif", "prewarm", "trigger"}, memory.sound
               PROVE  /\ client \cap range = {} /\ \A r \in routes : r[3] \notin range
                      /\ \A k \in Leaf : ColdLeaf(k)'
    BY <1>1 DEF ColdInv
  <2>1. /\ client \cap range = {} /\ \A r \in routes : r[3] \notin range
        /\ \A k \in Leaf : ColdLeaf(k)
    BY DEF MhInv, ColdInv
  <2>2. \A k \in Leaf : active'[k] \cap range = active[k] \cap range
    BY <1>3, <2>1
  <2>3. \A k \in Leaf : ColdLeaf(k)'
    BY <1>1, <2>1, <2>2 DEF ColdLeaf
  <2> QED
    BY <2>1, <2>3
<1>9. StableInv'
  BY <1>1, <1>3 DEF MhInv, StableInv, StableLeaf
<1>10. UnclearedInv'
  BY <1>1, <1>3, <1>4, ClearedFacts DEF MhInv, UnclearedInv, UnclearedLeaf, Loops
<1> QED
  BY <1>5, <1>6, <1>7, <1>8, <1>9, <1>10 DEF MhInv

\* The retention timer forgets a VLAN.
LEMMA ExpireStep ==
  ASSUME MhInv, NEW l \in Leaf, NEW v \in Vlan, Expire(l, v), UNCHANGED tool
  PROVE  MhInv'
<1>1. /\ UNCHANGED <<running, snap, sub, bind, ni, routes>>
      /\ UNCHANGED <<client, pc, todo, runs, range, memory>> /\ Left' = Left
  BY DEF Expire, tool, Left, Elems
<1>2. /\ active' = [active EXCEPT ![l] = active[l] \ {v}]
      /\ event' = [event EXCEPT ![l] = TRUE]
      /\ active \in [Leaf -> SUBSET Vlan] /\ event \in [Leaf -> BOOLEAN]
  BY DEF Expire, MhInv, TypeOK
<1>3. /\ active' \in [Leaf -> SUBSET Vlan] /\ event' \in [Leaf -> BOOLEAN]
      /\ active'[l] = active[l] \ {v} /\ event'[l] = TRUE
      /\ \A k \in Leaf : k # l => active'[k] = active[k] /\ event'[k] = event[k]
      /\ \A k \in Leaf : active'[k] \subseteq active[k]
  BY <1>2
<1>4. uncleared' = uncleared \ {<<l, v>>} /\ ~(Measuring /\ v \in range)
  BY DEF Expire
<1>5. TypeOK'
  <2>1. uncleared' \subseteq {p \in Leaf \X range' : p[2] \in active'[p[1]]}
    BY <1>1, <1>3, <1>4 DEF MhInv, TypeOK
  <2> QED
    BY <1>1, <1>3, <2>1 DEF MhInv, TypeOK
<1>6. DataInv' /\ TodoInv' /\ WarmInv' /\ CountInv' /\ CompleteIsTrue'
  BY <1>1 DEF MhInv, DataInv, TodoInv, IsRest, Elems, WarmInv, WarmLeaf, CountInv,
              Visited, CompleteIsTrue
<1>7. HandlerInv'
  BY <1>1, <1>3 DEF MhInv, HandlerInv
<1>8. ColdInv'
  BY <1>1, <1>3 DEF MhInv, ColdInv, ColdLeaf
<1>9. StableInv'
  <2> SUFFICES ASSUME pc \in {"poll", "clients"}, memory.sound, NEW k \in Leaf
               PROVE  StableLeaf(k)'
    BY <1>1 DEF StableInv
  <2>1. StableLeaf(k)
    BY DEF MhInv, StableInv
  <2>2. active'[k] \cap range = active[k] \cap range
    BY <1>3, <1>4 DEF Measuring
  <2> QED
    BY <1>1, <2>1, <2>2 DEF StableLeaf
<1>10. UnclearedInv'
  BY <1>1, <1>3, <1>4 DEF MhInv, UnclearedInv, UnclearedLeaf, Loops
<1> QED
  BY <1>5, <1>6, <1>7, <1>8, <1>9, <1>10 DEF MhInv
\* The handler answers to what is active.
LEMMA InvokeStep ==
  ASSUME MhInv, NEW l \in Leaf, Invoke(l), UNCHANGED tool
  PROVE  MhInv'
<1>1. /\ UNCHANGED <<active, sub, bind, ni, routes, uncleared>>
      /\ UNCHANGED <<client, pc, todo, runs, range, memory>> /\ Left' = Left
  BY DEF Invoke, tool, Left, Elems
<1>2. /\ event' = [event EXCEPT ![l] = FALSE] /\ running' = [running EXCEPT ![l] = TRUE]
      /\ snap' = [snap EXCEPT ![l] = active[l]]
      /\ event \in [Leaf -> BOOLEAN] /\ running \in [Leaf -> BOOLEAN]
      /\ snap \in [Leaf -> SUBSET Vlan] /\ active[l] \in SUBSET Vlan
  BY DEF Invoke, MhInv, TypeOK
<1>3. /\ event' \in [Leaf -> BOOLEAN] /\ running' \in [Leaf -> BOOLEAN]
      /\ snap' \in [Leaf -> SUBSET Vlan]
      /\ event'[l] = FALSE /\ running'[l] = TRUE /\ snap'[l] = active[l]
      /\ \A k \in Leaf : k # l => /\ event'[k] = event[k] /\ running'[k] = running[k]
                                   /\ snap'[k] = snap[k]
  BY <1>2
<1>4. TypeOK'
  BY <1>1, <1>3 DEF MhInv, TypeOK
<1>5. DataInv' /\ TodoInv' /\ WarmInv' /\ CountInv' /\ CompleteIsTrue' /\ UnclearedInv'
  BY <1>1 DEF MhInv, DataInv, TodoInv, IsRest, Elems, WarmInv, WarmLeaf, CountInv,
              Visited, CompleteIsTrue, UnclearedInv, UnclearedLeaf
<1>6. HandlerInv'
  BY <1>1, <1>3 DEF MhInv, HandlerInv
<1>7. ColdInv'
  BY <1>1, <1>3 DEF MhInv, ColdInv, ColdLeaf
<1>8. StableInv'
  BY <1>1, <1>3 DEF MhInv, StableInv, StableLeaf
<1> QED
  BY <1>4, <1>5, <1>6, <1>7, <1>8 DEF MhInv

\* While a sound run measures, a commit unbinds nothing of the range.
LEMMA CommitKeeps ==
  ASSUME MhInv, NEW l \in Leaf, Commit(l), UNCHANGED tool,
         pc \in {"poll", "clients"}, memory.sound
  PROVE  \A k \in Leaf : bind[k] \cap range \subseteq bind'[k]
<1>1. bind' = [bind EXCEPT ![l] = CandidateBind(l)] \/ bind' = bind
  BY DEF Commit
<1>2. /\ bind \in [Leaf -> SUBSET Vlan] /\ bind[l] \subseteq sub[l]
      /\ running[l] /\ sub[l] \cap range \subseteq snap[l]
  BY DEF MhInv, DataInv, TypeOK, StableInv, StableLeaf, Commit
<1>3. bind[l] \cap range \subseteq CandidateBind(l)
  BY <1>2 DEF CandidateBind
<1> QED
  BY <1>1, <1>2, <1>3

\* The transaction of a leaf, or its rejection.
LEMMA CommitStep ==
  ASSUME MhInv, NEW l \in Leaf, Commit(l), UNCHANGED tool
  PROVE  MhInv'
<1>1. /\ UNCHANGED <<active, event, ni, uncleared>>
      /\ UNCHANGED <<client, pc, todo, runs, range, memory>> /\ Left' = Left
  BY DEF Commit, tool, Left, Elems
<1>2. /\ running' = [running EXCEPT ![l] = FALSE] /\ snap' = [snap EXCEPT ![l] = {}]
      /\ running \in [Leaf -> BOOLEAN] /\ snap \in [Leaf -> SUBSET Vlan] /\ running[l]
      /\ sub \in [Leaf -> SUBSET Vlan] /\ bind \in [Leaf -> SUBSET Vlan]
  BY DEF Commit, MhInv, TypeOK, DataInv
<1>3. /\ running' \in [Leaf -> BOOLEAN] /\ snap' \in [Leaf -> SUBSET Vlan]
      /\ running'[l] = FALSE /\ snap'[l] = {}
      /\ \A k \in Leaf : k # l => running'[k] = running[k] /\ snap'[k] = snap[k]
  BY <1>2
<1>4. DataInv' /\ TodoInv' /\ WarmInv' /\ UnclearedInv' /\ TypeOK' /\ HandlerInv'
      /\ ColdInv' /\ StableInv'
  <2>1. CASE ~(CandidateBind(l) \subseteq ni[l])
    <3>1. UNCHANGED <<sub, bind, routes>>
      BY <2>1 DEF Commit
    <3>2. CandidateBind(l) # {}
      BY <2>1
    <3>3. DataInv' /\ TodoInv' /\ WarmInv' /\ UnclearedInv'
      BY <1>1, <3>1 DEF MhInv, DataInv, TodoInv, IsRest, Elems, WarmInv, WarmLeaf,
                        UnclearedInv, UnclearedLeaf
    <3>4. TypeOK'
      BY <1>1, <1>3, <3>1 DEF MhInv, TypeOK
    <3>5. HandlerInv'
      BY <1>1, <1>2, <1>3, <3>1, <3>2 DEF MhInv, HandlerInv, CandidateBind, Adds
    <3>6. ColdInv' /\ StableInv'
      BY <1>1, <1>3, <3>1 DEF MhInv, ColdInv, ColdLeaf, StableInv, StableLeaf
    <3> QED
      BY <3>3, <3>4, <3>5, <3>6
  <2>2. CASE CandidateBind(l) \subseteq ni[l]
    <3>1. /\ sub' = [sub EXCEPT ![l] = snap[l]] /\ bind' = [bind EXCEPT ![l] = CandidateBind(l)]
          /\ routes' = {r \in routes : r[1] = l => r[3] \in snap[l]}
                       \cup ({l} \X (Leaf \ {l}) \X Adds(l))
      BY <2>2 DEF Commit
    <3>2. snap[l] \subseteq Vlan /\ CandidateBind(l) \subseteq snap[l] /\ Adds(l) \subseteq CandidateBind(l)
      BY <1>2 DEF CandidateBind, Adds
    <3>3. /\ sub' \in [Leaf -> SUBSET Vlan] /\ bind' \in [Leaf -> SUBSET Vlan]
          /\ sub'[l] = snap[l] /\ bind'[l] = CandidateBind(l)
          /\ \A k \in Leaf : k # l => sub'[k] = sub[k] /\ bind'[k] = bind[k]
      BY <1>2, <3>1, <3>2
    <3>4. /\ routes' \subseteq Leaf \X Leaf \X Vlan
          /\ \A r \in routes' : \/ r \in routes /\ (r[1] = l => r[3] \in snap[l])
                                \/ r[1] = l /\ r[2] \in Leaf \ {l} /\ r[3] \in Adds(l)
      BY <3>1, <3>2 DEF MhInv, DataInv
    <3>5. DataInv' /\ TodoInv' /\ WarmInv' /\ UnclearedInv'
      BY <1>1, <3>3, <3>4 DEF MhInv, DataInv, TodoInv, IsRest, Elems, WarmInv, WarmLeaf,
                        UnclearedInv, UnclearedLeaf
    <3>6. TypeOK'
      <4>1. \A k \in Leaf : bind'[k] \subseteq sub'[k] \cap ni'[k]
        BY <1>1, <2>2, <3>2, <3>3 DEF MhInv, TypeOK
      <4>2. ASSUME NEW r \in routes' PROVE r[3] \in bind'[r[1]] /\ r[2] \in Leaf \ {r[1]}
        <5>1. r \in routes => r[1] \in Leaf /\ r[3] \in bind[r[1]] /\ r[2] \in Leaf \ {r[1]}
          BY DEF MhInv, TypeOK, DataInv
        <5> QED
          BY <3>2, <3>3, <3>4, <5>1 DEF CandidateBind
      <4> QED
        BY <1>1, <1>3, <3>3, <4>1, <4>2 DEF MhInv, TypeOK
    <3>7. HandlerInv'
      BY <1>1, <1>2, <1>3, <3>3 DEF MhInv, HandlerInv
    <3>8. ColdInv'
      <4> SUFFICES ASSUME pc \in {"checkactive", "checksubif", "prewarm", "trigger"}, memory.sound
                   PROVE  /\ \A r \in routes' : r[3] \notin range
                          /\ \A k \in Leaf : ColdLeaf(k)'
        BY <1>1 DEF MhInv, ColdInv
      <4>1. /\ \A r \in routes : r[3] \notin range
            /\ \A k \in Leaf : ColdLeaf(k)
        BY DEF MhInv, ColdInv
      <4>2. snap[l] \cap range \subseteq sub[l]
        BY <1>2, <4>1 DEF ColdLeaf
      <4>3. \A r \in routes' : r[3] \notin range
        BY <3>4, <4>1, <4>2 DEF Adds
      <4>4. ColdLeaf(l)'
        BY <1>1, <1>2, <1>3, <3>3, <4>1, <4>2 DEF ColdLeaf
      <4>5. \A k \in Leaf : k # l => ColdLeaf(k)'
        BY <1>1, <1>3, <3>3, <4>1 DEF ColdLeaf
      <4> QED
        BY <4>3, <4>4, <4>5
    <3>9. StableInv'
      BY <1>1, <1>2, <1>3, <3>3 DEF MhInv, StableInv, StableLeaf
    <3> QED
      BY <3>5, <3>6, <3>7, <3>8, <3>9
  <2> QED
    BY <2>1, <2>2
<1>5. CountInv' /\ CompleteIsTrue'
  BY <1>1, CommitKeeps DEF MhInv, CountInv, Visited, CompleteIsTrue
<1> QED
  BY <1>4, <1>5 DEF MhInv
-----------------------------------------------------------------------------
(* The tool's steps.                                                       *)

\* A loop goes on with the leaves that are left, or is over.
LEMMA AdvanceFacts ==
  ASSUME TodoInv, NEW next, next \in Places, pc \in Loops, Advance(next)
  PROVE  /\ Head(todo) \in Leaf /\ Head(todo) \in Left /\ Left \subseteq Leaf
         /\ TodoInv'
         /\ \/ /\ Len(todo) > 1 /\ pc' = pc
               /\ Left' = Left \ {Head(todo)} /\ Visited' = Visited + 1
            \/ /\ Len(todo) = 1 /\ pc' = next
               /\ Left = {Head(todo)} /\ Left' = Leaf
               /\ Visited + 1 = Len(Order) /\ Visited' = 0
<1>1. IsRest(todo) /\ Len(todo) \in Nat /\ Len(Order) \in Nat
  BY MeasureAssumption DEF TodoInv, IsRest
<1>2. CASE Len(todo) > 1
  <2>1. todo' = Tail(todo) /\ pc' = pc
    BY <1>2 DEF Advance
  <2>2. Visited' = Visited + 1
    <3>1. todo' = Tail(todo) /\ Len(Tail(todo)) = Len(todo) - 1
      BY <1>1, <1>2, <2>1, RestFacts
    <3>2. \A m, n \in Nat : m - (n - 1) = (m - n) + 1
      OBVIOUS
    <3> QED
      BY <1>1, <3>1, <3>2 DEF Visited
  <2> QED
    BY <1>1, <1>2, <2>1, <2>2, RestFacts DEF TodoInv, Left
<1>3. CASE ~(Len(todo) > 1)
  <2>1. todo' = Order /\ pc' = next
    BY <1>3 DEF Advance
  <2>2. Len(todo) = 1 /\ Left = {Head(todo)} /\ Head(todo) \in Leaf
    BY <1>1, <1>3, RestFacts DEF Left
  <2>3. Visited + 1 = Len(Order) /\ Visited' = 0
    BY <1>1, <2>1, <2>2 DEF Visited
  <2> QED
    BY <1>1, <2>1, <2>2, <2>3, OrderFacts DEF TodoInv, Left
<1> QED
  BY <1>2, <1>3

\* A run begins, on a state nothing is assumed of but what was checked.
LEMMA StartStep ==
  ASSUME MhInv, Start
  PROVE  MhInv'
<1> USE DEF leaves, Stopped
<1>1. /\ UNCHANGED <<active, event, running, snap, sub, bind, ni, routes, client, todo>>
      /\ uncleared' = {} /\ pc \in Stopped /\ runs' = runs + 1 /\ range' = Ranges[runs']
      /\ todo = Order /\ Left' = Leaf /\ pc' \in {"checkactive", "checksubif"}
  BY OrderFacts DEF Start, MhInv, TodoInv, Loops, Left
<1>2. /\ runs' \in 0..Len(Ranges) /\ range' \subseteq Vlan /\ IsFiniteSet(range')
  <2>1. runs \in 0..Len(Ranges) /\ runs < Len(Ranges) /\ Len(Ranges) \in Nat
    BY MeasureAssumption DEF Start, MhInv, TypeOK
  <2>2. runs' \in 1..Len(Ranges) /\ runs' \in 0..Len(Ranges)
    BY <1>1, <2>1
  <2> QED
    BY <1>1, <2>2, MeasureAssumption
<1>3. /\ memory' \in Memory /\ memory'.seen = 0
      /\ pc' = "checkactive" /\ memory'.sound => Quiet(range')
      /\ pc' = "checksubif" => ~memory'.sound
  <2> DEFINE q == Quiet(range')
  <2>1. q \in BOOLEAN
    BY DEF Quiet
  <2> HIDE DEF q
  <2>2. CASE pc' = "checkactive" /\ memory' = [Blank EXCEPT !.sound = q]
    BY <2>1, <2>2 DEF Memory, Blank, q
  <2>3. CASE pc' = "checksubif" /\ memory' = Blank
    BY <2>3 DEF Memory, Blank
  <2> QED
    BY <2>2, <2>3 DEF Start, q
<1>4. TypeOK' /\ DataInv'
  BY <1>1, <1>2, <1>3 DEF MhInv, TypeOK, DataInv
<1>5. TodoInv'
  BY <1>1, OrderFacts DEF TodoInv, Places, Loops
<1>6. HandlerInv' /\ WarmInv' /\ StableInv' /\ CountInv' /\ CompleteIsTrue' /\ UnclearedInv'
  BY <1>1, <1>3 DEF MhInv, HandlerInv, WarmInv, WarmLeaf, StableInv, CountInv,
                    CompleteIsTrue, UnclearedInv, UnclearedLeaf
<1>7. ColdInv'
  <2> SUFFICES ASSUME pc' = "checkactive", memory'.sound
               PROVE  /\ client \cap range' = {} /\ routes = {}
                      /\ \A k \in Leaf : ColdLeaf(k)'
    BY <1>1, <1>3 DEF ColdInv
  <2>1. /\ client \cap range' = {} /\ routes = {}
        /\ \A k \in Leaf : ~running[k] /\ active[k] = sub[k]
    BY <1>3 DEF Quiet
  <2>2. \A k \in Leaf : ColdLeaf(k)'
    BY <1>1, <2>1 DEF ColdLeaf
  <2> QED
    BY <2>1, <2>2
<1> QED
  BY <1>4, <1>5, <1>6, <1>7 DEF MhInv

\* A run ends early, undoing nothing.
LEMMA StopStep ==
  ASSUME MhInv, NEW end \in {"refused", "failed", "aborted"}, Stop(end),
         UNCHANGED <<active, event, running, snap, sub, bind, routes, client, runs, range, uncleared>>,
         ni' \in [Leaf -> SUBSET Vlan], \A k \in Leaf : ni[k] \subseteq ni'[k]
  PROVE  MhInv'
<1>1. pc' = end /\ todo' = Order /\ memory' = Blank /\ Blank \in Memory /\ Blank.seen = 0
  BY DEF Stop, Blank, Memory
<1>2. TypeOK' /\ DataInv'
  BY <1>1 DEF MhInv, TypeOK, DataInv
<1>3. TodoInv'
  BY <1>1, OrderFacts DEF TodoInv, Places, Loops, Stopped
<1>4. HandlerInv' /\ ColdInv' /\ WarmInv' /\ StableInv' /\ CountInv' /\ CompleteIsTrue' /\ UnclearedInv'
  BY <1>1 DEF MhInv, HandlerInv, ColdInv, WarmInv, WarmLeaf, StableInv, CountInv,
              CompleteIsTrue, UnclearedInv, UnclearedLeaf, Loops
<1> QED
  BY <1>2, <1>3, <1>4 DEF MhInv

\* A run is killed.
LEMMA InterruptStep ==
  ASSUME MhInv, Interrupt
  PROVE  MhInv'
<1>1. Stop("aborted") /\ UNCHANGED <<leaves, client, runs, range, uncleared>>
  BY DEF Interrupt
<1>2. ni \in [Leaf -> SUBSET Vlan]
  BY DEF MhInv, TypeOK
<1> QED
  BY <1>1, <1>2, StopStep DEF leaves

\* A leaf is checked for VLANs of the range, active ones or configured ones.
LEMMA CheckStep ==
  ASSUME MhInv, CheckActive \/ CheckSubif
  PROVE  MhInv'
<1> USE DEF leaves
<1> DEFINE found == IF pc = "checkactive" THEN InRange(Head(todo)) # {} ELSE Present(Head(todo)) # {}
           next  == IF pc = "checkactive" THEN "checksubif" ELSE "prewarm"
<1>1. /\ Check(found, next) /\ pc \in {"checkactive", "checksubif"}
      /\ UNCHANGED <<active, event, running, snap, sub, bind, ni, routes, client, runs, range, uncleared>>
  BY DEF CheckActive, CheckSubif, Check
<1>2. CASE found /\ Stop("refused")
  <2>1. ni \in [Leaf -> SUBSET Vlan]
    BY DEF MhInv, TypeOK
  <2> QED
    BY <1>1, <1>2, <2>1, StopStep
<1>3. CASE /\ Advance(next)
           /\ \/ ~found /\ memory' = memory
              \/ memory' = [memory EXCEPT !.sound = FALSE]
  <2>1. TodoInv /\ pc \in Loops /\ next \in Places
    BY <1>1 DEF MhInv, Loops, Places
  <2>2. /\ Head(todo) \in Leaf /\ Head(todo) \in Left /\ Left \subseteq Leaf /\ TodoInv'
        /\ \/ Len(todo) > 1 /\ pc' = pc /\ Left' = Left \ {Head(todo)}
           \/ Len(todo) = 1 /\ pc' = next /\ Left = {Head(todo)} /\ Left' = Leaf
    BY <1>3, <2>1, AdvanceFacts
  <2> HIDE DEF found, next
  <2>3. /\ memory \in Memory /\ memory' \in Memory /\ memory'.seen = memory.seen
        /\ memory'.sound => memory.sound /\ ~found
    BY <1>3 DEF MhInv, TypeOK, Memory
  <2>4. /\ pc = "checkactive" => next = "checksubif" /\ (~found => active[Head(todo)] \cap range = {})
        /\ pc = "checksubif" => next = "prewarm" /\ (~found => sub[Head(todo)] \cap range = {})
    BY DEF found, next, InRange, Present
  <2>5. TypeOK' /\ DataInv'
    BY <1>1, <2>3 DEF MhInv, TypeOK, DataInv
  <2>6. HandlerInv' /\ WarmInv' /\ StableInv' /\ CompleteIsTrue'
    BY <1>1, <2>2, <2>4 DEF MhInv, HandlerInv, WarmInv, WarmLeaf, StableInv, CompleteIsTrue
  <2>7. CountInv' /\ UnclearedInv'
    BY <1>1, <2>2, <2>3, <2>4 DEF MhInv, CountInv, UnclearedInv, UnclearedLeaf, Loops
  <2>8. ColdInv'
    <3> SUFFICES ASSUME memory'.sound
                 PROVE  /\ client \cap range = {} /\ \A r \in routes : r[3] \notin range
                        /\ \A k \in Leaf : ColdLeaf(k)'
      BY <1>1 DEF ColdInv
    <3>1. /\ client \cap range = {} /\ \A r \in routes : r[3] \notin range
          /\ \A k \in Leaf : ColdLeaf(k)
      BY <1>1, <2>3 DEF MhInv, ColdInv
    <3>2. \A k \in Leaf : ColdLeaf(k)'
      BY <1>1, <2>2, <2>3, <2>4, <3>1 DEF ColdLeaf
    <3> QED
      BY <3>1, <3>2
  <2> QED
    BY <2>2, <2>5, <2>6, <2>7, <2>8 DEF MhInv
<1> QED
  BY <1>1, <1>2, <1>3 DEF Check

\* The MAC-VRFs of one leaf are created, or not, or no one knows.
LEMMA PrewarmStep ==
  ASSUME MhInv, Prewarm
  PROVE  MhInv'
<1>1. /\ pc = "prewarm"
      /\ UNCHANGED <<active, event, running, snap, sub, bind, routes, client, runs, range, uncleared>>
  BY DEF Prewarm
<1>2. PICK o \in Outcome :
        /\ ni' = IF o.applied THEN [ni EXCEPT ![Head(todo)] = @ \cup range] ELSE ni
        /\ IF Len(todo) = 1 /\ Failures(Head(todo), o) # {}
           THEN Stop("failed")
           ELSE /\ Advance("trigger")
                /\ memory' = [memory EXCEPT !.failed = Failures(Head(todo), o)]
  BY DEF Prewarm
<1>3. /\ TodoInv /\ pc \in Loops /\ "trigger" \in Places /\ Head(todo) \in Leaf
      /\ o.ok \in BOOLEAN /\ o.applied \in BOOLEAN /\ (o.ok => o.applied)
  BY <1>1, RestFacts DEF MhInv, TodoInv, Loops, Places, Outcome
<1>4. /\ ni' \in [Leaf -> SUBSET Vlan] /\ \A k \in Leaf : ni[k] \subseteq ni'[k]
      /\ o.ok => range \subseteq ni'[Head(todo)]
  BY <1>2, <1>3 DEF MhInv, TypeOK
<1>5. CASE Stop("failed")
  BY <1>1, <1>4, <1>5, StopStep
<1>6. CASE /\ Advance("trigger") /\ (Len(todo) = 1 => Failures(Head(todo), o) = {})
           /\ memory' = [memory EXCEPT !.failed = Failures(Head(todo), o)]
  <2>1. /\ Head(todo) \in Leaf /\ Head(todo) \in Left /\ Left \subseteq Leaf /\ TodoInv'
        /\ \/ Len(todo) > 1 /\ pc' = pc /\ Left' = Left \ {Head(todo)}
           \/ Len(todo) = 1 /\ pc' = "trigger" /\ Left = {Head(todo)} /\ Left' = Leaf
    BY <1>3, <1>6, AdvanceFacts
  <2>2. /\ memory.failed \subseteq Failures(Head(todo), o)
        /\ o.ok \/ Head(todo) \in Failures(Head(todo), o)
        /\ Failures(Head(todo), o) \subseteq Leaf
    BY <2>1 DEF Failures, MhInv, TypeOK, Memory
  <2>3. /\ memory' \in Memory /\ memory'.seen = memory.seen /\ memory'.sound = memory.sound
        /\ memory'.failed = Failures(Head(todo), o)
    BY <1>6, <2>2 DEF MhInv, TypeOK, Memory
  <2>4. TypeOK'
    <3>1. \A k \in Leaf : bind[k] \subseteq sub[k] \cap ni'[k]
      BY <1>4 DEF MhInv, TypeOK
    <3> QED
      BY <1>1, <1>4, <2>3, <3>1 DEF MhInv, TypeOK
  <2>5. DataInv' /\ HandlerInv' /\ StableInv' /\ CompleteIsTrue'
    BY <1>1, <2>1 DEF MhInv, DataInv, HandlerInv, StableInv, CompleteIsTrue
  <2>6. CountInv' /\ UnclearedInv'
    BY <1>1, <2>1, <2>3 DEF MhInv, CountInv, UnclearedInv, UnclearedLeaf, Loops
  <2>7. ColdInv'
    BY <1>1, <2>1, <2>3 DEF MhInv, ColdInv, ColdLeaf
  <2>8. WarmInv'
    <3> SUFFICES ASSUME NEW k \in Leaf, k \notin Left' \cup memory'.failed \/ pc' = "trigger"
                 PROVE  range \subseteq ni'[k]
      BY <1>1, <2>1 DEF WarmInv, WarmLeaf
    <3>1. CASE k = Head(todo)
      BY <1>1, <1>4, <1>6, <2>1, <2>2, <2>3, <3>1
    <3>2. CASE k # Head(todo)
      <4>1. k \notin Left \cup memory.failed
        BY <1>1, <1>6, <2>1, <2>2, <2>3, <3>2
      <4> QED
        BY <1>1, <1>4, <4>1 DEF MhInv, WarmInv, WarmLeaf
    <3> QED
      BY <3>1, <3>2
  <2> QED
    BY <2>1, <2>4, <2>5, <2>6, <2>7, <2>8 DEF MhInv
<1> QED
  BY <1>2, <1>5, <1>6

\* The client gets the VLANs.
LEMMA TriggerStep ==
  ASSUME MhInv, Trigger
  PROVE  MhInv'
<1>1. /\ pc = "trigger" /\ pc' = "poll" /\ client' \in {client, client \cup range}
      /\ UNCHANGED <<active, event, running, snap, sub, bind, ni, routes, todo, runs, range, memory, uncleared>>
  BY DEF Trigger, leaves
<1>2. TypeOK' /\ DataInv' /\ TodoInv'
  <2>1. TodoInv'
    BY <1>1 DEF MhInv, TodoInv, Places, Loops
  <2> QED
    BY <1>1, <2>1 DEF MhInv, TypeOK, DataInv
<1>3. HandlerInv' /\ ColdInv' /\ WarmInv' /\ CompleteIsTrue' /\ UnclearedInv'
  <2>1. HandlerInv' /\ ColdInv' /\ CompleteIsTrue'
    BY <1>1 DEF MhInv, HandlerInv, ColdInv, CompleteIsTrue
  <2>2. WarmInv'
    BY <1>1 DEF MhInv, WarmInv, WarmLeaf
  <2>3. UnclearedInv'
    BY <1>1 DEF MhInv, UnclearedInv, UnclearedLeaf, Loops
  <2> QED
    BY <2>1, <2>2, <2>3
<1>4. StableInv'
  BY <1>1 DEF MhInv, StableInv, StableLeaf, ColdInv, ColdLeaf
<1>5. CountInv'
  <2>1. memory.seen = 0 /\ Visited' = 0 /\ Left' = Leaf /\ Cardinality(range) \in Nat
    <3>1. todo = Order /\ todo' = Order /\ memory.seen = 0
      BY <1>1 DEF MhInv, TodoInv, Loops, CountInv
    <3>2. Visited' = 0
      BY <3>1, MeasureAssumption DEF Visited
    <3>3. Cardinality(range) \in Nat
      BY FS_CardinalityType DEF MhInv, DataInv
    <3> QED
      BY <3>1, <3>2, <3>3, OrderFacts DEF Left
  <2>2. Cardinality(range) * 0 = 0
    BY <2>1
  <2> QED
    BY <1>1, <2>1, <2>2 DEF CountInv
<1> QED
  BY <1>2, <1>3, <1>4, <1>5 DEF MhInv

\* What one read adds to the count.
LEMMA UpFacts ==
  ASSUME IsFiniteSet(range), NEW l, NEW n \in {0, Cardinality(Up(l))}
  PROVE  /\ Cardinality(range) \in Nat /\ n \in Nat /\ n <= Cardinality(range)
         /\ n = Cardinality(range) => range \subseteq bind[l]
<1>1. Up(l) \subseteq range
  BY DEF Up
<1>2. /\ IsFiniteSet(Up(l)) /\ Cardinality(Up(l)) <= Cardinality(range)
      /\ Cardinality(Up(l)) = Cardinality(range) => Up(l) = range
  BY <1>1, FS_Subset
<1>3. Cardinality(range) \in Nat /\ Cardinality(Up(l)) \in Nat
  BY <1>2, FS_CardinalityType
<1>4. Cardinality(range) = 0 => range = {}
  BY FS_EmptySet
<1> QED
  BY <1>2, <1>3, <1>4 DEF Up

\* One read of one leaf.
LEMMA PollStep ==
  ASSUME MhInv, Poll
  PROVE  MhInv'
<1>1. /\ pc = "poll"
      /\ UNCHANGED <<active, event, running, snap, sub, bind, ni, routes, client, runs, range, uncleared>>
  BY DEF Poll, leaves
<1>2. PICK n \in {0, Cardinality(Up(Head(todo)))} :
        \/ /\ Len(todo) > 1
           /\ Advance("poll") /\ memory' = [memory EXCEPT !.seen = memory.seen + n]
        \/ /\ Len(todo) = 1
           /\ Advance("poll") /\ memory' = [memory EXCEPT !.seen = 0]
        \/ /\ Len(todo) = 1
           /\ Advance("clients")
           /\ memory' = [memory EXCEPT !.seen = 0, !.complete = (memory.seen + n = Target)]
  BY DEF Poll
<1>3. TodoInv /\ pc \in Loops /\ "poll" \in Places /\ "clients" \in Places
  BY <1>1 DEF MhInv, Loops, Places
<1>4. /\ Head(todo) \in Leaf /\ Head(todo) \in Left /\ Left \subseteq Leaf /\ TodoInv'
      /\ \/ Len(todo) > 1 /\ pc' = pc /\ Left' = Left \ {Head(todo)} /\ Visited' = Visited + 1
         \/ /\ Len(todo) = 1 /\ pc' \in {"poll", "clients"} /\ Left = {Head(todo)} /\ Left' = Leaf
            /\ Visited + 1 = Len(Order) /\ Visited' = 0
  BY <1>2, <1>3, AdvanceFacts
<1> DEFINE c == Cardinality(range)
           k == Visited
           s == memory.seen
<1>5. /\ c \in Nat /\ n \in Nat /\ n <= c
      /\ n = c => range \subseteq bind[Head(todo)]
  BY UpFacts DEF MhInv, DataInv
<1>6. k \in Nat /\ s \in Nat /\ memory \in Memory /\ Len(todo) \in Nat
  <2>1. Len(todo) \in Nat /\ Len(todo) <= Len(Order) /\ Len(Order) \in Nat
    BY MeasureAssumption DEF MhInv, TodoInv, IsRest
  <2> QED
    BY <2>1 DEF Visited, MhInv, TypeOK, Memory
<1>7. memory.sound =>
        /\ s + n <= c * (k + 1)
        /\ s + n = c * (k + 1) => \A l \in Leaf \ (Left \ {Head(todo)}) : range \subseteq bind[l]
  <2> SUFFICES ASSUME memory.sound
               PROVE  /\ s + n <= c * (k + 1)
                      /\ s + n = c * (k + 1) =>
                           \A l \in Leaf \ (Left \ {Head(todo)}) : range \subseteq bind[l]
    OBVIOUS
  <2>1. s <= c * k /\ (s = c * k => \A l \in Leaf \ Left : range \subseteq bind[l])
    BY <1>1 DEF MhInv, CountInv
  <2> HIDE DEF c, k, s
  <2>2. c * (k + 1) = c * k + c /\ c * k \in Nat
    BY <1>5, <1>6
  <2>3. s + n <= c * k + c /\ (s + n = c * k + c => s = c * k /\ n = c)
    BY <1>5, <1>6, <2>1, <2>2
  <2> QED
    BY <1>5, <2>1, <2>2, <2>3
<1> HIDE DEF c, k, s
<1>8. memory' \in Memory /\ memory'.sound = memory.sound
  <2>1. s + n \in Nat /\ 0 \in Nat /\ (s + n = Target) \in BOOLEAN
    BY <1>5, <1>6
  <2> QED
    BY <1>2, <1>6, <2>1 DEF Memory, s
<1>9. TypeOK' /\ DataInv'
  BY <1>1, <1>8 DEF MhInv, TypeOK, DataInv
<1>10. HandlerInv' /\ ColdInv' /\ WarmInv' /\ UnclearedInv'
  BY <1>1, <1>4 DEF MhInv, HandlerInv, ColdInv, WarmInv, WarmLeaf, UnclearedInv, UnclearedLeaf, Loops
<1>11. StableInv'
  BY <1>1, <1>8 DEF MhInv, StableInv, StableLeaf
<1>12. CASE Len(todo) > 1
  <2>0. Len(todo) # 1
    <3>1. \A x \in Nat : x > 1 => x # 1
      OBVIOUS
    <3> QED
      BY <1>6, <1>12, <3>1
  <2>1. memory' = [memory EXCEPT !.seen = s + n] /\ memory'.seen = s + n
    BY <1>2, <1>6, <2>0 DEF Memory, s
  <2>2. /\ pc' = "poll" /\ Left' = Left \ {Head(todo)} /\ Visited' = k + 1
        /\ range' = range /\ Cardinality(range') = c
    BY <1>1, <1>4, <2>0 DEF c, k
  <2>3. CountInv'
    BY <1>1, <1>7, <1>8, <2>1, <2>2 DEF CountInv
  <2>4. CompleteIsTrue'
    BY <2>2 DEF CompleteIsTrue
  <2> QED
    BY <1>4, <1>9, <1>10, <1>11, <2>3, <2>4 DEF MhInv
<1>13. CASE ~(Len(todo) > 1)
  <2>1. /\ Left' = Leaf /\ Visited' = 0 /\ k + 1 = Len(Order) /\ Left = {Head(todo)}
        /\ memory'.seen = 0
    BY <1>2, <1>4, <1>6, <1>13 DEF Memory, k
  <2>2. CountInv'
    <3>1. c * 0 = 0 /\ Cardinality(range') = c
      BY <1>1, <1>5 DEF c
    <3> QED
      BY <2>1, <3>1 DEF CountInv
  <2>3. CompleteIsTrue'
    <3> SUFFICES ASSUME pc' = "clients", memory'.complete, memory.sound
                 PROVE  \A l \in Leaf : range \subseteq bind[l]
      BY <1>1, <1>8 DEF CompleteIsTrue
    <3>1. s + n = Target
      <4>1. CASE Advance("poll")
        BY <1>3, <1>13, <4>1 DEF Advance
      <4>2. CASE memory' = [memory EXCEPT !.seen = 0, !.complete = (memory.seen + n = Target)]
        BY <1>6, <4>2 DEF Memory, s
      <4> QED
        BY <1>2, <4>1, <4>2
    <3>2. Target = c * (k + 1)
      BY <2>1 DEF Target, c
    <3> QED
      BY <1>7, <2>1, <3>1, <3>2
  <2> QED
    BY <1>4, <1>9, <1>10, <1>11, <2>2, <2>3 DEF MhInv
<1> QED
  BY <1>12, <1>13

\* The client's VLANs are deleted, or kept.
LEMMA DeleteClientsStep ==
  ASSUME MhInv, DeleteClients
  PROVE  MhInv'
<1>1. /\ pc = "clients" /\ pc' = "clear" /\ client' \in {client, client \ range} /\ memory' = Blank
      /\ UNCHANGED <<active, event, running, snap, sub, bind, ni, routes, todo, runs, range, uncleared>>
  BY DEF DeleteClients, leaves
<1>2. Blank \in Memory /\ Blank.seen = 0
  BY DEF Blank, Memory
<1>3. TodoInv' /\ Left' = Leaf
  BY <1>1, OrderFacts DEF MhInv, TodoInv, Places, Loops, Left
<1>4. TypeOK' /\ DataInv'
  BY <1>1, <1>2 DEF MhInv, TypeOK, DataInv
<1>5. HandlerInv' /\ ColdInv' /\ StableInv' /\ CountInv' /\ CompleteIsTrue'
  BY <1>1, <1>2 DEF MhInv, HandlerInv, ColdInv, StableInv, CountInv, CompleteIsTrue
<1>6. WarmInv'
  BY <1>1 DEF MhInv, WarmInv, WarmLeaf
<1>7. UnclearedInv'
  BY <1>1, <1>3 DEF MhInv, UnclearedInv, UnclearedLeaf
<1> QED
  BY <1>3, <1>4, <1>5, <1>6, <1>7 DEF MhInv

\* The retention timers of one leaf are cleared, as far as that goes through.
LEMMA ClearStep ==
  ASSUME MhInv, Clear
  PROVE  MhInv'
<1> DEFINE l == Head(todo)
<1>1. /\ pc = "clear"
      /\ UNCHANGED <<running, snap, sub, bind, ni, routes, client, runs, range, memory>>
  BY DEF Clear
<1>2. PICK gone \in SUBSET Clearable(l) :
        /\ active' = [active EXCEPT ![l] = @ \ gone]
        /\ event' = [event EXCEPT ![l] = @ \/ gone # {}]
        /\ uncleared' = uncleared \cup ({l} \X (Clearable(l) \ gone))
  BY DEF Clear
<1>3. PICK next \in {"kept", "teardown"} : Advance(next)
  BY DEF Clear
<1>4. TodoInv /\ pc \in Loops /\ next \in Places
  BY <1>1 DEF MhInv, Loops, Places, Stopped
<1>5. /\ Head(todo) \in Leaf /\ Head(todo) \in Left /\ Left \subseteq Leaf /\ TodoInv'
      /\ \/ Len(todo) > 1 /\ pc' = pc /\ Left' = Left \ {Head(todo)}
         \/ Len(todo) = 1 /\ pc' \in {"kept", "teardown"} /\ Left = {Head(todo)} /\ Left' = Leaf
  BY <1>3, <1>4, AdvanceFacts
<1>6. /\ active \in [Leaf -> SUBSET Vlan] /\ event \in [Leaf -> BOOLEAN]
      /\ l \in Leaf /\ l \in Left
  BY <1>5 DEF MhInv, TypeOK
<1> HIDE DEF l
<1>7. /\ active' \in [Leaf -> SUBSET Vlan] /\ event' \in [Leaf -> BOOLEAN]
      /\ active'[l] = active[l] \ gone /\ event'[l] = (event[l] \/ gone # {})
      /\ \A k \in Leaf : k # l => active'[k] = active[k] /\ event'[k] = event[k]
      /\ \A k \in Leaf : active'[k] \subseteq active[k]
  BY <1>2, <1>6
<1>8. \A p \in uncleared : p[1] # l
  BY <1>1, <1>6 DEF MhInv, UnclearedInv
<1>9. TypeOK'
  <2>1. uncleared' \subseteq {p \in Leaf \X range' : p[2] \in active'[p[1]]}
    <3>1. uncleared \subseteq {p \in Leaf \X range' : p[2] \in active'[p[1]]}
      BY <1>1, <1>7, <1>8 DEF MhInv, TypeOK
    <3>2. {l} \X (Clearable(l) \ gone) \subseteq {p \in Leaf \X range' : p[2] \in active'[p[1]]}
      BY <1>1, <1>6, <1>7 DEF Clearable
    <3> QED
      BY <1>2, <3>1, <3>2
  <2> QED
    BY <1>1, <1>7, <2>1 DEF MhInv, TypeOK
<1>10. DataInv' /\ CountInv' /\ CompleteIsTrue' /\ ColdInv' /\ StableInv'
  BY <1>1, <1>5 DEF MhInv, DataInv, CountInv, CompleteIsTrue, ColdInv, StableInv
<1>11. HandlerInv'
  <2>1. \A k \in Leaf : ~event'[k] => ~event[k] /\ active'[k] = active[k]
    BY <1>7
  <2> QED
    BY <1>1, <2>1 DEF MhInv, HandlerInv
<1>12. WarmInv'
  BY <1>1, <1>5 DEF MhInv, WarmInv, WarmLeaf
<1>13. UnclearedInv'
  <2>1. \A p \in uncleared' : p \in uncleared \/ p[1] = l
    BY <1>2
  <2>2. pc' = "clear" => \A p \in uncleared' : p[1] \notin Left'
    BY <1>1, <1>5, <1>6, <2>1 DEF MhInv, UnclearedInv, l
  <2>3. \A v \in active'[l] \cap range : <<l, v>> \in uncleared'
    BY <1>2, <1>7 DEF Clearable
  <2>4. \A k \in Leaf \ Left : \A v \in active'[k] \cap range : <<k, v>> \in uncleared'
    BY <1>1, <1>2, <1>7 DEF MhInv, UnclearedInv, UnclearedLeaf
  <2>5. ASSUME NEW k \in Leaf PROVE UnclearedLeaf(k)'
    <3> SUFFICES ASSUME pc' = "teardown" \/ (pc' = "clear" /\ k \notin Left')
                 PROVE  \A v \in active'[k] \cap range : <<k, v>> \in uncleared'
      BY <1>1, <1>5 DEF UnclearedLeaf
    <3>1. k = l \/ k \notin Left
      BY <1>1, <1>5 DEF l
    <3> QED
      BY <2>3, <2>4, <3>1
  <2> QED
    BY <1>1, <1>5, <2>2, <2>5 DEF UnclearedInv
<1> QED
  BY <1>5, <1>9, <1>10, <1>11, <1>12, <1>13 DEF MhInv

\* The MAC-VRFs of one leaf are deleted, or not.
LEMMA TeardownStep ==
  ASSUME MhInv, Teardown
  PROVE  MhInv'
<1> DEFINE l == Head(todo)
<1>1. /\ pc = "teardown" /\ Advance("done")
      /\ UNCHANGED <<active, event, running, snap, sub, client, runs, range, memory, uncleared>>
      /\ \/ /\ ni' = [ni EXCEPT ![l] = @ \ range]
            /\ bind' = [bind EXCEPT ![l] = @ \ range]
            /\ routes' = {r \in routes : r[1] = l => r[3] \notin range}
         \/ UNCHANGED <<ni, bind, routes>>
  BY DEF Teardown
<1>2. TodoInv /\ pc \in Loops /\ "done" \in Places
  BY <1>1 DEF MhInv, Loops, Places, Stopped
<1>3. l \in Leaf /\ TodoInv' /\ pc' \in {"teardown", "done"}
  BY <1>1, <1>2, AdvanceFacts
<1> HIDE DEF l
<1>4. TypeOK' /\ DataInv'
  <2>1. CASE UNCHANGED <<ni, bind, routes>>
    BY <1>1, <2>1 DEF MhInv, TypeOK, DataInv
  <2>2. CASE /\ ni' = [ni EXCEPT ![l] = @ \ range]
             /\ bind' = [bind EXCEPT ![l] = @ \ range]
             /\ routes' = {r \in routes : r[1] = l => r[3] \notin range}
    <3>1. ni \in [Leaf -> SUBSET Vlan] /\ bind \in [Leaf -> SUBSET Vlan]
      BY DEF MhInv, TypeOK, DataInv
    <3>2. /\ ni' \in [Leaf -> SUBSET Vlan] /\ bind' \in [Leaf -> SUBSET Vlan]
          /\ ni'[l] = ni[l] \ range /\ bind'[l] = bind[l] \ range
          /\ \A k \in Leaf : k # l => ni'[k] = ni[k] /\ bind'[k] = bind[k]
      BY <1>3, <2>2, <3>1
    <3>3. \A k \in Leaf : bind'[k] \subseteq sub'[k] \cap ni'[k]
      BY <1>1, <3>2 DEF MhInv, TypeOK
    <3>4. ASSUME NEW r \in routes' PROVE r[3] \in bind'[r[1]] /\ r[2] \in Leaf \ {r[1]}
      <4>1. r \in routes /\ (r[1] = l => r[3] \notin range)
        BY <2>2
      <4>2. r[1] \in Leaf /\ r[3] \in bind[r[1]] /\ r[2] \in Leaf \ {r[1]}
        BY <4>1 DEF MhInv, TypeOK, DataInv
      <4> QED
        BY <3>2, <4>1, <4>2
    <3>5. DataInv'
      BY <1>1, <2>2, <3>2 DEF MhInv, DataInv
    <3> QED
      BY <1>1, <3>2, <3>3, <3>4, <3>5 DEF MhInv, TypeOK
  <2> QED
    BY <1>1, <2>1, <2>2
<1>5. HandlerInv' /\ ColdInv' /\ WarmInv' /\ StableInv' /\ CountInv' /\ CompleteIsTrue' /\ UnclearedInv'
  BY <1>1, <1>3 DEF MhInv, HandlerInv, ColdInv, WarmInv, WarmLeaf, StableInv, CountInv,
                    CompleteIsTrue, UnclearedInv, UnclearedLeaf
<1> QED
  BY <1>3, <1>4, <1>5 DEF MhInv
-----------------------------------------------------------------------------
(* The theorems.                                                           *)

\* The leaves, the handlers on them and the routes between them.
LEMMA FabricStep ==
  ASSUME MhInv, Fabric
  PROVE  MhInv'
<1>1. UNCHANGED tool
  BY DEF Fabric
<1>2. ASSUME NEW l \in Leaf, NEW v \in Vlan, Detect(l, v) PROVE MhInv'
  BY <1>1, <1>2, ActivateStep DEF Detect
<1>3. ASSUME NEW l \in Leaf, NEW v \in Vlan, Expire(l, v) PROVE MhInv'
  BY <1>1, <1>3, ExpireStep
<1>4. ASSUME NEW r \in routes, Import(r) PROVE MhInv'
  <2>1. r[2] \in Leaf /\ r[3] \in Vlan
    BY DEF MhInv, DataInv
  <2>2. Activate(r[2], r[3]) /\ routes' \subseteq routes
    BY <1>4 DEF Import
  <2> QED
    BY <1>1, <2>1, <2>2, ActivateStep
<1>5. ASSUME NEW l \in Leaf, Invoke(l) PROVE MhInv'
  BY <1>1, <1>5, InvokeStep
<1>6. ASSUME NEW l \in Leaf, Commit(l) PROVE MhInv'
  BY <1>1, <1>6, CommitStep
<1> QED
  BY <1>2, <1>3, <1>4, <1>5, <1>6 DEF Fabric

\* Every step keeps the invariant.
LEMMA NextMhInv == MhInv /\ [RateNext]_<<mh, vars, single>> => MhInv'
<1> SUFFICES ASSUME MhInv, [RateNext]_<<mh, vars, single>> PROVE MhInv'
  OBVIOUS
<1>1. CASE Next
  BY <1>1, FabricStep, StartStep, InterruptStep, CheckStep, PrewarmStep, TriggerStep,
     PollStep, DeleteClientsStep, ClearStep, TeardownStep DEF Next, ToolStep
<1>2. CASE UNCHANGED vars
  <2>1. UNCHANGED <<active, event, running, snap, sub, bind, ni, routes,
                    client, pc, todo, runs, range, memory, uncleared>>
    BY <1>2 DEF vars, leaves, tool
  <2>2. TypeOK' /\ DataInv' /\ TodoInv' /\ Left' = Left /\ Visited' = Visited
    BY <2>1 DEF MhInv, TypeOK, DataInv, TodoInv, IsRest, Left, Elems, Visited
  <2>3. HandlerInv' /\ ColdInv' /\ WarmInv' /\ StableInv'
    BY <2>1, <2>2 DEF MhInv, HandlerInv, ColdInv, ColdLeaf, WarmInv, WarmLeaf, StableInv, StableLeaf
  <2>4. CountInv' /\ CompleteIsTrue' /\ UnclearedInv'
    BY <2>1, <2>2 DEF MhInv, CountInv, CompleteIsTrue, UnclearedInv, UnclearedLeaf
  <2> QED
    BY <2>2, <2>3, <2>4 DEF MhInv
<1> QED
  BY <1>1, <1>2 DEF RateNext

\* The invariant holds in every run of the tool, of either mode.
THEOREM MhInvariance == RateSpec => []MhInv
BY InitMhInv, NextMhInv, PTL DEF RateSpec

\* The variables keep their types; a binding is one of a subinterface into a
\* MAC-VRF that exists, and a route one of a binding.
THEOREM TypeCorrect == RateSpec => []TypeOK
<1>1. MhInv => TypeOK
  BY DEF MhInv
<1> QED
  BY <1>1, MhInvariance, PTL

\* A run that checked everything, begun when nothing was going on, triggers a
\* range that no leaf has: the two checks, made leaf after leaf while the
\* handlers run, miss nothing.
THEOREM TriggeredCold == RateSpec => []ColdWhenTriggered
<1>1. MhInv => ColdWhenTriggered
  <2> SUFFICES ASSUME MhInv, pc = "trigger", memory.sound, NEW l \in Leaf
               PROVE  (active[l] \cup sub[l]) \cap range = {}
    BY DEF ColdWhenTriggered
  <2>1. ColdLeaf(l)
    BY DEF MhInv, ColdInv
  <2> QED
    BY <2>1 DEF ColdLeaf
<1> QED
  BY <1>1, MhInvariance, PTL

\* What the tool triggers never lacks a MAC-VRF, whatever pre-warm commits
\* failed and whatever an earlier run left.
THEOREM NothingPoisoned == RateSpec => []NoSelfPoisoning
<1>1. MhInv => NoSelfPoisoning
  <2> SUFFICES ASSUME MhInv, pc \in {"poll", "clients", "clear"}, NEW l \in Leaf
               PROVE  range \subseteq ni[l]
    BY DEF NoSelfPoisoning
  <2> QED
    BY DEF MhInv, WarmInv, WarmLeaf
<1> QED
  BY <1>1, MhInvariance, PTL

\* A measurement that ended as complete saw every leaf complete at one time,
\* although it read one leaf after the other while the handlers ran.
THEOREM CompleteMeansAll == RateSpec => []CompleteIsTrue
<1>1. MhInv => CompleteIsTrue
  BY DEF MhInv
<1> QED
  BY <1>1, MhInvariance, PTL

\* A finished run leaves nothing active it does not know of, and nothing
\* configured where nothing is active.
THEOREM RunCleansUp == RateSpec => []CleansUp
<1>1. MhInv => CleansUp
  <2> SUFFICES ASSUME MhInv, pc = "done", NEW l \in Leaf
               PROVE  /\ \A v \in active[l] \cap range : <<l, v>> \in uncleared
                      /\ active[l] = {} /\ ~event[l] /\ ~running[l] => sub[l] \cap range = {}
    BY DEF CleansUp
  <2>1. \A v \in active[l] \cap range : <<l, v>> \in uncleared
    BY DEF MhInv, UnclearedInv, UnclearedLeaf
  <2>2. active[l] = {} /\ ~event[l] /\ ~running[l] => sub[l] = {}
    BY DEF MhInv, HandlerInv
  <2> QED
    BY <2>1, <2>2
<1> QED
  BY <1>1, MhInvariance, PTL
-----------------------------------------------------------------------------
(* The single-homed mode.                                                  *)

Never    == Single!Never
Measured == Single!Measured
N        == Len(Measured)

Reading == {"read", "fdb", "judge"}
Phases  == {"sync", "trigger", "dsttrigger", "sleep"} \cup Reading \cup Single!Over

\* The leaves do what they promised, nothing else.
WorldInv ==
  /\ evpn \in BOOLEAN
  /\ provisions \subseteq {Measured[n] : n \in 1..N} \X Vlan
  /\ learns \subseteq Vlan /\ (~evpn => learns = {})
  /\ up \subseteq provisions
  /\ born \in [Vlan -> Nat \cup {Never}]
  /\ \A v \in Vlan :
       born[v] # Never => v \in learns /\ born[v] <= clock /\ phase \notin {"sync", "trigger"}
  /\ clock \in Nat /\ since \in 0..clock

\* The ports of a round still to be read are the last of those measured.
ToolInv ==
  /\ phase \in Phases /\ (phase \in {"dsttrigger", "fdb"} => evpn)
  /\ left \in Nat /\ seen \in Nat /\ fdb \subseteq Vlan
  /\ blind \in BOOLEAN /\ blinked \in BOOLEAN
  /\ lastUp \in Nat /\ lastFdb \in Nat /\ lastProgress \in 0..clock
  /\ appear \in [Vlan -> Nat \cup {Never}]
  /\ phase \in Reading =>
       /\ ports \in Seq(Single!Port) /\ Len(ports) \in 0..N
       /\ phase = "read" <=> ports # <<>>
       /\ \A n \in 1..Len(ports) : ports[n] = Measured[(N - Len(ports)) + n]
       /\ Len(ports) = N => seen = 0
  /\ phase \in {"read", "fdb"} => fdb = {}
  /\ phase = "judge" /\ ~evpn => fdb = {}

\* The sample that is kept is the one with the shortest round trip.
SyncInv ==
  /\ shortest \in 0..MaxRtt
  /\ best = {} => shortest = MaxRtt
  /\ \A kept \in best :
       /\ kept.off \in Int /\ kept.rtt = shortest
       /\ 2 * Skew - kept.off <= shortest /\ kept.off - 2 * Skew <= shortest

\* Ports read in this round, reads done of it, and the time some reads take.
Polled  == N - Len(ports)
NumReads == Single!Reads(evpn)
Taken    == IF phase = "judge" THEN NumReads ELSE Polled
Span(k)  == k * ReadTime

\* When what the tool is at ends.
TimeInv ==
  /\ phase = "sync" => clock = 0
  /\ phase = "trigger" => clock + left <= TriggerTime
  /\ phase = "dsttrigger" => left <= TriggerTime /\ clock + left <= 2 * TriggerTime
  /\ phase \in Reading =>
       left <= ReadTime /\ clock + left < MaxWait + Span(Taken) + ReadTime
  /\ phase = "sleep" =>
       left <= Interval /\ clock + left < MaxWait + Span(NumReads) + ReadTime + Interval
  /\ phase \in Single!Over =>
       \/ clock <= 2 * TriggerTime
       \/ clock < MaxWait + Span(NumReads) + ReadTime + Interval

\* The latest a MAC that is in the FDB, and has not been found, can be found.
Slack == Single!Max({TriggerTime, ReadTime + Interval})

Late(v) ==
  CASE phase = "dsttrigger" -> TriggerTime
    [] phase = "read"  -> Slack + ReadTime
    [] phase = "fdb"   -> Slack + 2 * ReadTime
    [] phase = "judge" -> IF v \in fdb THEN Slack + 3 * ReadTime ELSE ReadTime
    [] phase = "sleep" -> ReadTime + Interval
    [] OTHER -> 0

FdbInv ==
  \A v \in Vlan :
    /\ v \in fdb => born[v] # Never
    /\ appear[v] # Never =>
         /\ born[v] # Never /\ born[v] <= appear[v]
         /\ ~blinked => appear[v] <= born[v] + Slack + 3 * ReadTime
    /\ phase \in Reading \cup {"dsttrigger", "sleep"} /\ ~blinked
       /\ born[v] # Never /\ appear[v] = Never => clock + left <= born[v] + Late(v)

\* What reads of the ports of positions S would count now: a port that is
\* measured twice counts twice.
Pairs(m, S, U) == {x \in S \X U : x[2][1] = m[x[1]]}
UpOn(S)  == Cardinality(Pairs(Measured, S, up))
AllUp    == UpOn(1..N)
Born     == {v \in Vlan : born[v] # Never}
FoundNow == {v \in Vlan : appear[v] # Never \/ v \in fdb}

\* The leaves are never idle for longer than Gap while work is outstanding;
\* what happened after the last progress the tool has not counted; so once a
\* round has begun late enough after that, it will count more.
StopInv ==
  /\ phase \in Reading \cup {"sleep"} /\ Single!Outstanding => clock <= since + Gap
  /\ lastUp <= AllUp /\ lastFdb <= Cardinality(Born)
  /\ since > lastProgress /\ since > 2 * TriggerTime =>
       lastUp + lastFdb < AllUp + Cardinality(Born)
  /\ phase \in Reading => seen <= UpOn(1..Polled)
  /\ phase \in Reading /\ Polled > 0 /\ ~blind /\ Single!Outstanding
     /\ clock + left > lastProgress + Gap + 2 * TriggerTime + Span(Taken) =>
       seen + UpOn(Polled + 1 .. N) + Cardinality(IF phase = "judge" THEN FoundNow ELSE Born)
         > lastUp + lastFdb
  /\ NoPrematureStop

\* The inductive invariant.
SingleInv == WorldInv /\ ToolInv /\ SyncInv /\ TimeInv /\ FdbInv /\ StopInv
-----------------------------------------------------------------------------
(* Facts about the constants and about counting.                           *)

\* SetupTimes brings its own copy of FiniteSets.
LEMMA SameOperators ==
  ASSUME NEW S
  PROVE  Single!Cardinality(S) = Cardinality(S) /\ (Single!IsFiniteSet(S) <=> IsFiniteSet(S))
<1>1. Single!Cardinality(S) = Cardinality(S)
  BY DEF Single!Cardinality, Cardinality
<1>2. Single!IsFiniteSet(S) <=> IsFiniteSet(S)
  BY DEF Single!IsFiniteSet, IsFiniteSet
<1> QED
  BY <1>1, <1>2

\* The larger of two numbers.
LEMMA MaxOfTwo ==
  ASSUME NEW a \in Int, NEW b \in Int
  PROVE  Single!Max({a, b}) \in {a, b} /\ Single!Max({a, b}) >= a /\ Single!Max({a, b}) >= b
<1>1. \E x \in {a, b} : \A y \in {a, b} : x >= y
  OBVIOUS
<1> QED
  BY <1>1 DEF Single!Max

\* The same for the smaller one.
LEMMA MinOfTwo ==
  ASSUME NEW a \in Int, NEW b \in Int
  PROVE  Single!Min({a, b}) \in {a, b} /\ Single!Min({a, b}) <= a /\ Single!Min({a, b}) <= b
<1>1. \E x \in {a, b} : \A y \in {a, b} : x <= y
  OBVIOUS
<1> QED
  BY <1>1 DEF Single!Min

\* The constants.
LEMMA Constants ==
  /\ IsFiniteSet(Vlan)
  /\ Ports \in Seq(Single!Port) /\ Len(Ports) \in Nat /\ Len(Ports) >= 1
  /\ Gap \in Nat /\ TriggerTime \in Nat /\ Settle \in Nat /\ MaxWait \in Nat
  /\ ReadTime \in Nat /\ ReadTime > 0 /\ Interval \in Nat /\ Settle > 0
  /\ MaxRtt \in Nat /\ Skew \in Int /\ Never = -1
  /\ Slack \in Nat /\ Slack >= TriggerTime /\ Slack >= ReadTime + Interval
<1>1. /\ Single!IsFiniteSet(Vlan) /\ Ports \in Seq(Single!Port) /\ Ports # <<>>
      /\ {Gap, TriggerTime, ReadTime, Interval, Settle, MaxWait} \subseteq Nat \ {0}
      /\ MaxRtt \in Nat /\ Skew \in Int
  BY RateAssumption DEF Single!TimesAssumption
<1>2. Len(Ports) \in Nat /\ Len(Ports) >= 1
  BY <1>1
<1>3. Gap \in Nat /\ TriggerTime \in Nat /\ Settle \in Nat /\ MaxWait \in Nat
      /\ ReadTime \in Nat /\ ReadTime > 0 /\ Interval \in Nat /\ Settle > 0
  BY <1>1
<1>4. Slack \in {TriggerTime, ReadTime + Interval} /\ Slack >= TriggerTime
      /\ Slack >= ReadTime + Interval
  BY <1>3, MaxOfTwo DEF Slack
<1> QED
  BY <1>1, <1>2, <1>3, <1>4, SameOperators DEF Never, Single!Never

\* Reads take ReadTime each.
LEMMA Spans ==
  /\ Span(0) = 0
  /\ \A k \in Nat : Span(k) \in Nat /\ Span(k + 1) = Span(k) + ReadTime
<1>1. ReadTime \in Nat
  BY Constants
<1> QED
  BY <1>1 DEF Span

\* What a mode measures.
LEMMA Modes ==
  ASSUME evpn \in BOOLEAN
  PROVE  /\ Measured \in Seq(Single!Port) /\ N \in Nat /\ N >= 1
         /\ NumReads \in Nat
         /\ evpn => N = 1 /\ NumReads = 2
         /\ ~evpn => NumReads = N
         /\ Settle > 2 * TriggerTime + Gap + Span(NumReads)
<1>1. CASE evpn
  <2>1. Measured = SubSeq(Ports, 1, 1)
    BY <1>1 DEF Measured, Single!Measured
  <2>2. Measured \in Seq(Single!Port) /\ Len(Measured) = 1
    BY <2>1, Constants
  <2>3. N = 1 /\ NumReads = 2
    BY <1>1, <2>2 DEF N, NumReads, Single!Reads
  <2>4. Settle > 2 * TriggerTime + Gap + NumReads * ReadTime
    BY RateAssumption DEF Single!TimesAssumption, NumReads
  <2> QED
    BY <1>1, <2>2, <2>3, <2>4 DEF Span
<1>2. CASE ~evpn
  <2>1. Measured = Ports
    BY <1>2 DEF Measured, Single!Measured
  <2>2. N = Len(Ports) /\ NumReads = Len(Ports)
    BY <1>2, <2>1 DEF N, NumReads, Single!Reads
  <2>3. Settle > 2 * TriggerTime + Gap + NumReads * ReadTime
    BY RateAssumption DEF Single!TimesAssumption, NumReads
  <2> QED
    BY <1>2, <2>1, <2>2, <2>3, Constants DEF Span
<1> QED
  BY <1>1, <1>2

\* Counting by position.
LEMMA PairsFinite ==
  ASSUME NEW m, NEW S, IsFiniteSet(S), NEW U, IsFiniteSet(U)
  PROVE  IsFiniteSet(Pairs(m, S, U)) /\ Cardinality(Pairs(m, S, U)) \in Nat
<1>1. IsFiniteSet(S \X U)
  BY FS_Product
<1>2. Pairs(m, S, U) \subseteq S \X U
  BY DEF Pairs
<1>3. IsFiniteSet(Pairs(m, S, U))
  BY <1>1, <1>2, FS_Subset
<1> QED
  BY <1>3, FS_CardinalityType

\* Positions of different reads are counted one after the other.
LEMMA PairsSplit ==
  ASSUME NEW m, NEW S, IsFiniteSet(S), NEW T, IsFiniteSet(T), S \cap T = {},
         NEW U, IsFiniteSet(U)
  PROVE  Cardinality(Pairs(m, S \cup T, U))
           = Cardinality(Pairs(m, S, U)) + Cardinality(Pairs(m, T, U))
<1>1. Pairs(m, S \cup T, U) = Pairs(m, S, U) \cup Pairs(m, T, U)
  BY DEF Pairs
<1>2. Pairs(m, S, U) \cap Pairs(m, T, U) = {}
  BY DEF Pairs
<1> DEFINE A == Pairs(m, S, U)
           B == Pairs(m, T, U)
<1>3. /\ IsFiniteSet(A) /\ Cardinality(A) \in Nat
      /\ IsFiniteSet(B) /\ Cardinality(B) \in Nat
  BY PairsFinite
<1>4. Cardinality({}) = 0
  BY FS_EmptySet
<1>5. Cardinality(A \cup B) = Cardinality(A) + Cardinality(B) - Cardinality(A \cap B)
  BY <1>3, FS_Union
<1>6. Cardinality(A \cap B) = 0
  BY <1>2, <1>4
<1>7. Cardinality(A \cup B) = Cardinality(A) + Cardinality(B)
  <2> HIDE DEF A, B
  <2> QED
    BY <1>3, <1>5, <1>6
<1> QED
  BY <1>1, <1>7

\* What one read counts.
LEMMA PairsOfPort ==
  ASSUME NEW m, NEW n, NEW U, IsFiniteSet(U),
         NEW P \in SUBSET U, \A p \in U : p \in P <=> p[1] = m[n]
  PROVE  Cardinality(Pairs(m, {n}, U)) = Cardinality(P)
<1> DEFINE f == [p \in P |-> <<n, p>>]
<1>1. IsFiniteSet(P)
  BY FS_Subset
<1>2. f \in Bijection(P, Pairs(m, {n}, U))
  <2>1. \A p \in P : f[p] \in Pairs(m, {n}, U)
    BY DEF Pairs
  <2>2. \A p, q \in P : f[p] = f[q] => p = q
    OBVIOUS
  <2>3. \A x \in Pairs(m, {n}, U) : x[2] \in P /\ f[x[2]] = x
    BY DEF Pairs
  <2> QED
    BY <2>1, <2>2, <2>3 DEF Bijection, Injection, Surjection, IsInjective
<1> QED
  BY <1>1, <1>2, FS_Bijection DEF ExistsBijection

\* More subinterfaces count more.
LEMMA PairsGrow ==
  ASSUME NEW m, NEW S, IsFiniteSet(S), NEW U, NEW V, IsFiniteSet(V), U \subseteq V
  PROVE  /\ Cardinality(Pairs(m, S, U)) <= Cardinality(Pairs(m, S, V))
         /\ \A p \in V \ U : (\E n \in S : m[n] = p[1]) =>
              Cardinality(Pairs(m, S, U)) < Cardinality(Pairs(m, S, V))
<1>1. IsFiniteSet(Pairs(m, S, V)) /\ Cardinality(Pairs(m, S, V)) \in Nat
  BY PairsFinite
<1>2. Pairs(m, S, U) \subseteq Pairs(m, S, V)
  BY DEF Pairs
<1>3. IsFiniteSet(U)
  BY FS_Subset
<1>4. Cardinality(Pairs(m, S, U)) \in Nat
  BY <1>3, PairsFinite
<1>5. Cardinality(Pairs(m, S, U)) <= Cardinality(Pairs(m, S, V))
  BY <1>1, <1>2, FS_Subset
<1>6. ASSUME NEW p \in V \ U, NEW n \in S, m[n] = p[1]
      PROVE  Cardinality(Pairs(m, S, U)) < Cardinality(Pairs(m, S, V))
  <2>1. <<n, p>> \in Pairs(m, S, V) /\ <<n, p>> \notin Pairs(m, S, U)
    BY <1>6 DEF Pairs
  <2>2. Pairs(m, S, U) # Pairs(m, S, V)
    BY <2>1
  <2>3. Cardinality(Pairs(m, S, U)) # Cardinality(Pairs(m, S, V))
    BY <1>1, <1>2, <2>2, FS_Subset
  <2> QED
    BY <1>1, <1>4, <1>5, <2>3
<1> QED
  BY <1>5, <1>6

\* What there is to count is finite, and a round counts the ports it has read
\* and those it has not.
LEMMA Counting ==
  ASSUME WorldInv
  PROVE  /\ IsFiniteSet(up) /\ IsFiniteSet(Born) /\ Cardinality(Born) \in Nat
         /\ \A k \in 0..N : /\ UpOn(1..k) \in Nat /\ UpOn(k + 1 .. N) \in Nat
                            /\ AllUp = UpOn(1..k) + UpOn(k + 1 .. N)
         /\ \A k \in 0..N-1 :
              /\ UpOn(1 .. k + 1) = UpOn(1..k) + UpOn({k + 1})
              /\ UpOn(k + 1 .. N) = UpOn({k + 1}) + UpOn(k + 2 .. N)
         /\ \A n \in 1..N :
              /\ UpOn({n}) \in Nat
              /\ UpOn({n}) = Single!Cardinality({p \in up : p[1] = Measured[n]})
         /\ UpOn(1..0) = 0 /\ UpOn(N + 1 .. N) = 0
         /\ AllUp \in Nat
<1>1. evpn \in BOOLEAN /\ N \in Nat /\ N >= 1
  BY Modes DEF WorldInv
<1>2. \A a, b \in Int : IsFiniteSet(a..b)
  BY FS_Interval
<1>3. IsFiniteSet(up)
  <2> DEFINE P == {Measured[n] : n \in 1..N}
             f == [n \in 1..N |-> Measured[n]]
  <2>1. f \in Surjection(1..N, P)
    BY DEF Surjection
  <2>2. IsFiniteSet(P)
    BY <1>1, <1>2, <2>1, FS_Surjection
  <2>3. IsFiniteSet(P \X Vlan)
    BY <2>2, Constants, FS_Product
  <2>4. up \subseteq P \X Vlan
    BY DEF WorldInv
  <2> QED
    BY <2>3, <2>4, FS_Subset
<1>4. IsFiniteSet(Born) /\ Cardinality(Born) \in Nat
  BY Constants, FS_Subset, FS_CardinalityType DEF Born
<1>5. \A S : IsFiniteSet(S) => UpOn(S) \in Nat
  BY <1>3, PairsFinite DEF UpOn
<1>6. \A S, T : IsFiniteSet(S) /\ IsFiniteSet(T) /\ S \cap T = {} =>
                UpOn(S \cup T) = UpOn(S) + UpOn(T)
  BY <1>3, PairsSplit DEF UpOn
<1>7. \A k \in 0..N : /\ UpOn(1..k) \in Nat /\ UpOn(k + 1 .. N) \in Nat
                      /\ AllUp = UpOn(1..k) + UpOn(k + 1 .. N)
  <2> SUFFICES ASSUME NEW k \in 0..N
               PROVE  /\ UpOn(1..k) \in Nat /\ UpOn(k + 1 .. N) \in Nat
                      /\ AllUp = UpOn(1..k) + UpOn(k + 1 .. N)
    OBVIOUS
  <2>1. 1..N = (1..k) \cup (k + 1 .. N) /\ (1..k) \cap (k + 1 .. N) = {}
    BY <1>1
  <2>2. IsFiniteSet(1..k) /\ IsFiniteSet(k + 1 .. N)
    BY <1>1, <1>2
  <2> QED
    BY <1>5, <1>6, <2>1, <2>2 DEF AllUp
<1>8. ASSUME NEW k \in 0..N-1
      PROVE  /\ UpOn(1 .. k + 1) = UpOn(1..k) + UpOn({k + 1})
             /\ UpOn(k + 1 .. N) = UpOn({k + 1}) + UpOn(k + 2 .. N)
  <2>1. /\ 1 .. k + 1 = (1..k) \cup {k + 1} /\ (1..k) \cap {k + 1} = {}
        /\ k + 1 .. N = {k + 1} \cup (k + 2 .. N) /\ {k + 1} \cap (k + 2 .. N) = {}
    BY <1>1
  <2>2. k \in Int /\ k + 2 \in Int /\ N \in Int
    BY <1>1
  <2>3. IsFiniteSet(1..k) /\ IsFiniteSet(k + 2 .. N)
    BY <1>2, <2>2
  <2>4. IsFiniteSet({k + 1})
    BY FS_Singleton
  <2> QED
    BY <1>6, <2>1, <2>3, <2>4
<1>9. ASSUME NEW n \in 1..N
      PROVE  /\ UpOn({n}) \in Nat
             /\ UpOn({n}) = Single!Cardinality({p \in up : p[1] = Measured[n]})
  <2>1. IsFiniteSet({n})
    BY FS_Singleton
  <2> DEFINE P == {p \in up : p[1] = Measured[n]}
  <2>2. Cardinality(Pairs(Measured, {n}, up)) = Cardinality(P)
    <3>1. P \in SUBSET up /\ \A p \in up : p \in P <=> p[1] = Measured[n]
      OBVIOUS
    <3> HIDE DEF P
    <3> QED
      BY <1>3, <3>1, PairsOfPort
  <2>3. Cardinality(P) = Single!Cardinality(P)
    BY SameOperators
  <2> QED
    BY <1>5, <2>1, <2>2, <2>3 DEF UpOn
<1>10. UpOn(1..0) = 0 /\ UpOn(N + 1 .. N) = 0
  <2>1. 1..0 = {} /\ N + 1 .. N = {}
    BY <1>1
  <2>2. Pairs(Measured, {}, up) = {}
    BY DEF Pairs
  <2> QED
    BY <2>1, <2>2, FS_EmptySet DEF UpOn
<1>11. AllUp \in Nat
  BY <1>1, <1>2, <1>5 DEF AllUp
<1> QED
  BY <1>3, <1>4, <1>7, <1>8, <1>9, <1>10, <1>11

\* The bound of FdbInv is a time.
LEMMA LateIsTime ==
  ASSUME NEW v
  PROVE  Late(v) \in Nat
<1>1. CASE phase = "judge"
  BY <1>1, Constants DEF Late
<1>2. CASE phase \in {"dsttrigger", "read", "fdb", "sleep"}
  BY <1>2, Constants DEF Late
<1>3. CASE phase \notin {"dsttrigger", "read", "fdb", "judge", "sleep"}
  BY <1>3 DEF Late
<1> QED
  BY <1>1, <1>2, <1>3
-----------------------------------------------------------------------------
(* The leaves, and time.                                                   *)

\* A subinterface comes up: all counts to come are larger.
LEMMA ProvisionStep ==
  ASSUME SingleInv, NEW p, Single!Provision(p), since' = clock,
         UNCHANGED <<evpn, provisions, learns, clock, phase, left>>,
         UNCHANGED <<best, shortest>>,
         UNCHANGED <<ports, seen, fdb, blind, blinked>>,
         UNCHANGED <<lastUp, lastFdb, lastProgress, appear>>
  PROVE  SingleInv'
<1>1. /\ p \in provisions \ up /\ up' = up \cup {p} /\ born' = born
      /\ phase \notin Single!Over /\ phase # "sync"
  BY DEF Single!Provision, Single!Triggered
<1>2. /\ WorldInv /\ evpn \in BOOLEAN /\ up \subseteq provisions
      /\ provisions \subseteq {Measured[n] : n \in 1..N} \X Vlan
      /\ clock \in Nat /\ since \in 0..clock
  BY DEF SingleInv, WorldInv
<1>3. N \in Int /\ Measured' = Measured /\ N' = N /\ NumReads' = NumReads
      /\ Polled' = Polled /\ Taken' = Taken
  BY <1>2, Modes DEF Measured, Single!Measured, N, NumReads, Polled, Taken
<1>4. WorldInv'
  BY <1>1, <1>2, <1>3 DEF WorldInv
<1>5. ToolInv'
  BY <1>3 DEF SingleInv, ToolInv
<1>6. SyncInv' /\ TimeInv'
  BY <1>3 DEF SingleInv, SyncInv, TimeInv
<1>7. FdbInv'
  BY <1>1 DEF SingleInv, FdbInv, Late
<1>8. StopInv'
  <2>1. Single!Outstanding
    BY <1>1 DEF Single!Outstanding
  <2>2. Born' = Born /\ FoundNow' = FoundNow
    BY <1>1 DEF Born, FoundNow
  <2>3. /\ IsFiniteSet(up) /\ IsFiniteSet(up') /\ Cardinality(Born) \in Nat
    BY <1>1, <1>2, Counting, FS_AddElement
  <2>4. \A a, b \in Int : IsFiniteSet(a..b)
    BY FS_Interval
  <2>5. \A a, b \in Int : UpOn(a..b) <= UpOn(a..b)'
    BY <1>1, <1>3, <2>3, <2>4, PairsGrow DEF UpOn
  <2>5b. \A a, b \in Int : UpOn(a..b) \in Nat /\ UpOn(a..b)' \in Nat
    BY <2>3, <2>4, PairsFinite DEF UpOn
  <2>6. AllUp < AllUp'
    <3>1. \E n \in 1..N : Measured[n] = p[1]
      BY <1>1, <1>2
    <3>2. p \in up' \ up
      BY <1>1
    <3>3. IsFiniteSet(1..N)
      BY <1>3, <2>4
    <3>4. UpOn(1..N)' = Cardinality(Pairs(Measured, 1..N, up'))
      BY <1>3 DEF UpOn
    <3>5. UpOn(1..N) < Cardinality(Pairs(Measured, 1..N, up'))
      BY <1>1, <2>3, <3>1, <3>2, <3>3, PairsGrow DEF UpOn
    <3> QED
      BY <1>3, <3>4, <3>5 DEF AllUp
  <2>7. AllUp \in Nat /\ AllUp' \in Nat /\ lastUp \in Nat /\ lastFdb \in Nat /\ seen \in Nat
        /\ lastProgress \in Nat
    <3>1. lastUp \in Nat /\ lastFdb \in Nat /\ seen \in Nat /\ lastProgress \in 0..clock
      BY DEF SingleInv, ToolInv
    <3>2. UpOn(1..N) \in Nat /\ UpOn(1..N)' \in Nat
      BY <1>3, <2>5b
    <3> QED
      BY <1>2, <3>1, <3>2 DEF AllUp
  <2>8. lastUp <= AllUp /\ lastFdb <= Cardinality(Born)
    BY DEF SingleInv, StopInv
  <2>9. phase \in Reading => /\ Polled \in Int
                             /\ UpOn(1..Polled) \in Nat /\ UpOn(1..Polled)' \in Nat
                             /\ UpOn(Polled + 1 .. N) \in Nat /\ UpOn(Polled + 1 .. N)' \in Nat
    <3>1. phase \in Reading => Len(ports) \in 0..N
      BY DEF SingleInv, ToolInv
    <3>2. phase \in Reading => Polled \in Int /\ Polled + 1 \in Int
      BY <1>3, <3>1 DEF Polled
    <3>3. phase \in Reading => UpOn(1..Polled) \in Nat /\ UpOn(1..Polled)' \in Nat
      BY <1>3, <2>5b, <3>2
    <3>4. phase \in Reading => UpOn(Polled + 1 .. N) \in Nat
      BY <1>3, <2>5b, <3>2
    <3>5. phase \in Reading => UpOn(Polled + 1 .. N)' \in Nat
      BY <1>3, <2>5b, <3>2
    <3> QED
      BY <3>2, <3>3, <3>4, <3>5
  <2>10. UpOn(1..Polled)' >= UpOn(1..Polled) \/ phase \notin Reading
    BY <1>3, <2>5, <2>9
  <2>11. UpOn(Polled + 1 .. N)' >= UpOn(Polled + 1 .. N) \/ phase \notin Reading
    BY <1>3, <2>5, <2>9
  <2>12. clock' <= since' + Gap
    BY <1>2, Constants
  <2>13. lastUp' + lastFdb' < AllUp' + Cardinality(Born')
    BY <2>2, <2>3, <2>6, <2>7, <2>8
  <2>14. phase' \in Reading => seen' <= UpOn(1..Polled)'
    BY <2>7, <2>9, <2>10 DEF SingleInv, StopInv
  <2>15. ASSUME phase' \in Reading, Polled' > 0, ~blind',
                clock' + left' > lastProgress' + Gap + 2 * TriggerTime + Span(Taken')
         PROVE  seen' + UpOn(Polled + 1 .. N)'
                  + Cardinality(IF phase' = "judge" THEN FoundNow' ELSE Born') > lastUp' + lastFdb'
    <3> DEFINE F == IF phase = "judge" THEN FoundNow ELSE Born
    <3>1. seen + UpOn(Polled + 1 .. N) + Cardinality(F) > lastUp + lastFdb
      BY <1>3, <2>1, <2>15 DEF SingleInv, StopInv
    <3>2. Cardinality(F) \in Nat
      <4>1. IsFiniteSet(FoundNow)
        BY Constants, FS_Subset DEF FoundNow
      <4> QED
        BY <2>3, <4>1, FS_CardinalityType
    <3>3. F = IF phase' = "judge" THEN FoundNow' ELSE Born'
      BY <2>2
    <3> HIDE DEF F
    <3> QED
      BY <2>7, <2>9, <2>11, <2>15, <3>1, <3>2, <3>3
  <2>16. NoPrematureStop'
    BY <1>1 DEF NoPrematureStop, Single!NoPrematureStop, Single!Over
  <2>17. lastUp' <= AllUp' /\ lastFdb' <= Cardinality(Born')
    BY <2>2, <2>6, <2>7, <2>8
  <2> QED
    BY <2>12, <2>13, <2>14, <2>15, <2>16, <2>17 DEF StopInv, AllUp
<1> QED
  BY <1>4, <1>5, <1>6, <1>7, <1>8 DEF SingleInv

\* A MAC gets into the FDB: it has not been found yet, and the tool is not
\* further from finding it than its place allows.
LEMMA LearnStep ==
  ASSUME SingleInv, NEW v \in Vlan, Single!Learn(v), since' = clock,
         UNCHANGED <<evpn, provisions, learns, clock, phase, left>>,
         UNCHANGED <<best, shortest>>,
         UNCHANGED <<ports, seen, fdb, blind, blinked>>,
         UNCHANGED <<lastUp, lastFdb, lastProgress, appear>>
  PROVE  SingleInv'
<1>1. /\ v \in learns /\ born[v] = Never /\ born' = [born EXCEPT ![v] = clock] /\ up' = up
      /\ phase \notin Single!Over /\ phase # "sync" /\ phase # "trigger"
  BY DEF Single!Learn, Single!Triggered, Never
<1>2. /\ WorldInv /\ evpn \in BOOLEAN /\ born \in [Vlan -> Nat \cup {Never}]
      /\ clock \in Nat /\ since \in 0..clock
  BY DEF SingleInv, WorldInv
<1>3. N \in Int /\ Measured' = Measured /\ N' = N /\ NumReads' = NumReads
      /\ Polled' = Polled /\ Taken' = Taken /\ Never = -1
  BY <1>2, Modes, Constants DEF Measured, Single!Measured, N, NumReads, Polled, Taken
<1>4. born' \in [Vlan -> Nat \cup {Never}] /\ born'[v] = clock
      /\ \A u \in Vlan \ {v} : born'[u] = born[u]
  BY <1>1, <1>2
<1>5. WorldInv'
  <2>1. \A u \in Vlan :
          born'[u] # Never => u \in learns /\ born'[u] <= clock /\ phase \notin {"sync", "trigger"}
    BY <1>1, <1>2, <1>4 DEF WorldInv
  <2> QED
    BY <1>1, <1>2, <1>3, <1>4, <2>1 DEF WorldInv, Never
<1>6. ToolInv'
  BY <1>3 DEF SingleInv, ToolInv, Never
<1>7. SyncInv' /\ TimeInv'
  BY <1>3 DEF SingleInv, SyncInv, TimeInv
<1>8. FdbInv'
  <2>1. v \notin fdb /\ appear[v] = Never
    BY <1>1 DEF SingleInv, FdbInv
  <2>2. clock \in Nat /\ left \in Nat /\ phase \in Phases
    BY <1>2 DEF SingleInv, ToolInv
  <2>3. phase \in Reading \cup {"dsttrigger", "sleep"} => left <= Late(v)
    BY <1>1, <2>1, <2>2, Constants DEF SingleInv, TimeInv, Late, Reading
  <2>4. Late(v) \in Nat
    BY LateIsTime
  <2>5. born'[v] # Never
    BY <1>2, <1>3, <1>4
  <2>6. phase \in Reading \cup {"dsttrigger", "sleep"} => clock + left <= born'[v] + Late(v)
    BY <1>4, <2>2, <2>3, <2>4
  <2>7. /\ v \in fdb' => born'[v] # Never
        /\ appear'[v] = Never
        /\ phase' \in Reading \cup {"dsttrigger", "sleep"} => clock' + left' <= born'[v] + Late(v)'
    BY <2>1, <2>5, <2>6 DEF Late
  <2>8. ASSUME NEW u \in Vlan \ {v}
        PROVE  /\ u \in fdb' => born'[u] # Never
               /\ appear'[u] # Never =>
                    /\ born'[u] # Never /\ born'[u] <= appear'[u]
                    /\ ~blinked' => appear'[u] <= born'[u] + Slack + 3 * ReadTime
               /\ phase' \in Reading \cup {"dsttrigger", "sleep"} /\ ~blinked'
                  /\ born'[u] # Never /\ appear'[u] = Never => clock' + left' <= born'[u] + Late(u)'
    BY <1>4 DEF SingleInv, FdbInv, Late
  <2> QED
    BY <2>7, <2>8 DEF FdbInv, Never
<1>9. StopInv'
  <2>1. Single!Outstanding
    BY <1>1, <1>3 DEF Single!Outstanding, Never, Single!Never
  <2>2. FoundNow' = FoundNow /\ Born' = Born \cup {v} /\ v \notin Born
    BY <1>1, <1>2, <1>3, <1>4 DEF Born, FoundNow, Never
  <2>3. /\ IsFiniteSet(up) /\ IsFiniteSet(Born) /\ Cardinality(Born) \in Nat
        /\ Cardinality(Born') = Cardinality(Born) + 1
    BY <1>2, <2>2, Counting, FS_AddElement
  <2>4. \A S : UpOn(S)' = UpOn(S)
    BY <1>1, <1>3 DEF UpOn
  <2>5. \A a, b \in Int : UpOn(a..b) \in Nat
    <3>1. \A a, b \in Int : IsFiniteSet(a..b)
      BY FS_Interval
    <3> QED
      BY <2>3, <3>1, PairsFinite DEF UpOn
  <2>6. /\ AllUp \in Nat /\ lastUp \in Nat /\ lastFdb \in Nat /\ seen \in Nat
        /\ lastProgress \in Nat /\ AllUp' = AllUp
    BY <1>2, <1>3, <2>4, <2>5 DEF SingleInv, ToolInv, AllUp
  <2>7. lastUp <= AllUp /\ lastFdb <= Cardinality(Born)
    BY DEF SingleInv, StopInv
  <2>8. phase' \in Reading => seen' <= UpOn(1..Polled)'
    BY <1>3, <2>4 DEF SingleInv, StopInv
  <2>9. phase \in Reading => UpOn(Polled + 1 .. N) \in Nat
    <3>1. phase \in Reading => Polled + 1 \in Int
      BY <1>3 DEF SingleInv, ToolInv, Polled
    <3> QED
      BY <1>3, <2>5, <3>1
  <2>10. ASSUME phase' \in Reading, Polled' > 0, ~blind',
                clock' + left' > lastProgress' + Gap + 2 * TriggerTime + Span(Taken')
         PROVE  seen' + UpOn(Polled + 1 .. N)'
                  + Cardinality(IF phase' = "judge" THEN FoundNow' ELSE Born') > lastUp' + lastFdb'
    <3> DEFINE F == IF phase = "judge" THEN FoundNow ELSE Born
               G == IF phase' = "judge" THEN FoundNow' ELSE Born'
    <3>1. seen + UpOn(Polled + 1 .. N) + Cardinality(F) > lastUp + lastFdb
      BY <1>3, <2>1, <2>10 DEF SingleInv, StopInv
    <3>2. Cardinality(F) \in Nat /\ Cardinality(G) \in Nat /\ Cardinality(F) <= Cardinality(G)
      <4>1. IsFiniteSet(FoundNow) /\ Cardinality(FoundNow) \in Nat
        BY Constants, FS_Subset, FS_CardinalityType DEF FoundNow
      <4> QED
        BY <2>2, <2>3, <4>1
    <3>3. UpOn(Polled + 1 .. N)' = UpOn(Polled + 1 .. N)
      BY <1>3, <2>4
    <3>4. seen' = seen /\ lastUp' = lastUp /\ lastFdb' = lastFdb /\ UpOn(Polled + 1 .. N) \in Nat
      BY <2>9, <2>10
    <3> HIDE DEF F, G
    <3>5. seen' + UpOn(Polled + 1 .. N)' + Cardinality(G) > lastUp' + lastFdb'
      BY <2>6, <3>1, <3>2, <3>3, <3>4
    <3> QED
      BY <3>5 DEF G
  <2>11. lastUp' + lastFdb' < AllUp' + Cardinality(Born')
    BY <2>3, <2>6, <2>7
  <2>12. lastUp' <= AllUp' /\ lastFdb' <= Cardinality(Born')
    BY <2>3, <2>6, <2>7
  <2>13. clock' <= since' + Gap
    BY <1>2, Constants
  <2>14. NoPrematureStop'
    BY <1>1 DEF NoPrematureStop, Single!NoPrematureStop, Single!Over
  <2> QED
    BY <2>8, <2>10, <2>11, <2>12, <2>13, <2>14 DEF StopInv, AllUp
<1> QED
  BY <1>5, <1>6, <1>7, <1>8, <1>9 DEF SingleInv

\* Time passes, for what the tool is at and for what it has still to see.
LEMMA TickStep == SingleInv /\ Single!Tick => SingleInv'
<1> SUFFICES ASSUME SingleInv, Single!Tick PROVE SingleInv'
  OBVIOUS
<1>1. /\ phase \notin Single!Over /\ phase # "sync"
      /\ clock' = clock + 1 /\ left' = left - 1 /\ left > 0
      /\ Single!Outstanding /\ phase \notin {"trigger", "dsttrigger"} => clock < since + Gap
  BY DEF Single!Tick, Single!Triggered
<1>2. /\ UNCHANGED <<evpn, provisions, learns, up, born, since, phase, best, shortest>>
      /\ UNCHANGED <<ports, seen, fdb, blind, blinked, lastUp, lastFdb, lastProgress, appear>>
  BY DEF Single!Tick, Single!world, Single!sync, Single!round, Single!poll
<1>3. /\ clock \in Nat /\ left \in Nat /\ evpn \in BOOLEAN /\ since \in 0..clock
      /\ lastProgress \in 0..clock
      /\ born \in [Vlan -> Nat \cup {Never}]
  BY DEF SingleInv, WorldInv, ToolInv
<1>4. Measured' = Measured /\ N' = N /\ NumReads' = NumReads
      /\ Polled' = Polled /\ Taken' = Taken /\ Never = -1
  BY <1>2, Constants DEF Measured, Single!Measured, N, NumReads, Polled, Taken
<1>5. clock' + left' = clock + left /\ clock' \in Nat /\ left' \in Nat /\ left' <= left
  BY <1>1, <1>3
<1>6. WorldInv'
  <2>1. \A u \in Vlan :
          born[u] # Never => u \in learns /\ born[u] <= clock' /\ phase \notin {"sync", "trigger"}
    BY <1>1, <1>3, <1>4 DEF SingleInv, WorldInv
  <2>2. since \in 0..clock'
    BY <1>1, <1>3
  <2> QED
    BY <1>2, <1>4, <1>5, <2>1, <2>2 DEF SingleInv, WorldInv, Never
<1>7. ToolInv'
  <2>1. lastProgress \in 0..clock'
    BY <1>1, <1>3
  <2> QED
    BY <1>2, <1>4, <1>5, <2>1 DEF SingleInv, ToolInv, Never
<1>8. SyncInv'
  BY <1>2 DEF SingleInv, SyncInv
<1>9. TimeInv'
  BY <1>1, <1>2, <1>3, <1>4, <1>5, Constants DEF SingleInv, TimeInv
<1>10. FdbInv'
  BY <1>2, <1>5 DEF SingleInv, FdbInv, Late, Never
<1>11. StopInv'
  <2>1. Single!Outstanding' <=> Single!Outstanding
    BY <1>2 DEF Single!Outstanding
  <2>2. Born' = Born /\ FoundNow' = FoundNow /\ \A S : UpOn(S)' = UpOn(S)
    BY <1>2, <1>4 DEF Born, FoundNow, UpOn, Never
  <2>3. AllUp' = AllUp
    BY <1>4, <2>2 DEF AllUp
  <2>4. phase \in Reading \cup {"sleep"} /\ Single!Outstanding => clock' <= since + Gap
    BY <1>1, <1>3, Constants DEF Reading
  <2>5. NoPrematureStop'
    BY <1>1, <1>2 DEF NoPrematureStop, Single!NoPrematureStop, Single!Over
  <2>6. UpOn(1..Polled)' = UpOn(1..Polled) /\ UpOn(Polled + 1 .. N)' = UpOn(Polled + 1 .. N)
    BY <1>4, <2>2
  <2> QED
    BY <1>2, <1>4, <1>5, <2>1, <2>2, <2>3, <2>4, <2>5, <2>6 DEF SingleInv, StopInv
<1> QED
  BY <1>6, <1>7, <1>8, <1>9, <1>10, <1>11 DEF SingleInv
-----------------------------------------------------------------------------
(* The tool.                                                               *)

\* No step of the tool changes the leaves, only the time from which their
\* silence counts.
LEMMA QuietWorld ==
  ASSUME SingleInv, UNCHANGED <<evpn, provisions, learns, up, born, clock>>,
         since' = since \/ since' = clock, phase' \notin {"sync", "trigger"} \/ phase = "sync"
  PROVE  /\ WorldInv'
         /\ Measured' = Measured /\ N' = N /\ NumReads' = NumReads
         /\ Born' = Born /\ AllUp' = AllUp /\ Never = -1
         /\ \A S : UpOn(S)' = UpOn(S)
         /\ Single!Outstanding' <=> Single!Outstanding
<1>1. Measured' = Measured /\ N' = N /\ NumReads' = NumReads
  BY DEF Measured, Single!Measured, N, NumReads
<1>2. Never = -1
  BY Constants
<1>3. Born' = Born /\ \A S : UpOn(S)' = UpOn(S)
  BY <1>1 DEF Born, UpOn, Never
<1>4. AllUp' = AllUp
  BY <1>1, <1>3 DEF AllUp
<1>5. Single!Outstanding' <=> Single!Outstanding
  BY DEF Single!Outstanding
<1>6. since' \in 0..clock
  BY DEF SingleInv, WorldInv
<1>7. WorldInv'
  BY <1>1, <1>6 DEF SingleInv, WorldInv, Never
<1> QED
  BY <1>1, <1>2, <1>3, <1>4, <1>5, <1>7

\* Where the tool is not polling, what it has counted stays as it was.
LEMMA QuietStop ==
  ASSUME SingleInv, UNCHANGED <<evpn, provisions, learns, up, born, clock>>,
         UNCHANGED <<lastUp, lastFdb, lastProgress>>,
         since' = since \/ (since' = clock /\ clock <= 2 * TriggerTime),
         phase' \notin {"sync", "trigger"} \/ phase = "sync",
         phase' \notin Reading \cup {"sleep", "stalled"}
  PROVE  StopInv'
<1>1. Born' = Born /\ AllUp' = AllUp
  BY QuietWorld
<1>2. TriggerTime \in Nat /\ clock \in Nat /\ since \in Nat
  BY Constants DEF SingleInv, WorldInv
<1>3. since' > lastProgress' /\ since' > 2 * TriggerTime =>
        lastUp' + lastFdb' < AllUp' + Cardinality(Born')
  <2>1. CASE since' = since
    BY <1>1, <2>1 DEF SingleInv, StopInv
  <2>2. CASE since' = clock /\ clock <= 2 * TriggerTime
    BY <1>2, <2>2
  <2> QED
    BY <2>1, <2>2
<1>4. NoPrematureStop'
  BY DEF NoPrematureStop, Single!NoPrematureStop
<1>5. lastUp' <= AllUp' /\ lastFdb' <= Cardinality(Born')
  BY <1>1 DEF SingleInv, StopInv
<1> QED
  BY <1>3, <1>4, <1>5 DEF StopInv

\* One sample of the clock synchronisation.
LEMMA SampleStep == SingleInv /\ Single!Sample => SingleInv'
<1> SUFFICES ASSUME SingleInv, Single!Sample PROVE SingleInv'
  OBVIOUS
<1>1. phase = "sync" /\ left > 0 /\ left' = left - 1
  BY DEF Single!Sample
<1>2. /\ UNCHANGED <<evpn, provisions, learns, up, born, since, clock, phase>>
      /\ UNCHANGED <<ports, seen, fdb, blind, blinked, lastUp, lastFdb, lastProgress, appear>>
  BY DEF Single!Sample, Single!world, Single!round, Single!poll
<1>3. WorldInv' /\ N' = N /\ Measured' = Measured /\ Never = -1
  BY <1>1, <1>2, QuietWorld
<1>4. ToolInv'
  <2>1. left' \in Nat
    BY <1>1 DEF SingleInv, ToolInv
  <2> QED
    BY <1>2, <1>3, <2>1 DEF SingleInv, ToolInv, Never
<1>5. SyncInv'
  <2>1. CASE UNCHANGED <<best, shortest>>
    BY <2>1 DEF SingleInv, SyncInv
  <2>2. ASSUME NEW rtt \in 0..MaxRtt, NEW at \in 0..rtt,
               best' = IF Single!Better([off |-> 2 * (Skew + at) - rtt, rtt |-> rtt])
                       THEN {[off |-> 2 * (Skew + at) - rtt, rtt |-> rtt]} ELSE best,
               shortest' = Single!Min({shortest, rtt})
        PROVE  SyncInv'
    <3> DEFINE sample == [off |-> 2 * (Skew + at) - rtt, rtt |-> rtt]
    <3>1. Skew \in Int /\ MaxRtt \in Nat /\ shortest \in 0..MaxRtt
      BY Constants DEF SingleInv, SyncInv
    <3>2. sample.rtt = rtt /\ sample.off \in Int
          /\ 2 * Skew - sample.off <= rtt /\ sample.off - 2 * Skew <= rtt
      <4>1. rtt \in Nat /\ at \in Nat /\ at <= rtt
        BY <3>1
      <4>2. sample.off = 2 * (Skew + at) - rtt
        OBVIOUS
      <4> HIDE DEF sample
      <4>3. sample.rtt = rtt
        BY DEF sample
      <4> QED
        BY <3>1, <4>1, <4>2, <4>3
    <3>3. shortest' \in {shortest, rtt} /\ shortest' <= shortest /\ shortest' <= rtt
      <4>1. shortest \in Int /\ rtt \in Int
        BY <3>1
      <4> QED
        BY <2>2, <4>1, MinOfTwo
    <3>4. best' = IF Single!Better(sample) THEN {sample} ELSE best
      BY <2>2
    <3> HIDE DEF sample
    <3>5. CASE Single!Better(sample)
      <4>1. rtt <= shortest
        <5>1. CASE best = {}
          BY <3>1, <5>1 DEF SingleInv, SyncInv
        <5>2. CASE best # {}
          <6>1. PICK kept \in best : TRUE
            BY <5>2
          <6>2. rtt < kept.rtt /\ kept.rtt = shortest
            BY <3>2, <3>5, <6>1 DEF SingleInv, SyncInv, Single!Better
          <6> QED
            BY <3>1, <6>2
        <5> QED
          BY <5>1, <5>2
      <4>2. shortest' = rtt
        BY <3>1, <3>3, <4>1
      <4> QED
        BY <3>1, <3>2, <3>4, <3>5, <4>2 DEF SyncInv
    <3>6. CASE ~Single!Better(sample)
      <4>1. PICK kept \in best : ~(rtt < kept.rtt)
        BY <3>2, <3>6 DEF Single!Better
      <4>2. kept.rtt = shortest
        BY <4>1 DEF SingleInv, SyncInv
      <4>3. shortest' = shortest
        BY <3>1, <3>3, <4>1, <4>2
      <4> QED
        BY <3>4, <3>6, <4>3 DEF SingleInv, SyncInv
    <3> QED
      BY <3>5, <3>6
  <2> QED
    BY <2>1, <2>2 DEF Single!Sample, Single!sync
<1>6. TimeInv'
  BY <1>1, <1>2 DEF SingleInv, TimeInv, Reading, Single!Over
<1>7. FdbInv'
  BY <1>1, <1>2 DEF SingleInv, FdbInv, Reading, Never
<1>8. StopInv'
  <2>1. phase' \notin Reading \cup {"sleep", "stalled"}
    BY <1>1, <1>2 DEF Reading
  <2>2. UNCHANGED <<evpn, provisions, learns, up, born, clock>>
        /\ UNCHANGED <<lastUp, lastFdb, lastProgress>>
    BY <1>2
  <2>3. since' = since
    BY <1>2
  <2>4. phase' \notin {"sync", "trigger"} \/ phase = "sync"
    BY <1>1
  <2> QED
    BY <2>1, <2>2, <2>3, <2>4, QuietStop
<1> QED
  BY <1>3, <1>4, <1>5, <1>6, <1>7, <1>8 DEF SingleInv

\* The clock starts.
LEMMA StartTriggerStep == SingleInv /\ Single!StartTrigger => SingleInv'
<1> SUFFICES ASSUME SingleInv, Single!StartTrigger PROVE SingleInv'
  OBVIOUS
<1>1. /\ phase = "sync" /\ phase' = "trigger" /\ left' = TriggerTime
      /\ best' = {} /\ shortest' = MaxRtt
  BY DEF Single!StartTrigger
<1>2. /\ UNCHANGED <<evpn, provisions, learns, up, born, since, clock>>
      /\ UNCHANGED <<ports, seen, fdb, blind, blinked, lastUp, lastFdb, lastProgress, appear>>
  BY DEF Single!StartTrigger, Single!world, Single!round, Single!poll
<1>3. WorldInv' /\ N' = N /\ Measured' = Measured /\ Never = -1
  BY <1>1, <1>2, QuietWorld
<1>4. ToolInv'
  BY <1>1, <1>2, <1>3, Constants DEF SingleInv, ToolInv, Never, Phases, Reading
<1>5. SyncInv'
  BY <1>1, Constants DEF SyncInv
<1>6. TimeInv'
  BY <1>1, <1>2, Constants DEF SingleInv, TimeInv, Reading, Single!Over
<1>7. FdbInv'
  BY <1>1, <1>2 DEF SingleInv, FdbInv, Reading, Never
<1>8. StopInv'
  <2>1. phase' \notin Reading \cup {"sleep", "stalled"}
    BY <1>1, <1>2 DEF Reading
  <2>2. UNCHANGED <<evpn, provisions, learns, up, born, clock>>
        /\ UNCHANGED <<lastUp, lastFdb, lastProgress>>
    BY <1>2
  <2>3. since' = since
    BY <1>2
  <2>4. phase' \notin {"sync", "trigger"} \/ phase = "sync"
    BY <1>1
  <2> QED
    BY <2>1, <2>2, <2>3, <2>4, QuietStop
<1> QED
  BY <1>3, <1>4, <1>5, <1>6, <1>7, <1>8 DEF SingleInv

\* The top of the loop: a new round, in which nothing has been read, or the
\* end of the wait.
LEMMA NewRoundStep ==
  ASSUME SingleInv, Single!NewRound,
         UNCHANGED <<evpn, provisions, learns, up, born, clock>>,
         UNCHANGED <<best, shortest, blinked>>,
         UNCHANGED <<lastUp, lastFdb, lastProgress, appear>>,
         \/ phase = "sleep" /\ left = 0 /\ since' = since
         \/ phase = "dsttrigger" /\ since' = clock
         \/ phase = "trigger" /\ ~evpn /\ since' = clock
  PROVE  SingleInv'
<1>1. /\ clock \in Nat /\ left \in Nat /\ evpn \in BOOLEAN /\ since \in 0..clock
      /\ born \in [Vlan -> Nat \cup {Never}]
      /\ phase \in {"sleep", "dsttrigger", "trigger"}
  BY DEF SingleInv, WorldInv, ToolInv
<1>2. phase' = "read" \/ phase' = "late"
  BY DEF Single!NewRound
<1>3. since' = since \/ since' = clock
  OBVIOUS
<1>4. phase' \notin {"sync", "trigger"} \/ phase = "sync"
  BY <1>2
<1>5. /\ WorldInv'
      /\ Measured' = Measured /\ N' = N /\ NumReads' = NumReads
      /\ Born' = Born /\ AllUp' = AllUp /\ Never = -1
      /\ \A S : UpOn(S)' = UpOn(S)
      /\ Single!Outstanding' <=> Single!Outstanding
  BY <1>3, <1>4, QuietWorld
<1>6. SyncInv'
  BY DEF SingleInv, SyncInv
<1>7. phase = "sleep" \/ clock <= 2 * TriggerTime
  BY <1>1, Constants DEF SingleInv, TimeInv
<1>8. /\ Measured \in Seq(Single!Port) /\ N \in Nat /\ N >= 1 /\ NumReads \in Nat
      /\ Span(0) = 0 /\ Span(NumReads) \in Nat
  BY <1>1, Modes, Spans
<1>9. CASE phase' = "read"
  <2>1. /\ clock < MaxWait /\ left' = ReadTime
        /\ ports' = Measured /\ seen' = 0 /\ fdb' = {} /\ blind' = FALSE
    BY <1>9 DEF Single!NewRound, Single!GoOn, Measured
  <2>2. Len(ports') = N /\ Polled' = 0 /\ Taken' = 0
    BY <1>5, <1>8, <1>9, <2>1 DEF N, Polled, Taken
  <2>3. ToolInv'
    <3>1. ports' \in Seq(Single!Port) /\ Len(ports') \in 0..N' /\ ports' # <<>>
      BY <1>5, <1>8, <2>1, <2>2 DEF N
    <3>2. \A n \in 1..Len(ports') : ports'[n] = Measured'[(N' - Len(ports')) + n]
      <4>1. \A n \in 1..N : (N - N) + n = n
        BY <1>8
      <4> QED
        BY <1>5, <2>1, <2>2, <4>1
    <3>3. left' \in Nat /\ seen' \in Nat /\ phase' \in Phases
      BY <1>9, <2>1, Constants DEF Phases, Reading
    <3>4. /\ blinked' \in BOOLEAN /\ lastUp' \in Nat /\ lastFdb' \in Nat
          /\ lastProgress' \in 0..clock' /\ appear' \in [Vlan -> Nat \cup {Never}]
      BY DEF SingleInv, ToolInv
    <3> QED
      BY <1>9, <2>1, <3>1, <3>2, <3>3, <3>4 DEF ToolInv, Never
  <2>4. TimeInv'
    <3>1. clock' + left' < MaxWait + Span(0) + ReadTime
      BY <1>1, <1>8, <2>1, Constants
    <3>2. clock' + left' < MaxWait + Span(Taken') + ReadTime
      BY <2>2, <3>1
    <3>3. left' <= ReadTime
      BY <2>1, Constants
    <3> QED
      BY <1>9, <3>2, <3>3 DEF TimeInv, Single!Over
  <2>5. FdbInv'
    <3>1. ASSUME NEW v \in Vlan, ~blinked, born[v] # Never, appear[v] = Never
          PROVE  clock' + left' <= born[v] + Slack + ReadTime
      <4>1. born[v] \in Nat /\ phase # "trigger"
        BY <1>1, <3>1 DEF SingleInv, WorldInv
      <4>2. CASE phase = "sleep"
        <5>1. clock <= born[v] + (ReadTime + Interval)
          BY <1>1, <3>1, <4>1, <4>2, Constants DEF SingleInv, FdbInv, Late
        <5> QED
          BY <1>1, <2>1, <4>1, <5>1, Constants
      <4>3. CASE phase = "dsttrigger"
        <5>1. clock + left <= born[v] + TriggerTime
          BY <1>1, <3>1, <4>3 DEF SingleInv, FdbInv, Late
        <5> QED
          BY <1>1, <2>1, <4>1, <5>1, Constants
      <4> QED
        BY <1>1, <4>1, <4>2, <4>3
    <3>2. \A v \in Vlan : Late(v)' = Slack + ReadTime
      BY <1>9 DEF Late
    <3>3. \A v \in Vlan : born[v] # Never => born[v] \in Nat
      BY <1>1
    <3>4. \A v \in Vlan : ~blinked /\ born[v] # Never /\ appear[v] = Never =>
            clock' + left' <= born[v] + Late(v)'
      BY <3>1, <3>2, <3>3, Constants
    <3> QED
      BY <2>1, <3>4 DEF SingleInv, FdbInv, Never
  <2>6. StopInv'
    <3>1. Single!Outstanding => clock' <= since' + Gap
      BY <1>1, Constants DEF SingleInv, StopInv
    <3>2. since' > lastProgress' /\ since' > 2 * TriggerTime =>
            lastUp' + lastFdb' < AllUp' + Cardinality(Born')
      <4>1. CASE phase = "sleep"
        BY <1>5, <4>1 DEF SingleInv, StopInv
      <4>2. CASE phase # "sleep"
        BY <1>1, <1>7, <4>2, Constants
      <4> QED
        BY <4>1, <4>2
    <3>3. UpOn(1..Polled)' = 0
      <4>1. UpOn(1..0) = 0
        BY Counting DEF SingleInv
      <4> QED
        BY <1>5, <2>2, <4>1
    <3>4. lastUp' <= AllUp' /\ lastFdb' <= Cardinality(Born')
      BY <1>5 DEF SingleInv, StopInv
    <3>5. NoPrematureStop'
      BY <1>9 DEF NoPrematureStop, Single!NoPrematureStop
    <3>6. seen' <= UpOn(1..Polled)' /\ ~(Polled' > 0)
      BY <2>1, <2>2, <3>3
    <3> QED
      BY <1>5, <3>1, <3>2, <3>4, <3>5, <3>6 DEF StopInv
  <2> QED
    BY <1>5, <1>6, <2>3, <2>4, <2>5, <2>6 DEF SingleInv
<1>10. CASE phase' = "late"
  <2>1. left' = 0 /\ UNCHANGED <<ports, seen, fdb, blind>>
    BY <1>10 DEF Single!NewRound
  <2>2. ToolInv'
    BY <1>5, <1>10, <2>1 DEF SingleInv, ToolInv, Phases, Reading, Single!Over, Never
  <2>3. TimeInv'
    <3>1. \/ clock' <= 2 * TriggerTime
          \/ clock' < MaxWait + Span(NumReads') + ReadTime + Interval
      BY <1>1, <1>5, <1>7 DEF SingleInv, TimeInv
    <3> QED
      BY <1>10, <3>1 DEF TimeInv, Reading
  <2>4. FdbInv'
    BY <1>10, <2>1 DEF SingleInv, FdbInv, Reading, Never
  <2>5. StopInv'
    <3>1. phase' \notin Reading \cup {"sleep", "stalled"}
      BY <1>10 DEF Reading
    <3>2. since' = since \/ (since' = clock /\ clock <= 2 * TriggerTime)
      BY <1>7
    <3>3. UNCHANGED <<lastUp, lastFdb, lastProgress>>
      OBVIOUS
    <3> QED
      BY <1>4, <3>1, <3>2, <3>3, QuietStop
  <2> QED
    BY <1>5, <1>6, <2>2, <2>3, <2>4, <2>5 DEF SingleInv
<1> QED
  BY <1>2, <1>9, <1>10

\* The scripts have ended.
LEMMA TriggersStep == SingleInv /\ Single!Triggers => SingleInv'
<1> SUFFICES ASSUME SingleInv, Single!Triggers PROVE SingleInv'
  OBVIOUS
<1>1. /\ phase = "trigger" /\ since' = clock
      /\ UNCHANGED <<evpn, provisions, learns, up, born, clock>>
      /\ UNCHANGED <<best, shortest, blinked>>
      /\ UNCHANGED <<lastUp, lastFdb, lastProgress, appear>>
  BY DEF Single!Triggers, Single!sync, Single!poll
<1>2. CASE ~evpn /\ Single!NewRound
  BY <1>1, <1>2, NewRoundStep
<1>3. CASE evpn /\ phase' = "dsttrigger" /\ left' = TriggerTime
           /\ UNCHANGED <<ports, seen, fdb, blind>>
  <2>1. phase' \notin {"sync", "trigger"} \/ phase = "sync"
    BY <1>3
  <2>2. since' = since \/ since' = clock
    BY <1>1
  <2>3. WorldInv' /\ N' = N /\ Measured' = Measured /\ Never = -1
    BY <1>1, <2>1, <2>2, QuietWorld
  <2>4. clock \in Nat /\ left \in Nat /\ clock + left <= TriggerTime /\ TriggerTime \in Nat
    BY <1>1, Constants DEF SingleInv, WorldInv, ToolInv, TimeInv
  <2>5. ToolInv'
    BY <1>1, <1>3, <2>3, Constants DEF SingleInv, ToolInv, Never, Phases, Reading
  <2>6. SyncInv'
    BY <1>1 DEF SingleInv, SyncInv
  <2>7. TimeInv'
    <3>1. left' <= TriggerTime /\ clock' + left' <= 2 * TriggerTime
      BY <1>1, <1>3, <2>4
    <3> QED
      BY <1>3, <3>1 DEF TimeInv, Reading, Single!Over
  <2>8. FdbInv'
    <3>1. \A v \in Vlan : born'[v] = Never /\ v \notin fdb' /\ appear'[v] = Never
      BY <1>1, <1>3 DEF SingleInv, WorldInv, FdbInv
    <3> QED
      BY <3>1 DEF FdbInv, Never
  <2>9. StopInv'
    <3>1. phase' \notin Reading \cup {"sleep", "stalled"}
      BY <1>3 DEF Reading
    <3>2. since' = since \/ (since' = clock /\ clock <= 2 * TriggerTime)
      BY <1>1, <2>4
    <3>3. UNCHANGED <<lastUp, lastFdb, lastProgress>>
      BY <1>1
    <3> QED
      BY <1>1, <2>1, <3>1, <3>2, <3>3, QuietStop
  <2> QED
    BY <2>3, <2>5, <2>6, <2>7, <2>8, <2>9 DEF SingleInv
<1> QED
  BY <1>2, <1>3 DEF Single!Triggers

\* The destination's script has ended.
LEMMA DstTriggerStep == SingleInv /\ Single!DstTrigger => SingleInv'
<1> SUFFICES ASSUME SingleInv, Single!DstTrigger PROVE SingleInv'
  OBVIOUS
<1>1. /\ phase = "dsttrigger" /\ since' = clock /\ Single!NewRound
      /\ UNCHANGED <<evpn, provisions, learns, up, born, clock>>
      /\ UNCHANGED <<best, shortest, blinked>>
      /\ UNCHANGED <<lastUp, lastFdb, lastProgress, appear>>
  BY DEF Single!DstTrigger, Single!sync, Single!poll
<1> QED
  BY <1>1, NewRoundStep

\* The interval between two rounds is over.
LEMMA SleepStep == SingleInv /\ Single!Sleep => SingleInv'
<1> SUFFICES ASSUME SingleInv, Single!Sleep PROVE SingleInv'
  OBVIOUS
<1>1. /\ phase = "sleep" /\ left = 0 /\ since' = since /\ Single!NewRound
      /\ UNCHANGED <<evpn, provisions, learns, up, born, clock>>
      /\ UNCHANGED <<best, shortest, blinked>>
      /\ UNCHANGED <<lastUp, lastFdb, lastProgress, appear>>
  BY DEF Single!Sleep, Single!world, Single!sync, Single!poll
<1> QED
  BY <1>1, NewRoundStep

\* The read of a port counts what is up there, and moves it from what the
\* round has still to count to what it has counted.
LEMMA ReadStep == SingleInv /\ Single!Read => SingleInv'
<1> SUFFICES ASSUME SingleInv, Single!Read PROVE SingleInv'
  OBVIOUS
<1> DEFINE k == Polled
           count == Single!Cardinality({p \in up : p[1] = Head(ports)})
<1>1. /\ phase = "read" /\ ports' = Tail(ports) /\ left' = ReadTime
      /\ phase' = IF Len(ports) > 1 THEN "read" ELSE IF evpn THEN "fdb" ELSE "judge"
      /\ \/ seen' = seen + count /\ blind' = blind
         \/ seen' = seen /\ blind' = TRUE
  BY DEF Single!Read
<1>2. /\ UNCHANGED <<evpn, provisions, learns, up, born, since, clock>>
      /\ UNCHANGED <<best, shortest, fdb, blinked>>
      /\ UNCHANGED <<lastUp, lastFdb, lastProgress, appear>>
  BY DEF Single!Read, Single!world, Single!sync, Single!poll
<1>3. /\ clock \in Nat /\ left \in Nat /\ evpn \in BOOLEAN /\ since \in 0..clock
      /\ born \in [Vlan -> Nat \cup {Never}] /\ seen \in Nat
      /\ lastUp \in Nat /\ lastFdb \in Nat /\ lastProgress \in Nat
  BY DEF SingleInv, WorldInv, ToolInv
<1>4. phase' \in {"read", "fdb", "judge"}
  BY <1>1
<1>5. /\ WorldInv'
      /\ Measured' = Measured /\ N' = N /\ NumReads' = NumReads
      /\ Born' = Born /\ AllUp' = AllUp /\ Never = -1
      /\ \A S : UpOn(S)' = UpOn(S)
      /\ Single!Outstanding' <=> Single!Outstanding
  BY <1>2, <1>4, QuietWorld
<1>6. /\ Measured \in Seq(Single!Port) /\ N \in Nat /\ N >= 1 /\ NumReads \in Nat
      /\ evpn => N = 1 /\ NumReads = 2
      /\ ~evpn => NumReads = N
  BY <1>3, Modes
<1>7. /\ ports \in Seq(Single!Port) /\ Len(ports) \in 0..N /\ ports # <<>>
      /\ \A n \in 1..Len(ports) : ports[n] = Measured[(N - Len(ports)) + n]
      /\ Len(ports) = N => seen = 0
      /\ fdb = {}
  BY <1>1 DEF SingleInv, ToolInv, Reading
<1>8. /\ Len(ports) \in 1..N /\ k \in 0..N-1 /\ k = N - Len(ports)
      /\ ports' \in Seq(Single!Port) /\ Len(ports') = Len(ports) - 1
      /\ \A n \in 1..Len(ports') : ports'[n] = ports[n + 1]
      /\ Head(ports) = ports[1]
  <2>1. Len(ports) \in Nat /\ Len(ports) >= 1
    BY <1>7
  <2>2. Len(ports) \in 1..N
    BY <1>6, <1>7, <2>1
  <2>3. k = N - Len(ports)
    BY DEF Polled
  <2>4. k \in 0..N-1
    BY <1>6, <2>2, <2>3
  <2>5. /\ ports' \in Seq(Single!Port) /\ Len(ports') = Len(ports) - 1
        /\ \A n \in 1..Len(ports') : ports'[n] = ports[n + 1]
        /\ Head(ports) = ports[1]
    BY <1>1, <1>7
  <2> QED
    BY <2>2, <2>3, <2>4, <2>5
<1>9. Polled' = k + 1 /\ Taken = k /\ Taken' = k + 1
  <2>1. Polled' = k + 1
    BY <1>5, <1>6, <1>8 DEF Polled
  <2>2. Taken = k
    BY <1>1 DEF Taken
  <2>3. CASE phase' = "judge"
    <3>1. Len(ports) = 1 /\ ~evpn
      BY <1>1, <1>8, <2>3
    <3>2. Taken' = NumReads
      BY <1>5, <2>3 DEF Taken
    <3> QED
      BY <1>6, <1>8, <2>1, <2>2, <3>1, <3>2
  <2>4. CASE phase' # "judge"
    BY <2>1, <2>2, <2>4 DEF Taken
  <2> QED
    BY <2>1, <2>2, <2>3, <2>4
<1>10. Span(k) \in Nat /\ Span(k + 1) = Span(k) + ReadTime
  BY <1>8, Spans
<1>11. ToolInv'
  <2>1. phase' = "read" <=> ports' # <<>>
    <3>1. ports' # <<>> <=> Len(ports') # 0
      BY <1>8
    <3>2. Len(ports) > 1 <=> Len(ports') # 0
      BY <1>6, <1>8
    <3>3. phase' = "read" <=> Len(ports) > 1
      BY <1>1
    <3> QED
      BY <3>1, <3>2, <3>3
  <2>2. \A n \in 1..Len(ports') : ports'[n] = Measured'[(N' - Len(ports')) + n]
    <3> SUFFICES ASSUME NEW n \in 1..Len(ports')
                 PROVE  ports'[n] = Measured'[(N' - Len(ports')) + n]
      OBVIOUS
    <3>1. n + 1 \in 1..Len(ports)
      BY <1>8
    <3>2. ports'[n] = Measured[(N - Len(ports)) + (n + 1)]
      BY <1>7, <1>8, <3>1
    <3>3. (N - Len(ports)) + (n + 1) = (N - Len(ports')) + n
      BY <1>6, <1>8
    <3> QED
      BY <1>5, <3>2, <3>3
  <2>3. Len(ports') \in 0..N' /\ Len(ports') # N'
    BY <1>5, <1>6, <1>8
  <2>4. left' \in Nat /\ blind' \in BOOLEAN
    BY <1>1, Constants DEF SingleInv, ToolInv
  <2>5. seen' \in Nat
    <3>1. k + 1 \in 1..N
      BY <1>6, <1>8
    <3>2. Head(ports) = Measured[k + 1]
      BY <1>7, <1>8
    <3>3. count \in Nat
      BY <3>1, <3>2, Counting DEF SingleInv
    <3> HIDE DEF count
    <3> QED
      BY <1>1, <1>3, <3>3
  <2>6. phase' \in Phases /\ (phase' \in {"dsttrigger", "fdb"} => evpn')
    BY <1>1, <1>2, <1>4 DEF Phases, Reading
  <2>7. /\ blinked' \in BOOLEAN /\ lastUp' \in Nat /\ lastFdb' \in Nat /\ fdb' = {}
        /\ lastProgress' \in 0..clock' /\ appear' \in [Vlan -> Nat \cup {Never}]
    BY <1>2, <1>7 DEF SingleInv, ToolInv
  <2> QED
    BY <1>8, <2>1, <2>2, <2>3, <2>4, <2>5, <2>6, <2>7 DEF ToolInv, Never
<1>12. SyncInv'
  BY <1>2 DEF SingleInv, SyncInv
<1>13. TimeInv'
  <2>1. clock + left < MaxWait + Span(k) + ReadTime
    BY <1>1, <1>9 DEF SingleInv, TimeInv, Reading
  <2>2. left' <= ReadTime /\ clock' + left' < MaxWait + Span(Taken') + ReadTime
    BY <1>1, <1>2, <1>3, <1>9, <1>10, <2>1, Constants
  <2> QED
    BY <1>4, <2>2 DEF TimeInv, Single!Over
<1>14. FdbInv'
  <2>1. CASE ~evpn
    <3>1. \A v \in Vlan : born'[v] = Never
      BY <1>2, <2>1 DEF SingleInv, WorldInv
    <3>2. \A v \in Vlan : v \notin fdb' /\ appear'[v] = Never
      BY <1>2, <1>7, <3>1 DEF SingleInv, FdbInv
    <3> QED
      BY <3>1, <3>2 DEF FdbInv, Never
  <2>2. CASE evpn
    <3>1. phase' = "fdb"
      BY <1>1, <1>6, <1>8, <2>2
    <3>2. ASSUME NEW v \in Vlan, ~blinked, born[v] # Never, appear[v] = Never
          PROVE  clock' + left' <= born[v] + Late(v)'
      <4>1. born[v] \in Nat
        BY <1>3, <3>2
      <4>2. clock + left <= born[v] + (Slack + ReadTime)
        BY <1>1, <3>2 DEF SingleInv, FdbInv, Late, Reading
      <4>3. Late(v)' = Slack + 2 * ReadTime
        BY <3>1 DEF Late
      <4> QED
        BY <1>1, <1>2, <1>3, <4>1, <4>2, <4>3, Constants
    <3> QED
      BY <1>2, <3>1, <3>2 DEF SingleInv, FdbInv, Never
  <2> QED
    BY <2>1, <2>2
<1>15. StopInv'
  <2>1. k + 1 \in 1..N /\ Head(ports) = Measured[k + 1]
    BY <1>6, <1>7, <1>8
  <2>2. count = UpOn({k + 1}) /\ count \in Nat
    BY <2>1, Counting DEF SingleInv
  <2>3. /\ UpOn(1 .. k + 1) = UpOn(1..k) + UpOn({k + 1})
        /\ UpOn(k + 1 .. N) = UpOn({k + 1}) + UpOn(k + 2 .. N)
    BY <1>8, Counting DEF SingleInv
  <2>4. /\ UpOn(1..k) \in Nat /\ UpOn(k + 1 .. N) \in Nat
        /\ AllUp = UpOn(1..k) + UpOn(k + 1 .. N) /\ AllUp \in Nat
        /\ Cardinality(Born) \in Nat
    <3>1. k \in 0..N
      BY <1>6, <1>8
    <3> QED
      BY <3>1, Counting DEF SingleInv
  <2>5. UpOn(k + 2 .. N) \in Nat
    <3>1. k + 1 \in 0..N /\ (k + 1) + 1 = k + 2
      BY <1>6, <1>8
    <3>2. UpOn((k + 1) + 1 .. N) \in Nat
      BY <3>1, Counting DEF SingleInv
    <3> QED
      BY <3>1, <3>2
  <2>6. UpOn(1..Polled)' = UpOn(1 .. k + 1) /\ UpOn(Polled + 1 .. N)' = UpOn(k + 2 .. N)
    <3>1. (k + 1) + 1 = k + 2
      BY <1>8
    <3> QED
      BY <1>5, <1>9, <3>1
  <2>7. seen <= UpOn(1..k) /\ lastUp <= AllUp /\ lastFdb <= Cardinality(Born)
    BY <1>1 DEF SingleInv, StopInv, Reading
  <2> HIDE DEF count, k
  <2>8. seen' <= UpOn(1..Polled)'
    BY <1>1, <1>3, <2>2, <2>3, <2>4, <2>6, <2>7
  <2>9. ASSUME ~blind', Single!Outstanding,
               clock' + left' > lastProgress' + Gap + 2 * TriggerTime + Span(Taken')
        PROVE  seen' + UpOn(Polled + 1 .. N)'
                 + Cardinality(IF phase' = "judge" THEN FoundNow' ELSE Born') > lastUp' + lastFdb'
    <3>1. clock > lastProgress + Gap + 2 * TriggerTime + Span(k)
      BY <1>1, <1>2, <1>3, <1>9, <1>10, <2>9, Constants
    <3>2. seen' = seen + count
      BY <1>1, <2>9
    <3>3. seen + UpOn(k + 1 .. N) + Cardinality(Born) > lastUp + lastFdb
      <4>1. CASE k > 0
        <5>1. clock + left > lastProgress + Gap + 2 * TriggerTime + Span(k)
          BY <1>3, <1>10, <3>1, Constants
        <5>2. ~blind
          BY <1>1, <2>9
        <5> QED
          BY <1>1, <1>9, <2>9, <4>1, <5>1, <5>2 DEF SingleInv, StopInv, Reading, k
      <4>2. CASE k = 0
        <5>1. seen = 0
          BY <1>6, <1>7, <1>8, <4>2
        <5>2. clock <= since + Gap
          BY <1>1, <2>9 DEF SingleInv, StopInv, Reading
        <5>3. since > lastProgress /\ since > 2 * TriggerTime
          BY <1>3, <1>10, <3>1, <5>2, Constants
        <5>4. lastUp + lastFdb < AllUp + Cardinality(Born)
          BY <5>3 DEF SingleInv, StopInv
        <5>5. UpOn(1..k) = 0
          BY <4>2, Counting DEF SingleInv
        <5> QED
          BY <1>3, <2>4, <5>1, <5>4, <5>5
      <4> QED
        BY <1>8, <4>1, <4>2
    <3>4. seen' + UpOn(Polled + 1 .. N)' + Cardinality(Born) > lastUp + lastFdb
      BY <1>3, <2>2, <2>3, <2>4, <2>5, <2>6, <3>2, <3>3
    <3>5. (IF phase' = "judge" THEN FoundNow' ELSE Born') = Born
      <4>1. CASE phase' = "judge"
        <5>1. ~evpn
          BY <1>1, <4>1
        <5>2. \A v \in Vlan : born[v] = Never
          BY <5>1 DEF SingleInv, WorldInv
        <5>3. \A v \in Vlan : v \notin fdb /\ appear[v] = Never
          BY <5>2 DEF SingleInv, FdbInv
        <5>4. FoundNow' = {} /\ Born = {}
          BY <1>2, <5>2, <5>3 DEF FoundNow, Born, Never
        <5> QED
          BY <4>1, <5>4
      <4>2. CASE phase' # "judge"
        BY <1>5, <4>2
      <4> QED
        BY <4>1, <4>2
    <3> QED
      BY <1>2, <3>4, <3>5
  <2>10. Single!Outstanding => clock' <= since' + Gap
    BY <1>1, <1>2 DEF SingleInv, StopInv, Reading
  <2>11. /\ lastUp' <= AllUp' /\ lastFdb' <= Cardinality(Born')
         /\ since' > lastProgress' /\ since' > 2 * TriggerTime =>
              lastUp' + lastFdb' < AllUp' + Cardinality(Born')
    BY <1>2, <1>5 DEF SingleInv, StopInv
  <2>12. NoPrematureStop'
    BY <1>4 DEF NoPrematureStop, Single!NoPrematureStop
  <2> QED
    BY <1>5, <2>8, <2>9, <2>10, <2>11, <2>12 DEF StopInv
<1> QED
  BY <1>5, <1>11, <1>12, <1>13, <1>14, <1>15 DEF SingleInv

\* The read of the FDB finds what is in it, or nothing and says so.
LEMMA ReadFdbStep == SingleInv /\ Single!ReadFdb => SingleInv'
<1> SUFFICES ASSUME SingleInv, Single!ReadFdb PROVE SingleInv'
  OBVIOUS
<1>1. /\ phase = "fdb" /\ phase' = "judge" /\ left' = ReadTime
      /\ \/ fdb' = Born /\ blind' = blind /\ blinked' = blinked
         \/ fdb' = {} /\ blind' = TRUE /\ blinked' = TRUE
  BY DEF Single!ReadFdb, Born, Never
<1>2. /\ UNCHANGED <<evpn, provisions, learns, up, born, since, clock>>
      /\ UNCHANGED <<best, shortest, ports, seen>>
      /\ UNCHANGED <<lastUp, lastFdb, lastProgress, appear>>
  BY DEF Single!ReadFdb, Single!world, Single!sync, Single!poll
<1>3. /\ clock \in Nat /\ left \in Nat /\ evpn \in BOOLEAN /\ since \in 0..clock
      /\ born \in [Vlan -> Nat \cup {Never}] /\ seen \in Nat
      /\ lastUp \in Nat /\ lastFdb \in Nat /\ lastProgress \in Nat
  BY DEF SingleInv, WorldInv, ToolInv
<1>4. evpn /\ N = 1 /\ NumReads = 2
  BY <1>1, <1>3, Modes DEF SingleInv, ToolInv
<1>5. /\ WorldInv'
      /\ Measured' = Measured /\ N' = N /\ NumReads' = NumReads
      /\ Born' = Born /\ AllUp' = AllUp /\ Never = -1
      /\ \A S : UpOn(S)' = UpOn(S)
      /\ Single!Outstanding' <=> Single!Outstanding
  BY <1>1, <1>2, QuietWorld
<1>6. ports = <<>> /\ Len(ports) = 0
  BY <1>1 DEF SingleInv, ToolInv, Reading
<1>7. Polled = 1 /\ Polled' = 1 /\ Taken = 1 /\ Taken' = 2
  BY <1>1, <1>2, <1>4, <1>5, <1>6 DEF Polled, Taken
<1>8. Span(1) \in Nat /\ Span(2) = Span(1) + ReadTime
  <2>1. Span(1 + 1) = Span(1) + ReadTime /\ Span(1) \in Nat
    BY Spans
  <2>2. 1 + 1 = 2
    OBVIOUS
  <2> QED
    BY <2>1, <2>2
<1>9. ToolInv'
  <2>1. fdb' \subseteq Vlan /\ blind' \in BOOLEAN /\ blinked' \in BOOLEAN /\ left' \in Nat
    BY <1>1, Constants DEF SingleInv, ToolInv, Born
  <2>2. phase' \in Phases
    BY <1>1 DEF Phases, Reading
  <2>3. /\ ports' \in Seq(Single!Port) /\ Len(ports') \in 0..N'
        /\ ~(phase' = "read") /\ ports' = <<>>
        /\ \A n \in 1..Len(ports') : ports'[n] = Measured'[(N' - Len(ports')) + n]
        /\ Len(ports') # N'
    BY <1>1, <1>2, <1>4, <1>5, <1>6
  <2>4. seen' \in Nat /\ lastUp' \in Nat /\ lastFdb' \in Nat
        /\ lastProgress' \in 0..clock' /\ appear' \in [Vlan -> Nat \cup {Never}]
    BY <1>2 DEF SingleInv, ToolInv
  <2> QED
    BY <1>1, <1>2, <1>4, <2>1, <2>2, <2>3, <2>4 DEF ToolInv, Never
<1>10. SyncInv'
  BY <1>2 DEF SingleInv, SyncInv
<1>11. TimeInv'
  <2>1. clock + left < MaxWait + Span(1) + ReadTime
    BY <1>1, <1>7 DEF SingleInv, TimeInv, Reading
  <2>2. left' <= ReadTime /\ clock' + left' < MaxWait + Span(Taken') + ReadTime
    BY <1>1, <1>2, <1>3, <1>7, <1>8, <2>1, Constants
  <2> QED
    BY <1>1, <2>2 DEF TimeInv, Single!Over
<1>12. FdbInv'
  <2>1. ASSUME NEW v \in Vlan, ~blinked', born[v] # Never, appear[v] = Never
        PROVE  clock' + left' <= born[v] + Late(v)'
    <3>1. v \in fdb' /\ ~blinked
      BY <1>1, <2>1 DEF Born
    <3>2. born[v] \in Nat
      BY <1>3, <2>1
    <3>3. clock + left <= born[v] + (Slack + 2 * ReadTime)
      BY <1>1, <2>1, <3>1 DEF SingleInv, FdbInv, Late, Reading
    <3>4. Late(v)' = Slack + 3 * ReadTime
      BY <1>1, <3>1 DEF Late
    <3> QED
      BY <1>1, <1>2, <1>3, <3>2, <3>3, <3>4, Constants
  <2>2. \A v \in Vlan : v \in fdb' => born[v] # Never
    BY <1>1 DEF Born
  <2>3. blinked => blinked'
    BY <1>1
  <2> QED
    BY <1>2, <2>1, <2>2, <2>3 DEF SingleInv, FdbInv, Never
<1>13. StopInv'
  <2>1. UpOn(1..Polled)' = UpOn(1..Polled) /\ UpOn(Polled + 1 .. N)' = UpOn(Polled + 1 .. N)
    BY <1>5, <1>7
  <2>2. ASSUME ~blind', Single!Outstanding,
               clock' + left' > lastProgress' + Gap + 2 * TriggerTime + Span(Taken')
        PROVE  seen' + UpOn(Polled + 1 .. N)'
                 + Cardinality(IF phase' = "judge" THEN FoundNow' ELSE Born') > lastUp' + lastFdb'
    <3>1. clock + left > lastProgress + Gap + 2 * TriggerTime + Span(Taken)
      BY <1>1, <1>2, <1>3, <1>7, <1>8, <2>2, Constants
    <3>2. ~blind /\ fdb' = Born
      BY <1>1, <2>2
    <3>3. seen + UpOn(Polled + 1 .. N) + Cardinality(Born) > lastUp + lastFdb
      BY <1>1, <1>7, <2>2, <3>1, <3>2 DEF SingleInv, StopInv, Reading
    <3>4. FoundNow' = Born
      <4>1. \A v \in Vlan : appear[v] # Never => v \in Born
        BY DEF SingleInv, FdbInv, Born
      <4> QED
        BY <1>2, <3>2, <4>1 DEF FoundNow, Born, Never
    <3> QED
      BY <1>1, <1>2, <2>1, <3>3, <3>4
  <2>3. Single!Outstanding => clock' <= since' + Gap
    BY <1>1, <1>2 DEF SingleInv, StopInv, Reading
  <2>4. /\ lastUp' <= AllUp' /\ lastFdb' <= Cardinality(Born')
        /\ since' > lastProgress' /\ since' > 2 * TriggerTime =>
             lastUp' + lastFdb' < AllUp' + Cardinality(Born')
    BY <1>2, <1>5 DEF SingleInv, StopInv
  <2>5. NoPrematureStop'
    BY <1>1 DEF NoPrematureStop, Single!NoPrematureStop
  <2>6. seen' <= UpOn(1..Polled)'
    BY <1>1, <1>2, <2>1 DEF SingleInv, StopInv, Reading
  <2> QED
    BY <1>5, <2>2, <2>3, <2>4, <2>5, <2>6 DEF StopInv
<1> QED
  BY <1>5, <1>9, <1>10, <1>11, <1>12, <1>13 DEF SingleInv

\* The rest of the loop.  A round without progress, Settle after the last one
\* that had some, has seen everything there is: were work outstanding, the
\* leaves would have done some of it in between.
LEMMA JudgeStep == SingleInv /\ Single!Judge => SingleInv'
<1> SUFFICES ASSUME SingleInv, Single!Judge PROVE SingleInv'
  OBVIOUS
<1>1. /\ phase = "judge"
      /\ \/ phase' = "up" /\ left' = 0
         \/ phase' = "stalled" /\ left' = 0 /\ clock - lastProgress' >= Settle
         \/ phase' = "sleep" /\ left' = Interval
  BY DEF Single!Judge
<1>2. /\ UNCHANGED <<evpn, provisions, learns, up, born, since, clock>>
      /\ UNCHANGED <<best, shortest, ports, seen, fdb, blind, blinked>>
      /\ appear' = Single!Appeared /\ lastUp' = seen
      /\ lastFdb' = Single!Found(Single!Appeared)
      /\ lastProgress' = IF Single!Progress THEN clock ELSE lastProgress
  BY DEF Single!Judge, Single!world, Single!sync, Single!round
<1>3. /\ clock \in Nat /\ left \in Nat /\ evpn \in BOOLEAN /\ since \in 0..clock
      /\ born \in [Vlan -> Nat \cup {Never}] /\ seen \in Nat
      /\ lastUp \in Nat /\ lastFdb \in Nat /\ lastProgress \in 0..clock
      /\ appear \in [Vlan -> Nat \cup {Never}]
  BY DEF SingleInv, WorldInv, ToolInv
<1>4. /\ WorldInv'
      /\ Measured' = Measured /\ N' = N /\ NumReads' = NumReads
      /\ Born' = Born /\ AllUp' = AllUp /\ Never = -1
      /\ \A S : UpOn(S)' = UpOn(S)
      /\ Single!Outstanding' <=> Single!Outstanding
  BY <1>1, <1>2, QuietWorld
<1>5. /\ N \in Nat /\ NumReads \in Nat /\ Span(NumReads) \in Nat
      /\ Settle > 2 * TriggerTime + Gap + Span(NumReads)
  BY <1>3, Modes, Spans
<1>6. /\ appear' \in [Vlan -> Nat \cup {Never}]
      /\ \A v \in Vlan :
           appear'[v] = IF v \in fdb /\ appear[v] = Never THEN clock ELSE appear[v]
  BY <1>2, <1>3 DEF Single!Appeared, Never
<1>7. lastFdb' = Cardinality(FoundNow) /\ lastFdb' \in Nat
      /\ lastFdb' <= Cardinality(Born) /\ Cardinality(Born) \in Nat
  <2>1. {v \in Vlan : appear'[v] # Never} = FoundNow
    BY <1>3, <1>4, <1>6 DEF FoundNow
  <2>2. lastFdb' = Single!Cardinality({v \in Vlan : appear'[v] # Never})
    BY <1>2 DEF Single!Found, Never
  <2>3. lastFdb' = Cardinality(FoundNow)
    BY <2>1, <2>2, SameOperators
  <2>4. FoundNow \subseteq Born
    BY DEF SingleInv, FdbInv, FoundNow, Born
  <2>5. IsFiniteSet(Born) /\ Cardinality(Born) \in Nat
    BY Counting DEF SingleInv
  <2>6. Cardinality(FoundNow) <= Cardinality(Born) /\ IsFiniteSet(FoundNow)
    BY <2>4, <2>5, FS_Subset
  <2>7. Cardinality(FoundNow) \in Nat
    BY <2>6, FS_CardinalityType
  <2> QED
    BY <2>3, <2>5, <2>6, <2>7
<1>8. \/ lastProgress' = clock
      \/ lastProgress' = lastProgress /\ lastUp' = lastUp /\ lastFdb' = lastFdb
  BY <1>2 DEF Single!Progress
<1>9. lastProgress' \in 0..clock
  BY <1>3, <1>8
<1>10. phase' \in {"up", "stalled", "sleep"} /\ left' \in Nat
  BY <1>1, Constants
<1>11. ToolInv'
  <2>1. phase' \in Phases /\ phase' \notin Reading \cup {"dsttrigger"}
    BY <1>10 DEF Phases, Reading, Single!Over
  <2>2. fdb' \subseteq Vlan /\ blind' \in BOOLEAN /\ blinked' \in BOOLEAN
    BY <1>2 DEF SingleInv, ToolInv
  <2> QED
    BY <1>2, <1>3, <1>6, <1>7, <1>9, <1>10, <2>1, <2>2 DEF ToolInv, Never, Reading
<1>12. SyncInv'
  BY <1>2 DEF SingleInv, SyncInv
<1>13. TimeInv'
  <2>1. clock + left < MaxWait + Span(NumReads) + ReadTime
    BY <1>1 DEF SingleInv, TimeInv, Reading, Taken
  <2>2. clock < MaxWait + Span(NumReads) + ReadTime
    BY <1>3, <1>5, <2>1, Constants
  <2>3. phase' = "sleep" =>
          left' <= Interval /\ clock' + left' < MaxWait + Span(NumReads') + ReadTime + Interval
    BY <1>1, <1>2, <1>3, <1>4, <1>5, <2>2, Constants
  <2>4. clock' < MaxWait + Span(NumReads') + ReadTime + Interval
    BY <1>2, <1>3, <1>4, <1>5, <2>2, Constants
  <2> QED
    BY <1>10, <2>3, <2>4 DEF TimeInv, Reading
<1>14. FdbInv'
  <2> SUFFICES ASSUME NEW v \in Vlan
               PROVE  /\ v \in fdb' => born'[v] # Never
                      /\ appear'[v] # Never =>
                           /\ born'[v] # Never /\ born'[v] <= appear'[v]
                           /\ ~blinked' => appear'[v] <= born'[v] + Slack + 3 * ReadTime
                      /\ phase' \in Reading \cup {"dsttrigger", "sleep"} /\ ~blinked'
                         /\ born'[v] # Never /\ appear'[v] = Never =>
                           clock' + left' <= born'[v] + Late(v)'
    BY DEF FdbInv, Never
  <2>1. v \in fdb => born[v] # Never
    BY DEF SingleInv, FdbInv
  <2>2. CASE appear[v] # Never
    <3>1. appear'[v] = appear[v]
      BY <1>6, <2>2
    <3> QED
      BY <1>2, <2>1, <2>2, <3>1 DEF SingleInv, FdbInv
  <2>3. CASE appear[v] = Never /\ v \in fdb
    <3>1. born[v] \in Nat /\ born[v] <= clock
      BY <1>3, <2>1, <2>3 DEF SingleInv, WorldInv
    <3>2. appear'[v] = clock /\ clock # Never
      BY <1>3, <1>4, <1>6, <2>3
    <3>3. ~blinked => clock + left <= born[v] + (Slack + 3 * ReadTime)
      BY <1>1, <2>1, <2>3 DEF SingleInv, FdbInv, Late, Reading
    <3>4. ~blinked => clock <= born[v] + Slack + 3 * ReadTime
      BY <1>3, <3>1, <3>3, Constants
    <3> QED
      BY <1>2, <2>1, <2>3, <3>1, <3>2, <3>4
  <2>4. CASE appear[v] = Never /\ v \notin fdb
    <3>1. appear'[v] = Never
      BY <1>6, <2>4
    <3>2. ASSUME phase' = "sleep", ~blinked, born[v] # Never
          PROVE  clock' + left' <= born[v] + Late(v)'
      <4>1. born[v] \in Nat
        BY <1>3, <3>2
      <4>2. clock + left <= born[v] + ReadTime
        BY <1>1, <2>4, <3>2 DEF SingleInv, FdbInv, Late, Reading
      <4>3. Late(v)' = ReadTime + Interval
        BY <3>2 DEF Late
      <4>4. left' = Interval
        BY <1>1, <3>2
      <4> QED
        BY <1>2, <1>3, <4>1, <4>2, <4>3, <4>4, Constants
    <3>3. phase' \in Reading \cup {"dsttrigger", "sleep"} => phase' = "sleep"
      BY <1>10 DEF Reading
    <3> QED
      BY <1>2, <2>4, <3>1, <3>2, <3>3
  <2> QED
    BY <2>2, <2>3, <2>4
<1>15. StopInv'
  <2>1. Polled = N
    <3>1. ports = <<>> /\ Len(ports) = 0
      BY <1>1 DEF SingleInv, ToolInv, Reading
    <3> QED
      BY <1>5, <3>1 DEF Polled
  <2>2. seen <= AllUp /\ AllUp \in Nat
    BY <1>1, <2>1, Counting DEF SingleInv, StopInv, Reading, AllUp
  <2>3. lastUp' <= AllUp' /\ lastFdb' <= Cardinality(Born')
    BY <1>2, <1>4, <1>7, <2>2
  <2>4. since' > lastProgress' /\ since' > 2 * TriggerTime =>
          lastUp' + lastFdb' < AllUp' + Cardinality(Born')
    <3>1. CASE lastProgress' = clock
      BY <1>2, <1>3, <3>1
    <3>2. CASE lastProgress' = lastProgress /\ lastUp' = lastUp /\ lastFdb' = lastFdb
      BY <1>2, <1>4, <3>2 DEF SingleInv, StopInv
    <3> QED
      BY <1>8, <3>1, <3>2
  <2>5. NoPrematureStop'
    <3> SUFFICES ASSUME phase' = "stalled", ~blind, Single!Outstanding
                 PROVE  FALSE
      BY <1>2, <1>4 DEF NoPrematureStop, Single!NoPrematureStop
    <3>1. clock - lastProgress' >= Settle
      BY <1>1
    <3>2. lastProgress' # clock
      BY <1>3, <3>1, Constants
    <3>3. lastProgress' = lastProgress /\ lastUp' = lastUp /\ lastFdb' = lastFdb
      BY <1>8, <3>2
    <3>4. clock + left > lastProgress + Gap + 2 * TriggerTime + Span(Taken)
      <4>1. Taken = NumReads
        BY <1>1 DEF Taken
      <4> QED
        BY <1>3, <1>5, <3>1, <3>3, <4>1, Constants
    <3>5. Polled > 0
      BY <1>3, <2>1, Modes
    <3>6. seen + UpOn(Polled + 1 .. N) + Cardinality(FoundNow) > lastUp + lastFdb
      BY <1>1, <3>4, <3>5 DEF SingleInv, StopInv, Reading
    <3>7. UpOn(Polled + 1 .. N) = 0
      BY <2>1, Counting DEF SingleInv
    <3>8. Cardinality(FoundNow) = lastFdb /\ seen = lastUp
      BY <1>2, <1>7, <3>3
    <3> QED
      BY <1>3, <3>6, <3>7, <3>8
  <2>6. Single!Outstanding => clock' <= since' + Gap
    BY <1>1, <1>2 DEF SingleInv, StopInv, Reading
  <2>7. phase' \notin Reading
    BY <1>10 DEF Reading
  <2> QED
    BY <1>4, <2>3, <2>4, <2>5, <2>6, <2>7 DEF StopInv
<1> QED
  BY <1>4, <1>11, <1>12, <1>13, <1>14, <1>15 DEF SingleInv
-----------------------------------------------------------------------------
(* The invariant.                                                          *)

\* A run begins with cold VLANs and without a sample.
LEMMA InitSingleInv == RateInit => SingleInv
<1> SUFFICES ASSUME RateInit PROVE SingleInv
  OBVIOUS
<1>1. /\ evpn \in BOOLEAN
      /\ provisions \in SUBSET ({Measured[n] : n \in 1..N} \X Vlan)
      /\ learns \in SUBSET (IF evpn THEN {p[2] : p \in provisions} ELSE {})
  BY DEF RateInit, Single!Init, Measured, N
<1>2. /\ up = {} /\ born = [v \in Vlan |-> Never] /\ since = 0 /\ clock = 0
      /\ phase = "sync" /\ best = {} /\ shortest = MaxRtt
      /\ ports = <<>> /\ seen = 0 /\ fdb = {} /\ blind = FALSE /\ blinked = FALSE
      /\ lastUp = 0 /\ lastFdb = 0 /\ lastProgress = 0
      /\ appear = [v \in Vlan |-> Never]
  BY DEF RateInit, Single!Init, Never
<1>3. left \in Nat
  BY RateAssumption DEF RateInit, Single!Init, Single!TimesAssumption
<1>4. WorldInv
  <2>1. learns \subseteq Vlan /\ (~evpn => learns = {})
    BY <1>1
  <2> QED
    BY <1>1, <1>2, <2>1 DEF WorldInv
<1>5. ToolInv
  <2>1. appear \in [Vlan -> Nat \cup {Never}]
    BY <1>2
  <2>2. phase \in Phases /\ phase \notin Reading /\ phase \notin {"dsttrigger", "fdb", "read", "judge"}
    BY <1>2 DEF Phases, Reading
  <2>3. fdb \subseteq Vlan /\ blind \in BOOLEAN /\ blinked \in BOOLEAN
    BY <1>2
  <2>4. seen \in Nat /\ lastUp \in Nat /\ lastFdb \in Nat
    BY <1>2
  <2>5. lastProgress \in 0..clock
    BY <1>2
  <2> QED
    BY <1>3, <2>1, <2>2, <2>3, <2>4, <2>5 DEF ToolInv
<1>6. SyncInv
  BY <1>2, Constants DEF SyncInv
<1>7. TimeInv
  BY <1>2 DEF TimeInv, Reading, Single!Over
<1>8. FdbInv
  BY <1>2 DEF FdbInv, Reading
<1>9. StopInv
  <2>1. AllUp \in Nat /\ Cardinality(Born) \in Nat
    BY <1>4, Counting
  <2>2. NoPrematureStop
    BY <1>2 DEF NoPrematureStop, Single!NoPrematureStop
  <2> QED
    BY <1>2, <2>1, <2>2 DEF StopInv, Reading
<1> QED
  BY <1>4, <1>5, <1>6, <1>7, <1>8, <1>9 DEF SingleInv

\* The other mode of the tool leaves this one alone.
LEMMA UnchangedStep == SingleInv /\ UNCHANGED single => SingleInv'
<1> SUFFICES ASSUME SingleInv, UNCHANGED single PROVE SingleInv'
  OBVIOUS
<1>1. /\ UNCHANGED <<evpn, provisions, learns, up, born, since, clock, phase, left>>
      /\ UNCHANGED <<best, shortest, ports, seen, fdb, blind, blinked>>
      /\ UNCHANGED <<lastUp, lastFdb, lastProgress, appear>>
  BY DEF single
<1>2. Measured' = Measured /\ N' = N /\ Never' = Never
  BY <1>1 DEF Measured, Single!Measured, N, Never
<1>3. WorldInv'
  BY <1>1, <1>2 DEF SingleInv, WorldInv
<1>4. ToolInv'
  BY <1>1, <1>2 DEF SingleInv, ToolInv, Phases, Reading
<1>5. SyncInv'
  BY <1>1 DEF SingleInv, SyncInv
<1>6. TimeInv'
  BY <1>1, <1>2 DEF SingleInv, TimeInv, Taken, Polled, NumReads, Single!Reads, Reading, Single!Over
<1>7. FdbInv'
  BY <1>1, <1>2 DEF SingleInv, FdbInv, Late, Reading
<1>8. StopInv'
  <2>1. Single!Outstanding' <=> Single!Outstanding
    BY <1>1 DEF Single!Outstanding
  <2>2. NoPrematureStop'
    BY <1>1, <2>1 DEF SingleInv, StopInv, NoPrematureStop, Single!NoPrematureStop
  <2>3. Born' = Born /\ FoundNow' = FoundNow /\ AllUp' = AllUp
        /\ Polled' = Polled /\ Taken' = Taken
        /\ \A S : UpOn(S)' = UpOn(S)
    BY <1>1, <1>2 DEF Born, FoundNow, AllUp, UpOn, Pairs, Polled, Taken, NumReads, Single!Reads
  <2> QED
    BY <1>1, <1>2, <2>1, <2>2, <2>3 DEF SingleInv, StopInv, Reading
<1> QED
  BY <1>3, <1>4, <1>5, <1>6, <1>7, <1>8 DEF SingleInv

\* Every step keeps the invariant.
LEMMA NextSingleInv == SingleInv /\ [RateNext]_<<mh, vars, single>> => SingleInv'
<1> SUFFICES ASSUME SingleInv, [RateNext]_<<mh, vars, single>> PROVE SingleInv'
  OBVIOUS
<1>1. CASE UNCHANGED single
  BY <1>1, UnchangedStep
<1>2. CASE Single!Leaves
  <2>1. /\ since' = clock /\ UNCHANGED <<evpn, provisions, learns, clock, phase, left>>
        /\ UNCHANGED <<best, shortest>> /\ UNCHANGED <<ports, seen, fdb, blind, blinked>>
        /\ UNCHANGED <<lastUp, lastFdb, lastProgress, appear>>
    BY <1>2 DEF Single!Leaves, Single!sync, Single!round, Single!poll
  <2>2. CASE \E p \in Single!Port \X Vlan : Single!Provision(p)
    BY <2>1, <2>2, ProvisionStep
  <2>3. CASE \E v \in Vlan : Single!Learn(v)
    BY <2>1, <2>3, LearnStep
  <2> QED
    BY <1>2, <2>2, <2>3 DEF Single!Leaves
<1>3. CASE Single!Tick
  BY <1>3, TickStep
<1>4. CASE Single!Tool
  BY <1>4, SampleStep, StartTriggerStep, TriggersStep, DstTriggerStep, ReadStep, ReadFdbStep,
     JudgeStep, SleepStep DEF Single!Tool
<1> QED
  BY <1>1, <1>2, <1>3, <1>4 DEF RateNext, Single!Next

\* The inductive invariant holds of the tool.
THEOREM SingleInvariance == RateSpec => []SingleInv
<1> QED
  BY InitSingleInv, NextSingleInv, PTL DEF RateSpec
-----------------------------------------------------------------------------
(* What it says of the runs of the tool.                                   *)

\* The settle timer does not cut off what is still being provisioned or learned,
\* although it runs from the trigger and a round sees the ports at different
\* times, unless a read of the round that stopped the run failed.
THEOREM NothingCutOff == RateSpec => []NoPrematureStop
<1>1. SingleInv => NoPrematureStop
  BY DEF SingleInv, StopInv
<1> QED
  BY <1>1, SingleInvariance, PTL

\* The longest time of a round.
LEMMA RoundIsSpan ==
  ASSUME evpn \in BOOLEAN
  PROVE  /\ Single!Round = Span(NumReads) + ReadTime /\ Span(NumReads) \in Nat
         /\ evpn => Single!Round = 3 * ReadTime
         /\ \A k \in 0..NumReads : Span(k) \in Nat /\ Span(k) <= Span(NumReads)
<1>1. NumReads \in Nat /\ ReadTime \in Nat
  BY Constants, Modes
<1>2. Single!Round = (NumReads + 1) * ReadTime
  BY DEF Single!Round, NumReads
<1>3. Single!Round = Span(NumReads) + ReadTime /\ Span(NumReads) \in Nat
  BY <1>1, <1>2 DEF Span
<1>4. evpn => Single!Round = 3 * ReadTime
  <2>1. evpn => NumReads + 1 = 3
    BY Modes
  <2> QED
    BY <1>2, <2>1
<1>5. ASSUME NEW k \in 0..NumReads
      PROVE  Span(k) \in Nat /\ Span(k) <= Span(NumReads)
  <2>1. k \in Nat /\ NumReads - k \in Nat
    BY <1>1
  <2>2. (NumReads - k) * ReadTime \in Nat /\ k * ReadTime \in Nat
    BY <1>1, <2>1
  <2>3. NumReads * ReadTime = k * ReadTime + (NumReads - k) * ReadTime
    BY <1>1, <2>1
  <2> QED
    BY <2>2, <2>3 DEF Span
<1> QED
  BY <1>3, <1>4, <1>5

\* --max-wait ends the wait even if progress never ceases: no round begins after
\* it, and the round that began before is over in time.
THEOREM WaitEnds == RateSpec => []EndsInTime
<1>1. SingleInv => EndsInTime
  <2> SUFFICES ASSUME SingleInv, phase # "sync"
               PROVE  clock < Single!Max({2 * TriggerTime + 1, MaxWait + Single!Round + Interval})
    BY DEF EndsInTime, Single!EndsInTime, Single!Triggered, Single!Over
  <2>1. /\ TriggerTime \in Nat /\ MaxWait \in Nat /\ Interval \in Nat /\ ReadTime \in Nat
        /\ clock \in Nat /\ left \in Nat /\ evpn \in BOOLEAN
    BY Constants DEF SingleInv, WorldInv, ToolInv
  <2>2. Single!Round = Span(NumReads) + ReadTime /\ Span(NumReads) \in Nat
    BY <2>1, RoundIsSpan
  <2> DEFINE a == 2 * TriggerTime + 1
             b == MaxWait + Single!Round + Interval
  <2>3. a \in Int /\ b \in Int /\ b = MaxWait + Span(NumReads) + ReadTime + Interval
    BY <2>1, <2>2
  <2>4. clock < a \/ clock < b
    <3>1. CASE phase \in {"trigger", "dsttrigger"}
      BY <2>1, <3>1 DEF SingleInv, TimeInv
    <3>2. CASE phase \in Reading
      <4>1. Taken \in 0..NumReads
        <5>1. /\ N \in Nat /\ N >= 1 /\ NumReads \in Nat /\ Len(ports) \in 0..N
              /\ evpn => N = 1 /\ NumReads = 2
              /\ ~evpn => NumReads = N
          BY <2>1, <3>2, Modes DEF SingleInv, ToolInv
        <5>2. Taken = NumReads \/ Taken = N - Len(ports)
          BY DEF Taken, Polled
        <5> QED
          BY <2>1, <5>1, <5>2
      <4>2. Span(Taken) \in Nat /\ Span(Taken) <= Span(NumReads)
        BY <2>1, <4>1, RoundIsSpan
      <4>3. clock + left < MaxWait + Span(Taken) + ReadTime
        BY <3>2 DEF SingleInv, TimeInv
      <4> HIDE DEF a
      <4> QED
        BY <2>1, <2>2, <2>3, <4>2, <4>3
    <3>3. CASE phase = "sleep"
      BY <2>1, <2>2, <2>3, <3>3 DEF SingleInv, TimeInv
    <3>4. CASE phase \in Single!Over
      BY <2>1, <2>3, <3>4 DEF SingleInv, TimeInv
    <3> QED
      BY <3>1, <3>2, <3>3, <3>4 DEF SingleInv, ToolInv, Phases
  <2> HIDE DEF a, b
  <2>5. Single!Max({a, b}) \in {a, b} /\ Single!Max({a, b}) >= a /\ Single!Max({a, b}) >= b
    BY <2>3, MaxOfTwo
  <2>6. clock < Single!Max({a, b})
    BY <2>1, <2>3, <2>4, <2>5
  <2> QED
    BY <2>6 DEF a, b
<1> QED
  BY <1>1, SingleInvariance, PTL

\* The times of the report are those of the leaves: last-change off by half of
\* the shortest round trip at most, an FDB entry never too early, and late by a
\* round of polling at most if no read of the FDB failed.
THEOREM TimesHold == RateSpec => []TimesAreTrue
<1>1. SingleInv => TimesAreTrue
  <2> SUFFICES ASSUME SingleInv PROVE TimesAreTrue
    OBVIOUS
  <2>1. \A kept \in best : 2 * Skew - kept.off \in -shortest..shortest
    <3> SUFFICES ASSUME NEW kept \in best
                 PROVE  2 * Skew - kept.off \in -shortest..shortest
      OBVIOUS
    <3>1. /\ kept.off \in Int /\ shortest \in 0..MaxRtt /\ MaxRtt \in Nat /\ Skew \in Int
          /\ 2 * Skew - kept.off <= shortest /\ kept.off - 2 * Skew <= shortest
      BY Constants DEF SingleInv, SyncInv
    <3> QED
      BY <3>1
  <2>2. ASSUME NEW v \in Vlan, appear[v] # Single!Never
        PROVE  /\ appear[v] - born[v] >= 0
               /\ ~blinked => appear[v] - born[v] <= Slack + Single!Round
    <3>1. /\ born[v] # Never /\ born[v] <= appear[v]
          /\ ~blinked => appear[v] <= born[v] + Slack + 3 * ReadTime
      BY <2>2 DEF SingleInv, FdbInv, Never
    <3>2. appear[v] \in Nat /\ born[v] \in Nat
      BY <2>2, <3>1 DEF SingleInv, ToolInv, WorldInv, Never
    <3>3. evpn
      BY <3>1 DEF SingleInv, WorldInv
    <3>4. Single!Round = 3 * ReadTime
      BY <3>3, RoundIsSpan
    <3> QED
      BY <3>1, <3>2, <3>4, Constants
  <2> QED
    BY <2>1, <2>2 DEF TimesAreTrue, Single!TimesAreTrue, Slack
<1> QED
  BY <1>1, SingleInvariance, PTL
=============================================================================
