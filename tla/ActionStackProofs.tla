------------------------- MODULE ActionStackProofs -------------------------
(***************************************************************************)
(* Theorems about ActionStack, for every choice of its constants.          *)
(*                                                                         *)
(* Ownership (nothing is deleted twice) holds whatever the listeners and   *)
(* the allocator do.  The history, the honesty of the save point and the   *)
(* refinement of UndoHistory hold when listeners do not throw and freed    *)
(* addresses are not handed out again.  Neither condition can be dropped:  *)
(* with ListenersThrow or AddressReuse set to TRUE in the configuration of *)
(* the run action_stack_history, TLC finds its properties violated.        *)
(***************************************************************************)
EXTENDS ActionStack, SequenceTheorems, TLAPS

-----------------------------------------------------------------------------
(* Sequences used as stacks.                                               *)

\* pop_back removes the last element and no other.
LEMMA PopBackLemma ==
  ASSUME NEW S, NEW s \in Seq(S), s # <<>>
  PROVE  /\ Len(s) \in Nat \ {0}
         /\ Back(s) \in S
         /\ PopBack(s) \in Seq(S)
         /\ Len(PopBack(s)) = Len(s) - 1
         /\ \A i \in 1..(Len(s) - 1) : PopBack(s)[i] = s[i]
  <1>1. Len(s) \in Nat \ {0} /\ \A i \in 1..Len(s) : s[i] \in S
    BY EmptySeq, ElementOfSeq
  <1>2. PICK n \in Nat : n = Len(s) - 1
    BY <1>1
  <1>3. /\ SubSeq(s, 1, n) \in Seq(S)
        /\ Len(SubSeq(s, 1, n)) = n
        /\ \A i \in 1..n : SubSeq(s, 1, n)[i] = s[i]
    BY <1>1, <1>2, SubSeqProperties
  <1> QED BY <1>1, <1>2, <1>3 DEF Back, PopBack

\* Cutting a history behind its n-th document and adding one.
LEMMA TruncateLemma ==
  ASSUME NEW S, NEW s \in Seq(S), NEW n \in 0..Len(s), NEW e \in S
  PROVE  LET t == Append(SubSeq(s, 1, n), e)
         IN /\ t \in Seq(S)
            /\ Len(t) = n + 1
            /\ \A i \in 1..n : t[i] = s[i]
            /\ t[n + 1] = e
  <1> DEFINE u == SubSeq(s, 1, n)
  <1>1. u \in Seq(S) /\ Len(u) = n /\ \A i \in 1..n : u[i] = s[i]
    BY ElementOfSeq, SubSeqProperties
  <1> QED BY <1>1, AppendProperties

\* Performing an action gives a document, and the action after it can be
\* performed again.
LEMMA PerformType ==
  ASSUME NEW d \in Doc, NEW a \in Action, NEW how \in {"do", "undo"}
  PROVE  Performed(d, a) \in Doc /\ Swapped(d, a, how) \in Action
  BY DEF Doc, Action, Performed, Swapped

-----------------------------------------------------------------------------
(* Ownership.                                                              *)

\* No address is on the stacks s and t twice.
Distinct(s, t) ==
  /\ \A i, j \in 1..Len(s) : s[i] = s[j] => i = j
  /\ \A i, j \in 1..Len(t) : t[i] = t[j] => i = j
  /\ \A i \in 1..Len(s), j \in 1..Len(t) : s[i] # t[j]

\* Every element of the sequence s is in L.
Within(s, L) == \A i \in 1..Len(s) : s[i] \in L

\* What NoDoubleFree needs to be inductive: the addresses in use were handed
\* out, and the history is as long as the stacks say.
Structure == /\ TypeOK
             /\ NoDoubleFree
             /\ Live \subseteq used
             /\ Len(hist) = Len(undo_actions) + Len(redo_actions) + 1

LEMMA RangeLemma ==
  ASSUME NEW s, NEW t, NEW L
  PROVE  LET S == {s[i] : i \in 1..Len(s)}
             T == {t[i] : i \in 1..Len(t)}
         IN /\ S \cup T \subseteq L <=> /\ \A i \in 1..Len(s) : s[i] \in L
                                        /\ \A i \in 1..Len(t) : t[i] \in L
            /\ S \cap T = {} <=> \A i \in 1..Len(s), j \in 1..Len(t) : s[i] # t[j]
  OBVIOUS

\* NoDoubleFree by positions, in this state and in the next.
LEMMA NoDoubleFreeDistinct ==
  /\ NoDoubleFree <=> /\ Within(undo_actions, Live)
                      /\ Within(redo_actions, Live)
                      /\ Distinct(undo_actions, redo_actions)
  /\ NoDoubleFree' <=> /\ Within(undo_actions', Live')
                       /\ Within(redo_actions', Live')
                       /\ Distinct(undo_actions', redo_actions')
  <1>1. /\ OnUndo \cup OnRedo \subseteq Live
             <=> /\ \A i \in 1..Len(undo_actions) : undo_actions[i] \in Live
                 /\ \A i \in 1..Len(redo_actions) : redo_actions[i] \in Live
        /\ OnUndo \cap OnRedo = {}
             <=> \A i \in 1..Len(undo_actions), j \in 1..Len(redo_actions) :
                   undo_actions[i] # redo_actions[j]
    BY RangeLemma DEF OnUndo, OnRedo
  <1>2. /\ OnUndo' \cup OnRedo' \subseteq Live'
             <=> /\ \A i \in 1..Len(undo_actions') : undo_actions'[i] \in Live'
                 /\ \A i \in 1..Len(redo_actions') : redo_actions'[i] \in Live'
        /\ OnUndo' \cap OnRedo' = {}
             <=> \A i \in 1..Len(undo_actions'), j \in 1..Len(redo_actions') :
                   undo_actions'[i] # redo_actions'[j]
    BY RangeLemma DEF OnUndo, OnRedo
  <1> QED BY <1>1, <1>2 DEF NoDoubleFree, Distinct, Within

\* Moving the top of the stack s to the stack t.
LEMMA MoveLemma ==
  ASSUME NEW s \in Seq(Addr), NEW t \in Seq(Addr), s # <<>>, NEW L,
         Distinct(s, t), Within(s, L), Within(t, L)
  PROVE  LET p == Back(s)
             u == PopBack(s)
             v == Append(t, p)
         IN /\ Len(s) \in Nat \ {0} /\ Len(t) \in Nat
            /\ p = s[Len(s)] /\ p \in Addr /\ p \in L
            /\ u \in Seq(Addr) /\ v \in Seq(Addr)
            /\ Len(u) = Len(s) - 1 /\ Len(v) = Len(t) + 1
            /\ \A i \in 1..(Len(s) - 1) : u[i] = s[i]
            /\ \A i \in 1..Len(t) : v[i] = t[i]
            /\ v[Len(t) + 1] = p
            /\ Distinct(u, v) /\ Within(u, L) /\ Within(v, L)
  <1> DEFINE p == Back(s)
             u == PopBack(s)
             v == Append(t, p)
  <1>1. /\ Len(s) \in Nat \ {0} /\ Len(t) \in Nat
        /\ p = s[Len(s)] /\ p \in Addr /\ u \in Seq(Addr)
        /\ Len(u) = Len(s) - 1
        /\ \A i \in 1..(Len(s) - 1) : u[i] = s[i]
    BY PopBackLemma, LenProperties DEF Back
  <1>2. /\ v \in Seq(Addr) /\ Len(v) = Len(t) + 1
        /\ \A i \in 1..Len(t) : v[i] = t[i]
        /\ v[Len(t) + 1] = p
    BY <1>1, AppendProperties
  <1> HIDE DEF p, u, v
  <1>3. Distinct(u, v)
    <2>1. \A i, j \in 1..Len(u) : u[i] = u[j] => i = j
      BY <1>1 DEF Distinct
    <2>2. ASSUME NEW i \in 1..Len(v), NEW j \in 1..Len(v), v[i] = v[j]
          PROVE  i = j
      <3>1. /\ i \in 1..Len(t) \/ i = Len(t) + 1
            /\ j \in 1..Len(t) \/ j = Len(t) + 1
        BY <1>1, <1>2
      <3>2. Len(s) \in 1..Len(s)
        BY <1>1
      <3> QED BY <1>1, <1>2, <2>2, <3>1, <3>2 DEF Distinct
    <2>3. ASSUME NEW i \in 1..Len(u), NEW j \in 1..Len(v)
          PROVE  u[i] # v[j]
      <3>1. /\ j \in 1..Len(t) \/ j = Len(t) + 1
            /\ i \in 1..Len(s) /\ i # Len(s) /\ u[i] = s[i]
        BY <1>1, <1>2
      <3>2. Len(s) \in 1..Len(s)
        BY <1>1
      <3> QED BY <1>1, <1>2, <3>1, <3>2 DEF Distinct
    <2> QED BY <2>1, <2>2, <2>3 DEF Distinct
  <1>4. p \in L /\ Within(u, L)
    BY <1>1 DEF Within
  <1>5. ASSUME NEW i \in 1..Len(v) PROVE v[i] \in L
    <2>1. i \in 1..Len(t) \/ i = Len(t) + 1
      BY <1>1, <1>2
    <2> QED BY <1>2, <1>4, <2>1 DEF Within
  <1> QED BY <1>1, <1>2, <1>3, <1>4, <1>5 DEF Within, p, u, v

LEMMA DistinctSym == \A s, t : Distinct(s, t) => Distinct(t, s)
  BY DEF Distinct

\* Pushing a new address.
LEMMA PushLemma ==
  ASSUME NEW s \in Seq(Addr), NEW t \in Seq(Addr), Distinct(s, t), NEW p \in Addr,
         \A i \in 1..Len(s) : s[i] # p
  PROVE  Distinct(Append(s, p), <<>>)
  <1>1. /\ Len(Append(s, p)) = Len(s) + 1 /\ Len(s) \in Nat
        /\ \A i \in 1..Len(s) : Append(s, p)[i] = s[i]
        /\ Append(s, p)[Len(s) + 1] = p
    BY AppendProperties, LenProperties
  <1> QED BY <1>1 DEF Distinct

LEMMA StructureInit == Init => Structure
  <1> SUFFICES ASSUME Init PROVE Structure
    OBVIOUS
  <1>1. doc \in Doc /\ <<doc>> \in Seq(Doc) /\ Len(<<doc>>) = 1
    BY DEF Init
  <1>2. TypeOK /\ Len(undo_actions) = 0 /\ Len(redo_actions) = 0 /\ Len(hist) = 1
    BY <1>1, EmptySeq DEF Init, TypeOK
  <1>3. Live = {}
    BY DEF Init, Live
  <1>4. NoDoubleFree
    BY <1>2 DEF NoDoubleFree, OnUndo, OnRedo
  <1> QED BY <1>2, <1>3, <1>4 DEF Structure

\* One lemma for undo and redo: performing the top of one stack and moving it
\* to the other keeps every stacked address live.
LEMMA SwapLemma ==
  ASSUME NEW d \in Doc, NEW h \in [Addr -> Action \cup {NULL}], NEW p \in Addr,
         h[p] # NULL, NEW how \in {"do", "undo"}
  PROVE  LET g == [h EXCEPT ![p] = Swapped(d, h[p], how)]
         IN /\ Performed(d, h[p]) \in Doc
            /\ g \in [Addr -> Action \cup {NULL}]
            /\ {q \in Addr : g[q] # NULL} = {q \in Addr : h[q] # NULL}
            /\ h[p] \in Action
  <1>1. h[p] \in Action
    OBVIOUS
  <1>2. Performed(d, h[p]) \in Doc /\ Swapped(d, h[p], how) \in Action
    BY <1>1, PerformType
  <1>3. Swapped(d, h[p], how) # NULL
    BY <1>2, NullAssumption
  <1> QED BY <1>1, <1>2, <1>3

\* Structure, unfolded into what the steps below use.
LEMMA StructureFacts ==
  ASSUME Structure
  PROVE  /\ doc \in Doc /\ heap \in [Addr -> Action \cup {NULL}]
         /\ undo_actions \in Seq(Addr) /\ redo_actions \in Seq(Addr)
         /\ Distinct(undo_actions, redo_actions)
         /\ Within(undo_actions, Live) /\ Within(redo_actions, Live)
  BY NoDoubleFreeDistinct DEF Structure, TypeOK

LEMMA StructureUndo ==
  ASSUME Structure, undo
  PROVE  Structure'
  <1> DEFINE p == Back(undo_actions)
  <1>1. /\ undo_actions # <<>>
        /\ undo_actions' = PopBack(undo_actions)
        /\ redo_actions' = Append(redo_actions, p)
        /\ doc' = Performed(doc, heap[p])
        /\ heap' = [heap EXCEPT ![p] = Swapped(doc, heap[p], "undo")]
    BY DEF undo, canUndo
  <1>2. /\ p \in Addr /\ p \in Live
        /\ Len(undo_actions) \in Nat \ {0} /\ Len(redo_actions) \in Nat
        /\ undo_actions' \in Seq(Addr) /\ redo_actions' \in Seq(Addr)
        /\ Len(undo_actions') = Len(undo_actions) - 1
        /\ Len(redo_actions') = Len(redo_actions) + 1
        /\ Distinct(undo_actions', redo_actions')
        /\ Within(undo_actions', Live) /\ Within(redo_actions', Live)
    BY <1>1, StructureFacts, MoveLemma
  <1>3. doc' \in Doc /\ heap' \in [Addr -> Action \cup {NULL}] /\ Live' = Live
    BY <1>1, <1>2, StructureFacts, SwapLemma DEF Live
  <1>4. TypeOK'
    BY <1>2, <1>3 DEF Structure, TypeOK, undo, history
  <1>5. NoDoubleFree'
    BY <1>2, <1>3, NoDoubleFreeDistinct
  <1> QED BY <1>2, <1>3, <1>4, <1>5 DEF Structure, undo, history

LEMMA StructureRedo ==
  ASSUME Structure, redo
  PROVE  Structure'
  <1> DEFINE p == Back(redo_actions)
  <1>1. /\ redo_actions # <<>>
        /\ redo_actions' = PopBack(redo_actions)
        /\ undo_actions' = Append(undo_actions, p)
        /\ doc' = Performed(doc, heap[p])
        /\ heap' = [heap EXCEPT ![p] = Swapped(doc, heap[p], "do")]
    BY DEF redo, canRedo
  <1>2. /\ p \in Addr /\ p \in Live
        /\ Len(redo_actions) \in Nat \ {0} /\ Len(undo_actions) \in Nat
        /\ undo_actions' \in Seq(Addr) /\ redo_actions' \in Seq(Addr)
        /\ Len(redo_actions') = Len(redo_actions) - 1
        /\ Len(undo_actions') = Len(undo_actions) + 1
        /\ Distinct(redo_actions', undo_actions')
        /\ Within(undo_actions', Live) /\ Within(redo_actions', Live)
    BY <1>1, StructureFacts, MoveLemma, DistinctSym
  <1>3. doc' \in Doc /\ heap' \in [Addr -> Action \cup {NULL}] /\ Live' = Live
    BY <1>1, <1>2, StructureFacts, SwapLemma DEF Live
  <1>4. TypeOK'
    BY <1>2, <1>3 DEF Structure, TypeOK, redo, history
  <1>5. NoDoubleFree'
    BY <1>2, <1>3, DistinctSym, NoDoubleFreeDistinct
  <1> QED BY <1>2, <1>3, <1>4, <1>5 DEF Structure, redo, history

LEMMA StructureSetSavePoint ==
  ASSUME Structure, setSavePoint
  PROVE  Structure'
  <1>1. undo_actions # <<>> => Back(undo_actions) \in Addr
    BY StructureFacts, PopBackLemma
  <1>2. Len(undo_actions) + 1 \in Nat
    BY StructureFacts, LenProperties
  <1>3. TypeOK' /\ Live' = Live
    BY <1>1, <1>2 DEF setSavePoint, Structure, TypeOK, Live, stacks
  <1>4. NoDoubleFree'
    BY <1>3, NoDoubleFreeDistinct DEF setSavePoint, Structure, stacks
  <1> QED BY <1>3, <1>4 DEF Structure, setSavePoint, stacks

LEMMA StructureUndoThrows ==
  ASSUME Structure, undoThrows \/ redoThrows
  PROVE  Structure'
  <1>1. PICK p \in Addr, how \in {"do", "undo"} :
             /\ p \in Live
             /\ doc' = Performed(doc, heap[p])
             /\ heap' = [heap EXCEPT ![p] = Swapped(doc, heap[p], how)]
    <2>1. CASE undoThrows
      <3>1. Back(undo_actions) \in Addr /\ Back(undo_actions) \in Live
        BY <2>1, StructureFacts, MoveLemma DEF undoThrows, canUndo
      <3> QED BY <2>1, <3>1 DEF undoThrows
    <2>2. CASE redoThrows
      <3>1. Back(redo_actions) \in Addr /\ Back(redo_actions) \in Live
        BY <2>2, StructureFacts, MoveLemma, DistinctSym DEF redoThrows, canRedo
      <3> QED BY <2>2, <3>1 DEF redoThrows
    <2> QED BY <2>1, <2>2
  <1>2. doc' \in Doc /\ heap' \in [Addr -> Action \cup {NULL}] /\ Live' = Live
    BY <1>1, StructureFacts, SwapLemma DEF Live
  <1>3. UNCHANGED <<used, stacks, save_point, last_was_add, history>>
    BY DEF undoThrows, redoThrows
  <1>4. TypeOK'
    BY <1>2, <1>3 DEF Structure, TypeOK, stacks, history
  <1>5. NoDoubleFree'
    BY <1>2, <1>3, NoDoubleFreeDistinct DEF Structure, stacks
  <1> QED BY <1>2, <1>3, <1>4, <1>5 DEF Structure, stacks, history

\* The new action's address is on neither stack.
LEMMA NewAddress ==
  ASSUME Structure, NEW p \in Allocatable
  PROVE  /\ p \in Addr /\ p \notin Live /\ heap[p] = NULL
         /\ \A i \in 1..Len(undo_actions) : undo_actions[i] # p
         /\ \A i \in 1..Len(redo_actions) : redo_actions[i] # p
  <1>1. p \in Addr /\ p \notin Live
    BY DEF Structure, TypeOK, Allocatable, Live
  <1> QED BY <1>1, StructureFacts DEF Within, Live

LEMMA AddedType ==
  ASSUME Structure, NEW f \in Fields, NEW v \in Values
  PROVE  AddedDoc(f, v) \in Doc /\ AddedAction(f) \in Action /\ AddedAction(f) # NULL
  <1>1. doc \in [Fields -> Values]
    BY StructureFacts DEF Doc
  <1>2. AddedAction(f) \in Action
    BY <1>1 DEF AddedAction, Action
  <1> QED BY <1>1, <1>2, NullAssumption DEF AddedDoc, Doc

LEMMA StructureAddAction ==
  ASSUME Structure, NEW p \in Allocatable, NEW f \in Fields, NEW v \in Values,
         NEW joins \in BOOLEAN, addAction(p, f, v, joins)
  PROVE  Structure'
  <1>1. /\ doc' \in Doc /\ AddedAction(f) \in Action /\ AddedAction(f) # NULL
        /\ redo_actions' = <<>> /\ last_was_add' = TRUE
        /\ used' = used \cup {p} /\ save_point' = save_point /\ disk' = disk
    BY AddedType DEF addAction
  <1>2. /\ p \in Addr /\ heap[p] = NULL
        /\ \A i \in 1..Len(undo_actions) : undo_actions[i] # p
    BY NewAddress
  <1>3. /\ hist \in Seq(Doc) /\ savedAt \in Nat
        /\ Len(hist) = Len(undo_actions) + Len(redo_actions) + 1
        /\ Len(undo_actions) \in Nat /\ Len(redo_actions) \in Nat
        /\ Len(redo_actions') = 0 /\ redo_actions' \in Seq(Addr)
    BY <1>1, StructureFacts, LenProperties, EmptySeq DEF Structure, TypeOK
  <1>4. CASE MayMerge(f, joins)
    <2>1. /\ UNCHANGED <<undo_actions, heap, savedAt>> /\ redo_actions = <<>>
          /\ hist' = [hist EXCEPT ![Len(undo_actions) + 1] = doc']
      BY <1>4 DEF addAction, MayMerge
    <2>2. hist' \in Seq(Doc) /\ Len(hist') = Len(undo_actions') + Len(redo_actions') + 1
      BY <1>1, <1>3, <2>1, ExceptSeq
    <2>3. TypeOK' /\ Live' = Live
      BY <1>1, <1>2, <1>3, <2>1, <2>2 DEF Structure, TypeOK, Live
    <2>4. NoDoubleFree'
      BY <1>1, <2>1, <2>3, NoDoubleFreeDistinct DEF Structure
    <2> QED BY <1>1, <2>2, <2>3, <2>4 DEF Structure
  <1>5. CASE ~MayMerge(f, joins)
    <2>1. /\ undo_actions' = Append(undo_actions, p)
          /\ heap' = [Deleted(heap, OnRedo) EXCEPT ![p] = AddedAction(f)]
          /\ hist' = Append(SubSeq(hist, 1, Len(undo_actions) + 1), doc')
          /\ savedAt' = IF savedAt > Len(undo_actions) + 1 THEN 0 ELSE savedAt
      BY <1>5 DEF addAction
    <2>2. /\ undo_actions' \in Seq(Addr)
          /\ Len(undo_actions') = Len(undo_actions) + 1
          /\ \A i \in 1..Len(undo_actions) : undo_actions'[i] = undo_actions[i]
          /\ undo_actions'[Len(undo_actions) + 1] = p
      BY <1>2, <2>1, StructureFacts, AppendProperties
    <2>3. hist' \in Seq(Doc) /\ Len(hist') = Len(undo_actions) + 2
      BY <1>1, <1>3, <2>1, TruncateLemma
    <2>4. /\ heap' \in [Addr -> Action \cup {NULL}]
          /\ heap'[p] # NULL
          /\ \A q \in Addr : q # p => heap'[q] = IF q \in OnRedo THEN NULL ELSE heap[q]
      BY <1>1, <1>2, <2>1, StructureFacts DEF Deleted
    <2>5. TypeOK'
      BY <1>1, <1>2, <1>3, <2>1, <2>2, <2>3, <2>4 DEF Structure, TypeOK
    <2>6. Live' \subseteq Live \cup {p}
      BY <1>2, <2>4 DEF Live
    <2>7. Distinct(undo_actions', redo_actions')
      BY <1>1, <1>2, <2>1, StructureFacts, PushLemma
    <2>8. ASSUME NEW i \in 1..Len(undo_actions') PROVE undo_actions'[i] \in Live'
      <3>1. CASE i = Len(undo_actions) + 1
        BY <1>2, <2>2, <2>4, <3>1 DEF Live
      <3>2. CASE i # Len(undo_actions) + 1
        <4>1. i \in 1..Len(undo_actions) /\ undo_actions'[i] = undo_actions[i]
          BY <1>3, <2>2, <3>2
        <4>2. undo_actions[i] \in Live /\ undo_actions[i] # p
          BY <1>2, <4>1, StructureFacts DEF Within
        <4>3. undo_actions[i] \notin OnRedo
          BY <4>1, StructureFacts DEF Distinct, OnRedo
        <4> QED BY <2>4, <4>1, <4>2, <4>3 DEF Live
      <3> QED BY <3>1, <3>2
    <2>9. NoDoubleFree'
      BY <1>3, <2>7, <2>8, NoDoubleFreeDistinct DEF Within
    <2> QED BY <1>1, <1>3, <2>2, <2>3, <2>5, <2>6, <2>9 DEF Structure
  <1> QED BY <1>4, <1>5

LEMMA StructureAddActionThrows ==
  ASSUME Structure, NEW p \in Allocatable, NEW f \in Fields, NEW v \in Values,
         addActionThrows(p, f, v)
  PROVE  Structure'
  <1>1. /\ doc' \in Doc /\ AddedAction(f) \in Action /\ AddedAction(f) # NULL
        /\ heap' = [heap EXCEPT ![p] = AddedAction(f)]
        /\ used' = used \cup {p}
        /\ UNCHANGED <<stacks, save_point, last_was_add, history>>
    BY AddedType DEF addActionThrows
  <1>2. p \in Addr
    BY NewAddress
  <1>3. heap' \in [Addr -> Action \cup {NULL}] /\ Live' = Live \cup {p}
    BY <1>1, <1>2, StructureFacts DEF Live
  <1>4. TypeOK'
    BY <1>1, <1>2, <1>3 DEF Structure, TypeOK, stacks, history
  <1>5. NoDoubleFree'
    BY <1>1, <1>3, NoDoubleFreeDistinct DEF Structure, stacks, Within
  <1> QED BY <1>1, <1>3, <1>4, <1>5 DEF Structure, stacks, history

LEMMA StructureNext ==
  ASSUME Structure, [Next]_vars
  PROVE  Structure'
  <1>1. CASE Next
    BY <1>1, StructureAddAction, StructureAddActionThrows, StructureUndo,
       StructureRedo, StructureSetSavePoint, StructureUndoThrows DEF Next
  <1>2. CASE UNCHANGED vars
    <2>1. TypeOK' /\ Live' = Live
      BY <1>2 DEF vars, stacks, history, Structure, TypeOK, Live
    <2>2. NoDoubleFree'
      BY <1>2, <2>1, NoDoubleFreeDistinct DEF vars, stacks, Structure
    <2> QED BY <1>2, <2>1, <2>2 DEF vars, stacks, history, Structure
  <1> QED BY <1>1, <1>2

LEMMA StructureAlways == Spec => []Structure
  BY StructureInit, StructureNext, PTL DEF Spec

\* The variables keep their types, whatever the listeners and the allocator do.
THEOREM TypeCorrect == Spec => []TypeOK
  <1>1. Structure => TypeOK
    BY DEF Structure
  <1> QED BY <1>1, StructureAlways, PTL

\* No action is on the stacks twice or after its deletion, so the destructor
\* and the clearing of the redo list delete nothing twice: for every number of
\* actions, with reused addresses and throwing listeners.
THEOREM OwnershipCorrect == Spec => []NoDoubleFree
  <1>1. Structure => NoDoubleFree
    BY DEF Structure
  <1> QED BY <1>1, StructureAlways, PTL

-----------------------------------------------------------------------------
(* The history.                                                            *)

\* Performing an action and then what it has become gives the document back.
LEMMA SwapInverse ==
  ASSUME NEW d \in Doc, NEW a \in Action, NEW how \in {"do", "undo"}
  PROVE  Performed(Performed(d, a), Swapped(d, a, how)) = d
  BY DEF Doc, Action, Performed, Swapped

\* Undoing a new action gives the document before it, and undoing the action a
\* merged edit of the same field went into is undoing both edits.
LEMMA AddInverse ==
  ASSUME Structure, NEW f \in Fields, NEW v \in Values
  PROVE  /\ Performed(AddedDoc(f, v), AddedAction(f)) = doc
         /\ \A a \in Action : a.field = f
              => Performed(AddedDoc(f, v), a) = Performed(doc, a)
  <1>1. doc \in [Fields -> Values]
    BY StructureFacts DEF Doc
  <1>2. Performed(AddedDoc(f, v), AddedAction(f)) = doc
    BY <1>1 DEF Performed, AddedDoc, AddedAction
  <1>3. ASSUME NEW a \in Action, a.field = f
        PROVE  Performed(AddedDoc(f, v), a) = Performed(doc, a)
    BY <1>1, <1>3 DEF Performed, AddedDoc
  <1> QED BY <1>2, <1>3

LEMMA LinkedUndo ==
  ASSUME Structure, HistoryLinked, undo
  PROVE  HistoryLinked'
  <1> DEFINE n == Len(undo_actions)
             m == Len(redo_actions)
             p == Back(undo_actions)
  <1>1. /\ undo_actions # <<>>
        /\ undo_actions' = PopBack(undo_actions)
        /\ redo_actions' = Append(redo_actions, p)
        /\ doc' = Performed(doc, heap[p])
        /\ heap' = [heap EXCEPT ![p] = Swapped(doc, heap[p], "undo")]
        /\ hist' = hist
    BY DEF undo, canUndo, history
  <1>2. /\ n \in Nat \ {0} /\ m \in Nat
        /\ p = undo_actions[n] /\ p \in Addr /\ p \in Live
        /\ Len(undo_actions') = n - 1 /\ Len(redo_actions') = m + 1
        /\ \A i \in 1..(n - 1) : undo_actions'[i] = undo_actions[i]
        /\ \A i \in 1..m : redo_actions'[i] = redo_actions[i]
        /\ redo_actions'[m + 1] = p
    BY <1>1, StructureFacts, MoveLemma
  <1> HIDE DEF p
  <1>3. heap[p] \in Action /\ doc \in Doc
    BY <1>2, StructureFacts DEF Live
  <1>4. /\ Len(hist) = n + m + 1
        /\ doc = hist[n + 1]
        /\ \A i \in 1..n : hist[i] = Performed(hist[i + 1], heap[undo_actions[i]])
        /\ \A j \in 1..m : hist[n + m - j + 2]
                             = Performed(hist[n + m - j + 1], heap[redo_actions[j]])
    BY DEF HistoryLinked
  <1>5. doc' = hist[n]
    BY <1>1, <1>2, <1>4
  <1>6. ASSUME NEW i \in 1..(n - 1)
        PROVE  hist[i] = Performed(hist[i + 1], heap'[undo_actions'[i]])
    <2>1. i \in 1..n /\ n \in 1..n /\ i # n
      BY <1>2
    <2>2. undo_actions[i] # p /\ undo_actions[i] \in Addr
      BY <1>2, <2>1, StructureFacts, ElementOfSeq DEF Distinct
    <2>3. heap'[undo_actions'[i]] = heap[undo_actions[i]]
      BY <1>1, <1>2, <2>2, StructureFacts
    <2> QED BY <1>4, <2>1, <2>3
  <1>7. ASSUME NEW j \in 1..(m + 1)
        PROVE  hist[n + m - j + 2]
                 = Performed(hist[n + m - j + 1], heap'[redo_actions'[j]])
    <2>1. CASE j = m + 1
      <3>1. heap'[redo_actions'[j]] = Swapped(doc, heap[p], "undo")
        BY <1>1, <1>2, <2>1, StructureFacts
      <3>2. Performed(doc', heap'[redo_actions'[j]]) = doc
        BY <1>1, <1>3, <3>1, SwapInverse
      <3>3. n + m - j + 2 = n + 1 /\ n + m - j + 1 = n
        BY <1>2, <2>1
      <3> QED BY <1>4, <1>5, <3>2, <3>3
    <2>2. CASE j # m + 1
      <3>1. j \in 1..m /\ n \in 1..n
        BY <1>2, <2>2
      <3>2. redo_actions[j] # p /\ redo_actions[j] \in Addr
        BY <1>2, <3>1, StructureFacts, ElementOfSeq DEF Distinct
      <3>3. heap'[redo_actions'[j]] = heap[redo_actions[j]]
        BY <1>1, <1>2, <3>1, <3>2, StructureFacts
      <3> QED BY <1>4, <3>1, <3>3
    <2> QED BY <2>1, <2>2
  <1>8. Len(hist') = Len(undo_actions') + Len(redo_actions') + 1
    BY <1>1, <1>2, <1>4
  <1>9. doc' = hist'[Len(undo_actions') + 1]
    BY <1>1, <1>2, <1>5
  <1>10. \A i \in 1..Len(undo_actions') :
           hist'[i] = Performed(hist'[i + 1], heap'[undo_actions'[i]])
    BY <1>1, <1>2, <1>6
  <1>11. ASSUME NEW j \in 1..Len(redo_actions')
         PROVE  hist'[Len(undo_actions') + Len(redo_actions') - j + 2]
                  = Performed(hist'[Len(undo_actions') + Len(redo_actions') - j + 1],
                              heap'[redo_actions'[j]])
    <2>1. j \in 1..(m + 1) /\ Len(undo_actions') + Len(redo_actions') = n + m
      BY <1>2
    <2>2. hist[n + m - j + 2]
            = Performed(hist[n + m - j + 1], heap'[redo_actions'[j]])
      BY <1>7, <2>1
    <2>3. /\ Len(undo_actions') + Len(redo_actions') - j + 2 = n + m - j + 2
          /\ Len(undo_actions') + Len(redo_actions') - j + 1 = n + m - j + 1
      BY <2>1
    <2> QED BY <1>1, <2>2, <2>3
  <1> QED BY <1>8, <1>9, <1>10, <1>11 DEF HistoryLinked

LEMMA LinkedRedo ==
  ASSUME Structure, HistoryLinked, redo
  PROVE  HistoryLinked'
  <1> DEFINE n == Len(undo_actions)
             m == Len(redo_actions)
             p == Back(redo_actions)
  <1>1. /\ redo_actions # <<>>
        /\ redo_actions' = PopBack(redo_actions)
        /\ undo_actions' = Append(undo_actions, p)
        /\ doc' = Performed(doc, heap[p])
        /\ heap' = [heap EXCEPT ![p] = Swapped(doc, heap[p], "do")]
        /\ hist' = hist
    BY DEF redo, canRedo, history
  <1>2. /\ m \in Nat \ {0} /\ n \in Nat
        /\ p = redo_actions[m] /\ p \in Addr /\ p \in Live
        /\ Len(redo_actions') = m - 1 /\ Len(undo_actions') = n + 1
        /\ \A i \in 1..(m - 1) : redo_actions'[i] = redo_actions[i]
        /\ \A i \in 1..n : undo_actions'[i] = undo_actions[i]
        /\ undo_actions'[n + 1] = p
    BY <1>1, StructureFacts, MoveLemma, DistinctSym
  <1> HIDE DEF p
  <1>3. heap[p] \in Action /\ doc \in Doc
    BY <1>2, StructureFacts DEF Live
  <1>4. /\ Len(hist) = n + m + 1
        /\ doc = hist[n + 1]
        /\ \A i \in 1..n : hist[i] = Performed(hist[i + 1], heap[undo_actions[i]])
        /\ \A j \in 1..m : hist[n + m - j + 2]
                             = Performed(hist[n + m - j + 1], heap[redo_actions[j]])
    BY DEF HistoryLinked
  <1>5. doc' = hist[n + 2]
    <2>1. m \in 1..m /\ n + m - m + 2 = n + 2 /\ n + m - m + 1 = n + 1
      BY <1>2
    <2> QED BY <1>1, <1>2, <1>4, <2>1
  <1>6. ASSUME NEW i \in 1..(n + 1)
        PROVE  hist[i] = Performed(hist[i + 1], heap'[undo_actions'[i]])
    <2>1. CASE i = n + 1
      <3>1. heap'[undo_actions'[i]] = Swapped(doc, heap[p], "do")
        BY <1>1, <1>2, <2>1, StructureFacts
      <3>2. Performed(doc', heap'[undo_actions'[i]]) = doc
        BY <1>1, <1>3, <3>1, SwapInverse
      <3> QED BY <1>2, <1>4, <1>5, <2>1, <3>2
    <2>2. CASE i # n + 1
      <3>1. i \in 1..n /\ m \in 1..m
        BY <1>2, <2>2
      <3>2. undo_actions[i] # p /\ undo_actions[i] \in Addr
        BY <1>2, <3>1, StructureFacts, ElementOfSeq DEF Distinct
      <3>3. heap'[undo_actions'[i]] = heap[undo_actions[i]]
        BY <1>1, <1>2, <3>1, <3>2, StructureFacts
      <3> QED BY <1>4, <3>1, <3>3
    <2> QED BY <2>1, <2>2
  <1>7. ASSUME NEW j \in 1..(m - 1)
        PROVE  hist[n + m - j + 2]
                 = Performed(hist[n + m - j + 1], heap'[redo_actions'[j]])
    <2>1. j \in 1..m /\ m \in 1..m /\ j # m
      BY <1>2
    <2>2. redo_actions[j] # p /\ redo_actions[j] \in Addr
      BY <1>2, <2>1, StructureFacts, ElementOfSeq DEF Distinct
    <2>3. heap'[redo_actions'[j]] = heap[redo_actions[j]]
      BY <1>1, <1>2, <2>2, StructureFacts
    <2> QED BY <1>4, <2>1, <2>3
  <1>8. Len(hist') = Len(undo_actions') + Len(redo_actions') + 1
    BY <1>1, <1>2, <1>4
  <1>9. doc' = hist'[Len(undo_actions') + 1]
    BY <1>1, <1>2, <1>5
  <1>10. \A i \in 1..Len(undo_actions') :
           hist'[i] = Performed(hist'[i + 1], heap'[undo_actions'[i]])
    BY <1>1, <1>2, <1>6
  <1>11. ASSUME NEW j \in 1..Len(redo_actions')
         PROVE  hist'[Len(undo_actions') + Len(redo_actions') - j + 2]
                  = Performed(hist'[Len(undo_actions') + Len(redo_actions') - j + 1],
                              heap'[redo_actions'[j]])
    <2>1. j \in 1..(m - 1) /\ Len(undo_actions') + Len(redo_actions') = n + m
      BY <1>2
    <2>2. hist[n + m - j + 2]
            = Performed(hist[n + m - j + 1], heap'[redo_actions'[j]])
      BY <1>7, <2>1
    <2>3. /\ Len(undo_actions') + Len(redo_actions') - j + 2 = n + m - j + 2
          /\ Len(undo_actions') + Len(redo_actions') - j + 1 = n + m - j + 1
      BY <2>1
    <2> QED BY <1>1, <2>2, <2>3
  <1> QED BY <1>8, <1>9, <1>10, <1>11 DEF HistoryLinked

LEMMA LinkedAddAction ==
  ASSUME Structure, HistoryLinked,
         NEW p \in Allocatable, NEW f \in Fields, NEW v \in Values,
         NEW joins \in BOOLEAN, addAction(p, f, v, joins)
  PROVE  HistoryLinked'
  <1> DEFINE n == Len(undo_actions)
  <1>1. /\ doc' = AddedDoc(f, v) /\ doc' \in Doc
        /\ redo_actions' = <<>> /\ Len(redo_actions') = 0
        /\ Performed(doc', AddedAction(f)) = doc
        /\ \A a \in Action : a.field = f => Performed(doc', a) = Performed(doc, a)
    BY AddedType, AddInverse DEF addAction
  <1>2. n \in Nat /\ Len(redo_actions) \in Nat /\ hist \in Seq(Doc)
    BY StructureFacts, LenProperties DEF Structure, TypeOK
  <1>3. /\ Len(hist) = n + Len(redo_actions) + 1
        /\ doc = hist[n + 1]
        /\ \A i \in 1..n : hist[i] = Performed(hist[i + 1], heap[undo_actions[i]])
    BY DEF HistoryLinked
  <1>4. CASE MayMerge(f, joins)
    <2>1. /\ UNCHANGED <<undo_actions, heap>> /\ Len(redo_actions) = 0 /\ n # 0
          /\ hist' = [hist EXCEPT ![n + 1] = doc']
          /\ heap[undo_actions[n]].field = f
      <3>1. undo_actions # <<>> /\ redo_actions = <<>>
        BY <1>4 DEF MayMerge
      <3>2. n # 0
        BY <3>1, StructureFacts, EmptySeq
      <3> QED BY <1>4, <3>1, <3>2, EmptySeq DEF addAction, MayMerge, merge, Back
    <2>2. /\ Len(hist') = n + 1 /\ hist'[n + 1] = doc'
          /\ \A i \in 1..n : hist'[i] = hist[i]
      BY <1>1, <1>2, <1>3, <2>1, ExceptSeq
    <2>3. ASSUME NEW i \in 1..n
          PROVE  hist'[i] = Performed(hist'[i + 1], heap'[undo_actions'[i]])
      <3>1. CASE i = n
        <4>1. undo_actions[n] \in Live /\ undo_actions[n] \in Addr
          BY <3>1, StructureFacts, ElementOfSeq DEF Within
        <4>2. heap[undo_actions[n]] \in Action
          BY <4>1, StructureFacts DEF Live
        <4>3. Performed(doc', heap[undo_actions[n]]) = Performed(doc, heap[undo_actions[n]])
          BY <1>1, <2>1, <4>2
        <4>4. hist[n] = Performed(doc, heap[undo_actions[n]])
          BY <1>3, <3>1
        <4> QED BY <2>1, <2>2, <3>1, <4>3, <4>4
      <3>2. CASE i # n
        <4>1. i + 1 \in 1..n
          BY <1>2, <3>2
        <4> QED BY <1>3, <2>1, <2>2, <4>1
      <3> QED BY <3>1, <3>2
    <2> QED BY <1>1, <2>1, <2>2, <2>3 DEF HistoryLinked
  <1>5. CASE ~MayMerge(f, joins)
    <2>1. /\ undo_actions' = Append(undo_actions, p)
          /\ heap' = [Deleted(heap, OnRedo) EXCEPT ![p] = AddedAction(f)]
          /\ hist' = Append(SubSeq(hist, 1, n + 1), doc')
      BY <1>5 DEF addAction
    <2>2. /\ p \in Addr /\ \A i \in 1..n : undo_actions[i] # p
      BY NewAddress
    <2>3. /\ Len(undo_actions') = n + 1
          /\ \A i \in 1..n : undo_actions'[i] = undo_actions[i]
          /\ undo_actions'[n + 1] = p
      BY <2>1, <2>2, StructureFacts, AppendProperties
    <2>4. /\ Len(hist') = n + 2 /\ hist'[n + 2] = doc'
          /\ \A i \in 1..(n + 1) : hist'[i] = hist[i]
      BY <1>1, <1>2, <1>3, <2>1, TruncateLemma
    <2>5. /\ heap'[p] = AddedAction(f)
          /\ \A q \in Addr : q # p /\ q \notin OnRedo => heap'[q] = heap[q]
      BY <2>1, <2>2 DEF Deleted
    <2>6. ASSUME NEW i \in 1..(n + 1)
          PROVE  hist'[i] = Performed(hist'[i + 1], heap'[undo_actions'[i]])
      <3>1. CASE i = n + 1
        <4>1. hist'[i] = doc /\ hist'[i + 1] = doc'
          BY <1>2, <1>3, <2>4, <3>1
        <4> QED BY <1>1, <2>3, <2>5, <3>1, <4>1
      <3>2. CASE i # n + 1
        <4>1. i \in 1..n /\ i + 1 \in 1..(n + 1) /\ i \in 1..(n + 1)
          BY <1>2, <3>2
        <4>2. undo_actions[i] \in Addr /\ undo_actions[i] \notin OnRedo
          BY <4>1, StructureFacts, ElementOfSeq DEF Distinct, OnRedo
        <4>3. heap'[undo_actions'[i]] = heap[undo_actions[i]]
          BY <2>2, <2>3, <2>5, <4>1, <4>2
        <4> QED BY <1>3, <2>4, <4>1, <4>3
      <3> QED BY <3>1, <3>2
    <2> QED BY <1>1, <1>2, <2>3, <2>4, <2>6 DEF HistoryLinked
  <1> QED BY <1>4, <1>5

LEMMA LinkedInit == Init => HistoryLinked
  BY DEF Init, HistoryLinked

LEMMA LinkedNext ==
  ASSUME ~ListenersThrow, Structure, HistoryLinked, [Next]_vars
  PROVE  HistoryLinked'
  <1>1. CASE setSavePoint
    BY <1>1 DEF setSavePoint, stacks, HistoryLinked
  <1>2. CASE UNCHANGED vars
    BY <1>2 DEF vars, stacks, history, HistoryLinked
  <1> QED BY <1>1, <1>2, LinkedAddAction, LinkedUndo, LinkedRedo
          DEF Next, addActionThrows, undoThrows, redoThrows

\* Undo and redo lead through exactly the documents that were shown before,
\* however many actions there are and however edits merge, as long as no
\* listener throws.
THEOREM HistoryCorrect ==
  ASSUME ~ListenersThrow
  PROVE  Spec => []HistoryLinked
  <1>1. Structure /\ HistoryLinked /\ [Next]_vars => HistoryLinked'
    BY LinkedNext
  <1> QED BY <1>1, LinkedInit, StructureAlways, PTL DEF Spec

-----------------------------------------------------------------------------
(* Which way the next perform goes.                                        *)

\* All actions of s were last performed that way.
Facing(s, h, way) == \A i \in 1..Len(s) : h[s[i]].performed = way

\* The actions to undo were last done, and those to redo were last undone.
Directions == Facing(undo_actions, heap, "do") /\ Facing(redo_actions, heap, "undo")

\* What moving the top of the stack s to t does to the directions of both.
LEMMA MovedDirections ==
  ASSUME Structure,
         NEW s \in Seq(Addr), NEW t \in Seq(Addr), s # <<>>, Distinct(s, t),
         Within(s, Live), Within(t, Live), NEW from \in {"do", "undo"}, NEW how \in {"do", "undo"},
         Facing(s, heap, from), Facing(t, heap, how),
         heap' = [heap EXCEPT ![Back(s)] = Swapped(doc, heap[Back(s)], how)]
  PROVE  /\ Facing(PopBack(s), heap', from) /\ Facing(Append(t, Back(s)), heap', how)
         /\ \A q \in Live : heap'[q] # heap[q] => heap[q].performed = from /\ heap'[q].performed = how
  <1> DEFINE p == Back(s)
             u == PopBack(s)
             v == Append(t, p)
  <1>1. /\ Len(s) \in Nat \ {0} /\ Len(t) \in Nat
        /\ p = s[Len(s)] /\ p \in Addr /\ p \in Live
        /\ u \in Seq(Addr) /\ v \in Seq(Addr)
        /\ Len(u) = Len(s) - 1 /\ Len(v) = Len(t) + 1
        /\ \A i \in 1..(Len(s) - 1) : u[i] = s[i]
        /\ \A i \in 1..Len(t) : v[i] = t[i]
        /\ v[Len(t) + 1] = p
        /\ Distinct(u, v)
    BY MoveLemma
  <1>2. /\ heap'[p].performed = how
        /\ \A q \in Addr : q # p => heap'[q] = heap[q]
    <2>1. heap \in [Addr -> Action \cup {NULL}] /\ heap[p] # NULL
      BY <1>1, StructureFacts DEF Live
    <2>2. Swapped(doc, heap[p], how).performed = how
      BY <1>1, <2>1 DEF Swapped, Action
    <2> QED BY <1>1, <2>1, <2>2
  <1>3. heap[p].performed = from
    <2>1. Len(s) \in 1..Len(s)
      BY <1>1
    <2> QED BY <1>1, <2>1 DEF Facing
  <1>4. \A i \in 1..(Len(s) - 1) : s[i] # p /\ s[i] \in Addr /\ i \in 1..Len(s)
    <2>1. ASSUME NEW i \in 1..(Len(s) - 1) PROVE s[i] # p /\ s[i] \in Addr /\ i \in 1..Len(s)
      <3>1. i \in 1..Len(s) /\ i # Len(s) /\ Len(s) \in 1..Len(s)
        BY <1>1
      <3> QED BY <1>1, <3>1, ElementOfSeq DEF Distinct
    <2> QED BY <2>1
  <1>5. \A i \in 1..Len(t) : t[i] # p /\ t[i] \in Addr
    <2>1. Len(s) \in 1..Len(s)
      BY <1>1
    <2> QED BY <1>1, <2>1, ElementOfSeq DEF Distinct
  <1> HIDE DEF p, u, v
  <1>6. \A i \in 1..Len(u) : heap'[u[i]].performed = from
    BY <1>1, <1>2, <1>4 DEF Facing
  <1>7. \A i \in 1..Len(v) : heap'[v[i]].performed = how
    <2>1. ASSUME NEW i \in 1..Len(v) PROVE heap'[v[i]].performed = how
      <3>1. i \in 1..Len(t) \/ i = Len(t) + 1
        BY <1>1
      <3> QED BY <1>1, <1>2, <1>5, <3>1 DEF Facing
    <2> QED BY <2>1
  <1>8. \A q \in Live : heap'[q] # heap[q] => heap[q].performed = from /\ heap'[q].performed = how
    BY <1>2, <1>3 DEF Live
  <1> QED BY <1>6, <1>7, <1>8 DEF p, u, v, Facing

LEMMA DirectionsInit == Init => Directions
  BY DEF Init, Directions, Facing

\* A step keeps the directions, and what it performs it performs the other way.
LEMMA DirectionsNext ==
  ASSUME ~ListenersThrow, Structure, Directions, [Next]_vars
  PROVE  /\ Directions'
         /\ \A p \in Live : heap'[p] # NULL /\ heap'[p] # heap[p]
                              => heap'[p].performed # heap[p].performed
  <1>1. CASE setSavePoint \/ UNCHANGED vars
    BY <1>1 DEF setSavePoint, stacks, vars, Directions, Facing
  <1>2. CASE undo
    <2>1. /\ undo_actions' = PopBack(undo_actions)
          /\ redo_actions' = Append(redo_actions, Back(undo_actions))
      BY <1>2 DEF undo
    <2>2. /\ undo_actions # <<>>
          /\ heap' = [heap EXCEPT ![Back(undo_actions)] = Swapped(doc, heap[Back(undo_actions)], "undo")]
      BY <1>2 DEF undo, canUndo
    <2>3. /\ undo_actions \in Seq(Addr) /\ redo_actions \in Seq(Addr)
          /\ Distinct(undo_actions, redo_actions)
          /\ Within(undo_actions, Live) /\ Within(redo_actions, Live)
          /\ Facing(undo_actions, heap, "do") /\ Facing(redo_actions, heap, "undo")
      BY StructureFacts, DistinctSym DEF Directions
    <2>4. /\ Facing(PopBack(undo_actions), heap', "do")
          /\ Facing(Append(redo_actions, Back(undo_actions)), heap', "undo")
          /\ \A q \in Live : heap'[q] # heap[q] => heap[q].performed = "do" /\ heap'[q].performed = "undo"
      BY <2>2, <2>3, MovedDirections
    <2> QED BY <2>1, <2>4 DEF Directions
  <1>3. CASE redo
    <2>1. /\ redo_actions' = PopBack(redo_actions)
          /\ undo_actions' = Append(undo_actions, Back(redo_actions))
      BY <1>3 DEF redo
    <2>2. /\ redo_actions # <<>>
          /\ heap' = [heap EXCEPT ![Back(redo_actions)] = Swapped(doc, heap[Back(redo_actions)], "do")]
      BY <1>3 DEF redo, canRedo
    <2>3. /\ undo_actions \in Seq(Addr) /\ redo_actions \in Seq(Addr)
          /\ Distinct(redo_actions, undo_actions)
          /\ Within(undo_actions, Live) /\ Within(redo_actions, Live)
          /\ Facing(undo_actions, heap, "do") /\ Facing(redo_actions, heap, "undo")
      BY StructureFacts, DistinctSym DEF Directions
    <2>4. /\ Facing(PopBack(redo_actions), heap', "undo")
          /\ Facing(Append(undo_actions, Back(redo_actions)), heap', "do")
          /\ \A q \in Live : heap'[q] # heap[q] => heap[q].performed = "undo" /\ heap'[q].performed = "do"
      BY <2>2, <2>3, MovedDirections
    <2> QED BY <2>1, <2>4 DEF Directions
  <1>4. ASSUME NEW p \in Allocatable, NEW f \in Fields, NEW v \in Values, NEW joins \in BOOLEAN,
               addAction(p, f, v, joins)
        PROVE  /\ Directions'
               /\ \A q \in Live : heap'[q] # NULL => heap'[q] = heap[q]
    <2>1. redo_actions' = <<>>
      BY <1>4 DEF addAction
    <2>2. CASE MayMerge(f, joins)
      BY <1>4, <2>1, <2>2 DEF addAction, Directions, Facing
    <2>3. CASE ~MayMerge(f, joins)
      <3>1. /\ undo_actions' = Append(undo_actions, p)
            /\ heap' = [Deleted(heap, OnRedo) EXCEPT ![p] = AddedAction(f)]
        BY <1>4, <2>3 DEF addAction
      <3>2. /\ p \in Addr /\ p \notin Live
            /\ \A i \in 1..Len(undo_actions) : undo_actions[i] # p
        BY NewAddress
      <3>3. /\ heap'[p] = AddedAction(f)
            /\ \A q \in Addr : q # p => heap'[q] = IF q \in OnRedo THEN NULL ELSE heap[q]
        BY <3>1, <3>2, StructureFacts DEF Deleted
      <3>4. /\ Len(undo_actions) \in Nat /\ Len(undo_actions') = Len(undo_actions) + 1
            /\ \A i \in 1..Len(undo_actions) : undo_actions'[i] = undo_actions[i]
            /\ undo_actions'[Len(undo_actions) + 1] = p
        BY <3>1, <3>2, StructureFacts, AppendProperties, LenProperties
      <3>5. \A i \in 1..Len(undo_actions) : heap'[undo_actions[i]] = heap[undo_actions[i]]
        <4>1. \A i \in 1..Len(undo_actions) : undo_actions[i] \in Addr /\ undo_actions[i] \notin OnRedo
          BY StructureFacts, ElementOfSeq DEF Distinct, OnRedo
        <4> QED BY <3>2, <3>3, <4>1
      <3>6. ASSUME NEW i \in 1..Len(undo_actions') PROVE heap'[undo_actions'[i]].performed = "do"
        <4>1. i \in 1..Len(undo_actions) \/ i = Len(undo_actions) + 1
          BY <3>4
        <4> QED BY <3>3, <3>4, <3>5, <4>1 DEF Directions, Facing, AddedAction
      <3>7. \A q \in Live : heap'[q] # NULL => heap'[q] = heap[q]
        BY <3>2, <3>3 DEF Live
      <3> QED BY <2>1, <3>6, <3>7 DEF Directions, Facing
    <2> QED BY <2>2, <2>3
  <1> QED BY <1>1, <1>2, <1>3, <1>4 DEF Next, addActionThrows, undoThrows, redoThrows

\* An action on a stack is performed and undone in turn, the first time to do
\* it, as action_stack.hpp:36-37 promises the actions, reused addresses or not.
THEOREM AlternatesCorrect ==
  ASSUME ~ListenersThrow
  PROVE  Spec => PerformAlternates
  <1> DEFINE Alternates == \A p \in Live : heap'[p] # NULL /\ heap'[p] # heap[p]
                                             => heap'[p].performed # heap[p].performed
  <1>1. Structure /\ Directions /\ [Next]_vars => Directions' /\ Alternates
    BY DirectionsNext
  <1>2. Spec => []Directions
    BY <1>1, DirectionsInit, StructureAlways, PTL DEF Spec
  <1>3. Spec => [][Alternates]_vars
    BY <1>1, <1>2, StructureAlways, PTL DEF Spec
  <1> QED BY <1>3 DEF PerformAlternates

-----------------------------------------------------------------------------
(* What was saved.                                                         *)
(*                                                                         *)
(* The code keeps a bare pointer to the action that was on top when the    *)
(* document was saved.  That pointer stands for a position of the history, *)
(* which is what the invariant Saved says: the action the pointer is equal *)
(* to is the one at that position, and no action is once the position has  *)
(* been cut off.  The second half is where address reuse would break it.   *)

Saved ==
  LET n == Len(undo_actions)
      m == Len(redo_actions)
  IN /\ savedAt \in 0..(n + m + 1)
     /\ save_point = NULL <=> savedAt = 1
     /\ save_point \in used \cup {NULL}
     /\ \A i \in 1..n : undo_actions[i] = save_point <=> savedAt = i + 1
     /\ \A j \in 1..m : redo_actions[j] = save_point <=> savedAt = n + m - j + 2
     /\ savedAt # 0 => hist[savedAt] = disk

Good == Structure /\ HistoryLinked /\ Saved

\* Where the two stacks are after an undo or a redo.
LEMMA StacksUndo ==
  ASSUME Structure, undo
  PROVE  /\ Len(undo_actions) \in Nat \ {0} /\ Len(redo_actions) \in Nat
         /\ Len(undo_actions') = Len(undo_actions) - 1
         /\ Len(redo_actions') = Len(redo_actions) + 1
         /\ \A i \in 1..(Len(undo_actions) - 1) : undo_actions'[i] = undo_actions[i]
         /\ \A i \in 1..Len(redo_actions) : redo_actions'[i] = redo_actions[i]
         /\ redo_actions'[Len(redo_actions) + 1] = undo_actions[Len(undo_actions)]
         /\ UNCHANGED <<used, save_point, hist, savedAt, disk>>
  <1>1. /\ undo_actions # <<>>
        /\ undo_actions' = PopBack(undo_actions)
        /\ redo_actions' = Append(redo_actions, Back(undo_actions))
        /\ UNCHANGED <<used, save_point, hist, savedAt, disk>>
    BY DEF undo, canUndo, history
  <1> QED BY <1>1, StructureFacts, MoveLemma

LEMMA StacksRedo ==
  ASSUME Structure, redo
  PROVE  /\ Len(redo_actions) \in Nat \ {0} /\ Len(undo_actions) \in Nat
         /\ Len(redo_actions') = Len(redo_actions) - 1
         /\ Len(undo_actions') = Len(undo_actions) + 1
         /\ \A i \in 1..(Len(redo_actions) - 1) : redo_actions'[i] = redo_actions[i]
         /\ \A i \in 1..Len(undo_actions) : undo_actions'[i] = undo_actions[i]
         /\ undo_actions'[Len(undo_actions) + 1] = redo_actions[Len(redo_actions)]
         /\ UNCHANGED <<used, save_point, hist, savedAt, disk>>
  <1>1. /\ redo_actions # <<>>
        /\ redo_actions' = PopBack(redo_actions)
        /\ undo_actions' = Append(undo_actions, Back(redo_actions))
        /\ UNCHANGED <<used, save_point, hist, savedAt, disk>>
    BY DEF redo, canRedo, history
  <1> QED BY <1>1, StructureFacts, MoveLemma, DistinctSym

LEMMA SavedUndo ==
  ASSUME Structure, Saved, undo
  PROVE  Saved'
  <1> DEFINE n == Len(undo_actions)
             m == Len(redo_actions)
  <1>1. /\ n \in Nat \ {0} /\ m \in Nat
        /\ Len(undo_actions') = n - 1 /\ Len(redo_actions') = m + 1
        /\ \A i \in 1..(n - 1) : undo_actions'[i] = undo_actions[i]
        /\ \A i \in 1..m : redo_actions'[i] = redo_actions[i]
        /\ redo_actions'[m + 1] = undo_actions[n]
        /\ UNCHANGED <<used, save_point, hist, savedAt, disk>>
    BY StacksUndo
  <1>2. Len(undo_actions') + Len(redo_actions') = n + m
    BY <1>1
  <1>3. \A i \in 1..Len(undo_actions') :
          undo_actions'[i] = save_point' <=> savedAt' = i + 1
    BY <1>1 DEF Saved
  <1>4. ASSUME NEW j \in 1..Len(redo_actions')
        PROVE  redo_actions'[j] = save_point' <=> savedAt' = n + m - j + 2
    <2>1. CASE j = m + 1
      <3>1. n \in 1..n /\ n + m - j + 2 = n + 1
        BY <1>1, <2>1
      <3> QED BY <1>1, <2>1, <3>1 DEF Saved
    <2>2. CASE j # m + 1
      <3>1. j \in 1..m
        BY <1>1, <2>2
      <3> QED BY <1>1, <3>1 DEF Saved
    <2> QED BY <2>1, <2>2
  <1>5. savedAt' \in 0..(Len(undo_actions') + Len(redo_actions') + 1)
    BY <1>1, <1>2 DEF Saved
  <1>6. ASSUME NEW j \in 1..Len(redo_actions')
        PROVE  redo_actions'[j] = save_point'
                 <=> savedAt' = Len(undo_actions') + Len(redo_actions') - j + 2
    <2>1. Len(undo_actions') + Len(redo_actions') - j + 2 = n + m - j + 2
      BY <1>2
    <2> QED BY <1>4, <2>1
  <1> QED BY <1>1, <1>3, <1>5, <1>6 DEF Saved

LEMMA SavedRedo ==
  ASSUME Structure, Saved, redo
  PROVE  Saved'
  <1> DEFINE n == Len(undo_actions)
             m == Len(redo_actions)
  <1>1. /\ m \in Nat \ {0} /\ n \in Nat
        /\ Len(redo_actions') = m - 1 /\ Len(undo_actions') = n + 1
        /\ \A i \in 1..(m - 1) : redo_actions'[i] = redo_actions[i]
        /\ \A i \in 1..n : undo_actions'[i] = undo_actions[i]
        /\ undo_actions'[n + 1] = redo_actions[m]
        /\ UNCHANGED <<used, save_point, hist, savedAt, disk>>
    BY StacksRedo
  <1>2. Len(undo_actions') + Len(redo_actions') = n + m
    BY <1>1
  <1>3. ASSUME NEW i \in 1..Len(undo_actions')
        PROVE  undo_actions'[i] = save_point' <=> savedAt' = i + 1
    <2>1. CASE i = n + 1
      <3>1. m \in 1..m /\ n + m - m + 2 = i + 1
        BY <1>1, <2>1
      <3> QED BY <1>1, <2>1, <3>1 DEF Saved
    <2>2. CASE i # n + 1
      <3>1. i \in 1..n
        BY <1>1, <2>2
      <3> QED BY <1>1, <3>1 DEF Saved
    <2> QED BY <2>1, <2>2
  <1>4. \A j \in 1..Len(redo_actions') :
          redo_actions'[j] = save_point' <=> savedAt' = n + m - j + 2
    BY <1>1 DEF Saved
  <1>5. savedAt' \in 0..(Len(undo_actions') + Len(redo_actions') + 1)
    BY <1>1, <1>2 DEF Saved
  <1>6. ASSUME NEW j \in 1..Len(redo_actions')
        PROVE  redo_actions'[j] = save_point'
                 <=> savedAt' = Len(undo_actions') + Len(redo_actions') - j + 2
    <2>1. Len(undo_actions') + Len(redo_actions') - j + 2 = n + m - j + 2
      BY <1>2
    <2> QED BY <1>4, <2>1
  <1> QED BY <1>1, <1>3, <1>5, <1>6 DEF Saved

LEMMA SavedSetSavePoint ==
  ASSUME Structure, HistoryLinked, Saved, setSavePoint
  PROVE  Saved'
  <1> DEFINE n == Len(undo_actions)
             m == Len(redo_actions)
  <1>1. /\ n \in Nat /\ m \in Nat
        /\ undo_actions = <<>> <=> n = 0
        /\ disk' = doc /\ savedAt' = n + 1
        /\ UNCHANGED <<undo_actions, redo_actions, used, hist>>
    BY StructureFacts, LenProperties, EmptySeq DEF setSavePoint, stacks
  <1>2. /\ Distinct(undo_actions, redo_actions)
        /\ \A i \in 1..n : undo_actions[i] \in used /\ undo_actions[i] # NULL
        /\ \A j \in 1..m : redo_actions[j] # NULL
    BY StructureFacts, ElementOfSeq, NullAssumption DEF Within, Structure
  <1>3. savedAt' \in 0..(n + m + 1) /\ hist'[savedAt'] = disk'
    BY <1>1 DEF HistoryLinked
  <1>4. CASE n = 0
    <2>1. save_point' = NULL
      BY <1>1, <1>4 DEF setSavePoint
    <2>2. \A j \in 1..m : redo_actions[j] = save_point' <=> savedAt' = n + m - j + 2
      BY <1>1, <1>2, <2>1
    <2> QED BY <1>1, <1>3, <1>4, <2>1, <2>2 DEF Saved
  <1>5. CASE n # 0
    <2>1. n \in 1..n /\ save_point' = undo_actions[n]
      BY <1>1, <1>5 DEF setSavePoint, Back
    <2>2. save_point' \in used /\ save_point' # NULL
      BY <1>2, <2>1
    <2>3. \A i \in 1..n : undo_actions[i] = save_point' <=> savedAt' = i + 1
      BY <1>1, <1>2, <2>1 DEF Distinct
    <2>4. \A j \in 1..m : redo_actions[j] = save_point' <=> savedAt' = n + m - j + 2
      BY <1>1, <1>2, <2>1 DEF Distinct
    <2> QED BY <1>1, <1>3, <1>5, <2>2, <2>3, <2>4 DEF Saved
  <1> QED BY <1>4, <1>5

LEMMA SavedAddAction ==
  ASSUME ~AddressReuse, Structure, HistoryLinked, Saved,
         NEW p \in Allocatable, NEW f \in Fields, NEW v \in Values,
         NEW joins \in BOOLEAN, addAction(p, f, v, joins)
  PROVE  Saved'
  <1> DEFINE n == Len(undo_actions)
             m == Len(redo_actions)
  <1>1. /\ n \in Nat /\ m \in Nat /\ hist \in Seq(Doc) /\ Len(hist) = n + m + 1
        /\ doc' \in Doc
        /\ savedAt \in 0..(n + m + 1)
        /\ save_point = NULL <=> savedAt = 1
        /\ save_point \in used \cup {NULL}
        /\ \A i \in 1..n : undo_actions[i] = save_point <=> savedAt = i + 1
        /\ savedAt # 0 => hist[savedAt] = disk
    BY StructureFacts, LenProperties, AddedType DEF Structure, TypeOK, Saved, addAction
  <1>2. /\ redo_actions' = <<>> /\ Len(redo_actions') = 0
        /\ used' = used \cup {p} /\ save_point' = save_point /\ disk' = disk
    BY DEF addAction
  <1>3. p \in Addr /\ p \notin used /\ p # NULL
    BY NullAssumption DEF Allocatable
  <1>4. CASE MayMerge(f, joins)
    <2>1. /\ m = 0 /\ n \in 1..n /\ undo_actions[n] # save_point
          /\ UNCHANGED <<undo_actions, savedAt>>
          /\ hist' = [hist EXCEPT ![n + 1] = doc']
      <3>1. undo_actions # <<>> /\ redo_actions = <<>>
        BY <1>4 DEF MayMerge
      <3>2. n # 0 /\ m = 0
        BY <3>1, StructureFacts, EmptySeq
      <3> QED BY <1>1, <1>4, <3>2 DEF addAction, MayMerge, Back
    <2>2. savedAt \in 0..n
      BY <1>1, <2>1
    <2>3. savedAt' # 0 => hist'[savedAt'] = disk'
      <3>1. \A i \in 1..n : hist'[i] = hist[i]
        BY <1>1, <2>1, ExceptSeq
      <3> QED BY <1>1, <1>2, <2>1, <2>2, <3>1
    <2> QED BY <1>1, <1>2, <2>1, <2>2, <2>3 DEF Saved
  <1>5. CASE ~MayMerge(f, joins)
    <2>1. /\ undo_actions' = Append(undo_actions, p)
          /\ hist' = Append(SubSeq(hist, 1, n + 1), doc')
          /\ savedAt' = IF savedAt > n + 1 THEN 0 ELSE savedAt
      BY <1>5 DEF addAction
    <2>2. /\ Len(undo_actions') = n + 1
          /\ \A i \in 1..n : undo_actions'[i] = undo_actions[i]
          /\ undo_actions'[n + 1] = p
      BY <1>3, <2>1, StructureFacts, AppendProperties
    <2>3. /\ savedAt' \in 0..(n + 1)
          /\ savedAt' # 0 => savedAt' = savedAt
          /\ \A i \in 1..(n + 1) : savedAt' = i <=> savedAt = i
      BY <1>1, <2>1
    <2>4. ASSUME NEW i \in 1..(n + 1)
          PROVE  undo_actions'[i] = save_point' <=> savedAt' = i + 1
      <3>1. CASE i = n + 1
        <4>1. undo_actions'[i] # save_point'
          BY <1>1, <1>2, <1>3, <2>2, <3>1
        <4>2. savedAt' # i + 1
          BY <1>1, <2>3, <3>1
        <4> QED BY <4>1, <4>2
      <3>2. CASE i # n + 1
        <4>1. i \in 1..n /\ i + 1 \in 1..(n + 1)
          BY <1>1, <3>2
        <4> QED BY <1>1, <1>2, <2>2, <2>3, <4>1
      <3> QED BY <3>1, <3>2
    <2>5. savedAt' # 0 => hist'[savedAt'] = disk'
      <3>1. \A i \in 1..(n + 1) : hist'[i] = hist[i]
        BY <1>1, <2>1, TruncateLemma
      <3> QED BY <1>1, <1>2, <2>3, <3>1
    <2>6. save_point' = NULL <=> savedAt' = 1
      <3>1. 1 \in 1..(n + 1)
        BY <1>1
      <3> QED BY <1>1, <1>2, <2>3, <3>1
    <2> QED BY <1>1, <1>2, <2>2, <2>3, <2>4, <2>5, <2>6 DEF Saved
  <1> QED BY <1>4, <1>5

LEMMA GoodInit == Init => Good
  <1> SUFFICES ASSUME Init PROVE Saved
    BY StructureInit, LinkedInit DEF Good
  <1> QED BY DEF Init, Saved

LEMMA GoodNext ==
  ASSUME ~AddressReuse, ~ListenersThrow, Good, [Next]_vars
  PROVE  Good'
  <1>1. Structure' /\ HistoryLinked'
    BY StructureNext, LinkedNext DEF Good
  <1>2. CASE UNCHANGED vars
    <2>1. Saved'
      BY <1>2 DEF Good, Saved, vars, stacks, history
    <2> QED BY <1>1, <2>1 DEF Good
  <1>3. CASE Next
    <2>1. Saved'
      BY <1>3, SavedAddAction, SavedUndo, SavedRedo, SavedSetSavePoint
         DEF Next, Good, addActionThrows, undoThrows, redoThrows
    <2> QED BY <1>1, <2>1 DEF Good
  <1> QED BY <1>2, <1>3

LEMMA GoodAlways ==
  ASSUME ~AddressReuse, ~ListenersThrow
  PROVE  Spec => []Good
  <1>1. Good /\ [Next]_vars => Good'
    BY GoodNext
  <1> QED BY <1>1, GoodInit, PTL DEF Spec

\* The code's pointer comparison asks whether the cursor is where it was saved.
LEMMA SavePointIsPosition ==
  ASSUME Good
  PROVE  atSavePoint <=> savedAt = Len(undo_actions) + 1
  <1>1. /\ Len(undo_actions) \in Nat
        /\ undo_actions = <<>> <=> Len(undo_actions) = 0
    BY StructureFacts, LenProperties, EmptySeq DEF Good
  <1> QED BY <1>1 DEF Good, Saved, atSavePoint, Back

LEMMA SavePointIsPositionPrime ==
  ASSUME Good'
  PROVE  atSavePoint' <=> savedAt' = Len(undo_actions') + 1
  <1>1. /\ undo_actions' \in Seq(Addr)
    BY DEF Good, Structure, TypeOK
  <1>2. /\ Len(undo_actions') \in Nat
        /\ undo_actions' = <<>> <=> Len(undo_actions') = 0
    BY <1>1, LenProperties, EmptySeq
  <1> QED BY <1>2 DEF Good, Saved, atSavePoint, Back

\* When the program believes that nothing needs saving, the document is what
\* the last save wrote; a save point that is cut off from the history is never
\* taken for the current position.
THEOREM SavePointCorrect ==
  ASSUME ~AddressReuse, ~ListenersThrow
  PROVE  Spec => []SavePointHonest
  <1>1. Good => SavePointHonest
    <2> SUFFICES ASSUME Good, atSavePoint PROVE doc = disk
      BY DEF SavePointHonest
    <2>1. savedAt = Len(undo_actions) + 1 /\ Len(undo_actions) \in Nat
      BY SavePointIsPosition, StructureFacts, LenProperties DEF Good
    <2> QED BY <2>1 DEF Good, Saved, HistoryLinked
  <1> QED BY <1>1, GoodAlways, PTL

-----------------------------------------------------------------------------
(* The refinement of UndoHistory.                                          *)

\* The user is shown the document under the cursor, and told the truth.
LEMMA ShownNext ==
  ASSUME Good'
  PROVE  Abstract!Shown
  <1>1. atSavePoint' \in BOOLEAN
    BY DEF atSavePoint
  <1>2. atSavePoint' <=> savedAt' = Len(undo_actions') + 1
    BY SavePointIsPositionPrime
  <1>3. doc' = hist'[Len(undo_actions') + 1]
    BY DEF Good, HistoryLinked
  <1> QED BY <1>1, <1>2, <1>3 DEF Abstract!Shown

LEMMA RefineInit == Init => Abstract!Init
  <1> SUFFICES ASSUME Init PROVE Abstract!Init
    OBVIOUS
  <1>1. atSavePoint = TRUE
    BY DEF Init, atSavePoint
  <1> QED BY <1>1 DEF Init, Abstract!Init

LEMMA RefineNext ==
  ASSUME ~ListenersThrow, Good, Good', [Next]_vars
  PROVE  [Abstract!Next]_(Abstract!vars)
  <1>1. Abstract!Shown
    BY ShownNext
  <1>2. /\ Len(undo_actions) \in Nat /\ Len(redo_actions) \in Nat
        /\ Len(hist) = Len(undo_actions) + Len(redo_actions) + 1
    BY StructureFacts, LenProperties DEF Good, HistoryLinked
  <1>3. CASE UNCHANGED vars
    BY <1>3 DEF vars, stacks, history, Abstract!vars, atSavePoint
  <1>4. ASSUME NEW p \in Allocatable, NEW f \in Fields, NEW v \in Values,
               NEW joins \in BOOLEAN, addAction(p, f, v, joins)
        PROVE  Abstract!Next
    <2>1. doc' \in Doc
      BY <1>4, AddedType DEF addAction, Good
    <2>2. CASE MayMerge(f, joins)
      <3>1. /\ UNCHANGED <<undo_actions, savedAt>>
            /\ undo_actions # <<>> /\ redo_actions = <<>>
            /\ Back(undo_actions) # save_point
            /\ hist' = [hist EXCEPT ![Len(undo_actions) + 1] = doc']
        BY <1>4, <2>2 DEF addAction, MayMerge
      <3>2. Len(undo_actions) # 0 /\ Len(redo_actions) = 0
        BY <3>1, StructureFacts, EmptySeq DEF Good
      <3>3. savedAt # Len(undo_actions) + 1
        <4>1. ~atSavePoint
          BY <3>1 DEF atSavePoint
        <4> QED BY <4>1, SavePointIsPosition
      <3>4. Abstract!Extend(doc')
        BY <1>1, <1>2, <3>1, <3>2, <3>3 DEF Abstract!Extend
      <3> QED BY <2>1, <3>4 DEF Abstract!Next
    <2>3. CASE ~MayMerge(f, joins)
      <3>1. /\ undo_actions' = Append(undo_actions, p)
            /\ hist' = Append(SubSeq(hist, 1, Len(undo_actions) + 1), doc')
            /\ savedAt' = IF savedAt > Len(undo_actions) + 1 THEN 0 ELSE savedAt
        BY <1>4, <2>3 DEF addAction
      <3>2. Len(undo_actions') = Len(undo_actions) + 1
        BY <3>1, NewAddress, StructureFacts, AppendProperties DEF Good
      <3>3. Abstract!Do(doc')
        BY <1>1, <1>2, <3>1, <3>2 DEF Abstract!Do
      <3> QED BY <2>1, <3>3 DEF Abstract!Next
    <2> QED BY <2>2, <2>3
  <1>5. CASE undo
    <2>1. Abstract!Undo
      BY <1>1, <1>2, <1>5, StacksUndo DEF Abstract!Undo, Good
    <2> QED BY <2>1 DEF Abstract!Next
  <1>6. CASE redo
    <2>1. Abstract!Redo
      BY <1>1, <1>2, <1>6, StacksRedo DEF Abstract!Redo, Good
    <2> QED BY <2>1 DEF Abstract!Next
  <1>7. CASE setSavePoint
    <2>1. Abstract!Save
      BY <1>1, <1>7 DEF Abstract!Save, setSavePoint, stacks
    <2> QED BY <2>1 DEF Abstract!Next
  <1> QED BY <1>3, <1>4, <1>5, <1>6, <1>7
             DEF Next, addActionThrows, undoThrows, redoThrows

\* The stacks, the pointer and the flag behave as the linear history of
\* UndoHistory with its cursor and its mark: for every document, every number
\* of actions and every pattern of merging.
THEOREM Implements ==
  ASSUME ~AddressReuse, ~ListenersThrow
  PROVE  Spec => ImplementsUndoHistory
  <1>1. Init => Abstract!Init
    BY RefineInit
  <1>2. Good /\ Good' /\ [Next]_vars => [Abstract!Next]_(Abstract!vars)
    BY RefineNext
  <1> QED BY <1>1, <1>2, GoodAlways, PTL DEF Spec, ImplementsUndoHistory, Abstract!Spec
=============================================================================
