------------------------ MODULE ResearchWorkspaceProofs ------------------------
(***************************************************************************)
(* Proofs about ResearchWorkspace for every set of diagnostics and every   *)
(* number of edits and builds.                                             *)
(***************************************************************************)
EXTENDS ResearchWorkspace, SectionPackage, FiniteSetTheorems, TLAPS

(* The calculation every piece of evidence shows is told by its name.      *)
CalcOf(id) ==
  IF id \in {"mean", "e1", "e2"} THEN "surface"
  ELSE IF id \in {"t1", "t2"} THEN "params" ELSE IF id = "own" THEN "none" ELSE id
Items == [calc : {"surface", "params", "none"} \cup Calcs, places : {1, 3}]
Named(evidence) == \A id \in DOMAIN evidence : evidence[id].calc = CalcOf(id)

-----------------------------------------------------------------------------
(* Functions with a growing or shrinking domain.                           *)
LEMMA MergeFits ==
  ASSUME NEW f, NEW g
  PROVE  /\ DOMAIN Merge(f, g) = DOMAIN f \cup DOMAIN g
         /\ \A x \in DOMAIN g : Merge(f, g)[x] = g[x]
         /\ \A x \in DOMAIN f \ DOMAIN g : Merge(f, g)[x] = f[x]
         /\ Merge(f, g) = [x \in DOMAIN Merge(f, g) |-> Merge(f, g)[x]]
  BY DEF Merge

LEMMA DropFits ==
  ASSUME NEW f, NEW S
  PROVE  /\ DOMAIN Drop(f, S) = DOMAIN f \ S
         /\ \A x \in DOMAIN f \ S : Drop(f, S)[x] = f[x]
  BY DEF Drop

LEMMA EvidenceFits ==
  ASSUME NEW e
  PROVE  e \in Evidences(Ids) <=>
           /\ DOMAIN e \subseteq Ids /\ e = [x \in DOMAIN e |-> e[x]]
           /\ \A x \in DOMAIN e : e[x] \in Items
<1>1. ASSUME e \in Evidences(Ids)
      PROVE  /\ DOMAIN e \subseteq Ids /\ e = [x \in DOMAIN e |-> e[x]]
             /\ \A x \in DOMAIN e : e[x] \in Items
  <2>1. PICK S \in SUBSET Ids : e \in [S -> Items]
    BY <1>1 DEF Evidences, Items
  <2> QED
    BY <2>1
<1>2. ASSUME DOMAIN e \subseteq Ids, e = [x \in DOMAIN e |-> e[x]],
             \A x \in DOMAIN e : e[x] \in Items
      PROVE  e \in Evidences(Ids)
  <2>1. e \in [DOMAIN e -> Items] /\ DOMAIN e \in SUBSET Ids
    BY <1>2
  <2> QED
    BY <2>1 DEF Evidences, Items
<1> QED
  BY <1>1, <1>2

LEMMA BindingFits ==
  ASSUME NEW b
  PROVE  b \in Bindings(Ids) <=>
           /\ DOMAIN b \subseteq Ids \cup {"alias"} /\ b = [x \in DOMAIN b |-> b[x]]
           /\ \A x \in DOMAIN b : b[x] \in Ids
<1>1. ASSUME b \in Bindings(Ids)
      PROVE  /\ DOMAIN b \subseteq Ids \cup {"alias"} /\ b = [x \in DOMAIN b |-> b[x]]
             /\ \A x \in DOMAIN b : b[x] \in Ids
  <2>1. PICK S \in SUBSET (Ids \cup {"alias"}) : b \in [S -> Ids]
    BY <1>1 DEF Bindings
  <2> QED
    BY <2>1
<1>2. ASSUME DOMAIN b \subseteq Ids \cup {"alias"}, b = [x \in DOMAIN b |-> b[x]],
             \A x \in DOMAIN b : b[x] \in Ids
      PROVE  b \in Bindings(Ids)
  <2>1. b \in [DOMAIN b -> Ids] /\ DOMAIN b \in SUBSET (Ids \cup {"alias"})
    BY <1>2
  <2> QED
    BY <2>1 DEF Bindings
<1> QED
  BY <1>1, <1>2

-----------------------------------------------------------------------------
(* Evidence that is declared, and what is retained of it.                  *)
LEMMA DeclaredFits ==
  ASSUME NEW study \in Study
  PROVE  /\ Declared(study) \in Evidences(Ids) /\ Named(Declared(study))
         /\ DOMAIN Declared(study) \subseteq Declarable
         /\ "own" \notin DOMAIN Declared(study)
<1> DEFINE thresholds == IF study.two THEN {"t1", "t2"} ELSE {"t1"}
           exceedances == IF study.two THEN {"e1", "e2"} ELSE {"e1"}
           D == {"mean"} \cup thresholds \cup exceedances
<1>1. Declared(study) = [id \in D |-> IF id \in thresholds THEN Item("params") ELSE Item("surface")]
  BY DEF Declared
<1>2. D \subseteq Declarable /\ (\A id \in D : id \in thresholds <=> id \in {"t1", "t2"})
  BY DEF Declarable
<1>3. Item("params") \in Items /\ Item("surface") \in Items
      /\ Item("params").calc = "params" /\ Item("surface").calc = "surface"
  BY DEF Item, Items
<1>4. \A id \in D : id \in {"mean", "t1", "t2", "e1", "e2"}
  BY <1>2 DEF Declarable
<1> HIDE DEF thresholds, exceedances, D
<1>5. Declared(study) \in Evidences(Ids)
  BY <1>1, <1>2, <1>3, EvidenceFits DEF Ids
<1>6. Named(Declared(study))
  BY <1>1, <1>2, <1>3, <1>4 DEF Named, CalcOf
<1> QED
  BY <1>1, <1>2, <1>4, <1>5, <1>6

LEMMA DiagnosticFits ==
  ASSUME NEW calcs \in SUBSET Calcs
  PROVE  /\ DiagnosticEvidence(calcs) \in Evidences(Ids) /\ Named(DiagnosticEvidence(calcs))
         /\ DOMAIN DiagnosticEvidence(calcs) = calcs
<1>1. \A c \in calcs : Item(c) \in Items /\ Item(c).calc = c
  BY DEF Item, Items
<1>2. \A c \in calcs : CalcOf(c) = c
  BY NamesDiffer DEF CalcOf, Declarable
<1> QED
  BY <1>1, <1>2, EvidenceFits DEF DiagnosticEvidence, Named, Ids

LEMMA RetainFits ==
  ASSUME NEW new \in Evidences(Ids), NEW old \in Evidences(Ids), Named(new), Named(old)
  PROVE  /\ RetainPlaces(new, old) \in Evidences(Ids) /\ Named(RetainPlaces(new, old))
         /\ DOMAIN RetainPlaces(new, old) = DOMAIN new
         /\ \A id \in DOMAIN new \cap DOMAIN old :
              CalcOf(id) # "params" => RetainPlaces(new, old)[id] = old[id]
         /\ \A id \in DOMAIN new :
              CalcOf(id) = "params" \/ id \notin DOMAIN old =>
                RetainPlaces(new, old)[id] = new[id]
<1> DEFINE r == RetainPlaces(new, old)
<1>1. r = [id \in DOMAIN new |->
             IF new[id].calc # "params" /\ id \in DOMAIN old /\ old[id].calc = new[id].calc
             THEN old[id] ELSE new[id]]
  BY DEF RetainPlaces
<1> HIDE DEF r
<1>2. r \in Evidences(Ids)
  BY <1>1, EvidenceFits
<1>3. Named(r)
  BY <1>1 DEF Named
<1> QED
  BY <1>1, <1>2, <1>3 DEF Named, r

-----------------------------------------------------------------------------
(* What a build refreshes first, and what it leaves alone in doing so.     *)
Beside(x, w) ==
  /\ x.study = w.study /\ x.text = w.text /\ x.data = w.data /\ x.calcs = w.calcs
  /\ x.uses = w.uses /\ x.script = w.script /\ x.args = w.args /\ x.image = w.image
  /\ x.viewed = w.viewed /\ x.seen = w.seen /\ x.lost = w.lost /\ x.late = w.late
  /\ x.art = w.art /\ x.state = w.state

LEMMA SyncDiagnosticsFits ==
  ASSUME NEW w \in Workspace(Ids), Named(w.evidence), w.calcs # None
  PROVE  LET x == SyncDiagnostics(w)
         IN  /\ x \in Workspace(Ids) /\ Beside(x, w) /\ Named(x.evidence)
             /\ x.managed = w.calcs
             /\ DOMAIN x.evidence = (DOMAIN w.evidence \ w.managed) \cup w.calcs
             /\ \A id \in DOMAIN x.evidence \cap DOMAIN w.evidence :
                  x.evidence[id] = w.evidence[id]
             /\ w.calcs \subseteq DOMAIN x.bind /\ \A c \in w.calcs : x.bind[c] = c
             /\ \A name \in DOMAIN w.bind \ Calcs :
                  name \in DOMAIN x.bind /\ x.bind[name] = w.bind[name]
             /\ DOMAIN x.bind \subseteq DOMAIN w.bind \cup w.calcs
             /\ \A name \in DOMAIN x.bind \ w.calcs : x.bind[name] = w.bind[name]
             /\ w.managed \subseteq w.calcs => DOMAIN w.bind \subseteq DOMAIN x.bind
<1> DEFINE new == RetainPlaces(DiagnosticEvidence(w.calcs), w.evidence)
           gone == {id \in w.managed \ DOMAIN new : id \in DOMAIN w.bind /\ w.bind[id] = id}
           kept == Drop(w.evidence, w.managed)
           rest == Drop(w.bind, gone)
           e == Merge(kept, new)
           own == [id \in DOMAIN new |-> id]
           b == Merge(rest, own)
           x == SyncDiagnostics(w)
<1>1. x = [w EXCEPT !.evidence = e, !.bind = b, !.managed = DOMAIN new]
  BY DEF SyncDiagnostics
<1>2. /\ w.calcs \in SUBSET Calcs /\ w.managed \in SUBSET Calcs
      /\ w.evidence \in Evidences(Ids) /\ w.bind \in Bindings(Ids)
  BY DEF Workspace
<1>3. /\ new \in Evidences(Ids) /\ Named(new) /\ DOMAIN new = w.calcs
      /\ \A id \in DOMAIN new \cap DOMAIN w.evidence :
              CalcOf(id) # "params" => new[id] = w.evidence[id]
  BY <1>2, DiagnosticFits, RetainFits
<1>4. gone \subseteq w.managed \ w.calcs
  BY <1>3
<1> HIDE DEF new, gone
<1>5. /\ DOMAIN kept = DOMAIN w.evidence \ w.managed
      /\ \A id \in DOMAIN w.evidence \ w.managed : kept[id] = w.evidence[id]
      /\ DOMAIN rest = DOMAIN w.bind \ gone
      /\ \A name \in DOMAIN w.bind \ gone : rest[name] = w.bind[name]
  BY DropFits
<1> HIDE DEF kept, rest
<1>6. DOMAIN own = w.calcs /\ \A c \in w.calcs : own[c] = c
  BY <1>3
<1> HIDE DEF own
<1>7. /\ DOMAIN e = DOMAIN kept \cup DOMAIN new
      /\ \A id \in DOMAIN new : e[id] = new[id]
      /\ \A id \in DOMAIN kept \ DOMAIN new : e[id] = kept[id]
      /\ e = [id \in DOMAIN e |-> e[id]]
      /\ DOMAIN b = DOMAIN rest \cup DOMAIN own
      /\ \A name \in DOMAIN own : b[name] = own[name]
      /\ \A name \in DOMAIN rest \ DOMAIN own : b[name] = rest[name]
      /\ b = [name \in DOMAIN b |-> b[name]]
  <2>1. /\ DOMAIN e = DOMAIN kept \cup DOMAIN new
        /\ \A id \in DOMAIN new : e[id] = new[id]
        /\ \A id \in DOMAIN kept \ DOMAIN new : e[id] = kept[id]
        /\ e = [id \in DOMAIN e |-> e[id]]
    BY MergeFits
  <2>2. /\ DOMAIN b = DOMAIN rest \cup DOMAIN own
        /\ \A name \in DOMAIN own : b[name] = own[name]
        /\ \A name \in DOMAIN rest \ DOMAIN own : b[name] = rest[name]
        /\ b = [name \in DOMAIN b |-> b[name]]
    BY MergeFits
  <2> QED
    BY <2>1, <2>2
<1> HIDE DEF e, b
<1>8. e \in Evidences(Ids) /\ Named(e)
  <2>1. /\ DOMAIN w.evidence \subseteq Ids /\ (\A id \in DOMAIN w.evidence : w.evidence[id] \in Items)
        /\ DOMAIN new \subseteq Ids /\ (\A id \in DOMAIN new : new[id] \in Items)
    BY <1>2, <1>3, EvidenceFits
  <2>2. DOMAIN e \subseteq Ids /\ (\A id \in DOMAIN e : e[id] \in Items)
    BY <1>5, <1>7, <2>1
  <2>3. e \in Evidences(Ids)
    BY <1>7, <2>2, EvidenceFits
  <2>4. Named(e)
    BY <1>3, <1>5, <1>7 DEF Named
  <2> QED
    BY <2>3, <2>4
<1>9. b \in Bindings(Ids)
  <2>1. /\ DOMAIN w.bind \subseteq Ids \cup {"alias"} /\ \A name \in DOMAIN w.bind : w.bind[name] \in Ids
    BY <1>2, BindingFits
  <2>2. Calcs \subseteq Ids
    BY DEF Ids
  <2>3. DOMAIN b \subseteq Ids \cup {"alias"} /\ \A name \in DOMAIN b : b[name] \in Ids
    BY <1>2, <1>5, <1>6, <1>7, <2>1, <2>2
  <2> QED
    BY <1>7, <2>3, BindingFits
<1>10. /\ x \in Workspace(Ids) /\ Beside(x, w)
       /\ x.evidence = e /\ x.bind = b /\ x.managed = w.calcs
  <2>1. x = [w EXCEPT !.evidence = e, !.bind = b, !.managed = w.calcs]
    BY <1>1, <1>3
  <2> HIDE DEF x
  <2> QED
    BY <1>2, <1>8, <1>9, <2>1 DEF Workspace, Beside
<1> HIDE DEF x
<1>11. \A id \in DOMAIN e \cap DOMAIN w.evidence : e[id] = w.evidence[id]
  <2>1. \A id \in w.calcs : CalcOf(id) # "params"
    BY <1>2, NamesDiffer DEF CalcOf, Declarable
  <2> QED
    BY <1>3, <1>5, <1>7, <2>1
<1>12. /\ w.calcs \subseteq DOMAIN b /\ \A c \in w.calcs : b[c] = c
       /\ \A name \in DOMAIN w.bind \ Calcs : name \in DOMAIN b /\ b[name] = w.bind[name]
       /\ DOMAIN b \subseteq DOMAIN w.bind \cup w.calcs
       /\ \A name \in DOMAIN b \ w.calcs : b[name] = w.bind[name]
       /\ w.managed \subseteq w.calcs => DOMAIN w.bind \subseteq DOMAIN b
  BY <1>2, <1>4, <1>5, <1>6, <1>7
<1> QED
  BY <1>3, <1>5, <1>7, <1>8, <1>10, <1>11, <1>12 DEF x

LEMMA SyncDefinitionsFits ==
  ASSUME NEW w \in Workspace(Ids), Named(w.evidence)
  PROVE  LET x == SyncDefinitions(w)
             D == DOMAIN Declared(w.study)
         IN  /\ x \in Workspace(Ids) /\ Beside(x, w) /\ Named(x.evidence)
             /\ x.managed = w.managed
             /\ DOMAIN x.evidence = (DOMAIN w.evidence \ Declarable) \cup D
             /\ \A id \in DOMAIN x.evidence \cap DOMAIN w.evidence :
                  CalcOf(id) # "params" => x.evidence[id] = w.evidence[id]
             /\ \A id \in D : CalcOf(id) = "params" => x.evidence[id] = Declared(w.study)[id]
             /\ D \subseteq DOMAIN x.bind /\ \A id \in D : x.bind[id] = id
             /\ \A name \in DOMAIN w.bind \ Declarable :
                  name \in DOMAIN x.bind /\ x.bind[name] = w.bind[name]
             /\ DOMAIN x.bind \subseteq DOMAIN w.bind \cup D
             /\ \A name \in DOMAIN x.bind \ D : x.bind[name] = w.bind[name]
             /\ DOMAIN w.evidence \cap Declarable \subseteq D => DOMAIN w.bind \subseteq DOMAIN x.bind
<1> DEFINE declared == Declared(w.study)
           previous == {id \in DOMAIN w.evidence : IsSurface(w.evidence[id])}
           new == RetainPlaces(declared, w.evidence)
           gone == {id \in DOMAIN w.bind : id \in previous /\ w.bind[id] = id}
           kept == Drop(w.evidence, previous)
           rest == Drop(w.bind, gone)
           e == Merge(kept, new)
           own == [id \in DOMAIN new |-> id]
           b == Merge(rest, own)
           x == SyncDefinitions(w)
<1>1. x = [w EXCEPT !.evidence = e, !.bind = b]
  BY DEF SyncDefinitions
<1>2. w.study \in Study /\ w.evidence \in Evidences(Ids) /\ w.bind \in Bindings(Ids)
  BY DEF Workspace
<1>3. /\ declared \in Evidences(Ids) /\ Named(declared)
      /\ DOMAIN declared \subseteq Declarable
  BY <1>2, DeclaredFits
<1> HIDE DEF declared
<1>4. /\ new \in Evidences(Ids) /\ Named(new) /\ DOMAIN new = DOMAIN declared
      /\ \A id \in DOMAIN new \cap DOMAIN w.evidence :
              CalcOf(id) # "params" => new[id] = w.evidence[id]
      /\ \A id \in DOMAIN new : CalcOf(id) = "params" => new[id] = declared[id]
  BY <1>2, <1>3, RetainFits
<1>5. previous = DOMAIN w.evidence \cap Declarable
  <2>1. ASSUME NEW id \in DOMAIN w.evidence
        PROVE  IsSurface(w.evidence[id]) <=> id \in Declarable
    <3>1. id \in Ids /\ w.evidence[id].calc = CalcOf(id)
      BY <1>2, EvidenceFits DEF Named
    <3> QED
      BY <3>1, NamesDiffer DEF IsSurface, CalcOf, Ids, Declarable
  <2> QED
    BY <2>1
<1>6. gone \subseteq previous
  OBVIOUS
<1> HIDE DEF new, gone, previous
<1>7. /\ DOMAIN kept = DOMAIN w.evidence \ previous
      /\ \A id \in DOMAIN w.evidence \ previous : kept[id] = w.evidence[id]
      /\ DOMAIN rest = DOMAIN w.bind \ gone
      /\ \A name \in DOMAIN w.bind \ gone : rest[name] = w.bind[name]
  BY DropFits
<1> HIDE DEF kept, rest
<1>8. DOMAIN own = DOMAIN declared /\ \A id \in DOMAIN declared : own[id] = id
  BY <1>4
<1> HIDE DEF own
<1>9. /\ DOMAIN e = DOMAIN kept \cup DOMAIN new
      /\ \A id \in DOMAIN new : e[id] = new[id]
      /\ \A id \in DOMAIN kept \ DOMAIN new : e[id] = kept[id]
      /\ e = [id \in DOMAIN e |-> e[id]]
  BY MergeFits
<1>10. /\ DOMAIN b = DOMAIN rest \cup DOMAIN own
       /\ \A name \in DOMAIN own : b[name] = own[name]
       /\ \A name \in DOMAIN rest \ DOMAIN own : b[name] = rest[name]
       /\ b = [name \in DOMAIN b |-> b[name]]
  BY MergeFits
<1> HIDE DEF e, b
<1>11. e \in Evidences(Ids) /\ Named(e)
  <2>1. /\ DOMAIN w.evidence \subseteq Ids /\ (\A id \in DOMAIN w.evidence : w.evidence[id] \in Items)
        /\ DOMAIN new \subseteq Ids /\ (\A id \in DOMAIN new : new[id] \in Items)
    BY <1>2, <1>4, EvidenceFits
  <2>2. DOMAIN e \subseteq Ids /\ (\A id \in DOMAIN e : e[id] \in Items)
    BY <1>7, <1>9, <2>1
  <2>3. e \in Evidences(Ids)
    BY <1>9, <2>2, EvidenceFits
  <2>4. Named(e)
    BY <1>4, <1>7, <1>9 DEF Named
  <2> QED
    BY <2>3, <2>4
<1>12. b \in Bindings(Ids)
  <2>1. /\ DOMAIN w.bind \subseteq Ids \cup {"alias"} /\ \A name \in DOMAIN w.bind : w.bind[name] \in Ids
    BY <1>2, BindingFits
  <2>2. Declarable \subseteq Ids
    BY DEF Ids
  <2>3. DOMAIN b \subseteq Ids \cup {"alias"} /\ \A name \in DOMAIN b : b[name] \in Ids
    BY <1>3, <1>7, <1>8, <1>10, <2>1, <2>2
  <2> QED
    BY <1>10, <2>3, BindingFits
<1>13. /\ x \in Workspace(Ids) /\ Beside(x, w)
       /\ x.evidence = e /\ x.bind = b /\ x.managed = w.managed
  <2> HIDE DEF x
  <2> QED
    BY <1>1, <1>11, <1>12 DEF Workspace, Beside
<1> HIDE DEF x
<1>14. /\ DOMAIN e = (DOMAIN w.evidence \ Declarable) \cup DOMAIN declared
       /\ \A id \in DOMAIN e \cap DOMAIN w.evidence :
            CalcOf(id) # "params" => e[id] = w.evidence[id]
       /\ \A id \in DOMAIN declared : CalcOf(id) = "params" => e[id] = declared[id]
  BY <1>4, <1>5, <1>7, <1>9
<1>15. /\ DOMAIN declared \subseteq DOMAIN b /\ \A id \in DOMAIN declared : b[id] = id
       /\ \A name \in DOMAIN w.bind \ Declarable : name \in DOMAIN b /\ b[name] = w.bind[name]
       /\ DOMAIN b \subseteq DOMAIN w.bind \cup DOMAIN declared
       /\ \A name \in DOMAIN b \ DOMAIN declared : b[name] = w.bind[name]
       /\ DOMAIN w.evidence \cap Declarable \subseteq DOMAIN declared =>
            DOMAIN w.bind \subseteq DOMAIN b
  BY <1>3, <1>5, <1>6, <1>7, <1>8, <1>10
<1> QED
  BY <1>11, <1>13, <1>14, <1>15 DEF x, declared

-----------------------------------------------------------------------------
(* The steps of a build, by name.                                          *)
Synced(w, candidate) == SyncDefinitions(SyncDiagnostics(Authored(w, candidate)))
From(base, old) == IF base = None THEN None ELSE old
Saved(base) == IF base = None THEN [r \in {} |-> 0] ELSE base.inputs
RunOf(s, base, old) == Executed(s, From(base, old), Saved(base))
Redrawn(s, S) == InvalidateObservations(Drawn(s, S), s.image)
Kept(d) == [d EXCEPT !.state = WritingState(d)]

LEMMA RegisteredFits ==
  ASSUME NEW w \in Workspace(Ids)
  PROVE  /\ Registered(w) \subseteq Recipes /\ Registered(w) \subseteq Figures
         /\ "surface" \in Registered(w)
         /\ "diagnostics" \in Registered(w) <=> w.calcs # None
         /\ \A r \in Registered(w) : Drawing(w, r) \in Image /\ Drawing(w, r) # None
         /\ \A r \in Registered(w) :
              Inputs(w, r) \in (Nat \X Study \X Nat \X Nat) \cup (Nat \X (SUBSET Calcs) \X Nat)
<1>1. /\ w.study \in Study /\ w.text \in Nat /\ w.data \in Nat /\ w.script \in [Recipes -> 0..2]
      /\ w.args \in [Recipes -> Nat] /\ w.calcs \in (SUBSET Calcs) \cup {None}
  BY DEF Workspace
<1>2. ASSUME NEW r \in Registered(w) PROVE Drawing(w, r) \in Image
  <2>1. r \in Recipes /\ w.script[r] \in Nat /\ w.args[r] \in Nat
    BY <1>1, <1>2 DEF Registered, Recipes
  <2>2. CASE r = "surface"
    <3>1. Drawing(w, r) = <<w.args[r], <<w.script[r], w.study, w.text, w.data>>>>
      BY <2>2 DEF Drawing, Inputs
    <3> QED
      BY <1>1, <2>1, <3>1 DEF Image
  <2>3. CASE r # "surface"
    <3>1. Drawing(w, r) = <<w.args[r], <<w.script[r], w.calcs, w.data>>>>
      BY <2>3 DEF Drawing, Inputs
    <3>2. w.calcs \in SUBSET Calcs
      BY <1>1, <1>2, <2>3 DEF Registered
    <3> QED
      BY <1>1, <2>1, <3>1, <3>2 DEF Image
  <2> QED
    BY <2>2, <2>3
<1>3. \A r \in Registered(w) : Drawing(w, r) # None
  BY <1>2, NoneIsNew
<1>4. ASSUME NEW r \in Registered(w)
      PROVE  Inputs(w, r) \in (Nat \X Study \X Nat \X Nat) \cup (Nat \X (SUBSET Calcs) \X Nat)
  <2>1. r \in Recipes /\ w.script[r] \in Nat
    BY <1>1, <1>4 DEF Registered, Recipes
  <2>2. CASE r = "surface"
    BY <1>1, <2>1, <2>2 DEF Inputs
  <2>3. CASE r # "surface"
    <3>1. w.calcs \in SUBSET Calcs
      BY <1>1, <1>4, <2>3 DEF Registered
    <3> QED
      BY <1>1, <2>1, <2>3, <3>1 DEF Inputs
  <2> QED
    BY <2>2, <2>3
<1> QED
  BY <1>2, <1>3, <1>4 DEF Registered, Recipes, Figures

(* Drawing changes images and notes and nothing else.                      *)
LEMMA RedrawnFits ==
  ASSUME NEW s \in Workspace(Ids), NEW S \in SUBSET Registered(s)
  PROVE  LET d == Redrawn(s, S)
         IN  /\ d \in Workspace(Ids)
             /\ d.study = s.study /\ d.text = s.text /\ d.data = s.data /\ d.calcs = s.calcs
             /\ d.managed = s.managed /\ d.evidence = s.evidence /\ d.bind = s.bind
             /\ d.uses = s.uses /\ d.script = s.script /\ d.args = s.args
             /\ d.seen = s.seen /\ d.lost = s.lost /\ d.late = s.late /\ d.art = s.art /\ d.state = s.state
             /\ \A f \in Figures : d.image[f] = IF f \in S THEN Drawing(s, f) ELSE s.image[f]
             /\ \A f \in Figures :
                  d.viewed[f] = (s.viewed[f] /\ (s.image[f] = None \/ s.image[f] = d.image[f]))
             /\ S = {} => d = s
<1> DEFINE image == [f \in Figures |-> IF f \in S THEN Drawing(s, f) ELSE s.image[f]]
           x == Drawn(s, S)
           viewed == [f \in Figures |-> s.viewed[f] /\ (s.image[f] = None \/ s.image[f] = image[f])]
           d == Redrawn(s, S)
<1>1. s.image \in [Figures -> Image \cup {None}] /\ s.viewed \in [Figures -> BOOLEAN]
  BY DEF Workspace
<1>2. image \in [Figures -> Image \cup {None}]
  BY <1>1, RegisteredFits
<1>3. viewed \in [Figures -> BOOLEAN]
  OBVIOUS
<1>4. x = [s EXCEPT !.image = image]
  BY DEF Drawn
<1>5. x.image = image /\ x.viewed = s.viewed
  BY <1>4 DEF Workspace
<1>6. d = [s EXCEPT !.image = image, !.viewed = viewed]
  <2>1. d = [x EXCEPT !.viewed = [f \in Figures |-> x.viewed[f] /\ (s.image[f] = None \/ s.image[f] = x.image[f])]]
    BY DEF Redrawn, InvalidateObservations
  <2> HIDE DEF image, x
  <2>2. d = [x EXCEPT !.viewed = viewed]
    BY <1>5, <2>1
  <2> HIDE DEF viewed, d
  <2> QED
    BY <1>4, <2>2 DEF Workspace
<1>7. ASSUME S = {} PROVE image = s.image /\ viewed = s.viewed
  <2>1. image = s.image
    BY <1>1, <1>7
  <2> QED
    BY <1>1, <2>1
<1>8. \A f \in Figures : /\ image[f] = IF f \in S THEN Drawing(s, f) ELSE s.image[f]
                        /\ viewed[f] = (s.viewed[f] /\ (s.image[f] = None \/ s.image[f] = image[f]))
  OBVIOUS
<1> HIDE DEF image, viewed, x, d
<1>9. S = {} => d = s
  BY <1>6, <1>7 DEF Workspace
<1>10. /\ d \in Workspace(Ids) /\ d.image = image /\ d.viewed = viewed
       /\ d.study = s.study /\ d.text = s.text /\ d.data = s.data /\ d.calcs = s.calcs
       /\ d.managed = s.managed /\ d.evidence = s.evidence /\ d.bind = s.bind
       /\ d.uses = s.uses /\ d.script = s.script /\ d.args = s.args
       /\ d.seen = s.seen /\ d.lost = s.lost /\ d.late = s.late /\ d.art = s.art /\ d.state = s.state
  BY <1>2, <1>3, <1>6 DEF Workspace
<1> QED
  BY <1>8, <1>9, <1>10 DEF d

LEMMA KeptFits ==
  ASSUME NEW d \in Workspace(Ids)
  PROVE  /\ Kept(d) \in Workspace(Ids) /\ WritingState(d) \in Writing(Ids)
         /\ Kept(d).managed = d.managed /\ Kept(d).evidence = d.evidence
         /\ Kept(d).bind = d.bind /\ Kept(d).state = WritingState(d)
         /\ Kept(d).study = d.study /\ Kept(d).text = d.text /\ Kept(d).data = d.data
         /\ Kept(d).calcs = d.calcs /\ Kept(d).uses = d.uses /\ Kept(d).script = d.script
         /\ Kept(d).args = d.args /\ Kept(d).image = d.image /\ Kept(d).viewed = d.viewed
         /\ Kept(d).seen = d.seen /\ Kept(d).lost = d.lost /\ Kept(d).late = d.late
         /\ Kept(d).art = d.art
         /\ d.state = WritingState(d) => Kept(d) = d
<1>1. WritingState(d) \in Writing(Ids)
  BY DEF Workspace, WritingState, Writing, Study
<1>2. Kept(d) = [d EXCEPT !.state = WritingState(d)]
  BY DEF Kept
<1> QED
  BY <1>1, <1>2 DEF Workspace

-----------------------------------------------------------------------------
(* A workspace only has the author's evidence and what was declared once;  *)
(* after a refresh, what was declared once is what is declared now.        *)
Tidy(w) ==
  /\ w \in Workspace(Ids) /\ Named(w.evidence)
  /\ w.calcs = None => w.managed = {}
  /\ DOMAIN w.evidence \subseteq {"own"} \cup Declarable \cup w.managed

Declares(w) == DOMAIN Declared(w.study) \cup (IF w.calcs = None THEN {} ELSE w.calcs)
Settled(w) ==
  /\ DOMAIN w.evidence \ {"own"} = Declares(w)
  /\ w.calcs # None => w.managed = w.calcs
  /\ \A id \in Declares(w) : id \in DOMAIN w.bind /\ w.bind[id] = id
  /\ \A id \in DOMAIN Declared(w.study) :
       CalcOf(id) = "params" => w.evidence[id] = Declared(w.study)[id]

LEMMA AuthoredFits ==
  ASSUME NEW w, Tidy(w), NEW candidate, candidate = None \/ candidate \in Workspace(Ids)
  PROVE  LET a == Authored(w, candidate)
         IN  /\ Tidy(a)
             /\ a.study = w.study /\ a.text = w.text /\ a.data = w.data /\ a.calcs = w.calcs
             /\ a.managed = w.managed /\ a.evidence = w.evidence /\ a.bind = w.bind
             /\ a.script = w.script /\ a.args = w.args /\ a.image = w.image
             /\ a.lost = w.lost /\ a.art = w.art /\ a.state = w.state
             /\ candidate = None => a = w
             /\ candidate # None => /\ a.viewed = candidate.viewed /\ a.seen = candidate.seen
                                    /\ a.late = LateNotes(w, candidate)
<1> DEFINE a == Authored(w, candidate)
           late == LateNotes(w, candidate)
<1>1. CASE candidate = None
  BY <1>1 DEF Authored
<1>2. CASE candidate # None
  <2>1. a = [w EXCEPT !.uses = candidate.uses, !.viewed = candidate.viewed, !.seen = candidate.seen,
                     !.late = late]
    BY <1>2 DEF Authored
  <2>2. /\ candidate.uses \in SUBSET (Ids \cup {"alias"}) /\ candidate.viewed \in [Figures -> BOOLEAN]
        /\ candidate.seen \in [Figures -> Image \cup {None}] /\ late \subseteq Figures
    BY <1>2 DEF Workspace, LateNotes
  <2>3. w \in Workspace(Ids)
    BY DEF Tidy
  <2> HIDE DEF a, late
  <2>4. /\ a \in Workspace(Ids)
        /\ a.study = w.study /\ a.text = w.text /\ a.data = w.data /\ a.calcs = w.calcs
        /\ a.managed = w.managed /\ a.evidence = w.evidence /\ a.bind = w.bind
        /\ a.script = w.script /\ a.args = w.args /\ a.image = w.image
        /\ a.lost = w.lost /\ a.art = w.art /\ a.state = w.state
        /\ a.viewed = candidate.viewed /\ a.seen = candidate.seen /\ a.late = late
    BY <2>1, <2>2, <2>3 DEF Workspace
  <2>5. Tidy(a)
    BY <2>4 DEF Tidy
  <2> QED
    BY <1>2, <2>4, <2>5 DEF a, late
<1> QED
  BY <1>1, <1>2

LEMMA SyncedFits ==
  ASSUME NEW w, Tidy(w), NEW candidate, candidate = None \/ candidate \in Workspace(Ids)
  PROVE  LET s == Synced(w, candidate)
         IN  /\ Tidy(s) /\ Settled(s)
             /\ s.study = w.study /\ s.text = w.text /\ s.data = w.data /\ s.calcs = w.calcs
             /\ s.script = w.script /\ s.args = w.args /\ s.image = w.image
             /\ s.lost = w.lost /\ s.art = w.art /\ s.state = w.state
             /\ candidate = None => s.viewed = w.viewed /\ s.seen = w.seen /\ s.late = w.late
             /\ candidate # None => /\ s.viewed = candidate.viewed /\ s.seen = candidate.seen
                                    /\ s.late = LateNotes(w, candidate)
             /\ "own" \in DOMAIN w.evidence => "own" \in DOMAIN s.evidence
             /\ "alias" \in DOMAIN w.bind =>
                  "alias" \in DOMAIN s.bind /\ s.bind["alias"] = w.bind["alias"]
             /\ \A id \in DOMAIN w.evidence \cap DOMAIN s.evidence :
                  CalcOf(id) # "params" => s.evidence[id] = w.evidence[id]
<1> DEFINE a == Authored(w, candidate)
           m == SyncDiagnostics(a)
           s == SyncDefinitions(m)
<1>1. /\ Tidy(a)
      /\ a.study = w.study /\ a.text = w.text /\ a.data = w.data /\ a.calcs = w.calcs
      /\ a.managed = w.managed /\ a.evidence = w.evidence /\ a.bind = w.bind
      /\ a.script = w.script /\ a.args = w.args /\ a.image = w.image
      /\ a.lost = w.lost /\ a.art = w.art /\ a.state = w.state
      /\ candidate = None => a = w
      /\ candidate # None => /\ a.viewed = candidate.viewed /\ a.seen = candidate.seen
                             /\ a.late = LateNotes(w, candidate)
  BY AuthoredFits
<1> HIDE DEF a
<1>2. /\ m \in Workspace(Ids) /\ Beside(m, a) /\ Named(m.evidence)
      /\ m.calcs = None => m.managed = {}
      /\ m.calcs # None => m.managed = m.calcs
      /\ DOMAIN m.evidence = (DOMAIN a.evidence \ a.managed) \cup m.managed
      /\ \A id \in DOMAIN m.evidence \cap DOMAIN a.evidence : m.evidence[id] = a.evidence[id]
      /\ \A c \in m.managed : c \in DOMAIN m.bind /\ m.bind[c] = c
      /\ \A name \in DOMAIN a.bind \ Calcs : name \in DOMAIN m.bind /\ m.bind[name] = a.bind[name]
  <2>1. CASE a.calcs = None
    <3>1. m = a
      BY <2>1 DEF SyncDiagnostics
    <3> QED
      BY <1>1, <2>1, <3>1 DEF Beside, Tidy
  <2>2. CASE a.calcs # None
    <3>1. a \in Workspace(Ids) /\ Named(a.evidence)
      BY <1>1 DEF Tidy
    <3>2. Beside(m, a)
      BY <2>2, <3>1, SyncDiagnosticsFits
    <3>3. m.calcs = a.calcs
      BY <3>2 DEF Beside
    <3> QED
      BY <2>2, <3>1, <3>2, <3>3, SyncDiagnosticsFits
  <2> QED
    BY <2>1, <2>2
<1>3. m.study \in Study /\ m.managed \subseteq Calcs
  BY <1>2 DEF Workspace
<1> HIDE DEF m
<1> DEFINE D == DOMAIN Declared(m.study)
<1>4. /\ s \in Workspace(Ids) /\ Beside(s, m) /\ Named(s.evidence)
      /\ s.managed = m.managed
      /\ DOMAIN s.evidence = (DOMAIN m.evidence \ Declarable) \cup D
      /\ \A id \in DOMAIN s.evidence \cap DOMAIN m.evidence :
           CalcOf(id) # "params" => s.evidence[id] = m.evidence[id]
      /\ \A id \in D : CalcOf(id) = "params" => s.evidence[id] = Declared(m.study)[id]
      /\ D \subseteq DOMAIN s.bind /\ (\A id \in D : s.bind[id] = id)
      /\ \A name \in DOMAIN m.bind \ Declarable :
           name \in DOMAIN s.bind /\ s.bind[name] = m.bind[name]
  BY <1>2, SyncDefinitionsFits
<1>5. D \subseteq Declarable
  BY <1>3, DeclaredFits
<1>6. s = Synced(w, candidate)
  BY DEF Synced, m, a
<1>7. s.study = m.study /\ s.calcs = m.calcs
  BY <1>4 DEF Beside
<1> HIDE DEF s
<1>8. DOMAIN a.evidence \subseteq {"own"} \cup Declarable \cup a.managed /\ a.managed \subseteq Calcs
  BY <1>1 DEF Tidy, Workspace
<1>9. "own" \notin Declarable /\ "own" \notin Calcs /\ "alias" \notin Declarable
      /\ "alias" \notin Calcs /\ Calcs \cap Declarable = {}
  BY NamesDiffer DEF Declarable
<1>10. Tidy(s)
  BY <1>2, <1>4, <1>5, <1>7, <1>8 DEF Tidy
<1>11. Declares(s) = D \cup m.managed
  BY <1>2, <1>7 DEF Declares
<1>12. Settled(s)
  <2>1. DOMAIN s.evidence \ {"own"} = Declares(s)
    BY <1>2, <1>3, <1>4, <1>5, <1>8, <1>9, <1>11
  <2>2. \A id \in Declares(s) : id \in DOMAIN s.bind /\ s.bind[id] = id
    BY <1>2, <1>3, <1>4, <1>9, <1>11
  <2>3. s.calcs # None => s.managed = s.calcs
    BY <1>2, <1>4, <1>7
  <2>4. \A id \in DOMAIN Declared(s.study) :
          CalcOf(id) = "params" => s.evidence[id] = Declared(s.study)[id]
    BY <1>4, <1>7
  <2> QED
    BY <2>1, <2>2, <2>3, <2>4 DEF Settled
<1>13. /\ "own" \in DOMAIN w.evidence => "own" \in DOMAIN s.evidence
       /\ "alias" \in DOMAIN w.bind =>
            "alias" \in DOMAIN s.bind /\ s.bind["alias"] = w.bind["alias"]
  BY <1>1, <1>2, <1>4, <1>8, <1>9
<1>14. \A id \in DOMAIN w.evidence \cap DOMAIN s.evidence :
         CalcOf(id) # "params" => s.evidence[id] = w.evidence[id]
  <2>1. SUFFICES ASSUME NEW id \in DOMAIN w.evidence \cap DOMAIN s.evidence, CalcOf(id) # "params"
                 PROVE  s.evidence[id] = w.evidence[id]
    OBVIOUS
  <2>2. CASE id \in DOMAIN m.evidence
    BY <1>1, <1>2, <1>4, <2>1, <2>2
  <2>3. CASE id \notin DOMAIN m.evidence
    <3>1. id \in D /\ id \in a.managed
      BY <1>1, <1>2, <1>4, <2>1, <2>3
    <3> QED
      BY <1>5, <1>8, <1>9, <3>1
  <2> QED
    BY <2>2, <2>3
<1>15. /\ s.study = w.study /\ s.text = w.text /\ s.data = w.data /\ s.calcs = w.calcs
       /\ s.script = w.script /\ s.args = w.args /\ s.image = w.image
       /\ s.lost = w.lost /\ s.art = w.art /\ s.state = w.state
       /\ s.viewed = a.viewed /\ s.seen = a.seen /\ s.late = a.late
  BY <1>1, <1>2, <1>4 DEF Beside
<1> QED
  BY <1>1, <1>6, <1>10, <1>12, <1>13, <1>14, <1>15

LEMMA SameFields ==
  ASSUME NEW x \in Workspace(Ids), NEW w \in Workspace(Ids),
         x.study = w.study, x.text = w.text, x.data = w.data, x.calcs = w.calcs,
         x.managed = w.managed, x.evidence = w.evidence, x.bind = w.bind, x.uses = w.uses,
         x.script = w.script, x.args = w.args, x.image = w.image, x.viewed = w.viewed,
         x.seen = w.seen, x.lost = w.lost, x.late = w.late, x.art = w.art, x.state = w.state
  PROVE  x = w
<1> DEFINE R(v) == [study |-> v.study, text |-> v.text, data |-> v.data, calcs |-> v.calcs,
                    managed |-> v.managed, evidence |-> v.evidence, bind |-> v.bind,
                    uses |-> v.uses, script |-> v.script, args |-> v.args, image |-> v.image,
                    viewed |-> v.viewed, seen |-> v.seen, lost |-> v.lost, late |-> v.late,
                    art |-> v.art, state |-> v.state]
<1>1. ASSUME NEW v \in Workspace(Ids) PROVE v = R(v)
  BY DEF Workspace
<1>2. R(x) = R(w)
  OBVIOUS
<1> HIDE DEF R
<1> QED
  BY <1>1, <1>2

(* To refresh what has been refreshed changes nothing.                     *)
LEMMA SettledStays ==
  ASSUME NEW w, Tidy(w), Settled(w)
  PROVE  Synced(w, None) = w
<1>1. w \in Workspace(Ids) /\ Named(w.evidence)
  BY DEF Tidy
<1>2. Authored(w, None) = w
  BY DEF Authored
<1>3. /\ w.evidence \in Evidences(Ids) /\ w.bind \in Bindings(Ids) /\ w.study \in Study
      /\ w.managed \subseteq Calcs
  BY <1>1 DEF Workspace
<1>4. ASSUME NEW e \in Evidences(Ids), DOMAIN e = DOMAIN w.evidence,
             \A id \in DOMAIN w.evidence : e[id] = w.evidence[id]
      PROVE  e = w.evidence
  BY <1>3, <1>4, EvidenceFits
<1>5. ASSUME NEW b \in Bindings(Ids), DOMAIN b = DOMAIN w.bind,
             \A name \in DOMAIN w.bind : b[name] = w.bind[name]
      PROVE  b = w.bind
  BY <1>3, <1>5, BindingFits
<1>6. ASSUME NEW x \in Workspace(Ids), Beside(x, w), x.managed = w.managed,
             x.evidence = w.evidence, x.bind = w.bind
      PROVE  x = w
  BY <1>1, <1>6, SameFields DEF Beside
<1>7. SyncDiagnostics(w) = w
  <2>1. CASE w.calcs = None
    BY <2>1 DEF SyncDiagnostics
  <2>2. CASE w.calcs # None
    <3> DEFINE x == SyncDiagnostics(w)
    <3>1. /\ w.managed = w.calcs /\ w.calcs \subseteq DOMAIN w.evidence
          /\ \A c \in w.calcs : c \in DOMAIN w.bind /\ w.bind[c] = c
      BY <2>2 DEF Settled, Declares
    <3>2. /\ x \in Workspace(Ids) /\ Beside(x, w) /\ x.managed = w.calcs
          /\ DOMAIN x.evidence = (DOMAIN w.evidence \ w.managed) \cup w.calcs
          /\ \A id \in DOMAIN x.evidence \cap DOMAIN w.evidence :
               x.evidence[id] = w.evidence[id]
          /\ \A c \in w.calcs : x.bind[c] = c
          /\ DOMAIN x.bind \subseteq DOMAIN w.bind \cup w.calcs
          /\ \A name \in DOMAIN x.bind \ w.calcs : x.bind[name] = w.bind[name]
          /\ w.managed \subseteq w.calcs => DOMAIN w.bind \subseteq DOMAIN x.bind
      BY <1>1, <2>2, SyncDiagnosticsFits
    <3>3. x.evidence \in Evidences(Ids) /\ x.bind \in Bindings(Ids)
      BY <3>2 DEF Workspace
    <3> HIDE DEF x
    <3>4. x.evidence = w.evidence
      BY <1>4, <3>1, <3>2, <3>3
    <3>5. x.bind = w.bind
      BY <1>5, <3>1, <3>2, <3>3
    <3> QED
      BY <1>6, <3>1, <3>2, <3>4, <3>5 DEF x
  <2> QED
    BY <2>1, <2>2
<1>8. SyncDefinitions(w) = w
  <2> DEFINE x == SyncDefinitions(w)
             D == DOMAIN Declared(w.study)
  <2>1. /\ x \in Workspace(Ids) /\ Beside(x, w) /\ x.managed = w.managed
        /\ DOMAIN x.evidence = (DOMAIN w.evidence \ Declarable) \cup D
        /\ \A id \in DOMAIN x.evidence \cap DOMAIN w.evidence :
             CalcOf(id) # "params" => x.evidence[id] = w.evidence[id]
        /\ \A id \in D : CalcOf(id) = "params" => x.evidence[id] = Declared(w.study)[id]
        /\ D \subseteq DOMAIN x.bind /\ (\A id \in D : x.bind[id] = id)
        /\ DOMAIN x.bind \subseteq DOMAIN w.bind \cup D
        /\ \A name \in DOMAIN x.bind \ D : x.bind[name] = w.bind[name]
        /\ DOMAIN w.evidence \cap Declarable \subseteq D => DOMAIN w.bind \subseteq DOMAIN x.bind
    BY <1>1, SyncDefinitionsFits
  <2>2. /\ D \subseteq Declarable /\ Calcs \cap Declarable = {}
        /\ "own" \notin Declarable
    BY <1>3, DeclaredFits, NamesDiffer DEF Declarable
  <2>3. /\ DOMAIN w.evidence \ {"own"} = Declares(w)
        /\ \A id \in D : id \in DOMAIN w.bind /\ w.bind[id] = id
        /\ \A id \in D : CalcOf(id) = "params" => w.evidence[id] = Declared(w.study)[id]
    BY DEF Settled, Declares
  <2>4. Declares(w) \subseteq D \cup Calcs /\ D \subseteq Declares(w)
    BY <1>1 DEF Declares, Workspace
  <2>5. x.evidence \in Evidences(Ids) /\ x.bind \in Bindings(Ids)
    BY <2>1 DEF Workspace
  <2>10. x \in Workspace(Ids) /\ Beside(x, w) /\ x.managed = w.managed
    BY <2>1
  <2> HIDE DEF x, D
  <2>6. DOMAIN x.evidence = DOMAIN w.evidence /\ DOMAIN w.evidence \cap Declarable \subseteq D
    BY <2>1, <2>2, <2>3, <2>4
  <2>7. \A id \in DOMAIN w.evidence : CalcOf(id) = "params" => id \in D
    <3>1. \A id \in Calcs : CalcOf(id) # "params"
      BY NamesDiffer DEF CalcOf, Declarable
    <3>2. CalcOf("own") # "params"
      BY DEF CalcOf
    <3> QED
      BY <2>3, <2>4, <3>1, <3>2
  <2>8. x.evidence = w.evidence
    BY <1>4, <2>1, <2>3, <2>5, <2>6, <2>7
  <2>9. x.bind = w.bind
    <3>1. DOMAIN x.bind = DOMAIN w.bind
      BY <2>1, <2>3, <2>6
    <3>2. \A name \in DOMAIN w.bind : x.bind[name] = w.bind[name]
      BY <2>1, <2>3, <3>1
    <3> QED
      BY <1>5, <2>5, <3>1, <3>2
  <2> QED
    BY <1>6, <2>8, <2>9, <2>10 DEF x
<1> QED
  BY <1>2, <1>7, <1>8 DEF Synced

-----------------------------------------------------------------------------
(* A build, as a value.                                                    *)
Result(w, base, old, candidate) ==
  LET s == Synced(w, candidate)
      d == Redrawn(s, RunOf(s, base, old))
      previous == IF base = None THEN w.state ELSE base.state
  IN  [ws |-> Kept(d), state |-> WritingState(d), run |-> RunOf(s, base, old),
       inputs |-> [r \in Registered(d) |-> Inputs(d, r)],
       snapshot |-> Definitions(d), context |-> HostContext(d),
       review |-> \/ DefinitionChanged(d, From(base, old), IF base = None THEN None ELSE base.snapshot)
                  \/ previous # None /\ previous # WritingState(d)]

LEMMA BuildIsResult ==
  ASSUME NEW w, NEW base, NEW old, NEW candidate
  PROVE  BuildOf(w, base, old, candidate) =
           LET s == Synced(w, candidate)
               S == RunOf(s, base, old)
           IN  IF ~ ScriptsDraw(s, S) \/ ~ Assembles(Redrawn(s, S)) THEN None
               ELSE Result(w, base, old, candidate)
  BY DEF BuildOf, Synced, From, Saved, RunOf, Redrawn, Kept, Result

LEMMA ResultFits ==
  ASSUME NEW w, Tidy(w), NEW candidate, candidate = None \/ candidate \in Workspace(Ids),
         NEW base, NEW old
  PROVE  /\ Result(w, base, old, candidate) \in BuildResult(Ids)
         /\ Result(w, base, old, candidate) # None
<1> DEFINE s == Synced(w, candidate)
           S == RunOf(s, base, old)
           d == Redrawn(s, S)
           previous == IF base = None THEN w.state ELSE base.state
           review == \/ DefinitionChanged(d, From(base, old), IF base = None THEN None ELSE base.snapshot)
                     \/ previous # None /\ previous # WritingState(d)
           inputs == [r \in Registered(d) |-> Inputs(d, r)]
<1>1. s \in Workspace(Ids)
  BY SyncedFits DEF Tidy
<1>2. S \subseteq Registered(s)
  BY DEF RunOf, Executed
<1>3. Result(w, base, old, candidate) =
        [ws |-> Kept(d), state |-> WritingState(d), run |-> S, inputs |-> inputs,
         snapshot |-> Definitions(d), context |-> HostContext(d), review |-> review]
  BY DEF Result
<1>4. review \in BOOLEAN
  OBVIOUS
<1> HIDE DEF S, s, review
<1>5. d \in Workspace(Ids)
  BY <1>1, <1>2, RedrawnFits
<1>6. S \subseteq Recipes
  BY <1>1, <1>2, RegisteredFits
<1> HIDE DEF d
<1>7. Kept(d) \in Workspace(Ids) /\ WritingState(d) \in Writing(Ids)
  BY <1>5, KeptFits
<1>8. inputs \in UNION {[T -> (Nat \X Study \X Nat \X Nat) \cup (Nat \X (SUBSET Calcs) \X Nat)] :
                          T \in SUBSET Recipes}
  <2>1. Registered(d) \in SUBSET Recipes
    BY <1>5, RegisteredFits
  <2>2. inputs \in [Registered(d) -> (Nat \X Study \X Nat \X Nat) \cup (Nat \X (SUBSET Calcs) \X Nat)]
    BY <1>5, RegisteredFits
  <2> QED
    BY <2>1, <2>2
<1>9. Definitions(d) \in Definition
  BY <1>5 DEF Definitions, Definition, Workspace
<1>10. HostContext(d) \in [Figures -> (Image \cup {None}) \X BOOLEAN]
  BY <1>5 DEF HostContext, Workspace
<1> HIDE DEF inputs
<1>11. Result(w, base, old, candidate) \in BuildResult(Ids)
  BY <1>3, <1>4, <1>6, <1>7, <1>8, <1>9, <1>10 DEF BuildResult
<1> QED
  BY <1>11, NoneIsNew

(* What holds of every build, whatever it was built from.                  *)
Built(b) ==
  /\ Tidy(b.ws) /\ Settled(b.ws)
  /\ b.ws.state = b.state /\ b.state = WritingState(b.ws)
  /\ b.inputs = [r \in Registered(b.ws) |-> Inputs(b.ws, r)]
  /\ b.snapshot = Definitions(b.ws) /\ b.context = HostContext(b.ws)
  /\ Assembles(b.ws)
  /\ \A r \in Registered(b.ws) : b.ws.image[r] # None

(* What a build takes over from the workspace it was built from.           *)
TakenOver(x, w, candidate) ==
  /\ x.study = w.study /\ x.text = w.text /\ x.data = w.data /\ x.calcs = w.calcs
  /\ x.script = w.script /\ x.args = w.args /\ x.lost = w.lost /\ x.art = w.art
  /\ x.seen = IF candidate = None THEN w.seen ELSE candidate.seen
  /\ x.late = IF candidate = None THEN w.late ELSE LateNotes(w, candidate)
  /\ "own" \in DOMAIN w.evidence => "own" \in DOMAIN x.evidence
  /\ "alias" \in DOMAIN w.bind => "alias" \in DOMAIN x.bind /\ x.bind["alias"] = w.bind["alias"]
  /\ \A id \in DOMAIN w.evidence \cap DOMAIN x.evidence :
       CalcOf(id) # "params" => x.evidence[id] = w.evidence[id]

(* Why a figure was not drawn again.                                       *)
StillGood(r, x, w, base, old) ==
  /\ base # None /\ w.image[r] # None
  /\ r \in Registered(old) /\ old.args[r] = x.args[r]
  /\ r \in DOMAIN base.inputs => base.inputs[r] = Inputs(x, r)
  /\ r \notin DOMAIN base.inputs => Inputs(old, r) = Inputs(x, r)

Shown(b, w, candidate, f) ==
  /\ b.ws.image[f] = IF f \in b.run THEN Drawing(b.ws, f) ELSE w.image[f]
  /\ b.ws.viewed[f] = ((IF candidate = None THEN w.viewed[f] ELSE candidate.viewed[f])
                         /\ (w.image[f] = None \/ w.image[f] = b.ws.image[f]))

Asked(b, w, base, old) ==
  LET previous == IF base = None THEN w.state ELSE base.state
  IN  \/ DefinitionChanged(b.ws, From(base, old), IF base = None THEN None ELSE base.snapshot)
      \/ previous # None /\ previous # b.state

LEMMA BuildFits ==
  ASSUME NEW w, Tidy(w), NEW candidate, candidate = None \/ candidate \in Workspace(Ids),
         NEW base, NEW old, BuildOf(w, base, old, candidate) # None
  PROVE  LET b == BuildOf(w, base, old, candidate)
         IN  /\ Built(b) /\ b # None /\ b.run \subseteq Registered(b.ws)
             /\ TakenOver(b.ws, w, candidate)
             /\ \A r \in Registered(b.ws) \ b.run : StillGood(r, b.ws, w, base, old)
             /\ \A f \in Figures : Shown(b, w, candidate, f)
             /\ b.review = Asked(b, w, base, old)
<1> DEFINE b == BuildOf(w, base, old, candidate)
           s == Synced(w, candidate)
           S == RunOf(s, base, old)
           d == Redrawn(s, S)
           previous == IF base = None THEN w.state ELSE base.state
<1>1. /\ Tidy(s) /\ Settled(s)
      /\ s.study = w.study /\ s.text = w.text /\ s.data = w.data /\ s.calcs = w.calcs
      /\ s.script = w.script /\ s.args = w.args /\ s.image = w.image
      /\ s.lost = w.lost /\ s.art = w.art /\ s.state = w.state
      /\ candidate = None => s.viewed = w.viewed /\ s.seen = w.seen /\ s.late = w.late
      /\ candidate # None => /\ s.viewed = candidate.viewed /\ s.seen = candidate.seen
                             /\ s.late = LateNotes(w, candidate)
      /\ "own" \in DOMAIN w.evidence => "own" \in DOMAIN s.evidence
      /\ "alias" \in DOMAIN w.bind =>
           "alias" \in DOMAIN s.bind /\ s.bind["alias"] = w.bind["alias"]
      /\ \A id \in DOMAIN w.evidence \cap DOMAIN s.evidence :
           CalcOf(id) # "params" => s.evidence[id] = w.evidence[id]
  BY SyncedFits
<1>2. b = Result(w, base, old, candidate) /\ Assembles(d)
  BY BuildIsResult
<1>3. b # None
  OBVIOUS
<1>4. /\ b.ws = Kept(d) /\ b.state = WritingState(d) /\ b.run = S
      /\ b.inputs = [r \in Registered(d) |-> Inputs(d, r)]
      /\ b.snapshot = Definitions(d) /\ b.context = HostContext(d)
      /\ b.review = \/ DefinitionChanged(d, From(base, old), IF base = None THEN None ELSE base.snapshot)
                    \/ previous # None /\ previous # WritingState(d)
  BY <1>2 DEF Result
<1>5. S \subseteq Registered(s)
  BY DEF RunOf, Executed
<1>6. ASSUME NEW r \in Registered(s) \ S PROVE StillGood(r, s, s, base, old)
  BY <1>6 DEF RunOf, Executed, From, Saved, ChangedRecipe, StillGood
<1> HIDE DEF b, S, s, previous
<1>7. s \in Workspace(Ids)
  BY <1>1 DEF Tidy
<1>8. /\ d \in Workspace(Ids)
      /\ d.study = s.study /\ d.text = s.text /\ d.data = s.data /\ d.calcs = s.calcs
      /\ d.managed = s.managed /\ d.evidence = s.evidence /\ d.bind = s.bind
      /\ d.uses = s.uses /\ d.script = s.script /\ d.args = s.args
      /\ d.seen = s.seen /\ d.lost = s.lost /\ d.late = s.late /\ d.art = s.art /\ d.state = s.state
      /\ \A f \in Figures : d.image[f] = IF f \in S THEN Drawing(s, f) ELSE s.image[f]
      /\ \A f \in Figures :
           d.viewed[f] = (s.viewed[f] /\ (s.image[f] = None \/ s.image[f] = d.image[f]))
  BY <1>5, <1>7, RedrawnFits
<1> HIDE DEF d
<1> DEFINE k == Kept(d)
<1>9. /\ k \in Workspace(Ids)
      /\ k.managed = d.managed /\ k.evidence = d.evidence
      /\ k.bind = d.bind /\ k.state = WritingState(d)
      /\ k.study = d.study /\ k.text = d.text /\ k.data = d.data
      /\ k.calcs = d.calcs /\ k.uses = d.uses /\ k.script = d.script
      /\ k.args = d.args /\ k.image = d.image /\ k.viewed = d.viewed
      /\ k.seen = d.seen /\ k.lost = d.lost /\ k.late = d.late /\ k.art = d.art
  BY <1>8, KeptFits
<1>10. b.ws = k
  BY <1>4
<1> HIDE DEF k
<1>11. WritingState(k) = WritingState(d) /\ Definitions(k) = Definitions(d)
       /\ HostContext(k) = HostContext(d) /\ (Assembles(k) <=> Assembles(d))
  BY <1>9 DEF WritingState, Definitions, HostContext, Assembles
<1>12. Registered(k) = Registered(d) /\ Registered(k) = Registered(s)
  BY <1>8, <1>9 DEF Registered
<1>13. ASSUME NEW r PROVE Inputs(k, r) = Inputs(d, r) /\ Inputs(k, r) = Inputs(s, r)
  BY <1>8, <1>9 DEF Inputs
<1>14. ASSUME NEW r PROVE Drawing(k, r) = Drawing(s, r)
  BY <1>8, <1>9, <1>13 DEF Drawing
<1>15. Tidy(k) /\ Settled(k)
  BY <1>1, <1>8, <1>9 DEF Tidy, Settled, Declares
<1>16. \A r \in Registered(k) \ S : StillGood(r, k, w, base, old)
  BY <1>1, <1>6, <1>8, <1>9, <1>12, <1>13 DEF StillGood
<1>17. \A f \in Figures : Shown(b, w, candidate, f)
  BY <1>1, <1>4, <1>8, <1>9, <1>10, <1>14 DEF Shown
<1>18. \A r \in Registered(k) : k.image[r] # None
  <2>1. ASSUME NEW r \in Registered(k) PROVE k.image[r] # None
    <3>1. r \in Registered(s) /\ r \in Figures /\ Drawing(s, r) # None
      BY <1>7, <1>12, RegisteredFits
    <3> QED
      BY <1>1, <1>8, <1>9, <1>16, <3>1 DEF StillGood
  <2> QED
    BY <2>1
<1>19. Built(b)
  <2>1. b.inputs = [r \in Registered(k) |-> Inputs(k, r)]
    BY <1>4, <1>12, <1>13
  <2> QED
    BY <1>2, <1>4, <1>9, <1>10, <1>11, <1>15, <1>18, <2>1 DEF Built
<1>20. TakenOver(k, w, candidate)
  BY <1>1, <1>8, <1>9 DEF TakenOver
<1>21. b.review = \/ DefinitionChanged(k, From(base, old), IF base = None THEN None ELSE base.snapshot)
                  \/ previous # None /\ previous # b.state
  BY <1>4, <1>11 DEF DefinitionChanged
<1>22. b.review = Asked(b, w, base, old)
  BY <1>10, <1>21 DEF Asked, previous
<1> QED
  BY <1>3, <1>4, <1>5, <1>10, <1>12, <1>16, <1>17, <1>19, <1>20, <1>22 DEF b

(* To build a build again changes nothing, draws nothing, asks nothing.    *)
LEMMA BuildAgain ==
  ASSUME NEW b, b # None, Built(b)
  PROVE  LET again == BuildOf(b.ws, b, b.ws, None)
         IN  /\ again # None /\ again.ws = b.ws /\ again.run = {} /\ ~ again.review
<1> DEFINE w == b.ws
           again == BuildOf(w, b, w, None)
<1>1. /\ Tidy(w) /\ Settled(w) /\ w.state = WritingState(w) /\ b.state = WritingState(w)
      /\ b.inputs = [r \in Registered(w) |-> Inputs(w, r)]
      /\ b.snapshot = Definitions(w) /\ Assembles(w)
      /\ \A r \in Registered(w) : w.image[r] # None
  BY DEF Built
<1>2. w \in Workspace(Ids) /\ w # None
  BY <1>1, NoneIsNew DEF Tidy
<1>3. Definitions(w) # None
  BY <1>2, NoneIsNew DEF Definitions, Definition, Workspace
<1> HIDE DEF w
<1>4. Synced(w, None) = w
  BY <1>1, SettledStays
<1>5. From(b, w) = w /\ Saved(b) = b.inputs
  BY DEF From, Saved
<1>6. RunOf(w, b, w) = {}
  BY <1>1, <1>2, <1>5 DEF RunOf, Executed, ChangedRecipe
<1>7. Redrawn(w, {}) = w /\ Kept(w) = w
  BY <1>1, <1>2, RedrawnFits, KeptFits
<1>8. again = Result(w, b, w, None)
  BY <1>1, <1>4, <1>6, <1>7, BuildIsResult DEF ScriptsDraw
<1>9. again # None
  BY <1>1, <1>8, ResultFits
<1>10. ~ DefinitionChanged(w, w, b.snapshot)
  BY <1>1, <1>3 DEF DefinitionChanged, OldDefinitions
<1>11. Result(w, b, w, None).ws = w /\ Result(w, b, w, None).run = {}
       /\ ~ Result(w, b, w, None).review
  BY <1>1, <1>4, <1>5, <1>6, <1>7, <1>10 DEF Result
<1> QED
  BY <1>8, <1>9, <1>11 DEF w

(* When a build is reviewed again: what it shows is not what the build     *)
(* before it showed.                                                       *)
LEMMA ReviewFits ==
  ASSUME NEW w, Tidy(w), NEW candidate, candidate = None \/ candidate \in Workspace(Ids),
         NEW base, base # None, Built(base), NEW old \in Workspace(Ids),
         BuildOf(w, base, old, candidate) # None
  PROVE  LET b == BuildOf(w, base, old, candidate)
         IN  b.review <=> \/ Definitions(b.ws) # Definitions(base.ws)
                          \/ b.ws.data # base.ws.data
                          \/ b.ws.evidence # base.ws.evidence
                          \/ b.ws.bind # base.ws.bind
<1> DEFINE b == BuildOf(w, base, old, candidate)
<1>0. Built(b) /\ b.review = Asked(b, w, base, old)
  BY BuildFits
<1>1. /\ Built(b)
      /\ b.review = \/ DefinitionChanged(b.ws, From(base, old), base.snapshot)
                    \/ base.state # None /\ base.state # b.state
  <2> HIDE DEF b
  <2> QED
    BY <1>0 DEF Asked
<1> HIDE DEF b
<1>2. /\ base.snapshot = Definitions(base.ws) /\ base.state = WritingState(base.ws)
      /\ b.state = WritingState(b.ws) /\ base.ws \in Workspace(Ids) /\ b.ws \in Workspace(Ids)
  BY <1>1 DEF Built, Tidy
<1>3. base.snapshot # None /\ base.state # None /\ old # None
  <2>1. Definitions(base.ws) \in Definition
    BY <1>2 DEF Definitions, Definition, Workspace
  <2>2. WritingState(base.ws) \in Writing(Ids)
    BY <1>2, KeptFits
  <2> QED
    BY <1>2, <2>1, <2>2, NoneIsNew
<1>4. DefinitionChanged(b.ws, From(base, old), base.snapshot)
        <=> Definitions(b.ws) # Definitions(base.ws)
  BY <1>2, <1>3 DEF DefinitionChanged, OldDefinitions, From
<1>5. Definitions(b.ws) = Definitions(base.ws) =>
        b.ws.text = base.ws.text /\ b.ws.study.two = base.ws.study.two
  BY DEF Definitions
<1>6. base.state = b.state <=>
        /\ b.ws.data = base.ws.data /\ b.ws.text = base.ws.text
        /\ b.ws.study.two = base.ws.study.two
        /\ b.ws.evidence = base.ws.evidence /\ b.ws.bind = base.ws.bind
  BY <1>2 DEF WritingState
<1> QED
  BY <1>1, <1>3, <1>4, <1>5, <1>6 DEF b

-----------------------------------------------------------------------------
(* Every workspace is tidy, every build is settled.                        *)

\* A recipe's figure, as the preparation and the attachment of diagnostics draw it.
LEMMA AttachFits ==
  ASSUME Tidy(ws), NEW S \in SUBSET Calcs, AttachDiagnostics(S)
  PROVE  LET t == [ws EXCEPT !.calcs = S, !.managed = S]
             m == SyncDiagnostics(t)
         IN  /\ Tidy(ws') /\ Beside(m, t) /\ m \in Workspace(Ids)
             /\ t.study = ws.study /\ t.text = ws.text /\ t.data = ws.data /\ t.calcs = S
             /\ t.script = ws.script /\ t.args = ws.args /\ t.image = ws.image
             /\ t.viewed = ws.viewed /\ t.seen = ws.seen /\ t.lost = ws.lost
             /\ t.late = ws.late /\ t.art = ws.art
             /\ ws' = [m EXCEPT !.image["diagnostics"] = Drawing(m, "diagnostics"),
                                !.viewed["diagnostics"] = FALSE]
             /\ Drawing(m, "diagnostics") \in Image /\ ws.calcs = None /\ S # None
             /\ m.evidence = ws'.evidence /\ m.bind = ws'.bind
<1> DEFINE t == [ws EXCEPT !.calcs = S, !.managed = S]
           m == SyncDiagnostics(t)
           drawing == Drawing(m, "diagnostics")
<1>1. /\ ws.calcs = None
      /\ ws' = [m EXCEPT !.image["diagnostics"] = drawing, !.viewed["diagnostics"] = FALSE]
  BY DEF AttachDiagnostics, Fresh
<1>2. S # None
  BY NoneIsNew
<1>3. ws \in Workspace(Ids) /\ Named(ws.evidence) /\ ws.managed = {}
      /\ DOMAIN ws.evidence \subseteq {"own"} \cup Declarable
  BY <1>1 DEF Tidy
<1>4. /\ t \in Workspace(Ids) /\ t.evidence = ws.evidence /\ t.calcs = S /\ t.managed = S
      /\ t.study = ws.study /\ t.text = ws.text /\ t.data = ws.data
      /\ t.script = ws.script /\ t.args = ws.args /\ t.image = ws.image
      /\ t.viewed = ws.viewed /\ t.seen = ws.seen /\ t.lost = ws.lost /\ t.late = ws.late
      /\ t.art = ws.art
  BY <1>3 DEF Workspace
<1> HIDE DEF t
<1>5. /\ m \in Workspace(Ids) /\ Beside(m, t) /\ Named(m.evidence) /\ m.managed = S
      /\ DOMAIN m.evidence = (DOMAIN ws.evidence \ S) \cup S
  BY <1>2, <1>3, <1>4, SyncDiagnosticsFits
<1>6. m.calcs = S
  BY <1>4, <1>5 DEF Beside
<1> HIDE DEF m
<1>7. drawing \in Image
  BY <1>2, <1>5, <1>6, RegisteredFits
<1> HIDE DEF drawing
<1>8. /\ ws' \in Workspace(Ids) /\ ws'.evidence = m.evidence /\ ws'.bind = m.bind
      /\ ws'.calcs = S /\ ws'.managed = S
  BY <1>1, <1>5, <1>6, <1>7 DEF Workspace, Figures, Recipes
<1>9. Tidy(ws')
  BY <1>2, <1>3, <1>5, <1>8 DEF Tidy
<1> QED
  BY <1>1, <1>2, <1>4, <1>5, <1>7, <1>8, <1>9 DEF drawing, m, t

LEMMA ArtFits ==
  ASSUME ws \in Workspace(Ids), NEW replace \in BOOLEAN, NEW seen \in BOOLEAN,
         AttachFigure(replace, seen)
  PROVE  LET art == Append(ws.art, Len(ws.art) + 1)
             image == <<"art", Len(ws.art) + 1>>
             note == IF seen THEN image ELSE None
         IN  /\ art \in Seq(Nat) /\ image \in Image /\ note \in Image \cup {None}
             /\ art[Len(art)] = Len(ws.art) + 1 /\ IsPrefix(ws.art, art)
             /\ ws' = [ws EXCEPT !.art = art, !.image = [ws.image EXCEPT !["imported"] = image],
                                 !.viewed = [ws.viewed EXCEPT !["imported"] = seen],
                                 !.seen = [ws.seen EXCEPT !["imported"] = note],
                                 !.late = ws.late \ {"imported"}]
<1> DEFINE art == Append(ws.art, Len(ws.art) + 1)
           image == <<"art", Len(ws.art) + 1>>
           note == IF seen THEN image ELSE None
           w == ArtBeside(ws)
<1>1. ws.art \in Seq(Nat) /\ Len(ws.art) \in Nat
  BY DEF Workspace
<1>2. /\ art \in Seq(Nat) /\ Len(art) = Len(ws.art) + 1 /\ art[Len(art)] = Len(ws.art) + 1
      /\ \A i \in 1..Len(ws.art) : art[i] = ws.art[i]
  BY <1>1
<1>3. IsPrefix(ws.art, art)
  BY <1>1, <1>2, SMTT(30) DEF IsPrefix
<1>4. image \in Image
  BY <1>1 DEF Image
<1>5. w = [ws EXCEPT !.art = art] /\ w.art = art /\ w.image = ws.image /\ w.viewed = ws.viewed
      /\ w.seen = ws.seen /\ w.late = ws.late
  BY DEF ArtBeside, Workspace
<1>6. ws' = [w EXCEPT !.image["imported"] = <<"art", w.art[Len(w.art)]>>, !.viewed["imported"] = seen,
                      !.seen["imported"] = IF seen THEN <<"art", w.art[Len(w.art)]>> ELSE None,
                      !.late = @ \ {"imported"}]
  BY DEF AttachFigure, Fresh
<1>7. <<"art", w.art[Len(w.art)]>> = image
  BY <1>2, <1>5
<1>8. ws' = [w EXCEPT !.image = [ws.image EXCEPT !["imported"] = image],
                      !.viewed = [ws.viewed EXCEPT !["imported"] = seen],
                      !.seen = [ws.seen EXCEPT !["imported"] = note],
                      !.late = ws.late \ {"imported"}]
  BY <1>5, <1>6, <1>7
<1> DEFINE images == [ws.image EXCEPT !["imported"] = image]
           views == [ws.viewed EXCEPT !["imported"] = seen]
           notes == [ws.seen EXCEPT !["imported"] = note]
<1> HIDE DEF w, images, views, notes, art
<1>9. ws' = [ws EXCEPT !.art = art, !.image = images, !.viewed = views, !.seen = notes,
                       !.late = ws.late \ {"imported"}]
  BY <1>5, <1>8 DEF Workspace, images, views, notes
<1> QED
  BY <1>2, <1>3, <1>4, <1>9 DEF art, images, views, notes

LEMMA EditsStayTidy ==
  ASSUME Tidy(ws), HostEdits
  PROVE  /\ Tidy(ws') /\ build' = build /\ baseline' = baseline
         /\ place' = place \/ place' = "copy"
<1>1. ws \in Workspace(Ids) /\ Named(ws.evidence)
  BY DEF Tidy
<1>2. CASE EditStudy
  <2> DEFINE new == [ws.study EXCEPT !.aim = 1 - @]
  <2>1. new \in Study
    <3>1. ws.study \in [aim : {0, 1}, two : BOOLEAN]
      BY <1>1 DEF Workspace, Study
    <3>2. 1 - ws.study.aim \in {0, 1}
      BY <3>1
    <3> QED
      BY <3>1, <3>2 DEF Study
  <2>2. ws' = [ws EXCEPT !.study = new] /\ UNCHANGED <<build, baseline, place>>
    BY <1>2 DEF EditStudy, Edit
  <2> HIDE DEF new
  <2> QED
    BY <1>1, <2>1, <2>2 DEF Tidy, Workspace
<1>3. CASE ChangeThresholds
  BY <1>1, <1>3 DEF ChangeThresholds, Edit, Tidy, Workspace, Study
<1>4. CASE EditDefinition
  <2> DEFINE new == ws.text + 1
  <2>1. new \in Nat
    BY <1>1 DEF Workspace
  <2>2. ws' = [ws EXCEPT !.text = new] /\ UNCHANGED <<build, baseline, place>>
    BY <1>4 DEF EditDefinition, Edit
  <2> HIDE DEF new
  <2> QED
    BY <1>1, <2>1, <2>2 DEF Tidy, Workspace
<1>5. CASE EditData
  <2> DEFINE new == ws.data + 1
  <2>1. new \in Nat
    BY <1>1 DEF Workspace
  <2>2. ws' = [ws EXCEPT !.data = new] /\ UNCHANGED <<build, baseline, place>>
    BY <1>5 DEF EditData, Edit
  <2> HIDE DEF new
  <2> QED
    BY <1>1, <2>1, <2>2 DEF Tidy, Workspace
<1>6. CASE OwnEvidence
  <2> DEFINE own == [id \in {"own"} |-> Item("none")]
             new == Merge(ws.evidence, own)
  <2>1. Item("none") \in Items /\ Item("none").calc = CalcOf("own")
    BY DEF Item, Items, CalcOf
  <2>2. DOMAIN own = {"own"} /\ own["own"] = Item("none")
    OBVIOUS
  <2>3. ws.evidence \in Evidences(Ids)
    BY <1>1 DEF Workspace
  <2>4. ws' = [ws EXCEPT !.evidence = new] /\ UNCHANGED <<build, baseline, place>>
    BY <1>6 DEF OwnEvidence, Edit
  <2> HIDE DEF own
  <2>5. /\ DOMAIN new = DOMAIN ws.evidence \cup DOMAIN own
        /\ \A id \in DOMAIN own : new[id] = own[id]
        /\ \A id \in DOMAIN ws.evidence \ DOMAIN own : new[id] = ws.evidence[id]
        /\ new = [id \in DOMAIN new |-> new[id]]
    BY MergeFits
  <2> HIDE DEF new
  <2>6. new \in Evidences(Ids)
    <3>1. /\ DOMAIN ws.evidence \subseteq Ids /\ "own" \in Ids
          /\ \A id \in DOMAIN ws.evidence : ws.evidence[id] \in Items
      BY <2>3, EvidenceFits DEF Ids
    <3>2. DOMAIN new \subseteq Ids /\ \A id \in DOMAIN new : new[id] \in Items
      BY <2>1, <2>2, <2>5, <3>1
    <3> QED
      BY <2>5, <3>2, EvidenceFits
  <2>7. Named(new)
    BY <1>1, <2>1, <2>2, <2>5 DEF Named
  <2>8. DOMAIN new \subseteq {"own"} \cup Declarable \cup ws.managed
    BY <2>2, <2>5 DEF Tidy
  <2> QED
    BY <1>1, <2>4, <2>6, <2>7, <2>8 DEF Tidy, Workspace
<1>7. ASSUME NEW r \in Recipes, EditScript(r) PROVE Tidy(ws') /\ UNCHANGED <<build, baseline, place>>
  <2> DEFINE new == [ws.script EXCEPT ![r] = @ + 1]
  <2>1. new \in [Recipes -> 0..2]
    <3>1. ws.script \in [Recipes -> 0..2] /\ ws.script[r] < 2
      BY <1>1, <1>7 DEF Workspace, EditScript
    <3>2. ws.script[r] + 1 \in 0..2
      BY <3>1
    <3> QED
      BY <3>1, <3>2
  <2>2. ws' = [ws EXCEPT !.script = new] /\ UNCHANGED <<build, baseline, place>>
    BY <1>7 DEF EditScript, Edit
  <2> HIDE DEF new
  <2> QED
    BY <1>1, <2>1, <2>2 DEF Tidy, Workspace
<1>8. ASSUME NEW r \in Recipes, EditArgs(r) PROVE Tidy(ws') /\ UNCHANGED <<build, baseline, place>>
  <2> DEFINE new == [ws.args EXCEPT ![r] = @ + 1]
  <2>1. new \in [Recipes -> Nat]
    BY <1>1 DEF Workspace
  <2>2. ws' = [ws EXCEPT !.args = new] /\ UNCHANGED <<build, baseline, place>>
    BY <1>8 DEF EditArgs, Edit
  <2> HIDE DEF new
  <2> QED
    BY <1>1, <2>1, <2>2 DEF Tidy, Workspace
<1>9. ASSUME NEW r \in Recipes, DeleteOutputs(r) PROVE Tidy(ws') /\ UNCHANGED <<build, baseline, place>>
  BY <1>1, <1>9 DEF DeleteOutputs, Edit, Tidy, Workspace, Figures
<1>10. ASSUME NEW S \in SUBSET Calcs, EditCalcs(S) PROVE Tidy(ws') /\ UNCHANGED <<build, baseline, place>>
  BY <1>1, <1>10, NoneIsNew DEF EditCalcs, Edit, Tidy, Workspace
<1>11. ASSUME NEW S \in SUBSET Calcs, AttachDiagnostics(S)
       PROVE  Tidy(ws') /\ UNCHANGED <<build, baseline>> /\ place' = "copy"
  BY <1>11, AttachFits DEF AttachDiagnostics, Fresh
<1>12. ASSUME NEW id \in {"mean", "t1", "own"} \cup Calcs, Round(id)
       PROVE  Tidy(ws') /\ UNCHANGED <<build, baseline, place>>
  <2> DEFINE e == ws.evidence
             new == [e EXCEPT ![id] = [@ EXCEPT !.places = 1]]
  <2>1. e \in Evidences(Ids) /\ id \in DOMAIN e
    BY <1>1, <1>12 DEF Workspace, Round
  <2>2. ws' = [ws EXCEPT !.evidence = new] /\ UNCHANGED <<build, baseline, place>>
    BY <1>12 DEF Round, Edit
  <2>3. Named(e) /\ DOMAIN e \subseteq {"own"} \cup Declarable \cup ws.managed
    BY DEF Tidy
  <2> HIDE DEF e
  <2>4. /\ DOMAIN new = DOMAIN e /\ new = [x \in DOMAIN new |-> new[x]]
        /\ \A x \in DOMAIN e \ {id} : new[x] = e[x]
        /\ new[id] = [e[id] EXCEPT !.places = 1]
    BY <2>1, EvidenceFits
  <2>5. [e[id] EXCEPT !.places = 1] \in Items /\ [e[id] EXCEPT !.places = 1].calc = e[id].calc
    BY <2>1, EvidenceFits DEF Items
  <2> HIDE DEF new
  <2>6. new \in Evidences(Ids)
    BY <2>1, <2>4, <2>5, EvidenceFits
  <2>7. Named(new)
    BY <2>1, <2>3, <2>4, <2>5 DEF Named
  <2> QED
    BY <1>1, <2>2, <2>3, <2>4, <2>6, <2>7 DEF Tidy, Workspace
<1>13. ASSUME NEW name \in {"e1", "alias"} \cup Calcs, Use(name)
       PROVE  Tidy(ws') /\ UNCHANGED <<build, baseline, place>>
  BY <1>1, <1>13 DEF Use, Edit, Tidy, Workspace, Ids, Declarable
<1>14. ASSUME NEW id \in {"mean", "own"}, Alias(id)
       PROVE  Tidy(ws') /\ UNCHANGED <<build, baseline, place>>
  <2> DEFINE alias == [a \in {"alias"} |-> id]
             new == Merge(ws.bind, alias)
  <2>1. DOMAIN alias = {"alias"} /\ alias["alias"] = id /\ id \in Ids
    BY DEF Ids, Declarable
  <2>2. ws' = [ws EXCEPT !.bind = new] /\ UNCHANGED <<build, baseline, place>>
    BY <1>14 DEF Alias, Edit
  <2>3. ws.bind \in Bindings(Ids)
    BY <1>1 DEF Workspace
  <2> HIDE DEF alias
  <2>4. /\ DOMAIN new = DOMAIN ws.bind \cup DOMAIN alias
        /\ \A x \in DOMAIN alias : new[x] = alias[x]
        /\ \A x \in DOMAIN ws.bind \ DOMAIN alias : new[x] = ws.bind[x]
        /\ new = [x \in DOMAIN new |-> new[x]]
    BY MergeFits
  <2> HIDE DEF new
  <2>5. new \in Bindings(Ids)
    BY <2>1, <2>3, <2>4, BindingFits
  <2> QED
    BY <1>1, <2>2, <2>5 DEF Tidy, Workspace
<1>15. ASSUME NEW f \in Figures, View(f) PROVE Tidy(ws') /\ UNCHANGED <<build, baseline, place>>
  BY <1>1, <1>15 DEF View, Edit, Tidy, Workspace
<1>16. ASSUME NEW replace \in BOOLEAN, NEW seen \in BOOLEAN, AttachFigure(replace, seen)
       PROVE  Tidy(ws') /\ UNCHANGED <<build, baseline>> /\ place' = "copy"
  <2> DEFINE art == Append(ws.art, Len(ws.art) + 1)
             image == <<"art", Len(ws.art) + 1>>
             note == IF seen THEN image ELSE None
  <2>1. /\ art \in Seq(Nat) /\ image \in Image /\ note \in Image \cup {None}
        /\ ws' = [ws EXCEPT !.art = art, !.image = [ws.image EXCEPT !["imported"] = image],
                            !.viewed = [ws.viewed EXCEPT !["imported"] = seen],
                            !.seen = [ws.seen EXCEPT !["imported"] = note],
                            !.late = ws.late \ {"imported"}]
    BY <1>1, <1>16, ArtFits
  <2> HIDE DEF art, image, note
  <2> DEFINE images == [ws.image EXCEPT !["imported"] = image]
             views == [ws.viewed EXCEPT !["imported"] = seen]
             notes == [ws.seen EXCEPT !["imported"] = note]
             late == ws.late \ {"imported"}
  <2>2. /\ images \in [Figures -> Image \cup {None}] /\ views \in [Figures -> BOOLEAN]
        /\ notes \in [Figures -> Image \cup {None}] /\ late \subseteq Figures
    BY <1>1, <2>1 DEF Workspace, Figures
  <2>3. UNCHANGED <<build, baseline>> /\ place' = "copy"
    BY <1>16 DEF AttachFigure, Fresh
  <2>4. ws' = [ws EXCEPT !.art = art, !.image = images, !.viewed = views, !.seen = notes,
                         !.late = late]
    BY <2>1
  <2> HIDE DEF images, views, notes, late
  <2> QED
    BY <1>1, <2>1, <2>2, <2>3, <2>4 DEF Tidy, Workspace
<1> QED
  BY <1>2, <1>3, <1>4, <1>5, <1>6, <1>7, <1>8, <1>9, <1>10, <1>11, <1>12, <1>13, <1>14, <1>15,
     <1>16 DEF HostEdits, Edit, EditStudy, ChangeThresholds, EditDefinition, EditData, OwnEvidence

LEMMA PreparedFits ==
  Tidy(Prepared)
<1> DEFINE study == [aim |-> 0, two |-> FALSE]
           evidence == Declared(study)
           bind == [id \in DOMAIN evidence |-> id]
           w == [study |-> study, text |-> 0, data |-> 0,
                 calcs |-> None, managed |-> {}, evidence |-> evidence,
                 bind |-> bind, uses |-> {"mean"},
                 script |-> [r \in Recipes |-> 0], args |-> [r \in Recipes |-> 0],
                 image |-> [f \in Figures |-> None], viewed |-> [f \in Figures |-> FALSE],
                 seen |-> [f \in Figures |-> None], lost |-> {}, late |-> {}, art |-> <<>>,
                 state |-> None]
<1>1. study \in Study
  BY DEF Study
<1>2. evidence \in Evidences(Ids) /\ Named(evidence) /\ DOMAIN evidence \subseteq Declarable
  BY <1>1, DeclaredFits
<1> HIDE DEF study, evidence
<1>3. bind \in Bindings(Ids)
  <2>1. bind = [x \in DOMAIN bind |-> bind[x]] /\ DOMAIN bind = DOMAIN evidence
        /\ \A x \in DOMAIN bind : bind[x] = x
    OBVIOUS
  <2> HIDE DEF bind
  <2> QED
    BY <1>2, <2>1, BindingFits DEF Ids
<1> HIDE DEF bind
<1>4. /\ w \in Workspace(Ids) /\ w.evidence = evidence /\ w.calcs = None /\ w.managed = {}
      /\ w.image = [f \in Figures |-> None]
  BY <1>1, <1>2, <1>3 DEF Workspace, Ids, Declarable
<1>5. Drawing(w, "surface") \in Image
  BY <1>4, RegisteredFits
<1>6. Prepared = [w EXCEPT !.image = [w.image EXCEPT !["surface"] = Drawing(w, "surface")]]
  BY DEF Prepared, study, evidence, bind
<1> HIDE DEF w
<1>7. [w.image EXCEPT !["surface"] = Drawing(w, "surface")] \in [Figures -> Image \cup {None}]
  BY <1>4, <1>5
<1>8. Prepared \in Workspace(Ids) /\ Prepared.evidence = evidence /\ Prepared.managed = {}
  BY <1>4, <1>6, <1>7 DEF Workspace
<1> QED
  BY <1>2, <1>8 DEF Tidy

(* The inductive invariant: tidy workspaces, settled builds, and a review  *)
(* whenever one was due.                                                   *)
Sound ==
  /\ Tidy(ws)
  /\ build # None => Built(build)
  /\ baseline # None => Built(baseline)
  /\ place = "inplace" => build # None
  /\ ReviewIsAsked

Base(against) == IF against THEN build ELSE None
OldOf(against) == IF against THEN Old ELSE None
Candidate(authored) == IF authored THEN build.ws ELSE None

LEMMA BuildStep ==
  ASSUME Sound, NEW against \in BOOLEAN, NEW authored \in BOOLEAN, Build(against, authored)
  PROVE  /\ build' = BuildOf(ws, Base(against), OldOf(against), Candidate(authored))
         /\ BuildOf(ws, Base(against), OldOf(against), Candidate(authored)) # None
         /\ baseline' = Base(against)
         /\ against \/ authored => build # None
         /\ place' \in Policies /\ ws' = IF place' = "stays" THEN ws ELSE build'.ws
         /\ Candidate(authored) = None \/ Candidate(authored) \in Workspace(Ids)
         /\ against => Base(against) # None /\ Built(Base(against)) /\ OldOf(against) \in Workspace(Ids)
<1>1. /\ build' = BuildOf(ws, Base(against), OldOf(against), Candidate(authored))
      /\ BuildOf(ws, Base(against), OldOf(against), Candidate(authored)) # None
      /\ baseline' = Base(against)
      /\ against \/ authored => build # None
      /\ place' \in Policies /\ ws' = IF place' = "stays" THEN ws ELSE build'.ws
  BY DEF Build, Base, OldOf, Candidate
<1>2. ws \in Workspace(Ids) /\ (build # None => build.ws \in Workspace(Ids))
  BY DEF Sound, Tidy, Built
<1>3. build # None => Built(build)
  BY DEF Sound
<1>4. against => Base(against) # None /\ Built(Base(against)) /\ OldOf(against) \in Workspace(Ids)
  BY <1>1, <1>2, <1>3 DEF Base, OldOf, Old
<1>5. Candidate(authored) = None \/ Candidate(authored) \in Workspace(Ids)
  BY <1>1, <1>2 DEF Candidate
<1> QED
  BY <1>1, <1>4, <1>5

LEMMA SoundHolds ==
  Spec => []Sound
<1>1. Init => Sound
  BY PreparedFits DEF Init, Sound, ReviewIsAsked
<1>2. Sound /\ [Next]_vars => Sound'
  <2> SUFFICES ASSUME Sound, [Next]_vars PROVE Sound'
    OBVIOUS
  <2>1. CASE HostEdits
    <3>1. /\ Tidy(ws') /\ build' = build /\ baseline' = baseline
          /\ place' = place \/ place' = "copy"
      BY <2>1, EditsStayTidy DEF Sound
    <3>2. ReviewIsAsked'
      BY <3>1 DEF Sound, ReviewIsAsked
    <3> QED
      BY <3>1, <3>2 DEF Sound
  <2>2. ASSUME NEW against \in BOOLEAN, NEW authored \in BOOLEAN, Build(against, authored)
        PROVE  Sound'
    <3> DEFINE base == Base(against)
               old == OldOf(against)
               candidate == Candidate(authored)
               b == BuildOf(ws, base, old, candidate)
    <3>1. /\ build' = b /\ b # None /\ baseline' = base
          /\ ws' = ws \/ ws' = b.ws
          /\ candidate = None \/ candidate \in Workspace(Ids)
          /\ against => base # None /\ Built(base) /\ old \in Workspace(Ids)
      BY <2>2, BuildStep
    <3>2. Built(b)
      BY <3>1, BuildFits DEF Sound
    <3>3. ~ against => base = None
      BY DEF Base
    <3>4. ASSUME base # None
          PROVE  b.review <=> \/ Definitions(b.ws) # Definitions(base.ws)
                              \/ b.ws.data # base.ws.data
                              \/ b.ws.evidence # base.ws.evidence
                              \/ b.ws.bind # base.ws.bind
      BY <3>1, <3>3, <3>4, ReviewFits DEF Sound
    <3>5. baseline' # None => Built(baseline')
      BY <3>1, <3>3
    <3> HIDE DEF base, old, candidate, b
    <3>6. ReviewIsAsked'
      BY <3>1, <3>4 DEF ReviewIsAsked
    <3>7. Tidy(ws')
      BY <3>1, <3>2 DEF Sound, Built
    <3> QED
      BY <3>1, <3>2, <3>5, <3>6, <3>7 DEF Sound
  <2>3. CASE UNCHANGED vars
    <3>1. ws' = ws /\ build' = build /\ baseline' = baseline /\ place' = place
      BY <2>3 DEF vars
    <3> QED
      BY <3>1 DEF Sound, ReviewIsAsked
  <2> QED
    BY <2>1, <2>2, <2>3 DEF Next
<1> QED
  BY <1>1, <1>2, PTL DEF Spec

(* A build has exactly the evidence its study and diagnostics declare and  *)
(* the author's own, and to build it again changes nothing (BuildOf).      *)
THEOREM BuildsAreSettled ==
  Spec => []BuildIsSettled
<1>1. ASSUME Sound PROVE BuildIsSettled
  <2>1. SUFFICES ASSUME build # None PROVE BuildIsSettled
    BY DEF BuildIsSettled
  <2>2. Built(build) /\ Settled(build.ws) /\ Assembles(build.ws)
    BY <1>1, <2>1 DEF Sound, Built
  <2>3. DOMAIN build.ws.evidence \ {"own"} = DOMAIN Declared(build.ws.study)
          \cup (IF build.ws.calcs = None THEN {} ELSE build.ws.calcs)
    BY <2>2 DEF Settled, Declares
  <2>4. LET again == BuildOf(build.ws, build, build.ws, None)
        IN  again # None /\ again.ws = build.ws /\ again.run = {} /\ ~ again.review
    BY <2>1, <2>2, BuildAgain
  <2>5. ASSUME NEW id \in DOMAIN build.ws.evidence, NEW name \in build.ws.uses,
               build.ws.bind[name] = Owner(build.ws, id)
        PROVE  name \in Passages(build.ws, id)
    BY <2>2, <2>5 DEF Assembles, Passages, Owner
  <2> QED
    BY <2>3, <2>4, <2>5 DEF BuildIsSettled
<1> QED
  BY <1>1, SoundHolds, PTL

LEMMA PrefixFits ==
  ASSUME NEW s \in Seq(Nat)
  PROVE  IsPrefix(s, s)
BY DEF IsPrefix

LEMMA EditsKeepArt ==
  ASSUME Tidy(ws), HostEdits
  PROVE  IsPrefix(ws.art, ws'.art)
<1>1. ws \in Workspace(Ids) /\ ws.art \in Seq(Nat) /\ IsPrefix(ws.art, ws.art)
  BY PrefixFits DEF Tidy, Workspace
<1>2. CASE EditStudy
  BY <1>1, <1>2 DEF EditStudy, Edit, Workspace
<1>3. CASE ChangeThresholds
  BY <1>1, <1>3 DEF ChangeThresholds, Edit, Workspace
<1>4. CASE EditDefinition
  BY <1>1, <1>4 DEF EditDefinition, Edit, Workspace
<1>5. CASE EditData
  BY <1>1, <1>5 DEF EditData, Edit, Workspace
<1>6. CASE OwnEvidence
  BY <1>1, <1>6 DEF OwnEvidence, Edit, Workspace
<1>7. ASSUME NEW r \in Recipes, EditScript(r) \/ EditArgs(r) \/ DeleteOutputs(r)
      PROVE  IsPrefix(ws.art, ws'.art)
  BY <1>1, <1>7 DEF EditScript, EditArgs, DeleteOutputs, Edit, Workspace
<1>8. ASSUME NEW S \in SUBSET Calcs, EditCalcs(S) PROVE IsPrefix(ws.art, ws'.art)
  BY <1>1, <1>8 DEF EditCalcs, Edit, Workspace
<1>9. ASSUME NEW S \in SUBSET Calcs, AttachDiagnostics(S) PROVE IsPrefix(ws.art, ws'.art)
  <2> DEFINE t == [ws EXCEPT !.calcs = S, !.managed = S]
             m == SyncDiagnostics(t)
             drawing == Drawing(m, "diagnostics")
  <2>1. /\ Beside(m, t) /\ m \in Workspace(Ids) /\ t.art = ws.art
        /\ ws' = [m EXCEPT !.image["diagnostics"] = drawing, !.viewed["diagnostics"] = FALSE]
    BY <1>9, AttachFits
  <2>2. m.art = t.art
    BY <2>1 DEF Beside
  <2> HIDE DEF t, m, drawing
  <2>3. ws'.art = m.art
    BY <2>1 DEF Workspace
  <2> QED
    BY <1>1, <2>1, <2>2, <2>3
<1>10. ASSUME NEW id, Round(id) \/ Use(id) \/ Alias(id) PROVE IsPrefix(ws.art, ws'.art)
  BY <1>1, <1>10 DEF Round, Use, Alias, Edit, Workspace
<1>11. ASSUME NEW f \in Figures, View(f) PROVE IsPrefix(ws.art, ws'.art)
  BY <1>1, <1>11 DEF View, Edit, Workspace
<1>12. ASSUME NEW replace \in BOOLEAN, NEW seen \in BOOLEAN, AttachFigure(replace, seen)
       PROVE  IsPrefix(ws.art, ws'.art)
  <2> DEFINE art == Append(ws.art, Len(ws.art) + 1)
             image == <<"art", Len(ws.art) + 1>>
             note == IF seen THEN image ELSE None
  <2>1. /\ IsPrefix(ws.art, art)
        /\ ws' = [ws EXCEPT !.art = art, !.image = [ws.image EXCEPT !["imported"] = image],
                            !.viewed = [ws.viewed EXCEPT !["imported"] = seen],
                            !.seen = [ws.seen EXCEPT !["imported"] = note],
                            !.late = ws.late \ {"imported"}]
    BY <1>1, <1>12, ArtFits
  <2> HIDE DEF art, image, note
  <2> QED
    BY <1>1, <2>1 DEF Workspace
<1> QED
  BY <1>2, <1>3, <1>4, <1>5, <1>6, <1>7, <1>8, <1>9, <1>10, <1>11, <1>12 DEF HostEdits

(* A build keeps the author's evidence, aliases and rounding; no step      *)
(* replaces artwork that is there (SyncDiagnostics, SyncDefinitions,       *)
(* RetainPlaces, ArtBeside).                                               *)
THEOREM AuthorsWorkIsKept ==
  Spec => AuthorKept
<1> DEFINE Rest == build' # build =>
             /\ "own" \in DOMAIN ws.evidence => build'.ws.evidence["own"] = ws.evidence["own"]
             /\ "alias" \in DOMAIN ws.bind => build'.ws.bind["alias"] = ws.bind["alias"]
             /\ \A id \in DOMAIN ws.evidence \cap DOMAIN build'.ws.evidence :
                  ws.evidence[id].calc # "params" =>
                    build'.ws.evidence[id].places = ws.evidence[id].places
           Kind == IsPrefix(ws.art, ws'.art) /\ Rest
<1>1. ASSUME Sound, [Next]_vars PROVE [Kind]_vars
  <2>1. CASE HostEdits
    BY <1>1, <2>1, EditsStayTidy, EditsKeepArt DEF Sound
  <2>2. ASSUME NEW against \in BOOLEAN, NEW authored \in BOOLEAN, Build(against, authored)
        PROVE  Kind
    <3> DEFINE base == Base(against)
               old == OldOf(against)
               candidate == Candidate(authored)
               b == BuildOf(ws, base, old, candidate)
    <3>1. /\ build' = b /\ b # None /\ (ws' = ws \/ ws' = b.ws)
          /\ candidate = None \/ candidate \in Workspace(Ids)
      BY <1>1, <2>2, BuildStep
    <3>2. TakenOver(b.ws, ws, candidate)
      BY <1>1, <3>1, BuildFits DEF Sound
    <3> HIDE DEF b
    <3>3. IsPrefix(ws.art, ws.art) /\ Named(ws.evidence)
      BY <1>1, PrefixFits DEF Sound, Tidy, Workspace
    <3>4. IsPrefix(ws.art, ws'.art)
      BY <3>1, <3>2, <3>3 DEF TakenOver
    <3>5. /\ "own" \in DOMAIN ws.evidence => b.ws.evidence["own"] = ws.evidence["own"]
          /\ "alias" \in DOMAIN ws.bind => b.ws.bind["alias"] = ws.bind["alias"]
      BY <3>2 DEF TakenOver, CalcOf
    <3>6. ASSUME NEW id \in DOMAIN ws.evidence \cap DOMAIN b.ws.evidence,
                 ws.evidence[id].calc # "params"
          PROVE  b.ws.evidence[id].places = ws.evidence[id].places
      BY <3>2, <3>3, <3>6 DEF TakenOver, Named
    <3> QED
      BY <3>1, <3>4, <3>5, <3>6
  <2> QED
    BY <1>1, <2>1, <2>2 DEF Next
<1> QED
  BY <1>1, SoundHolds, PTL DEF Spec, AuthorKept

-----------------------------------------------------------------------------
(* When the host goes on from the build, the figures it has are the        *)
(* build's or gone.                                                        *)
Follows ==
  build # None =>
    /\ FiguresFollowSources
    /\ Registered(build.ws) \subseteq Registered(ws)
    /\ \A r \in Registered(build.ws) : ws.image[r] \in {None, build.ws.image[r]}
    /\ place = "inplace" => ws.args = build.ws.args /\ Registered(ws) = Registered(build.ws)

(* What a note is worth in a workspace.                                    *)
Noted(w) ==
  /\ \A f \in Figures \ (w.lost \cup w.late) :
       w.viewed[f] => w.seen[f] = w.image[f] /\ w.image[f] # None
  /\ w.calcs = None => ~ w.viewed["diagnostics"] /\ w.image["diagnostics"] = None

(* A note of the build stays with the host until the host views again.     *)
Notes ==
  /\ Noted(ws)
  /\ build # None =>
       /\ Noted(build.ws)
       /\ ws.calcs = None => build.ws.calcs = None
       /\ \A r \in Recipes : build.ws.viewed[r] => ws.viewed[r]
       /\ \A r \in build.ws.lost \ ws.lost : ~ build.ws.viewed[r]

(* What an edit of the host does to figures and notes.                     *)
Quiet(x, w) ==
  /\ x.image = w.image /\ x.viewed = w.viewed /\ x.seen = w.seen /\ x.lost = w.lost
  /\ x.late = w.late /\ (x.calcs = None <=> w.calcs = None)
Removes(x, w, r) ==
  /\ x.image = [w.image EXCEPT ![r] = None] /\ x.lost = w.lost \cup {r}
  /\ x.viewed = w.viewed /\ x.seen = w.seen /\ x.late = w.late /\ x.calcs = w.calcs
Views(x, w, f) ==
  /\ w.image[f] # None /\ ~ w.viewed[f] /\ x.image = w.image /\ x.lost = w.lost \ {f}
  /\ x.late = w.late \ {f}
  /\ x.viewed = [w.viewed EXCEPT ![f] = TRUE]
  /\ x.seen = [w.seen EXCEPT ![f] = w.image[f]] /\ x.calcs = w.calcs
Attaches(x, w) ==
  /\ w.calcs = None /\ x.calcs # None /\ x.seen = w.seen /\ x.lost = w.lost /\ x.late = w.late
  /\ x.viewed = [w.viewed EXCEPT !["diagnostics"] = FALSE]
  /\ \E i \in Image : x.image = [w.image EXCEPT !["diagnostics"] = i]
Brings(x, w, seen) ==
  /\ x.calcs = w.calcs /\ x.lost = w.lost /\ x.late = w.late \ {"imported"}
  /\ x.image = [w.image EXCEPT !["imported"] = <<"art", x.art[Len(x.art)]>>]
  /\ <<"art", x.art[Len(x.art)]>> \in Image
  /\ x.viewed = [w.viewed EXCEPT !["imported"] = seen]
  /\ x.seen = [w.seen EXCEPT !["imported"] = IF seen THEN <<"art", x.art[Len(x.art)]>> ELSE None]

LEMMA EditForms ==
  ASSUME Tidy(ws), HostEdits
  PROVE  \/ /\ \/ Quiet(ws', ws) /\ (ws'.args = ws.args \/ place = "copy")
               \/ ws'.args = ws.args /\ \E r \in Recipes : Removes(ws', ws, r)
               \/ ws'.args = ws.args /\ \E f \in Figures : Views(ws', ws, f)
            /\ place' = place
         \/ Attaches(ws', ws) /\ place' = "copy"
         \/ (\E seen \in BOOLEAN : Brings(ws', ws, seen)) /\ place' = "copy"
<1>1. ws \in Workspace(Ids)
  BY DEF Tidy
<1>2. CASE EditStudy
  BY <1>1, <1>2 DEF EditStudy, Edit, Workspace, Quiet
<1>3. CASE ChangeThresholds
  BY <1>1, <1>3 DEF ChangeThresholds, Edit, Workspace, Quiet
<1>4. CASE EditDefinition
  BY <1>1, <1>4 DEF EditDefinition, Edit, Workspace, Quiet
<1>5. CASE EditData
  BY <1>1, <1>5 DEF EditData, Edit, Workspace, Quiet
<1>6. CASE OwnEvidence
  BY <1>1, <1>6 DEF OwnEvidence, Edit, Workspace, Quiet
<1>7. ASSUME NEW r \in Recipes, EditScript(r)
      PROVE  Quiet(ws', ws) /\ ws'.args = ws.args /\ place' = place
  BY <1>1, <1>7 DEF EditScript, Edit, Workspace, Quiet
<1>8. ASSUME NEW r \in Recipes, EditArgs(r)
      PROVE  Quiet(ws', ws) /\ place = "copy" /\ place' = place
  BY <1>1, <1>8 DEF EditArgs, Edit, Workspace, Quiet
<1>9. ASSUME NEW r \in Recipes, DeleteOutputs(r)
      PROVE  Removes(ws', ws, r) /\ ws'.args = ws.args /\ place' = place
  BY <1>1, <1>9 DEF DeleteOutputs, Edit, Workspace, Removes
<1>10. ASSUME NEW S \in SUBSET Calcs, EditCalcs(S)
       PROVE  Quiet(ws', ws) /\ ws'.args = ws.args /\ place' = place
  BY <1>1, <1>10, NoneIsNew DEF EditCalcs, Edit, Workspace, Quiet
<1>11. ASSUME NEW S \in SUBSET Calcs, AttachDiagnostics(S)
       PROVE  Attaches(ws', ws) /\ place' = "copy"
  <2> DEFINE t == [ws EXCEPT !.calcs = S, !.managed = S]
             m == SyncDiagnostics(t)
             drawing == Drawing(m, "diagnostics")
  <2>1. /\ Beside(m, t) /\ m \in Workspace(Ids) /\ t.calcs = S
        /\ t.image = ws.image /\ t.viewed = ws.viewed /\ t.seen = ws.seen /\ t.lost = ws.lost
        /\ t.late = ws.late /\ drawing \in Image /\ ws.calcs = None /\ S # None
        /\ ws' = [m EXCEPT !.image["diagnostics"] = drawing, !.viewed["diagnostics"] = FALSE]
    BY <1>11, AttachFits
  <2>2. /\ m.calcs = S /\ m.image = ws.image /\ m.viewed = ws.viewed /\ m.seen = ws.seen
        /\ m.lost = ws.lost /\ m.late = ws.late
    BY <2>1 DEF Beside
  <2> HIDE DEF t, m, drawing
  <2>3. /\ ws'.calcs = S /\ ws'.seen = ws.seen /\ ws'.lost = ws.lost /\ ws'.late = ws.late
        /\ ws'.viewed = [ws.viewed EXCEPT !["diagnostics"] = FALSE]
        /\ ws'.image = [ws.image EXCEPT !["diagnostics"] = drawing]
    BY <2>1, <2>2 DEF Workspace
  <2>4. place' = "copy"
    BY <1>11 DEF AttachDiagnostics, Fresh
  <2> QED
    BY <2>1, <2>3, <2>4 DEF Attaches
<1>12. ASSUME NEW id, Round(id) \/ Use(id) \/ Alias(id)
       PROVE  Quiet(ws', ws) /\ ws'.args = ws.args /\ place' = place
  BY <1>1, <1>12 DEF Round, Use, Alias, Edit, Workspace, Quiet
<1>13. ASSUME NEW f \in Figures, View(f)
       PROVE  Views(ws', ws, f) /\ ws'.args = ws.args /\ place' = place
  BY <1>1, <1>13 DEF View, Edit, Workspace, Views
<1>14. ASSUME NEW replace \in BOOLEAN, NEW seen \in BOOLEAN, AttachFigure(replace, seen)
       PROVE  Brings(ws', ws, seen) /\ place' = "copy"
  <2> DEFINE art == Append(ws.art, Len(ws.art) + 1)
             image == <<"art", Len(ws.art) + 1>>
             note == IF seen THEN image ELSE None
  <2>1. /\ art \in Seq(Nat) /\ image \in Image /\ art[Len(art)] = Len(ws.art) + 1
        /\ ws' = [ws EXCEPT !.art = art, !.image = [ws.image EXCEPT !["imported"] = image],
                            !.viewed = [ws.viewed EXCEPT !["imported"] = seen],
                            !.seen = [ws.seen EXCEPT !["imported"] = note],
                            !.late = ws.late \ {"imported"}]
    BY <1>1, <1>14, ArtFits
  <2>2. <<"art", art[Len(art)]>> = image
    BY <2>1
  <2> HIDE DEF art, image
  <2>3. /\ ws'.calcs = ws.calcs /\ ws'.lost = ws.lost /\ ws'.art = art
        /\ ws'.late = ws.late \ {"imported"}
        /\ ws'.image = [ws.image EXCEPT !["imported"] = image]
        /\ ws'.viewed = [ws.viewed EXCEPT !["imported"] = seen]
        /\ ws'.seen = [ws.seen EXCEPT !["imported"] = note]
    BY <1>1, <2>1 DEF Workspace
  <2>4. place' = "copy"
    BY <1>14 DEF AttachFigure, Fresh
  <2> QED
    BY <2>1, <2>2, <2>3, <2>4 DEF Brings
<1> QED
  BY <1>2, <1>3, <1>4, <1>5, <1>6, <1>7, <1>8, <1>9, <1>10, <1>11, <1>12, <1>13, <1>14
  DEF HostEdits, Edit, EditStudy, ChangeThresholds, EditDefinition, EditData, OwnEvidence

LEMMA EditsFollow ==
  ASSUME Tidy(ws), HostEdits, build # None => Built(build), Follows
  PROVE  Follows'
<1>1. /\ build' = build /\ Tidy(ws')
  BY EditsStayTidy
<1>2. FiguresFollowSources => FiguresFollowSources'
  BY <1>1 DEF FiguresFollowSources
<1>3. SUFFICES ASSUME build # None
               PROVE  /\ Registered(build.ws) \subseteq Registered(ws')
                      /\ \A r \in Registered(build.ws) : ws'.image[r] \in {None, build.ws.image[r]}
                      /\ place' = "inplace" => /\ ws'.args = build.ws.args
                                               /\ Registered(ws') = Registered(build.ws)
  BY <1>1, <1>2 DEF Follows
<1>4. /\ Registered(build.ws) \subseteq Registered(ws)
      /\ \A r \in Registered(build.ws) : ws.image[r] \in {None, build.ws.image[r]}
      /\ place = "inplace" => ws.args = build.ws.args /\ Registered(ws) = Registered(build.ws)
  BY <1>3 DEF Follows
<1>5. ws \in Workspace(Ids) /\ ws.image \in [Figures -> Image \cup {None}]
  BY DEF Tidy, Workspace
<1>6. CASE Quiet(ws', ws) /\ (ws'.args = ws.args \/ place = "copy") /\ place' = place
  <2>1. Registered(ws') = Registered(ws) /\ ws'.image = ws.image
    BY <1>6 DEF Quiet, Registered
  <2>2. place = "copy" => place # "inplace"
    OBVIOUS
  <2> QED
    BY <1>4, <1>6, <2>1, <2>2
<1>7. ASSUME NEW r \in Recipes, Removes(ws', ws, r), ws'.args = ws.args, place' = place
      PROVE  /\ Registered(build.ws) \subseteq Registered(ws')
             /\ \A q \in Registered(build.ws) : ws'.image[q] \in {None, build.ws.image[q]}
             /\ place' = "inplace" => ws'.args = build.ws.args /\ Registered(ws') = Registered(build.ws)
  <2>1. Registered(ws') = Registered(ws)
    BY <1>7 DEF Removes, Registered
  <2>2. \A q \in Figures : ws'.image[q] = None \/ ws'.image[q] = ws.image[q]
    BY <1>5, <1>7 DEF Removes
  <2>3. Registered(build.ws) \subseteq Figures
    BY DEF Registered, Recipes, Figures
  <2> QED
    BY <1>4, <1>7, <2>1, <2>2, <2>3
<1>8. ASSUME NEW f \in Figures, Views(ws', ws, f), ws'.args = ws.args, place' = place
      PROVE  /\ Registered(build.ws) \subseteq Registered(ws')
             /\ \A q \in Registered(build.ws) : ws'.image[q] \in {None, build.ws.image[q]}
             /\ place' = "inplace" => ws'.args = build.ws.args /\ Registered(ws') = Registered(build.ws)
  <2>1. Registered(ws') = Registered(ws) /\ ws'.image = ws.image
    BY <1>8 DEF Views, Registered
  <2> QED
    BY <1>4, <1>8, <2>1
<1>9. CASE Attaches(ws', ws) /\ place' = "copy"
  <2>1. Registered(ws) = {"surface"} /\ Registered(ws') = Recipes
    BY <1>9 DEF Attaches, Registered
  <2>2. ws'.image["surface"] = ws.image["surface"]
    BY <1>5, <1>9 DEF Attaches, Figures, Recipes
  <2> QED
    BY <1>4, <1>9, <2>1, <2>2 DEF Recipes
<1>10. ASSUME NEW seen \in BOOLEAN, Brings(ws', ws, seen), place' = "copy"
       PROVE  /\ Registered(build.ws) \subseteq Registered(ws')
              /\ \A q \in Registered(build.ws) : ws'.image[q] \in {None, build.ws.image[q]}
              /\ place' # "inplace"
  <2>1. Registered(ws') = Registered(ws)
    BY <1>10 DEF Brings, Registered
  <2>2. \A q \in Recipes : ws'.image[q] = ws.image[q]
    BY <1>5, <1>10 DEF Brings, Figures, Recipes
  <2>3. Registered(build.ws) \subseteq Recipes
    BY DEF Registered, Recipes
  <2> QED
    BY <1>4, <1>10, <2>1, <2>2, <2>3
<1> QED
  BY <1>6, <1>7, <1>8, <1>9, <1>10, EditForms

LEMMA BuildFollows ==
  ASSUME Sound, Follows, "stays" \notin Policies,
         NEW against \in BOOLEAN, NEW authored \in BOOLEAN, Build(against, authored)
  PROVE  Follows'
<1> DEFINE base == Base(against)
           old == OldOf(against)
           candidate == Candidate(authored)
           b == BuildOf(ws, base, old, candidate)
<1>1. /\ build' = b /\ b # None /\ ws' = b.ws
      /\ candidate = None \/ candidate \in Workspace(Ids)
      /\ against => build # None
  <2>1. /\ build' = b /\ b # None
        /\ against \/ authored => build # None
        /\ place' \in Policies /\ ws' = IF place' = "stays" THEN ws ELSE build'.ws
        /\ candidate = None \/ candidate \in Workspace(Ids)
    BY BuildStep
  <2> HIDE DEF base, old, candidate, b
  <2>2. place' # "stays"
    BY <2>1
  <2> QED
    BY <2>1, <2>2
<1>2. /\ Built(b) /\ b.run \subseteq Registered(b.ws)
      /\ \A r \in Registered(b.ws) \ b.run : StillGood(r, b.ws, ws, base, old)
      /\ \A f \in Figures : Shown(b, ws, candidate, f)
  BY <1>1, BuildFits DEF Sound
<1>3. base # None => against
  BY DEF Base
<1>4. against => base = build /\ old = Old
  BY DEF Base, OldOf
<1> HIDE DEF base, old, candidate, b
<1>5. ASSUME NEW r \in Registered(b.ws) PROVE b.ws.image[r] = Drawing(b.ws, r)
  <2>1. r \in Figures
    BY DEF Registered, Recipes, Figures
  <2>2. CASE r \in b.run
    BY <1>2, <2>1, <2>2 DEF Shown
  <2>3. CASE r \notin b.run
    <3>1. StillGood(r, b.ws, ws, base, old)
      BY <1>2, <1>5, <2>3
    <3>2. base = build /\ old = Old /\ build # None
      BY <1>1, <1>3, <1>4, <3>1 DEF StillGood
    <3>3. /\ ws.image[r] # None /\ r \in Registered(Old) /\ Old.args[r] = b.ws.args[r]
          /\ r \in DOMAIN build.inputs => build.inputs[r] = Inputs(b.ws, r)
      BY <3>1, <3>2 DEF StillGood
    <3>4. Registered(Old) = Registered(build.ws) /\ Old.args = build.ws.args
      BY <3>2 DEF Old, Follows
    <3>5. build.inputs = [q \in Registered(build.ws) |-> Inputs(build.ws, q)]
      BY <3>2 DEF Sound, Built
    <3>6. Drawing(b.ws, r) = Drawing(build.ws, r)
      BY <3>3, <3>4, <3>5 DEF Drawing
    <3>7. ws.image[r] = build.ws.image[r] /\ build.ws.image[r] = Drawing(build.ws, r)
      BY <3>2, <3>3, <3>4 DEF Follows, FiguresFollowSources
    <3>8. b.ws.image[r] = ws.image[r]
      BY <1>2, <2>1, <2>3 DEF Shown
    <3> QED
      BY <3>6, <3>7, <3>8
  <2> QED
    BY <2>2, <2>3
<1>6. FiguresFollowSources'
  BY <1>1, <1>5 DEF FiguresFollowSources
<1> QED
  BY <1>1, <1>6 DEF Follows

LEMMA FollowsHolds ==
  ASSUME "stays" \notin Policies
  PROVE  Spec => [](Sound /\ Follows)
<1>1. Init => Follows
  BY DEF Init, Follows
<1>2. Sound /\ Follows /\ [Next]_vars => Follows'
  <2> SUFFICES ASSUME Sound, Follows, [Next]_vars PROVE Follows'
    OBVIOUS
  <2>1. CASE HostEdits
    BY <2>1, EditsFollow DEF Sound
  <2>2. ASSUME NEW against \in BOOLEAN, NEW authored \in BOOLEAN, Build(against, authored)
        PROVE  Follows'
    BY <2>2, BuildFollows
  <2>3. CASE UNCHANGED vars
    BY <2>3 DEF vars, Follows, FiguresFollowSources
  <2> QED
    BY <2>1, <2>2, <2>3 DEF Next
<1> QED
  BY <1>1, <1>2, SoundHolds, PTL DEF Spec

(* A figure in a build was drawn by the script, the arguments and the      *)
(* sources that build retains, when the host goes on from each build       *)
(* (execute_figure_recipes).                                               *)
THEOREM FiguresAreDrawnFromSources ==
  ASSUME "stays" \notin Policies
  PROVE  Spec => []FiguresFollowSources
<1>1. Follows => FiguresFollowSources
  BY DEF Follows, FiguresFollowSources
<1> QED
  BY <1>1, FollowsHolds, PTL

LEMMA EditsAreNoted ==
  ASSUME Tidy(ws), HostEdits, Noted(ws)
  PROVE  /\ Noted(ws') /\ (ws'.calcs = None => ws.calcs = None)
         /\ \A r \in Recipes : ws.viewed[r] => ws'.viewed[r]
         /\ \A r \in ws.lost \ ws'.lost : ~ ws.viewed[r]
<1>1. /\ ws.image \in [Figures -> Image \cup {None}] /\ ws.viewed \in [Figures -> BOOLEAN]
      /\ ws.seen \in [Figures -> Image \cup {None}] /\ ws.lost \subseteq Recipes
      /\ ws.late \subseteq Figures
  BY DEF Tidy, Workspace
<1>2. Recipes \subseteq Figures /\ "imported" \in Figures /\ "imported" \notin Recipes
      /\ "diagnostics" \in Recipes
  BY DEF Figures, Recipes
<1>3. CASE Quiet(ws', ws)
  BY <1>3 DEF Quiet, Noted
<1>4. ASSUME NEW r \in Recipes, Removes(ws', ws, r)
      PROVE  /\ Noted(ws') /\ ws'.viewed = ws.viewed /\ ws.lost \subseteq ws'.lost
             /\ ws'.calcs = ws.calcs
  <2>1. /\ \A f \in Figures \ {r} : ws'.image[f] = ws.image[f]
        /\ ws'.image[r] = None /\ ws'.lost = ws.lost \cup {r} /\ ws'.late = ws.late
        /\ ws'.viewed = ws.viewed /\ ws'.seen = ws.seen /\ ws'.calcs = ws.calcs
    BY <1>1, <1>2, <1>4 DEF Removes
  <2> QED
    BY <1>2, <2>1 DEF Noted
<1>5. ASSUME NEW f \in Figures, Views(ws', ws, f)
      PROVE  /\ Noted(ws') /\ ws'.calcs = ws.calcs
             /\ \A r \in Recipes : ws.viewed[r] => ws'.viewed[r]
             /\ \A r \in ws.lost \ ws'.lost : ~ ws.viewed[r]
  <2>1. /\ ws.image[f] # None /\ ~ ws.viewed[f] /\ ws'.image = ws.image
        /\ ws'.lost = ws.lost \ {f} /\ ws'.late = ws.late \ {f}
        /\ ws'.viewed[f] = TRUE /\ ws'.seen[f] = ws.image[f]
        /\ \A g \in Figures \ {f} : ws'.viewed[g] = ws.viewed[g] /\ ws'.seen[g] = ws.seen[g]
        /\ ws'.calcs = ws.calcs
    BY <1>1, <1>5 DEF Views
  <2>2. \A g \in Figures \ (ws'.lost \cup ws'.late) :
          ws'.viewed[g] => ws'.seen[g] = ws'.image[g] /\ ws'.image[g] # None
    BY <2>1 DEF Noted
  <2>3. ws'.calcs = None => ~ ws'.viewed["diagnostics"] /\ ws'.image["diagnostics"] = None
    BY <1>2, <2>1 DEF Noted
  <2>4. Noted(ws')
    BY <2>2, <2>3 DEF Noted
  <2> QED
    BY <1>2, <2>1, <2>4
<1>6. CASE Attaches(ws', ws)
  <2>1. PICK i \in Image : ws'.image = [ws.image EXCEPT !["diagnostics"] = i]
    BY <1>6 DEF Attaches
  <2>2. /\ ws.calcs = None /\ ws'.calcs # None /\ ws'.seen = ws.seen /\ ws'.lost = ws.lost
        /\ ws'.late = ws.late /\ ~ ws'.viewed["diagnostics"]
        /\ \A f \in Figures \ {"diagnostics"} :
             ws'.viewed[f] = ws.viewed[f] /\ ws'.image[f] = ws.image[f]
    BY <1>1, <1>2, <1>6, <2>1 DEF Attaches
  <2>3. ~ ws.viewed["diagnostics"]
    BY <2>2 DEF Noted
  <2>4. Noted(ws')
    BY <1>2, <2>2 DEF Noted
  <2> QED
    BY <1>2, <2>2, <2>3, <2>4
<1>7. ASSUME NEW seen \in BOOLEAN, Brings(ws', ws, seen)
      PROVE  /\ Noted(ws') /\ ws'.calcs = ws.calcs
             /\ \A r \in Recipes : ws.viewed[r] => ws'.viewed[r]
             /\ ws'.lost = ws.lost
  <2> DEFINE image == <<"art", ws'.art[Len(ws'.art)]>>
  <2>1. /\ ws'.calcs = ws.calcs /\ ws'.lost = ws.lost /\ ws'.late = ws.late \ {"imported"}
        /\ ws'.image["imported"] = image /\ image \in Image
        /\ ws'.viewed["imported"] = seen
        /\ ws'.seen["imported"] = IF seen THEN image ELSE None
        /\ \A f \in Figures \ {"imported"} :
             /\ ws'.viewed[f] = ws.viewed[f] /\ ws'.image[f] = ws.image[f]
             /\ ws'.seen[f] = ws.seen[f]
    BY <1>1, <1>2, <1>7 DEF Brings
  <2>2. image # None
    BY <2>1, NoneIsNew
  <2> HIDE DEF image
  <2>3. \A f \in Figures \ (ws'.lost \cup ws'.late) :
          ws'.viewed[f] => ws'.seen[f] = ws'.image[f] /\ ws'.image[f] # None
    BY <2>1, <2>2 DEF Noted
  <2>4. ws'.calcs = None => ~ ws'.viewed["diagnostics"] /\ ws'.image["diagnostics"] = None
    BY <1>2, <2>1 DEF Noted
  <2>5. Noted(ws')
    BY <2>3, <2>4 DEF Noted
  <2> QED
    BY <1>2, <2>1, <2>5
<1> QED
  BY <1>3, <1>4, <1>5, <1>6, <1>7, EditForms DEF Quiet

LEMMA BuildIsNoted ==
  ASSUME Sound, Notes, NEW against \in BOOLEAN, NEW authored \in BOOLEAN, Build(against, authored)
  PROVE  Notes'
<1> DEFINE base == Base(against)
           old == OldOf(against)
           candidate == Candidate(authored)
           b == BuildOf(ws, base, old, candidate)
<1>1. /\ build' = b /\ b # None
      /\ candidate = None \/ candidate \in Workspace(Ids)
      /\ authored => build # None
      /\ ws' = ws \/ ws' = b.ws
  BY BuildStep
<1>2. /\ b.run \subseteq Registered(b.ws) /\ TakenOver(b.ws, ws, candidate)
      /\ \A f \in Figures : Shown(b, ws, candidate, f)
  BY <1>1, BuildFits DEF Sound
<1>3. ~ authored => candidate = None
  BY DEF Candidate
<1>4. authored => candidate = build.ws
  BY DEF Candidate
<1>5. authored => candidate # None
  BY <1>1, <1>4, NoneIsNew DEF Sound, Built, Tidy
<1> HIDE DEF base, old, candidate, b
<1>6. /\ b.ws.calcs = ws.calcs /\ b.ws.lost = ws.lost
      /\ authored => b.ws.seen = build.ws.seen /\ b.ws.late = LateNotes(ws, build.ws)
      /\ ~ authored => b.ws.seen = ws.seen /\ b.ws.late = ws.late
  BY <1>2, <1>3, <1>4, <1>5 DEF TakenOver
<1>7. ASSUME NEW f \in Figures, b.ws.viewed[f]
      PROVE  /\ ws.image[f] = None \/ ws.image[f] = b.ws.image[f]
             /\ authored => build.ws.viewed[f]
             /\ ~ authored => ws.viewed[f]
  <2>1. Shown(b, ws, candidate, f)
    BY <1>2
  <2> QED
    BY <1>3, <1>4, <1>5, <1>7, <2>1 DEF Shown
<1>8. ASSUME NEW r \in Recipes, b.ws.viewed[r] PROVE ws.viewed[r]
  <2>1. r \in Figures
    BY DEF Figures
  <2> QED
    BY <1>1, <1>7, <1>8, <2>1 DEF Notes
<1>9. ASSUME NEW f \in Figures \ (b.ws.lost \cup b.ws.late), b.ws.viewed[f]
      PROVE  b.ws.seen[f] = b.ws.image[f] /\ b.ws.image[f] # None
  <2>1. CASE ~ authored
    <3>1. /\ ws.viewed[f] /\ f \notin ws.lost /\ f \notin ws.late
          /\ ws.image[f] = None \/ ws.image[f] = b.ws.image[f]
      BY <1>6, <1>7, <1>9, <2>1
    <3>2. ws.seen[f] = ws.image[f] /\ ws.image[f] # None
      BY <3>1 DEF Notes, Noted
    <3> QED
      BY <1>6, <2>1, <3>1, <3>2
  <2>2. CASE authored
    <3>1. /\ build # None /\ build.ws.viewed[f] /\ f \notin ws.lost
          /\ ws.image[f] = None \/ ws.image[f] = b.ws.image[f]
      BY <1>1, <1>6, <1>7, <1>9, <2>2
    <3>2. f \notin build.ws.late /\ build.ws.image[f] = ws.image[f]
      BY <1>6, <1>9, <2>2, <3>1 DEF LateNotes
    <3>3. f \notin build.ws.lost
      BY <3>1 DEF Notes
    <3>4. build.ws.seen[f] = build.ws.image[f] /\ build.ws.image[f] # None
      BY <3>1, <3>2, <3>3 DEF Notes, Noted
    <3> QED
      BY <1>6, <2>2, <3>1, <3>2, <3>4
  <2> QED
    BY <2>1, <2>2
<1>10. ASSUME b.ws.calcs = None
       PROVE  ~ b.ws.viewed["diagnostics"] /\ b.ws.image["diagnostics"] = None
  <2>1. ~ ws.viewed["diagnostics"] /\ ws.image["diagnostics"] = None
    BY <1>6, <1>10 DEF Notes, Noted
  <2>2. "diagnostics" \notin b.run /\ Shown(b, ws, candidate, "diagnostics")
    BY <1>2, <1>10 DEF Registered, Figures, Recipes
  <2> QED
    BY <1>8, <2>1, <2>2 DEF Recipes, Shown
<1>11. Noted(b.ws)
  BY <1>9, <1>10 DEF Noted
<1>12. CASE ws' = ws
  BY <1>1, <1>6, <1>8, <1>11, <1>12 DEF Notes
<1>13. CASE ws' = b.ws
  BY <1>1, <1>11, <1>13 DEF Notes
<1> QED
  BY <1>1, <1>12, <1>13

LEMMA NotesHold ==
  Spec => [](Sound /\ Notes)
<1>1. Init => Notes
  <2>1. Prepared.viewed = [f \in Figures |-> FALSE] /\ Prepared.image["diagnostics"] = None
    BY DEF Prepared, Figures, Recipes
  <2>2. Noted(Prepared)
    BY <2>1 DEF Noted, Figures, Recipes
  <2> QED
    BY <2>2 DEF Init, Notes
<1>2. Sound /\ Notes /\ [Next]_vars => Notes'
  <2> SUFFICES ASSUME Sound, Notes, [Next]_vars PROVE Notes'
    OBVIOUS
  <2>1. CASE HostEdits
    <3>1. Tidy(ws) /\ Noted(ws)
      BY DEF Sound, Notes
    <3>2. build' = build
      BY <2>1, <3>1, EditsStayTidy
    <3>3. /\ Noted(ws') /\ (ws'.calcs = None => ws.calcs = None)
          /\ \A r \in Recipes : ws.viewed[r] => ws'.viewed[r]
          /\ \A r \in ws.lost \ ws'.lost : ~ ws.viewed[r]
      BY <2>1, <3>1, EditsAreNoted
    <3>4. build # None => build.ws.lost \subseteq Recipes
      BY DEF Sound, Built, Tidy, Workspace
    <3> QED
      BY <3>2, <3>3, <3>4 DEF Notes
  <2>2. ASSUME NEW against \in BOOLEAN, NEW authored \in BOOLEAN, Build(against, authored)
        PROVE  Notes'
    BY <2>2, BuildIsNoted
  <2>3. CASE UNCHANGED vars
    BY <2>3 DEF vars, Notes
  <2> QED
    BY <2>1, <2>2, <2>3 DEF Next
<1> QED
  BY <1>1, <1>2, SoundHolds, PTL DEF Spec

(* A figure marked as viewed is the image the host viewed, whatever the     *)
(* host edited, drew or attached and wherever it goes on, unless it removed *)
(* the image or the note came back with an author's return after the image  *)
(* had been replaced (late); and a build that shows something else than the *)
(* one it was compared with asks for a review                               *)
(* (_invalidate_changed_figure_observations, _definition_changes).          *)
THEOREM HostIsAlwaysTold ==
  Spec => []HostIsTold
<1>1. ASSUME Sound, Notes PROVE HostIsTold
  <2>1. ASSUME build # None
        PROVE  /\ NotesAreOf(Figures \ (build.ws.lost \cup build.ws.late))
               /\ \A f \in Figures : build.context[f] = <<build.ws.image[f], build.ws.viewed[f]>>
    <3>1. Noted(build.ws) /\ build.context = HostContext(build.ws)
      BY <1>1, <2>1 DEF Notes, Sound, Built
    <3> QED
      BY <3>1 DEF Noted, HostContext, NotesAreOf
  <2> QED
    BY <1>1, <2>1 DEF HostIsTold, ViewedIsCurrent, Sound
<1> QED
  BY <1>1, NotesHold, PTL

(* A build is sent back for review when, and only when, it shows something *)
(* else than the build it was compared with, whatever the host did to the  *)
(* workspace of that build and wherever it goes on (_definition_changes).  *)
THEOREM ReviewsAreAsked ==
  Spec => []ReviewIsAsked
<1>1. Sound => ReviewIsAsked
  BY DEF Sound
<1> QED
  BY <1>1, SoundHolds, PTL

-----------------------------------------------------------------------------
(* The sections of a manuscript (SectionPackage): what a command has        *)
(* calculated is of what it has copied, and that is of one version.         *)

\* A command that copies has taken the first files of its input.
FilesUpTo(i, k) == {SectionInputs[i].files[j] : j \in 1..k}
CopiedFirst(c) ==
  /\ IsFiniteSet(DOMAIN c.copied)
  /\ DOMAIN c.copied = FilesUpTo(c.input, Cardinality(DOMAIN c.copied))
IsFunction(f) == f = [n \in DOMAIN f |-> f[n]]
Taken(c, sources) == \A n \in DOMAIN c.copied : n \in DOMAIN sources /\ c.copied[n] = sources[n]
IsCopy(d, c, sources) ==
  /\ d.input = c.input
  /\ d.copied = [n \in DOMAIN c.copied \cup {NextFile(c)} |->
                   IF n \in DOMAIN c.copied THEN c.copied[n] ELSE sources[n]]

\* The next file, and that alone, joins those that were copied.
LEMMA CopyOneMore ==
  ASSUME NEW c, NEW d, NEW sources, CopiedFirst(c), IsCopy(d, c, sources)
  PROVE  CopiedFirst(d) /\ IsFunction(d.copied)
<1> DEFINE D == DOMAIN c.copied
           name == NextFile(c)
           k == Cardinality(D)
<1>1. DOMAIN d.copied = D \cup {name} /\ d.input = c.input
  BY DEF IsCopy
<1>2. IsFiniteSet(D) /\ D = FilesUpTo(c.input, k) /\ k \in Nat
  BY FS_CardinalityType DEF CopiedFirst
<1>3. name = SectionInputs[c.input].files[k + 1]
  BY DEF NextFile
<1>4. IsFiniteSet(D \cup {name})
      /\ Cardinality(D \cup {name}) = IF name \in D THEN k ELSE k + 1
  BY <1>2, FS_AddElement
<1>5. FilesUpTo(c.input, k + 1) = FilesUpTo(c.input, k) \cup {name}
  BY <1>2, <1>3 DEF FilesUpTo
<1>6. D \cup {name} = FilesUpTo(c.input, Cardinality(D \cup {name}))
  <2>1. CASE name \in D
    BY <2>1, <1>2, <1>4
  <2>2. CASE name \notin D
    BY <2>2, <1>2, <1>4, <1>5
  <2>. QED
    BY <2>1, <2>2
<1>7. IsFunction(d.copied)
  BY DEF IsFunction, IsCopy
<1>. QED
  BY <1>1, <1>4, <1>6, <1>7 DEF CopiedFirst

\* Copying one more file of the same sources keeps the copy true to them.
LEMMA CopyIsTaken ==
  ASSUME NEW c, NEW d, NEW sources, Taken(c, sources), IsCopy(d, c, sources),
         NextFile(c) \in DOMAIN sources
  PROVE  Taken(d, sources)
  BY DEF Taken, IsCopy

\* All files are taken: the copy is the whole.
LEMMA AllTaken ==
  ASSUME NEW c, NEW sources, CopiedFirst(c), AllCopied(c), Taken(c, sources),
         IsFunction(c.copied), IsFunction(sources),
         DOMAIN sources = FilesUpTo(c.input, Len(SectionInputs[c.input].files))
  PROVE  c.copied = sources
<1>1. DOMAIN c.copied = DOMAIN sources
  BY DEF CopiedFirst, AllCopied
<1>. QED
  BY <1>1 DEF Taken, IsFunction

-----------------------------------------------------------------------------
Preparing == {"preparing", "calculated"}
Assembling == {"drafting", "packing"}
AllFiles(i) == FilesUpTo(i, Len(SectionInputs[i].files))
IsWhole(sources, i) ==
  /\ IsFunction(sources) /\ IsFiniteSet(DOMAIN sources)
  /\ DOMAIN sources = AllFiles(i) /\ Cardinality(DOMAIN sources) = Len(SectionInputs[i].files)
PackageOK ==
  /\ \A p \in package : /\ DOMAIN p = {"input", "sources", "results"}
                         /\ p = [input |-> p.input, sources |-> p.sources, results |-> p.results]
                         /\ IsWhole(p.sources, p.input)
  /\ \A p, q \in package : p.input = q.input /\ p.sources = q.sources
CommandOK ==
  /\ cmd.at \in Ended \cup Preparing \cup Assembling
  /\ cmd.at \notin Ended => CopiedFirst(cmd) /\ IsFunction(cmd.copied)
  /\ cmd.at = "preparing" => cmd = [at |-> cmd.at, input |-> cmd.input, copied |-> cmd.copied]
  /\ cmd.at = "calculated" =>
       cmd = [at |-> cmd.at, input |-> cmd.input, copied |-> cmd.copied, results |-> cmd.results]
  /\ cmd.at \in Assembling =>
       cmd = [at |-> cmd.at, input |-> cmd.input, uses |-> cmd.uses, results |-> cmd.results,
              copied |-> cmd.copied, values |-> cmd.values, undisturbed |-> cmd.undisturbed]
CalculatedAgrees ==
  cmd.at = "calculated" => AllCopied(cmd) /\ cmd.results = Results(SectionInputs[cmd.input], cmd.copied)
\* What an assembly has is of the package, for every package p there is.
IsOf(p) ==
  /\ cmd.input = p.input /\ Taken(cmd, p.sources)
  /\ cmd.at = "drafting" => cmd.results = Results(SectionInputs[p.input], p.sources)
  /\ cmd.at = "packing" =>
       \A reports \in cmd.results :
         /\ reports \in Results(SectionInputs[p.input], p.sources)
         /\ cmd.values \in Values(SectionInputs[p.input], cmd.uses, p.sources, reports)
AssemblyAgrees ==
  cmd.at \in Assembling /\ cmd.undisturbed => package # {} /\ \A p \in package : IsOf(p)
SectionInv == PackageOK /\ CommandOK /\ CalculatedAgrees /\ AssemblyAgrees /\ SectionAgrees

\* A command has copied nothing when it starts.
LEMMA NothingCopied ==
  ASSUME NEW c, c.copied = << >>
  PROVE  CopiedFirst(c) /\ IsFunction(c.copied) /\ \A sources : Taken(c, sources)
<1>1. DOMAIN c.copied = {} /\ IsFunction(c.copied)
  BY DEF IsFunction
<1>2. IsFiniteSet({}) /\ Cardinality({}) = 0
  BY FS_EmptySet
<1>. QED
  BY <1>1, <1>2 DEF CopiedFirst, FilesUpTo, Taken

\* At first there is neither a package nor a section.
LEMMA SectionStarts == SectionInit => SectionInv
  BY DEF SectionInit, Idle, SectionInv, PackageOK, CommandOK, CalculatedAgrees, AssemblyAgrees,
         SectionAgrees, PackageAgrees, NumbersAgree, Assembled, Ended, Preparing, Assembling

\* A command that has ended says nothing but that.
LEMMA EndedInv ==
  ASSUME PackageOK', NEW outcome \in Ended, cmd' = Idle(outcome),
         outcome = "prepared" => PackageAgrees', outcome = "assembled" => NumbersAgree'
  PROVE  SectionInv'
  BY DEF Idle, SectionInv, CommandOK, CalculatedAgrees, AssemblyAgrees,
         SectionAgrees, PackageAgrees, NumbersAgree, Assembled, Ended, Preparing, Assembling

\* A command that runs: no output was just finished.
LEMMA RunningInv ==
  ASSUME PackageOK', CommandOK', CalculatedAgrees', AssemblyAgrees', cmd'.at \notin Ended
  PROVE  SectionInv'
  BY DEF SectionInv, SectionAgrees, PackageAgrees, NumbersAgree, Assembled, Ended

\* A package nobody touches stays whole.
LEMMA PackageStays == ASSUME SectionInv, UNCHANGED package PROVE PackageOK'
  BY DEF SectionInv, PackageOK

\* As long as not all are copied, the next file is one of the sources.
LEMMA OneIsMissing ==
  ASSUME NEW c, NEW sources, NEW i, IsWhole(sources, i), c.input = i, CopiedFirst(c),
         Taken(c, sources), ~AllCopied(c)
  PROVE  NextFile(c) \in DOMAIN sources
<1> DEFINE k == Cardinality(DOMAIN c.copied)
           n == Len(SectionInputs[i].files)
<1>1. DOMAIN c.copied \subseteq DOMAIN sources
  BY DEF Taken
<1>2. k \in Nat /\ n \in Nat /\ k <= n
  BY <1>1, FS_CardinalityType, FS_Subset DEF IsWhole, CopiedFirst
<1>3. k + 1 \in 1..n
  BY <1>2 DEF AllCopied
<1>. QED
  BY <1>3 DEF NextFile, IsWhole, AllFiles, FilesUpTo

\* Preparing copies file by file and then calculates from its own copies.
LEMMA PrepareStep ==
  ASSUME SectionInv, StartPrepare \/ PrepareCopies \/ PrepareCalculates
  PROVE  SectionInv'
<1>. PackageOK' /\ UNCHANGED package
  BY PackageStays DEF StartPrepare, PrepareCopies, PrepareCalculates
<1>1. CASE StartPrepare
  <2>1. cmd' = [at |-> "preparing", input |-> author.input, copied |-> << >>]
    BY <1>1 DEF StartPrepare
  <2>2. cmd'.at = "preparing" /\ cmd'.copied = << >>
    BY <2>1
  <2>3. CopiedFirst(cmd') /\ IsFunction(cmd'.copied)
    BY <2>2, NothingCopied
  <2>4. cmd' = [at |-> cmd'.at, input |-> cmd'.input, copied |-> cmd'.copied]
    BY <2>1
  <2>5. CommandOK'
    BY <2>2, <2>3, <2>4 DEF CommandOK, Ended, Preparing, Assembling, CopiedFirst, FilesUpTo
  <2>. QED
    BY <2>2, <2>5, RunningInv DEF CalculatedAgrees, AssemblyAgrees, Ended, Assembling
<1>2. CASE PrepareCopies
  <2>1. cmd.at = "preparing" /\ cmd' = Copy(cmd, NextFile(cmd), author.sources)
    BY <1>2 DEF PrepareCopies
  <2>2. /\ cmd = [at |-> cmd.at, input |-> cmd.input, copied |-> cmd.copied]
        /\ CopiedFirst(cmd)
    BY <2>1 DEF SectionInv, CommandOK, Ended
  <2>3. /\ cmd'.at = "preparing" /\ IsCopy(cmd', cmd, author.sources)
        /\ cmd' = [at |-> cmd'.at, input |-> cmd'.input, copied |-> cmd'.copied]
    BY <2>1, <2>2 DEF Copy, IsCopy
  <2>4. CopiedFirst(cmd') /\ IsFunction(cmd'.copied)
    BY <2>2, <2>3, CopyOneMore
  <2>5. CommandOK'
    BY <2>3, <2>4 DEF CommandOK, Ended, Preparing, Assembling, CopiedFirst, FilesUpTo
  <2>. QED
    BY <2>3, <2>5, RunningInv DEF CalculatedAgrees, AssemblyAgrees, Ended, Assembling
<1>3. CASE PrepareCalculates
  <2>1. /\ cmd.at = "preparing" /\ AllCopied(cmd)
        /\ cmd' = [at |-> "calculated", input |-> cmd.input, copied |-> cmd.copied,
                   results |-> Results(SectionInputs[cmd.input], cmd.copied)]
    BY <1>3 DEF PrepareCalculates, PreparedResults
  <2>2. CopiedFirst(cmd) /\ IsFunction(cmd.copied)
    BY <2>1 DEF SectionInv, CommandOK, Ended
  <2>3. /\ cmd'.at = "calculated" /\ cmd'.input = cmd.input /\ cmd'.copied = cmd.copied
        /\ cmd'.results = Results(SectionInputs[cmd.input], cmd.copied)
    BY <2>1
  <2>4. cmd' = [at |-> cmd'.at, input |-> cmd'.input, copied |-> cmd'.copied, results |-> cmd'.results]
    BY <2>1
  <2>5. CommandOK'
    BY <2>2, <2>3, <2>4 DEF CommandOK, Ended, Preparing, Assembling, CopiedFirst, FilesUpTo
  <2>6. CalculatedAgrees'
    BY <2>1, <2>3 DEF CalculatedAgrees, AllCopied
  <2>. QED
    BY <2>3, <2>5, <2>6, RunningInv DEF AssemblyAgrees, Ended, Assembling
<1>. QED
  BY <1>1, <1>2, <1>3

\* The package that appears is of the copies that were calculated from.
LEMMA FinishPrepareStep ==
  ASSUME SectionInv, FinishPrepare
  PROVE  SectionInv'
<1>1. /\ cmd.at = "calculated" /\ cmd' = Idle("prepared")
      /\ package' = {[input |-> cmd.input, sources |-> cmd.copied, results |-> reports] :
                       reports \in cmd.results}
  BY DEF FinishPrepare
<1>2. /\ CopiedFirst(cmd) /\ IsFunction(cmd.copied) /\ AllCopied(cmd)
      /\ cmd.results = Results(SectionInputs[cmd.input], cmd.copied)
  BY <1>1 DEF SectionInv, CommandOK, CalculatedAgrees, Ended
<1>3. IsWhole(cmd.copied, cmd.input)
  BY <1>2 DEF CopiedFirst, AllCopied, AllFiles, IsWhole
<1>4. \A p \in package' : /\ DOMAIN p = {"input", "sources", "results"}
                          /\ p = [input |-> p.input, sources |-> p.sources, results |-> p.results]
                          /\ p.input = cmd.input /\ p.sources = cmd.copied
                          /\ p.results \in cmd.results
  BY <1>1
<1>5. PackageOK'
  <2>1. \A p \in package' : IsWhole(p.sources, p.input)
    BY <1>3, <1>4
  <2>. QED
    BY <1>4, <2>1 DEF PackageOK, IsWhole, IsFunction, AllFiles, FilesUpTo
<1>6. PackageAgrees'
  BY <1>2, <1>4 DEF PackageAgrees
<1>. QED
  BY <1>1, <1>5, <1>6, EndedInv DEF Ended

\* Assembling begins on the package there is and calculates again.
LEMMA StartAssembleStep ==
  ASSUME SectionInv, NEW p \in package, NEW uses, StartAssemble(p, uses)
  PROVE  SectionInv'
<1>1. /\ UNCHANGED package
      /\ cmd' = [at |-> "drafting", input |-> p.input, uses |-> uses, results |-> AssembledResults(p),
                 copied |-> << >>, values |-> << >>, undisturbed |-> TRUE]
  BY DEF StartAssemble
<1>2. /\ cmd'.at = "drafting" /\ cmd'.input = p.input /\ cmd'.copied = << >>
      /\ cmd'.results = Results(SectionInputs[p.input], p.sources)
      /\ cmd' = [at |-> cmd'.at, input |-> cmd'.input, uses |-> cmd'.uses, results |-> cmd'.results,
                 copied |-> cmd'.copied, values |-> cmd'.values, undisturbed |-> cmd'.undisturbed]
  BY <1>1 DEF AssembledResults
<1>3. CopiedFirst(cmd') /\ IsFunction(cmd'.copied) /\ \A sources : Taken(cmd', sources)
  BY <1>2, NothingCopied
<1>4. CommandOK'
  BY <1>2, <1>3 DEF CommandOK, Ended, Preparing, Assembling, CopiedFirst, FilesUpTo
<1>5. \A q \in package : q.input = p.input /\ q.sources = p.sources
  BY DEF SectionInv, PackageOK
<1>6. AssemblyAgrees'
  BY <1>1, <1>2, <1>3, <1>5 DEF AssemblyAgrees, IsOf, Taken
<1>. QED
  BY <1>1, <1>2, <1>4, <1>6, PackageStays, RunningInv DEF CalculatedAgrees, Ended

\* The numbers of the draft are taken from what was calculated.
LEMMA ResolveStep ==
  ASSUME SectionInv, NEW p \in package, ResolveDraft(p)
  PROVE  SectionInv'
<1>1. UNCHANGED package /\ cmd.at = "drafting"
  BY DEF ResolveDraft
<1>2. PICK reports \in cmd.results :
        \E values \in Values(SectionInputs[cmd.input], cmd.uses, p.sources, reports) :
          cmd' = [cmd EXCEPT !.at = "packing", !.values = values, !.results = {reports}]
  BY DEF ResolveDraft
<1>. PICK values \in Values(SectionInputs[cmd.input], cmd.uses, p.sources, reports) :
       cmd' = [cmd EXCEPT !.at = "packing", !.values = values, !.results = {reports}]
  BY <1>2
<1>3. cmd = [at |-> cmd.at, input |-> cmd.input, uses |-> cmd.uses, results |-> cmd.results,
             copied |-> cmd.copied, values |-> cmd.values, undisturbed |-> cmd.undisturbed]
  BY <1>1 DEF SectionInv, CommandOK, Assembling
<1>4. /\ cmd'.at = "packing" /\ cmd'.input = cmd.input /\ cmd'.copied = cmd.copied
      /\ cmd'.results = {reports} /\ cmd'.values = values /\ cmd'.uses = cmd.uses
      /\ cmd'.undisturbed = cmd.undisturbed
      /\ cmd' = [at |-> cmd'.at, input |-> cmd'.input, uses |-> cmd'.uses, results |-> cmd'.results,
                 copied |-> cmd'.copied, values |-> cmd'.values, undisturbed |-> cmd'.undisturbed]
  BY <1>2, <1>3
<1>5. CommandOK'
  BY <1>1, <1>4 DEF SectionInv, CommandOK, Ended, Preparing, Assembling, CopiedFirst, FilesUpTo
<1>6. AssemblyAgrees'
  <2>. SUFFICES ASSUME cmd.undisturbed, NEW q \in package PROVE IsOf(q)'
    BY <1>1, <1>4 DEF AssemblyAgrees
  <2>1. IsOf(q) /\ q.input = p.input /\ q.sources = p.sources
    BY <1>1 DEF SectionInv, AssemblyAgrees, Assembling, PackageOK
  <2>2. reports \in Results(SectionInputs[q.input], q.sources) /\ cmd.input = q.input
    BY <1>1, <1>2, <2>1 DEF IsOf
  <2>3. values \in Values(SectionInputs[q.input], cmd.uses, q.sources, reports)
    BY <1>2, <2>1, <2>2
  <2>. QED
    BY <1>4, <2>1, <2>2, <2>3 DEF IsOf, Taken
<1>. QED
  BY <1>1, <1>4, <1>5, <1>6, PackageStays, RunningInv DEF CalculatedAgrees, Ended

\* Assembling copies the sources of the package, which nobody changed.
LEMMA AssembleCopyStep ==
  ASSUME SectionInv, NEW p \in package, AssembleCopies(p)
  PROVE  SectionInv'
<1>1. UNCHANGED package /\ cmd.at = "packing" /\ ~AllCopied(cmd)
      /\ cmd' = Copy(cmd, NextFile(cmd), p.sources)
  BY DEF AssembleCopies
<1>2. /\ cmd = [at |-> cmd.at, input |-> cmd.input, uses |-> cmd.uses, results |-> cmd.results,
                copied |-> cmd.copied, values |-> cmd.values, undisturbed |-> cmd.undisturbed]
      /\ CopiedFirst(cmd)
  BY <1>1 DEF SectionInv, CommandOK, Assembling, Ended
<1>3. /\ cmd'.at = "packing" /\ cmd'.results = cmd.results /\ cmd'.values = cmd.values
      /\ cmd'.uses = cmd.uses /\ cmd'.undisturbed = cmd.undisturbed
      /\ IsCopy(cmd', cmd, p.sources)
      /\ cmd' = [at |-> cmd'.at, input |-> cmd'.input, uses |-> cmd'.uses, results |-> cmd'.results,
                 copied |-> cmd'.copied, values |-> cmd'.values, undisturbed |-> cmd'.undisturbed]
  BY <1>1, <1>2 DEF Copy, IsCopy
<1>4. CopiedFirst(cmd') /\ IsFunction(cmd'.copied)
  BY <1>2, <1>3, CopyOneMore
<1>5. CommandOK'
  BY <1>3, <1>4 DEF CommandOK, Ended, Preparing, Assembling, CopiedFirst, FilesUpTo
<1>6. AssemblyAgrees'
  <2>. SUFFICES ASSUME cmd.undisturbed, NEW q \in package PROVE IsOf(q)'
    BY <1>1, <1>3 DEF AssemblyAgrees
  <2>1. IsOf(q) /\ q.input = p.input /\ q.sources = p.sources /\ IsWhole(q.sources, q.input)
    BY <1>1 DEF SectionInv, AssemblyAgrees, Assembling, PackageOK
  <2>2. NextFile(cmd) \in DOMAIN q.sources
    BY <1>1, <1>2, <2>1, OneIsMissing DEF IsOf
  <2>3. Taken(cmd', q.sources)
    BY <1>3, <2>1, <2>2, CopyIsTaken DEF IsOf
  <2>. QED
    BY <1>1, <1>3, <2>1, <2>3 DEF IsOf, IsCopy
<1>. QED
  BY <1>1, <1>3, <1>5, <1>6, PackageStays, RunningInv DEF CalculatedAgrees, Ended

\* The section that appears has the numbers of its own sources.
LEMMA FinishAssembleStep ==
  ASSUME SectionInv, FinishAssemble
  PROVE  SectionInv'
<1>1. /\ cmd.at = "packing" /\ AllCopied(cmd) /\ UNCHANGED package /\ cmd' = Idle("assembled")
      /\ section' = {[input |-> cmd.input, sources |-> cmd.copied, results |-> reports,
                      values |-> cmd.values, undisturbed |-> cmd.undisturbed] : reports \in cmd.results}
  BY DEF FinishAssemble
<1>2. NumbersAgree'
  <2>. SUFFICES ASSUME NEW s \in section', s.undisturbed
                PROVE  /\ s.results \in Results(SectionInputs[s.input], s.sources)
                       /\ s.values \in Values(SectionInputs[s.input], DOMAIN s.values, s.sources, s.results)
    BY DEF NumbersAgree, Assembled
  <2>1. PICK reports \in cmd.results :
          s = [input |-> cmd.input, sources |-> cmd.copied, results |-> reports,
               values |-> cmd.values, undisturbed |-> cmd.undisturbed]
    BY <1>1
  <2>2. PICK p \in package : IsOf(p) /\ IsWhole(p.sources, p.input)
    BY <1>1, <2>1 DEF SectionInv, AssemblyAgrees, Assembling, PackageOK
  <2>3. cmd.copied = p.sources /\ cmd.input = p.input
    BY <1>1, <2>2, AllTaken DEF SectionInv, CommandOK, Ended, IsOf, IsWhole, AllFiles
  <2>4. /\ reports \in Results(SectionInputs[p.input], p.sources)
        /\ cmd.values \in Values(SectionInputs[p.input], cmd.uses, p.sources, reports)
    BY <1>1, <2>1, <2>2 DEF IsOf
  <2>5. DOMAIN cmd.values = cmd.uses
    BY <2>4 DEF Values
  <2>. QED
    BY <2>1, <2>3, <2>4, <2>5
<1>. QED
  BY <1>1, <1>2, PackageStays, EndedInv DEF Ended

\* Whoever edits a source of the package disturbs the assembly that runs.
LEMMA SavePackageStep ==
  ASSUME SectionInv, NEW p \in package, NEW name \in DOMAIN p.sources, NEW table,
         SavePackage(p, name, table)
  PROVE  SectionInv'
<1> DEFINE q == [p EXCEPT !.sources[name] = table]
<1>1. /\ package' = {q}
      /\ cmd' = IF cmd.at \in Ended THEN Idle("idle")
                ELSE IF cmd.at \in {"preparing", "calculated"} THEN cmd
                ELSE [cmd EXCEPT !.undisturbed = FALSE]
  BY DEF SavePackage
<1>2. /\ p = [input |-> p.input, sources |-> p.sources, results |-> p.results]
      /\ IsWhole(p.sources, p.input)
  BY DEF SectionInv, PackageOK
<1>3. q = [input |-> p.input, sources |-> [p.sources EXCEPT ![name] = table], results |-> p.results]
  BY <1>2
<1>4. IsWhole(q.sources, q.input)
  <2>1. q.sources = [p.sources EXCEPT ![name] = table] /\ q.input = p.input
    BY <1>3
  <2>2. DOMAIN q.sources = DOMAIN p.sources /\ IsFunction(q.sources)
    BY <2>1 DEF IsFunction
  <2>. QED
    BY <1>2, <2>1, <2>2 DEF IsWhole
<1>5. PackageOK'
  <2>1. /\ DOMAIN q = {"input", "sources", "results"}
        /\ q = [input |-> q.input, sources |-> q.sources, results |-> q.results]
    BY <1>3
  <2>. HIDE DEF q
  <2>. QED
    BY <1>1, <1>4, <2>1 DEF PackageOK, IsWhole, AllFiles, FilesUpTo
<1>6. CASE cmd.at \in Ended
  BY <1>1, <1>5, <1>6, EndedInv DEF Ended
<1>7. CASE cmd.at \in Preparing
  <2>1. cmd' = cmd
    BY <1>1, <1>7 DEF Preparing, Ended
  <2>2. CommandOK' /\ CalculatedAgrees' /\ AssemblyAgrees'
    BY <2>1, <1>7 DEF SectionInv, CommandOK, CalculatedAgrees, AssemblyAgrees, Preparing, Assembling,
                      CopiedFirst, FilesUpTo, AllCopied
  <2>. QED
    BY <2>1, <2>2, <1>5, <1>7, RunningInv DEF Preparing, Ended
<1>8. CASE cmd.at \in Assembling
  <2>1. cmd' = [cmd EXCEPT !.undisturbed = FALSE]
    BY <1>1, <1>8 DEF Assembling, Ended
  <2>2. cmd = [at |-> cmd.at, input |-> cmd.input, uses |-> cmd.uses, results |-> cmd.results,
               copied |-> cmd.copied, values |-> cmd.values, undisturbed |-> cmd.undisturbed]
    BY <1>8 DEF SectionInv, CommandOK
  <2>3. /\ cmd'.at = cmd.at /\ cmd'.input = cmd.input /\ cmd'.copied = cmd.copied
        /\ cmd'.undisturbed = FALSE
        /\ cmd' = [at |-> cmd'.at, input |-> cmd'.input, uses |-> cmd'.uses, results |-> cmd'.results,
                   copied |-> cmd'.copied, values |-> cmd'.values, undisturbed |-> cmd'.undisturbed]
    BY <2>1, <2>2
  <2>4. CommandOK'
    BY <1>8, <2>3 DEF SectionInv, CommandOK, Ended, Preparing, Assembling, CopiedFirst, FilesUpTo
  <2>5. CalculatedAgrees' /\ AssemblyAgrees'
    BY <1>8, <2>3 DEF CalculatedAgrees, AssemblyAgrees, Assembling
  <2>. QED
    BY <1>5, <1>8, <2>3, <2>4, <2>5, RunningInv DEF Assembling, Ended
<1>. QED
  BY <1>6, <1>7, <1>8 DEF SectionInv, CommandOK

\* A command that ends without an output, and what the author does.
LEMMA EndingStep ==
  ASSUME SectionInv, UNCHANGED package \/ package' = {},
         NEW outcome \in {"idle", "refused", "killed"}, cmd' = Idle(outcome)
  PROVE  SectionInv'
<1>1. PackageOK'
  BY PackageStays DEF PackageOK
<1>. QED
  BY <1>1, EndedInv DEF Ended

\* What changes neither package, section nor command.
LEMMA QuietStep ==
  ASSUME SectionInv, UNCHANGED <<package, section, cmd>>
  PROVE  SectionInv'
  BY DEF SectionInv, PackageOK, CommandOK, CalculatedAgrees, AssemblyAgrees, SectionAgrees,
         PackageAgrees, NumbersAgree, Assembled, CopiedFirst, FilesUpTo, IsWhole, AllFiles,
         AllCopied, IsOf, Taken

\* Every step keeps the invariant.
LEMMA SectionStep == SectionInv /\ [SectionNext]_sectionVars => SectionInv'
<1>. SUFFICES ASSUME SectionInv, [SectionNext]_sectionVars PROVE SectionInv'
  OBVIOUS
<1>1. CASE UNCHANGED sectionVars
  BY <1>1, QuietStep DEF sectionVars
<1>2. CASE StartPrepare \/ PrepareCopies \/ PrepareCalculates
  BY <1>2, PrepareStep
<1>3. CASE PrepareRefused \/ PrepareMisses \/ PrepareRaises
  BY <1>3, EndingStep DEF PrepareRefused, PrepareMisses, PrepareRaises, Refuse
<1>4. CASE FinishPrepare
  BY <1>4, FinishPrepareStep
<1>5. ASSUME NEW p \in package, NEW uses, StartAssemble(p, uses) PROVE SectionInv'
  BY <1>5, StartAssembleStep
<1>6. ASSUME NEW p \in package, AssembleRefused(p) \/ DraftRefused(p) PROVE SectionInv'
  BY <1>6, EndingStep DEF AssembleRefused, DraftRefused, Refuse
<1>7. ASSUME NEW p \in package, ResolveDraft(p) PROVE SectionInv'
  BY <1>7, ResolveStep
<1>8. ASSUME NEW p \in package, AssembleCopies(p) PROVE SectionInv'
  BY <1>8, AssembleCopyStep
<1>9. ASSUME NEW p \in package, NEW name \in DOMAIN p.sources, NEW table, SavePackage(p, name, table)
      PROVE  SectionInv'
  BY <1>9, SavePackageStep
<1>10. CASE FinishAssemble
  BY <1>10, FinishAssembleStep
<1>11. CASE Cut \/ Discard
  BY <1>11, EndingStep DEF Cut, Discard
<1>12. ASSUME NEW name, NEW table, SaveSource(name, table) PROVE SectionInv'
  <2>1. CASE cmd.at \in Ended
    BY <1>12, <2>1, EndingStep DEF SaveSource
  <2>2. CASE cmd.at \notin Ended
    BY <1>12, <2>2, QuietStep DEF SaveSource
  <2>. QED
    BY <2>1, <2>2
<1>. QED
  BY <1>1, <1>2, <1>3, <1>4, <1>5, <1>6, <1>7, <1>8, <1>9, <1>10, <1>11, <1>12 DEF SectionNext

(* A package has just been prepared from the sources it holds, and a section *)
(* assembled from them with nobody editing them meanwhile states the numbers *)
(* these sources give, for every input and every interleaving of edits, cuts *)
(* and commands (prepare_section, assemble_section).                         *)
THEOREM SectionsAgree == SectionSpec => []SectionAgrees
<1>1. SectionInv => SectionAgrees
  BY DEF SectionInv
<1>. QED
  BY <1>1, SectionStarts, SectionStep, PTL DEF SectionSpec

-----------------------------------------------------------------------------
(* The records a number cites (Resolve, table_evidence.py:976-980): two     *)
(* contents of the sources of a section that differ in numbers of one row   *)
(* and nowhere in what selects rows.                                        *)

(* Members of a finite set of numbers, one after the other.                 *)
LEMMA AscendingIn ==
  ASSUME NEW S, S \subseteq Nat, IsFiniteSet(S)
  PROVE  Ascending(S) \in Seq(S)
<1> DEFINE Lower(i) == {j \in S : j < i}
           n == Cardinality(S)
           rank == [i \in S |-> Cardinality(Lower(i))]
<1>1. n \in Nat
  BY FS_CardinalityType
<1>2. \A i \in S : /\ IsFiniteSet(Lower(i)) /\ Cardinality(Lower(i)) \in Nat
                   /\ Cardinality(Lower(i)) < n
  <2>. TAKE i \in S
  <2>1. Lower(i) \in SUBSET S /\ i \notin Lower(i) /\ Lower(i) # S
    OBVIOUS
  <2>. HIDE DEF Lower
  <2>2. IsFiniteSet(Lower(i)) /\ Cardinality(Lower(i)) <= n /\ (n = Cardinality(Lower(i)) => S = Lower(i))
    BY <2>1, FS_Subset
  <2>3. Cardinality(Lower(i)) \in Nat
    BY <2>2, FS_CardinalityType
  <2>. HIDE DEF n
  <2>. QED
    BY <1>1, <2>1, <2>2, <2>3
<1>3. \A i, j \in S : i < j => Cardinality(Lower(i)) < Cardinality(Lower(j))
  <2>. SUFFICES ASSUME NEW i \in S, NEW j \in S, i < j PROVE Cardinality(Lower(i)) < Cardinality(Lower(j))
    OBVIOUS
  <2>1. Lower(i) \in SUBSET Lower(j) /\ i \in Lower(j) /\ i \notin Lower(i)
    <3>. i \in Nat /\ j \in Nat
      OBVIOUS
    <3>1. ASSUME NEW x \in Lower(i) PROVE x \in Lower(j)
      <4>. x \in S /\ x \in Nat /\ x < i
        OBVIOUS
      <4>. QED
        OBVIOUS
    <3>2. i \in Lower(j) /\ i \notin Lower(i)
      OBVIOUS
    <3>. HIDE DEF Lower
    <3>. QED
      BY <3>1, <3>2
  <2>. HIDE DEF Lower, n
  <2>2. Cardinality(Lower(i)) <= Cardinality(Lower(j))
        /\ (Cardinality(Lower(j)) = Cardinality(Lower(i)) => Lower(j) = Lower(i))
    BY <1>2, <2>1, FS_Subset
  <2>. QED
    BY <1>2, <2>1, <2>2
<1>4. rank \in Injection(S, 0..(n - 1))
  <2>. HIDE DEF Lower
  <2>1. rank \in [S -> 0..(n - 1)]
    BY <1>1, <1>2
  <2>2. \A i, j \in S : rank[i] = rank[j] => i = j
    <3>. SUFFICES ASSUME NEW i \in S, NEW j \in S, rank[i] = rank[j] PROVE i = j
      OBVIOUS
    <3>1. rank[i] = Cardinality(Lower(i)) /\ rank[j] = Cardinality(Lower(j))
      OBVIOUS
    <3>2. ~(i < j) /\ ~(j < i) /\ i \in Nat /\ j \in Nat
      BY <1>2, <1>3, <3>1
    <3>. QED
      BY <3>2
  <2>. QED
    BY <2>1, <2>2 DEF Injection, IsInjective
<1>5. rank \in Surjection(S, 0..(n - 1))
  <2>1. IsFiniteSet(0..(n - 1)) /\ Cardinality(0..(n - 1)) = n
    <3>. HIDE DEF n
    <3>1. 0 \in Int /\ n - 1 \in Int /\ (0 > n - 1 => n = 0) /\ (n - 1) - 0 + 1 = n
      BY <1>1
    <3>. QED
      BY <3>1, FS_Interval
  <2>. HIDE DEF rank
  <2>. QED
    BY <1>4, <2>1, FS_Injection
<1>6. \A k \in 1..n : \E i \in S : Cardinality(Lower(i)) = k - 1
  <2>. TAKE k \in 1..n
  <2>1. k - 1 \in 0..(n - 1)
    BY <1>1
  <2>2. PICK i \in S : rank[i] = k - 1
    BY <1>5, <2>1 DEF Surjection
  <2>. QED
    BY <2>2
<1>7. \A k \in 1..n : Ascending(S)[k] \in S
  BY <1>6 DEF Ascending
<1>8. Ascending(S) = [k \in 1..n |-> Ascending(S)[k]]
  <2> DEFINE Nth(k) == CHOOSE i \in S : Cardinality({j \in S : j < i}) = k - 1
  <2>1. Ascending(S) = [k \in 1..n |-> Nth(k)]
    BY DEF Ascending
  <2>. HIDE DEF Nth, n
  <2>. QED
    BY <2>1
<1>. HIDE DEF n
<1>. QED
  BY <1>1, <1>7, <1>8

Numbered(table) == DOMAIN table \subseteq Nat /\ IsFiniteSet(DOMAIN table)

(* Two tables with the same rows that agree in some of the columns.         *)
Agree(A, B, columns) ==
  DOMAIN B = DOMAIN A /\ \A j \in DOMAIN A : \A c \in columns : B[j][c] = A[j][c]

LEMMA RolesOf ==
  ASSUME NEW d, Accepted(d)
  PROVE  /\ d.op \in TemporalOps => "time" \in DOMAIN d.columns
         /\ d.op # "result_comparison"
         /\ d.op \in PairedOps => d.pair # {}
<1>1. DOMAIN d.columns \in Roles(d.op) /\ (d.op \in PairedOps => d.pair # {})
  BY DEF Accepted
<1>2. Roles("result_comparison") = {}
  BY DEF Roles, RangeOps, WeightedOps
<1>3. Roles("temporal") = {{"time", "value"}}
  BY DEF Roles, RangeOps, WeightedOps
<1>4. Roles("temporal_difference") = {{"time", "reference", "comparison"}}
  BY DEF Roles, RangeOps, WeightedOps
<1>. QED
  BY <1>1, <1>2, <1>3, <1>4 DEF TemporalOps

LEMMA SameRowsTaken ==
  ASSUME NEW A, NEW B, NEW d, Accepted(d), Numbered(A), Agree(A, B, Deciding(d))
  PROVE  /\ Rows(B, d) = Rows(A, d) /\ GroupNames(B, d) = GroupNames(A, d)
         /\ \A g : RowsTaken(B, d, g) = RowsTaken(A, d, g) /\ RowsTaken(A, d, g) \in Seq(DOMAIN A)
<1>1. \A j \in DOMAIN A : Passes(B[j], d) <=> Passes(A[j], d)
  BY DEF Passes, Agree, Deciding
<1>2. Rows(B, d) = Rows(A, d) /\ Rows(A, d) \subseteq DOMAIN A
  BY <1>1 DEF Rows, Agree
<1>3. \A j \in DOMAIN A : GroupOf(B[j], d) = GroupOf(A[j], d)
  <2>. TAKE j \in DOMAIN A
  <2>1. CASE d.groupBy = {}
    BY <2>1 DEF GroupOf
  <2>2. CASE d.groupBy # {}
    <3>1. (CHOOSE c \in d.groupBy : TRUE) \in Deciding(d)
      BY <2>2 DEF Deciding
    <3>. QED
      BY <2>2, <3>1 DEF GroupOf, Agree
  <2>. QED
    BY <2>1, <2>2
<1>4. GroupNames(B, d) = GroupNames(A, d)
  BY <1>2, <1>3 DEF GroupNames
<1>5. \A g : InGroup(B, d, g) = InGroup(A, d, g) /\ InGroup(A, d, g) \subseteq DOMAIN A
  BY <1>2, <1>3 DEF InGroup
<1>6. \A g : RowsTaken(B, d, g) = RowsTaken(A, d, g) /\ RowsTaken(A, d, g) \in Seq(DOMAIN A)
  <2>. TAKE g
  <2>1. \A S : S \subseteq DOMAIN A => Ascending(S) \in Seq(DOMAIN A)
    <3>. SUFFICES ASSUME NEW S, S \subseteq DOMAIN A PROVE Ascending(S) \in Seq(DOMAIN A)
      OBVIOUS
    <3>1. S \subseteq Nat /\ IsFiniteSet(S)
      BY FS_Subset DEF Numbered
    <3>2. Ascending(S) \in Seq(S)
      BY <3>1, AscendingIn
    <3>. QED
      BY <3>2
  <2>2. CASE d.op \in PairedOps
    <3> DEFINE by == CHOOSE c \in {p.by : p \in d.pair} : TRUE
               Met(T, m) == {i \in InGroup(T, d, g) : T[i][by] = m}
    <3>1. by \in Deciding(d)
      BY <2>2, RolesOf DEF Deciding
    <3>2. \A m : Met(B, m) = Met(A, m) /\ Met(A, m) \subseteq DOMAIN A
      <4>. HIDE DEF by
      <4>1. \A i \in InGroup(A, d, g) : B[i][by] = A[i][by]
        BY <1>5, <3>1 DEF Agree
      <4>. QED
        BY <1>5, <4>1
    <3>3. \A T, m : Matches(T, d, g, m) = Ascending(Met(T, m))
      BY DEF Matches
    <3>. HIDE DEF Met, by
    <3>4. \A m : Matches(B, d, g, m) = Matches(A, d, g, m) /\ Matches(A, d, g, m) \in Seq(DOMAIN A)
      BY <2>1, <3>2, <3>3
    <3>. QED
      BY <2>2, <3>4 DEF RowsTaken
  <2>3. CASE d.op \in TemporalOps
    <3>1. d.op \notin PairedOps
      BY <2>3 DEF TemporalOps, PairedOps
    <3>2. d.columns.time \in Deciding(d)
      BY <2>3, RolesOf DEF Deciding
    <3>3. \A i \in DOMAIN A : Within(B, d, i) <=> Within(A, d, i)
      BY <3>2 DEF Within, Agree
    <3>4. {i \in InGroup(B, d, g) : Within(B, d, i)} = {i \in InGroup(A, d, g) : Within(A, d, i)}
      BY <1>5, <3>3
    <3>5. {i \in InGroup(A, d, g) : Within(A, d, i)} \subseteq DOMAIN A
      BY <1>5
    <3>. QED
      BY <2>1, <2>3, <3>1, <3>4, <3>5 DEF RowsTaken
  <2>4. CASE d.op \notin PairedOps \cup TemporalOps
    BY <1>5, <2>1, <2>4 DEF RowsTaken, Members
  <2>. QED
    BY <2>2, <2>3, <2>4
<1>. QED
  BY <1>2, <1>4, <1>6

\* Two contents of a source with the same rows but for one place.
SameBut(A, B, source, spot) ==
  DOMAIN B = DOMAIN A /\ \A j \in DOMAIN A : <<source, j>> # spot => B[j] = A[j]
SameBlanks(A, B, columns) == \A j \in DOMAIN A : \A c \in columns : B[j][c] = {} <=> A[j][c] = {}

\* The rows that are not at that place are picked as they were.
LEMMA SamePicked ==
  ASSUME NEW A, NEW B, NEW source, NEW spot, SameBut(A, B, source, spot),
         NEW items \in Seq(DOMAIN A), \A i \in ToSet(items) : <<source, i>> # spot
  PROVE  Picked(B, items) = Picked(A, items)
<1>1. \A k \in DOMAIN items : items[k] \in DOMAIN A /\ items[k] \in ToSet(items)
  BY DEF ToSet
<1>2. \A k \in DOMAIN items : B[items[k]] = A[items[k]]
  BY <1>1 DEF SameBut
<1>. QED
  BY <1>2 DEF Picked

\* Whatever is calculated of a group, its records are the rows taken.
LEMMA GroupRecords ==
  ASSUME NEW d, NEW items, NEW rows
  PROVE  GroupOfRows(d, items, rows).records = items /\ GroupOfRows(d, items, rows).others = << >>
<1>1. \A ok, result, parts : Group(ok, items, result, parts).records = items
                             /\ Group(ok, items, result, parts).others = << >>
  BY DEF Group
<1>2. CASE d.op \in RangeOps
  BY <1>1, <1>2 DEF GroupOfRows, RangeGroup
<1>3. CASE d.op \notin RangeOps
  BY <1>1, <1>3 DEF GroupOfRows, PartitionGroup
<1>. QED
  BY <1>2, <1>3

\* What the report of a table has for a group.
LEMMA TableReport ==
  ASSUME NEW A, NEW d, NEW report \in CalculateTable(A, d)
  PROVE  /\ Accepted(d) /\ report.d = d /\ DOMAIN report.groups = GroupNames(A, d)
         /\ \A g \in GroupNames(A, d) :
              LET items == RowsTaken(A, d, g) IN
              report.groups[g] = GroupOfRows(d, items, Picked(A, items)) /\ report.groups[g].ok
<1>1. /\ Accepted(d) /\ report = [d |-> d, groups |-> [g \in GroupNames(A, d) |-> GroupResult(A, d, g)]]
      /\ \A g \in DOMAIN report.groups : report.groups[g].ok
  BY DEF CalculateTable
<1>2. \A g \in GroupNames(A, d) : report.groups[g] = GroupResult(A, d, g) /\ report.groups[g].ok
  BY <1>1
<1>3. \A g \in GroupNames(A, d) : ItemsFit(A, d, g)
  <2>1. \A items : ~Group(FALSE, items, {}, << >>).ok
    BY DEF Group
  <2>. QED
    BY <1>2, <2>1 DEF GroupResult
<1>4. report.d = d /\ DOMAIN report.groups = GroupNames(A, d)
  BY <1>1
<1>. QED
  BY <1>1, <1>2, <1>3, <1>4 DEF GroupResult

\* Two reports with the same groups but those that rest on a place.
SameGroups(d, report, other, spot) ==
  /\ report.d = d /\ other.d = d /\ DOMAIN other.groups = DOMAIN report.groups
  /\ \A g \in DOMAIN report.groups :
       spot \notin Records(d, report.groups[g]) => other.groups[g] = report.groups[g]
SameFluxes(d, report, other, spot) ==
  \A g \in DOMAIN report.groups : \A rows : spot \notin {<<d.source, i>> : i \in rows} =>
    ByRecord(other.groups[g], "regional_flux", rows) = ByRecord(report.groups[g], "regional_flux", rows)

LEMMA TableFollows ==
  ASSUME NEW A, NEW B, NEW d, NEW spot, Numbered(A), Agree(A, B, Deciding(d)), SameBut(A, B, d.source, spot),
         NEW report \in CalculateTable(A, d), NEW other \in CalculateTable(B, d)
  PROVE  SameGroups(d, report, other, spot)
<1>1. /\ Accepted(d) /\ report.d = d /\ DOMAIN report.groups = GroupNames(A, d)
      /\ \A g \in GroupNames(A, d) :
           LET items == RowsTaken(A, d, g) IN report.groups[g] = GroupOfRows(d, items, Picked(A, items))
  BY TableReport
<1>2. /\ other.d = d /\ DOMAIN other.groups = GroupNames(B, d)
      /\ \A g \in GroupNames(B, d) :
           LET items == RowsTaken(B, d, g) IN other.groups[g] = GroupOfRows(d, items, Picked(B, items))
  BY TableReport
<1>3. /\ GroupNames(B, d) = GroupNames(A, d)
      /\ \A g : RowsTaken(B, d, g) = RowsTaken(A, d, g) /\ RowsTaken(A, d, g) \in Seq(DOMAIN A)
  BY <1>1, SameRowsTaken
<1>4. ASSUME NEW g \in DOMAIN report.groups, spot \notin Records(d, report.groups[g])
      PROVE  other.groups[g] = report.groups[g]
  <2> DEFINE items == RowsTaken(A, d, g)
  <2>1. report.groups[g] = GroupOfRows(d, items, Picked(A, items))
        /\ other.groups[g] = GroupOfRows(d, items, Picked(B, items)) /\ items \in Seq(DOMAIN A)
    BY <1>1, <1>2, <1>3
  <2>. HIDE DEF items
  <2>2. \A i \in ToSet(items) : <<d.source, i>> # spot
    BY <1>4, <2>1, GroupRecords DEF Records
  <2>3. Picked(B, items) = Picked(A, items)
    BY <2>1, <2>2, SamePicked
  <2>. QED
    BY <2>1, <2>3
<1>. QED
  BY <1>1, <1>2, <1>3, <1>4 DEF SameGroups

\* The flux of one record is of that record alone.
LEMMA FluxFollows ==
  ASSUME NEW A, NEW B, NEW d, NEW spot, Numbered(A), Agree(A, B, Deciding(d)), SameBut(A, B, d.source, spot),
         SameBlanks(A, B, Columns(d)),
         NEW report \in CalculateTable(A, d), NEW other \in CalculateTable(B, d)
  PROVE  SameFluxes(d, report, other, spot)
<1>. SUFFICES ASSUME NEW g \in DOMAIN report.groups, NEW rows, spot \notin {<<d.source, i>> : i \in rows}
              PROVE  ByRecord(other.groups[g], "regional_flux", rows) = ByRecord(report.groups[g], "regional_flux", rows)
  BY DEF SameFluxes
<1> DEFINE items == RowsTaken(A, d, g)
           P(T) == Picked(T, items)
           N(T, role) == Numbers(Cells(P(T), d.columns[role]))
<1>1. /\ Accepted(d) /\ GroupNames(B, d) = GroupNames(A, d) /\ g \in GroupNames(A, d)
      /\ RowsTaken(B, d, g) = items /\ items \in Seq(DOMAIN A)
  BY TableReport, SameRowsTaken
<1>2. /\ report.groups[g] = GroupOfRows(d, items, P(A)) /\ report.groups[g].ok
      /\ other.groups[g] = GroupOfRows(d, items, P(B)) /\ other.groups[g].ok
  BY <1>1, TableReport
<1>3. \A k \in DOMAIN items : items[k] \in DOMAIN A
  BY <1>1
<1>. HIDE DEF items
<1>4. SomeBlank(d, P(B)) <=> SomeBlank(d, P(A))
  <2>1. \A r \in DOMAIN d.columns : \A k \in DOMAIN items :
          B[items[k]][d.columns[r]] = {} <=> A[items[k]][d.columns[r]] = {}
    BY <1>3 DEF SameBlanks, Columns
  <2>. QED
    BY <2>1 DEF SomeBlank, Blank, Cells, Picked, ToSet
<1>5. CASE d.op \in RangeOps \/ SomeBlank(d, P(A)) \/ d.op # "partition"
  <2>1. \A ok, result : "regional_flux" \notin DOMAIN Group(ok, items, result, << >>).parts
    BY DEF Group
  <2>2. \A T \in {A, B} : "regional_flux" \notin DOMAIN GroupOfRows(d, items, P(T)).parts
    BY <1>4, <1>5, <2>1 DEF GroupOfRows, RangeGroup
  <2>. QED
    BY <1>2, <2>2 DEF ByRecord
<1>6. CASE d.op \notin RangeOps /\ ~SomeBlank(d, P(A)) /\ d.op = "partition"
  <2>1. \A T \in {A, B} : GroupOfRows(d, items, P(T)) = PartitionGroup(d, items, N(T, "area"), N(T, "rate"))
    BY <1>4, <1>6 DEF GroupOfRows
  <2>2. \A T \in {A, B} : GroupOfRows(d, items, P(T)).parts = PartitionParts(N(T, "area"), N(T, "rate"))
                          /\ GroupOfRows(d, items, P(T)).records = items
    BY <1>2, <2>1 DEF PartitionGroup, Group
  <2> DEFINE Number(row, role) == Int2Q(CHOOSE n \in row[d.columns[role]] : TRUE)
             Flux(row) == Over(Number(row, "rate"), Number(row, "area"))
             Parts(T) == PartitionParts(N(T, "area"), N(T, "rate"))
  <2>3. \A T \in {A, B} : /\ "regional_flux" \in DOMAIN Parts(T)
                           /\ Parts(T)["regional_flux"] = [k \in DOMAIN items |-> Flux(T[items[k]])]
    BY DEF PartitionParts, Numbers, Cells, Picked, Each
  <2>4. \A k \in DOMAIN items : items[k] \in rows => B[items[k]] = A[items[k]]
    BY <1>3 DEF SameBut
  <2>. HIDE DEF Flux, Parts, P
  <2>5. \A T \in {A, B} : ByRecord(GroupOfRows(d, items, P(T)), "regional_flux", rows)
                           = {Flux(T[items[k]]) : k \in {j \in DOMAIN items : items[j] \in rows}}
    <3>. TAKE T \in {A, B}
    <3>1. /\ GroupOfRows(d, items, P(T)).parts = Parts(T) /\ GroupOfRows(d, items, P(T)).records = items
      BY <2>2 DEF Parts, P
    <3>. QED
      BY <2>3, <3>1 DEF ByRecord
  <2>6. {Flux(B[items[k]]) : k \in {j \in DOMAIN items : items[j] \in rows}}
        = {Flux(A[items[k]]) : k \in {j \in DOMAIN items : items[j] \in rows}}
    BY <2>4
  <2>. QED
    BY <1>2, <2>5, <2>6
<1>. QED
  BY <1>5, <1>6

\* The columns that decide which elements are in a region.
Bordering(d) == {d.columns[a] : a \in Axes \cap DOMAIN d.columns} \cup UNION {r.column : r \in ToSet(d.region)}

\* The same elements are inside.
LEMMA SameInside ==
  ASSUME NEW A, NEW B, NEW d, Numbered(A), Agree(A, B, Bordering(d)), RegionsFit(A, d),
         NEW name \in RegionNames(d)
  PROVE  Inside(B, d, name) = Inside(A, d, name) /\ Inside(A, d, name) \in Seq(DOMAIN A)
<1> DEFINE r == RegionOf(d, name)
           In(T) == {i \in DOMAIN T : Below(Zero, ShareOf(T[i], d, r))}
<1>1. r \in {Everything} \cup ToSet(d.region)
  BY DEF RegionNames, RegionOf
<1>. HIDE DEF r
<1>2. \A i \in DOMAIN A : ShareOf(B[i], d, r) = ShareOf(A[i], d, r)
  <2>. TAKE i \in DOMAIN A
  <2>1. CASE r.column # {}
    <3>1. r \in ToSet(d.region)
      BY <1>1, <2>1 DEF Everything
    <3>2. (CHOOSE c \in r.column : TRUE) \in Bordering(d)
      BY <2>1, <3>1 DEF Bordering
    <3>3. B[i][CHOOSE c \in r.column : TRUE] = A[i][CHOOSE c \in r.column : TRUE]
      BY <3>2 DEF Agree
    <3>. QED
      BY <2>1, <3>3 DEF ShareOf
  <2>2. CASE r.column = {}
    <3>1. \A a \in DOMAIN r.box : a \in Axes \cap DOMAIN d.columns
      <4>1. CASE r \in ToSet(d.region)
        BY <2>2, <4>1 DEF RegionsFit, ToSet
      <4>2. CASE r = Everything
        BY <4>2 DEF Everything
      <4>. QED
        BY <1>1, <4>1, <4>2
    <3>2. \A a \in DOMAIN r.box : Cell(B[i], d, a) = Cell(A[i], d, a)
      BY <3>1 DEF Cell, Bordering, Agree
    <3>. QED
      BY <2>2, <3>2 DEF ShareOf
  <2>. QED
    BY <2>1, <2>2
<1>3. In(B) = In(A) /\ In(A) \subseteq Nat /\ IsFiniteSet(In(A)) /\ In(A) \subseteq DOMAIN A
  <2>1. In(B) = In(A) /\ In(A) \subseteq DOMAIN A
    BY <1>2 DEF Agree
  <2>. HIDE DEF In
  <2>. QED
    BY <2>1, FS_Subset DEF Numbered
<1>4. \A T : Inside(T, d, name) = Ascending(In(T))
  BY DEF Inside, r
<1>. HIDE DEF In
<1>5. Ascending(In(A)) \in Seq(In(A))
  BY <1>3, AscendingIn
<1>6. Ascending(In(A)) \in Seq(DOMAIN A)
  BY <1>3, <1>5
<1>. QED
  BY <1>3, <1>4, <1>6

LEMMA IntegralFollows ==
  ASSUME NEW A, NEW B, NEW d, NEW source, NEW spot, Numbered(A), Agree(A, B, Bordering(d)),
         SameBut(A, B, source, spot),
         NEW report \in FieldIntegral(A, d), NEW other \in FieldIntegral(B, d)
  PROVE  /\ report.d = d /\ other.d = d
         /\ DOMAIN report.groups = RegionNames(d) /\ DOMAIN other.groups = RegionNames(d)
         /\ \A g \in RegionNames(d) :
              /\ report.groups[g].others = << >>
              /\ other.groups[g].records = report.groups[g].records
              /\ spot \notin {<<source, i>> : i \in ToSet(report.groups[g].records)} =>
                   other.groups[g] = report.groups[g]
<1>1. \A T : \A r \in FieldIntegral(T, d) :
        /\ r.d = d /\ DOMAIN r.groups = RegionNames(d) /\ RegionsFit(T, d)
        /\ \A g \in RegionNames(d) : r.groups[g] = IntegralGroup(T, d, g)
  BY DEF FieldIntegral
<1>2. ASSUME NEW g \in RegionNames(d)
      PROVE  /\ report.groups[g].others = << >>
             /\ other.groups[g].records = report.groups[g].records
             /\ spot \notin {<<source, i>> : i \in ToSet(report.groups[g].records)} =>
                  other.groups[g] = report.groups[g]
  <2> DEFINE inside == Inside(A, d, g)
  <2>1. Inside(B, d, g) = inside /\ inside \in Seq(DOMAIN A)
    BY <1>1, SameInside
  <2>2. /\ report.groups[g] = Reduced(inside, << >>, IntegralResult(d, g, Picked(A, inside)))
        /\ other.groups[g] = Reduced(inside, << >>, IntegralResult(d, g, Picked(B, inside)))
    BY <1>1, <2>1 DEF IntegralGroup
  <2>. HIDE DEF inside
  <2>3. report.groups[g].records = inside /\ other.groups[g].records = inside /\ report.groups[g].others = << >>
    BY <2>2 DEF Reduced
  <2>4. ASSUME spot \notin {<<source, i>> : i \in ToSet(inside)} PROVE other.groups[g] = report.groups[g]
    <3>1. Picked(B, inside) = Picked(A, inside)
      BY <2>1, <2>4, SamePicked
    <3>. QED
      BY <2>2, <3>1
  <2>. QED
    BY <2>3, <2>4
<1>. QED
  BY <1>1, <1>2

\* Elements have the places they had, and so the same partners.
LEMMA DifferenceFollows ==
  ASSUME NEW A, NEW B, NEW oldA, NEW oldB, NEW d, NEW spot, Numbered(A),
         Agree(A, B, Deciding(d)), Agree(oldA, oldB, Deciding(d)),
         SameBut(A, B, d.source, spot), SameBut(oldA, oldB, Other(d), spot),
         NEW report \in FieldDifference(A, oldA, d), NEW other \in FieldDifference(B, oldB, d)
  PROVE  SameGroups(d, report, other, spot)
<1>1. \A T, old : \A r \in FieldDifference(T, old, d) :
        /\ r.d = d /\ DOMAIN r.groups = RegionNames(d)
        /\ DifferenceAccepted(d) /\ PairsFit(T, old, d) /\ RegionsFit(T, d)
        /\ \A g \in RegionNames(d) : r.groups[g] = DifferenceGroup(T, old, d, g)
  BY DEF FieldDifference
<1>2. \A a \in Axes : /\ a \in DOMAIN d.columns /\ d.columns[a] \in Deciding(d)
                      /\ ReferenceRole(d, a) \in DOMAIN d.columns /\ d.columns[ReferenceRole(d, a)] \in Deciding(d)
  <2>. TAKE a \in Axes
  <2>1. a \in DOMAIN d.columns
    BY <1>1 DEF DifferenceAccepted
  <2>2. ReferenceRole(d, a) = IF d.separate THEN a ELSE "reference_" \o a
    BY DEF ReferenceRole, Axes
  <2>3. ReferenceRole(d, a) \in DOMAIN d.columns
    <3>1. CASE d.separate
      BY <2>1, <2>2, <3>1
    <3>2. CASE ~d.separate
      <4>1. a # NewRole(d)
        BY <3>2 DEF NewRole, Axes
      <4>. QED
        BY <1>1, <3>2, <4>1 DEF DifferenceAccepted
    <3>. QED
      BY <3>1, <3>2
  <2>. QED
    BY <2>1, <2>2, <2>3 DEF Deciding
<1>3. Bordering(d) \subseteq Deciding(d)
  BY DEF Bordering, Deciding
<1>4. \A i \in DOMAIN A : PlaceOf(B[i], d) = PlaceOf(A[i], d)
  BY <1>2 DEF PlaceOf, Cell, Agree
<1>5. \A j \in DOMAIN oldA : OldPlaceOf(oldB[j], d) = OldPlaceOf(oldA[j], d)
  BY <1>2 DEF OldPlaceOf, Cell, Agree
<1>6. \A i \in DOMAIN A : Partner(B, oldB, d, i) = Partner(A, oldA, d, i) /\ Partner(A, oldA, d, i) \in DOMAIN oldA
  <2>. TAKE i \in DOMAIN A
  <2>1. \E j \in DOMAIN oldA : OldPlaceOf(oldA[j], d) = PlaceOf(A[i], d)
    BY <1>1 DEF PairsFit
  <2>2. \A j : (j \in DOMAIN oldB /\ OldPlaceOf(oldB[j], d) = PlaceOf(B[i], d))
               <=> (j \in DOMAIN oldA /\ OldPlaceOf(oldA[j], d) = PlaceOf(A[i], d))
    BY <1>4, <1>5 DEF Agree
  <2>. QED
    BY <2>1, <2>2 DEF Partner
<1>7. ASSUME NEW g \in RegionNames(d), spot \notin Records(d, report.groups[g])
      PROVE  other.groups[g] = report.groups[g]
  <2> DEFINE inside == Inside(A, d, g)
             partners == [k \in DOMAIN inside |-> Partner(A, oldA, d, inside[k])]
  <2>1. Inside(B, d, g) = inside /\ inside \in Seq(DOMAIN A)
    BY <1>1, <1>3, SameInside DEF Agree
  <2>2. /\ [k \in DOMAIN inside |-> Partner(B, oldB, d, inside[k])] = partners
        /\ \A k \in DOMAIN inside : partners[k] \in DOMAIN oldA
        /\ DOMAIN partners = DOMAIN inside
    BY <1>6, <2>1
  <2>3. /\ report.groups[g] = Reduced(inside, partners, DifferenceResult(d, g, Picked(A, inside), Picked(oldA, partners)))
        /\ other.groups[g] = Reduced(inside, partners, DifferenceResult(d, g, Picked(B, inside), Picked(oldB, partners)))
    BY <1>1, <2>1, <2>2 DEF DifferenceGroup
  <2>. HIDE DEF inside, partners
  <2>4. report.groups[g].records = inside /\ report.groups[g].others = partners
    BY <2>3 DEF Reduced
  <2>5. /\ \A i \in ToSet(inside) : <<d.source, i>> # spot
        /\ \A i \in ToSet(partners) : <<Other(d), i>> # spot
    BY <1>7, <2>4 DEF Records
  <2>6. Picked(B, inside) = Picked(A, inside)
    BY <2>1, <2>5, SamePicked
  <2>7. partners \in Seq(DOMAIN oldA)
    BY <2>1, <2>2
  <2>8. Picked(oldB, partners) = Picked(oldA, partners)
    BY <2>5, <2>7, SamePicked
  <2>. QED
    BY <2>3, <2>6, <2>8
<1>8. DOMAIN report.groups = RegionNames(d) /\ DOMAIN other.groups = RegionNames(d) /\ report.d = d /\ other.d = d
  BY <1>1
<1>. QED
  BY <1>7, <1>8 DEF SameGroups

\* A budget rests on every row.
LEMMA BudgetFollows ==
  ASSUME NEW A, NEW B, NEW d, NEW spot, SameBut(A, B, d.source, spot), IsFunction(A), IsFunction(B),
         NEW report \in EnergyBudget(A, d), NEW other \in EnergyBudget(B, d)
  PROVE  SameGroups(d, report, other, spot)
<1> DEFINE Whole(T) == Reduced([i \in DOMAIN T |-> i], << >>, BudgetResult(T, d))
<1>1. \A T : \A r \in EnergyBudget(T, d) : r = [d |-> d, groups |-> [name \in {"all"} |-> Whole(T)]]
  BY DEF EnergyBudget
<1>. HIDE DEF Whole
<1>2. report.d = d /\ DOMAIN report.groups = {"all"} /\ report.groups["all"] = Whole(A)
  <2>1. report = [d |-> d, groups |-> [name \in {"all"} |-> Whole(A)]]
    BY <1>1
  <2>. QED
    BY <2>1
<1>3. other.d = d /\ DOMAIN other.groups = {"all"} /\ other.groups["all"] = Whole(B)
  <2>1. other = [d |-> d, groups |-> [name \in {"all"} |-> Whole(B)]]
    BY <1>1
  <2>. QED
    BY <2>1
<1>4. ASSUME spot \notin Records(d, report.groups["all"])
      PROVE  other.groups["all"] = report.groups["all"]
  <2>1. report.groups["all"].records = [i \in DOMAIN A |-> i]
    BY <1>2 DEF Reduced, Whole
  <2>2. ASSUME NEW j \in DOMAIN A PROVE j \in ToSet(report.groups["all"].records)
    BY <2>1 DEF ToSet
  <2>3. \A j \in DOMAIN A : <<d.source, j>> # spot
    BY <1>4, <2>2 DEF Records
  <2>4. B = A
    BY <2>3 DEF SameBut, IsFunction
  <2>. QED
    BY <1>2, <1>3, <2>4
<1>. QED
  BY <1>2, <1>3, <1>4 DEF SameGroups

\* A change of a mean has the means of its two surfaces, and their measure.
LEMMA ContributionStates ==
  ASSUME NEW a, NEW b, NEW g
  PROVE  /\ Contribution(a, b, g).records = b.groups[g].records
         /\ Contribution(a, b, g).others = a.groups[g].records
         /\ Contribution(a, b, g).parts = << >>
         /\ \A field : field \notin OfTheWhole =>
              Stated(Contribution(a, b, g), field) =
                IF field = "reference_mean" THEN {Only(a, g, "weighted_mean")}
                ELSE IF field = "comparison_mean" THEN {Only(b, g, "weighted_mean")}
                ELSE IF field = "difference_mean" THEN {Minus(Only(b, g, "weighted_mean"), Only(a, g, "weighted_mean"))}
                ELSE IF field = "measure" THEN {Only(b, g, "measure")} ELSE {}
<1> DEFINE Parts(change) ==
             [reference_mean |-> {Only(a, g, "weighted_mean")}, comparison_mean |-> {Only(b, g, "weighted_mean")},
              difference_mean |-> {change}, reference_weight |-> {Weight(a, g)}, comparison_weight |-> {Weight(b, g)},
              contribution |-> {Times(Weight(a, g), change)}, measure |-> {Only(b, g, "measure")}]
           change == Minus(Only(b, g, "weighted_mean"), Only(a, g, "weighted_mean"))
<1>1. Contribution(a, b, g) = Reduced(b.groups[g].records, a.groups[g].records, {Parts(change)})
  BY DEF Contribution
<1>. HIDE DEF Parts
<1>2. /\ Contribution(a, b, g).records = b.groups[g].records
      /\ Contribution(a, b, g).others = a.groups[g].records
      /\ Contribution(a, b, g).parts = << >> /\ Contribution(a, b, g).result = {Parts(change)}
  BY <1>1 DEF Reduced
<1>3. \A field : Stated(Contribution(a, b, g), field) =
                   IF field \in DOMAIN Parts(change) THEN Parts(change)[field] ELSE {}
  BY <1>2 DEF Stated
<1>4. /\ DOMAIN Parts(change) = {"reference_mean", "comparison_mean", "difference_mean", "measure"} \cup OfTheWhole
      /\ Parts(change)["reference_mean"] = {Only(a, g, "weighted_mean")}
      /\ Parts(change)["comparison_mean"] = {Only(b, g, "weighted_mean")}
      /\ Parts(change)["difference_mean"] = {change} /\ Parts(change)["measure"] = {Only(b, g, "measure")}
  BY DEF Parts, OfTheWhole
<1>. HIDE DEF change
<1>5. \A field : field \notin OfTheWhole =>
        Stated(Contribution(a, b, g), field) =
          IF field = "reference_mean" THEN {Only(a, g, "weighted_mean")}
          ELSE IF field = "comparison_mean" THEN {Only(b, g, "weighted_mean")}
          ELSE IF field = "difference_mean" THEN {change}
          ELSE IF field = "measure" THEN {Only(b, g, "measure")} ELSE {}
  BY <1>3, <1>4
<1>. QED
  BY <1>2, <1>5 DEF change

LEMMA ChangeFollows ==
  ASSUME NEW A, NEW B, NEW oldA, NEW oldB, NEW d, NEW spot, Numbered(A), Numbered(oldA),
         Agree(A, B, Deciding(d)), Agree(oldA, oldB, Deciding(d)), {"region", "columns"} \subseteq DOMAIN d,
         d.op = "partition_change",
         SameBut(A, B, d.source, spot), SameBut(oldA, oldB, Other(d), spot),
         NEW report \in PartitionChange(A, oldA, d), NEW other \in PartitionChange(B, oldB, d)
  PROVE  /\ report.d = d /\ other.d = d /\ DOMAIN other.groups = DOMAIN report.groups
         /\ \A g \in DOMAIN report.groups :
              /\ report.groups[g].parts = << >> /\ other.groups[g].parts = << >>
              /\ other.groups[g].records = report.groups[g].records
              /\ other.groups[g].others = report.groups[g].others
              /\ spot \notin Records(d, report.groups[g]) => \A field : field \notin OfTheWhole =>
                   Stated(other.groups[g], field) = Stated(report.groups[g], field)
<1> DEFINE e == [d EXCEPT !.region = d.oldRegion]
<1>1. \A T, old : \A r \in PartitionChange(T, old, d) : \E a \in FieldIntegral(old, e), b \in FieldIntegral(T, d) :
        r = [d |-> d, groups |-> [g \in DOMAIN b.groups |-> Contribution(a, b, g)]]
  BY DEF PartitionChange
<1>2. e.columns = d.columns /\ e.region = d.oldRegion
  OBVIOUS
<1>. HIDE DEF e
<1>3. Bordering(d) \subseteq Deciding(d) /\ Bordering(e) \subseteq Deciding(d)
  BY <1>2 DEF Bordering, Deciding
<1>4. PICK a \in FieldIntegral(oldA, e), b \in FieldIntegral(A, d) :
        report = [d |-> d, groups |-> [g \in DOMAIN b.groups |-> Contribution(a, b, g)]]
  BY <1>1
<1>5. PICK p \in FieldIntegral(oldB, e), q \in FieldIntegral(B, d) :
        other = [d |-> d, groups |-> [g \in DOMAIN q.groups |-> Contribution(p, q, g)]]
  BY <1>1
<1>6. /\ DOMAIN b.groups = RegionNames(d) /\ DOMAIN q.groups = RegionNames(d)
      /\ \A g \in RegionNames(d) :
           /\ q.groups[g].records = b.groups[g].records
           /\ spot \notin {<<d.source, i>> : i \in ToSet(b.groups[g].records)} => q.groups[g] = b.groups[g]
  <2>1. Agree(A, B, Bordering(d))
    BY <1>3 DEF Agree
  <2>. QED
    BY <2>1, IntegralFollows
<1>7. /\ DOMAIN a.groups = RegionNames(e)
      /\ \A g \in RegionNames(e) :
           /\ p.groups[g].records = a.groups[g].records
           /\ spot \notin {<<Other(d), i>> : i \in ToSet(a.groups[g].records)} => p.groups[g] = a.groups[g]
  <2>1. Agree(oldA, oldB, Bordering(e))
    BY <1>3 DEF Agree
  <2>. QED
    BY <2>1, IntegralFollows
<1>8. RegionNames(e) = RegionNames(d)
  <2>1. Each(d.region, LAMBDA r : r.id) = Each(d.oldRegion, LAMBDA r : r.id)
    BY DEF PartitionChange, PartitionAccepted
  <2>2. /\ DOMAIN d.region = DOMAIN d.oldRegion
        /\ \A k \in DOMAIN d.region : d.region[k].id = d.oldRegion[k].id
    BY <2>1 DEF Each
  <2>3. {r.id : r \in ToSet(d.region)} = {r.id : r \in ToSet(d.oldRegion)}
    BY <2>2 DEF ToSet
  <2>. QED
    BY <1>2, <2>3 DEF RegionNames
<1>9. /\ report.d = d /\ other.d = d
      /\ DOMAIN report.groups = RegionNames(d) /\ DOMAIN other.groups = RegionNames(d)
      /\ \A g \in RegionNames(d) : report.groups[g] = Contribution(a, b, g) /\ other.groups[g] = Contribution(p, q, g)
  BY <1>4, <1>5, <1>6
<1>10. ASSUME NEW g \in RegionNames(d)
       PROVE  /\ report.groups[g].parts = << >> /\ other.groups[g].parts = << >>
              /\ other.groups[g].records = report.groups[g].records
              /\ other.groups[g].others = report.groups[g].others
              /\ spot \notin Records(d, report.groups[g]) => \A field : field \notin OfTheWhole =>
                   Stated(other.groups[g], field) = Stated(report.groups[g], field)
  <2>1. /\ report.groups[g].parts = << >> /\ other.groups[g].parts = << >>
        /\ report.groups[g].records = b.groups[g].records /\ report.groups[g].others = a.groups[g].records
        /\ other.groups[g].records = q.groups[g].records /\ other.groups[g].others = p.groups[g].records
    BY <1>9, ContributionStates
  <2>2. ASSUME spot \notin Records(d, report.groups[g]), NEW field, field \notin OfTheWhole
        PROVE  Stated(other.groups[g], field) = Stated(report.groups[g], field)
    <3>1. q.groups[g] = b.groups[g] /\ p.groups[g] = a.groups[g]
      BY <1>6, <1>7, <1>8, <2>1, <2>2 DEF Records
    <3>2. \A f : Only(q, g, f) = Only(b, g, f) /\ Only(p, g, f) = Only(a, g, f)
      BY <3>1 DEF Only
    <3>3. \A x, y : Stated(Contribution(x, y, g), field) =
                IF field = "reference_mean" THEN {Only(x, g, "weighted_mean")}
                ELSE IF field = "comparison_mean" THEN {Only(y, g, "weighted_mean")}
                ELSE IF field = "difference_mean" THEN {Minus(Only(y, g, "weighted_mean"), Only(x, g, "weighted_mean"))}
                ELSE IF field = "measure" THEN {Only(y, g, "measure")} ELSE {}
      BY <2>2, ContributionStates
    <3>. QED
      BY <1>9, <3>2, <3>3
  <2>3. other.groups[g].records = report.groups[g].records /\ other.groups[g].others = report.groups[g].others
    BY <1>6, <1>7, <1>8, <2>1
  <2>. QED
    BY <2>1, <2>2, <2>3
<1>. QED
  BY <1>9, <1>10

\* Two groups that say the same, except of weights and contributions.
SaysTheSame(a, b) ==
  /\ b.records = a.records /\ b.others = a.others
  /\ \A field : field \notin OfTheWhole => Stated(b, field) = Stated(a, field)
  /\ \A field, rows : ByRecord(b, field, rows) = ByRecord(a, field, rows)
\* Two reports that say the same of whatever does not rest on a place.
Agreeing(report, other, spot) ==
  /\ other.d = report.d /\ report.d.op # "result_comparison" /\ DOMAIN other.groups = DOMAIN report.groups
  /\ \A g \in DOMAIN report.groups :
       /\ spot \notin Records(report.d, report.groups[g]) => SaysTheSame(report.groups[g], other.groups[g])
       /\ \A rows : spot \notin {<<report.d.source, i>> : i \in rows} =>
            ByRecord(other.groups[g], "regional_flux", rows) = ByRecord(report.groups[g], "regional_flux", rows)
\* Sources that differ in numbers at one place.
OnlyAt(d, sources, others, spot) ==
  \A m \in Sources(d) :
    /\ IsList(sources[m]) /\ IsFunction(others[m]) /\ SameBut(sources[m], others[m], m, spot)
    /\ Agree(sources[m], others[m], Deciding(d)) /\ SameBlanks(sources[m], others[m], Columns(d))

LEMMA TablesAreNumbered == ASSUME NEW T, IsList(T) PROVE Numbered(T) /\ IsFunction(T)
<1>1. T \in Seq(ToSet(T))
  BY DEF IsList
<1>. HIDE DEF IsList
<1>2. Len(T) \in Nat /\ DOMAIN T = 1..Len(T) /\ T = [n \in DOMAIN T |-> T[n]]
  BY <1>1
<1>3. IsFiniteSet(1..Len(T))
  BY <1>2, FS_Interval
<1>. QED
  BY <1>2, <1>3 DEF Numbered, IsFunction

LEMMA CalculateIs ==
  ASSUME NEW d, NEW tables
  PROVE  /\ d.op = "field_integral" => Calculate(d, tables) = FieldIntegral(tables[d.source], d)
         /\ d.op = "field_difference" => Calculate(d, tables) = FieldDifference(tables[d.source], tables[Other(d)], d)
         /\ d.op = "energy_budget" => Calculate(d, tables) = EnergyBudget(tables[d.source], d)
         /\ d.op = "partition_change" => Calculate(d, tables) = PartitionChange(tables[d.source], tables[Other(d)], d)
         /\ d.op \notin FieldOps => Calculate(d, tables) = CalculateTable(tables[d.source], d)
<1>1. d.op = "field_integral" => Calculate(d, tables) = FieldIntegral(tables[d.source], d)
  BY DEF Calculate, FieldOps
<1>2. d.op = "field_difference" => Calculate(d, tables) = FieldDifference(tables[d.source], tables[Other(d)], d)
  BY DEF Calculate, FieldOps
<1>3. d.op = "energy_budget" => Calculate(d, tables) = EnergyBudget(tables[d.source], d)
  BY DEF Calculate, FieldOps
<1>4. d.op = "partition_change" => Calculate(d, tables) = PartitionChange(tables[d.source], tables[Other(d)], d)
  BY DEF Calculate, FieldOps
<1>5. d.op \notin FieldOps => Calculate(d, tables) = CalculateTable(tables[d.source], d)
  BY DEF Calculate, FieldOps
<1>. QED
  BY <1>1, <1>2, <1>3, <1>4, <1>5

\* Nothing is calculated for each record but in a partition.
LEMMA FieldParts ==
  ASSUME NEW d, d.op \in FieldOps, NEW sources, NEW report \in Calculate(d, sources), NEW g \in DOMAIN report.groups
  PROVE  report.groups[g].parts = << >>
<1>1. \A records, others, result : Reduced(records, others, result).parts = << >>
  BY DEF Reduced
<1>2. CASE d.op = "field_integral"
  <2>1. report \in FieldIntegral(sources[d.source], d)
    BY <1>2, CalculateIs
  <2>. QED
    BY <1>1, <2>1 DEF FieldIntegral, IntegralGroup
<1>3. CASE d.op = "field_difference"
  <2>1. report \in FieldDifference(sources[d.source], sources[Other(d)], d)
    BY <1>3, CalculateIs
  <2>2. report.groups[g] = DifferenceGroup(sources[d.source], sources[Other(d)], d, g)
    BY <2>1 DEF FieldDifference
  <2>. QED
    BY <1>1, <2>2 DEF DifferenceGroup
<1>4. CASE d.op = "energy_budget"
  <2>1. report \in EnergyBudget(sources[d.source], d)
    BY <1>4, CalculateIs
  <2>2. report.groups =
          [name \in {"all"} |-> Reduced([i \in DOMAIN sources[d.source] |-> i], << >>, BudgetResult(sources[d.source], d))]
    BY <2>1 DEF EnergyBudget
  <2>. QED
    BY <1>1, <2>2
<1>5. CASE d.op = "partition_change"
  <2>1. report \in PartitionChange(sources[d.source], sources[Other(d)], d)
    BY <1>5, CalculateIs
  <2>2. \E a, b : report.groups = [name \in DOMAIN b.groups |-> Contribution(a, b, name)]
    BY <2>1 DEF PartitionChange
  <2>3. \A a, b, name : Contribution(a, b, name).parts = << >>
    BY ContributionStates
  <2>. QED
    BY <2>2, <2>3
<1>. QED
  BY <1>2, <1>3, <1>4, <1>5 DEF FieldOps

LEMMA CalculationFollows ==
  ASSUME NEW d, NEW sources, NEW others, NEW spot, OnlyAt(d, sources, others, spot),
         {"region", "columns"} \subseteq DOMAIN d,
         NEW report \in Calculate(d, sources), NEW other \in Calculate(d, others)
  PROVE  report.d = d /\ Agreeing(report, other, spot)
<1> DEFINE A == sources[d.source]
           B == others[d.source]
           oldA == sources[Other(d)]
           oldB == others[Other(d)]
<1>1. /\ Numbered(A) /\ Numbered(oldA) /\ IsFunction(A) /\ IsFunction(B)
      /\ SameBut(A, B, d.source, spot) /\ SameBut(oldA, oldB, Other(d), spot)
      /\ Agree(A, B, Deciding(d)) /\ Agree(oldA, oldB, Deciding(d)) /\ SameBlanks(A, B, Columns(d))
  BY TablesAreNumbered DEF OnlyAt, Sources
<1>. HIDE DEF A, B, oldA, oldB
<1>2. \A a : SaysTheSame(a, a)
  BY DEF SaysTheSame
<1>3. \A a, rows : a.parts = << >> => ByRecord(a, "regional_flux", rows) = {}
  BY DEF ByRecord
<1>4. CASE d.op \notin FieldOps
  <2>1. report \in CalculateTable(A, d) /\ other \in CalculateTable(B, d)
    BY <1>4, CalculateIs DEF A, B
  <2>2. d.op # "result_comparison"
    BY <2>1, TableReport, RolesOf
  <2>3. /\ report.d = d /\ other.d = d /\ DOMAIN other.groups = DOMAIN report.groups
        /\ \A g \in DOMAIN report.groups :
             spot \notin Records(d, report.groups[g]) => other.groups[g] = report.groups[g]
    <3>1. SameGroups(d, report, other, spot)
      BY <1>1, <2>1, TableFollows
    <3>. QED
      BY <3>1 DEF SameGroups
  <2>4. \A g \in DOMAIN report.groups : \A rows : spot \notin {<<d.source, i>> : i \in rows} =>
          ByRecord(other.groups[g], "regional_flux", rows) = ByRecord(report.groups[g], "regional_flux", rows)
    <3>1. SameFluxes(d, report, other, spot)
      BY <1>1, <2>1, FluxFollows
    <3>. QED
      BY <3>1 DEF SameFluxes
  <2>. QED
    BY <1>2, <2>2, <2>3, <2>4 DEF Agreeing
<1>5. CASE d.op \in FieldOps
  <2>1. /\ report.d = d /\ other.d = d /\ DOMAIN other.groups = DOMAIN report.groups
        /\ \A g \in DOMAIN report.groups :
             spot \notin Records(d, report.groups[g]) => SaysTheSame(report.groups[g], other.groups[g])
    <3>1. CASE d.op = "field_integral"
      <4>1. report \in FieldIntegral(A, d) /\ other \in FieldIntegral(B, d)
        BY <3>1, CalculateIs DEF A, B
      <4>2. Agree(A, B, Bordering(d))
        BY <1>1 DEF Agree, Bordering, Deciding
      <4>3. /\ report.d = d /\ other.d = d /\ DOMAIN report.groups = RegionNames(d) /\ DOMAIN other.groups = RegionNames(d)
            /\ \A g \in RegionNames(d) :
                 spot \notin {<<d.source, i>> : i \in ToSet(report.groups[g].records)} =>
                   other.groups[g] = report.groups[g]
        BY <1>1, <4>1, <4>2, IntegralFollows
      <4>. QED
        BY <1>2, <4>3 DEF Records
    <3>2. CASE d.op = "field_difference"
      <4>1. report \in FieldDifference(A, oldA, d) /\ other \in FieldDifference(B, oldB, d)
        BY <3>2, CalculateIs DEF A, B, oldA, oldB
      <4>. QED
        BY <1>1, <1>2, <4>1, DifferenceFollows DEF SameGroups
    <3>3. CASE d.op = "energy_budget"
      <4>1. report \in EnergyBudget(A, d) /\ other \in EnergyBudget(B, d)
        BY <3>3, CalculateIs DEF A, B
      <4>2. /\ report.d = d /\ other.d = d /\ DOMAIN other.groups = DOMAIN report.groups
            /\ \A g \in DOMAIN report.groups :
                 spot \notin Records(d, report.groups[g]) => other.groups[g] = report.groups[g]
        <5>1. SameGroups(d, report, other, spot)
          BY <1>1, <4>1, BudgetFollows
        <5>. QED
          BY <5>1 DEF SameGroups
      <4>. QED
        BY <1>2, <4>2
    <3>4. CASE d.op = "partition_change"
      <4>1. report \in PartitionChange(A, oldA, d) /\ other \in PartitionChange(B, oldB, d)
        BY <3>4, CalculateIs DEF A, B, oldA, oldB
      <4>2. /\ report.d = d /\ other.d = d /\ DOMAIN other.groups = DOMAIN report.groups
            /\ \A g \in DOMAIN report.groups :
                 /\ report.groups[g].parts = << >> /\ other.groups[g].parts = << >>
                 /\ other.groups[g].records = report.groups[g].records
                 /\ other.groups[g].others = report.groups[g].others
                 /\ spot \notin Records(d, report.groups[g]) => \A field : field \notin OfTheWhole =>
                      Stated(other.groups[g], field) = Stated(report.groups[g], field)
        BY <1>1, <3>4, <4>1, ChangeFollows
      <4>3. \A a, b, field, rows : a.parts = << >> /\ b.parts = << >> => ByRecord(b, field, rows) = ByRecord(a, field, rows)
        BY DEF ByRecord
      <4>. QED
        BY <4>2, <4>3 DEF SaysTheSame
    <3>. QED
      BY <1>5, <3>1, <3>2, <3>3, <3>4 DEF FieldOps
  <2>2. \A g \in DOMAIN report.groups : report.groups[g].parts = << >> /\ other.groups[g].parts = << >>
    BY <1>5, <2>1, FieldParts
  <2>3. d.op # "result_comparison"
    BY <1>5 DEF FieldOps
  <2>4. \A g \in DOMAIN report.groups : \A rows :
          ByRecord(other.groups[g], "regional_flux", rows) = ByRecord(report.groups[g], "regional_flux", rows)
    BY <1>3, <2>1, <2>2
  <2>. QED
    BY <2>1, <2>3, <2>4 DEF Agreeing
<1>. QED
  BY <1>4, <1>5

\* The reports of an input, and those of it with one place changed.
AllFollow(reports, others, spot) ==
  DOMAIN others = DOMAIN reports /\ \A id \in DOMAIN reports : Agreeing(reports[id], others[id], spot)

\* A number that is said to rest on other records is the same number.
LEMMA SameNumber ==
  ASSUME NEW report, NEW other, NEW spot, Agreeing(report, other, spot), NEW ref,
         ref.group \in DOMAIN report.groups, ref.field \notin OfTheWhole, spot \notin Cited(report, ref)
  PROVE  RawValue(other, ref) = RawValue(report, ref) /\ Cited(other, ref) = Cited(report, ref)
<1> DEFINE a == report.groups[ref.group]
           b == other.groups[ref.group]
<1>1. report.d.op # "result_comparison" /\ other.d = report.d
  BY DEF Agreeing
<1>2. CASE ref.field = "regional_flux"
  <2>1. ByRecord(b, "regional_flux", ref.record) = ByRecord(a, "regional_flux", ref.record)
    BY <1>1, <1>2 DEF Agreeing, Cited
  <2>. QED
    BY <1>1, <1>2, <2>1 DEF RawValue, Cited, Regional
<1>3. CASE ref.field # "regional_flux"
  <2>1. SaysTheSame(a, b)
    BY <1>1, <1>3 DEF Agreeing, Cited
  <2>2. Records(other.d, b) = Records(report.d, a)
    BY <1>1, <2>1 DEF Records, SaysTheSame
  <2>3. Stated(b, "relative_change") = Stated(a, "relative_change") /\ Stated(b, ref.field) = Stated(a, ref.field)
    BY <2>1 DEF SaysTheSame, OfTheWhole
  <2>4. ByRecord(b, ref.field, ref.record) = ByRecord(a, ref.field, ref.record)
    BY <2>1 DEF SaysTheSame
  <2>5. Cited(other, ref) = Cited(report, ref)
    BY <1>1, <1>3, <2>2 DEF Cited
  <2>. HIDE DEF a, b
  <2>6. RawValue(other, ref) = RawValue(report, ref)
    BY <1>1, <2>3, <2>4 DEF RawValue, a, b
  <2>. QED
    BY <2>5, <2>6
<1>. QED
  BY <1>2, <1>3

\* How a resolved number says what it rests on.
LEMMA ResolvedCites ==
  ASSUME NEW reports, NEW ref, NEW x \in Resolve(reports, ref)
  PROVE  /\ ref.id \in DOMAIN reports /\ ref.group \in DOMAIN reports[ref.id].groups
         /\ (ref.record # {}) <=> (ref.field \in Regional)
         /\ x.cites = Cited(reports[ref.id], ref)
  BY DEF Resolve

\* What Resolve gives depends on the report, its number and its records.
LEMMA SameResolved ==
  ASSUME NEW reports, NEW others, NEW ref, ref.id \in DOMAIN reports, ref.id \in DOMAIN others,
         others[ref.id].d = reports[ref.id].d, DOMAIN others[ref.id].groups = DOMAIN reports[ref.id].groups,
         RawValue(others[ref.id], ref) = RawValue(reports[ref.id], ref),
         Cited(others[ref.id], ref) = Cited(reports[ref.id], ref)
  PROVE  Resolve(others, ref) = Resolve(reports, ref)
<1> DEFINE report == reports[ref.id]
           other == others[ref.id]
           Number(u, q, c) ==
             [value |-> FormatValue(IF ref.percentage THEN Times(q, Int2Q(100)) ELSE q, ref.places),
              unit |-> IF ref.percentage THEN "%" ELSE u, raw |-> q, cites |-> c]
           Refused(groups) == \/ ref.group \notin groups \/ (ref.record # {}) # (ref.field \in Regional)
                              \/ ref.percentage /\ ref.field \notin Percentages
<1>1. Resolve(reports, ref) = IF Refused(DOMAIN report.groups) THEN {}
        ELSE {Number(ResultUnit(report.d, ref.field), q, Cited(report, ref)) : q \in RawValue(report, ref)}
  BY DEF Resolve
<1>2. Resolve(others, ref) = IF Refused(DOMAIN other.groups) THEN {}
        ELSE {Number(ResultUnit(other.d, ref.field), q, Cited(other, ref)) : q \in RawValue(other, ref)}
  BY DEF Resolve
<1>. HIDE DEF Number, Refused
<1>. QED
  BY <1>1, <1>2

LEMMA ResolveFollows ==
  ASSUME NEW reports, NEW others, NEW spot, AllFollow(reports, others, spot), NEW ref,
         ref.field \notin OfTheWhole, NEW x \in Resolve(reports, ref), spot \notin x.cites
  PROVE  Resolve(others, ref) = Resolve(reports, ref)
<1>1. /\ ref.id \in DOMAIN reports /\ ref.group \in DOMAIN reports[ref.id].groups
      /\ x.cites = Cited(reports[ref.id], ref)
  BY ResolvedCites
<1>2. ref.id \in DOMAIN others /\ Agreeing(reports[ref.id], others[ref.id], spot)
  BY <1>1 DEF AllFollow
<1>3. /\ RawValue(others[ref.id], ref) = RawValue(reports[ref.id], ref)
      /\ Cited(others[ref.id], ref) = Cited(reports[ref.id], ref)
  BY <1>1, <1>2, SameNumber
<1>4. others[ref.id].d = reports[ref.id].d /\ DOMAIN others[ref.id].groups = DOMAIN reports[ref.id].groups
  BY <1>2 DEF Agreeing
<1>. QED
  BY <1>1, <1>2, <1>3, <1>4, SameResolved

\* A number that is compared, with what it is compared by.
LEMMA OperandFollows ==
  ASSUME NEW reports, NEW others, NEW spot, AllFollow(reports, others, spot), NEW ref, NEW domain,
         ref.field \notin OfTheWhole, NEW x \in Operand(reports, ref, domain), spot \notin x.cites
  PROVE  Operand(others, ref, domain) = Operand(reports, ref, domain)
<1> DEFINE whole == [id |-> ref.id, group |-> ref.group, field |-> ref.field, record |-> {}, places |-> 0,
                     percentage |-> FALSE]
           window == [whole EXCEPT !.field = "time_window"]
           Of(d, numbers, w) ==
             {[raw |-> p[1].raw, unit |-> p[1].unit, cites |-> p[1].cites, d |-> d, field |-> ref.field, kind |-> p[2],
               window |-> w]
                : p \in {p \in numbers \X ComparedKind(d, ref.field) : KindAndUnit(p[2], p[1].unit)}}
<1>1. \A all : Operand(all, ref, domain) =
        IF ref.id \notin DOMAIN all THEN {}
        ELSE IF ref.field \notin ComparableFields(all[ref.id].d.op) \/ all[ref.id].d.domain # domain THEN {}
        ELSE Of(all[ref.id].d, Resolve(all, whole), RawValue(all[ref.id], window))
  BY DEF Operand
<1>2. whole.id = ref.id /\ whole.group = ref.group /\ whole.field = ref.field /\ whole.record = {}
      /\ window.group = ref.group /\ window.field = "time_window" /\ window.record = {}
  OBVIOUS
<1>3. ref.id \in DOMAIN reports /\ x \in Of(reports[ref.id].d, Resolve(reports, whole), RawValue(reports[ref.id], window))
  <2>. HIDE DEF Of, whole, window
  <2>. QED
    BY <1>1
<1>4. \A d, numbers, w : \A y \in Of(d, numbers, w) : \E n \in numbers : y.cites = n.cites
  <2>. TAKE d, numbers, w
  <2>. TAKE y \in Of(d, numbers, w)
  <2>1. PICK p \in numbers \X ComparedKind(d, ref.field) :
          y = [raw |-> p[1].raw, unit |-> p[1].unit, cites |-> p[1].cites, d |-> d, field |-> ref.field, kind |-> p[2],
               window |-> w]
    OBVIOUS
  <2>2. p[1] \in numbers /\ y.cites = p[1].cites
    BY <2>1
  <2>. QED
    BY <2>2
<1>. HIDE DEF Of, whole, window
<1>5. PICK n \in Resolve(reports, whole) : x.cites = n.cites
  BY <1>3, <1>4
<1>6. Resolve(others, whole) = Resolve(reports, whole)
  BY <1>2, <1>5, ResolveFollows
<1>7. Agreeing(reports[ref.id], others[ref.id], spot) /\ ref.id \in DOMAIN others
  BY <1>3 DEF AllFollow
<1>8. /\ ref.group \in DOMAIN reports[ref.id].groups /\ spot \notin Cited(reports[ref.id], whole)
      /\ whole.field \notin Regional
  <2>1. /\ whole.group \in DOMAIN reports[ref.id].groups /\ n.cites = Cited(reports[ref.id], whole)
        /\ (whole.record # {}) <=> (whole.field \in Regional)
    BY <1>2, <1>5, ResolvedCites
  <2>. QED
    BY <1>2, <1>5, <2>1
<1>9. RawValue(others[ref.id], window) = RawValue(reports[ref.id], window)
  <2>1. Cited(reports[ref.id], window) = Cited(reports[ref.id], whole)
    BY <1>2, <1>8 DEF Cited, Regional
  <2>. QED
    BY <1>2, <1>7, <1>8, <2>1, SameNumber DEF OfTheWhole
<1>10. others[ref.id].d = reports[ref.id].d
  BY <1>7 DEF Agreeing
<1>. QED
  BY <1>1, <1>3, <1>6, <1>7, <1>9, <1>10

\* What a comparison reports is of two numbers, and cites what they cite.
LEMMA ComparisonIs ==
  ASSUME NEW reports, NEW c, NEW r \in CalculateComparison(reports, c)
  PROVE  \E old \in Operand(reports, c.reference, c.domain), new \in Operand(reports, c.comparison, c.domain) :
           r.d.op = "result_comparison" /\ r.cites = old.cites \cup new.cites
<1>1. PICK pair \in Operand(reports, c.reference, c.domain) \X Operand(reports, c.comparison, c.domain) :
        r = ComparisonReport(pair[1], pair[2], c.origin)
  BY DEF CalculateComparison
<1>2. r.d.op = "result_comparison" /\ r.cites = pair[1].cites \cup pair[2].cites
  BY <1>1 DEF ComparisonReport
<1>. QED
  BY <1>2

LEMMA ComparisonFollows ==
  ASSUME NEW reports, NEW others, NEW spot, AllFollow(reports, others, spot), NEW c,
         c.reference.field \notin OfTheWhole, c.comparison.field \notin OfTheWhole,
         NEW r \in CalculateComparison(reports, c), spot \notin r.cites
  PROVE  CalculateComparison(others, c) = CalculateComparison(reports, c)
<1>1. PICK old \in Operand(reports, c.reference, c.domain), new \in Operand(reports, c.comparison, c.domain) :
        r.cites = old.cites \cup new.cites
  BY ComparisonIs
<1>2. Operand(others, c.reference, c.domain) = Operand(reports, c.reference, c.domain)
  BY <1>1, OperandFollows
<1>3. Operand(others, c.comparison, c.domain) = Operand(reports, c.comparison, c.domain)
  BY <1>1, OperandFollows
<1>. QED
  BY <1>2, <1>3 DEF CalculateComparison

\* The reports of an input: of its calculations, and of its comparisons.
Chosen(S) == CHOOSE r \in S : TRUE
Calculations(tables, sources) == [id \in DOMAIN tables |-> Chosen(Calculate(tables[id], sources))]
Comparisons(reports, comparisons) == [id \in DOMAIN comparisons |-> Chosen(CalculateComparison(reports, comparisons[id]))]
AreOf(reports, tables, comparisons, sources, first, second) ==
  /\ \A id \in DOMAIN tables : first[id] \in Calculate(tables[id], sources)
  /\ \A id \in DOMAIN comparisons : second[id] \in CalculateComparison(first, comparisons[id])
  /\ reports = [id \in DOMAIN tables \cup DOMAIN comparisons |-> IF id \in DOMAIN tables THEN first[id] ELSE second[id]]

LEMMA CalculatedIs ==
  ASSUME NEW tables, NEW comparisons, NEW sources, NEW reports \in Calculated(tables, comparisons, sources)
  PROVE  AreOf(reports, tables, comparisons, sources, Calculations(tables, sources),
               Comparisons(Calculations(tables, sources), comparisons))
<1> DEFINE parts == [id \in DOMAIN tables |-> Calculate(tables[id], sources)]
           first == Calculations(tables, sources)
           compared == [id \in DOMAIN comparisons |-> CalculateComparison(first, comparisons[id])]
           second == Comparisons(first, comparisons)
<1>1. PICK base \in Combined(parts) : reports \in Compared(base, comparisons)
  BY DEF Calculated
<1>2. base = first /\ \A id \in DOMAIN tables : Calculate(tables[id], sources) # {}
  BY <1>1 DEF Combined, Calculations, Chosen
<1>3. DOMAIN first = DOMAIN tables /\ \A id \in DOMAIN tables : first[id] \in Calculate(tables[id], sources)
  BY <1>2 DEF Calculations, Chosen
<1>. HIDE DEF first
<1>4. PICK done \in Combined(compared) :
        reports = [id \in DOMAIN base \cup DOMAIN done |-> IF id \in DOMAIN base THEN base[id] ELSE done[id]]
  BY <1>1, <1>2 DEF Compared
<1>5. done = second /\ \A id \in DOMAIN comparisons : CalculateComparison(first, comparisons[id]) # {}
  BY <1>4 DEF Combined, Comparisons, Chosen
<1>6. DOMAIN second = DOMAIN comparisons
      /\ \A id \in DOMAIN comparisons : second[id] \in CalculateComparison(first, comparisons[id])
  BY <1>5 DEF Comparisons, Chosen
<1>. HIDE DEF second
<1>7. reports = [id \in DOMAIN tables \cup DOMAIN comparisons |-> IF id \in DOMAIN tables THEN first[id] ELSE second[id]]
  BY <1>2, <1>3, <1>4, <1>5, <1>6
<1>. QED
  BY <1>3, <1>6, <1>7 DEF first, second, AreOf

DiffersOnlyAt(input, sources, raised, spot) ==
  \A id \in DOMAIN input.tables : /\ OnlyAt(input.tables[id], sources, raised, spot)
                                  /\ {"region", "columns"} \subseteq DOMAIN input.tables[id]

LEMMA ResultsFollow ==
  ASSUME NEW input, NEW sources, NEW raised, NEW spot,
         DiffersOnlyAt(input, sources, raised, spot),
         NEW reports \in Results(input, sources), NEW others \in Results(input, raised),
         NEW ref, ~RestsOnTheWhole(input, ref), NEW x \in Resolve(reports, ref), spot \notin x.cites
  PROVE  Resolve(others, ref) = Resolve(reports, ref)
<1> DEFINE tables == input.tables
           comparisons == input.comparisons
           first == Calculations(tables, sources)
           second == Comparisons(first, comparisons)
           firstRaised == Calculations(tables, raised)
           secondRaised == Comparisons(firstRaised, comparisons)
<1>1. reports \in Calculated(tables, comparisons, sources) /\ others \in Calculated(tables, comparisons, raised)
  BY DEF Results
<1>. HIDE DEF tables, comparisons
<1>2. AreOf(reports, tables, comparisons, sources, first, second)
  BY <1>1, CalculatedIs
<1>3. AreOf(others, tables, comparisons, raised, firstRaised, secondRaised)
  BY <1>1, CalculatedIs
<1>4. DOMAIN first = DOMAIN tables /\ DOMAIN firstRaised = DOMAIN tables
  BY DEF Calculations
<1>5. ASSUME NEW id \in DOMAIN comparisons
      PROVE  /\ second[id] = Chosen(CalculateComparison(first, comparisons[id]))
             /\ secondRaised[id] = Chosen(CalculateComparison(firstRaised, comparisons[id]))
  BY DEF Comparisons
<1>. HIDE DEF first, second, firstRaised, secondRaised
<1>6. AllFollow(first, firstRaised, spot)
  <2>1. ASSUME NEW id \in DOMAIN tables PROVE Agreeing(first[id], firstRaised[id], spot)
    BY <1>2, <1>3, CalculationFollows DEF AreOf, tables, DiffersOnlyAt
  <2>. QED
    BY <1>4, <2>1 DEF AllFollow
<1>7. ref.id \in DOMAIN reports /\ ref.group \in DOMAIN reports[ref.id].groups /\ x.cites = Cited(reports[ref.id], ref)
  BY ResolvedCites
<1>8. CASE ref.id \in DOMAIN tables
  <2>1. reports[ref.id] = first[ref.id] /\ others[ref.id] = firstRaised[ref.id]
        /\ ref.id \in DOMAIN others
    BY <1>2, <1>3, <1>8 DEF AreOf
  <2>2. Agreeing(reports[ref.id], others[ref.id], spot)
    BY <1>4, <1>6, <1>8, <2>1 DEF AllFollow
  <2>3. ref.field \notin OfTheWhole
    BY DEF RestsOnTheWhole
  <2>4. /\ RawValue(others[ref.id], ref) = RawValue(reports[ref.id], ref)
        /\ Cited(others[ref.id], ref) = Cited(reports[ref.id], ref)
    BY <1>7, <2>2, <2>3, SameNumber
  <2>5. others[ref.id].d = reports[ref.id].d /\ DOMAIN others[ref.id].groups = DOMAIN reports[ref.id].groups
    BY <2>2 DEF Agreeing
  <2>. QED
    BY <1>7, <2>1, <2>4, <2>5, SameResolved
<1>9. CASE ref.id \notin DOMAIN tables
  <2> DEFINE c == comparisons[ref.id]
  <2>1. ref.id \in DOMAIN comparisons /\ ref.id \in DOMAIN others
        /\ reports[ref.id] = second[ref.id] /\ others[ref.id] = secondRaised[ref.id]
    BY <1>2, <1>3, <1>7, <1>9 DEF AreOf
  <2>2. second[ref.id] \in CalculateComparison(first, c)
    BY <1>2, <2>1 DEF AreOf
  <2>3. c.reference.field \notin OfTheWhole /\ c.comparison.field \notin OfTheWhole
    BY <2>1 DEF RestsOnTheWhole, comparisons
  <2>. HIDE DEF c
  <2>4. second[ref.id].d.op = "result_comparison"
    BY <2>2, ComparisonIs
  <2>5. spot \notin second[ref.id].cites
    BY <1>7, <2>1, <2>4 DEF Cited
  <2>6. CalculateComparison(firstRaised, c) = CalculateComparison(first, c)
    BY <1>6, <2>2, <2>3, <2>5, ComparisonFollows
  <2>7. others[ref.id] = reports[ref.id]
    BY <1>5, <2>1, <2>6 DEF c
  <2>. QED
    BY <1>7, <2>1, <2>7, SameResolved
<1>. QED
  BY <1>8, <1>9

\* A cell raised by one: nothing else changes, nor what decides or is blank.
LEMMA RaisedOnly ==
  ASSUME NEW input, NEW sources, NEW cell \in NumberCells(input, sources), NEW id \in DOMAIN input.tables,
         Sources(input.tables[id]) \subseteq DOMAIN sources, \A n \in DOMAIN sources : IsList(sources[n])
  PROVE  OnlyAt(input.tables[id], sources, Raised(sources, cell), <<cell[1], cell[2]>>)
<1> DEFINE d == input.tables[id]
           n == cell[1]
           i == cell[2]
           c == cell[3]
           raised == Raised(sources, cell)
           row == sources[n][i]
           number == {k + 1 : k \in row[c]}
<1>1. n \in DOMAIN sources /\ i \in DOMAIN sources[n]
      /\ \A e \in Reading(input, n) : Deciding(e) \cup Columns(e) \subseteq DOMAIN row /\ c \notin Deciding(e)
  BY DEF NumberCells
<1>2. raised = [sources EXCEPT ![n][i][c] = number]
  BY DEF Raised
<1>3. number = {} <=> row[c] = {}
  OBVIOUS
<1>. HIDE DEF n, i, c, raised, number, d
<1>4. SUFFICES ASSUME NEW m \in Sources(d)
               PROVE  /\ IsList(sources[m]) /\ IsFunction(raised[m])
                      /\ SameBut(sources[m], raised[m], m, <<n, i>>)
                      /\ Agree(sources[m], raised[m], Deciding(d)) /\ SameBlanks(sources[m], raised[m], Columns(d))
  BY DEF OnlyAt, d, n, i, raised
<1>5. m \in DOMAIN sources /\ IsList(sources[m]) /\ IsFunction(sources[m])
  BY TablesAreNumbered DEF d
<1>6. CASE m # n
  <2>1. raised[m] = sources[m]
    BY <1>1, <1>2, <1>5, <1>6
  <2>. QED
    BY <1>5, <2>1 DEF SameBut, Agree, SameBlanks
<1>7. CASE m = n
  <2>1. d \in Reading(input, n)
    BY <1>7 DEF Reading, d
  <2>2. Deciding(d) \cup Columns(d) \subseteq DOMAIN row /\ c \notin Deciding(d)
    BY <1>1, <2>1
  <2>3. raised[m] = [sources[n] EXCEPT ![i] = [row EXCEPT ![c] = number]]
    BY <1>1, <1>2, <1>7
  <2>4. DOMAIN raised[m] = DOMAIN sources[m] /\ IsFunction(raised[m])
    BY <1>7, <2>3 DEF IsFunction
  <2>5. \A j \in DOMAIN sources[m] : raised[m][j] = IF j = i THEN [row EXCEPT ![c] = number] ELSE sources[m][j]
    BY <1>7, <2>3
  <2>6. \A b \in DOMAIN row : [row EXCEPT ![c] = number][b] = IF b = c THEN number ELSE row[b]
    OBVIOUS
  <2>. HIDE DEF row
  <2>7. SameBut(sources[m], raised[m], m, <<n, i>>)
    BY <1>7, <2>4, <2>5 DEF SameBut
  <2>8. Agree(sources[m], raised[m], Deciding(d))
    BY <1>7, <2>2, <2>4, <2>5, <2>6 DEF Agree, row
  <2>9. SameBlanks(sources[m], raised[m], Columns(d))
    BY <1>3, <1>7, <2>2, <2>5, <2>6 DEF SameBlanks, row
  <2>. QED
    BY <1>5, <2>4, <2>7, <2>8, <2>9
<1>. QED
  BY <1>6, <1>7

-----------------------------------------------------------------------------
\* The tables of an input, with the files its versions have.
Fits(i, sources) ==
  i \in DOMAIN SectionInputs
  /\ \A n \in DOMAIN sources : IsList(sources[n]) /\ \A version \in Versions[i] : n \in DOMAIN version
RecordsInv ==
  /\ author = [input |-> author.input, sources |-> author.sources] /\ Fits(author.input, author.sources)
  /\ \A p \in package : Fits(p.input, p.sources)
  /\ cmd.at \in Preparing => cmd.input = author.input /\ Fits(cmd.input, cmd.copied)
  /\ \A s \in section : s.undisturbed =>
       Fits(s.input, s.sources) /\ DOMAIN s.sources = AllFiles(s.input)

\* What a calculation reads is there.
LEMMA FilesAreThere ==
  ASSUME NEW i \in DOMAIN SectionInputs, NEW id \in DOMAIN SectionInputs[i].tables
  PROVE  Sources(SectionInputs[i].tables[id]) \subseteq AllFiles(i)
         /\ {"region", "columns"} \subseteq DOMAIN SectionInputs[i].tables[id]
<1> DEFINE files == SectionInputs[i].files
<1>1. /\ files \in Seq(ToSet(files)) /\ Sources(SectionInputs[i].tables[id]) \subseteq ToSet(files)
      /\ {"columns", "region"} \subseteq DOMAIN SectionInputs[i].tables[id]
  BY SectionAssumption DEF IsList
<1>. HIDE DEF files
<1>2. DOMAIN files = 1..Len(files)
  BY <1>1
<1>3. ToSet(files) = AllFiles(i)
  BY <1>2 DEF ToSet, AllFiles, FilesUpTo, files
<1>. QED
  BY <1>1, <1>3

LEMMA RecordsStart == SectionInit => RecordsInv
<1>. SUFFICES ASSUME SectionInit PROVE RecordsInv
  OBVIOUS
<1>1. PICK i \in DOMAIN SectionInputs : \E v \in Versions[i] : author = [input |-> i, sources |-> v]
  BY DEF SectionInit
<1>2. PICK v \in Versions[i] : author = [input |-> i, sources |-> v]
  BY <1>1
<1>3. Fits(i, v)
  BY SectionAssumption DEF Fits
<1>4. package = {} /\ section = {} /\ cmd.at = "idle"
  BY DEF SectionInit, Idle
<1>. QED
  BY <1>2, <1>3, <1>4 DEF RecordsInv, Preparing

\* The version an edit takes a table from has one for each file.
LEMMA EditFits ==
  ASSUME NEW i, NEW sources, Fits(i, sources), NEW version \in Versions[i], NEW name \in DOMAIN sources
  PROVE  Fits(i, [sources EXCEPT ![name] = version[name]])
<1>1. IsList(version[name])
  BY SectionAssumption DEF Fits
<1>. QED
  BY <1>1 DEF Fits

LEMMA CopyFits ==
  ASSUME NEW c, NEW d, NEW i, NEW sources, Fits(i, c.copied), Fits(i, sources), IsCopy(d, c, sources),
         NextFile(c) \in DOMAIN sources
  PROVE  Fits(i, d.copied)
  BY DEF Fits, IsCopy

LEMMA RecordsEnd ==
  ASSUME RecordsInv, UNCHANGED author, UNCHANGED package \/ package' = {}, UNCHANGED section \/ section' = {},
         cmd'.at \notin Preparing
  PROVE  RecordsInv'
  BY DEF RecordsInv, Fits, Preparing, AllFiles, FilesUpTo

LEMMA RecordsStep == SectionInv /\ RecordsInv /\ [SectionNext]_sectionVars => RecordsInv'
<1>. SUFFICES ASSUME SectionInv, RecordsInv, [SectionNext]_sectionVars PROVE RecordsInv'
  OBVIOUS
<1>1. CASE UNCHANGED sectionVars
  BY <1>1 DEF sectionVars, RecordsInv, Fits, AllFiles, FilesUpTo
<1>2. CASE StartPrepare
  <2>1. cmd'.copied = << >> /\ cmd'.input = author.input /\ UNCHANGED <<author, package, section>>
    BY <1>2 DEF StartPrepare
  <2>2. DOMAIN cmd'.copied = {}
    BY <2>1
  <2>3. Fits(author.input, cmd'.copied)
    BY <2>2 DEF RecordsInv, Fits
  <2>. QED
    BY <2>1, <2>3 DEF RecordsInv, Fits, AllFiles, FilesUpTo
<1>3. CASE PrepareCopies
  <2>1. /\ cmd.at = "preparing" /\ NextFile(cmd) \in DOMAIN author.sources
        /\ cmd' = Copy(cmd, NextFile(cmd), author.sources) /\ UNCHANGED <<author, package, section>>
    BY <1>3 DEF PrepareCopies
  <2>2. cmd = [at |-> cmd.at, input |-> cmd.input, copied |-> cmd.copied]
    BY <2>1 DEF SectionInv, CommandOK
  <2>3. IsCopy(cmd', cmd, author.sources)
    BY <2>1, <2>2 DEF Copy, IsCopy
  <2>4. cmd'.input = author.input /\ Fits(author.input, cmd'.copied)
    BY <2>1, <2>3, CopyFits DEF RecordsInv, IsCopy, Preparing
  <2>. QED
    BY <2>1, <2>4 DEF RecordsInv, Fits, AllFiles, FilesUpTo
<1>4. CASE PrepareCalculates
  <2>1. /\ cmd.at = "preparing" /\ cmd'.input = cmd.input /\ cmd'.copied = cmd.copied
        /\ UNCHANGED <<author, package, section>>
    BY <1>4 DEF PrepareCalculates
  <2>. QED
    BY <2>1 DEF RecordsInv, Fits, AllFiles, FilesUpTo, Preparing
<1>5. CASE PrepareRefused \/ PrepareMisses \/ PrepareRaises \/ Cut
  BY <1>5, RecordsEnd DEF PrepareRefused, PrepareMisses, PrepareRaises, Refuse, Cut, Idle, Preparing
<1>6. CASE FinishPrepare
  <2>1. /\ cmd.at = "calculated" /\ UNCHANGED <<author, section>> /\ cmd' = Idle("prepared")
        /\ \A p \in package' : p.input = cmd.input /\ p.sources = cmd.copied
    BY <1>6 DEF FinishPrepare
  <2>2. Fits(cmd.input, cmd.copied)
    BY <2>1 DEF RecordsInv, Preparing
  <2>3. \A p \in package' : Fits(p.input, p.sources)
    BY <2>1, <2>2
  <2>4. cmd'.at \notin Preparing
    BY <2>1 DEF Idle, Preparing
  <2>. QED
    BY <2>1, <2>3, <2>4 DEF RecordsInv, Fits, AllFiles, FilesUpTo
<1>7. ASSUME NEW p \in package, NEW uses, StartAssemble(p, uses) PROVE RecordsInv'
  BY <1>7, RecordsEnd DEF StartAssemble, Preparing
<1>8. ASSUME NEW p \in package, AssembleRefused(p) \/ DraftRefused(p) PROVE RecordsInv'
  BY <1>8, RecordsEnd DEF AssembleRefused, DraftRefused, Refuse, Idle, Preparing
<1>9. ASSUME NEW p \in package, ResolveDraft(p) PROVE RecordsInv'
  <2>1. UNCHANGED <<author, package, section>>
        /\ \E reports, values : cmd' = [cmd EXCEPT !.at = "packing", !.values = values, !.results = {reports}]
    BY <1>9 DEF ResolveDraft
  <2>2. cmd = [at |-> cmd.at, input |-> cmd.input, uses |-> cmd.uses, results |-> cmd.results,
               copied |-> cmd.copied, values |-> cmd.values, undisturbed |-> cmd.undisturbed]
    BY <1>9 DEF ResolveDraft, SectionInv, CommandOK, Assembling
  <2>3. cmd'.at = "packing"
    BY <2>1, <2>2
  <2>. QED
    BY <2>1, <2>3, RecordsEnd DEF Preparing
<1>10. ASSUME NEW p \in package, AssembleCopies(p) PROVE RecordsInv'
  <2>1. UNCHANGED <<author, package, section>> /\ cmd.at = "packing"
        /\ cmd' = Copy(cmd, NextFile(cmd), p.sources)
    BY <1>10 DEF AssembleCopies
  <2>2. cmd = [at |-> cmd.at, input |-> cmd.input, uses |-> cmd.uses, results |-> cmd.results,
               copied |-> cmd.copied, values |-> cmd.values, undisturbed |-> cmd.undisturbed]
    BY <2>1 DEF SectionInv, CommandOK, Assembling
  <2>3. cmd'.at = "packing"
    BY <2>1, <2>2 DEF Copy
  <2>. QED
    BY <2>1, <2>3, RecordsEnd DEF Preparing
<1>11. ASSUME NEW p \in package, NEW version \in Versions[p.input], NEW name \in DOMAIN p.sources,
              SavePackage(p, name, version[name])
       PROVE  RecordsInv'
  <2> DEFINE q == [p EXCEPT !.sources[name] = version[name]]
  <2>1. /\ package' = {q} /\ UNCHANGED <<author, section>>
        /\ cmd' = IF cmd.at \in Ended THEN Idle("idle")
                  ELSE IF cmd.at \in {"preparing", "calculated"} THEN cmd
                  ELSE [cmd EXCEPT !.undisturbed = FALSE]
    BY <1>11 DEF SavePackage
  <2>2. p = [input |-> p.input, sources |-> p.sources, results |-> p.results]
    BY DEF SectionInv, PackageOK
  <2>3. q.input = p.input /\ q.sources = [p.sources EXCEPT ![name] = version[name]]
    BY <2>2
  <2>4. Fits(q.input, q.sources)
    <3>1. Fits(p.input, p.sources)
      BY DEF RecordsInv
    <3>2. Fits(p.input, [p.sources EXCEPT ![name] = version[name]])
      BY <3>1, EditFits
    <3>. QED
      BY <2>3, <3>2
  <2>. HIDE DEF q
  <2>5. cmd' = cmd \/ cmd'.at \notin Preparing
    <3>1. CASE cmd.at \in Assembling
      <4>1. cmd = [at |-> cmd.at, input |-> cmd.input, uses |-> cmd.uses, results |-> cmd.results,
                   copied |-> cmd.copied, values |-> cmd.values, undisturbed |-> cmd.undisturbed]
        BY <3>1 DEF SectionInv, CommandOK
      <4>2. cmd' = [cmd EXCEPT !.undisturbed = FALSE]
        BY <2>1, <3>1 DEF Assembling, Ended
      <4>3. cmd'.at = cmd.at
        BY <4>1, <4>2
      <4>. QED
        BY <3>1, <4>3 DEF Assembling, Preparing
    <3>2. CASE cmd.at \in Ended
      BY <2>1, <3>2 DEF Idle, Preparing
    <3>3. CASE cmd.at \in Preparing
      BY <2>1, <3>3 DEF Preparing, Ended
    <3>. QED
      BY <3>1, <3>2, <3>3 DEF SectionInv, CommandOK
  <2>. QED
    BY <2>1, <2>4, <2>5 DEF RecordsInv, Fits, AllFiles, FilesUpTo
<1>12. CASE FinishAssemble
  <2>1. /\ cmd.at = "packing" /\ AllCopied(cmd) /\ UNCHANGED <<author, package>> /\ cmd' = Idle("assembled")
        /\ section' = {[input |-> cmd.input, sources |-> cmd.copied, results |-> reports,
                        values |-> cmd.values, undisturbed |-> cmd.undisturbed] : reports \in cmd.results}
    BY <1>12 DEF FinishAssemble
  <2>2. cmd'.at \notin Preparing
    BY <2>1 DEF Idle, Preparing
  <2>3. ASSUME NEW s \in section', s.undisturbed
        PROVE  Fits(s.input, s.sources) /\ DOMAIN s.sources = AllFiles(s.input)
    <3>1. s.input = cmd.input /\ s.sources = cmd.copied /\ cmd.undisturbed
      BY <2>1, <2>3
    <3>2. PICK p \in package : IsOf(p) /\ IsWhole(p.sources, p.input)
      BY <2>1, <3>1 DEF SectionInv, AssemblyAgrees, Assembling, PackageOK
    <3>3. cmd.copied = p.sources /\ cmd.input = p.input
      BY <2>1, <3>2, AllTaken DEF SectionInv, CommandOK, Ended, IsOf, IsWhole, AllFiles
    <3>. QED
      BY <3>1, <3>2, <3>3 DEF RecordsInv, IsWhole
  <2>. QED
    BY <2>1, <2>2, <2>3 DEF RecordsInv, Fits, AllFiles, FilesUpTo
<1>13. CASE Discard
  BY <1>13, RecordsEnd DEF Discard, Idle, Preparing
<1>14. ASSUME NEW version \in Versions[author.input], NEW name \in DOMAIN author.sources,
              SaveSource(name, version[name])
       PROVE  RecordsInv'
  <2>1. /\ author' = [author EXCEPT !.sources[name] = version[name]] /\ UNCHANGED <<package, section>>
        /\ cmd' = IF cmd.at \in Ended THEN Idle("idle") ELSE cmd
    BY <1>14 DEF SaveSource
  <2>2. author = [input |-> author.input, sources |-> author.sources] /\ Fits(author.input, author.sources)
    BY DEF RecordsInv
  <2>3. author' = [input |-> author.input, sources |-> [author.sources EXCEPT ![name] = version[name]]]
    BY <2>1, <2>2
  <2>4. Fits(author.input, [author.sources EXCEPT ![name] = version[name]])
    BY <2>2, EditFits
  <2>5. Fits(author'.input, author'.sources) /\ author'.input = author.input
        /\ author' = [input |-> author'.input, sources |-> author'.sources]
    BY <2>3, <2>4
  <2>6. cmd' = cmd \/ cmd'.at \notin Preparing
    BY <2>1 DEF Idle, Preparing
  <2>. QED
    BY <2>1, <2>5, <2>6 DEF RecordsInv, Fits, AllFiles, FilesUpTo
<1>. QED
  BY <1>1, <1>2, <1>3, <1>4, <1>5, <1>6, <1>7, <1>8, <1>9, <1>10, <1>11, <1>12, <1>13, <1>14 DEF SectionNext

(* The records a number of a section is said to rest on are enough to check  *)
(* it: raise any number that no calculation selects rows by, in a row that   *)
(* is not cited, and what the section states stays as it is, or is refused,  *)
(* for every table and every calculation and comparison (Resolve).           *)
THEOREM CitationsSuffice == SectionSpec => []CitedRecordsSuffice
<1>1. SectionInv /\ RecordsInv => CitedRecordsSuffice
  <2>. SUFFICES ASSUME SectionInv, RecordsInv, NEW s \in Assembled, NEW id \in DOMAIN s.values,
                       Cites(SectionInputs[s.input], id),
                       ~RestsOnTheWhole(SectionInputs[s.input], SectionInputs[s.input].evidence[id].ref),
                       NEW cell \in NumberCells(SectionInputs[s.input], s.sources),
                       <<cell[1], cell[2]>> \notin s.values[id].cites,
                       NEW reports \in Results(SectionInputs[s.input], Raised(s.sources, cell))
                PROVE  Metric(SectionInputs[s.input].evidence[id], Raised(s.sources, cell), reports)
                       = Metric(SectionInputs[s.input].evidence[id], s.sources, s.results)
    BY DEF CitedRecordsSuffice
  <2> DEFINE input == SectionInputs[s.input]
             evidence == input.evidence[id]
             raised == Raised(s.sources, cell)
             spot == <<cell[1], cell[2]>>
  <2>1. s \in section /\ s.undisturbed
    BY DEF Assembled
  <2>2. Fits(s.input, s.sources) /\ DOMAIN s.sources = AllFiles(s.input)
    BY <2>1 DEF RecordsInv
  <2>3. s.results \in Results(input, s.sources) /\ s.values \in Values(input, DOMAIN s.values, s.sources, s.results)
    BY DEF SectionInv, SectionAgrees, NumbersAgree
  <2>4. \A sources, all : Metric(evidence, sources, all) = Resolve(all, evidence.ref)
    BY DEF Metric, Cites
  <2>5. s.values[id] \in Resolve(s.results, evidence.ref)
    <3>1. s.values[id] \in Metric(evidence, s.sources, s.results)
      BY <2>3 DEF Values
    <3>. QED
      BY <2>4, <3>1
  <2>6. DiffersOnlyAt(input, s.sources, raised, spot)
    <3>. SUFFICES ASSUME NEW c \in DOMAIN input.tables
                  PROVE  OnlyAt(input.tables[c], s.sources, raised, spot)
                         /\ {"region", "columns"} \subseteq DOMAIN input.tables[c]
      BY DEF DiffersOnlyAt
    <3>1. Sources(input.tables[c]) \subseteq DOMAIN s.sources /\ {"region", "columns"} \subseteq DOMAIN input.tables[c]
      BY <2>2, FilesAreThere DEF Fits
    <3>2. \A n \in DOMAIN s.sources : IsList(s.sources[n])
      BY <2>2 DEF Fits
    <3>. QED
      BY <3>1, <3>2, RaisedOnly
  <2>7. Resolve(reports, evidence.ref) = Resolve(s.results, evidence.ref)
    <3>. HIDE DEF input, raised, spot
    <3>1. /\ ~RestsOnTheWhole(input, evidence.ref) /\ spot \notin s.values[id].cites
          /\ reports \in Results(input, raised)
      BY DEF input, raised, spot
    <3>. HIDE DEF evidence
    <3>2. s.results \in Results(input, s.sources)
      BY <2>3
    <3>. QED
      BY <2>5, <2>6, <3>1, <3>2, ResultsFollow
  <2>. QED
    BY <2>4, <2>7
<1>. QED
  BY <1>1, SectionStarts, SectionStep, RecordsStart, RecordsStep, PTL DEF SectionSpec
================================================================================
