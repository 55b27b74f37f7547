----------------------------- MODULE WordReturn -----------------------------
(***************************************************************************)
(* The Word return (publication/word_return.py, author_workspace.py).  A   *)
(* candidate is exported to Word with one content control per block and a  *)
(* snapshot of what was exported.  The author edits that file while the    *)
(* science goes on in the current candidate; import_author_manuscript      *)
(* reads the author's file against the snapshot, merges it with the        *)
(* current candidate and writes a new candidate with its conflicts.        *)
(*                                                                         *)
(* A block is named by section, kind and local name, as stable_block_id    *)
(* does.  A text is the set of its edits against the exported text; an     *)
(* edit <<from, to, words>> replaces a range.  A field is 0 when nobody    *)
(* set it.  A span is a bound value with the display it has.               *)
(***************************************************************************)
EXTENDS Naturals, Sequences, FiniteSets, SequencesExt

CONSTANTS
  BaseOrder,   \* the exported blocks, in document order
  Bound,       \* paragraphs whose text displays a bound value
  Added,       \* blocks that the current candidate may gain
  AuthorText, CurrentText,   \* the edits each side may make to a text
  Spots,       \* the places of the page where the author puts something
  MaxAuthor, MaxCurrent,     \* bounds on the edits of either side
  None

\* A block of a document as a merge compares it.
NewText == {<<0, 0, "new">>}
BlockValue ==
  [text : SUBSET (AuthorText \cup CurrentText \cup NewText), content : 0..2, style : 0..2,
   layout : 0..2, label : 0..2, spans : SUBSET ({"value"} \X {0, 1})]

ASSUME NoneIsNew == None \notin BlockValue /\ None \notin ToSet(BaseOrder) \cup Added

\* The name of a new paragraph is a digest of what it is and where it stands.
AuthorName(i) == "author-" \o ToString(i)
ASSUME NamesAreNew ==
  \A i \in 1..(Len(BaseOrder) + MaxAuthor) :
    /\ \A b \in ToSet(BaseOrder) \cup Added : b[3] # AuthorName(i)
    /\ \A j \in 1..(Len(BaseOrder) + MaxAuthor) : AuthorName(i) = AuthorName(j) => i = j
\* An exported document names each of its blocks once (document_blocks.py:267).
ASSUME BlocksDiffer == IsInjective(BaseOrder) /\ Added \cap ToSet(BaseOrder) = {}
ASSUME WordBounds == /\ BaseOrder \in Seq(ToSet(BaseOrder)) /\ Spots \subseteq Nat \ {0}
                     /\ MaxAuthor \in Nat /\ MaxCurrent \in Nat

VARIABLES
  page,     \* the author's file: what stands in it, from top to bottom
  marks,    \* what the author did to each exported block besides its text
  words,    \* the author's edits of each text
  current,  \* the current candidate: order, blocks, title, definitions
  result,   \* what the import answered
  spent     \* edits made so far by either side

vars == <<page, marks, words, current, result, spent>>

Blocks == ToSet(BaseOrder)
Section(b) == b[1]
Kind(b) == b[2]
Sections == {Section(b) : b \in {x \in Blocks : Kind(x) = "heading"}}
Objects == {"figure", "caption", "table", "equation"}

-----------------------------------------------------------------------------
(* The exported snapshot: build_document and write_word_state.             *)

BaseBlock(b) ==
  [text |-> {}, content |-> 0, style |-> 0, layout |-> 0, label |-> 0,
   spans |-> IF b \in Bound THEN {<<"value", 0>>} ELSE {}]

Base == [b \in Blocks |-> BaseBlock(b)]

\* What Word lets the author do to a block.
Marks(b) ==
  (IF Kind(b) = "paragraph" THEN {"tracked", "styled", "split", "floating", "foreign"} ELSE {})
  \cup (IF b \in Bound THEN {"orphaned", "clause", "twice", "misplaced", "retyped"} ELSE {})
  \cup (IF Kind(b) = "caption" THEN {"alias", "relabelled"} ELSE {})
  \cup (IF Kind(b) = "figure" THEN {"tracked", "object", "scaled", "distorted"} ELSE {})
  \cup (IF Kind(b) = "table" THEN {"heads", "cells", "note", "grid"} ELSE {})

Item(form, id) == [form |-> form, id |-> id]

\* The members of S in a list, in the order they have there.
Only(list, S) ==
  LET rest[k \in 0..Len(list)] ==
        IF k = 0 THEN << >>
        ELSE IF list[k] \in S THEN Append(rest[k - 1], list[k]) ELSE rest[k - 1]
  IN  rest[Len(list)]

-----------------------------------------------------------------------------
(* read_word_return: one block against its snapshot.                       *)

Copies(b) == {i \in DOMAIN page : page[i] = Item("block", b)}
Anchored(b) == Cardinality(Copies(b)) = 1

\* A value goes with its clause only when the author deleted the whole
\* clause and left no copy of the displayed value (_definite_clause_deletion).
ClauseDeleted(b) == "clause" \in marks[b] /\ marks[b] \cap {"retyped", "twice"} = {}

SpanConflict(b) ==
  IF b \notin Bound \/ ClauseDeleted(b) THEN {}
  ELSE {k \in {"missing_anchor", "duplicate_anchor", "misplaced_anchor",
               "protected_span_modified"} :
        \/ k = "missing_anchor" /\ marks[b] \cap {"orphaned", "clause"} # {}
        \/ k = "duplicate_anchor" /\ "twice" \in marks[b]
        \/ k = "misplaced_anchor" /\ "misplaced" \in marks[b]
        \/ k = "protected_span_modified" /\ "retyped" \in marks[b]}

TableConflict(b) ==
  {k \in {"table_caption_or_note_modified", "unsupported_structure",
          "table_structure_or_text_modified"} :
     \/ k = "table_caption_or_note_modified" /\ "note" \in marks[b]
     \/ k = "unsupported_structure" /\ "grid" \in marks[b]
     \/ k = "table_structure_or_text_modified" /\ "cells" \in marks[b]
                                               /\ "grid" \notin marks[b]}

ObjectConflict(b) ==
  {k \in {"unresolved_revision", "unsupported_structure", "unsupported_object",
          "object_modified"} :
     \/ k = "unresolved_revision" /\ "tracked" \in marks[b]
     \/ k = "unsupported_structure" /\ "floating" \in marks[b]
     \/ k = "unsupported_object" /\ "foreign" \in marks[b]
     \/ k = "object_modified" /\ "object" \in marks[b] /\ "foreign" \notin marks[b]}

\* A split is taken apart only in an ordinary paragraph: no span, no object
\* and no other conflict; otherwise the block is protected.
SplitAllowed(b) == b \notin Bound /\ ObjectConflict(b) = {}

LocalConflict(b) ==
  ObjectConflict(b)
  \cup (IF "split" \in marks[b] /\ ~ SplitAllowed(b)
        THEN {"paragraph_split_with_protected_content"} ELSE {})
  \cup TableConflict(b) \cup SpanConflict(b)
  \cup (IF "relabelled" \in marks[b] THEN {"generated_label_modified"} ELSE {})
  \cup (IF "distorted" \in marks[b] THEN {"image_aspect_ratio_modified"} ELSE {})

\* The block the author returned; one with a conflict is returned as exported.
Returned(b) ==
  IF LocalConflict(b) # {} THEN Base[b]
  ELSE [text |-> words[b],
        content |-> IF "heads" \in marks[b] THEN 1 ELSE 0,
        style |-> IF "styled" \in marks[b] THEN 1 ELSE 0,
        layout |-> IF "scaled" \in marks[b] THEN 1 ELSE 0,
        label |-> IF "alias" \in marks[b] THEN 1 ELSE 0,
        spans |-> IF ClauseDeleted(b) THEN {} ELSE Base[b].spans]

-----------------------------------------------------------------------------
(* read_word_return: paragraphs that carry no control of their own.        *)

IsRecord(i) == page[i].form = "block" /\ Anchored(page[i].id)

\* The half of a split paragraph belongs to its block unless the split is allowed.
Unanchored(i) ==
  \/ page[i].form = "block" /\ ~ Anchored(page[i].id)
  \/ page[i].form \in {"body", "heading", "title", "foreign"}
  \/ page[i].form = "half" /\ (Anchored(page[i].id) => SplitAllowed(page[i].id))

BaseIndex == [b \in Blocks |-> CHOOSE i \in DOMAIN BaseOrder : BaseOrder[i] = b]
Highest(S) == IF S = {} THEN 0 ELSE Max(S)
Lowest(S) == IF S = {} THEN 0 ELSE Min(S)

\* Place i of the page is judged by the nearest block above it, a new paragraph
\* accepted before (in new) or one with its control (in kept), and the nearest
\* one below it that has its control.
Above(i, kept, new) == Highest({j \in kept \cup new : j < i})
Below(i, kept) == Lowest({j \in kept : j > i})

\* A new paragraph belongs to the section of the block above it, or below it.
SectionAt(i, kept) ==
  Section(page[IF \E j \in kept : j =< i THEN Highest({j \in kept : j =< i})
               ELSE Below(i, kept)].id)

\* Between the exported places of its neighbours a block has lost its control.
MissingHere(a, z, new, missing) ==
  LET left == IF a # 0 /\ a \notin new THEN BaseIndex[page[a].id] ELSE 0
      right == IF z # 0 THEN BaseIndex[page[z].id] ELSE Len(BaseOrder) + 1
  IN  \E b \in missing : BaseIndex[b] > Min({left, right}) /\ BaseIndex[b] < Max({left, right})

UnanchoredConflict(i, kept, new, missing) ==
  LET a == Above(i, kept, new)
      z == Below(i, kept)
  IN  CASE \/ page[i].form = "title"
           \/ a = 0 /\ z # 0 /\ Kind(page[z].id) = "heading" -> "generated_title_modified"
        [] page[i].form = "heading" -> "unanchored_heading"
        [] \/ a = 0 /\ z = 0
           \/ page[i].form = "foreign"
           \/ page[i].form = "block" /\ Kind(page[i].id) \in Objects
           \/ MissingHere(a, z, new, missing)
           \/ a # 0 /\ z # 0 /\ SectionAt(a, kept) # SectionAt(z, kept) -> "unanchored_content"
        [] OTHER -> "none"

NewBlock == [BaseBlock(None) EXCEPT !.text = NewText]
NewId(i, kept) == <<SectionAt(i, kept), "paragraph", AuthorName(i)>>

HeadingsOf(order) == SelectSeq(order, LAMBDA b : Kind(b) = "heading")

\* The heading a record stands under in the author's file.
Under(ids, k) ==
  LET above == {j \in 1..k : Kind(ids[j]) = "heading"}
  IN  IF above = {} THEN None ELSE Section(ids[Max(above)])

OrderConflicts(ids) ==
  (IF /\ Len(HeadingsOf(ids)) = Len(HeadingsOf(BaseOrder))
      /\ HeadingsOf(ids) # HeadingsOf(BaseOrder)
   THEN {<<"section_order_modified", None>>} ELSE {})
  \cup {<<"cross_section_move", ids[k]>> :
          k \in {j \in DOMAIN ids : /\ Kind(ids[j]) \notin {"heading", "reference"}
                                    /\ Under(ids, j) \notin {None, Section(ids[j])}}}

\* The new paragraphs, from top to bottom: each is a neighbour of the next.
Accepted(kept, missing, loose) ==
  LET new[i \in 0..Len(page)] ==
        IF i = 0 THEN {}
        ELSE LET before == new[i - 1]
             IN  IF i \in loose /\ UnanchoredConflict(i, kept, before, missing) = "none"
                 THEN before \cup {i} ELSE before
  IN  new[Len(page)]

FromTop(places) == Only([i \in DOMAIN page |-> i], places)

Earlier(new, i) == {j \in new : j < i}
ReadConflicts(kept, missing, loose, new) ==
  {<<IF Copies(b) = {} THEN "missing_anchor" ELSE "duplicate_anchor", b>> : b \in missing}
  \cup (UNION {{<<k, b>> : k \in LocalConflict(b)} : b \in Blocks \ missing})
  \cup {<<UnanchoredConflict(i, kept, Earlier(new, i), missing), None>> : i \in loose \ new}

\* The author's blocks in the order of the page, and what could not be read.
Reading(kept, missing, loose, new) ==
  LET id == [i \in kept \cup new |-> IF i \in kept THEN page[i].id ELSE NewId(i, kept)]
      places == FromTop(kept \cup new)
      order == [k \in DOMAIN places |-> id[places[k]]]
  IN  [order |-> order,
       missing |-> missing,
       blocks |-> [b \in {id[i] : i \in kept \cup new} |-> IF b \in Blocks THEN Returned(b) ELSE NewBlock],
       conflicts |-> ReadConflicts(kept, missing, loose, new) \cup OrderConflicts(order)]

ReadReturn ==
  LET kept == {i \in DOMAIN page : IsRecord(i)}
      missing == {b \in Blocks : ~ Anchored(b)}
      loose == {i \in DOMAIN page : Unanchored(i)}
  IN  Reading(kept, missing, loose, Accepted(kept, missing, loose))

\* An exported block whose control is gone is put back, as exported, at the
\* end (import_author_manuscript).
Restored(read) ==
  [order |-> read.order \o Only(BaseOrder, read.missing),
   blocks |-> [b \in DOMAIN read.blocks \cup Blocks |->
                 IF b \in DOMAIN read.blocks THEN read.blocks[b] ELSE Base[b]]]

-----------------------------------------------------------------------------
(* merge_word_blocks: baseline, author and current, block by block.        *)

\* Two edits collide when their ranges overlap, or when one inserts inside
\* or at the border of the other's range (_merge_text).
Collide(e, f) ==
  /\ e # f
  /\ \/ Max({e[1], f[1]}) < Min({e[2], f[2]})
     \/ e[1] = e[2] /\ f[1] <= e[1] /\ e[1] <= f[2]
     \/ f[1] = f[2] /\ e[1] <= f[1] /\ f[1] <= e[2]

TextsCollide(a, c) == a # {} /\ c # {} /\ a # c /\ \E e \in a, f \in c : Collide(e, f)

\* Plausible fault: the text of one side is taken, the current one first.
OneText(a, c) == IF c # {} THEN c ELSE a

MergedText(a, c) == a \cup c

\* A presentation field absent from the current block keeps the author's.
Visual == {"style", "layout", "label"}
MergedField(f, b, a, c) ==
  IF f \in Visual /\ c[f] = 0 THEN a[f] ELSE IF a[f] # b[f] THEN a[f] ELSE c[f]
FieldConflict(f, b, a, c) ==
  ~ (f \in Visual /\ c[f] = 0) /\ a[f] # b[f] /\ c[f] # b[f] /\ a[f] # c[f]

\* Plausible fault: the displays of the Word file are taken over.
AuthorSpans(b, a, c) == a.spans

\* The spans the author removed are removed from the current ones.
Names(spans) == {s[1] : s \in spans}
MergedSpans(b, a, c) ==
  IF a.spans = b.spans THEN c.spans
  ELSE {s \in c.spans : s[1] \notin Names(b.spans) \ Names(a.spans)}

Semantic(v) == <<v.text, v.content, v.spans>>

\* A block deleted by one side stays when the other changed it.
Survives(left, b) == left # None /\ Semantic(left) # Semantic(b)

\* Block b after the merge: None when it is deleted, and its conflicts.
MergeOne(id, b, a, c) ==
  CASE b = None -> [value |-> IF c # None THEN c ELSE a,
                    conflicts |-> IF a # None /\ c # None /\ a # c
                                  THEN {<<"new_id_collision", id>>} ELSE {}]
    [] b # None /\ (a = None \/ c = None) ->
         LET left == IF a = None THEN c ELSE a
             kept == Survives(left, b)
         IN  [value |-> IF kept THEN left ELSE None,
              conflicts |-> IF kept THEN {<<"delete_modify", id>>} ELSE {}]
    [] OTHER ->
         IF TextsCollide(a.text, c.text)
         THEN [value |-> c, conflicts |-> {<<"overlapping_edit", id>>}]
         ELSE [value |-> [text |-> MergedText(a.text, c.text),
                          spans |-> MergedSpans(b, a, c),
                          content |-> MergedField("content", b, a, c),
                          style |-> MergedField("style", b, a, c),
                          layout |-> MergedField("layout", b, a, c),
                          label |-> MergedField("label", b, a, c)],
               conflicts |-> {<<"field_edit", id>> :
                                f \in {g \in {"content"} \cup Visual :
                                         FieldConflict(g, b, a, c)}}]

At(f, id) == IF id \in DOMAIN f THEN f[id] ELSE None

\* Where an inserted block goes: behind its nearest placed predecessor, else
\* before its nearest placed successor, else at the end.
Place(order, ids, k) ==
  LET before == {j \in 1..(k - 1) : Contains(order, ids[j])}
      after == {j \in (k + 1)..Len(ids) : Contains(order, ids[j])}
      index(id) == CHOOSE i \in DOMAIN order : order[i] = id
  IN  IF Contains(order, ids[k]) THEN order
      ELSE CASE before # {} -> InsertAt(order, index(ids[Max(before)]) + 1, ids[k])
             [] before = {} /\ after # {} -> InsertAt(order, index(ids[Min(after)]), ids[k])
             [] OTHER -> Append(order, ids[k])

PlaceAll(order, ids) ==
  LET placed[k \in 0..Len(ids)] == IF k = 0 THEN order ELSE Place(placed[k - 1], ids, k)
  IN  placed[Len(ids)]

\* The exported blocks of an order that are in all three documents.
Common(ids, author, cur, surviving) ==
  Only(ids, Blocks \cap surviving \cap DOMAIN author.blocks \cap DOMAIN cur.blocks)

\* Plausible fault: the order is always the current one.
CurrentOrder(author, cur, surviving) ==
  Only(cur.order, Blocks \cap surviving)

\* A move of one side is kept; the current order wins over the author's.
StartOrder(author, cur, surviving) ==
  LET moved == Common(cur.order, author, cur, surviving) # Common(BaseOrder, author, cur, surviving)
  IN  Only(IF moved THEN cur.order ELSE author.order, Blocks \cap surviving)

MergeOrder(author, cur, surviving) ==
  LET live(ids) == Only(ids, surviving)
      orders == {Common(ids, author, cur, surviving) : ids \in {BaseOrder, author.order, cur.order}}
  IN  [order |-> PlaceAll(PlaceAll(StartOrder(author, cur, surviving), live(cur.order)),
                          live(author.order)),
       conflicts |-> IF Cardinality(orders) = 3 THEN {<<"order_edit", None>>} ELSE {}]

\* Every block merged on its own: <<block, what MergeOne says of it>>.
MergeEach(author, cur) ==
  {<<id, MergeOne(id, At(Base, id), At(author.blocks, id), At(cur.blocks, id))>> :
     id \in Blocks \cup DOMAIN author.blocks \cup DOMAIN cur.blocks}

MergeBlocks(author, cur) ==
  LET each == MergeEach(author, cur)
      left == {m \in each : m[2].value # None}
      placed == MergeOrder(author, cur, {m[1] : m \in left})
  IN  [order |-> placed.order,
       blocks |-> [id \in {m[1] : m \in left} |-> (CHOOSE m \in left : m[1] = id)[2].value],
       conflicts |-> (UNION {m[2].conflicts : m \in each}) \cup placed.conflicts]

-----------------------------------------------------------------------------
(* import_author_manuscript: what the new candidate holds.                 *)

ReferenceEdits(author) ==
  {<<"bibliography_source_edit_required", b>> :
     b \in {x \in Blocks : Kind(x) = "reference" /\ author.blocks[x].text # {}}}

\* A block in conflict is the current one, where there is one.
Final(merged, blocked) ==
  [id \in DOMAIN merged.blocks |->
     IF id \in blocked /\ id \in DOMAIN current.blocks THEN current.blocks[id] ELSE merged.blocks[id]]

\* _apply_blocks and the assembly refuse a block that the current drafts no
\* longer hold: a table or a caption without its object, and a paragraph whose
\* value token nothing declares.
Unassembled(final) ==
  {id \in (DOMAIN final \cap Blocks) \ DOMAIN current.blocks :
     Kind(id) \in Objects \/ final[id].spans # {}}

SameManuscript ==
  /\ current.title = 0
  /\ {Section(b) : b \in {x \in DOMAIN current.blocks : Kind(x) = "heading"}} = Sections

\* describe_author_refresh: what happened to the science since the export.
Refresh ==
  {<<id, CASE id \notin Blocks -> "new-content"
           [] id \in Blocks /\ (current.shared \/ Section(id) \in current.defined) -> "definition"
           [] OTHER -> IF current.blocks[id].text # {} THEN "text"
                       ELSE IF current.blocks[id].spans # Base[id].spans THEN "numeric-display"
                       ELSE "object-or-format">> :
     id \in {x \in DOMAIN current.blocks :
               \/ x \notin Blocks
               \/ current.shared \/ Section(x) \in current.defined
               \/ Semantic(current.blocks[x]) # Semantic(Base[x])}}

\* The author's file is read against the snapshot ...
ReadWordReturn ==
  /\ result.status = "none"
  /\ result' = IF SameManuscript
               THEN LET read == ReadReturn
                    IN  [status |-> "read", author |-> Restored(read), conflicts |-> read.conflicts]
               ELSE [status |-> "another manuscript"]
  /\ UNCHANGED <<page, marks, words, current, spent>>

\* ... then merged with the current candidate, and the new one is assembled.
MergeAndAssemble ==
  /\ result.status = "read"
  /\ LET merged == MergeBlocks(result.author, current)
         conflicts == result.conflicts \cup merged.conflicts \cup ReferenceEdits(result.author)
         final == Final(merged, {c[2] : c \in conflicts} \ {None})
     IN  result' = IF Unassembled(final) # {}
                   THEN [status |-> "refused", blocks |-> Unassembled(final)]
                   ELSE [status |-> IF conflicts = {} THEN "merged" ELSE "conflicts",
                         order |-> merged.order, blocks |-> final, conflicts |-> conflicts,
                         refresh |-> Refresh]
  /\ UNCHANGED <<page, marks, words, current, spent>>

-----------------------------------------------------------------------------
(* The author in Word.                                                     *)

AuthorCan == result.status = "none" /\ spent.author < MaxAuthor
AuthorEdit == /\ spent' = [spent EXCEPT !.author = @ + 1]
              /\ UNCHANGED <<current, result>>

Placed(b) == \E i \in DOMAIN page : page[i] = Item("block", b)
PageIndex(b) == CHOOSE i \in DOMAIN page : page[i] = Item("block", b)

AuthorWrites(b, e) ==
  /\ AuthorEdit /\ Placed(b) /\ words[b] = {}
  /\ Kind(b) \in {"paragraph", "caption", "reference"}
  /\ words' = [words EXCEPT ![b] = {e}]
  /\ UNCHANGED <<page, marks>>

AuthorMarks(b, m) ==
  /\ AuthorEdit /\ Placed(b) /\ m \in Marks(b) \ (marks[b] \cup {"split"})
  /\ marks' = [marks EXCEPT ![b] = @ \cup {m}]
  /\ UNCHANGED <<page, words>>

AuthorSplits(b) ==
  /\ AuthorEdit /\ Placed(b) /\ "split" \in Marks(b) \ marks[b]
  /\ marks' = [marks EXCEPT ![b] = @ \cup {"split"}]
  /\ page' = InsertAt(page, PageIndex(b) + 1, Item("half", b))
  /\ UNCHANGED words

\* The block goes, with its content control; the half of a split one stays.
AuthorDeletes(b) ==
  /\ AuthorEdit /\ Placed(b)
  /\ page' = RemoveAt(page, PageIndex(b))
  /\ UNCHANGED <<marks, words>>

\* A copy of the block, control included, is pasted at place i.
AuthorCopies(b, i) ==
  /\ AuthorEdit /\ Placed(b) /\ i <= Len(page) + 1
  /\ page' = InsertAt(page, i, Item("block", b))
  /\ UNCHANGED <<marks, words>>

AuthorMoves(b, i) ==
  /\ AuthorEdit /\ Anchored(b)
  /\ LET rest == RemoveAt(page, PageIndex(b))
     IN  i \in 1..(Len(rest) + 1) /\ i # PageIndex(b) /\ page' = InsertAt(rest, i, Item("block", b))
  /\ UNCHANGED <<marks, words>>

AuthorTypes(form, i) ==
  /\ AuthorEdit /\ \A j \in DOMAIN page : page[j].form # form
  /\ i <= Len(page) + 1
  /\ page' = InsertAt(page, i, Item(form, None))
  /\ UNCHANGED <<marks, words>>

-----------------------------------------------------------------------------
(* The current candidate, reassembled while the author has the file.       *)

CurrentCan == result.status = "none" /\ spent.current < MaxCurrent
CurrentEdit == /\ spent' = [spent EXCEPT !.current = @ + 1]
               /\ UNCHANGED <<page, marks, words, result>>

Has(b) == b \in DOMAIN current.blocks
SetBlock(b, v) == [current EXCEPT !.blocks = [@ EXCEPT ![b] = v]]

CurrentWrites(b, e) ==
  /\ CurrentEdit /\ Has(b) /\ Kind(b) \in {"paragraph", "caption"}
  /\ current.blocks[b].text = {}
  /\ current' = SetBlock(b, [current.blocks[b] EXCEPT !.text = {e}])

CurrentRecomputes(b) ==
  /\ CurrentEdit /\ Has(b) /\ current.blocks[b].spans = {<<"value", 0>>}
  /\ current' = SetBlock(b, [current.blocks[b] EXCEPT !.spans = {<<"value", 1>>}])

\* New column labels, or presentation kept from an earlier return.
CurrentSets(b, f) ==
  /\ CurrentEdit /\ Has(b) /\ current.blocks[b][f] = 0
  /\ \/ f = "content" /\ Kind(b) = "table"
     \/ f = "style" /\ Kind(b) = "paragraph"
  /\ current' = SetBlock(b, [current.blocks[b] EXCEPT ![f] = 2])

\* A figure goes with its caption, a heading with its section.
GoesWith(b) ==
  {x \in DOMAIN current.blocks :
     \/ x = b
     \/ Kind(b) = "figure" /\ x = <<b[1], "caption", b[3]>>
     \/ Kind(b) = "heading" /\ Section(x) = Section(b)}

CurrentDrops(b) ==
  /\ CurrentEdit /\ Has(b) /\ Kind(b) # "caption"
  /\ current' = [current EXCEPT
                   !.order = Only(@, DOMAIN current.blocks \ GoesWith(b)),
                   !.blocks = [x \in DOMAIN @ \ GoesWith(b) |-> @[x]]]

\* Two neighbours of a section change places.
CurrentSwaps(i) ==
  /\ CurrentEdit /\ i + 1 \in DOMAIN current.order
  /\ {Kind(current.order[i]), Kind(current.order[i + 1])} \subseteq {"paragraph", "table"}
  /\ Section(current.order[i]) = Section(current.order[i + 1])
  /\ current' = [current EXCEPT !.order = [@ EXCEPT ![i] = current.order[i + 1],
                                                   ![i + 1] = current.order[i]]]

CurrentAdds(b, i) ==
  /\ CurrentEdit /\ ~ Has(b) /\ i \in DOMAIN current.order
  /\ Section(current.order[i]) = Section(b)
  /\ current' = [current EXCEPT !.order = InsertAt(@, i + 1, b),
                                !.blocks = [x \in DOMAIN @ \cup {b} |->
                                              IF x = b THEN NewBlock ELSE @[x]]]

CurrentRedefines(s) ==
  /\ CurrentEdit /\ s \notin current.defined
  /\ current' = [current EXCEPT !.defined = @ \cup {s}]

CurrentSharesTerms == CurrentEdit /\ ~ current.shared /\ current' = [current EXCEPT !.shared = TRUE]
CurrentRetitles == CurrentEdit /\ current.title = 0 /\ current' = [current EXCEPT !.title = 1]

-----------------------------------------------------------------------------
Init ==
  /\ page = [i \in DOMAIN BaseOrder |-> Item("block", BaseOrder[i])]
  /\ marks = [b \in Blocks |-> {}]
  /\ words = [b \in Blocks |-> {}]
  /\ current = [order |-> BaseOrder, blocks |-> Base, title |-> 0,
                defined |-> {}, shared |-> FALSE]
  /\ result = [status |-> "none"]
  /\ spent = [author |-> 0, current |-> 0]

AuthorActs ==
  \/ \E b \in Blocks : \/ \E e \in AuthorText : AuthorWrites(b, e)
                      \/ \E m \in Marks(b) : AuthorMarks(b, m)
                      \/ AuthorSplits(b)
                      \/ AuthorDeletes(b)
                      \/ \E i \in Spots : AuthorCopies(b, i) \/ AuthorMoves(b, i)
  \/ \E f \in {"body", "heading", "title", "foreign"}, i \in Spots : AuthorTypes(f, i)

CurrentActs ==
  \/ \E b \in Blocks : \/ \E e \in CurrentText : CurrentWrites(b, e)
                      \/ CurrentRecomputes(b)
                      \/ \E f \in {"content", "style"} : CurrentSets(b, f)
                      \/ CurrentDrops(b)
  \/ \E i \in DOMAIN current.order : CurrentSwaps(i) \/ \E b \in Added : CurrentAdds(b, i)
  \/ \E s \in Sections : CurrentRedefines(s)
  \/ CurrentSharesTerms
  \/ CurrentRetitles

Next ==
  \/ AuthorCan /\ AuthorActs
  \/ CurrentCan /\ CurrentActs
  \/ ReadWordReturn \/ MergeAndAssemble

Spec == Init /\ [][Next]_vars

-----------------------------------------------------------------------------
(* What a return promises.                                                 *)

Imported == result.status \in {"merged", "conflicts"}
InConflict == {c[2] : c \in result.conflicts}
Reported(kinds) == \E c \in result.conflicts : c[1] \in kinds

TypeOK ==
  /\ marks \in [Blocks -> SUBSET UNION {Marks(b) : b \in Blocks}]
  /\ words \in [Blocks -> SUBSET AuthorText]
  /\ result.status \in {"none", "read", "another manuscript", "refused", "merged", "conflicts"}
  /\ ToSet(current.order) = DOMAIN current.blocks
  /\ Imported => ToSet(result.order) = DOMAIN result.blocks /\ IsInjective(result.order)

\* No work is lost without a word.  Every block of the current candidate is in
\* the new one; the author's words and the current ones are both in its text
\* unless a conflict names the block; a block in conflict is the current one;
\* and a text the author wrote in a block that the current candidate dropped
\* is there or in conflict.
NothingLost ==
  Imported =>
    /\ DOMAIN current.blocks \subseteq DOMAIN result.blocks
    /\ \A b \in DOMAIN current.blocks :
         IF b \in InConflict THEN result.blocks[b] = current.blocks[b]
         ELSE current.blocks[b].text \subseteq result.blocks[b].text
    /\ \A b \in Blocks : words[b] # {} =>
         b \in InConflict \/ (b \in DOMAIN result.blocks /\ words[b] \subseteq result.blocks[b].text)

\* A paragraph the author typed in the running text is in the new candidate, as
\* a paragraph of its own, or the return says that it could not be placed.
NewProseReported ==
  Imported /\ (\E i \in DOMAIN page : page[i].form \in {"body", "half"}) =>
    \/ DOMAIN result.blocks \ (Blocks \cup Added) # {}
    \/ Reported({"unanchored_content", "generated_title_modified",
                "paragraph_split_with_protected_content"})
    \/ \E i \in DOMAIN page : page[i].form = "half" /\ LocalConflict(page[i].id) # {}

\* What the author wrote survives the return, or the return names it.
AuthorProseSurvives == NothingLost /\ NewProseReported

\* Numbers come from the science, never from the Word file: a value in the new
\* candidate is displayed as the current candidate displays it, and it is gone
\* only when the author deleted its clause or the science did.
NumbersFollowSource ==
  Imported =>
    \A b \in DOMAIN result.blocks \cap DOMAIN current.blocks :
      /\ result.blocks[b].spans \subseteq current.blocks[b].spans
      /\ current.blocks[b].spans # result.blocks[b].spans =>
           b \in Blocks /\ "clause" \in marks[b] /\ b \notin InConflict

\* Two blocks of a section change their order only if the author or the current
\* candidate moved one of them, or the control of the earlier one is missing and
\* reported; a block the current candidate dropped stands by its neighbours when
\* others were moved.  And an author's move within a section is kept unless the
\* current candidate moved blocks too.
Before(order) ==
  {<<order[p[1]], order[p[2]]>> :
     p \in {q \in (DOMAIN order) \X (DOMAIN order) :
             /\ q[1] < q[2] /\ order[q[1]] \in Blocks /\ order[q[2]] \in Blocks
             /\ Section(order[q[1]]) = Section(order[q[2]])}}
Swapped(order) == {p \in Before(order) : BaseIndex[p[2]] < BaseIndex[p[1]]}
PageOrder ==   \* the half of a split paragraph may go where it likes
  LET places == FromTop({i \in DOMAIN page : page[i].form = "block"})
  IN  [k \in DOMAIN places |-> page[places[k]].id]
Unplaced(b) == {<<"missing_anchor", b>>, <<"duplicate_anchor", b>>} \cap result.conflicts # {}
InBoth(p) == {p[1], p[2]} \subseteq DOMAIN current.blocks

MovesAreIntended ==
  /\ \A p \in Swapped(result.order) : InBoth(p) \/ Swapped(current.order) = {} =>
       p \in Before(current.order) \cup Before(PageOrder) \/ Unplaced(p[2])
  /\ Swapped(current.order) = {} =>
       \A p \in Swapped(PageOrder) :
         InBoth(p) => p \in Before(result.order) \/ Unplaced(p[1]) \/ Unplaced(p[2])

\* A block that the current candidate dropped and the author changed is put
\* back behind the block above it in the author's file, with none of the
\* exported ones between.
Stands(i) == IsRecord(i) /\ page[i].id \in DOMAIN result.blocks
NextAbove(j, i) ==
  Stands(j) /\ Stands(i) /\ j < i /\ ~ \E k \in DOMAIN page : j < k /\ k < i /\ Stands(k)
PlaceIn(order, b) == CHOOSE k \in DOMAIN order : order[k] = b
DroppedStayInPlace ==
  \A i, j \in DOMAIN page :
    page[i].id \notin DOMAIN current.blocks /\ NextAbove(j, i) =>
      LET from == PlaceIn(result.order, page[j].id)
          to == PlaceIn(result.order, page[i].id)
      IN  from < to /\ \A k \in (from + 1)..(to - 1) : result.order[k] \notin Blocks

OrderIsIntended == Imported => MovesAreIntended /\ DroppedStayInPlace

\* author_workspace.py:292: the import creates "an editable new candidate and
\* localized conflict/host action records"; only another manuscript is refused.
ImportAnswers == result.status # "refused"
=============================================================================
