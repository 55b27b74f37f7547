--------------------------- MODULE WordReturnProofs ---------------------------
(***************************************************************************)
(* What a Word return promises, proved for every document, every edit of   *)
(* either side and every number of them: no word of the author and none of *)
(* the current candidate is lost without a conflict that names the block,  *)
(* every number is displayed as the science displays it, and the blocks    *)
(* stand in the order that one of the sides gave them.  The inductive      *)
(* invariant of the first two says what the reading hands to the merge     *)
(* (ReadFits); how the new paragraphs are accepted, one after the other,   *)
(* is an induction over the page (NewAreAccepted).  The order takes the    *)
(* second half: OInv adds that the current candidate keeps its sections in *)
(* the order of the export, that the reading has the order of the page,    *)
(* and that the new candidate follows the author or the current candidate. *)
(***************************************************************************)
EXTENDS WordReturn, FiniteSetTheorems, SequenceTheorems, WellFoundedInduction, TLAPS

Items == [form : {"block", "half"}, id : Blocks] \cup
         [form : {"body", "heading", "title", "foreign"}, id : {None}]
MarkNames == UNION {Marks(b) : b \in Blocks}

\* The author's file: a list of items, and a half only of a split block.
PageFits ==
  /\ page \in Seq(Items) /\ Len(page) <= Len(BaseOrder) + spent.author
  /\ \A i \in DOMAIN page : page[i].form = "half" =>
       page[i].id \in Blocks /\ "split" \in marks[page[i].id]
  /\ marks \in [Blocks -> SUBSET MarkNames] /\ words \in [Blocks -> SUBSET AuthorText]
  /\ spent \in [author : 0..MaxAuthor, current : 0..MaxCurrent]

CurrentFits ==
  /\ DOMAIN current = {"order", "blocks", "title", "defined", "shared"}
  /\ DOMAIN current.blocks \subseteq Blocks \cup Added
  /\ current.blocks \in [DOMAIN current.blocks -> BlockValue]

\* What was typed at place i is a block of its own, or is reported.
ProseTold(i, author, conflicts) ==
  \/ \E id \in DOMAIN author : id \notin Blocks \cup Added
  \/ \E c \in conflicts : c[1] \in {"unanchored_content", "generated_title_modified",
                                    "paragraph_split_with_protected_content"}
  \/ page[i].form = "half" /\ LocalConflict(page[i].id) # {}

\* What the reading hands to the merge.
Honest(author, conflicts) ==
  /\ Blocks \subseteq DOMAIN author /\ author \in [DOMAIN author -> BlockValue]
  /\ \A b \in Blocks :
       /\ author[b].spans # Base[b].spans => "clause" \in marks[b]
       /\ words[b] # {} => (\E c \in conflicts : c[2] = b) \/ author[b].text = words[b]
  /\ \A i \in DOMAIN page : page[i].form \in {"body", "half"} => ProseTold(i, author, conflicts)

ReadFits == result.status = "read" => Honest(result.author.blocks, result.conflicts)

IInv == PageFits /\ CurrentFits /\ ReadFits /\ AuthorProseSurvives /\ NumbersFollowSource

-----------------------------------------------------------------------------
(* Natural numbers, by their least element.                                *)

\* Every set of natural numbers has a least one.
LEMMA LeastNat ==
  ASSUME NEW T \in SUBSET Nat, T # {}
  PROVE  \E n \in T : \A m \in T : n <= m
<1> DEFINE R == OpToRel(<, Nat)
<1>1. IsWellFoundedOn(R, Nat)
  BY NatLessThanWellFounded
<1>2. \A x, y \in Nat : x < y => <<x, y>> \in R
  BY DEF OpToRel
<1> HIDE DEF R
<1>3. PICK x \in T : \A y \in T : ~ (<<y, x>> \in R)
  BY <1>1, WFMin
<1>4. ASSUME NEW y \in T PROVE x <= y
  <2>1. x \in Nat /\ y \in Nat
    OBVIOUS
  <2>2. ~ (y < x)
    BY <1>2, <1>3, <2>1
  <2> QED
    BY <2>1, <2>2
<1> QED
  BY <1>4

\* A new paragraph is accepted exactly when, among those accepted above it,
\* nothing speaks against it.
LEMMA NewAreAccepted ==
  ASSUME page \in Seq(Items), NEW kept, NEW missing, NEW loose \in SUBSET DOMAIN page
  PROVE  LET new == Accepted(kept, missing, loose)
         IN  /\ new \subseteq loose
             /\ \A i \in loose : i \in new <=>
                  UnanchoredConflict(i, kept, Earlier(new, i), missing) = "none"
<1> DEFINE N == Len(page)
           Good(before, i) == i \in loose /\ UnanchoredConflict(i, kept, before, missing) = "none"
           Then(before, i) == IF Good(before, i) THEN before \cup {i} ELSE before
           Rows(g, n) == g = [i \in 0..n |-> IF i = 0 THEN {} ELSE Then(g[i - 1], i)]
           g0 == CHOOSE g : Rows(g, N)
<1>0. N \in Nat /\ DOMAIN page = 1..N
  BY LenProperties
<1>a. Accepted(kept, missing, loose) = g0[N]
  BY DEF Accepted
<1> HIDE DEF Good, N
<1>1. \A n \in Nat : \E g : Rows(g, n)
  <2> DEFINE Bad == {n \in Nat : ~ \E g : Rows(g, n)}
  <2> SUFFICES ASSUME Bad # {} PROVE FALSE
    OBVIOUS
  <2>1. PICK n \in Bad : \A m \in Bad : n <= m
    BY LeastNat
  <2>2. CASE n = 0
    <3>1. Rows([i \in 0..0 |-> {}], 0)
      OBVIOUS
    <3> QED
      BY <2>2, <3>1
  <2>3. CASE n # 0
    <3>0. n \in Nat
      OBVIOUS
    <3> HIDE DEF Bad
    <3>1. n - 1 \in Nat /\ n - 1 \notin Bad /\ n \in Nat
      BY <2>1, <2>3, <3>0
    <3>2. PICK g : Rows(g, n - 1)
      BY <3>1 DEF Bad
    <3> USE DEF Bad
    <3> DEFINE h == [i \in 0..n |-> IF i = n THEN Then(g[n - 1], n) ELSE g[i]]
    <3> HIDE DEF Then
    <3>3. \A i \in 0..n : h[i] = IF i = 0 THEN {} ELSE Then(h[i - 1], i)
      <4> TAKE i \in 0..n
      <4>1. CASE i = n
        BY <3>1, <2>3, <4>1
      <4>2. CASE i # n
        <5>1. i \in 0..(n - 1) /\ (i # 0 => i - 1 \in 0..(n - 1))
          BY <3>1, <4>2
        <5>2. g[i] = IF i = 0 THEN {} ELSE Then(g[i - 1], i)
          BY <3>2, <5>1
        <5> QED
          BY <5>1, <5>2, <3>1
      <4> QED
        BY <4>1, <4>2
    <3>4. Rows(h, n)
      BY <3>3
    <3> QED
      BY <3>4
  <2> QED
    BY <2>2, <2>3
<1>2. Rows(g0, N)
  BY <1>0, <1>1
<1> DEFINE F == g0
<1> HIDE DEF g0, Then
<1>3. F[0] = {} /\ \A i \in 1..N : F[i] = Then(F[i - 1], i)
  <2>1. \A i \in 0..N : F[i] = IF i = 0 THEN {} ELSE Then(F[i - 1], i)
    BY <1>2
  <2> QED
    BY <2>1, <1>0
<1> HIDE DEF F, Rows
<1> DEFINE Ordered(i) == /\ F[i] \subseteq loose /\ \A k \in F[i] : k <= i
                         /\ \A j \in 0..i : F[j] = {k \in F[i] : k <= j}
<1>4. \A i \in Nat : i <= N => Ordered(i)
  <2> DEFINE Bad == {i \in Nat : i <= N /\ ~ Ordered(i)}
  <2> SUFFICES ASSUME Bad # {} PROVE FALSE
    OBVIOUS
  <2>1. PICK n \in Bad : \A m \in Bad : n <= m
    BY LeastNat
  <2>2. CASE n = 0
    BY <1>3, <2>1, <2>2
  <2>3. CASE n # 0
    <3>1. n - 1 \in Nat /\ n - 1 <= N /\ n - 1 \notin Bad /\ n \in 1..N
      BY <2>1, <2>3, <1>0
    <3>2. Ordered(n - 1)
      BY <3>1
    <3>3. F[n] = F[n - 1] \/ (n \in loose /\ F[n] = F[n - 1] \cup {n})
      BY <1>3, <3>1 DEF Then, Good
    <3>4. F[n] \subseteq loose /\ \A k \in F[n] : k \in 1..N
      BY <3>2, <3>3, <1>0
    <3>5. \A k \in F[n] : k <= n
      BY <3>2, <3>3, <3>4, <3>1, <1>0
    <3>6. ASSUME NEW j \in 0..n PROVE F[j] = {k \in F[n] : k <= j}
      <4>1. CASE j = n
        BY <3>5, <4>1
      <4>2. CASE j # n
        <5>1. j \in 0..(n - 1)
          BY <3>1, <4>2
        <5>2. F[j] = {k \in F[n - 1] : k <= j}
          BY <3>2, <5>1
        <5>3. ~ (n <= j)
          BY <3>1, <5>1
        <5> QED
          BY <5>2, <5>3, <3>3
      <4> QED
        BY <4>1, <4>2
    <3> QED
      BY <3>4, <3>5, <3>6, <2>1
  <2> QED
    BY <2>2, <2>3
<1>5. Ordered(N)
  BY <1>0, <1>4
<1>6. ASSUME NEW i \in loose
      PROVE  i \in F[N] <=> UnanchoredConflict(i, kept, Earlier(F[N], i), missing) = "none"
  <2>1. i \in 1..N /\ i - 1 \in 0..N /\ i \in 0..N
    BY <1>0
  <2>2. \A k \in F[N] : k \in 1..N
    BY <1>0, <1>5
  <2>3. F[i - 1] = Earlier(F[N], i)
    BY <1>5, <2>1, <2>2 DEF Earlier
  <2>4. i \in F[N] <=> i \in F[i]
    BY <1>5, <2>1
  <2>5. i \notin F[i - 1]
    BY <2>1, <2>3 DEF Earlier
  <2>6. i \in F[i] <=> Good(F[i - 1], i)
    BY <1>3, <2>1, <2>5 DEF Then
  <2> QED
    BY <2>3, <2>4, <2>6 DEF Good
<1> QED
  BY <1>a, <1>5, <1>6 DEF F
-----------------------------------------------------------------------------
(* The reading.                                                            *)

\* A new paragraph and the exported blocks are blocks.
LEMMA BlocksAreFit ==
  /\ NewBlock \in BlockValue
  /\ Base \in [Blocks -> BlockValue]
<1>1. \A b : BaseBlock(b) \in BlockValue
  BY DEF BaseBlock, BlockValue
<1>2. NewBlock \in BlockValue
  BY <1>1 DEF NewBlock, BlockValue, NewText
<1> QED
  BY <1>1, <1>2 DEF Base

\* A block is returned with the words and without the clause of the author, or as exported.
LEMMA ReturnedIsFit ==
  ASSUME PageFits, NEW b \in Blocks
  PROVE  /\ Returned(b) \in BlockValue
         /\ Returned(b).spans # Base[b].spans => "clause" \in marks[b]
         /\ LocalConflict(b) = {} => Returned(b).text = words[b]
<1>1. Base[b] \in BlockValue
  BY BlocksAreFit
<1>2. words[b] \in SUBSET AuthorText
  BY DEF PageFits
<1>3. CASE LocalConflict(b) # {}
  BY <1>1, <1>3 DEF Returned
<1>4. CASE LocalConflict(b) = {}
  <2>1. Returned(b) =
          [text |-> words[b],
           content |-> IF "heads" \in marks[b] THEN 1 ELSE 0,
           style |-> IF "styled" \in marks[b] THEN 1 ELSE 0,
           layout |-> IF "scaled" \in marks[b] THEN 1 ELSE 0,
           label |-> IF "alias" \in marks[b] THEN 1 ELSE 0,
           spans |-> IF ClauseDeleted(b) THEN {} ELSE Base[b].spans]
    BY <1>4 DEF Returned
  <2>2. Base[b].spans \in SUBSET ({"value"} \X {0, 1})
    BY <1>1 DEF BlockValue
  <2>3. Returned(b) \in BlockValue
    BY <1>2, <2>1, <2>2 DEF BlockValue
  <2>4. ClauseDeleted(b) => "clause" \in marks[b]
    BY DEF ClauseDeleted
  <2> QED
    BY <2>1, <2>3, <2>4
<1> QED
  BY <1>3, <1>4

\* The parts of what the reading answers.
LEMMA ReadingHas ==
  LET kept == {i \in DOMAIN page : IsRecord(i)}
      missing == {b \in Blocks : ~ Anchored(b)}
      loose == {i \in DOMAIN page : Unanchored(i)}
      new == Accepted(kept, missing, loose)
      id == [i \in kept \cup new |-> IF i \in kept THEN page[i].id ELSE NewId(i, kept)]
      read == ReadReturn
  IN  /\ read.blocks = [b \in {id[i] : i \in kept \cup new} |->
                          IF b \in Blocks THEN Returned(b) ELSE NewBlock]
      /\ \A b \in missing : \E c \in read.conflicts : c[2] = b
      /\ \A b \in Blocks \ missing : \A k \in LocalConflict(b) : <<k, b>> \in read.conflicts
      /\ \A i \in loose \ new :
           <<UnanchoredConflict(i, kept, Earlier(new, i), missing), None>> \in read.conflicts
<1> DEFINE kept == {i \in DOMAIN page : IsRecord(i)}
           missing == {b \in Blocks : ~ Anchored(b)}
           loose == {i \in DOMAIN page : Unanchored(i)}
           new == Accepted(kept, missing, loose)
           id == [i \in kept \cup new |-> IF i \in kept THEN page[i].id ELSE NewId(i, kept)]
           blocks == [b \in {id[i] : i \in kept \cup new} |->
                        IF b \in Blocks THEN Returned(b) ELSE NewBlock]
           said == ReadConflicts(kept, missing, loose, new)
<1>1. ReadReturn.blocks = blocks /\ said \subseteq ReadReturn.conflicts
  <2> HIDE DEF kept, missing, loose, new
  <2>1. ReadReturn = Reading(kept, missing, loose, new)
    BY DEF ReadReturn, kept, missing, loose, new
  <2>2. Reading(kept, missing, loose, new).blocks = blocks
    BY DEF Reading
  <2>3. said \subseteq Reading(kept, missing, loose, new).conflicts
    BY DEF Reading
  <2> QED
    BY <2>1, <2>2, <2>3
<1> HIDE DEF kept, missing, loose, new
<1>2. ASSUME NEW b \in missing PROVE \E c \in said : c[2] = b
  <2> DEFINE c == <<IF Copies(b) = {} THEN "missing_anchor" ELSE "duplicate_anchor", b>>
  <2>1. c \in said
    BY DEF ReadConflicts
  <2>2. c[2] = b
    OBVIOUS
  <2> QED
    BY <2>1, <2>2
<1>3. ASSUME NEW b \in Blocks \ missing, NEW k \in LocalConflict(b) PROVE <<k, b>> \in said
  <2>1. <<k, b>> \in {<<x, b>> : x \in LocalConflict(b)}
    OBVIOUS
  <2>2. <<k, b>> \in UNION {{<<x, a>> : x \in LocalConflict(a)} : a \in Blocks \ missing}
    BY <2>1
  <2> QED
    BY <2>2 DEF ReadConflicts
<1>4. \A i \in loose \ new : <<UnanchoredConflict(i, kept, Earlier(new, i), missing), None>> \in said
  <2> DEFINE loud == {<<UnanchoredConflict(i, kept, Earlier(new, i), missing), None>> : i \in loose \ new}
  <2>1. loud \subseteq said
    BY DEF ReadConflicts
  <2>2. \A i \in loose \ new : <<UnanchoredConflict(i, kept, Earlier(new, i), missing), None>> \in loud
    OBVIOUS
  <2> HIDE DEF loud, said
  <2> QED
    BY <2>1, <2>2
<1> HIDE DEF said, missing, blocks
<1>5. /\ \A b \in missing : \E c \in ReadReturn.conflicts : c[2] = b
      /\ \A b \in Blocks \ missing : \A k \in LocalConflict(b) : <<k, b>> \in ReadReturn.conflicts
      /\ \A i \in loose \ new :
           <<UnanchoredConflict(i, kept, Earlier(new, i), missing), None>> \in ReadReturn.conflicts
  BY <1>1, <1>2, <1>3, <1>4
<1> QED
  BY <1>1, <1>5 DEF kept, missing, loose, new, id, blocks

\* The reading hands the author's words to the merge, or says what it could not read.
LEMMA ReadingIsHonest ==
  ASSUME PageFits
  PROVE  Honest(Restored(ReadReturn).blocks, ReadReturn.conflicts)
<1> DEFINE kept == {i \in DOMAIN page : IsRecord(i)}
           missing == {b \in Blocks : ~ Anchored(b)}
           loose == {i \in DOMAIN page : Unanchored(i)}
           new == Accepted(kept, missing, loose)
           id == [i \in kept \cup new |-> IF i \in kept THEN page[i].id ELSE NewId(i, kept)]
           named == {id[i] : i \in kept \cup new}
           read == ReadReturn
           author == Restored(read).blocks
<1>1. /\ read.blocks = [b \in named |-> IF b \in Blocks THEN Returned(b) ELSE NewBlock]
      /\ \A b \in missing : \E c \in read.conflicts : c[2] = b
      /\ \A b \in Blocks \ missing : \A k \in LocalConflict(b) : <<k, b>> \in read.conflicts
      /\ \A i \in loose \ new :
           <<UnanchoredConflict(i, kept, Earlier(new, i), missing), None>> \in read.conflicts
  BY ReadingHas, Zenon
<1>2. author = [b \in named \cup Blocks |-> IF b \in named THEN read.blocks[b] ELSE Base[b]]
  <2> HIDE DEF named, read
  <2>1. DOMAIN read.blocks = named
    BY <1>1
  <2> QED
    BY <2>1 DEF Restored
<1>3. \A b \in named : read.blocks[b] = IF b \in Blocks THEN Returned(b) ELSE NewBlock
  <2> HIDE DEF named, read
  <2> QED
    BY <1>1
<1>4. new \subseteq loose /\ \A i \in loose : i \in new <=>
        UnanchoredConflict(i, kept, Earlier(new, i), missing) = "none"
  <2>1. page \in Seq(Items) /\ loose \in SUBSET DOMAIN page
    BY DEF PageFits
  <2> HIDE DEF kept, missing, loose
  <2> QED
    BY <2>1, NewAreAccepted
<1>5. \A i \in new \ kept : NewId(i, kept) \in named
  <2> HIDE DEF kept, new
  <2> QED
    OBVIOUS
<1>6. \A b \in Blocks \ missing : b \in named
  <2> SUFFICES ASSUME NEW b \in Blocks, Anchored(b) PROVE b \in named
    OBVIOUS
  <2>1. Copies(b) # {}
    BY FS_EmptySet DEF Anchored
  <2>2. PICK i \in DOMAIN page : page[i] = Item("block", b)
    BY <2>1 DEF Copies
  <2>3. i \in kept /\ page[i].id = b
    BY <2>2 DEF IsRecord, Item
  <2> HIDE DEF kept, new
  <2> QED
    BY <2>3
<1> HIDE DEF named, read, author, new, id
<1>7. Blocks \subseteq DOMAIN author /\ author \in [DOMAIN author -> BlockValue]
  <2>1. \A b \in named : read.blocks[b] \in BlockValue
    BY <1>3, BlocksAreFit, ReturnedIsFit
  <2>2. \A b \in Blocks : Base[b] \in BlockValue
    BY BlocksAreFit
  <2> QED
    BY <1>2, <2>1, <2>2
<1>8. ASSUME NEW b \in Blocks
      PROVE  /\ author[b].spans # Base[b].spans => "clause" \in marks[b]
             /\ words[b] # {} => (\E c \in read.conflicts : c[2] = b) \/ author[b].text = words[b]
  <2>1. CASE b \in named
    <3>1. author[b] = Returned(b)
      BY <1>2, <1>3, <2>1
    <3>2. b \in missing \/ LocalConflict(b) # {} => \E c \in read.conflicts : c[2] = b
      <4>1. CASE b \in missing
        BY <1>1, <4>1
      <4>2. CASE b \notin missing /\ LocalConflict(b) # {}
        <5>1. PICK k \in LocalConflict(b) : TRUE
          BY <4>2
        <5>2. <<k, b>> \in read.conflicts
          BY <1>1, <4>2, <5>1
        <5> QED
          BY <5>2
      <4> QED
        BY <4>1, <4>2
    <3> QED
      BY <3>1, <3>2, ReturnedIsFit
  <2>2. CASE b \notin named
    <3>1. author[b] = Base[b] /\ b \in missing
      BY <1>2, <1>6, <2>2
    <3> QED
      BY <1>1, <3>1
  <2> QED
    BY <2>1, <2>2
<1>9. ASSUME NEW i \in DOMAIN page, page[i].form \in {"body", "half"}
      PROVE  ProseTold(i, author, read.conflicts)
  <2>1. CASE i \in new
    <3>1. i \notin kept
      BY <1>9 DEF IsRecord
    <3>2. NewId(i, kept) \in DOMAIN author
      BY <1>2, <1>5, <2>1, <3>1
    <3>3. NewId(i, kept) \notin Blocks \cup Added
      <4>1. i \in 1..(Len(BaseOrder) + MaxAuthor)
        <5>1. i \in 1..Len(page) /\ Len(page) \in Nat /\ Len(BaseOrder) \in Nat
          BY WordBounds, LenProperties DEF PageFits
        <5>2. spent.author \in 0..MaxAuthor
          BY DEF PageFits
        <5> QED
          BY <5>1, <5>2, WordBounds DEF PageFits
      <4>2. NewId(i, kept)[3] = AuthorName(i)
        BY DEF NewId
      <4> QED
        BY <4>1, <4>2, NamesAreNew DEF Blocks
    <3> QED
      BY <3>2, <3>3 DEF ProseTold
  <2>2. CASE i \in loose /\ i \notin new
    <3> DEFINE kind == UnanchoredConflict(i, kept, Earlier(new, i), missing)
    <3>1. <<kind, None>> \in read.conflicts
      BY <1>1, <2>2
    <3>2. kind # "none"
      BY <1>4, <2>2
    <3>3. kind \in {"generated_title_modified", "unanchored_content", "none"}
      BY <1>9 DEF UnanchoredConflict
    <3> HIDE DEF kind
    <3> QED
      BY <3>1, <3>2, <3>3 DEF ProseTold
  <2>3. CASE i \notin loose
    <3>1. /\ page[i].form = "half" /\ Anchored(page[i].id)
          /\ ~ SplitAllowed(page[i].id)
      BY <1>9, <2>3 DEF Unanchored
    <3>2. page[i].id \in Blocks /\ "split" \in marks[page[i].id]
      BY <3>1 DEF PageFits
    <3>3. "paragraph_split_with_protected_content" \in LocalConflict(page[i].id)
      BY <3>1, <3>2 DEF LocalConflict
    <3> QED
      BY <3>1, <3>3 DEF ProseTold
  <2>4. new \subseteq loose
    BY <1>4
  <2> QED
    BY <2>1, <2>2, <2>3
<1> QED
  BY <1>7, <1>8, <1>9 DEF Honest, author, read

-----------------------------------------------------------------------------
(* The merge.                                                              *)

\* What becomes of one block: nothing that either side wrote is lost without
\* a conflict that names it, and its numbers are the current ones.
Keeps(m, id, b, a, c) ==
  /\ m.value \in BlockValue \cup {None}
  /\ c # None => m.value # None /\ c.text \subseteq m.value.text /\ m.value.spans \subseteq c.spans
  /\ c # None /\ m.value.spans # c.spans => b # None /\ a.spans # b.spans
  /\ b = None /\ a # None => m.value # None
  /\ b # None /\ a.text # {} =>
       (\E k \in m.conflicts : k[2] = id) \/ (m.value # None /\ a.text \subseteq m.value.text)

\* A merged block keeps what Keeps says.
LEMMA MergedBlock ==
  ASSUME NEW id, NEW b \in BlockValue \cup {None}, NEW a \in BlockValue \cup {None},
         NEW c \in BlockValue \cup {None}, b # None => a # None /\ b.text = {},
         NEW m, m = MergeOne(id, b, a, c)
  PROVE  Keeps(m, id, b, a, c)
<1>0. None \notin BlockValue
  BY NoneIsNew
<1>1. CASE b = None
  <2>1. m.value = IF c # None THEN c ELSE a
    BY <1>1 DEF MergeOne
  <2>2. c # None => c \in BlockValue
    OBVIOUS
  <2> QED
    BY <1>1, <2>1 DEF Keeps
<1>2. CASE b # None /\ c = None
  <2>1. m.value = IF Survives(a, b) THEN a ELSE None
    BY <1>2 DEF MergeOne
  <2>2. a.text # {} => Survives(a, b)
    BY <1>2 DEF Survives, Semantic
  <2> QED
    BY <1>2, <2>1, <2>2 DEF Keeps
<1>3. CASE b # None /\ c # None
  <2>1. a \in BlockValue /\ c \in BlockValue /\ b \in BlockValue
    BY <1>3
  <2>2. CASE TextsCollide(a.text, c.text)
    <3>1. m = [value |-> c, conflicts |-> {<<"overlapping_edit", id>>}]
      BY <1>3, <2>2 DEF MergeOne
    <3>2. <<"overlapping_edit", id>> \in m.conflicts /\ <<"overlapping_edit", id>>[2] = id /\ m.value = c
      BY <3>1
    <3> QED
      BY <1>3, <2>1, <3>2 DEF Keeps
  <2>3. CASE ~ TextsCollide(a.text, c.text)
    <3> DEFINE spans == MergedSpans(b, a, c)
    <3>1. m.value = [text |-> MergedText(a.text, c.text),
                     spans |-> spans,
                     content |-> MergedField("content", b, a, c),
                     style |-> MergedField("style", b, a, c),
                     layout |-> MergedField("layout", b, a, c),
                     label |-> MergedField("label", b, a, c)]
      BY <1>3, <2>3 DEF MergeOne
    <3>2. \A f \in {"content", "style", "layout", "label"} : MergedField(f, b, a, c) \in {a[f], c[f]}
      BY DEF MergedField
    <3>3. /\ MergedField("content", b, a, c) \in 0..2 /\ MergedField("style", b, a, c) \in 0..2
          /\ MergedField("layout", b, a, c) \in 0..2 /\ MergedField("label", b, a, c) \in 0..2
      BY <2>1, <3>2 DEF BlockValue
    <3>4. spans \subseteq c.spans /\ (spans # c.spans => a.spans # b.spans)
      BY DEF MergedSpans
    <3>5. spans \in SUBSET ({"value"} \X {0, 1})
      BY <2>1, <3>4 DEF BlockValue
    <3>6. MergedText(a.text, c.text) \in SUBSET (AuthorText \cup CurrentText \cup NewText)
      BY <2>1 DEF BlockValue, MergedText
    <3> HIDE DEF spans
    <3>7. m.value \in BlockValue
      BY <3>1, <3>3, <3>5, <3>6 DEF BlockValue
    <3>8. m.value.spans = spans /\ m.value.text = a.text \cup c.text
      BY <3>1 DEF MergedText
    <3> QED
      BY <1>0, <1>3, <3>4, <3>7, <3>8 DEF Keeps
  <2> QED
    BY <2>2, <2>3
<1> QED
  BY <1>1, <1>2, <1>3

\* All blocks: each goes its own way.
LEMMA MergedBlocks ==
  ASSUME NEW author, NEW cur
  PROVE  LET Of(id) == MergeOne(id, At(Base, id), At(author.blocks, id), At(cur.blocks, id))
             ids == Blocks \cup DOMAIN author.blocks \cup DOMAIN cur.blocks
             merged == MergeBlocks(author, cur)
         IN  /\ DOMAIN merged.blocks = {id \in ids : Of(id).value # None}
             /\ \A id \in DOMAIN merged.blocks : merged.blocks[id] = Of(id).value
             /\ \A id \in ids : Of(id).conflicts \subseteq merged.conflicts
<1> DEFINE Of(id) == MergeOne(id, At(Base, id), At(author.blocks, id), At(cur.blocks, id))
           ids == Blocks \cup DOMAIN author.blocks \cup DOMAIN cur.blocks
           merged == MergeBlocks(author, cur)
           each == {<<id, Of(id)>> : id \in ids}
           left == {m \in each : m[2].value # None}
<1>1. MergeEach(author, cur) = each
  BY DEF MergeEach
<1> HIDE DEF each
<1>2. /\ merged.blocks = [id \in {m[1] : m \in left} |-> (CHOOSE m \in left : m[1] = id)[2].value]
      /\ (UNION {m[2].conflicts : m \in each}) \subseteq merged.conflicts
  <2>1. merged.blocks = [id \in {m[1] : m \in left} |-> (CHOOSE m \in left : m[1] = id)[2].value]
    BY <1>1 DEF MergeBlocks
  <2>2. (UNION {m[2].conflicts : m \in each}) \subseteq merged.conflicts
    BY <1>1 DEF MergeBlocks
  <2> QED
    BY <2>1, <2>2
<1> HIDE DEF merged, ids, Of
<1>3. \A m : m \in each <=> \E id \in ids : m = <<id, Of(id)>>
  BY DEF each
<1>4. ASSUME NEW id \in {m[1] : m \in left}
      PROVE  id \in ids /\ Of(id).value # None /\ (CHOOSE m \in left : m[1] = id)[2].value = Of(id).value
  <2>1. PICK m \in left : m[1] = id
    OBVIOUS
  <2>2. (CHOOSE x \in left : x[1] = id) \in left /\ (CHOOSE x \in left : x[1] = id)[1] = id
    BY <2>1
  <2>3. \A x \in left : x[1] = id => id \in ids /\ x[2] = Of(id) /\ Of(id).value # None
    BY <1>3
  <2> QED
    BY <2>1, <2>2, <2>3
<1>5. ASSUME NEW id \in ids, Of(id).value # None PROVE id \in {m[1] : m \in left}
  <2>1. <<id, Of(id)>> \in left
    BY <1>3, <1>5
  <2> QED
    BY <2>1
<1>6. ASSUME NEW id \in ids PROVE Of(id).conflicts \subseteq merged.conflicts
  <2>1. <<id, Of(id)>> \in each
    BY <1>3
  <2> QED
    BY <1>2, <2>1
<1>7. DOMAIN merged.blocks = {id \in ids : Of(id).value # None}
  <2>1. DOMAIN merged.blocks = {m[1] : m \in left}
    BY <1>2
  <2> QED
    BY <2>1, <1>4, <1>5
<1>8. \A id \in DOMAIN merged.blocks : merged.blocks[id] = Of(id).value
  BY <1>2, <1>4
<1> QED
  BY <1>6, <1>7, <1>8 DEF merged, ids, Of

\* The new candidate keeps what both sides wrote, and the science's numbers.
LEMMA ImportKeeps ==
  ASSUME PageFits, CurrentFits, ReadFits, MergeAndAssemble
  PROVE  AuthorProseSurvives' /\ NumbersFollowSource'
<1> DEFINE A == result.author.blocks
           C == current.blocks
           merged == MergeBlocks(result.author, current)
           conflicts == result.conflicts \cup merged.conflicts \cup ReferenceEdits(result.author)
           blocked == {c[2] : c \in conflicts} \ {None}
           final == Final(merged, blocked)
           Of(id) == MergeOne(id, At(Base, id), At(A, id), At(C, id))
<1>1. UNCHANGED <<page, marks, words, current, spent>> /\ Honest(A, result.conflicts)
  BY DEF MergeAndAssemble, ReadFits
<1>2. SUFFICES ASSUME Imported' PROVE AuthorProseSurvives' /\ NumbersFollowSource'
  BY DEF AuthorProseSurvives, NothingLost, NewProseReported, NumbersFollowSource
<1>3. result'.blocks = final /\ result'.conflicts = conflicts
  BY <1>2 DEF MergeAndAssemble, Imported
<1>4. /\ DOMAIN final = DOMAIN merged.blocks
      /\ \A id \in DOMAIN merged.blocks :
           final[id] = IF id \in blocked /\ id \in DOMAIN C THEN C[id] ELSE merged.blocks[id]
  BY DEF Final
<1>5. /\ DOMAIN merged.blocks = {id \in Blocks \cup DOMAIN A \cup DOMAIN C : Of(id).value # None}
      /\ \A id \in DOMAIN merged.blocks : merged.blocks[id] = Of(id).value
      /\ \A id \in Blocks \cup DOMAIN A \cup DOMAIN C : Of(id).conflicts \subseteq merged.conflicts
  BY MergedBlocks
<1>6. /\ DOMAIN C \subseteq Blocks \cup Added /\ C \in [DOMAIN C -> BlockValue]
      /\ Blocks \subseteq DOMAIN A /\ A \in [DOMAIN A -> BlockValue]
      /\ Base \in [Blocks -> BlockValue] /\ None \notin BlockValue /\ None \notin Blocks \cup Added
  BY <1>1, BlocksAreFit, NoneIsNew DEF CurrentFits, Honest, Blocks
<1>7. \A b \in Blocks : Base[b].text = {}
  BY DEF Base, BaseBlock
<1> HIDE DEF A, C, merged, conflicts, blocked, final
<1>8. ASSUME NEW id
      PROVE  /\ At(Base, id) \in BlockValue \cup {None} /\ At(A, id) \in BlockValue \cup {None}
             /\ At(C, id) \in BlockValue \cup {None}
             /\ At(Base, id) # None <=> id \in Blocks
             /\ At(A, id) # None <=> id \in DOMAIN A
             /\ At(C, id) # None <=> id \in DOMAIN C
             /\ id \in Blocks => At(Base, id) = Base[id]
             /\ id \in DOMAIN A => At(A, id) = A[id]
             /\ id \in DOMAIN C => At(C, id) = C[id]
  BY <1>6 DEF At
<1>9. ASSUME NEW id
      PROVE  /\ id \in DOMAIN C =>
                  /\ Of(id).value # None /\ C[id].text \subseteq Of(id).value.text
                  /\ Of(id).value.spans \subseteq C[id].spans
                  /\ Of(id).value.spans # C[id].spans => id \in Blocks /\ A[id].spans # Base[id].spans
             /\ id \in DOMAIN A /\ id \notin Blocks => Of(id).value # None
             /\ id \in Blocks /\ A[id].text # {} =>
                  \/ \E k \in Of(id).conflicts : k[2] = id
                  \/ Of(id).value # None /\ A[id].text \subseteq Of(id).value.text
  <2>1. At(Base, id) # None => At(A, id) # None /\ At(Base, id).text = {}
    BY <1>6, <1>7, <1>8
  <2> DEFINE b == At(Base, id)
             a == At(A, id)
             c == At(C, id)
  <2>2. /\ b \in BlockValue \cup {None} /\ a \in BlockValue \cup {None} /\ c \in BlockValue \cup {None}
        /\ b # None => a # None /\ b.text = {}
    BY <1>8, <2>1
  <2> DEFINE m == Of(id)
  <2>3. m = MergeOne(id, b, a, c)
    OBVIOUS
  <2> HIDE DEF a, b, c, Of, m
  <2>4. Keeps(m, id, b, a, c)
    BY <2>2, <2>3, MergedBlock
  <2>5. /\ b # None <=> id \in Blocks
        /\ a # None <=> id \in DOMAIN A
        /\ c # None <=> id \in DOMAIN C
        /\ id \in Blocks => b = Base[id]
        /\ id \in DOMAIN A => a = A[id]
        /\ id \in DOMAIN C => c = C[id]
    BY <1>8 DEF a, b, c
  <2> QED
    BY <1>6, <2>4, <2>5 DEF m, Keeps
<1> HIDE DEF Of
<1>10. DOMAIN C \subseteq DOMAIN final
  BY <1>4, <1>5, <1>9
<1>11. \A id : id \in blocked <=> id # None /\ \E c \in conflicts : c[2] = id
  BY DEF blocked
<1>12. \A b \in Blocks \cup Added : b \in blocked <=> b \in {c[2] : c \in conflicts}
  BY <1>6, <1>11
<1>13. ASSUME NEW b \in DOMAIN C
       PROVE  /\ b \in {c[2] : c \in conflicts} => final[b] = C[b]
              /\ b \notin {c[2] : c \in conflicts} => final[b] = Of(b).value
  BY <1>4, <1>5, <1>6, <1>10, <1>12
<1>14. ASSUME NEW b \in Blocks, words[b] # {}, b \notin {c[2] : c \in conflicts}
       PROVE  b \in DOMAIN final /\ words[b] \subseteq final[b].text
  <2>1. A[b].text = words[b]
    BY <1>1, <1>14 DEF Honest, conflicts
  <2>2. ~ \E k \in Of(b).conflicts : k[2] = b
    BY <1>5, <1>14 DEF conflicts
  <2>3. Of(b).value # None /\ words[b] \subseteq Of(b).value.text
    BY <1>9, <1>14, <2>1, <2>2
  <2>4. b \in DOMAIN merged.blocks /\ merged.blocks[b] = Of(b).value
    BY <1>5, <2>3
  <2>5. b \notin blocked
    BY <1>12, <1>14
  <2> QED
    BY <1>4, <2>3, <2>4, <2>5
<1>15. NothingLost'
  <2>1. \A b \in DOMAIN C : IF b \in {c[2] : c \in conflicts} THEN final[b] = C[b]
                            ELSE C[b].text \subseteq final[b].text
    BY <1>9, <1>13
  <2> QED
    BY <1>1, <1>3, <1>10, <1>14, <2>1 DEF NothingLost, InConflict, C
<1>16. NewProseReported'
  <2> SUFFICES ASSUME NEW i \in DOMAIN page, page[i].form \in {"body", "half"}
               PROVE  \/ DOMAIN final \ (Blocks \cup Added) # {}
                      \/ \E c \in conflicts : c[1] \in {"unanchored_content", "generated_title_modified",
                                                        "paragraph_split_with_protected_content"}
                      \/ page[i].form = "half" /\ LocalConflict(page[i].id) # {}
    <3>1. (\A b \in Blocks : LocalConflict(b)' = LocalConflict(b)) /\ \A b : LocalConflict(b)' = LocalConflict(b)
      BY <1>1 DEF LocalConflict, ObjectConflict, SplitAllowed, TableConflict, SpanConflict, ClauseDeleted
    <3> QED
      BY <1>1, <1>3, <3>1 DEF NewProseReported, Reported
  <2>1. ProseTold(i, A, result.conflicts)
    BY <1>1 DEF Honest
  <2>2. ASSUME NEW id \in DOMAIN A, id \notin Blocks \cup Added
        PROVE  id \in DOMAIN final
    BY <1>4, <1>5, <1>9, <2>2
  <2> QED
    BY <2>1, <2>2 DEF ProseTold, conflicts
<1>17. NumbersFollowSource'
  <2> SUFFICES ASSUME NEW b \in DOMAIN final \cap DOMAIN C
               PROVE  /\ final[b].spans \subseteq C[b].spans
                      /\ C[b].spans # final[b].spans =>
                           b \in Blocks /\ "clause" \in marks[b] /\ b \notin {c[2] : c \in conflicts}
    BY <1>1, <1>3 DEF NumbersFollowSource, InConflict, C
  <2>1. CASE b \in {c[2] : c \in conflicts}
    BY <1>13, <2>1
  <2>2. CASE b \notin {c[2] : c \in conflicts}
    <3>1. final[b] = Of(b).value
      BY <1>13, <2>2
    <3>2. \A x \in Blocks : A[x].spans # Base[x].spans => "clause" \in marks[x]
      BY <1>1 DEF Honest
    <3> QED
      BY <1>9, <2>2, <3>1, <3>2
  <2> QED
    BY <2>1, <2>2
<1> QED
  BY <1>15, <1>16, <1>17 DEF AuthorProseSurvives

-----------------------------------------------------------------------------
(* The author and the current candidate.                                   *)

\* An insertion into the page adds one item.
LEMMA InsertedPage ==
  ASSUME NEW q \in Seq(Items), NEW i \in 1..(Len(q) + 1), NEW x \in Items
  PROVE  LET to == InsertAt(q, i, x)
         IN  /\ to \in Seq(Items) /\ Len(to) = Len(q) + 1
             /\ \A k \in DOMAIN to : to[k] = x \/ \E j \in DOMAIN q : to[k] = q[j]
<1> DEFINE front == SubSeq(q, 1, i - 1)
           rear == SubSeq(q, i, Len(q))
           to == InsertAt(q, i, x)
<1>1. Len(q) \in Nat /\ DOMAIN q = 1..Len(q) /\ i - 1 \in 0..Len(q)
  BY LenProperties
<1>2. /\ front \in Seq(Items) /\ Len(front) = i - 1
      /\ \A k \in 1..(i - 1) : front[k] = q[k]
  BY <1>1
<1>3. /\ rear \in Seq(Items) /\ Len(rear) = Len(q) - i + 1
      /\ \A k \in 1..(Len(q) - i + 1) : rear[k] = q[i + k - 1]
  BY <1>1
<1>4. to = front \o <<x>> \o rear
  BY DEF InsertAt
<1> HIDE DEF front, rear, to
<1>5. front \o <<x>> \in Seq(Items) /\ Len(front \o <<x>>) = i
  BY <1>1, <1>2
<1>6. to \in Seq(Items) /\ Len(to) = Len(q) + 1 /\ DOMAIN to = 1..(Len(q) + 1)
  <2>1. to \in Seq(Items) /\ Len(to) = i + (Len(q) - i + 1)
    <3> DEFINE mid == front \o <<x>>
    <3>1. mid \in Seq(Items) /\ Len(mid) = i /\ to = mid \o rear
      BY <1>4, <1>5
    <3> HIDE DEF mid
    <3>2. rear \in Seq(Items) /\ Len(rear) = Len(q) - i + 1
      BY <1>3
    <3>3. mid \in Seq(Items) /\ rear \in Seq(Items)
      BY <3>1, <3>2
    <3>4. mid \o rear \in Seq(Items) /\ Len(mid \o rear) = Len(mid) + Len(rear)
      BY <3>3, ConcatProperties
    <3>5. to \in Seq(Items) /\ Len(to) = Len(mid) + Len(rear)
      BY <3>1, <3>3, <3>4, Zenon
    <3>6. Len(mid) + Len(rear) = i + (Len(q) - i + 1)
      BY <3>1, <3>2, Zenon
    <3> QED
      BY <3>5, <3>6, Zenon
  <2>2. Len(to) = Len(q) + 1
    BY <1>1, <2>1
  <2> QED
    BY <2>1, <2>2, LenProperties
<1>7. ASSUME NEW k \in DOMAIN to PROVE to[k] = x \/ \E j \in DOMAIN q : to[k] = q[j]
  <2>1. k \in 1..(Len(q) + 1)
    BY <1>6
  <2>2. CASE k < i
    <3>1. to[k] = front[k] /\ k \in 1..(i - 1)
      BY <1>1, <1>2, <1>3, <1>4, <2>1, <2>2
    <3> QED
      BY <1>1, <1>2, <3>1
  <2>3. CASE k = i
    BY <1>1, <1>2, <1>3, <1>4, <2>1, <2>3
  <2>4. CASE k > i
    <3>1. to[k] = rear[k - i] /\ k - i \in 1..(Len(q) - i + 1)
      BY <1>1, <1>3, <1>4, <1>5, <2>1, <2>4
    <3>2. rear[k - i] = q[k - 1] /\ k - 1 \in DOMAIN q
      BY <1>1, <1>3, <2>1, <2>4, <3>1
    <3> QED
      BY <3>1, <3>2
  <2> QED
    BY <1>1, <2>1, <2>2, <2>3, <2>4
<1> QED
  BY <1>6, <1>7 DEF to

\* A removal from the page adds nothing.
LEMMA RemovedPage ==
  ASSUME NEW q \in Seq(Items), NEW i \in DOMAIN q
  PROVE  LET to == RemoveAt(q, i)
         IN  /\ to \in Seq(Items) /\ Len(to) = Len(q) - 1
             /\ \A k \in DOMAIN to : \E j \in DOMAIN q : to[k] = q[j]
<1> DEFINE front == SubSeq(q, 1, i - 1)
           rear == SubSeq(q, i + 1, Len(q))
           to == RemoveAt(q, i)
<1>1. Len(q) \in Nat /\ DOMAIN q = 1..Len(q) /\ i \in 1..Len(q)
  BY LenProperties
<1>2. /\ front \in Seq(Items) /\ Len(front) = i - 1
      /\ \A k \in 1..(i - 1) : front[k] = q[k]
  BY <1>1
<1>3. /\ rear \in Seq(Items) /\ Len(rear) = Len(q) - i
      /\ \A k \in 1..(Len(q) - i) : rear[k] = q[i + k]
  BY <1>1
<1>4. to = front \o rear
  BY DEF RemoveAt
<1> HIDE DEF front, rear, to
<1>6. to \in Seq(Items) /\ Len(to) = Len(q) - 1 /\ DOMAIN to = 1..(Len(q) - 1)
  <2>1. to \in Seq(Items) /\ Len(to) = (i - 1) + (Len(q) - i)
    BY <1>2, <1>3, <1>4, ConcatProperties
  <2>2. Len(to) = Len(q) - 1
    BY <1>1, <2>1
  <2> QED
    BY <2>1, <2>2, LenProperties
<1>7. ASSUME NEW k \in DOMAIN to PROVE \E j \in DOMAIN q : to[k] = q[j]
  <2>0. /\ k \in 1..(Len(q) - 1)
        /\ to[k] = IF k <= i - 1 THEN front[k] ELSE rear[k - (i - 1)]
    <3>1. \A n \in 1..((i - 1) + (Len(q) - i)) :
            (front \o rear)[n] = IF n <= i - 1 THEN front[n] ELSE rear[n - (i - 1)]
      BY <1>2, <1>3, ConcatProperties
    <3>2. k \in 1..(Len(q) - 1) /\ k \in 1..((i - 1) + (Len(q) - i))
      BY <1>1, <1>6
    <3> QED
      BY <1>4, <3>1, <3>2
  <2>1. CASE k < i
    <3>1. to[k] = front[k] /\ k \in 1..(i - 1)
      BY <1>1, <2>0, <2>1
    <3> QED
      BY <1>1, <1>2, <3>1
  <2>2. CASE ~ (k < i)
    <3>1. to[k] = rear[k - (i - 1)] /\ k - (i - 1) \in 1..(Len(q) - i)
      BY <1>1, <2>0, <2>2
    <3>2. rear[k - (i - 1)] = q[k + 1] /\ k + 1 \in DOMAIN q
      BY <1>1, <1>3, <1>6, <2>2, <3>1
    <3> QED
      BY <3>1, <3>2
  <2> QED
    BY <2>1, <2>2
<1> QED
  BY <1>6, <1>7 DEF to

\* While the author writes, nothing has been read.
LEMMA AuthorKeeps ==
  ASSUME IInv, AuthorCan, AuthorActs
  PROVE  IInv'
<1>1. UNCHANGED <<current, result>> /\ spent' = [spent EXCEPT !.author = @ + 1] /\ result.status = "none"
  BY DEF AuthorCan, AuthorActs, AuthorWrites, AuthorMarks, AuthorSplits, AuthorDeletes, AuthorCopies,
         AuthorMoves, AuthorTypes, AuthorEdit
<1>2. /\ spent' \in [author : 0..MaxAuthor, current : 0..MaxCurrent]
      /\ spent'.author = spent.author + 1 /\ spent.author \in Nat
  BY <1>1, WordBounds DEF AuthorCan, IInv, PageFits
<1>3. CurrentFits' /\ ReadFits' /\ AuthorProseSurvives' /\ NumbersFollowSource'
  BY <1>1 DEF IInv, CurrentFits, ReadFits, AuthorProseSurvives, NothingLost, NewProseReported,
              NumbersFollowSource, Imported
<1>4. /\ page \in Seq(Items) /\ Len(page) \in Nat /\ DOMAIN page = 1..Len(page)
      /\ Len(page) <= Len(BaseOrder) + spent.author /\ Len(BaseOrder) \in Nat
      /\ marks \in [Blocks -> SUBSET MarkNames] /\ words \in [Blocks -> SUBSET AuthorText]
      /\ \A i \in DOMAIN page : page[i].form = "half" =>
           page[i].id \in Blocks /\ "split" \in marks[page[i].id]
  BY LenProperties, WordBounds DEF IInv, PageFits
<1>5. ASSUME NEW b \in Blocks, Placed(b) PROVE PageIndex(b) \in DOMAIN page
  BY <1>5 DEF Placed, PageIndex
<1>6. ASSUME NEW b \in Blocks, NEW e \in AuthorText, AuthorWrites(b, e) PROVE PageFits'
  <2>1. words' = [words EXCEPT ![b] = {e}] /\ UNCHANGED <<page, marks>>
    BY <1>6 DEF AuthorWrites
  <2> QED
    BY <1>2, <1>4, <2>1 DEF PageFits
<1>7. ASSUME NEW b \in Blocks, NEW m \in Marks(b), AuthorMarks(b, m) PROVE PageFits'
  <2>1. marks' = [marks EXCEPT ![b] = @ \cup {m}] /\ UNCHANGED <<page, words>>
    BY <1>7 DEF AuthorMarks
  <2>2. m \in MarkNames
    BY DEF MarkNames
  <2>3. marks' \in [Blocks -> SUBSET MarkNames] /\ \A x \in Blocks : marks[x] \subseteq marks'[x]
    BY <1>4, <2>1, <2>2
  <2> QED
    BY <1>2, <1>4, <2>1, <2>3 DEF PageFits
<1>8. ASSUME NEW b \in Blocks, AuthorSplits(b) PROVE PageFits'
  <2>1. /\ Placed(b) /\ marks' = [marks EXCEPT ![b] = @ \cup {"split"}] /\ words' = words
        /\ page' = InsertAt(page, PageIndex(b) + 1, Item("half", b)) /\ "split" \in Marks(b)
    BY <1>8 DEF AuthorSplits
  <2>2. "split" \in MarkNames
    BY <2>1 DEF MarkNames
  <2>3. /\ marks' \in [Blocks -> SUBSET MarkNames] /\ "split" \in marks'[b]
        /\ \A x \in Blocks : marks[x] \subseteq marks'[x]
    BY <1>4, <2>1, <2>2
  <2>4. PageIndex(b) + 1 \in 1..(Len(page) + 1) /\ Item("half", b) \in Items
    BY <1>4, <1>5, <2>1 DEF Item, Items
  <2>5. /\ page' \in Seq(Items) /\ Len(page') = Len(page) + 1
        /\ \A k \in DOMAIN page' : page'[k] = Item("half", b) \/ \E j \in DOMAIN page : page'[k] = page[j]
    BY <1>4, <2>1, <2>4, InsertedPage
  <2>6. \A k \in DOMAIN page' : page'[k].form = "half" =>
          page'[k].id \in Blocks /\ "split" \in marks'[page'[k].id]
    BY <1>4, <2>3, <2>5 DEF Item
  <2> QED
    BY <1>2, <1>4, <2>1, <2>3, <2>5, <2>6 DEF PageFits
<1>9. ASSUME NEW i \in DOMAIN page, page' = RemoveAt(page, i), UNCHANGED <<marks, words>> PROVE PageFits'
  <2>1. /\ page' \in Seq(Items) /\ Len(page') = Len(page) - 1
        /\ \A k \in DOMAIN page' : \E j \in DOMAIN page : page'[k] = page[j]
    BY <1>4, <1>9, RemovedPage
  <2> QED
    BY <1>2, <1>4, <1>9, <2>1 DEF PageFits
<1>10. ASSUME NEW i \in 1..(Len(page) + 1), NEW x \in Items, x.form # "half",
              page' = InsertAt(page, i, x), UNCHANGED <<marks, words>>
       PROVE  PageFits'
  <2>1. /\ page' \in Seq(Items) /\ Len(page') = Len(page) + 1
        /\ \A k \in DOMAIN page' : page'[k] = x \/ \E j \in DOMAIN page : page'[k] = page[j]
    BY <1>4, <1>10, InsertedPage
  <2> QED
    BY <1>2, <1>4, <1>10, <2>1 DEF PageFits
<1>11. ASSUME NEW b \in Blocks, AuthorDeletes(b) PROVE PageFits'
  BY <1>5, <1>9, <1>11 DEF AuthorDeletes
<1>12. ASSUME NEW b \in Blocks, NEW i \in Spots, AuthorCopies(b, i) PROVE PageFits'
  <2>1. i \in 1..(Len(page) + 1) /\ Item("block", b) \in Items /\ Item("block", b).form # "half"
    BY <1>4, <1>12, WordBounds DEF AuthorCopies, Item, Items
  <2> QED
    BY <1>10, <1>12, <2>1 DEF AuthorCopies
<1>13. ASSUME NEW b \in Blocks, NEW i \in Spots, AuthorMoves(b, i) PROVE PageFits'
  <2> DEFINE rest == RemoveAt(page, PageIndex(b))
             x == Item("block", b)
  <2>1. i \in 1..(Len(rest) + 1) /\ page' = InsertAt(rest, i, x) /\ UNCHANGED <<marks, words>>
    BY <1>13 DEF AuthorMoves
  <2>2. Placed(b)
    <3>1. Anchored(b)
      BY <1>13 DEF AuthorMoves
    <3>2. Copies(b) # {}
      BY <3>1, FS_EmptySet DEF Anchored
    <3> QED
      BY <3>2 DEF Copies, Placed
  <2>3. /\ rest \in Seq(Items) /\ Len(rest) = Len(page) - 1
        /\ \A k \in DOMAIN rest : \E j \in DOMAIN page : rest[k] = page[j]
    BY <1>4, <1>5, <2>2, RemovedPage
  <2>4. x \in Items /\ x.form # "half"
    BY DEF Item, Items
  <2> HIDE DEF rest, x
  <2>5. /\ page' \in Seq(Items) /\ Len(page') = Len(rest) + 1
        /\ \A k \in DOMAIN page' : page'[k] = x \/ \E j \in DOMAIN rest : page'[k] = rest[j]
    BY <2>1, <2>3, <2>4, InsertedPage
  <2>6. \A k \in DOMAIN page' : page'[k] = x \/ \E j \in DOMAIN page : page'[k] = page[j]
    BY <2>3, <2>5
  <2>7. Len(page') <= Len(BaseOrder) + spent'.author
    BY <1>2, <1>4, <2>3, <2>5
  <2> QED
    BY <1>2, <1>4, <2>1, <2>4, <2>5, <2>6, <2>7 DEF PageFits
<1>14. ASSUME NEW f \in {"body", "heading", "title", "foreign"}, NEW i \in Spots, AuthorTypes(f, i)
       PROVE  PageFits'
  <2>1. i \in 1..(Len(page) + 1) /\ Item(f, None) \in Items /\ Item(f, None).form # "half"
    BY <1>4, <1>14, WordBounds DEF AuthorTypes, Item, Items
  <2> QED
    BY <1>10, <1>14, <2>1 DEF AuthorTypes
<1>15. PageFits'
  BY <1>6, <1>7, <1>8, <1>11, <1>12, <1>13, <1>14 DEF AuthorActs
<1> QED
  BY <1>3, <1>15 DEF IInv

\* While the science goes on, nothing has been read.
LEMMA CurrentKeeps ==
  ASSUME IInv, CurrentCan, CurrentActs
  PROVE  IInv'
<1>1. /\ UNCHANGED <<page, marks, words, result>> /\ spent' = [spent EXCEPT !.current = @ + 1]
      /\ result.status = "none"
  BY DEF CurrentCan, CurrentActs, CurrentWrites, CurrentRecomputes, CurrentSets, CurrentDrops,
         CurrentSwaps, CurrentAdds, CurrentRedefines, CurrentSharesTerms, CurrentRetitles, CurrentEdit
<1>2. spent' \in [author : 0..MaxAuthor, current : 0..MaxCurrent] /\ spent'.author = spent.author
  BY <1>1, WordBounds DEF CurrentCan, IInv, PageFits
<1>3. PageFits' /\ ReadFits' /\ AuthorProseSurvives' /\ NumbersFollowSource'
  BY <1>1, <1>2 DEF IInv, PageFits, ReadFits, AuthorProseSurvives, NothingLost, NewProseReported,
                    NumbersFollowSource, Imported
<1>4. /\ DOMAIN current = {"order", "blocks", "title", "defined", "shared"}
      /\ DOMAIN current.blocks \subseteq Blocks \cup Added
      /\ current.blocks \in [DOMAIN current.blocks -> BlockValue]
  BY DEF IInv, CurrentFits
<1>5. ASSUME NEW b \in DOMAIN current.blocks, NEW v \in BlockValue, current' = SetBlock(b, v)
      PROVE  CurrentFits'
  <2>1. current' = [current EXCEPT !.blocks = [current.blocks EXCEPT ![b] = v]]
    BY <1>4, <1>5 DEF SetBlock
  <2>2. DOMAIN current' = DOMAIN current /\ current'.blocks = [current.blocks EXCEPT ![b] = v]
    BY <1>4, <2>1
  <2> QED
    BY <1>4, <2>2 DEF CurrentFits
<1>6. ASSUME NEW b \in DOMAIN current.blocks PROVE current.blocks[b] \in BlockValue
  BY <1>4
<1>7. ASSUME NEW b \in Blocks, NEW e \in CurrentText, CurrentWrites(b, e) PROVE CurrentFits'
  <2>1. [current.blocks[b] EXCEPT !.text = {e}] \in BlockValue
    BY <1>6, <1>7 DEF CurrentWrites, Has, BlockValue
  <2> QED
    BY <1>5, <1>7, <2>1 DEF CurrentWrites, Has
<1>8. ASSUME NEW b \in Blocks, CurrentRecomputes(b) PROVE CurrentFits'
  <2>1. [current.blocks[b] EXCEPT !.spans = {<<"value", 1>>}] \in BlockValue
    BY <1>6, <1>8 DEF CurrentRecomputes, Has, BlockValue
  <2> QED
    BY <1>5, <1>8, <2>1 DEF CurrentRecomputes, Has
<1>9. ASSUME NEW b \in Blocks, NEW f \in {"content", "style"}, CurrentSets(b, f) PROVE CurrentFits'
  <2>1. [current.blocks[b] EXCEPT ![f] = 2] \in BlockValue
    <3>1. [current.blocks[b] EXCEPT !.content = 2] \in BlockValue
      BY <1>6, <1>9 DEF CurrentSets, Has, BlockValue
    <3>2. [current.blocks[b] EXCEPT !.style = 2] \in BlockValue
      BY <1>6, <1>9 DEF CurrentSets, Has, BlockValue
    <3> QED
      BY <3>1, <3>2
  <2> QED
    BY <1>5, <1>9, <2>1 DEF CurrentSets, Has
<1>10. ASSUME NEW b \in Blocks, CurrentDrops(b) PROVE CurrentFits'
  <2> DEFINE rest == [x \in DOMAIN current.blocks \ GoesWith(b) |-> current.blocks[x]]
  <2>1. DOMAIN current' = DOMAIN current /\ current'.blocks = rest
    BY <1>4, <1>10 DEF CurrentDrops
  <2> QED
    BY <1>4, <2>1 DEF CurrentFits
<1>11. ASSUME NEW i \in DOMAIN current.order, CurrentSwaps(i) PROVE CurrentFits'
  <2>1. DOMAIN current' = DOMAIN current /\ current'.blocks = current.blocks
    BY <1>4, <1>11 DEF CurrentSwaps
  <2> QED
    BY <1>4, <2>1 DEF CurrentFits
<1>12. ASSUME NEW i \in DOMAIN current.order, NEW b \in Added, CurrentAdds(b, i) PROVE CurrentFits'
  <2> DEFINE more == [x \in DOMAIN current.blocks \cup {b} |->
                        IF x = b THEN NewBlock ELSE current.blocks[x]]
  <2>1. DOMAIN current' = DOMAIN current /\ current'.blocks = more
    BY <1>4, <1>12 DEF CurrentAdds
  <2> QED
    BY <1>4, <2>1, BlocksAreFit DEF CurrentFits
<1>13. ASSUME (\E s \in Sections : CurrentRedefines(s)) \/ CurrentSharesTerms \/ CurrentRetitles
       PROVE  CurrentFits'
  <2>1. DOMAIN current' = DOMAIN current /\ current'.blocks = current.blocks
    BY <1>4, <1>13 DEF CurrentRedefines, CurrentSharesTerms, CurrentRetitles
  <2> QED
    BY <1>4, <2>1 DEF CurrentFits
<1>14. CurrentFits'
  BY <1>7, <1>8, <1>9, <1>10, <1>11, <1>12, <1>13 DEF CurrentActs
<1> QED
  BY <1>3, <1>14 DEF IInv
-----------------------------------------------------------------------------
(* The return itself.                                                      *)

\* What the reading answers is honest, and the page stays as it was read.
LEMMA ReadingKeeps ==
  ASSUME IInv, ReadWordReturn
  PROVE  IInv'
<1>1. UNCHANGED <<page, marks, words, current, spent>>
  BY DEF ReadWordReturn
<1>2. result'.status # "merged" /\ result'.status # "conflicts"
  BY DEF ReadWordReturn
<1>3. PageFits' /\ CurrentFits'
  BY <1>1 DEF IInv, PageFits, CurrentFits
<1>4. AuthorProseSurvives' /\ NumbersFollowSource'
  BY <1>2 DEF AuthorProseSurvives, NothingLost, NewProseReported, NumbersFollowSource, Imported
<1>5. ReadFits'
  <2> SUFFICES ASSUME result'.status = "read"
               PROVE  Honest(result.author.blocks, result.conflicts)'
    BY DEF ReadFits
  <2>1. /\ result'.author.blocks = Restored(ReadReturn).blocks
        /\ result'.conflicts = ReadReturn.conflicts
    BY DEF ReadWordReturn
  <2> DEFINE author == result'.author.blocks
             conflicts == result'.conflicts
  <2>2. Honest(author, conflicts)
    BY <2>1, ReadingIsHonest DEF IInv
  <2> HIDE DEF author, conflicts
  <2>3. \A b : LocalConflict(b)' = LocalConflict(b)
    BY <1>1 DEF LocalConflict, ObjectConflict, SplitAllowed, TableConflict, SpanConflict, ClauseDeleted
  <2> USE DEF author, conflicts
  <2> QED
    BY <1>1, <2>2, <2>3 DEF Honest, ProseTold
<1> QED
  BY <1>3, <1>4, <1>5 DEF IInv

\* The merge keeps IInv.
LEMMA MergingKeeps ==
  ASSUME IInv, MergeAndAssemble
  PROVE  IInv'
<1>1. UNCHANGED <<page, marks, words, current, spent>> /\ result'.status # "read"
  BY DEF MergeAndAssemble
<1>2. PageFits' /\ CurrentFits' /\ ReadFits'
  BY <1>1 DEF IInv, PageFits, CurrentFits, ReadFits
<1> QED
  BY <1>2, ImportKeeps DEF IInv

\* Before anything happens the page holds the exported blocks.
LEMMA InitFits ==
  ASSUME Init
  PROVE  IInv
<1>1. /\ BaseOrder \in Seq(Blocks) /\ Len(BaseOrder) \in Nat /\ DOMAIN BaseOrder = 1..Len(BaseOrder)
      /\ \A i \in DOMAIN BaseOrder : BaseOrder[i] \in Blocks
  BY WordBounds, LenProperties DEF Blocks
<1>2. /\ page \in Seq(Items) /\ Len(page) = Len(BaseOrder)
      /\ \A i \in DOMAIN page : page[i].form = "block"
  <2>1. page = [i \in 1..Len(BaseOrder) |-> Item("block", BaseOrder[i])]
    BY <1>1 DEF Init
  <2>2. \A i \in 1..Len(BaseOrder) : page[i] \in Items /\ page[i].form = "block"
    BY <1>1, <2>1 DEF Item, Items
  <2>3. page \in [1..Len(BaseOrder) -> Items]
    BY <2>1, <2>2
  <2>4. page \in Seq(Items) /\ Len(page) = Len(BaseOrder)
    BY <1>1, <2>3
  <2> QED
    BY <2>1, <2>2, <2>4
<1>3. spent = [author |-> 0, current |-> 0] /\ marks = [b \in Blocks |-> {}] /\ words = [b \in Blocks |-> {}]
  BY DEF Init
<1>4. PageFits
  <2>1. Len(page) <= Len(BaseOrder) + spent.author
    BY <1>1, <1>2, <1>3
  <2>2. spent \in [author : 0..MaxAuthor, current : 0..MaxCurrent]
    BY <1>3, WordBounds
  <2>3. marks \in [Blocks -> SUBSET MarkNames] /\ words \in [Blocks -> SUBSET AuthorText]
    BY <1>3
  <2> QED
    BY <1>2, <2>1, <2>2, <2>3 DEF PageFits
<1>5. CurrentFits
  <2>1. DOMAIN Base = Blocks /\ Base \in [Blocks -> BlockValue]
    BY BlocksAreFit
  <2>2. /\ current.blocks = Base /\ DOMAIN current = {"order", "blocks", "title", "defined", "shared"}
    BY DEF Init
  <2> QED
    BY <2>1, <2>2 DEF CurrentFits
<1>6. result.status = "none"
  BY DEF Init
<1>7. ReadFits /\ AuthorProseSurvives /\ NumbersFollowSource
  BY <1>6 DEF ReadFits, AuthorProseSurvives, NothingLost, NewProseReported, NumbersFollowSource, Imported
<1> QED
  BY <1>4, <1>5, <1>7 DEF IInv

\* So does a step that changes nothing.
LEMMA StutterKeeps ==
  ASSUME IInv, UNCHANGED vars
  PROVE  IInv'
<1>1. UNCHANGED <<page, marks, words, current, result, spent>>
  BY DEF vars
<1>2. PageFits' /\ CurrentFits'
  BY <1>1 DEF IInv, PageFits, CurrentFits
<1>3. \A b : LocalConflict(b)' = LocalConflict(b)
  BY <1>1 DEF LocalConflict, ObjectConflict, SplitAllowed, TableConflict, SpanConflict, ClauseDeleted
<1>4. ReadFits'
  BY <1>1, <1>3 DEF IInv, ReadFits, Honest, ProseTold
<1>5. AuthorProseSurvives' /\ NumbersFollowSource'
  BY <1>1, <1>3 DEF IInv, AuthorProseSurvives, NothingLost, NewProseReported, NumbersFollowSource,
                    Imported, InConflict, Reported
<1> QED
  BY <1>2, <1>4, <1>5 DEF IInv

\* Every step of the author, of the science and of the import keeps IInv.
THEOREM ReturnInvariant == Spec => []IInv
<1>1. Init => IInv
  BY InitFits
<1>2. IInv /\ [Next]_vars => IInv'
  BY AuthorKeeps, CurrentKeeps, ReadingKeeps, MergingKeeps, StutterKeeps DEF Next
<1> QED
  BY <1>1, <1>2, PTL DEF Spec

\* No work is lost without a word (import_author_manuscript): every block of the
\* current candidate is in the new one, with the author's words and the current
\* ones or with a conflict that names it, and what the author typed beside the
\* blocks is a paragraph of its own or reported.
THEOREM NothingIsLost == Spec => []AuthorProseSurvives
<1>1. IInv => AuthorProseSurvives
  BY DEF IInv
<1> QED
  BY <1>1, ReturnInvariant, PTL

\* Numbers come from the science: a value in the new candidate is displayed as
\* the current candidate displays it, and it is gone only when the author
\* deleted its clause or the science did (_merge_spans).
THEOREM NumbersAreTheSciences == Spec => []NumbersFollowSource
<1>1. IInv => NumbersFollowSource
  BY DEF IInv
<1> QED
  BY <1>1, ReturnInvariant, PTL

-----------------------------------------------------------------------------
(* Lists, and what stands before what in them.                             *)
Precedes(s, x, y) == \E i, j \in DOMAIN s : i < j /\ s[i] = x /\ s[j] = y

\* The parts of a list.
LEMMA ListIs ==
  ASSUME NEW V, NEW s \in Seq(V)
  PROVE  /\ Len(s) \in Nat /\ DOMAIN s = 1..Len(s)
         /\ \A i \in 1..Len(s) : s[i] \in V
         /\ \A x : x \in ToSet(s) <=> \E i \in 1..Len(s) : s[i] = x
         /\ ToSet(s) \subseteq V
<1>1. /\ Len(s) \in Nat /\ DOMAIN s = 1..Len(s)
      /\ \A i \in 1..Len(s) : s[i] \in V
  BY LenProperties
<1>2. \A x : x \in ToSet(s) <=> \E i \in 1..Len(s) : s[i] = x
  BY <1>1 DEF ToSet
<1> QED
  BY <1>1, <1>2

\* A list names everything once when nothing stands before itself.
LEMMA OnceIs ==
  ASSUME NEW V, NEW s \in Seq(V)
  PROVE  IsInjective(s) <=> \A x : ~ Precedes(s, x, x)
<1>1. Len(s) \in Nat /\ DOMAIN s = 1..Len(s)
  BY ListIs
<1>2. ASSUME IsInjective(s), NEW x, Precedes(s, x, x) PROVE FALSE
  BY <1>1, <1>2 DEF IsInjective, Precedes
<1>3. ASSUME \A x : ~ Precedes(s, x, x), NEW i \in 1..Len(s), NEW j \in 1..Len(s), s[i] = s[j]
      PROVE  i = j
  <2>1. ~ (i < j) /\ ~ (j < i)
    BY <1>1, <1>3 DEF Precedes
  <2> QED
    BY <2>1, <1>1
<1> QED
  BY <1>1, <1>2, <1>3 DEF IsInjective

\* What stands before something in a list is in the list, as is what it stands before.
LEMMA PrecedesIs ==
  ASSUME NEW V, NEW s \in Seq(V), NEW x, NEW y, Precedes(s, x, y)
  PROVE  x \in ToSet(s) /\ y \in ToSet(s)
BY DEF Precedes, ToSet

\* Of two members of a list one stands before the other, and only one.
LEMMA OneIsFirst ==
  ASSUME NEW V, NEW s \in Seq(V), IsInjective(s)
  PROVE  /\ \A x, y \in ToSet(s) : x # y => Precedes(s, x, y) \/ Precedes(s, y, x)
         /\ \A x, y : ~ (Precedes(s, x, y) /\ Precedes(s, y, x))
         /\ \A x, y, z : Precedes(s, x, y) /\ Precedes(s, y, z) => Precedes(s, x, z)
<1>1. /\ Len(s) \in Nat /\ DOMAIN s = 1..Len(s)
      /\ \A x : x \in ToSet(s) <=> \E i \in 1..Len(s) : s[i] = x
  BY ListIs
<1>2. ASSUME NEW x \in ToSet(s), NEW y \in ToSet(s), x # y
      PROVE  Precedes(s, x, y) \/ Precedes(s, y, x)
  <2>1. PICK i \in 1..Len(s), j \in 1..Len(s) : s[i] = x /\ s[j] = y
    BY <1>1
  <2>2. i < j \/ j < i
    BY <1>1, <1>2, <2>1
  <2> QED
    BY <1>1, <2>1, <2>2 DEF Precedes
<1>3. ASSUME NEW x, NEW y, NEW z, Precedes(s, x, y), Precedes(s, y, z)
      PROVE  Precedes(s, x, z)
  <2>1. PICK i \in 1..Len(s), j \in 1..Len(s) : i < j /\ s[i] = x /\ s[j] = y
    BY <1>1, <1>3 DEF Precedes
  <2>2. PICK k \in 1..Len(s), l \in 1..Len(s) : k < l /\ s[k] = y /\ s[l] = z
    BY <1>1, <1>3 DEF Precedes
  <2>3. j = k
    BY <1>1, <2>1, <2>2 DEF IsInjective
  <2>4. i < l
    BY <1>1, <2>1, <2>2, <2>3
  <2> QED
    BY <1>1, <2>1, <2>2, <2>4 DEF Precedes
<1>4. \A x : ~ Precedes(s, x, x)
  BY OnceIs
<1>5. \A x, y : ~ (Precedes(s, x, y) /\ Precedes(s, y, x))
  BY <1>3, <1>4
<1> QED
  BY <1>2, <1>3, <1>5

\* Two lists of the same members in the same order are the same.
LEMMA SameOrder ==
  ASSUME NEW V, NEW s \in Seq(V), NEW t \in Seq(V), IsInjective(s), IsInjective(t),
         ToSet(s) = ToSet(t), \A x, y : Precedes(s, x, y) => Precedes(t, x, y)
  PROVE  s = t
<1> DEFINE Bad == {k \in Nat : /\ k \in 1..Len(s) \/ k \in 1..Len(t)
                              /\ ~ (k \in 1..Len(s) /\ k \in 1..Len(t) /\ s[k] = t[k])}
<1>1. /\ Len(s) \in Nat /\ DOMAIN s = 1..Len(s)
      /\ \A x : x \in ToSet(s) <=> \E i \in 1..Len(s) : s[i] = x
  BY ListIs
<1>2. /\ Len(t) \in Nat /\ DOMAIN t = 1..Len(t)
      /\ \A x : x \in ToSet(t) <=> \E i \in 1..Len(t) : t[i] = x
  BY ListIs
<1>3. CASE Bad # {}
  <2>0. Bad \in SUBSET Nat
    OBVIOUS
  <2>1. PICK k \in Bad : \A m \in Bad : k <= m
    <3> HIDE DEF Bad
    <3> QED
      BY <1>3, <2>0, LeastNat
  <2>2. k \in Nat /\ k >= 1
    BY <1>1, <1>2
  <2>3. \A i \in 1..(k - 1) : i \in 1..Len(s) \/ i \in 1..Len(t) =>
          i \in 1..Len(s) /\ i \in 1..Len(t) /\ s[i] = t[i]
    BY <2>1, <2>2
  <2>4. CASE k \notin 1..Len(t)
    <3>1. k \in 1..Len(s)
      BY <2>1, <2>4
    <3>2. PICK j \in 1..Len(t) : t[j] = s[k]
      BY <1>1, <1>2, <3>1
    <3>3. j \in 1..(k - 1)
      BY <1>2, <2>2, <2>4, <3>2
    <3>4. j \in 1..Len(s) /\ s[j] = s[k]
      BY <2>3, <3>2, <3>3
    <3> QED
      BY <1>1, <2>2, <3>1, <3>3, <3>4 DEF IsInjective
  <2>5. CASE k \notin 1..Len(s)
    <3>1. k \in 1..Len(t)
      BY <2>1, <2>5
    <3>2. PICK j \in 1..Len(s) : s[j] = t[k]
      BY <1>1, <1>2, <3>1
    <3>3. j \in 1..(k - 1)
      BY <1>1, <2>2, <2>5, <3>2
    <3>4. j \in 1..Len(t) /\ t[j] = t[k]
      BY <2>3, <3>2, <3>3
    <3> QED
      BY <1>2, <2>2, <3>1, <3>3, <3>4 DEF IsInjective
  <2>6. CASE k \in 1..Len(s) /\ k \in 1..Len(t)
    <3>1. s[k] # t[k]
      BY <2>1, <2>6
    <3>2. PICK j \in 1..Len(s) : s[j] = t[k]
      BY <1>1, <1>2, <2>6
    <3>3. j \notin 1..(k - 1)
      BY <1>2, <2>2, <2>3, <2>6, <3>2 DEF IsInjective
    <3>4. k < j
      BY <1>1, <2>2, <3>1, <3>2, <3>3
    <3>5. Precedes(s, s[k], t[k])
      BY <1>1, <2>6, <3>2, <3>4 DEF Precedes
    <3> DEFINE x == s[k]
               y == t[k]
    <3>a. Precedes(t, x, y)
      BY <3>5
    <3>6. PICK a \in 1..Len(t), b \in 1..Len(t) : a < b /\ t[a] = s[k] /\ t[b] = t[k]
      BY <1>2, <3>a DEF Precedes
    <3>7. b = k
      BY <1>2, <2>6, <3>6 DEF IsInjective
    <3>8. a \in 1..(k - 1)
      BY <1>2, <2>2, <3>6, <3>7
    <3>9. a \in 1..Len(s) /\ s[a] = s[k]
      BY <2>3, <3>6, <3>8
    <3> QED
      BY <1>1, <2>2, <2>6, <3>8, <3>9 DEF IsInjective
  <2> QED
    BY <2>4, <2>5, <2>6
<1>4. CASE Bad = {}
  <2>1. \A k \in 1..Len(s) : k \in 1..Len(t) /\ s[k] = t[k]
    BY <1>1, <1>4
  <2>2. \A k \in 1..Len(t) : k \in 1..Len(s)
    BY <1>2, <1>4
  <2>3. Len(s) = Len(t)
    <3>1. Len(s) # 0 => Len(s) <= Len(t)
      BY <1>1, <1>2, <2>1
    <3>2. Len(t) # 0 => Len(t) <= Len(s)
      BY <1>1, <1>2, <2>2
    <3> DEFINE m == Len(s)
               n == Len(t)
    <3>3. m \in Nat /\ n \in Nat
      BY <1>1, <1>2
    <3>4. (m # 0 => m <= n) /\ (n # 0 => n <= m)
      BY <3>1, <3>2
    <3> HIDE DEF m, n
    <3>5. m = n
      BY <3>3, <3>4
    <3> QED
      BY <3>5 DEF m, n
  <2>4. s \in [1..Len(s) -> V] /\ t \in [1..Len(t) -> V]
    BY LenProperties
  <2>5. \A k \in 1..Len(s) : s[k] = t[k]
    BY <2>1
  <2> QED
    BY <2>3, <2>4, <2>5
<1> QED
  BY <1>3, <1>4

\* t is s with e put at place i.
Inserted(t, s, i, e) ==
  /\ Len(t) = Len(s) + 1 /\ i \in 1..(Len(s) + 1) /\ t[i] = e
  /\ \A k \in 1..(i - 1) : t[k] = s[k]
  /\ \A k \in i..Len(s) : t[k + 1] = s[k]

\* InsertAt puts the new member at its place.
LEMMA InsertedIs ==
  ASSUME NEW V, NEW s \in Seq(V), NEW e \in V, NEW i \in 1..(Len(s) + 1)
  PROVE  InsertAt(s, i, e) \in Seq(V) /\ Inserted(InsertAt(s, i, e), s, i, e)
<1> DEFINE front == SubSeq(s, 1, i - 1)
           rear == SubSeq(s, i, Len(s))
           mid == front \o <<e>>
           to == InsertAt(s, i, e)
<1>1. Len(s) \in Nat /\ DOMAIN s = 1..Len(s) /\ i - 1 \in 0..Len(s)
  BY LenProperties
<1>2. /\ front \in Seq(V) /\ Len(front) = i - 1
      /\ \A k \in 1..(i - 1) : front[k] = s[k]
  BY <1>1
<1>3. /\ rear \in Seq(V) /\ Len(rear) = Len(s) - i + 1
      /\ \A k \in 1..(Len(s) - i + 1) : rear[k] = s[i + k - 1]
  BY <1>1
<1>4. to = mid \o rear
  BY DEF InsertAt
<1>5. /\ mid \in Seq(V) /\ Len(mid) = i /\ mid[i] = e
      /\ \A k \in 1..(i - 1) : mid[k] = s[k]
  <2> HIDE DEF front
  <2>1. <<e>> \in Seq(V) /\ Len(<<e>>) = 1 /\ <<e>>[1] = e
    OBVIOUS
  <2>2. mid \in Seq(V) /\ Len(mid) = Len(front) + 1
    BY <1>2, <2>1, ConcatProperties
  <2>3. mid[i] = e
    BY <1>1, <1>2, <2>1, ConcatProperties
  <2> QED
    BY <1>1, <1>2, <2>1, <2>2, <2>3, ConcatProperties
<1> HIDE DEF front, mid, rear, to
<1>6. to \in Seq(V) /\ Len(to) = Len(mid) + Len(rear)
  BY <1>3, <1>4, <1>5, ConcatProperties
<1>7. Len(to) = Len(s) + 1
  BY <1>1, <1>3, <1>5, <1>6
<1>8. \A k \in 1..Len(to) : to[k] = IF k <= Len(mid) THEN mid[k] ELSE rear[k - Len(mid)]
  BY <1>3, <1>4, <1>5, <1>6, ConcatProperties
<1>9. to[i] = e /\ \A k \in 1..(i - 1) : to[k] = s[k]
  BY <1>1, <1>5, <1>7, <1>8
<1>10. ASSUME NEW k \in i..Len(s) PROVE to[k + 1] = s[k]
  <2>1. k + 1 \in 1..Len(to) /\ ~ (k + 1 <= Len(mid)) /\ k + 1 - i \in 1..(Len(s) - i + 1)
    BY <1>1, <1>5, <1>7
  <2>2. to[k + 1] = rear[k + 1 - i]
    BY <1>5, <1>8, <2>1
  <2>3. rear[k + 1 - i] = s[i + (k + 1 - i) - 1] /\ i + (k + 1 - i) - 1 = k
    BY <1>1, <1>3, <2>1
  <2> QED
    BY <2>2, <2>3
<1> QED
  BY <1>6, <1>7, <1>9, <1>10 DEF Inserted, to

\* The new member stands behind what was before place i, and before the rest.
LEMMA InsertedOrder ==
  ASSUME NEW V, NEW s \in Seq(V), NEW t \in Seq(V), NEW e, NEW i, Inserted(t, s, i, e)
  PROVE  /\ ToSet(t) = ToSet(s) \cup {e}
         /\ \A x, y : Precedes(t, x, y) <=>
              \/ Precedes(s, x, y)
              \/ x = e /\ \E k \in i..Len(s) : s[k] = y
              \/ y = e /\ \E k \in 1..(i - 1) : s[k] = x
<1>1. /\ Len(s) \in Nat /\ DOMAIN s = 1..Len(s)
      /\ \A x : x \in ToSet(s) <=> \E k \in 1..Len(s) : s[k] = x
  BY ListIs
<1>2. /\ Len(t) = Len(s) + 1 /\ DOMAIN t = 1..Len(t)
      /\ \A x : x \in ToSet(t) <=> \E k \in 1..Len(t) : t[k] = x
  BY ListIs DEF Inserted
<1>3. /\ i \in 1..(Len(s) + 1) /\ t[i] = e
      /\ \A k \in 1..(i - 1) : t[k] = s[k]
      /\ \A k \in i..Len(s) : t[k + 1] = s[k]
  BY DEF Inserted
<1> DEFINE n == Len(s)
           Old(k) == IF k < i THEN k ELSE k - 1
           Now(k) == IF k < i THEN k ELSE k + 1
<1>4. ASSUME NEW k \in 1..(n + 1), k # i PROVE Old(k) \in 1..n /\ t[k] = s[Old(k)]
  <2>1. CASE k < i
    BY <1>1, <1>3, <2>1
  <2>2. CASE ~ (k < i)
    <3>1. k - 1 \in i..n /\ k - 1 + 1 = k /\ k - 1 \in 1..n
      BY <1>1, <1>3, <1>4, <2>2
    <3> QED
      BY <1>3, <2>2, <3>1
  <2> QED
    BY <2>1, <2>2
<1>5. ASSUME NEW k \in 1..n PROVE Now(k) \in 1..(n + 1) /\ t[Now(k)] = s[k] /\ Now(k) # i
  BY <1>1, <1>3
<1>6. \A j, k \in 1..n : j < k => Now(j) < Now(k)
  BY <1>1, <1>3
<1>7. \A j, k \in 1..(n + 1) : j < k /\ j # i /\ k # i => Old(j) < Old(k)
  BY <1>1, <1>3
<1>8. ASSUME NEW x PROVE x \in ToSet(t) <=> x \in ToSet(s) \/ x = e
  <2>1. ASSUME NEW k \in 1..(n + 1), t[k] = x PROVE x \in ToSet(s) \/ x = e
    BY <1>1, <1>3, <1>4, <2>1
  <2>2. ASSUME x \in ToSet(s) \/ x = e PROVE x \in ToSet(t)
    BY <1>1, <1>2, <1>3, <1>5, <2>2
  <2> QED
    BY <1>2, <2>1, <2>2
<1>9. ASSUME NEW x, NEW y, Precedes(t, x, y)
      PROVE  \/ Precedes(s, x, y)
             \/ x = e /\ \E k \in i..n : s[k] = y
             \/ y = e /\ \E k \in 1..(i - 1) : s[k] = x
  <2>1. PICK a \in 1..(n + 1), b \in 1..(n + 1) : a < b /\ t[a] = x /\ t[b] = y
    BY <1>2, <1>9 DEF Precedes
  <2>2. CASE a # i /\ b # i
    <3>1. Old(a) \in 1..n /\ Old(b) \in 1..n /\ Old(a) < Old(b) /\ s[Old(a)] = x /\ s[Old(b)] = y
      BY <1>4, <1>7, <2>1, <2>2
    <3> HIDE DEF Old
    <3> QED
      BY <1>1, <3>1 DEF Precedes
  <2>3. CASE a = i
    <3>1. b # i /\ b - 1 \in i..n /\ Old(b) = b - 1
      BY <1>1, <1>3, <2>1, <2>3
    <3>2. s[b - 1] = y
      BY <1>4, <2>1, <3>1
    <3> QED
      BY <1>3, <2>1, <2>3, <3>1, <3>2
  <2>4. CASE b = i
    <3>1. a # i /\ a \in 1..(i - 1) /\ s[a] = x
      BY <1>1, <1>3, <2>1, <2>4
    <3> QED
      BY <1>3, <2>1, <2>4, <3>1
  <2> QED
    BY <2>2, <2>3, <2>4
<1>10. ASSUME NEW x, NEW y, Precedes(s, x, y) PROVE Precedes(t, x, y)
  <2>1. PICK a \in 1..n, b \in 1..n : a < b /\ s[a] = x /\ s[b] = y
    BY <1>1, <1>10 DEF Precedes
  <2>2. /\ Now(a) \in 1..(n + 1) /\ Now(b) \in 1..(n + 1) /\ Now(a) < Now(b)
        /\ t[Now(a)] = x /\ t[Now(b)] = y
    BY <1>5, <1>6, <2>1
  <2> HIDE DEF Now
  <2> QED
    BY <1>2, <2>2 DEF Precedes
<1>11. ASSUME NEW k \in i..n PROVE Precedes(t, e, s[k])
  <2>1. i \in DOMAIN t /\ k + 1 \in DOMAIN t /\ i < k + 1
    BY <1>1, <1>2, <1>3
  <2> QED
    BY <1>3, <2>1 DEF Precedes
<1>12. ASSUME NEW k \in 1..(i - 1) PROVE Precedes(t, s[k], e)
  <2>1. i \in DOMAIN t /\ k \in DOMAIN t /\ k < i
    BY <1>1, <1>2, <1>3
  <2> QED
    BY <1>3, <2>1 DEF Precedes
<1> QED
  BY <1>8, <1>9, <1>10, <1>11, <1>12

\* What holds at 0 and goes on from each number to the next holds up to N.
LEMMA Upwards ==
  ASSUME NEW N \in Nat, NEW T, 0 \in T, \A i \in 1..N : i - 1 \in T => i \in T
  PROVE  \A i \in 0..N : i \in T
<1> DEFINE Bad == {i \in 0..N : i \notin T}
<1> SUFFICES ASSUME Bad # {} PROVE FALSE
  OBVIOUS
<1>0. Bad \in SUBSET Nat
  OBVIOUS
<1>1. PICK n \in Bad : \A m \in Bad : n <= m
  <2> HIDE DEF Bad
  <2> QED
    BY <1>0, LeastNat
<1>2. n \in 1..N /\ n - 1 \in 0..N /\ n - 1 \notin Bad
  BY <1>1
<1> QED
  BY <1>1, <1>2

\* A set of numbers up to N has a largest one, which Max finds.
LEMMA Largest ==
  ASSUME NEW N \in Nat, NEW S \in SUBSET (1..N), S # {}
  PROVE  Max(S) \in S /\ \A m \in S : m <= Max(S)
<1> DEFINE Over == {n \in Nat : \A m \in S : m <= n}
<1>1. Over \in SUBSET Nat /\ N \in Over
  OBVIOUS
<1>2. PICK n \in Over : \A m \in Over : n <= m
  <2> HIDE DEF Over
  <2> QED
    BY <1>1, LeastNat
<1>3. n \in S
  <2> SUFFICES ASSUME n \notin S PROVE FALSE
    OBVIOUS
  <2>1. \A m \in S : m \in Nat /\ m <= n /\ m # n /\ m >= 1
    BY <1>2
  <2>2. n \in Nat /\ n >= 1
    <3>1. PICK m \in S : TRUE
      OBVIOUS
    <3>2. m \in Nat /\ m <= n /\ m >= 1 /\ n \in Nat
      BY <1>2, <2>1, <3>1
    <3> QED
      BY <3>2
  <2>a. n - 1 \in Nat /\ \A m \in S : m <= n - 1
    BY <2>1, <2>2
  <2>3. n - 1 \in Over /\ ~ (n <= n - 1)
    BY <2>2, <2>a
  <2> QED
    BY <1>2, <2>3
<1>4. \A m \in S : n >= m
  BY <1>2
<1>5. Max(S) \in S /\ \A m \in S : Max(S) >= m
  BY <1>3, <1>4 DEF Max
<1> QED
  BY <1>5

\* Min finds the least of a set of numbers.
LEMMA Smallest ==
  ASSUME NEW S \in SUBSET Nat, S # {}
  PROVE  Min(S) \in S
<1>1. PICK n \in S : \A m \in S : n <= m
  BY LeastNat
<1> QED
  BY <1>1 DEF Min

\* Rows of values, each made from the one before.
HasRows(V, a, N, F) ==
  \E g \in [0..N -> V] : g[0] = a /\ \A i \in 1..N : g[i] = F[<<i, g[i - 1]>>]

\* There are always such rows.
LEMMA HaveRows ==
  ASSUME NEW V, NEW a \in V, NEW N \in Nat, NEW F \in [(1..N) \X V -> V]
  PROVE  HasRows(V, a, N, F)
<1> DEFINE Made(n, g) == g[0] = a /\ \A i \in 1..n : g[i] = F[<<i, g[i - 1]>>]
           T == {n \in 0..N : \E g \in [0..n -> V] : Made(n, g)}
<1>1. 0 \in T
  <2>1. [i \in 0..0 |-> a] \in [0..0 -> V] /\ Made(0, [i \in 0..0 |-> a])
    OBVIOUS
  <2> HIDE DEF Made
  <2>2. \E g \in [0..0 -> V] : Made(0, g)
    BY <2>1
  <2> QED
    BY <2>2
<1>2. ASSUME NEW n \in 1..N, n - 1 \in T PROVE n \in T
  <2>1. PICK g \in [0..(n - 1) -> V] : Made(n - 1, g)
    BY <1>2
  <2> DEFINE h == [i \in 0..n |-> IF i = n THEN F[<<n, g[n - 1]>>] ELSE g[i]]
  <2>2. h \in [0..n -> V]
    <3>1. g[n - 1] \in V
      BY <2>1
    <3>2. F[<<n, g[n - 1]>>] \in V
      BY <3>1
    <3>3. \A i \in 0..n : i # n => g[i] \in V
      BY <2>1
    <3> QED
      BY <3>2, <3>3
  <2>3. h[0] = a
    BY <2>1
  <2>4. ASSUME NEW i \in 1..n PROVE h[i] = F[<<i, h[i - 1]>>]
    <3>1. i - 1 \in 0..n /\ i - 1 # n /\ h[i - 1] = g[i - 1]
      OBVIOUS
    <3>2. CASE i = n
      BY <3>1, <3>2
    <3>3. CASE i # n
      <4>1. i \in 1..(n - 1) /\ h[i] = g[i]
        BY <3>3
      <4>2. g[i] = F[<<i, g[i - 1]>>]
        BY <2>1, <4>1
      <4> HIDE DEF h
      <4> QED
        BY <3>1, <4>1, <4>2
    <3> QED
      BY <3>2, <3>3
  <2>5. Made(n, h)
    BY <2>3, <2>4
  <2> HIDE DEF Made, h
  <2>6. \E x \in [0..n -> V] : Made(n, x)
    BY <2>2, <2>5
  <2>7. n \in 0..N
    OBVIOUS
  <2> QED
    BY <2>6, <2>7
<1> HIDE DEF T
<1>3. N \in T
  <2>1. N \in 0..N
    OBVIOUS
  <2> QED
    BY <1>1, <1>2, <2>1, Upwards
<1> QED
  BY <1>3 DEF T, HasRows

-----------------------------------------------------------------------------
(* What Only keeps, and where Place puts a block.                          *)

\* Append puts the new member at the end.
LEMMA LongerByOne ==
  ASSUME NEW V, NEW s \in Seq(V), NEW e \in V
  PROVE  Append(s, e) \in Seq(V) /\ Inserted(Append(s, e), s, Len(s) + 1, e)
<1>1. Len(s) \in Nat
  BY LenProperties
<1> DEFINE t == Append(s, e)
<1>2. t \in Seq(V) /\ Len(t) = Len(s) + 1 /\ t[Len(s) + 1] = e /\ \A k \in 1..Len(s) : t[k] = s[k]
  OBVIOUS
<1> HIDE DEF t
<1>3. Inserted(t, s, Len(s) + 1, e)
  BY <1>1, <1>2 DEF Inserted
<1> QED
  BY <1>2, <1>3 DEF t

\* Only keeps the members of S, in the order they have.
LEMMA OnlyIs ==
  ASSUME NEW V, NEW s \in Seq(V), NEW S
  PROVE  /\ Only(s, S) \in Seq(V)
         /\ \A x : x \in ToSet(Only(s, S)) <=> x \in ToSet(s) /\ x \in S
         /\ \A x, y : Precedes(Only(s, S), x, y) <=> Precedes(s, x, y) /\ x \in S /\ y \in S
<1> DEFINE N == Len(s)
           More(k, l) == IF s[k] \in S THEN Append(l, s[k]) ELSE l
           F == [x \in (1..N) \X Seq(V) |-> More(x[1], x[2])]
           Row(g) == g = [k \in 0..N |-> IF k = 0 THEN << >> ELSE More(k, g[k - 1])]
           g0 == CHOOSE g : Row(g)
<1>1. Only(s, S) = g0[N]
  BY DEF Only
<1>2. /\ N \in Nat /\ DOMAIN s = 1..N /\ \A k \in 1..N : s[k] \in V
      /\ \A x : x \in ToSet(s) <=> \E k \in 1..N : s[k] = x
  BY ListIs
<1> HIDE DEF N
<1>3. F \in [(1..N) \X Seq(V) -> Seq(V)]
  <2>1. \A k \in 1..N : \A l \in Seq(V) : More(k, l) \in Seq(V)
    BY <1>2
  <2> HIDE DEF More
  <2> QED
    BY <2>1
<1>4. << >> \in Seq(V)
  OBVIOUS
<1>5. PICK g \in [0..N -> Seq(V)] : g[0] = << >> /\ \A k \in 1..N : g[k] = F[<<k, g[k - 1]>>]
  <2> HIDE DEF F
  <2>1. HasRows(Seq(V), << >>, N, F)
    BY <1>2, <1>3, <1>4, HaveRows
  <2> QED
    BY <2>1 DEF HasRows
<1>6. \A k \in 1..N : g[k - 1] \in Seq(V) /\ g[k] = More(k, g[k - 1])
  <2> TAKE k \in 1..N
  <2>1. g[k - 1] \in Seq(V) /\ <<k, g[k - 1]>> \in (1..N) \X Seq(V)
    BY <1>2, <1>5
  <2> HIDE DEF More
  <2> QED
    BY <1>5, <2>1
<1>7. Row(g)
  <2> HIDE DEF More
  <2> QED
    BY <1>2, <1>5, <1>6
<1>8. Row(g0)
  <2> HIDE DEF Row
  <2> QED
    BY <1>7
<1>9. \A k \in 0..N : g0[k] = IF k = 0 THEN << >> ELSE More(k, g0[k - 1])
  BY <1>8
<1> DEFINE r == g0
<1> HIDE DEF g0, Row, F
<1>10. r[0] = << >> /\ \A k \in 1..N : r[k] = More(k, r[k - 1])
  <2> HIDE DEF More
  <2> QED
    BY <1>2, <1>9 DEF r
<1> HIDE DEF r
<1> DEFINE Good(k) ==
             /\ r[k] \in Seq(V)
             /\ \A x : x \in ToSet(r[k]) <=> x \in S /\ \E i \in 1..k : s[i] = x
             /\ \A x, y : Precedes(r[k], x, y) <=>
                  x \in S /\ y \in S /\ \E i, j \in 1..k : i < j /\ s[i] = x /\ s[j] = y
           T == {k \in 0..N : Good(k)}
<1>11. 0 \in T
  <2>1. r[0] \in Seq(V) /\ ToSet(r[0]) = {} /\ \A x, y : ~ Precedes(r[0], x, y)
    BY <1>10 DEF ToSet, Precedes
  <2>2. Good(0)
    BY <2>1
  <2> QED
    BY <1>2, <2>2
<1>12. ASSUME NEW k \in 1..N, k - 1 \in T PROVE k \in T
  <2>1. Good(k - 1) /\ k \in 0..N /\ k \in Nat
    BY <1>2, <1>12
  <2>a. \A i : i \in 1..k <=> i \in 1..(k - 1) \/ i = k
    BY <2>1, <1>12
  <2>b. \A i \in 1..(k - 1) : i < k /\ ~ (k < i)
    BY <2>1
  <2>2. CASE s[k] \notin S
    <3>1. r[k] = r[k - 1]
      BY <1>10, <2>2
    <3>2. ASSUME NEW x, NEW y, x \in S, y \in S
          PROVE  (\E i, j \in 1..k : i < j /\ s[i] = x /\ s[j] = y)
                 <=> \E i, j \in 1..(k - 1) : i < j /\ s[i] = x /\ s[j] = y
      BY <2>2, <2>a, <3>2
    <3>3. \A x \in S : (\E i \in 1..k : s[i] = x) <=> \E i \in 1..(k - 1) : s[i] = x
      BY <2>2, <2>a
    <3>4. Good(k)
      BY <2>1, <3>1, <3>2, <3>3
    <3> QED
      BY <2>1, <3>4
  <2>3. CASE s[k] \in S
    <3> DEFINE o == r[k - 1]
               e == s[k]
    <3>1. r[k] = Append(o, e) /\ o \in Seq(V) /\ e \in V /\ Len(o) \in Nat
      BY <1>2, <1>10, <2>1, <2>3, LenProperties
    <3> HIDE DEF o
    <3>2. r[k] \in Seq(V) /\ Inserted(r[k], o, Len(o) + 1, e)
      BY <3>1, LongerByOne
    <3>3. /\ ToSet(r[k]) = ToSet(o) \cup {e}
          /\ \A x, y : Precedes(r[k], x, y) <=>
               \/ Precedes(o, x, y)
               \/ x = e /\ \E m \in (Len(o) + 1)..Len(o) : o[m] = y
               \/ y = e /\ \E m \in 1..(Len(o) + 1 - 1) : o[m] = x
      <4> DEFINE t == r[k]
                 i == Len(o) + 1
      <4>1. t \in Seq(V) /\ o \in Seq(V) /\ Inserted(t, o, i, e)
        BY <3>1, <3>2
      <4> HIDE DEF t, i, e
      <4>2. /\ ToSet(t) = ToSet(o) \cup {e}
            /\ \A x, y : Precedes(t, x, y) <=>
                 \/ Precedes(o, x, y)
                 \/ x = e /\ \E m \in i..Len(o) : o[m] = y
                 \/ y = e /\ \E m \in 1..(i - 1) : o[m] = x
        BY <4>1, InsertedOrder
      <4> QED
        BY <4>2 DEF t, i
    <3>4. \A x : x \in ToSet(o) <=> \E m \in 1..Len(o) : o[m] = x
      BY <3>1, ListIs
    <3>5. \A x, y : Precedes(r[k], x, y) <=> Precedes(o, x, y) \/ (y = e /\ x \in ToSet(o))
      <4>1. (Len(o) + 1)..Len(o) = {} /\ Len(o) + 1 - 1 = Len(o)
        BY <3>1
      <4> QED
        BY <3>3, <3>4, <4>1
    <3>6. /\ \A x : x \in ToSet(o) <=> x \in S /\ \E i \in 1..(k - 1) : s[i] = x
          /\ \A x, y : Precedes(o, x, y) <=>
               x \in S /\ y \in S /\ \E i, j \in 1..(k - 1) : i < j /\ s[i] = x /\ s[j] = y
      BY <2>1 DEF o
    <3>7. \A x : x \in ToSet(r[k]) <=> x \in S /\ \E i \in 1..k : s[i] = x
      BY <2>3, <2>a, <3>3, <3>6
    <3>8. ASSUME NEW x, NEW y
          PROVE  Precedes(r[k], x, y) <=>
                   x \in S /\ y \in S /\ \E i, j \in 1..k : i < j /\ s[i] = x /\ s[j] = y
      <4>1. ASSUME Precedes(o, x, y)
            PROVE  x \in S /\ y \in S /\ \E i, j \in 1..k : i < j /\ s[i] = x /\ s[j] = y
        BY <2>a, <3>6, <4>1
      <4>2. ASSUME y = e, x \in ToSet(o)
            PROVE  x \in S /\ y \in S /\ \E i, j \in 1..k : i < j /\ s[i] = x /\ s[j] = y
        BY <2>3, <2>a, <2>b, <3>6, <4>2
      <4>3. ASSUME x \in S, y \in S, NEW i \in 1..k, NEW j \in 1..k, i < j, s[i] = x, s[j] = y
            PROVE  Precedes(o, x, y) \/ (y = e /\ x \in ToSet(o))
        <5>1. i \in 1..(k - 1)
          BY <2>1, <4>3
        <5>2. j \in 1..(k - 1) \/ j = k
          BY <2>a
        <5> QED
          BY <3>6, <4>3, <5>1, <5>2
      <4> QED
        BY <3>5, <4>1, <4>2, <4>3
    <3>9. Good(k)
      BY <3>2, <3>7, <3>8
    <3> QED
      BY <2>1, <3>9
  <2> QED
    BY <2>2, <2>3
<1>13. Good(N)
  <2> HIDE DEF T
  <2>1. N \in T
    <3>1. N \in 0..N
      BY <1>2
    <3> QED
      BY <1>2, <1>11, <1>12, <3>1, Upwards
  <2> QED
    BY <2>1 DEF T
<1>14. Only(s, S) = r[N]
  BY <1>1 DEF r
<1>15. \A x, y : Precedes(s, x, y) <=> \E i, j \in 1..N : i < j /\ s[i] = x /\ s[j] = y
  BY <1>2 DEF Precedes
<1>16. \A x : x \in ToSet(r[N]) <=> x \in ToSet(s) /\ x \in S
  BY <1>2, <1>13
<1>17. \A x, y : Precedes(r[N], x, y) <=> Precedes(s, x, y) /\ x \in S /\ y \in S
  BY <1>13, <1>15
<1> QED
  BY <1>13, <1>14, <1>16, <1>17

\* In two lists joined, everything in the first stands before everything in the second.
LEMMA Joined ==
  ASSUME NEW V, NEW s \in Seq(V), NEW t \in Seq(V)
  PROVE  /\ s \o t \in Seq(V) /\ ToSet(s \o t) = ToSet(s) \cup ToSet(t)
         /\ \A x, y : Precedes(s \o t, x, y) <=>
              \/ Precedes(s, x, y) \/ Precedes(t, x, y)
              \/ x \in ToSet(s) /\ y \in ToSet(t)
<1> DEFINE m == Len(s)
           n == Len(t)
           r == s \o t
<1>1. /\ m \in Nat /\ DOMAIN s = 1..m
      /\ \A x : x \in ToSet(s) <=> \E i \in 1..m : s[i] = x
  BY ListIs
<1>2. /\ n \in Nat /\ DOMAIN t = 1..n
      /\ \A x : x \in ToSet(t) <=> \E i \in 1..n : t[i] = x
  BY ListIs
<1>3. /\ r \in Seq(V) /\ Len(r) = m + n
      /\ \A i \in 1..(m + n) : r[i] = IF i <= m THEN s[i] ELSE t[i - m]
  BY ConcatProperties
<1> HIDE DEF r
<1>4. /\ DOMAIN r = 1..(m + n)
      /\ \A x : x \in ToSet(r) <=> \E i \in 1..(m + n) : r[i] = x
  <2>1. /\ DOMAIN r = 1..Len(r)
        /\ \A x : x \in ToSet(r) <=> \E i \in 1..Len(r) : r[i] = x
    BY <1>3, ListIs
  <2> QED
    BY <1>3, <2>1
<1> HIDE DEF m, n
<1>5. /\ \A i \in 1..m : i \in 1..(m + n) /\ r[i] = s[i]
      /\ \A i \in 1..n : i + m \in 1..(m + n) /\ ~ (i + m <= m) /\ (i + m) - m = i
      /\ \A i \in 1..(m + n) : i \in 1..m \/ i - m \in 1..n
      /\ \A i \in 1..(m + n) : ~ (i <= m) => i - m \in 1..n
  BY <1>1, <1>2, <1>3
<1>6. \A i \in 1..n : r[i + m] = t[i]
  BY <1>3, <1>5
<1>7. ASSUME NEW x PROVE x \in ToSet(r) <=> x \in ToSet(s) \/ x \in ToSet(t)
  <2>1. ASSUME NEW i \in 1..(m + n), r[i] = x PROVE x \in ToSet(s) \/ x \in ToSet(t)
    <3>1. CASE i <= m
      BY <1>1, <1>2, <1>3, <2>1, <3>1
    <3>2. CASE ~ (i <= m)
      BY <1>2, <1>3, <1>5, <2>1, <3>2
    <3> QED
      BY <3>1, <3>2
  <2>2. x \in ToSet(s) => x \in ToSet(r)
    BY <1>1, <1>4, <1>5
  <2>3. x \in ToSet(t) => x \in ToSet(r)
    BY <1>2, <1>4, <1>5, <1>6
  <2> QED
    BY <1>4, <2>1, <2>2, <2>3
<1>8. ASSUME NEW x, NEW y, Precedes(r, x, y)
      PROVE  Precedes(s, x, y) \/ Precedes(t, x, y) \/ (x \in ToSet(s) /\ y \in ToSet(t))
  <2>1. PICK i \in 1..(m + n), j \in 1..(m + n) : i < j /\ r[i] = x /\ r[j] = y
    BY <1>4, <1>8 DEF Precedes
  <2>2. CASE j <= m
    <3>1. i \in 1..m /\ j \in 1..m /\ i <= m
      BY <1>1, <1>2, <2>1, <2>2
    <3>2. s[i] = x /\ s[j] = y
      BY <1>3, <2>1, <2>2, <3>1
    <3> QED
      BY <1>1, <2>1, <3>1, <3>2 DEF Precedes
  <2>3. CASE i <= m /\ ~ (j <= m)
    <3>1. i \in 1..m /\ j - m \in 1..n
      BY <1>1, <1>2, <2>1, <2>3
    <3>2. s[i] = x /\ t[j - m] = y
      BY <1>3, <2>1, <2>3
    <3> QED
      BY <1>1, <1>2, <3>1, <3>2
  <2>4. CASE ~ (i <= m) /\ ~ (j <= m)
    <3>1. i - m \in 1..n /\ j - m \in 1..n /\ i - m < j - m
      BY <1>1, <1>2, <2>1, <2>4
    <3>2. t[i - m] = x /\ t[j - m] = y
      BY <1>3, <2>1, <2>4
    <3> QED
      BY <1>2, <3>1, <3>2 DEF Precedes
  <2>5. j <= m => i <= m
    BY <1>1, <1>2, <2>1
  <2> QED
    BY <2>2, <2>3, <2>4, <2>5
<1>9. ASSUME NEW x, NEW y, Precedes(s, x, y) PROVE Precedes(r, x, y)
  BY <1>1, <1>4, <1>5, <1>9 DEF Precedes
<1>10. ASSUME NEW x, NEW y, Precedes(t, x, y) PROVE Precedes(r, x, y)
  <2>1. PICK i \in 1..n, j \in 1..n : i < j /\ t[i] = x /\ t[j] = y
    BY <1>2, <1>10 DEF Precedes
  <2>2. i + m \in DOMAIN r /\ j + m \in DOMAIN r /\ i + m < j + m
    BY <1>1, <1>2, <1>4, <1>5, <2>1
  <2>3. r[i + m] = x /\ r[j + m] = y
    BY <1>6, <2>1
  <2> QED
    BY <2>2, <2>3 DEF Precedes
<1>11. ASSUME NEW x \in ToSet(s), NEW y \in ToSet(t) PROVE Precedes(r, x, y)
  <2>1. PICK i \in 1..m, j \in 1..n : s[i] = x /\ t[j] = y
    BY <1>1, <1>2
  <2>2. i \in DOMAIN r /\ j + m \in DOMAIN r /\ i < j + m
    BY <1>1, <1>2, <1>4, <1>5, <2>1
  <2>3. r[i] = x /\ r[j + m] = y
    BY <1>5, <1>6, <2>1
  <2> QED
    BY <2>2, <2>3 DEF Precedes
<1>12. ToSet(r) = ToSet(s) \cup ToSet(t)
  BY <1>7
<1>13. \A x, y : Precedes(r, x, y) <=>
              \/ Precedes(s, x, y) \/ Precedes(t, x, y)
              \/ x \in ToSet(s) /\ y \in ToSet(t)
  BY <1>8, <1>9, <1>10, <1>11
<1> QED
  BY <1>3, <1>12, <1>13 DEF r

IsMapped(r, s, f) == r = [k \in DOMAIN s |-> f[s[k]]]

\* A list with each member replaced keeps the order of the members.
LEMMA Mapped ==
  ASSUME NEW V, NEW s \in Seq(V), NEW W, NEW f \in [ToSet(s) -> W],
         NEW r, IsMapped(r, s, f)
  PROVE  /\ r \in Seq(W) /\ Len(r) = Len(s) /\ ToSet(r) = {f[u] : u \in ToSet(s)}
         /\ \A x, y : Precedes(r, x, y) <=> \E u, v : Precedes(s, u, v) /\ f[u] = x /\ f[v] = y
<1>1. /\ Len(s) \in Nat /\ DOMAIN s = 1..Len(s)
      /\ \A x : x \in ToSet(s) <=> \E i \in 1..Len(s) : s[i] = x
  BY ListIs
<1>2. r \in Seq(W) /\ Len(r) = Len(s) /\ DOMAIN r = 1..Len(s) /\ \A k \in 1..Len(s) : r[k] = f[s[k]]
  <2>1. r = [k \in 1..Len(s) |-> f[s[k]]]
    BY <1>1 DEF IsMapped
  <2>2. \A k \in 1..Len(s) : f[s[k]] \in W
    BY <1>1
  <2>3. r \in Seq(W)
    BY <1>1, <2>1, <2>2, IsASeq
  <2> QED
    BY <1>1, <2>1, <2>3, LenProperties
<1>3. ToSet(r) = {f[u] : u \in ToSet(s)}
  <2>1. \A x : x \in ToSet(r) <=> \E i \in 1..Len(s) : r[i] = x
    BY <1>2 DEF ToSet
  <2> QED
    BY <1>1, <1>2, <2>1
<1>4. ASSUME NEW x, NEW y, Precedes(r, x, y)
      PROVE  \E u, v : Precedes(s, u, v) /\ f[u] = x /\ f[v] = y
  <2>1. PICK i \in 1..Len(s), j \in 1..Len(s) : i < j /\ r[i] = x /\ r[j] = y
    BY <1>2, <1>4 DEF Precedes
  <2>2. Precedes(s, s[i], s[j])
    BY <1>1, <2>1 DEF Precedes
  <2> QED
    BY <1>2, <2>1, <2>2
<1>5. ASSUME NEW u, NEW v, Precedes(s, u, v) PROVE Precedes(r, f[u], f[v])
  <2>1. PICK i \in 1..Len(s), j \in 1..Len(s) : i < j /\ s[i] = u /\ s[j] = v
    BY <1>1, <1>5 DEF Precedes
  <2> QED
    BY <1>2, <2>1 DEF Precedes
<1> QED
  BY <1>2, <1>3, <1>4, <1>5

\* The numbers of P, upwards.
LEMMA UpwardsIs ==
  ASSUME NEW n \in Nat, NEW P \in SUBSET (1..n), NEW s, s = [i \in 1..n |-> i]
  PROVE  /\ Only(s, P) \in Seq(Nat) /\ ToSet(Only(s, P)) = P /\ IsInjective(Only(s, P))
         /\ \A i, j : Precedes(Only(s, P), i, j) <=> i \in P /\ j \in P /\ i < j
<1>1. s \in Seq(Nat) /\ Len(s) = n
  <2>1. [i \in 1..n |-> i] \in Seq(Nat)
    BY IsASeq
  <2> QED
    BY <2>1, LenProperties
<1>2. DOMAIN s = 1..n /\ \A i \in 1..n : s[i] = i
  OBVIOUS
<1>3. ToSet(s) = 1..n
  BY <1>2 DEF ToSet
<1>4. \A i, j : Precedes(s, i, j) <=> i \in 1..n /\ j \in 1..n /\ i < j
  BY <1>2 DEF Precedes
<1> DEFINE l == Only(s, P)
<1>5. /\ l \in Seq(Nat)
      /\ \A x : x \in ToSet(l) <=> x \in ToSet(s) /\ x \in P
      /\ \A x, y : Precedes(l, x, y) <=> Precedes(s, x, y) /\ x \in P /\ y \in P
  <2> DEFINE V == Nat
             u == s
  <2>1. u \in Seq(V)
    BY <1>1
  <2> HIDE DEF V, u
  <2>2. /\ Only(u, P) \in Seq(V)
        /\ \A x : x \in ToSet(Only(u, P)) <=> x \in ToSet(u) /\ x \in P
        /\ \A x, y : Precedes(Only(u, P), x, y) <=> Precedes(u, x, y) /\ x \in P /\ y \in P
    BY ONLY <2>1, OnlyIs
  <2> QED
    BY <2>2 DEF V, u
<1> HIDE DEF l
<1>6. ASSUME NEW i, NEW j PROVE Precedes(l, i, j) <=> i \in P /\ j \in P /\ i < j
  BY <1>4, <1>5
<1>7. ASSUME NEW i, Precedes(l, i, i) PROVE FALSE
  <2>1. i \in P /\ i < i
    BY <1>6, <1>7
  <2>2. i \in Nat
    BY <2>1
  <2> QED
    BY <2>1, <2>2
<1>8. IsInjective(l)
  <2> DEFINE V == Nat
  <2>1. l \in Seq(V)
    BY <1>5
  <2> HIDE DEF V
  <2> QED
    BY <1>7, <2>1, OnceIs
<1>9. ToSet(l) = P
  BY <1>3, <1>5
<1> QED
  BY <1>5, <1>6, <1>8, <1>9 DEF l

\* Places of the page from top to bottom.
LEMMA FromTopIs ==
  ASSUME page \in Seq(Items), NEW P \in SUBSET DOMAIN page
  PROVE  /\ FromTop(P) \in Seq(Nat) /\ ToSet(FromTop(P)) = P /\ IsInjective(FromTop(P))
         /\ \A i, j : Precedes(FromTop(P), i, j) <=> i \in P /\ j \in P /\ i < j
<1> DEFINE n == Len(page)
           s == [i \in DOMAIN page |-> i]
<1>1. n \in Nat /\ DOMAIN page = 1..n
  BY LenProperties
<1>2. s = [i \in 1..n |-> i] /\ P \in SUBSET (1..n)
  BY <1>1
<1>3. FromTop(P) = Only(s, P)
  BY DEF FromTop
<1> HIDE DEF n, s
<1>4. /\ Only(s, P) \in Seq(Nat) /\ ToSet(Only(s, P)) = P /\ IsInjective(Only(s, P))
      /\ \A i, j : Precedes(Only(s, P), i, j) <=> i \in P /\ j \in P /\ i < j
  BY <1>1, <1>2, UpwardsIs
<1> QED
  BY <1>3, <1>4

-----------------------------------------------------------------------------
(* Where Place puts a block, and what PlaceAll leaves as it was.           *)

Lists(V) == {s \in Seq(V) : IsInjective(s)}

\* p is o with w right behind f.
Behind(p, o, f, w) ==
  \A x, y : Precedes(p, x, y) <=>
    \/ Precedes(o, x, y)
    \/ x = w /\ Precedes(o, f, y)
    \/ y = w /\ (x = f \/ Precedes(o, x, f))

\* Where w is put, the others keep their order.
LEMMA InsertedKeeps ==
  ASSUME NEW V, NEW o \in Lists(V), NEW p \in Seq(V), NEW i, NEW w, w \notin ToSet(o),
         Inserted(p, o, i, w)
  PROVE  /\ p \in Lists(V) /\ ToSet(p) = ToSet(o) \cup {w}
         /\ \A x, y : Precedes(o, x, y) => Precedes(p, x, y)
         /\ i > 1 => Behind(p, o, o[i - 1], w)
<1>1. o \in Seq(V) /\ IsInjective(o)
  BY DEF Lists
<1>2. /\ Len(o) \in Nat /\ DOMAIN o = 1..Len(o)
      /\ \A x : x \in ToSet(o) <=> \E k \in 1..Len(o) : o[k] = x
  BY <1>1, ListIs
<1>3. /\ ToSet(p) = ToSet(o) \cup {w}
      /\ \A x, y : Precedes(p, x, y) <=>
           \/ Precedes(o, x, y)
           \/ x = w /\ \E k \in i..Len(o) : o[k] = y
           \/ y = w /\ \E k \in 1..(i - 1) : o[k] = x
  BY <1>1, InsertedOrder
<1>4. i \in 1..(Len(o) + 1)
  BY DEF Inserted
<1>5. \A k \in i..Len(o) : o[k] # w
  BY <1>2, <1>4
<1>6. \A k \in 1..(i - 1) : o[k] # w
  BY <1>2, <1>4
<1>7. \A x : ~ Precedes(o, x, x)
  BY <1>1, OnceIs
<1>8. \A x : ~ Precedes(p, x, x)
  BY <1>3, <1>5, <1>6, <1>7
<1>9. IsInjective(p)
  BY <1>8, OnceIs
<1>10. ASSUME i > 1 PROVE Behind(p, o, o[i - 1], w)
  <2> DEFINE f == o[i - 1]
  <2>1. i - 1 \in 1..Len(o)
    BY <1>2, <1>4, <1>10
  <2>2. ASSUME NEW y PROVE (\E k \in i..Len(o) : o[k] = y) <=> Precedes(o, f, y)
    <3>1. ASSUME NEW k \in i..Len(o), o[k] = y PROVE Precedes(o, f, y)
      <4>1. k \in 1..Len(o) /\ i - 1 < k
        BY <1>2, <1>4
      <4> QED
        BY <1>2, <2>1, <3>1, <4>1 DEF Precedes
    <3>2. ASSUME Precedes(o, f, y) PROVE \E k \in i..Len(o) : o[k] = y
      <4>1. PICK a \in 1..Len(o), b \in 1..Len(o) : a < b /\ o[a] = f /\ o[b] = y
        BY <1>2, <3>2 DEF Precedes
      <4>2. a = i - 1
        BY <1>1, <1>2, <2>1, <4>1 DEF IsInjective
      <4>3. b \in i..Len(o)
        BY <1>2, <1>4, <4>1, <4>2
      <4> QED
        BY <4>1, <4>3
    <3> QED
      BY <3>1, <3>2
  <2>3. ASSUME NEW x PROVE (\E k \in 1..(i - 1) : o[k] = x) <=> x = f \/ Precedes(o, x, f)
    <3>1. ASSUME NEW k \in 1..(i - 1), o[k] = x PROVE x = f \/ Precedes(o, x, f)
      <4>1. k \in 1..Len(o) /\ (k = i - 1 \/ k < i - 1)
        BY <1>2, <1>4, <2>1
      <4> QED
        BY <1>2, <2>1, <3>1, <4>1 DEF Precedes
    <3>2. ASSUME Precedes(o, x, f) PROVE \E k \in 1..(i - 1) : o[k] = x
      <4>1. PICK a \in 1..Len(o), b \in 1..Len(o) : a < b /\ o[a] = x /\ o[b] = f
        BY <1>2, <3>2 DEF Precedes
      <4>2. b = i - 1
        BY <1>1, <1>2, <2>1, <4>1 DEF IsInjective
      <4>3. a \in 1..(i - 1)
        BY <1>2, <1>4, <4>1, <4>2
      <4> QED
        BY <4>1, <4>3
    <3>3. x = f => \E k \in 1..(i - 1) : o[k] = x
      <4>1. i - 1 \in 1..(i - 1)
        BY <1>4, <1>10
      <4> QED
        BY <4>1
    <3> QED
      BY <3>1, <3>2, <3>3
  <2> QED
    BY <1>3, <2>2, <2>3 DEF Behind
<1> QED
  BY <1>3, <1>9, <1>10 DEF Lists

\* Place puts a block somewhere; right behind the one before it in its list,
\* where that has been placed.
LEMMA PlaceIs ==
  ASSUME NEW V, NEW o \in Lists(V), NEW ids \in Seq(V), NEW k \in 1..Len(ids)
  PROVE  LET p == Place(o, ids, k)
         IN  /\ p \in Lists(V) /\ ToSet(p) = ToSet(o) \cup {ids[k]}
             /\ \A x, y : Precedes(o, x, y) => Precedes(p, x, y)
             /\ ids[k] \in ToSet(o) => p = o
             /\ ids[k] \notin ToSet(o) /\ k > 1 /\ ids[k - 1] \in ToSet(o) =>
                  Behind(p, o, ids[k - 1], ids[k])
<1> DEFINE p == Place(o, ids, k)
           w == ids[k]
           before == {j \in 1..(k - 1) : Contains(o, ids[j])}
           after == {j \in (k + 1)..Len(ids) : Contains(o, ids[j])}
           index(id) == CHOOSE i \in DOMAIN o : o[i] = id
<1>1. o \in Seq(V) /\ IsInjective(o)
  BY DEF Lists
<1>2. /\ Len(o) \in Nat /\ DOMAIN o = 1..Len(o)
      /\ \A x : x \in ToSet(o) <=> \E i \in 1..Len(o) : o[i] = x
  BY <1>1, ListIs
<1>3. \A x : Contains(o, x) <=> x \in ToSet(o)
  BY <1>2 DEF Contains
<1>4. /\ Len(ids) \in Nat /\ DOMAIN ids = 1..Len(ids) /\ w \in V
  BY ListIs
<1>5. \A x \in ToSet(o) : index(x) \in 1..Len(o) /\ o[index(x)] = x
  BY <1>2
<1>6. CASE w \in ToSet(o)
  <2>1. p = o
    BY <1>3, <1>6 DEF Place
  <2> QED
    BY <1>6, <2>1
<1>7. CASE w \notin ToSet(o)
  <2> DEFINE Put(i) == /\ i \in 1..(Len(o) + 1) /\ p \in Seq(V) /\ Inserted(p, o, i, w)
                       /\ k > 1 /\ ids[k - 1] \in ToSet(o) => i > 1 /\ o[i - 1] = ids[k - 1]
  <2>1. ASSUME before # {} PROVE \E i : Put(i)
    <3> DEFINE m == Max(before)
               i == index(ids[m]) + 1
    <3>1. p = InsertAt(o, i, w)
      BY <1>3, <1>7, <2>1 DEF Place
    <3>2. m \in before /\ \A j \in before : j <= m
      <4>1. before \in SUBSET (1..(k - 1)) /\ k - 1 \in Nat
        BY <1>4
      <4> HIDE DEF before
      <4> QED
        BY <2>1, <4>1, Largest
    <3>3. ids[m] \in ToSet(o) /\ m \in 1..(k - 1)
      BY <1>3, <3>2
    <3> HIDE DEF m, before, index
    <3>4. i \in 1..(Len(o) + 1) /\ i > 1 /\ o[i - 1] = ids[m]
      BY <1>2, <1>5, <3>3
    <3>5. p \in Seq(V) /\ Inserted(p, o, i, w)
      BY <1>1, <1>4, <3>1, <3>4, InsertedIs
    <3>6. k > 1 /\ ids[k - 1] \in ToSet(o) => m = k - 1
      <4>1. k > 1 /\ ids[k - 1] \in ToSet(o) => k - 1 \in before
        BY <1>3, <1>4 DEF before
      <4> QED
        BY <1>4, <3>2, <3>3, <4>1
    <3>7. Put(i)
      BY <3>4, <3>5, <3>6
    <3> QED
      BY <3>7
  <2>2. ASSUME before = {} PROVE \E i : Put(i)
    <3>1. ~ (k > 1 /\ ids[k - 1] \in ToSet(o))
      <4>1. k > 1 /\ ids[k - 1] \in ToSet(o) => k - 1 \in before
        BY <1>3, <1>4
      <4> QED
        BY <2>2, <4>1
    <3>2. CASE after # {}
      <4> DEFINE m == Min(after)
                 i == index(ids[m])
      <4>1. p = InsertAt(o, i, w)
        BY <1>3, <1>7, <2>2, <3>2 DEF Place
      <4>2. m \in after
        <5>1. after \in SUBSET Nat
          BY <1>4
        <5> HIDE DEF after
        <5> QED
          BY <3>2, <5>1, Smallest
      <4>3. ids[m] \in ToSet(o)
        BY <1>3, <4>2
      <4> HIDE DEF m, after, index
      <4>4. i \in 1..(Len(o) + 1)
        BY <1>2, <1>5, <4>3
      <4>5. p \in Seq(V) /\ Inserted(p, o, i, w)
        BY <1>1, <1>4, <4>1, <4>4, InsertedIs
      <4>6. Put(i)
        BY <3>1, <4>4, <4>5
      <4> QED
        BY <4>6
    <3>3. CASE after = {}
      <4>1. p = Append(o, w)
        BY <1>3, <1>7, <2>2, <3>3 DEF Place
      <4>2. p \in Seq(V) /\ Inserted(p, o, Len(o) + 1, w) /\ Len(o) + 1 \in 1..(Len(o) + 1)
        BY <1>1, <1>2, <1>4, <4>1, LongerByOne
      <4>3. Put(Len(o) + 1)
        BY <3>1, <4>2
      <4> QED
        BY <4>3
    <3> QED
      BY <3>2, <3>3
  <2>3. \E i : Put(i)
    BY <2>1, <2>2
  <2> HIDE DEF p, w
  <2>4. PICK i : Put(i)
    BY <2>3
  <2>5. /\ p \in Lists(V) /\ ToSet(p) = ToSet(o) \cup {w}
        /\ \A x, y : Precedes(o, x, y) => Precedes(p, x, y)
        /\ i > 1 => Behind(p, o, o[i - 1], w)
    BY <1>7, <2>4, InsertedKeeps
  <2>6. k > 1 /\ ids[k - 1] \in ToSet(o) => Behind(p, o, ids[k - 1], w)
    BY <2>4, <2>5
  <2> QED
    BY <1>7, <2>5, <2>6 DEF p, w
<1> QED
  BY <1>6, <1>7

\* The rows of PlaceAll: one block placed after the other.
PlacedRows(V, o, ids) ==
  \E g \in [0..Len(ids) -> Lists(V)] :
    /\ g[0] = o /\ PlaceAll(o, ids) = g[Len(ids)]
    /\ \A k \in 1..Len(ids) : g[k] = Place(g[k - 1], ids, k)

\* PlaceAll is the last of these rows.
LEMMA PlaceAllHasRows ==
  ASSUME NEW V, NEW o \in Lists(V), NEW ids \in Seq(V)
  PROVE  PlacedRows(V, o, ids)
<1> DEFINE N == Len(ids)
           L == Lists(V)
           Then(k, l) == Place(l, ids, k)
           F == [x \in (1..N) \X L |-> Then(x[1], x[2])]
           Row(g) == g = [k \in 0..N |-> IF k = 0 THEN o ELSE Then(k, g[k - 1])]
           g0 == CHOOSE g : Row(g)
<1>1. PlaceAll(o, ids) = g0[N]
  BY DEF PlaceAll
<1>2. N \in Nat
  BY ListIs
<1>3. \A k \in 1..N : \A l \in L : Then(k, l) \in L
  BY PlaceIs
<1>4. o \in L
  OBVIOUS
<1> HIDE DEF N, L, Then
<1>5. F \in [(1..N) \X L -> L]
  BY <1>3
<1>6. PICK g \in [0..N -> L] : g[0] = o /\ \A k \in 1..N : g[k] = F[<<k, g[k - 1]>>]
  <2> HIDE DEF F
  <2>1. HasRows(L, o, N, F)
    BY <1>2, <1>4, <1>5, HaveRows
  <2> QED
    BY <2>1 DEF HasRows
<1>7. \A k \in 1..N : g[k - 1] \in L /\ g[k] = Then(k, g[k - 1])
  <2> TAKE k \in 1..N
  <2>1. g[k - 1] \in L /\ <<k, g[k - 1]>> \in (1..N) \X L
    BY <1>2, <1>6
  <2> QED
    BY <1>6, <2>1
<1>8. Row(g)
  BY <1>2, <1>6, <1>7
<1>9. Row(g0)
  <2> HIDE DEF Row
  <2> QED
    BY <1>8
<1>10. \A k \in 0..N : g0[k] = IF k = 0 THEN o ELSE Then(k, g0[k - 1])
  BY <1>9
<1> DEFINE r == g0
<1>a. DOMAIN r = 0..N /\ r = [k \in 0..N |-> r[k]]
  BY <1>9
<1> HIDE DEF g0, Row, F
<1>11. r[0] = o /\ \A k \in 1..N : r[k] = Then(k, r[k - 1])
  BY <1>2, <1>10 DEF r
<1> HIDE DEF r
<1>12. \A k \in 0..N : r[k] \in L
  <2> DEFINE T == {k \in 0..N : r[k] \in L}
  <2>1. 0 \in T
    BY <1>2, <1>4, <1>11
  <2>2. ASSUME NEW k \in 1..N, k - 1 \in T PROVE k \in T
    BY <1>2, <1>3, <1>11, <2>2
  <2> HIDE DEF T
  <2>3. \A k \in 0..N : k \in T
    BY <1>2, <2>1, <2>2, Upwards
  <2> QED
    BY <2>3 DEF T
<1>13. r \in [0..N -> L]
  BY <1>a, <1>12
<1>14. PlaceAll(o, ids) = r[N]
  BY <1>1 DEF r
<1>15. \A k \in 1..N : r[k] = Place(r[k - 1], ids, k)
  BY <1>11 DEF Then
<1>16. r \in [0..Len(ids) -> Lists(V)] /\ PlaceAll(o, ids) = r[Len(ids)]
  BY <1>13, <1>14 DEF N, L
<1>17. \A k \in 1..Len(ids) : r[k] = Place(r[k - 1], ids, k)
  BY <1>15 DEF N
<1> QED
  BY <1>11, <1>16, <1>17 DEF PlacedRows

\* Nothing is lost in placing, and what was there keeps its order.
LEMMA PlaceAllIs ==
  ASSUME NEW V, NEW o \in Lists(V), NEW ids \in Seq(V)
  PROVE  LET p == PlaceAll(o, ids)
         IN  /\ p \in Lists(V) /\ ToSet(p) = ToSet(o) \cup ToSet(ids)
             /\ \A x, y : Precedes(o, x, y) => Precedes(p, x, y)
<1> DEFINE N == Len(ids)
<1>1. /\ N \in Nat /\ \A x : x \in ToSet(ids) <=> \E j \in 1..N : ids[j] = x
  BY ListIs
<1>2. PICK g \in [0..N -> Lists(V)] :
        /\ g[0] = o /\ PlaceAll(o, ids) = g[N]
        /\ \A k \in 1..N : g[k] = Place(g[k - 1], ids, k)
  BY PlaceAllHasRows DEF PlacedRows
<1> DEFINE Good(k) == /\ \A x : x \in ToSet(g[k]) <=> x \in ToSet(o) \/ \E j \in 1..k : ids[j] = x
                      /\ \A x, y : Precedes(o, x, y) => Precedes(g[k], x, y)
           T == {k \in 0..N : Good(k)}
<1>3. 0 \in T
  BY <1>1, <1>2
<1>4. ASSUME NEW k \in 1..N, k - 1 \in T PROVE k \in T
  <2>1. Good(k - 1) /\ g[k - 1] \in Lists(V) /\ g[k] = Place(g[k - 1], ids, k)
    BY <1>1, <1>2, <1>4
  <2>2. /\ ToSet(g[k]) = ToSet(g[k - 1]) \cup {ids[k]}
        /\ \A x, y : Precedes(g[k - 1], x, y) => Precedes(g[k], x, y)
    <3> DEFINE l == g[k - 1]
               p == Place(l, ids, k)
    <3>1. l \in Lists(V) /\ k \in 1..Len(ids)
      BY <2>1
    <3>2. g[k] = p
      BY <2>1
    <3> HIDE DEF l
    <3>3. ToSet(p) = ToSet(l) \cup {ids[k]} /\ \A x, y : Precedes(l, x, y) => Precedes(p, x, y)
      BY <3>1, PlaceIs
    <3> HIDE DEF p
    <3> QED
      BY <3>2, <3>3 DEF l
  <2>3. \A j : j \in 1..k <=> j \in 1..(k - 1) \/ j = k
    BY <1>1
  <2>4. Good(k)
    BY <2>1, <2>2, <2>3
  <2> QED
    BY <2>4
<1>5. Good(N)
  <2> HIDE DEF T, N
  <2>1. N \in T
    <3>1. N \in 0..N
      BY <1>1
    <3> QED
      BY <1>1, <1>3, <1>4, <3>1, Upwards
  <2> QED
    BY <2>1 DEF T
<1>6. g[N] \in Lists(V)
  BY <1>1, <1>2
<1>7. ToSet(g[N]) = ToSet(o) \cup ToSet(ids)
  BY <1>1, <1>5
<1> QED
  BY <1>2, <1>5, <1>6, <1>7

NewFrom(o, ids, p, m) == \A k \in (p + 1)..m : ids[k] \notin ToSet(o)
OnlyBetween(r, ids, p, m) ==
  /\ Precedes(r, ids[p], ids[m])
  /\ \A z : Precedes(r, ids[p], z) /\ Precedes(r, z, ids[m]) =>
       \E k \in (p + 1)..(m - 1) : ids[k] = z

\* Blocks that are new to an order are placed behind their predecessors in the
\* list: between the p-th of it and the m-th only those between them in the list.
LEMMA PlacedBehind ==
  ASSUME NEW V, NEW o \in Lists(V), NEW ids \in Lists(V),
         NEW p \in 1..Len(ids), NEW m \in 1..Len(ids), p < m,
         NewFrom(o, ids, p, m)
  PROVE  OnlyBetween(PlaceAll(o, ids), ids, p, m)
<1> DEFINE N == Len(ids)
           End(k) == IF k <= m THEN k ELSE m
<1>0. ids \in Seq(V) /\ IsInjective(ids)
  BY DEF Lists
<1>1. /\ N \in Nat /\ DOMAIN ids = 1..N /\ \A x : x \in ToSet(ids) <=> \E j \in 1..N : ids[j] = x
      /\ \A i, j \in 1..N : ids[i] = ids[j] => i = j
  BY <1>0, ListIs DEF IsInjective
<1>2. PICK g \in [0..N -> Lists(V)] :
        /\ g[0] = o /\ PlaceAll(o, ids) = g[N]
        /\ \A k \in 1..N : g[k] = Place(g[k - 1], ids, k)
  BY <1>0, PlaceAllHasRows DEF PlacedRows
<1>3. ASSUME NEW k \in 1..N
      PROVE  /\ g[k - 1] \in Lists(V) /\ g[k] \in Lists(V)
             /\ ToSet(g[k]) = ToSet(g[k - 1]) \cup {ids[k]}
             /\ \A x, y : Precedes(g[k - 1], x, y) => Precedes(g[k], x, y)
             /\ ids[k] \in ToSet(g[k - 1]) => g[k] = g[k - 1]
             /\ ids[k] \notin ToSet(g[k - 1]) /\ k > 1 /\ ids[k - 1] \in ToSet(g[k - 1]) =>
                  Behind(g[k], g[k - 1], ids[k - 1], ids[k])
  <2> DEFINE l == g[k - 1]
             w == Place(l, ids, k)
  <2>1. l \in Lists(V) /\ k \in 1..Len(ids) /\ g[k] \in Lists(V)
    BY <1>1, <1>2
  <2>2. g[k] = w
    BY <1>2
  <2> HIDE DEF l
  <2>3. /\ ToSet(w) = ToSet(l) \cup {ids[k]}
        /\ \A x, y : Precedes(l, x, y) => Precedes(w, x, y)
        /\ ids[k] \in ToSet(l) => w = l
        /\ ids[k] \notin ToSet(l) /\ k > 1 /\ ids[k - 1] \in ToSet(l) =>
             Behind(w, l, ids[k - 1], ids[k])
    BY <1>0, <2>1, PlaceIs
  <2> HIDE DEF w
  <2> QED
    BY <2>1, <2>2, <2>3 DEF l
<1> DEFINE Seen(k) == \A x : x \in ToSet(g[k]) <=> x \in ToSet(o) \/ \E j \in 1..k : ids[j] = x
           S == {k \in 0..N : Seen(k)}
<1>4. \A k \in 0..N : Seen(k)
  <2>1. 0 \in S
    BY <1>1, <1>2
  <2>2. ASSUME NEW k \in 1..N, k - 1 \in S PROVE k \in S
    <3>1. \A j : j \in 1..k <=> j \in 1..(k - 1) \/ j = k
      BY <1>1
    <3>2. Seen(k - 1) /\ k \in 0..N
      BY <1>1, <2>2
    <3>3. ToSet(g[k]) = ToSet(g[k - 1]) \cup {ids[k]}
      BY <1>3
    <3>4. Seen(k)
      BY <3>1, <3>2, <3>3
    <3> QED
      BY <3>2, <3>4
  <2> HIDE DEF S, N
  <2>3. \A k \in 0..N : k \in S
    BY <1>1, <2>1, <2>2, Upwards
  <2> QED
    BY <2>3 DEF S
<1> DEFINE Good(k) == LET e == End(k)
                      IN  /\ e > p => Precedes(g[k], ids[p], ids[e])
                          /\ \A z : Precedes(g[k], ids[p], z) /\ Precedes(g[k], z, ids[e]) =>
                               \E j \in (p + 1)..(e - 1) : ids[j] = z
           T == {k \in 0..N : k < p \/ Good(k)}
<1>5. 0 \in T
  BY <1>1
<1>6. ASSUME NEW k \in 1..N, k - 1 \in T PROVE k \in T
  <2>1. CASE k < p
    BY <1>1, <2>1
  <2>2. CASE k = p
    <3>1. g[k] \in Seq(V) /\ IsInjective(g[k])
      BY <1>3 DEF Lists
    <3>2. \A x, y : ~ (Precedes(g[k], x, y) /\ Precedes(g[k], y, x))
      BY <3>1, OneIsFirst
    <3>3. End(k) = p
      BY <1>1, <2>2
    <3>4. Good(k)
      BY <3>2, <3>3
    <3> QED
      BY <1>1, <3>4
  <2>3. CASE k > p
    <3> DEFINE l == g[k - 1]
               q == g[k]
               w == ids[k]
               f == ids[k - 1]
    <3>1. k - 1 \in 1..N /\ k - 1 \in 0..N /\ k > 1 /\ Good(k - 1)
      BY <1>1, <1>6, <2>3
    <3>2. f \in ToSet(l)
      <4>1. k - 1 \in 1..(k - 1)
        BY <1>1, <3>1
      <4> QED
        BY <1>4, <3>1, <4>1
    <3>3. l \in Lists(V) /\ l \in Seq(V) /\ IsInjective(l)
      BY <1>3 DEF Lists
    <3>4. CASE k <= m
      <4>1. w \notin ToSet(l)
        <5>1. k \in (p + 1)..m
          BY <1>1, <2>3, <3>4
        <5>2. \A j \in 1..(k - 1) : ids[j] # w
          <6>1. \A j \in 1..(k - 1) : j \in 1..N /\ j # k
            BY <1>1
          <6> QED
            BY <1>1, <6>1
        <5> QED
          BY <1>4, <3>1, <5>1, <5>2 DEF NewFrom
      <4>2. Behind(q, l, f, w)
        BY <1>3, <3>1, <3>2, <4>1
      <4>3. End(k) = k /\ End(k - 1) = k - 1
        BY <1>1, <3>4
      <4> HIDE DEF l, q, w, f, End
      <4>4. \A x, y : Precedes(q, x, y) <=>
              \/ Precedes(l, x, y)
              \/ x = w /\ Precedes(l, f, y)
              \/ y = w /\ (x = f \/ Precedes(l, x, f))
        BY <4>2 DEF Behind
      <4>5. \A x : ~ Precedes(l, x, w) /\ ~ Precedes(l, w, x)
        BY <3>3, <4>1, PrecedesIs
      <4>6. \A x : ~ Precedes(l, x, x) /\ x # w => (Precedes(q, x, w) <=> x = f \/ Precedes(l, x, f))
        BY <4>4, <4>5
      <4>7. ids[p] # w
        BY <1>1, <2>3 DEF w
      <4>8. /\ k - 1 > p => Precedes(l, ids[p], f)
            /\ \A z : Precedes(l, ids[p], z) /\ Precedes(l, z, f) =>
                 \E j \in (p + 1)..(k - 2) : ids[j] = z
        <5>1. /\ k - 1 > p => Precedes(l, ids[p], ids[k - 1])
              /\ \A z : Precedes(l, ids[p], z) /\ Precedes(l, z, ids[k - 1]) =>
                   \E j \in (p + 1)..((k - 1) - 1) : ids[j] = z
          BY <3>1, <4>3 DEF l
        <5>2. (k - 1) - 1 = k - 2
          BY <1>1
        <5> QED
          BY <5>1, <5>2 DEF f
      <4>9. k - 1 = p => f = ids[p]
        BY DEF f
      <4>10. Precedes(q, ids[p], w)
        <5>1. k - 1 = p \/ k - 1 > p
          BY <1>1, <2>3
        <5> QED
          BY <4>4, <4>8, <4>9, <5>1
      <4>11. ASSUME NEW z, Precedes(q, ids[p], z), Precedes(q, z, w)
             PROVE  \E j \in (p + 1)..(k - 1) : ids[j] = z
        <5>1. z # w
          <6>1. q \in Seq(V) /\ IsInjective(q)
            BY <1>3 DEF Lists, q
          <6>2. ~ Precedes(q, w, w)
            BY <6>1, OnceIs
          <6> QED
            BY <4>11, <6>2
        <5>2. Precedes(l, ids[p], z) /\ (z = f \/ Precedes(l, z, f))
          BY <4>4, <4>5, <4>7, <4>11, <5>1
        <5>3. CASE z = f
          <6>1. k - 1 # p
            <7>1. ~ Precedes(l, f, f)
              BY <3>3, OnceIs
            <7> QED
              BY <4>9, <5>2, <5>3, <7>1
          <6>2. k - 1 \in (p + 1)..(k - 1)
            BY <1>1, <2>3, <6>1
          <6> QED
            BY <5>3, <6>2 DEF f
        <5>4. CASE z # f
          <6>1. PICK j \in (p + 1)..(k - 2) : ids[j] = z
            BY <4>8, <5>2, <5>4
          <6>2. j \in (p + 1)..(k - 1)
            BY <1>1, <6>1
          <6> QED
            BY <6>1, <6>2
        <5> QED
          BY <5>3, <5>4
      <4>12. Good(k)
        BY <4>3, <4>10, <4>11 DEF w, q
      <4> QED
        BY <1>1, <4>12
    <3>5. CASE k > m
      <4>1. End(k) = m /\ End(k - 1) = m
        BY <1>1, <3>5
      <4>2. /\ Precedes(l, ids[p], ids[m])
            /\ \A z : Precedes(l, ids[p], z) /\ Precedes(l, z, ids[m]) =>
                 \E j \in (p + 1)..(m - 1) : ids[j] = z
        BY <3>1, <4>1
      <4>3. Precedes(q, ids[p], ids[m])
        BY <1>3, <4>2
      <4>4. CASE w \in ToSet(l)
        <5>1. q = l
          BY <1>3, <4>4
        <5>2. Good(k)
          BY <4>1, <4>2, <5>1
        <5> QED
          BY <1>1, <5>2
      <4>5. CASE w \notin ToSet(l)
        <5>1. Behind(q, l, f, w)
          BY <1>3, <3>1, <3>2, <4>5
        <5> HIDE DEF l, q, End
        <5>2. \A x, y : Precedes(q, x, y) <=>
                \/ Precedes(l, x, y)
                \/ x = w /\ Precedes(l, f, y)
                \/ y = w /\ (x = f \/ Precedes(l, x, f))
          <6> HIDE DEF w, f
          <6> QED
            BY <5>1 DEF Behind
        <5>3. ids[p] # w /\ ids[m] # w /\ f # ids[p]
          BY <1>1, <2>3, <3>1, <3>5
        <5>4. \A j \in (p + 1)..(m - 1) : ids[j] # f
          BY <1>1, <3>1, <3>5
        <5>5. ASSUME NEW z, Precedes(q, ids[p], z), Precedes(q, z, ids[m])
              PROVE  \E j \in (p + 1)..(m - 1) : ids[j] = z
          <6> HIDE DEF w, f
          <6>1. CASE z = w
            <7>1. \A x : ~ Precedes(l, x, w) /\ ~ Precedes(l, w, x)
              BY <3>3, <4>5, PrecedesIs
            <7>2. Precedes(l, f, ids[m])
              BY <5>2, <5>3, <5>5, <6>1, <7>1
            <7>3. Precedes(l, ids[p], f)
              BY <5>2, <5>3, <5>5, <6>1, <7>1
            <7>4. \E j \in (p + 1)..(m - 1) : ids[j] = f
              BY <4>2, <7>2, <7>3
            <7> QED
              BY <5>4, <7>4
          <6>2. CASE z # w
            <7>1. Precedes(l, ids[p], z) /\ Precedes(l, z, ids[m])
              BY <5>2, <5>3, <5>5, <6>2
            <7> QED
              BY <4>2, <7>1
          <6> QED
            BY <6>1, <6>2
        <5>6. Good(k)
          BY <4>1, <4>3, <5>5 DEF q
        <5> QED
          BY <1>1, <5>6
      <4> QED
        BY <4>4, <4>5
    <3> QED
      BY <1>1, <3>4, <3>5
  <2> QED
    BY <1>1, <2>1, <2>2, <2>3
<1>7. Good(N)
  <2>1. N \in T
    <3> HIDE DEF T, N
    <3>1. N \in 0..N
      BY <1>1
    <3> QED
      BY <1>1, <1>5, <1>6, <3>1, Upwards
  <2>2. ~ (N < p)
    BY <1>1
  <2> HIDE DEF Good
  <2> QED
    BY <2>1, <2>2
<1>8. End(N) = m
  <2>1. N \in Nat /\ m \in 1..N
    BY <1>1
  <2> HIDE DEF N
  <2> QED
    BY <2>1
<1>9. /\ Precedes(g[N], ids[p], ids[m])
      /\ \A z : Precedes(g[N], ids[p], z) /\ Precedes(g[N], z, ids[m]) =>
           \E j \in (p + 1)..(m - 1) : ids[j] = z
  <2> HIDE DEF End, N
  <2> QED
    BY <1>7, <1>8
<1>10. PlaceAll(o, ids) = g[N]
  BY <1>2
<1> HIDE DEF N
<1> QED
  BY <1>9, <1>10 DEF OnlyBetween

-----------------------------------------------------------------------------
(* The order that the merge takes: the author's, with what the current     *)
(* candidate added; or, where that moved blocks, its order, with what it   *)
(* dropped and the author changed put back behind the block above it.      *)

FollowsAuthor(order, author, S) ==
  \A x, y \in Blocks \cap S : Precedes(author.order, x, y) => Precedes(order, x, y)

FollowsCurrent(order, author, cur, S) ==
  /\ \E x, y \in Blocks \cap DOMAIN cur.blocks :
       Section(x) = Section(y) /\ Precedes(cur.order, x, y) /\ Precedes(BaseOrder, y, x)
  /\ \A x, y \in Blocks \cap DOMAIN cur.blocks :
       Precedes(cur.order, x, y) => Precedes(order, x, y)
  /\ \A x \in Blocks \cap S, y \in (Blocks \cap S) \ DOMAIN cur.blocks :
       /\ Precedes(author.order, x, y)
       /\ \A z \in Blocks \cap S : ~ (Precedes(author.order, x, z) /\ Precedes(author.order, z, y))
       => /\ Precedes(order, x, y)
          /\ \A z \in Blocks : ~ (Precedes(order, x, z) /\ Precedes(order, z, y))

\* What the two sides bring to the merge of their orders.
Orderly(author, cur, S, V) ==
  /\ author.order \in Lists(V) /\ cur.order \in Lists(V) /\ Blocks \subseteq V
  /\ ToSet(author.order) = DOMAIN author.blocks /\ ToSet(cur.order) = DOMAIN cur.blocks
  /\ Blocks \subseteq DOMAIN author.blocks /\ DOMAIN cur.blocks \subseteq Blocks \cup Added
  /\ (DOMAIN author.blocks \ Blocks) \cap Added = {}
  /\ DOMAIN cur.blocks \subseteq S /\ DOMAIN author.blocks \ Blocks \subseteq S
  /\ S \subseteq DOMAIN author.blocks \cup DOMAIN cur.blocks
  /\ \A x, y \in Blocks : Precedes(cur.order, x, y) /\ Section(x) # Section(y) =>
       Precedes(BaseOrder, x, y)

\* The exported blocks, each once.
LEMMA BaseIs ==
  /\ BaseOrder \in Seq(Blocks) /\ IsInjective(BaseOrder) /\ ToSet(BaseOrder) = Blocks
  /\ Added \cap Blocks = {}
BY WordBounds, BlocksDiffer DEF Blocks

\* What Only keeps of a list without repetition has none.
LEMMA OnlyOnce ==
  ASSUME NEW V, NEW s \in Lists(V), NEW S
  PROVE  /\ Only(s, S) \in Lists(V) /\ ToSet(Only(s, S)) = ToSet(s) \cap S
         /\ \A x, y : Precedes(Only(s, S), x, y) <=> Precedes(s, x, y) /\ x \in S /\ y \in S
<1>1. s \in Seq(V) /\ IsInjective(s)
  BY DEF Lists
<1> DEFINE l == Only(s, S)
<1>2. /\ l \in Seq(V) /\ \A x : x \in ToSet(l) <=> x \in ToSet(s) /\ x \in S
      /\ \A x, y : Precedes(l, x, y) <=> Precedes(s, x, y) /\ x \in S /\ y \in S
  BY <1>1, OnlyIs
<1> HIDE DEF l
<1>3. \A x : ~ Precedes(l, x, x)
  BY <1>1, <1>2, OnceIs
<1>4. IsInjective(l)
  BY <1>2, <1>3, OnceIs
<1>5. ToSet(l) = ToSet(s) \cap S
  BY <1>2
<1> QED
  BY <1>2, <1>4, <1>5 DEF l, Lists

\* An order with no pair turned round is the exported one.
LEMMA NoSwapNoMove ==
  ASSUME NEW V, NEW s \in Lists(V), Blocks \subseteq V, NEW K \in SUBSET (Blocks \cap ToSet(s)),
         \A x, y \in Blocks : Precedes(s, x, y) /\ Section(x) # Section(y) => Precedes(BaseOrder, x, y),
         \A x, y \in K : ~ (Section(x) = Section(y) /\ Precedes(s, x, y) /\ Precedes(BaseOrder, y, x))
  PROVE  Only(s, K) = Only(BaseOrder, K)
<1>1. BaseOrder \in Lists(V) /\ ToSet(BaseOrder) = Blocks
  <2>1. Seq(Blocks) \subseteq Seq(V)
    BY SeqMonotonic
  <2> QED
    BY <2>1, BaseIs DEF Lists
<1> DEFINE a == Only(s, K)
           b == Only(BaseOrder, K)
<1>2. /\ a \in Lists(V) /\ ToSet(a) = ToSet(s) \cap K
      /\ \A x, y : Precedes(a, x, y) <=> Precedes(s, x, y) /\ x \in K /\ y \in K
  BY OnlyOnce
<1>3. /\ b \in Lists(V) /\ ToSet(b) = Blocks \cap K
      /\ \A x, y : Precedes(b, x, y) <=> Precedes(BaseOrder, x, y) /\ x \in K /\ y \in K
  BY <1>1, OnlyOnce
<1> HIDE DEF a, b
<1>4. ToSet(a) = K /\ ToSet(b) = K
  BY <1>2, <1>3
<1>5. ASSUME NEW x, NEW y, Precedes(a, x, y) PROVE Precedes(b, x, y)
  <2>1. x \in K /\ y \in K /\ Precedes(s, x, y) /\ x \in Blocks /\ y \in Blocks
    BY <1>2, <1>5
  <2>2. x # y
    <3>1. s \in Seq(V) /\ IsInjective(s)
      BY DEF Lists
    <3> QED
      BY <2>1, <3>1, OnceIs
  <2>3. Precedes(BaseOrder, x, y) \/ Precedes(BaseOrder, y, x)
    BY <2>1, <2>2, BaseIs, OneIsFirst
  <2>4. Precedes(BaseOrder, x, y)
    BY <2>1, <2>3
  <2> QED
    BY <1>3, <2>1, <2>4
<1>6. a \in Seq(V) /\ b \in Seq(V) /\ IsInjective(a) /\ IsInjective(b)
  BY <1>2, <1>3 DEF Lists
<1>7. a = b
  BY <1>4, <1>5, <1>6, SameOrder
<1> QED
  BY <1>7 DEF a, b

\* The merged order has the blocks of S, each once, and follows one of the sides.
LEMMA MergedOrder ==
  ASSUME NEW V, NEW author, NEW cur, NEW S, Orderly(author, cur, S, V)
  PROVE  LET order == MergeOrder(author, cur, S).order
         IN  /\ order \in Lists(V) /\ ToSet(order) = S
             /\ \/ FollowsAuthor(order, author, S)
                \/ FollowsCurrent(order, author, cur, S)
<1> DEFINE A == author.order
           C == cur.order
           D == DOMAIN cur.blocks
           K == Blocks \cap S \cap DOMAIN author.blocks \cap D
           first == StartOrder(author, cur, S)
           lc == Only(C, S)
           la == Only(A, S)
           mid == PlaceAll(first, lc)
           order == MergeOrder(author, cur, S).order
           moved == Only(C, K) # Only(BaseOrder, K)
<1>1. /\ A \in Lists(V) /\ C \in Lists(V) /\ Blocks \subseteq V
      /\ ToSet(A) = DOMAIN author.blocks /\ ToSet(C) = D
      /\ Blocks \subseteq ToSet(A) /\ D \subseteq Blocks \cup Added
      /\ (ToSet(A) \ Blocks) \cap Added = {}
      /\ D \subseteq S /\ ToSet(A) \ Blocks \subseteq S /\ S \subseteq ToSet(A) \cup D
      /\ \A x, y \in Blocks : Precedes(C, x, y) /\ Section(x) # Section(y) =>
           Precedes(BaseOrder, x, y)
  BY DEF Orderly
<1>2. K = Blocks \cap D
  BY <1>1
<1>3. order = PlaceAll(mid, la)
  BY DEF MergeOrder
<1>4. first = Only(IF moved THEN C ELSE A, Blocks \cap S)
  BY DEF StartOrder, Common
<1> HIDE DEF A, C, D, K, first, lc, la, mid, order, moved
<1>5. /\ lc \in Lists(V) /\ ToSet(lc) = D
      /\ la \in Lists(V) /\ ToSet(la) = ToSet(A) \cap S
      /\ \A x, y : Precedes(la, x, y) <=> Precedes(A, x, y) /\ x \in S /\ y \in S
  <2>1. /\ Only(C, S) \in Lists(V) /\ ToSet(Only(C, S)) = ToSet(C) \cap S
    BY <1>1, OnlyOnce
  <2>2. /\ Only(A, S) \in Lists(V) /\ ToSet(Only(A, S)) = ToSet(A) \cap S
        /\ \A x, y : Precedes(Only(A, S), x, y) <=> Precedes(A, x, y) /\ x \in S /\ y \in S
    BY <1>1, OnlyOnce
  <2>3. ToSet(C) \cap S = D
    BY <1>1
  <2> QED
    BY <2>1, <2>2, <2>3 DEF lc, la
<1>6. lc \in Seq(V) /\ la \in Seq(V)
  BY <1>5 DEF Lists
<1>7. ASSUME first \in Lists(V)
      PROVE  /\ mid \in Lists(V) /\ ToSet(mid) = ToSet(first) \cup D
             /\ order \in Lists(V) /\ ToSet(order) = ToSet(first) \cup D \cup (ToSet(A) \cap S)
             /\ \A x, y : Precedes(first, x, y) => Precedes(order, x, y)
  <2>1. /\ mid \in Lists(V) /\ ToSet(mid) = ToSet(first) \cup D
        /\ \A x, y : Precedes(first, x, y) => Precedes(mid, x, y)
    BY <1>5, <1>6, <1>7, PlaceAllIs DEF mid
  <2>2. /\ order \in Lists(V) /\ ToSet(order) = ToSet(mid) \cup ToSet(la)
        /\ \A x, y : Precedes(mid, x, y) => Precedes(order, x, y)
    BY <1>3, <1>6, <2>1, PlaceAllIs
  <2> QED
    BY <1>5, <2>1, <2>2
<1>8. CASE ~ moved
  <2>1. first = Only(A, Blocks \cap S)
    BY <1>4, <1>8
  <2>2. /\ first \in Lists(V) /\ ToSet(first) = ToSet(A) \cap (Blocks \cap S)
        /\ \A x, y : Precedes(first, x, y) <=>
             Precedes(A, x, y) /\ x \in Blocks \cap S /\ y \in Blocks \cap S
    BY <1>1, <2>1, OnlyOnce
  <2>3. order \in Lists(V) /\ ToSet(order) = S
    BY <1>1, <1>7, <2>2
  <2>4. FollowsAuthor(order, author, S)
    BY <1>7, <2>2 DEF FollowsAuthor, A
  <2> QED
    BY <2>3, <2>4 DEF order
<1>9. CASE moved
  <2>1. first = Only(C, Blocks \cap S)
    BY <1>4, <1>9
  <2>2. /\ first \in Lists(V) /\ ToSet(first) = Blocks \cap D
        /\ \A x, y : Precedes(first, x, y) <=>
             Precedes(C, x, y) /\ x \in Blocks \cap S /\ y \in Blocks \cap S
    <3>1. /\ first \in Lists(V) /\ ToSet(first) = ToSet(C) \cap (Blocks \cap S)
          /\ \A x, y : Precedes(first, x, y) <=>
               Precedes(C, x, y) /\ x \in Blocks \cap S /\ y \in Blocks \cap S
      BY <1>1, <2>1, OnlyOnce
    <3> QED
      BY <1>1, <3>1
  <2>3. order \in Lists(V) /\ ToSet(order) = S /\ mid \in Lists(V) /\ ToSet(mid) = D
    BY <1>1, <1>7, <2>2
  <2>4. \E x, y \in Blocks \cap D :
          Section(x) = Section(y) /\ Precedes(C, x, y) /\ Precedes(BaseOrder, y, x)
    <3> SUFFICES ASSUME \A x, y \in Blocks \cap D :
                          ~ (Section(x) = Section(y) /\ Precedes(C, x, y) /\ Precedes(BaseOrder, y, x))
                 PROVE  FALSE
      OBVIOUS
    <3>1. Only(C, K) = Only(BaseOrder, K)
      BY <1>1, <1>2, NoSwapNoMove
    <3> QED
      BY <1>9, <3>1 DEF moved
  <2>5. \A x, y \in Blocks \cap D : Precedes(C, x, y) => Precedes(order, x, y)
    BY <1>1, <1>7, <2>2
  <2>6. ASSUME NEW x \in Blocks \cap S, NEW y \in (Blocks \cap S) \ D, Precedes(A, x, y),
               \A z \in Blocks \cap S : ~ (Precedes(A, x, z) /\ Precedes(A, z, y))
        PROVE  /\ Precedes(order, x, y)
               /\ \A z \in Blocks : ~ (Precedes(order, x, z) /\ Precedes(order, z, y))
    <3>1. Precedes(la, x, y)
      BY <1>5, <2>6
    <3>2. PICK p \in DOMAIN la, m \in DOMAIN la : p < m /\ la[p] = x /\ la[m] = y
      BY <3>1 DEF Precedes
    <3>3. /\ Len(la) \in Nat /\ DOMAIN la = 1..Len(la)
          /\ p \in 1..Len(la) /\ m \in 1..Len(la)
      BY <1>6, <3>2, LenProperties
    <3>4. ASSUME NEW k \in (p + 1)..(m - 1)
          PROVE  la[k] \in ToSet(A) \cap S /\ la[k] \notin Blocks
      <4>1. k \in DOMAIN la /\ p < k /\ k < m
        BY <3>3
      <4>2. Precedes(la, x, la[k]) /\ Precedes(la, la[k], y)
        BY <3>2, <3>3, <4>1 DEF Precedes
      <4>3. la[k] \in S /\ Precedes(A, x, la[k]) /\ Precedes(A, la[k], y)
        BY <1>5, <4>2
      <4>4. la[k] \in ToSet(la)
        BY <1>6, <4>2, PrecedesIs
      <4> QED
        BY <1>5, <2>6, <4>3, <4>4
    <3>5. \A k \in (p + 1)..m : la[k] \notin ToSet(mid)
      <4> TAKE k \in (p + 1)..m
      <4>1. CASE k = m
        BY <2>3, <3>2, <4>1
      <4>2. CASE k # m
        <5>1. k \in (p + 1)..(m - 1)
          BY <3>3, <4>2
        <5> QED
          BY <1>1, <2>3, <3>4, <5>1
      <4> QED
        BY <4>1, <4>2
    <3> DEFINE r == PlaceAll(mid, la)
    <3>6. OnlyBetween(r, la, p, m)
      <4>1. mid \in Lists(V) /\ la \in Lists(V) /\ p \in 1..Len(la) /\ m \in 1..Len(la) /\ p < m
        BY <1>5, <2>3, <3>2, <3>3
      <4>2. NewFrom(mid, la, p, m)
        BY <3>5 DEF NewFrom
      <4> QED
        BY <4>1, <4>2, PlacedBehind
    <3> HIDE DEF r
    <3>7. /\ Precedes(r, x, y)
          /\ \A z : Precedes(r, x, z) /\ Precedes(r, z, y) =>
               \E k \in (p + 1)..(m - 1) : la[k] = z
      BY <3>2, <3>6 DEF OnlyBetween
    <3>8. \A z \in Blocks : ~ (Precedes(r, x, z) /\ Precedes(r, z, y))
      BY <3>4, <3>7
    <3>9. r = order
      BY <1>3 DEF r
    <3> QED
      BY <3>7, <3>8, <3>9
  <2>7. FollowsCurrent(order, author, cur, S)
    BY <2>4, <2>5, <2>6 DEF FollowsCurrent, A, C, D
  <2> QED
    BY <2>3, <2>7 DEF order
<1> QED
  BY <1>8, <1>9

-----------------------------------------------------------------------------
(* The current candidate keeps an order: its blocks, each once, and those  *)
(* of different sections as they were exported.                            *)

SectionsInOrder(order) ==
  \A x, y \in Blocks : Precedes(order, x, y) /\ Section(x) # Section(y) => Precedes(BaseOrder, x, y)
CurrentInOrder ==
  /\ current.order \in Lists(Blocks \cup Added) /\ ToSet(current.order) = DOMAIN current.blocks
  /\ SectionsInOrder(current.order)

Turned(s, i) == [[s EXCEPT ![i] = s[i + 1]] EXCEPT ![i + 1] = s[i]]

\* Two neighbours that change places turn only themselves round.
LEMMA TurnedOrder ==
  ASSUME NEW V, NEW s \in Lists(V), NEW i \in DOMAIN s, i + 1 \in DOMAIN s
  PROVE  LET t == Turned(s, i)
         IN  /\ t \in Lists(V) /\ ToSet(t) = ToSet(s)
             /\ \A x, y : Precedes(t, x, y) => Precedes(s, x, y) \/ (x = s[i + 1] /\ y = s[i])
<1> DEFINE t == Turned(s, i)
           n == Len(s)
           j == i + 1
           Turn(k) == IF k = i THEN j ELSE IF k = j THEN i ELSE k
<1>1. s \in Seq(V) /\ IsInjective(s)
  BY DEF Lists
<1>2. /\ n \in Nat /\ DOMAIN s = 1..n /\ s \in [1..n -> V] /\ i \in 1..n /\ j \in 1..n /\ i < j
      /\ \A k, l \in 1..n : s[k] = s[l] => k = l
      /\ \A x : x \in ToSet(s) <=> \E k \in 1..n : s[k] = x
  <2>1. n \in Nat /\ DOMAIN s = 1..n /\ s \in [1..n -> V]
    BY <1>1, LenProperties
  <2>2. i \in 1..n /\ j \in 1..n /\ i < j
    BY <2>1
  <2>3. \A k, l \in 1..n : s[k] = s[l] => k = l
    BY <1>1, <2>1 DEF IsInjective
  <2>4. \A x : x \in ToSet(s) <=> \E k \in 1..n : s[k] = x
    BY <2>1 DEF ToSet
  <2> QED
    BY <2>1, <2>2, <2>3, <2>4
<1>3. /\ \A k \in 1..n : Turn(k) \in 1..n /\ Turn(Turn(k)) = k
      /\ \A k, l \in 1..n : k < l => Turn(k) < Turn(l) \/ (k = i /\ l = j)
  BY <1>2
<1>4. DOMAIN t = 1..n /\ (\A k \in 1..n : t[k] = s[Turn(k)]) /\ t = [k \in 1..n |-> t[k]]
  <2>1. t = [[s EXCEPT ![i] = s[j]] EXCEPT ![j] = s[i]]
    BY DEF Turned
  <2> HIDE DEF n, j, t
  <2>2. DOMAIN t = 1..n
    BY <1>2, <2>1
  <2>3. t[j] = s[i] /\ \A k \in 1..n : k # j => t[k] = [s EXCEPT ![i] = s[j]][k]
    BY <1>2, <2>1
  <2>4. \A k \in 1..n : k # j => t[k] = IF k = i THEN s[j] ELSE s[k]
    BY <1>2, <2>3
  <2>5. i # j
    BY <1>2
  <2>6. t = [k \in 1..n |-> t[k]]
    BY <2>1, <2>2
  <2> QED
    BY <2>2, <2>3, <2>4, <2>5, <2>6
<1> HIDE DEF n, j, Turn, t
<1>5. t \in Seq(V)
  <2>1. \A k \in 1..n : t[k] \in V
    BY <1>2, <1>3, <1>4
  <2>2. t = [k \in 1..n |-> t[k]]
    BY <1>4
  <2>3. [k \in 1..n |-> t[k]] \in Seq(V)
    BY <1>2, <2>1, IsASeq
  <2> QED
    BY <2>2, <2>3
<1>6. IsInjective(t)
  <2>1. ASSUME NEW k \in 1..n, NEW l \in 1..n, t[k] = t[l] PROVE k = l
    <3>1. Turn(k) = Turn(l)
      BY <1>2, <1>3, <1>4, <2>1
    <3> QED
      BY <1>3, <3>1
  <2> QED
    BY <1>4, <2>1 DEF IsInjective
<1>7. ToSet(t) = ToSet(s)
  <2>1. \A x : x \in ToSet(t) <=> \E k \in 1..n : t[k] = x
    BY <1>4 DEF ToSet
  <2>2. ASSUME NEW x PROVE x \in ToSet(t) <=> x \in ToSet(s)
    <3>1. ASSUME NEW k \in 1..n, t[k] = x PROVE x \in ToSet(s)
      BY <1>2, <1>3, <1>4, <3>1
    <3>2. ASSUME NEW k \in 1..n, s[k] = x PROVE x \in ToSet(t)
      <4>1. Turn(k) \in 1..n /\ t[Turn(k)] = s[Turn(Turn(k))] /\ Turn(Turn(k)) = k
        BY <1>3, <1>4
      <4> QED
        BY <2>1, <3>2, <4>1
    <3> QED
      BY <1>2, <2>1, <3>1, <3>2
  <2> QED
    BY <2>2
<1>8. ASSUME NEW x, NEW y, Precedes(t, x, y) PROVE Precedes(s, x, y) \/ (x = s[j] /\ y = s[i])
  <2>1. PICK k \in 1..n, l \in 1..n : k < l /\ t[k] = x /\ t[l] = y
    BY <1>4, <1>8 DEF Precedes
  <2>2. CASE Turn(k) < Turn(l)
    <3>1. Turn(k) \in DOMAIN s /\ Turn(l) \in DOMAIN s /\ s[Turn(k)] = x /\ s[Turn(l)] = y
      BY <1>2, <1>3, <1>4, <2>1
    <3> QED
      BY <2>2, <3>1 DEF Precedes
  <2>3. CASE k = i /\ l = j
    <3>1. Turn(i) = j /\ Turn(j) = i
      BY <1>2 DEF Turn
    <3> QED
      BY <1>2, <1>4, <2>1, <2>3, <3>1
  <2> QED
    BY <1>3, <2>1, <2>2, <2>3
<1> QED
  BY <1>5, <1>6, <1>7, <1>8 DEF Lists, j, t

\* No edit of the candidate takes it out of order.
LEMMA CurrentStaysInOrder ==
  ASSUME CurrentFits, CurrentInOrder, CurrentActs
  PROVE  CurrentInOrder'
<1> DEFINE V == Blocks \cup Added
           o == current.order
           D == DOMAIN current.blocks
<1>1. /\ DOMAIN current = {"order", "blocks", "title", "defined", "shared"} /\ D \subseteq V
      /\ o \in Lists(V) /\ ToSet(o) = D /\ SectionsInOrder(o)
  BY DEF CurrentFits, CurrentInOrder
<1>2. o \in Seq(V) /\ IsInjective(o) /\ Len(o) \in Nat /\ DOMAIN o = 1..Len(o)
  <2>1. o \in Seq(V) /\ IsInjective(o)
    BY <1>1 DEF Lists
  <2> QED
    BY <2>1, LenProperties
<1>3. ASSUME current'.order = o, DOMAIN current'.blocks = D PROVE CurrentInOrder'
  BY <1>1, <1>3 DEF CurrentInOrder, SectionsInOrder
<1>4. ASSUME NEW b \in D, NEW v, current' = SetBlock(b, v) PROVE CurrentInOrder'
  <2>1. current' = [current EXCEPT !.blocks = [current.blocks EXCEPT ![b] = v]]
    BY <1>1, <1>4 DEF SetBlock
  <2>2. current'.order = o /\ DOMAIN current'.blocks = D
    BY <1>1, <2>1
  <2> QED
    BY <1>3, <2>2
<1>5. ASSUME NEW b \in Blocks, NEW e \in CurrentText, CurrentWrites(b, e) PROVE CurrentInOrder'
  BY <1>4, <1>5 DEF CurrentWrites, Has
<1>6. ASSUME NEW b \in Blocks, CurrentRecomputes(b) PROVE CurrentInOrder'
  BY <1>4, <1>6 DEF CurrentRecomputes, Has
<1>7. ASSUME NEW b \in Blocks, NEW f \in {"content", "style"}, CurrentSets(b, f) PROVE CurrentInOrder'
  BY <1>4, <1>7 DEF CurrentSets, Has
<1>8. ASSUME NEW b \in Blocks, CurrentDrops(b) PROVE CurrentInOrder'
  <2> DEFINE L == D \ GoesWith(b)
             t == Only(o, L)
             rest == [x \in L |-> current.blocks[x]]
  <2>1. current' = [current EXCEPT !.order = t, !.blocks = rest]
    BY <1>1, <1>8 DEF CurrentDrops
  <2>2. current'.order = t /\ DOMAIN current'.blocks = L
    BY <1>1, <2>1
  <2> HIDE DEF L, o
  <2>3. /\ t \in Lists(V) /\ ToSet(t) = ToSet(o) \cap L
        /\ \A x, y : Precedes(t, x, y) <=> Precedes(o, x, y) /\ x \in L /\ y \in L
    BY <1>1, OnlyOnce
  <2>4. ToSet(t) = L
    BY <1>1, <2>3 DEF L
  <2> HIDE DEF t
  <2>5. SectionsInOrder(t)
    BY <1>1, <2>3 DEF SectionsInOrder
  <2> QED
    BY <2>2, <2>3, <2>4, <2>5 DEF CurrentInOrder, SectionsInOrder
<1>9. ASSUME NEW i \in DOMAIN o, CurrentSwaps(i) PROVE CurrentInOrder'
  <2> DEFINE t == Turned(o, i)
  <2>1. /\ current' = [current EXCEPT !.order = t] /\ i + 1 \in DOMAIN o
        /\ Section(o[i]) = Section(o[i + 1])
    BY <1>1, <1>9 DEF CurrentSwaps, Turned
  <2>2. current'.order = t /\ DOMAIN current'.blocks = D
    BY <1>1, <2>1
  <2> DEFINE q == o
  <2>3. q \in Lists(V) /\ i \in DOMAIN q /\ i + 1 \in DOMAIN q /\ t = Turned(q, i)
    BY <1>1, <2>1
  <2> HIDE DEF t, q, V
  <2>4. /\ t \in Lists(V) /\ ToSet(t) = ToSet(q)
        /\ \A x, y : Precedes(t, x, y) => Precedes(q, x, y) \/ (x = q[i + 1] /\ y = q[i])
    BY <2>3, TurnedOrder
  <2>5. SectionsInOrder(t)
    BY <1>1, <2>1, <2>4 DEF SectionsInOrder, q
  <2> QED
    BY <1>1, <2>2, <2>4, <2>5 DEF CurrentInOrder, SectionsInOrder, q, V
<1>10. ASSUME NEW i \in DOMAIN o, NEW b \in Added, CurrentAdds(b, i) PROVE CurrentInOrder'
  <2> DEFINE t == InsertAt(o, i + 1, b)
             more == [x \in D \cup {b} |-> IF x = b THEN NewBlock ELSE current.blocks[x]]
  <2>1. current' = [current EXCEPT !.order = t, !.blocks = more] /\ b \notin D
    BY <1>1, <1>10 DEF CurrentAdds, Has
  <2>2. current'.order = t /\ DOMAIN current'.blocks = D \cup {b}
    BY <1>1, <2>1
  <2> DEFINE q == o
  <2>3. q \in Lists(V) /\ q \in Seq(V) /\ i + 1 \in 1..(Len(q) + 1) /\ b \in V /\ b \notin ToSet(q) /\ i + 1 > 1
    BY <1>1, <1>2, <2>1
  <2>4. b \notin Blocks
    BY BaseIs
  <2>5. t = InsertAt(q, i + 1, b)
    OBVIOUS
  <2> HIDE DEF t, q, V, o, D
  <2>6. t \in Seq(V) /\ Inserted(t, q, i + 1, b)
    BY <2>3, <2>5, InsertedIs
  <2>7. /\ t \in Lists(V) /\ ToSet(t) = ToSet(q) \cup {b}
        /\ Behind(t, q, q[(i + 1) - 1], b)
    <3> DEFINE j == i + 1
    <3>1. j > 1 /\ Inserted(t, q, j, b)
      BY <2>3, <2>6
    <3> HIDE DEF j
    <3>2. /\ t \in Lists(V) /\ ToSet(t) = ToSet(q) \cup {b}
          /\ j > 1 => Behind(t, q, q[j - 1], b)
      BY <2>3, <2>6, <3>1, InsertedKeeps
    <3> QED
      BY <3>1, <3>2 DEF j
  <2>8. \A x, y \in Blocks : Precedes(t, x, y) => Precedes(q, x, y)
    BY <2>4, <2>7 DEF Behind
  <2>9. SectionsInOrder(t)
    BY <1>1, <2>8 DEF SectionsInOrder, q
  <2> QED
    BY <1>1, <2>2, <2>7, <2>9 DEF CurrentInOrder, SectionsInOrder, q, V, D
<1>11. ASSUME (\E s \in Sections : CurrentRedefines(s)) \/ CurrentSharesTerms \/ CurrentRetitles
       PROVE  CurrentInOrder'
  <2>1. current'.order = o /\ DOMAIN current'.blocks = D
    BY <1>1, <1>11 DEF CurrentRedefines, CurrentSharesTerms, CurrentRetitles
  <2> QED
    BY <1>3, <2>1
<1> QED
  BY <1>5, <1>6, <1>7, <1>8, <1>9, <1>10, <1>11 DEF CurrentActs

-----------------------------------------------------------------------------
(* The page, read from top to bottom.                                      *)

\* A block has its control on the page exactly once, or it is missing.
LEMMA RecordsAre ==
  ASSUME PageFits
  PROVE  /\ Len(page) \in Nat /\ DOMAIN page = 1..Len(page)
         /\ \A i \in DOMAIN page : page[i].form = "block" => page[i].id \in Blocks
         /\ \A i, j \in DOMAIN page :
              IsRecord(i) /\ page[j].form = "block" /\ page[j].id = page[i].id => i = j
         /\ \A b \in Blocks : Anchored(b) <=> \E i \in DOMAIN page : IsRecord(i) /\ page[i].id = b
<1>1. page \in Seq(Items) /\ Len(page) \in Nat /\ DOMAIN page = 1..Len(page)
  BY LenProperties DEF PageFits
<1>2. \A i \in DOMAIN page : page[i] \in Items
  BY <1>1
<1>3. \A i \in DOMAIN page : \A b : page[i] = Item("block", b) <=> page[i].form = "block" /\ page[i].id = b
  BY <1>2 DEF Items, Item
<1>4. \A i \in DOMAIN page : page[i].form = "block" => page[i].id \in Blocks
  BY <1>2 DEF Items
<1>5. ASSUME NEW b, Anchored(b)
      PROVE  \E i : Copies(b) = {i}
  <2>1. IsFiniteSet(Copies(b))
    <3>1. Copies(b) \subseteq 1..Len(page) /\ IsFiniteSet(1..Len(page))
      BY <1>1, FS_Interval DEF Copies
    <3> QED
      BY <3>1, FS_Subset
  <2> QED
    BY <1>5, <2>1, FS_Singleton DEF Anchored
<1>6. \A i, b : i \in Copies(b) <=> i \in DOMAIN page /\ page[i].form = "block" /\ page[i].id = b
  BY <1>3 DEF Copies
<1>7. ASSUME NEW i \in DOMAIN page, NEW j \in DOMAIN page, IsRecord(i), page[j].form = "block",
             page[j].id = page[i].id
      PROVE  i = j
  <2>1. PICK k : Copies(page[i].id) = {k}
    BY <1>5, <1>7 DEF IsRecord
  <2>2. i \in Copies(page[i].id) /\ j \in Copies(page[i].id)
    BY <1>6, <1>7 DEF IsRecord
  <2> QED
    BY <2>1, <2>2
<1>8. ASSUME NEW b \in Blocks, Anchored(b) PROVE \E i \in DOMAIN page : IsRecord(i) /\ page[i].id = b
  <2>1. PICK k : Copies(b) = {k}
    BY <1>5, <1>8
  <2>2. k \in DOMAIN page /\ page[k].form = "block" /\ page[k].id = b
    BY <1>6, <2>1
  <2> QED
    BY <1>8, <2>2 DEF IsRecord
<1>9. \A b \in Blocks, i \in DOMAIN page : IsRecord(i) /\ page[i].id = b => Anchored(b)
  BY DEF IsRecord
<1> QED
  BY <1>1, <1>4, <1>7, <1>8, <1>9

\* x stands above y on the page, each with its one control.
OnPage(x, y) ==
  \E i, j \in DOMAIN page :
    i < j /\ IsRecord(i) /\ IsRecord(j) /\ page[i].id = x /\ page[j].id = y

\* The exported blocks stand as on the page; the missing ones behind them, as exported.
AsOnPage(order) ==
  \A x, y \in Blocks :
    Precedes(order, x, y) <=>
      OnPage(x, y) \/ (~ Anchored(y) /\ (Anchored(x) \/ Precedes(BaseOrder, x, y)))
MissingTold(conflicts) ==
  \A b \in Blocks :
    Anchored(b) \/ <<"missing_anchor", b>> \in conflicts \/ <<"duplicate_anchor", b>> \in conflicts
FollowsPage(author, conflicts) ==
  /\ author.order \in Lists(DOMAIN author.blocks) /\ ToSet(author.order) = DOMAIN author.blocks
  /\ Blocks \subseteq DOMAIN author.blocks /\ (DOMAIN author.blocks \ Blocks) \cap Added = {}
  /\ AsOnPage(author.order)
  /\ MissingTold(conflicts)

\* The order, the blocks and the conflicts that the reading and the restoring make.
LEMMA ReadingParts ==
  LET kept == {i \in DOMAIN page : IsRecord(i)}
      missing == {b \in Blocks : ~ Anchored(b)}
      loose == {i \in DOMAIN page : Unanchored(i)}
      new == Accepted(kept, missing, loose)
      id == [i \in kept \cup new |-> IF i \in kept THEN page[i].id ELSE NewId(i, kept)]
      places == FromTop(kept \cup new)
      author == Restored(ReadReturn)
  IN  /\ author.order = [k \in DOMAIN places |-> id[places[k]]] \o Only(BaseOrder, missing)
      /\ DOMAIN author.blocks = {id[i] : i \in kept \cup new} \cup Blocks
      /\ MissingTold(ReadReturn.conflicts)
<1> DEFINE kept == {i \in DOMAIN page : IsRecord(i)}
           missing == {b \in Blocks : ~ Anchored(b)}
           loose == {i \in DOMAIN page : Unanchored(i)}
           new == Accepted(kept, missing, loose)
           id == [i \in kept \cup new |-> IF i \in kept THEN page[i].id ELSE NewId(i, kept)]
           places == FromTop(kept \cup new)
           named == {id[i] : i \in kept \cup new}
           ordered == [k \in DOMAIN places |-> id[places[k]]]
           said == ReadConflicts(kept, missing, loose, new)
           author == Restored(ReadReturn)
<1>1. \A b \in missing : <<"missing_anchor", b>> \in said \/ <<"duplicate_anchor", b>> \in said
  <2> HIDE DEF kept, missing, loose, new
  <2> DEFINE lost == {<<IF Copies(b) = {} THEN "missing_anchor" ELSE "duplicate_anchor", b>> : b \in missing}
  <2>1. lost \subseteq said
    BY DEF ReadConflicts
  <2>2. \A b \in missing : <<"missing_anchor", b>> \in lost \/ <<"duplicate_anchor", b>> \in lost
    OBVIOUS
  <2> HIDE DEF lost, said
  <2> QED
    BY <2>1, <2>2
<1>2. /\ ReadReturn.order = ordered /\ ReadReturn.missing = missing /\ DOMAIN ReadReturn.blocks = named
      /\ said \subseteq ReadReturn.conflicts
  <2> HIDE DEF kept, missing, loose, new
  <2>1. ReadReturn = Reading(kept, missing, loose, new)
    BY DEF ReadReturn, kept, missing, loose, new
  <2>2. Reading(kept, missing, loose, new).order = ordered
    BY DEF Reading
  <2>3. Reading(kept, missing, loose, new).missing = missing
    BY DEF Reading
  <2>4. said \subseteq Reading(kept, missing, loose, new).conflicts
    BY DEF Reading
  <2>5. DOMAIN Reading(kept, missing, loose, new).blocks = named
    BY DEF Reading
  <2> QED
    BY <2>1, <2>2, <2>3, <2>4, <2>5
<1>3. MissingTold(ReadReturn.conflicts)
  <2> HIDE DEF said
  <2>1. \A b \in Blocks : Anchored(b) \/ b \in missing
    OBVIOUS
  <2> HIDE DEF missing
  <2> QED
    BY <1>1, <1>2, <2>1 DEF MissingTold
<1> HIDE DEF kept, missing, loose, new, ordered, named, said
<1>4. author.order = ordered \o Only(BaseOrder, missing) /\ DOMAIN author.blocks = named \cup Blocks
  BY <1>2 DEF Restored
<1> QED
  BY <1>3, <1>4 DEF kept, missing, loose, new, ordered, named

\* Every place that is read has a name of its own.
LEMMA NamesOfPlaces ==
  ASSUME PageFits
  PROVE  LET kept == {i \in DOMAIN page : IsRecord(i)}
             loose == {i \in DOMAIN page : Unanchored(i)}
             new == Accepted(kept, {b \in Blocks : ~ Anchored(b)}, loose)
         IN  /\ new \subseteq DOMAIN page /\ kept \cap new = {}
             /\ \A i \in new : NewId(i, kept) \notin Blocks \cup Added
             /\ \A i, j \in new : NewId(i, kept) = NewId(j, kept) => i = j
<1> DEFINE kept == {i \in DOMAIN page : IsRecord(i)}
           missing == {b \in Blocks : ~ Anchored(b)}
           loose == {i \in DOMAIN page : Unanchored(i)}
           new == Accepted(kept, missing, loose)
<1>1. page \in Seq(Items) /\ Len(page) \in Nat /\ DOMAIN page = 1..Len(page)
  BY LenProperties DEF PageFits
<1>2. kept \cap loose = {} /\ loose \in SUBSET DOMAIN page
  BY DEF Unanchored, IsRecord
<1>3. new \subseteq loose
  <2> HIDE DEF kept, missing, loose
  <2> QED
    BY <1>1, <1>2, NewAreAccepted
<1> HIDE DEF kept, missing, loose, new
<1>4. \A i \in new : i \in 1..(Len(BaseOrder) + MaxAuthor)
  <2>1. Len(BaseOrder) \in Nat /\ MaxAuthor \in Nat
    BY WordBounds, LenProperties
  <2>2. Len(page) <= Len(BaseOrder) + MaxAuthor
    BY <1>1, <2>1 DEF PageFits
  <2> QED
    BY <1>1, <1>2, <1>3, <2>1, <2>2
<1>5. \A i : NewId(i, kept)[3] = AuthorName(i)
  BY DEF NewId
<1>6. \A i \in new : NewId(i, kept) \notin Blocks \cup Added
  BY <1>4, <1>5, NamesAreNew DEF Blocks
<1>7. \A i, j \in new : NewId(i, kept) = NewId(j, kept) => i = j
  <2> TAKE i, j \in new
  <2>1. AuthorName(i) = AuthorName(j) => i = j
    BY <1>4, NamesAreNew
  <2> QED
    BY <1>5, <2>1
<1> QED
  BY <1>2, <1>3, <1>6, <1>7 DEF kept, missing, loose, new

\* The reading has the blocks in the order of the page.
LEMMA ReadingOrder ==
  ASSUME PageFits
  PROVE  FollowsPage(Restored(ReadReturn), ReadReturn.conflicts)
<1> DEFINE kept == {i \in DOMAIN page : IsRecord(i)}
           missing == {b \in Blocks : ~ Anchored(b)}
           loose == {i \in DOMAIN page : Unanchored(i)}
           new == Accepted(kept, missing, loose)
           P == kept \cup new
           id == [i \in P |-> IF i \in kept THEN page[i].id ELSE NewId(i, kept)]
           places == FromTop(P)
           named == {id[i] : i \in P}
           ordered == [k \in DOMAIN places |-> id[places[k]]]
           rest == Only(BaseOrder, missing)
           author == Restored(ReadReturn)
           W == named \cup Blocks
<1>1. /\ author.order = ordered \o rest /\ DOMAIN author.blocks = W
      /\ MissingTold(ReadReturn.conflicts)
  BY ReadingParts, Zenon
<1>2. /\ P \in SUBSET DOMAIN page /\ kept \cap new = {}
      /\ \A i \in new : NewId(i, kept) \notin Blocks \cup Added
      /\ \A i, j \in new : NewId(i, kept) = NewId(j, kept) => i = j
  BY NamesOfPlaces
<1>3. /\ \A i \in kept : i \in DOMAIN page /\ IsRecord(i) /\ page[i].id \in Blocks
      /\ \A i \in DOMAIN page : IsRecord(i) => i \in kept
      /\ \A i, j \in kept : page[i].id = page[j].id => i = j
      /\ \A b \in Blocks : b \notin missing <=> \E i \in kept : page[i].id = b
  <2>1. \A i \in DOMAIN page : IsRecord(i) => page[i].form = "block"
    BY DEF IsRecord
  <2> QED
    BY <2>1, RecordsAre
<1>4. missing \subseteq Blocks /\ \A b \in Blocks : b \in missing <=> ~ Anchored(b)
  OBVIOUS
<1> HIDE DEF kept, new, missing
<1>5. /\ \A i \in kept : id[i] = page[i].id
      /\ \A i \in new : id[i] = NewId(i, kept)
      /\ DOMAIN id = P
  BY <1>2
<1>6. \A i, j \in P : id[i] = id[j] => i = j
  BY <1>2, <1>3, <1>5
<1>7. \A b : b \in named <=> \E i \in P : id[i] = b
  OBVIOUS
<1>8. /\ \A b \in Blocks : b \in named <=> b \notin missing
      /\ named \cap Added \subseteq Blocks
  <2>1. ASSUME NEW i \in P PROVE \/ i \in kept /\ id[i] = page[i].id /\ id[i] \in Blocks
                                 \/ id[i] \notin Blocks \cup Added
    <3> HIDE DEF id
    <3> QED
      BY <1>2, <1>3, <1>5
  <2>2. ASSUME NEW i \in kept PROVE i \in P /\ id[i] = page[i].id
    BY <1>5
  <2> HIDE DEF id, P, named
  <2>3. \A b \in Blocks : b \in named <=> \E i \in kept : page[i].id = b
    BY <1>7, <2>1, <2>2
  <2> QED
    BY <1>3, <1>7, <2>1, <2>3
<1>9. /\ places \in Seq(Nat) /\ ToSet(places) = P
      /\ \A i, j : Precedes(places, i, j) <=> i \in P /\ j \in P /\ i < j
  <2> HIDE DEF P
  <2> QED
    BY <1>2, FromTopIs DEF PageFits
<1>10. id \in [ToSet(places) -> named]
  BY <1>5, <1>7, <1>9
<1>11. /\ ordered \in Seq(named) /\ ToSet(ordered) = {id[i] : i \in ToSet(places)}
       /\ \A x, y : Precedes(ordered, x, y) <=> \E u, v : Precedes(places, u, v) /\ id[u] = x /\ id[v] = y
  <2> DEFINE N == Nat
  <2>1. places \in Seq(N)
    BY <1>9
  <2>2. IsMapped(ordered, places, id)
    BY DEF IsMapped
  <2> HIDE DEF N, ordered, id, named, places
  <2> QED
    BY <1>10, <2>1, <2>2, Mapped
<1> HIDE DEF ordered, id, named, places
<1>12. ToSet(ordered) = named
  BY <1>7, <1>9, <1>11
<1>13. \A x, y : Precedes(ordered, x, y) <=> \E u, v \in P : u < v /\ id[u] = x /\ id[v] = y
  BY <1>9, <1>11
<1>14. /\ rest \in Seq(Blocks) /\ ToSet(rest) = missing
       /\ \A x, y : Precedes(rest, x, y) <=> Precedes(BaseOrder, x, y) /\ x \in missing /\ y \in missing
  <2>1. BaseOrder \in Lists(Blocks) /\ ToSet(BaseOrder) = Blocks
    BY BaseIs DEF Lists
  <2>2. /\ rest \in Lists(Blocks) /\ ToSet(rest) = ToSet(BaseOrder) \cap missing
        /\ \A x, y : Precedes(rest, x, y) <=> Precedes(BaseOrder, x, y) /\ x \in missing /\ y \in missing
    BY <2>1, OnlyOnce
  <2> QED
    BY <1>4, <2>1, <2>2 DEF Lists
<1> DEFINE order == ordered \o rest
<1>15. /\ order \in Seq(W) /\ ToSet(order) = named \cup missing
       /\ \A x, y : Precedes(order, x, y) <=>
            \/ Precedes(ordered, x, y) \/ Precedes(rest, x, y)
            \/ x \in named /\ y \in missing
  <2>1. ordered \in Seq(W) /\ rest \in Seq(W)
    <3>1. Seq(named) \subseteq Seq(W) /\ Seq(Blocks) \subseteq Seq(W)
      BY SeqMonotonic
    <3> QED
      BY <1>11, <1>14, <3>1
  <2>2. /\ ordered \o rest \in Seq(W) /\ ToSet(ordered \o rest) = ToSet(ordered) \cup ToSet(rest)
        /\ \A x, y : Precedes(ordered \o rest, x, y) <=>
              \/ Precedes(ordered, x, y) \/ Precedes(rest, x, y)
              \/ x \in ToSet(ordered) /\ y \in ToSet(rest)
    <3> HIDE DEF rest, W
    <3> QED
      BY <2>1, Joined
  <2> QED
    BY <1>12, <1>14, <2>2
<1> HIDE DEF rest, order
<1>16. order \in Lists(W)
  <2> SUFFICES ASSUME NEW x, Precedes(order, x, x) PROVE FALSE
    BY <1>15, OnceIs DEF Lists
  <2>1. ~ Precedes(ordered, x, x)
    <3> SUFFICES ASSUME NEW u \in P, NEW v \in P, u < v, id[u] = x, id[v] = x PROVE FALSE
      BY <1>13
    <3>1. u = v
      BY <1>6
    <3>2. u \in Nat
      BY <1>2, RecordsAre
    <3> QED
      BY <3>1, <3>2
  <2>2. ~ Precedes(rest, x, x)
    BY <1>14, BaseIs, OnceIs
  <2> QED
    BY <1>4, <1>8, <1>15, <2>1, <2>2
<1>17. ToSet(order) = W
  BY <1>4, <1>8, <1>15
<1>18. ASSUME NEW x \in Blocks, NEW y \in Blocks
       PROVE  Precedes(ordered, x, y) <=> OnPage(x, y)
  <2>1. ASSUME NEW u \in P, id[u] \in Blocks PROVE u \in kept /\ id[u] = page[u].id
    BY <1>2, <1>5, <2>1
  <2>2. ASSUME OnPage(x, y) PROVE Precedes(ordered, x, y)
    <3>1. PICK i \in DOMAIN page, j \in DOMAIN page :
            i < j /\ IsRecord(i) /\ IsRecord(j) /\ page[i].id = x /\ page[j].id = y
      BY <2>2 DEF OnPage
    <3>2. i \in kept /\ j \in kept /\ id[i] = x /\ id[j] = y
      BY <1>3, <1>5, <3>1
    <3> QED
      BY <1>13, <3>1, <3>2
  <2>3. ASSUME Precedes(ordered, x, y) PROVE OnPage(x, y)
    <3>1. PICK u \in P, v \in P : u < v /\ id[u] = x /\ id[v] = y
      BY <1>13, <2>3
    <3>2. u \in kept /\ v \in kept /\ page[u].id = x /\ page[v].id = y
      BY <2>1, <3>1
    <3> QED
      BY <1>3, <3>1, <3>2 DEF OnPage
  <2> QED
    BY <2>2, <2>3
<1>19. AsOnPage(order)
  BY <1>4, <1>8, <1>14, <1>15, <1>18 DEF AsOnPage
<1>20. author.order = order /\ DOMAIN author.blocks = W
  BY <1>1 DEF order, rest, ordered, id, named, places
<1>21. (W \ Blocks) \cap Added = {}
  BY <1>8
<1>22. Blocks \subseteq W
  OBVIOUS
<1> HIDE DEF W
<1> QED
  BY <1>1, <1>16, <1>17, <1>19, <1>20, <1>21, <1>22 DEF FollowsPage

-----------------------------------------------------------------------------
(* From the reading to the new candidate.                                  *)

\* The current blocks and the author's new paragraphs are all in the merge.
LEMMA WhoSurvives ==
  ASSUME NEW author, NEW cur, Blocks \subseteq DOMAIN author.blocks,
         author.blocks \in [DOMAIN author.blocks -> BlockValue],
         cur.blocks \in [DOMAIN cur.blocks -> BlockValue]
  PROVE  LET S == DOMAIN MergeBlocks(author, cur).blocks
         IN  /\ S \subseteq DOMAIN author.blocks \cup DOMAIN cur.blocks
             /\ DOMAIN cur.blocks \subseteq S /\ DOMAIN author.blocks \ Blocks \subseteq S
             /\ MergeBlocks(author, cur).order = MergeOrder(author, cur, S).order
<1> DEFINE A == author.blocks
           C == cur.blocks
           Of(id) == MergeOne(id, At(Base, id), At(A, id), At(C, id))
           S == DOMAIN MergeBlocks(author, cur).blocks
<1>1. S = {id \in Blocks \cup DOMAIN A \cup DOMAIN C : Of(id).value # None}
  BY MergedBlocks
<1>2. MergeBlocks(author, cur).order = MergeOrder(author, cur, S).order
  <2> DEFINE left == {m \in MergeEach(author, cur) : m[2].value # None}
             T == {m[1] : m \in left}
  <2>1. MergeBlocks(author, cur).order = MergeOrder(author, cur, T).order
    BY DEF MergeBlocks
  <2>2. S = T
    BY DEF MergeBlocks
  <2> QED
    BY <2>1, <2>2
<1> HIDE DEF S
<1>3. Base \in [Blocks -> BlockValue] /\ None \notin BlockValue /\ \A b \in Blocks : Base[b].text = {}
  BY BlocksAreFit, NoneIsNew DEF Base, BaseBlock
<1>4. ASSUME NEW id
      PROVE  /\ id \in DOMAIN C => Of(id).value # None
             /\ id \in DOMAIN A \ Blocks => Of(id).value # None
  <2> DEFINE b == At(Base, id)
             a == At(A, id)
             c == At(C, id)
             m == Of(id)
  <2>1. /\ b \in BlockValue \cup {None} /\ a \in BlockValue \cup {None} /\ c \in BlockValue \cup {None}
        /\ b # None <=> id \in Blocks
        /\ a # None <=> id \in DOMAIN A
        /\ c # None <=> id \in DOMAIN C
        /\ b # None => a # None /\ b.text = {}
    BY <1>3 DEF At
  <2>2. m = MergeOne(id, b, a, c)
    OBVIOUS
  <2> HIDE DEF a, b, c, Of, m
  <2>3. Keeps(m, id, b, a, c)
    BY <2>1, <2>2, MergedBlock
  <2> QED
    BY <2>1, <2>3 DEF Keeps, m
<1> QED
  BY <1>1, <1>2, <1>4 DEF S, A, C

ReadInOrder == result.status = "read" => FollowsPage(result.author, result.conflicts)

\* The order of the new candidate, of the blocks S, follows one of the sides.
MergedFrom(order, S, author, V) ==
  /\ Orderly(author, current, S, V) /\ AsOnPage(author.order)
  /\ order \in Lists(V) /\ ToSet(order) = S
  /\ FollowsAuthor(order, author, S) \/ FollowsCurrent(order, author, current, S)
ImportFollows ==
  Imported =>
    /\ MissingTold(result.conflicts)
    /\ \E author, V : MergedFrom(result.order, DOMAIN result.blocks, author, V)

\* The order of the new candidate follows one of the sides.
LEMMA MergeFollows ==
  ASSUME CurrentFits, CurrentInOrder, ReadFits, ReadInOrder, MergeAndAssemble
  PROVE  ImportFollows'
<1> DEFINE author == result.author
           merged == MergeBlocks(author, current)
           S == DOMAIN merged.blocks
           V == DOMAIN author.blocks \cup Blocks \cup Added
           conflicts == result.conflicts \cup merged.conflicts \cup ReferenceEdits(author)
           final == Final(merged, {c[2] : c \in conflicts} \ {None})
<1>1. /\ UNCHANGED <<page, current>> /\ Honest(author.blocks, result.conflicts)
      /\ FollowsPage(author, result.conflicts)
  BY DEF MergeAndAssemble, ReadFits, ReadInOrder
<1>2. SUFFICES ASSUME Imported' PROVE ImportFollows'
  BY DEF ImportFollows
<1>3. result'.blocks = final /\ result'.conflicts = conflicts /\ result'.order = merged.order
  BY <1>2 DEF MergeAndAssemble, Imported
<1>4. DOMAIN final = S
  BY DEF Final
<1> HIDE DEF final
<1>5. result.conflicts \subseteq result'.conflicts
  BY <1>3
<1> HIDE DEF conflicts, merged
<1>6. /\ Blocks \subseteq DOMAIN author.blocks /\ author.blocks \in [DOMAIN author.blocks -> BlockValue]
      /\ current.blocks \in [DOMAIN current.blocks -> BlockValue]
      /\ DOMAIN current.blocks \subseteq Blocks \cup Added
  BY <1>1 DEF Honest, CurrentFits
<1>7. /\ S \subseteq DOMAIN author.blocks \cup DOMAIN current.blocks
      /\ DOMAIN current.blocks \subseteq S /\ DOMAIN author.blocks \ Blocks \subseteq S
      /\ merged.order = MergeOrder(author, current, S).order
  BY <1>6, WhoSurvives DEF merged
<1> HIDE DEF S
<1>8. Orderly(author, current, S, V)
  <2>1. /\ author.order \in Lists(DOMAIN author.blocks) /\ ToSet(author.order) = DOMAIN author.blocks
        /\ (DOMAIN author.blocks \ Blocks) \cap Added = {}
    BY <1>1 DEF FollowsPage
  <2>2. /\ current.order \in Lists(Blocks \cup Added) /\ ToSet(current.order) = DOMAIN current.blocks
        /\ \A x, y \in Blocks : Precedes(current.order, x, y) /\ Section(x) # Section(y) =>
             Precedes(BaseOrder, x, y)
    BY DEF CurrentInOrder, SectionsInOrder
  <2>3. author.order \in Lists(V) /\ current.order \in Lists(V)
    <3>1. Seq(DOMAIN author.blocks) \subseteq Seq(V) /\ Seq(Blocks \cup Added) \subseteq Seq(V)
      BY SeqMonotonic
    <3> QED
      BY <2>1, <2>2, <3>1 DEF Lists
  <2> HIDE DEF author
  <2> QED
    BY <1>6, <1>7, <2>1, <2>2, <2>3 DEF Orderly
<1>9. AsOnPage(author.order) /\ MissingTold(result.conflicts)
  BY <1>1 DEF FollowsPage
<1>10. MergedFrom(merged.order, S, author, V)
  <2>1. /\ merged.order \in Lists(V) /\ ToSet(merged.order) = S
        /\ \/ FollowsAuthor(merged.order, author, S)
           \/ FollowsCurrent(merged.order, author, current, S)
    BY <1>7, <1>8, MergedOrder
  <2> QED
    BY <1>8, <1>9, <2>1 DEF MergedFrom
<1>11. MissingTold(result.conflicts)'
  <2>1. \A b : Anchored(b)' = Anchored(b)
    BY <1>1 DEF Anchored, Copies
  <2> QED
    BY <1>5, <1>9, <2>1 DEF MissingTold
<1>12. (\E a, W : MergedFrom(result.order, DOMAIN result.blocks, a, W))'
  <2>1. \A order, T, a, W : MergedFrom(order, T, a, W)' = MergedFrom(order, T, a, W)
    BY <1>1 DEF MergedFrom, Orderly, AsOnPage, OnPage, IsRecord, Anchored, Copies, FollowsCurrent, FollowsAuthor
  <2>2. result'.order = merged.order /\ DOMAIN result'.blocks = S
    BY <1>3, <1>4
  <2>3. \E a, W : MergedFrom(result'.order, DOMAIN result'.blocks, a, W)
    BY <1>10, <2>2
  <2> QED
    BY <2>1, <2>3
<1> QED
  BY <1>11, <1>12 DEF ImportFollows

-----------------------------------------------------------------------------
(* What was merged so is in the order that was intended.                   *)

\* Before has the pairs of a section, in the order of the list.
LEMMA BeforeIs ==
  ASSUME NEW V, NEW s \in Seq(V)
  PROVE  /\ \A p \in Before(s) : p = <<p[1], p[2]>>
         /\ \A x, y : <<x, y>> \in Before(s) <=>
              x \in Blocks /\ y \in Blocks /\ Section(x) = Section(y) /\ Precedes(s, x, y)
<1> DEFINE Q == {q \in (DOMAIN s) \X (DOMAIN s) :
                   /\ q[1] < q[2] /\ s[q[1]] \in Blocks /\ s[q[2]] \in Blocks
                   /\ Section(s[q[1]]) = Section(s[q[2]])}
<1>1. Before(s) = {<<s[p[1]], s[p[2]]>> : p \in Q}
  BY DEF Before
<1>2. \A i, j : <<i, j>> \in Q <=>
        /\ i \in DOMAIN s /\ j \in DOMAIN s /\ i < j /\ s[i] \in Blocks /\ s[j] \in Blocks
        /\ Section(s[i]) = Section(s[j])
  OBVIOUS
<1>3. \A q \in Q : q = <<q[1], q[2]>>
  OBVIOUS
<1> HIDE DEF Q
<1>4. \A p \in Before(s) : p = <<p[1], p[2]>>
  BY <1>1
<1>5. ASSUME NEW x, NEW y, <<x, y>> \in Before(s)
      PROVE  x \in Blocks /\ y \in Blocks /\ Section(x) = Section(y) /\ Precedes(s, x, y)
  <2>1. PICK q \in Q : <<x, y>> = <<s[q[1]], s[q[2]]>>
    BY <1>1, <1>5
  <2>2. /\ q[1] \in DOMAIN s /\ q[2] \in DOMAIN s /\ q[1] < q[2]
        /\ s[q[1]] \in Blocks /\ s[q[2]] \in Blocks /\ Section(s[q[1]]) = Section(s[q[2]])
    BY <1>2, <1>3
  <2>3. x = s[q[1]] /\ y = s[q[2]]
    BY <2>1
  <2> QED
    BY <2>2, <2>3 DEF Precedes
<1>6. ASSUME NEW x \in Blocks, NEW y \in Blocks, Section(x) = Section(y), Precedes(s, x, y)
      PROVE  <<x, y>> \in Before(s)
  <2>1. PICK i \in DOMAIN s, j \in DOMAIN s : i < j /\ s[i] = x /\ s[j] = y
    BY <1>6 DEF Precedes
  <2>2. <<i, j>> \in Q
    BY <1>2, <1>6, <2>1
  <2>3. <<s[<<i, j>>[1]], s[<<i, j>>[2]]>> \in Before(s)
    BY <1>1, <2>2
  <2> QED
    BY <2>1, <2>3
<1> QED
  BY <1>4, <1>5, <1>6

\* Of two exported blocks the one with the smaller index was exported first.
LEMMA BaseIndexIs ==
  ASSUME NEW x \in Blocks, NEW y \in Blocks
  PROVE  BaseIndex[x] < BaseIndex[y] <=> Precedes(BaseOrder, x, y)
<1>1. /\ Len(BaseOrder) \in Nat /\ DOMAIN BaseOrder = 1..Len(BaseOrder)
      /\ \A b \in Blocks : \E i \in DOMAIN BaseOrder : BaseOrder[i] = b
      /\ \A i, j \in DOMAIN BaseOrder : BaseOrder[i] = BaseOrder[j] => i = j
  <2>1. BaseOrder \in Seq(Blocks) /\ IsInjective(BaseOrder) /\ ToSet(BaseOrder) = Blocks
    BY BaseIs
  <2>2. /\ Len(BaseOrder) \in Nat /\ DOMAIN BaseOrder = 1..Len(BaseOrder)
        /\ \A b : b \in ToSet(BaseOrder) <=> \E i \in 1..Len(BaseOrder) : BaseOrder[i] = b
    BY <2>1, ListIs
  <2>3. \A i, j \in DOMAIN BaseOrder : BaseOrder[i] = BaseOrder[j] => i = j
    BY <2>1 DEF IsInjective
  <2> QED
    BY <2>1, <2>2, <2>3
<1>2. \A b \in Blocks : BaseIndex[b] \in DOMAIN BaseOrder /\ BaseOrder[BaseIndex[b]] = b
  <2> TAKE b \in Blocks
  <2>1. BaseIndex[b] = CHOOSE i \in DOMAIN BaseOrder : BaseOrder[i] = b
    BY DEF BaseIndex
  <2>2. \E i \in DOMAIN BaseOrder : BaseOrder[i] = b
    BY <1>1
  <2> QED
    BY <2>1, <2>2
<1>3. \A i \in DOMAIN BaseOrder, b \in Blocks : BaseOrder[i] = b => BaseIndex[b] = i
  BY <1>1, <1>2
<1> QED
  BY <1>2, <1>3 DEF Precedes

\* Swapped has the pairs of a section that stand against the export.
LEMMA SwappedIs ==
  ASSUME NEW V, NEW s \in Seq(V)
  PROVE  /\ \A p \in Swapped(s) : p = <<p[1], p[2]>>
         /\ \A x, y : <<x, y>> \in Swapped(s) <=>
              /\ x \in Blocks /\ y \in Blocks /\ Section(x) = Section(y)
              /\ Precedes(s, x, y) /\ Precedes(BaseOrder, y, x)
<1>1. \A p \in Before(s) : p = <<p[1], p[2]>>
  BY BeforeIs
<1>2. \A x, y : <<x, y>> \in Swapped(s) <=> <<x, y>> \in Before(s) /\ BaseIndex[y] < BaseIndex[x]
  BY DEF Swapped
<1>3. \A p \in Swapped(s) : p \in Before(s)
  BY DEF Swapped
<1> QED
  BY <1>1, <1>2, <1>3, BaseIndexIs, BeforeIs

\* The order of the page, copies included.
LEMMA PageOrderIs ==
  ASSUME PageFits
  PROVE  /\ PageOrder \in Seq(Blocks)
         /\ \A x, y : OnPage(x, y) => Precedes(PageOrder, x, y)
         /\ \A x, y \in Blocks :
              Anchored(x) /\ Anchored(y) /\ Precedes(PageOrder, x, y) => OnPage(x, y)
<1> DEFINE P == {i \in DOMAIN page : page[i].form = "block"}
           id == [i \in P |-> page[i].id]
           places == FromTop(P)
<1>1. \A i \in P : page[i].id \in Blocks
  BY RecordsAre
<1>2. /\ places \in Seq(Nat) /\ ToSet(places) = P
      /\ \A i, j : Precedes(places, i, j) <=> i \in P /\ j \in P /\ i < j
  <2>1. P \in SUBSET DOMAIN page
    OBVIOUS
  <2> HIDE DEF P
  <2> QED
    BY <2>1, FromTopIs DEF PageFits
<1>3. id \in [ToSet(places) -> Blocks]
  BY <1>1, <1>2
<1>4. IsMapped(PageOrder, places, id)
  <2>1. PageOrder = [k \in DOMAIN places |-> page[places[k]].id]
    BY DEF PageOrder
  <2>2. \A k \in DOMAIN places : places[k] \in P
    BY <1>2 DEF ToSet
  <2>3. \A k \in DOMAIN places : page[places[k]].id = id[places[k]]
    BY <2>2
  <2> HIDE DEF places, id, P
  <2> QED
    BY <2>1, <2>3 DEF IsMapped
<1> HIDE DEF places, id
<1>5. /\ PageOrder \in Seq(Blocks)
      /\ \A x, y : Precedes(PageOrder, x, y) <=> \E u, v : Precedes(places, u, v) /\ id[u] = x /\ id[v] = y
  <2> DEFINE N == Nat
  <2>1. places \in Seq(N)
    BY <1>2
  <2> HIDE DEF N
  <2> QED
    BY <1>3, <1>4, <2>1, Mapped
<1>6. \A x, y : Precedes(PageOrder, x, y) <=> \E u, v \in P : u < v /\ page[u].id = x /\ page[v].id = y
  <2>1. \A u \in P : id[u] = page[u].id
    BY DEF id
  <2> HIDE DEF P
  <2> QED
    BY <1>2, <1>5, <2>1
<1>7. \A x, y : OnPage(x, y) => Precedes(PageOrder, x, y)
  BY <1>6 DEF OnPage, IsRecord
<1>8. ASSUME NEW x \in Blocks, NEW y \in Blocks, Anchored(x), Anchored(y), Precedes(PageOrder, x, y)
      PROVE  OnPage(x, y)
  <2>1. PICK u \in P, v \in P : u < v /\ page[u].id = x /\ page[v].id = y
    BY <1>6, <1>8
  <2>2. IsRecord(u) /\ IsRecord(v)
    BY <1>8, <2>1 DEF IsRecord
  <2> QED
    BY <2>1, <2>2 DEF OnPage
<1> QED
  BY <1>5, <1>7, <1>8

\* Two blocks that the new candidate has in some order have it from a side.
LEMMA MovesAre ==
  ASSUME PageFits, Imported, ImportFollows
  PROVE  MovesAreIntended
<1> DEFINE R == result.order
           C == current.order
           S == DOMAIN result.blocks
           D == DOMAIN current.blocks
<1>1. PICK author, V : MergedFrom(R, S, author, V)
  BY DEF ImportFollows
<1> DEFINE A == author.order
<1>2. /\ R \in Seq(V) /\ IsInjective(R) /\ ToSet(R) = S
      /\ C \in Seq(V) /\ IsInjective(C) /\ ToSet(C) = D /\ D \subseteq S
      /\ A \in Seq(V) /\ IsInjective(A) /\ Blocks \subseteq ToSet(A)
  BY <1>1 DEF MergedFrom, Orderly, Lists
<1>3. AsOnPage(A) /\ (FollowsAuthor(R, author, S) \/ FollowsCurrent(R, author, current, S))
  BY <1>1 DEF MergedFrom
<1>4. \A b \in Blocks : Anchored(b) \/ Unplaced(b)
  BY DEF ImportFollows, MissingTold, Unplaced
<1>5. \A p : p \in Swapped(R) \/ p \in Swapped(C) \/ p \in Swapped(PageOrder) => p = <<p[1], p[2]>>
  BY <1>2, PageOrderIs, SwappedIs
<1>6. FollowsCurrent(R, author, current, S) => Swapped(C) # {}
  <2> SUFFICES ASSUME FollowsCurrent(R, author, current, S) PROVE Swapped(C) # {}
    OBVIOUS
  <2>1. PICK x \in Blocks, y \in Blocks :
          Section(x) = Section(y) /\ Precedes(C, x, y) /\ Precedes(BaseOrder, y, x)
    BY DEF FollowsCurrent
  <2>2. <<x, y>> \in Swapped(C)
    BY <1>2, <2>1, SwappedIs
  <2> QED
    BY <2>2
<1> HIDE DEF R, C, S, D, A
<1>7. ASSUME NEW x, NEW y, <<x, y>> \in Swapped(R), (x \in D /\ y \in D) \/ Swapped(C) = {}
      PROVE  <<x, y>> \in Before(C) \/ <<x, y>> \in Before(PageOrder) \/ Unplaced(y)
  <2>1. x \in Blocks /\ y \in Blocks /\ Section(x) = Section(y) /\ Precedes(R, x, y)
    BY <1>2, <1>7, SwappedIs
  <2>2. x \in S /\ y \in S
    BY <1>2, <2>1, PrecedesIs
  <2>3. x # y /\ ~ Precedes(R, y, x)
    BY <1>2, <2>1, OnceIs, OneIsFirst
  <2>4. CASE FollowsAuthor(R, author, S)
    <3>1. ~ Precedes(A, y, x)
      BY <2>1, <2>2, <2>3, <2>4 DEF FollowsAuthor, A
    <3>2. Precedes(A, x, y)
      BY <1>2, <2>1, <2>3, <3>1, OneIsFirst
    <3>3. CASE ~ Anchored(y)
      BY <1>4, <2>1, <3>3
    <3>4. CASE Anchored(y)
      <4>1. OnPage(x, y)
        BY <1>3, <2>1, <3>2, <3>4 DEF AsOnPage
      <4>2. Precedes(PageOrder, x, y)
        BY <4>1, PageOrderIs
      <4>3. <<x, y>> \in Before(PageOrder)
        BY <2>1, <4>2, BeforeIs, PageOrderIs
      <4> QED
        BY <4>3
    <3> QED
      BY <3>3, <3>4
  <2>5. CASE FollowsCurrent(R, author, current, S)
    <3>1. x \in D /\ y \in D
      BY <1>6, <1>7, <2>5
    <3>2. ~ Precedes(C, y, x)
      BY <2>1, <2>3, <2>5, <3>1 DEF FollowsCurrent, C, D
    <3>3. Precedes(C, x, y)
      BY <1>2, <2>3, <3>1, <3>2, OneIsFirst
    <3> QED
      BY <1>2, <2>1, <3>3, BeforeIs
  <2> QED
    BY <1>3, <2>4, <2>5
<1>8. ASSUME Swapped(C) = {}, NEW x, NEW y, <<x, y>> \in Swapped(PageOrder), x \in D, y \in D
      PROVE  <<x, y>> \in Before(R) \/ Unplaced(x) \/ Unplaced(y)
  <2>1. x \in Blocks /\ y \in Blocks /\ Section(x) = Section(y) /\ Precedes(PageOrder, x, y)
    BY <1>8, PageOrderIs, SwappedIs
  <2>2. CASE ~ (Anchored(x) /\ Anchored(y))
    BY <1>4, <2>1, <2>2
  <2>3. CASE Anchored(x) /\ Anchored(y)
    <3>1. OnPage(x, y)
      BY <2>1, <2>3, PageOrderIs
    <3>2. Precedes(A, x, y)
      BY <1>3, <2>1, <3>1 DEF AsOnPage
    <3>3. FollowsAuthor(R, author, S)
      BY <1>3, <1>6, <1>8
    <3>4. Precedes(R, x, y)
      BY <1>2, <1>8, <2>1, <3>2, <3>3 DEF FollowsAuthor, A
    <3> QED
      BY <1>2, <2>1, <3>4, BeforeIs
  <2> QED
    BY <2>2, <2>3
<1>9. ASSUME NEW p \in Swapped(R), InBoth(p) \/ Swapped(C) = {}
      PROVE  p \in Before(C) \cup Before(PageOrder) \/ Unplaced(p[2])
  <2>1. p = <<p[1], p[2]>>
    BY <1>5
  <2>2. InBoth(p) => p[1] \in D /\ p[2] \in D
    BY DEF InBoth, D
  <2> DEFINE x == p[1]
             y == p[2]
  <2>3. <<x, y>> \in Swapped(R) /\ ((x \in D /\ y \in D) \/ Swapped(C) = {})
    BY <1>9, <2>1, <2>2
  <2>4. <<x, y>> \in Before(C) \/ <<x, y>> \in Before(PageOrder) \/ Unplaced(y)
    <3> HIDE DEF x, y
    <3> QED
      BY <1>7, <2>3
  <2> QED
    BY <2>1, <2>4
<1>10. ASSUME Swapped(C) = {}, NEW p \in Swapped(PageOrder), InBoth(p)
       PROVE  p \in Before(R) \/ Unplaced(p[1]) \/ Unplaced(p[2])
  <2>1. p = <<p[1], p[2]>>
    BY <1>5
  <2>2. p[1] \in D /\ p[2] \in D
    BY <1>10 DEF InBoth, D
  <2> DEFINE x == p[1]
             y == p[2]
  <2>3. <<x, y>> \in Swapped(PageOrder) /\ x \in D /\ y \in D
    BY <1>10, <2>1, <2>2
  <2>4. <<x, y>> \in Before(R) \/ Unplaced(x) \/ Unplaced(y)
    <3> HIDE DEF x, y
    <3> QED
      BY <1>8, <1>10, <2>3
  <2> QED
    BY <2>1, <2>4
<1> QED
  BY <1>9, <1>10 DEF MovesAreIntended, R, C

\* Between neighbours on the page the order of the author has no exported block.
LEMMA NoneBetween ==
  ASSUME PageFits, NEW order, AsOnPage(order), NEW S,
         NEW i \in DOMAIN page, NEW j \in DOMAIN page, j < i, IsRecord(i), IsRecord(j),
         \A k \in DOMAIN page : j < k /\ k < i /\ IsRecord(k) => page[k].id \notin S
  PROVE  /\ Precedes(order, page[j].id, page[i].id)
         /\ \A z \in Blocks \cap S : ~ (Precedes(order, page[j].id, z) /\ Precedes(order, z, page[i].id))
<1> DEFINE x == page[j].id
           y == page[i].id
<1>1. x \in Blocks /\ y \in Blocks /\ Anchored(x) /\ Anchored(y)
  BY RecordsAre DEF IsRecord
<1>2. Precedes(order, x, y)
  <2>1. OnPage(x, y)
    BY DEF OnPage
  <2> QED
    BY <1>1, <2>1 DEF AsOnPage
<1> HIDE DEF x, y
<1>3. ASSUME NEW z \in Blocks \cap S, Precedes(order, x, z), Precedes(order, z, y) PROVE FALSE
  <2>1. OnPage(z, y)
    BY <1>1, <1>3 DEF AsOnPage
  <2>2. PICK k \in DOMAIN page, n \in DOMAIN page :
          k < n /\ IsRecord(k) /\ IsRecord(n) /\ page[k].id = z /\ page[n].id = y
    BY <2>1 DEF OnPage
  <2>3. Anchored(z)
    BY <2>2 DEF IsRecord
  <2>4. OnPage(x, z)
    BY <1>1, <1>3, <2>3 DEF AsOnPage
  <2>5. PICK m \in DOMAIN page, l \in DOMAIN page :
          m < l /\ IsRecord(m) /\ IsRecord(l) /\ page[m].id = x /\ page[l].id = z
    BY <2>4 DEF OnPage
  <2>6. \A a, b \in DOMAIN page : IsRecord(a) /\ IsRecord(b) /\ page[a].id = page[b].id => a = b
    BY RecordsAre DEF IsRecord
  <2>7. n = i /\ m = j /\ l = k
    BY <2>2, <2>5, <2>6 DEF x, y
  <2> QED
    BY <2>2, <2>5, <2>7
<1> QED
  BY <1>2, <1>3 DEF x, y

\* Neighbours on the page of which the current candidate dropped the lower one
\* have no exported block between them in the new candidate.
LEMMA DroppedAreThere ==
  ASSUME PageFits, Imported, ImportFollows
  PROVE  DroppedStayInPlace
<1> DEFINE R == result.order
           S == DOMAIN result.blocks
           D == DOMAIN current.blocks
<1>1. PICK author, V : MergedFrom(R, S, author, V)
  BY DEF ImportFollows
<1> DEFINE A == author.order
<1>2. /\ R \in Seq(V) /\ IsInjective(R) /\ ToSet(R) = S
      /\ A \in Seq(V) /\ IsInjective(A) /\ Blocks \subseteq ToSet(A)
  BY <1>1 DEF MergedFrom, Orderly, Lists
<1>3. AsOnPage(A) /\ (FollowsAuthor(R, author, S) \/ FollowsCurrent(R, author, current, S))
  BY <1>1 DEF MergedFrom
<1>4. \A k : Stands(k) <=> IsRecord(k) /\ page[k].id \in S
  BY DEF Stands
<1> HIDE DEF R, S, A
<1>5. ASSUME NEW i \in DOMAIN page, NEW j \in DOMAIN page, page[i].id \notin D, NextAbove(j, i)
      PROVE  LET from == PlaceIn(R, page[j].id)
                 to == PlaceIn(R, page[i].id)
             IN  from < to /\ \A k \in (from + 1)..(to - 1) : R[k] \notin Blocks
  <2> DEFINE x == page[j].id
             y == page[i].id
             from == PlaceIn(R, x)
             to == PlaceIn(R, y)
  <2>1. /\ IsRecord(i) /\ IsRecord(j) /\ j < i
        /\ \A k \in DOMAIN page : j < k /\ k < i /\ IsRecord(k) => page[k].id \notin S
    BY <1>4, <1>5 DEF NextAbove
  <2>2. x \in Blocks \cap S /\ y \in Blocks \cap S /\ y \notin D
    BY <1>4, <1>5, RecordsAre DEF NextAbove, IsRecord
  <2>3. /\ Precedes(A, x, y)
        /\ \A z \in Blocks \cap S : ~ (Precedes(A, x, z) /\ Precedes(A, z, y))
    BY <1>3, <2>1, NoneBetween
  <2> HIDE DEF x, y, from, to, D
  <2>4. Precedes(R, x, y) /\ \A z \in Blocks : ~ (Precedes(R, x, z) /\ Precedes(R, z, y))
    <3>1. CASE FollowsCurrent(R, author, current, S)
      BY <2>2, <2>3, <3>1 DEF FollowsCurrent, A, D
    <3>2. CASE FollowsAuthor(R, author, S)
      <4>1. Precedes(R, x, y)
        BY <2>2, <2>3, <3>2 DEF FollowsAuthor, A
      <4>2. ASSUME NEW z \in Blocks, Precedes(R, x, z), Precedes(R, z, y) PROVE FALSE
        <5>1. z \in S /\ z # x /\ z # y /\ ~ Precedes(R, z, x) /\ ~ Precedes(R, y, z)
          BY <1>2, <4>2, PrecedesIs, OnceIs, OneIsFirst
        <5>2. ~ Precedes(A, z, x) /\ ~ Precedes(A, y, z)
          BY <2>2, <3>2, <5>1 DEF FollowsAuthor, A
        <5>3. Precedes(A, x, z) /\ Precedes(A, z, y)
          BY <1>2, <2>2, <5>1, <5>2, OneIsFirst
        <5> QED
          BY <2>3, <5>1, <5>3
      <4> QED
        BY <4>1, <4>2
    <3> QED
      BY <1>3, <3>1, <3>2
  <2>5. /\ Len(R) \in Nat /\ DOMAIN R = 1..Len(R)
        /\ \A k, l \in DOMAIN R : R[k] = R[l] => k = l
    BY <1>2, LenProperties DEF IsInjective
  <2>6. PICK f \in DOMAIN R, t \in DOMAIN R : f < t /\ R[f] = x /\ R[t] = y
    BY <2>4 DEF Precedes
  <2>7. from = f /\ to = t
    <3>1. R[from] = x /\ from \in DOMAIN R
      BY <2>6 DEF from, PlaceIn
    <3>2. R[to] = y /\ to \in DOMAIN R
      BY <2>6 DEF to, PlaceIn
    <3> QED
      BY <2>5, <2>6, <3>1, <3>2
  <2>8. ASSUME NEW k \in (f + 1)..(t - 1) PROVE R[k] \notin Blocks
    <3>1. k \in DOMAIN R /\ f < k /\ k < t
      BY <2>5
    <3>2. Precedes(R, x, R[k]) /\ Precedes(R, R[k], y)
      BY <2>6, <3>1 DEF Precedes
    <3> QED
      BY <2>4, <3>2
  <2>9. from < to /\ \A k \in (from + 1)..(to - 1) : R[k] \notin Blocks
    BY <2>6, <2>7, <2>8
  <2> QED
    BY <2>9 DEF from, to, x, y
<1> QED
  BY <1>5 DEF DroppedStayInPlace, R

-----------------------------------------------------------------------------
(* The invariant of the order, kept by every step.                         *)

Answers == {"none", "read", "another manuscript", "refused", "merged", "conflicts"}
OInv == IInv /\ CurrentInOrder /\ ReadInOrder /\ ImportFollows /\ result.status \in Answers

\* While nothing has been read, only the order of the current candidate counts.
LEMMA BeforeTheReturn ==
  ASSUME OInv, result.status = "none", UNCHANGED result,
         \/ AuthorCan /\ AuthorActs
         \/ CurrentCan /\ CurrentActs
  PROVE  OInv'
<1>1. IInv'
  BY AuthorKeeps, CurrentKeeps DEF OInv
<1>2. CurrentInOrder'
  <2>1. CASE CurrentActs
    BY <2>1, CurrentStaysInOrder DEF OInv, IInv
  <2>2. CASE AuthorActs
    <3>1. UNCHANGED current
      BY <2>2 DEF AuthorActs, AuthorWrites, AuthorMarks, AuthorSplits, AuthorDeletes, AuthorCopies,
                  AuthorMoves, AuthorTypes, AuthorEdit
    <3> QED
      BY <3>1 DEF OInv, CurrentInOrder, SectionsInOrder
  <2> QED
    BY <2>1, <2>2
<1>3. ReadInOrder' /\ ImportFollows' /\ result'.status \in Answers
  BY DEF ReadInOrder, ImportFollows, Imported, Answers
<1> QED
  BY <1>1, <1>2, <1>3 DEF OInv

\* The reading answers with the blocks in the order of the page.
LEMMA ReadingStaysInOrder ==
  ASSUME OInv, ReadWordReturn
  PROVE  OInv'
<1>1. UNCHANGED <<page, marks, words, current, spent>>
  BY DEF ReadWordReturn
<1>2. IInv' /\ CurrentInOrder'
  BY <1>1, ReadingKeeps DEF OInv, CurrentInOrder, SectionsInOrder
<1>3. result'.status \in {"read", "another manuscript"}
  BY DEF ReadWordReturn
<1>4. ImportFollows' /\ result'.status \in Answers
  BY <1>3 DEF ImportFollows, Imported, Answers
<1>5. ReadInOrder'
  <2> SUFFICES ASSUME result'.status = "read"
               PROVE  FollowsPage(result.author, result.conflicts)'
    BY DEF ReadInOrder
  <2>1. result'.author = Restored(ReadReturn) /\ result'.conflicts = ReadReturn.conflicts
    BY DEF ReadWordReturn
  <2>2. FollowsPage(result'.author, result'.conflicts)
    BY <2>1, ReadingOrder DEF OInv, IInv
  <2>3. \A author, conflicts : FollowsPage(author, conflicts)' = FollowsPage(author, conflicts)
    BY <1>1 DEF FollowsPage, AsOnPage, OnPage, IsRecord, Anchored, Copies, MissingTold
  <2> QED
    BY <2>2, <2>3
<1> QED
  BY <1>2, <1>4, <1>5 DEF OInv

\* The merge answers with an order that follows one of the sides.
LEMMA MergingStaysInOrder ==
  ASSUME OInv, MergeAndAssemble
  PROVE  OInv'
<1>1. UNCHANGED <<page, marks, words, current, spent>>
  BY DEF MergeAndAssemble
<1>2. IInv' /\ CurrentInOrder'
  BY <1>1, MergingKeeps DEF OInv, CurrentInOrder, SectionsInOrder
<1>3. result'.status \in {"refused", "merged", "conflicts"}
  BY DEF MergeAndAssemble
<1>4. ReadInOrder' /\ result'.status \in Answers
  BY <1>3 DEF ReadInOrder, Answers
<1>5. ImportFollows'
  BY MergeFollows DEF OInv, IInv
<1> QED
  BY <1>2, <1>4, <1>5 DEF OInv

\* Every step of the author, of the science and of the import keeps OInv.
THEOREM OrderInvariant == Spec => []OInv
<1>1. ASSUME Init PROVE OInv
  <2>1. IInv /\ result.status = "none"
    BY <1>1, InitFits DEF Init
  <2>2. CurrentInOrder
    <3>1. current.order = BaseOrder /\ current.blocks = Base
      BY <1>1 DEF Init
    <3>2. DOMAIN Base = Blocks
      BY DEF Base
    <3>3. BaseOrder \in Lists(Blocks \cup Added)
      <4>1. Seq(Blocks) \subseteq Seq(Blocks \cup Added)
        BY SeqMonotonic
      <4> QED
        BY <4>1, BaseIs DEF Lists
    <3> QED
      BY <3>1, <3>2, <3>3, BaseIs DEF CurrentInOrder, SectionsInOrder
  <2> QED
    BY <2>1, <2>2 DEF OInv, ReadInOrder, ImportFollows, Imported, Answers
<1>2. ASSUME OInv, [Next]_vars PROVE OInv'
  <2>1. CASE AuthorCan /\ AuthorActs
    <3>1. result.status = "none" /\ UNCHANGED result
      BY <2>1 DEF AuthorCan, AuthorActs, AuthorWrites, AuthorMarks, AuthorSplits, AuthorDeletes,
                  AuthorCopies, AuthorMoves, AuthorTypes, AuthorEdit
    <3> QED
      BY <1>2, <2>1, <3>1, BeforeTheReturn
  <2>2. CASE CurrentCan /\ CurrentActs
    <3>1. result.status = "none" /\ UNCHANGED result
      BY <2>2 DEF CurrentCan, CurrentActs, CurrentWrites, CurrentRecomputes, CurrentSets, CurrentDrops,
                  CurrentSwaps, CurrentAdds, CurrentRedefines, CurrentSharesTerms, CurrentRetitles,
                  CurrentEdit
    <3> QED
      BY <1>2, <2>2, <3>1, BeforeTheReturn
  <2>3. CASE ReadWordReturn
    BY <1>2, <2>3, ReadingStaysInOrder
  <2>4. CASE MergeAndAssemble
    BY <1>2, <2>4, MergingStaysInOrder
  <2>5. CASE UNCHANGED vars
    <3>1. UNCHANGED <<page, current, result>>
      BY <2>5 DEF vars
    <3>2. IInv'
      BY <1>2, <2>5, StutterKeeps DEF OInv
    <3>3. CurrentInOrder' /\ result'.status \in Answers
      BY <1>2, <3>1 DEF OInv, CurrentInOrder, SectionsInOrder
    <3>4. \A author, conflicts : FollowsPage(author, conflicts)' = FollowsPage(author, conflicts)
      BY <3>1 DEF FollowsPage, AsOnPage, OnPage, IsRecord, Anchored, Copies, MissingTold
    <3>5. ReadInOrder'
      BY <1>2, <3>1, <3>4 DEF OInv, ReadInOrder
    <3>6. /\ \A order, T, a, W : MergedFrom(order, T, a, W)' = MergedFrom(order, T, a, W)
          /\ \A conflicts : MissingTold(conflicts)' = MissingTold(conflicts)
      BY <3>1 DEF MergedFrom, Orderly, AsOnPage, OnPage, IsRecord, Anchored, Copies, FollowsCurrent,
                  FollowsAuthor, MissingTold
    <3>7. ImportFollows'
      BY <1>2, <3>1, <3>6 DEF OInv, ImportFollows, Imported
    <3> QED
      BY <3>2, <3>3, <3>5, <3>7 DEF OInv
  <2> QED
    BY <1>2, <2>1, <2>2, <2>3, <2>4, <2>5 DEF Next
<1> QED
  BY <1>1, <1>2, PTL DEF Spec

\* Blocks keep the order they were given (merge_word_blocks, _merge_order): two
\* blocks of a section change places only when the author or the current candidate
\* moved one of them or a missing control is reported, an author's move within a
\* section is kept unless the current candidate moved blocks too, and a block that
\* the current candidate dropped is put back behind the one above it on the page.
THEOREM OrderIsKept == Spec => []OrderIsIntended
<1>1. ASSUME OInv PROVE OrderIsIntended
  <2>1. PageFits /\ ImportFollows
    BY <1>1 DEF OInv, IInv
  <2> QED
    BY <2>1, MovesAre, DroppedAreThere DEF OrderIsIntended
<1> QED
  BY <1>1, OrderInvariant, PTL

\* The types of the variables; the order of the current candidate, and that of the
\* new one, names each of its blocks, the new one each of them once.
THEOREM ReturnTypeCorrect == Spec => []TypeOK
<1>1. ASSUME OInv PROVE TypeOK
  <2>1. /\ marks \in [Blocks -> SUBSET UNION {Marks(b) : b \in Blocks}]
        /\ words \in [Blocks -> SUBSET AuthorText]
    BY <1>1 DEF OInv, IInv, PageFits, MarkNames
  <2>2. ToSet(current.order) = DOMAIN current.blocks
    BY <1>1 DEF OInv, CurrentInOrder
  <2>3. Imported => ToSet(result.order) = DOMAIN result.blocks /\ IsInjective(result.order)
    BY <1>1 DEF OInv, ImportFollows, MergedFrom, Lists
  <2> QED
    BY <1>1, <2>1, <2>2, <2>3 DEF OInv, Answers, TypeOK
<1> QED
  BY <1>1, OrderInvariant, PTL

=============================================================================
