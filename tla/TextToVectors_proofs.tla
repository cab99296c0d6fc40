------------------------ MODULE TextToVectors_proofs ------------------------
(***************************************************************************)
(* Proofs about TextToVectors, for every document, chunk size, overlap,    *)
(* batch size and number of attempts: all that its run checks.             *)
(*                                                                         *)
(* TextInv says where the parser and the chunker are: behind the cursor,   *)
(* everything visible is in a block or a chunk, and each of these is       *)
(* trimmed text that stands where it says.  CallInv says where the calls   *)
(* are.  The recursive definition of the joined pages is taken apart by    *)
(* least counterexamples, as no induction theorem can be applied.          *)
(***************************************************************************)
EXTENDS TextToVectors, FiniteSetTheorems, WellFoundedInduction, SequenceTheorems, TLAPS

-----------------------------------------------------------------------------
(* Sets of positions.                                                      *)

\* The least of some positions is one of them.
LEMMA MinIsLeast ==
  ASSUME NEW S \in SUBSET Nat, S # {}
  PROVE  Min(S) \in S /\ \A y \in S : Min(S) <= y
<1> DEFINE R == {ss \in Nat \X Nat : ss[1] < ss[2]}
<1>1. IsWellFoundedOn(R, Nat)
  BY NatLessThanWellFounded DEF OpToRel
<1> HIDE DEF R
<1>2. PICK x \in S : \A y \in S : ~ (<<y, x>> \in R)
  BY <1>1, WFMin, Zenon
<1>3. \A y \in S : x <= y
  <2> TAKE y \in S
  <2>1. ~ (<<y, x>> \in R)
    BY <1>2
  <2>2. ~ (y < x)
    BY <2>1 DEF R
  <2> QED BY <2>2
<1> QED BY <1>3 DEF Min

\* The greatest of some bounded positions is one of them.
LEMMA MaxIsGreatest ==
  ASSUME NEW S \in SUBSET Nat, S # {}, NEW n \in Nat, \A y \in S : y <= n
  PROVE  Max(S) \in S /\ \A y \in S : Max(S) >= y
<1> DEFINE below == {n - y : y \in S}
<1>1. below \in SUBSET Nat /\ below # {}
  <2>1. \A y \in S : n - y \in Nat
    OBVIOUS
  <2>2. PICK y \in S : TRUE
    OBVIOUS
  <2> QED BY <2>1, <2>2
<1>2. Min(below) \in below /\ \A y \in below : Min(below) <= y
  BY <1>1, MinIsLeast
<1>3. PICK x \in S : Min(below) = n - x
  BY <1>2
<1>4. \A y \in S : x >= y
  <2> TAKE y \in S
  <2>1. n - y \in below
    OBVIOUS
  <2>2. n - x <= n - y
    BY <1>2, <1>3, <2>1
  <2> QED BY <2>2
<1> QED BY <1>4 DEF Max
-----------------------------------------------------------------------------
(* Texts.                                                                  *)

\* The characters, one by one, and among them the only one the code writes itself.
Character == STRING \cup {"\n"}

Text == Seq(Character)

\* A text that is not blank and has no whitespace around it.
Trimmed(text) ==
  text \in Text /\ Len(text) # 0 /\ IsVisible(text[1]) /\ IsVisible(text[Len(text)])

\* A text stands in another one, behind its first `start` characters.
StandsIn(part, text, start) ==
  /\ start \in Nat /\ start + Len(part) <= Len(text)
  /\ \A i \in 1..Len(part) : part[i] = text[start + i]

\* A slice is as long as it says and stands where it was cut.
LEMMA SliceStands ==
  ASSUME NEW text \in Text, NEW from \in Nat, NEW to \in from..Len(text)
  PROVE  /\ Slice(text, from, to) \in Text
         /\ Len(Slice(text, from, to)) = to - from
         /\ StandsIn(Slice(text, from, to), text, from)
<1>1. from + 1 \in 1..(Len(text) + 1) /\ to \in from..Len(text)
  BY DEF Text
<1>2. /\ Slice(text, from, to) \in Seq(Character)
      /\ Len(Slice(text, from, to)) = to - from
      /\ \A i \in 1..(to - from) : Slice(text, from, to)[i] = text[from + i]
  BY <1>1 DEF Slice, Text
<1> QED BY <1>2 DEF StandsIn, Text

\* What stands in a text is a slice of it.
LEMMA StandingIsSlice ==
  ASSUME NEW text \in Text, NEW part \in Text, NEW start \in Nat, StandsIn(part, text, start)
  PROVE  Slice(text, start, start + Len(part)) = part
<1>1. PICK to \in start..Len(text) : to = start + Len(part)
  BY DEF StandsIn, Text
<1> DEFINE slice == Slice(text, start, to)
<1>2. slice \in Text /\ Len(slice) = to - start /\ StandsIn(slice, text, start)
  BY SliceStands
<1> HIDE DEF slice
<1>3. Len(slice) = Len(part)
  BY <1>1, <1>2 DEF Text
<1>4. \A i \in 1..Len(part) : slice[i] = part[i]
  BY <1>2, <1>3 DEF StandsIn
<1>5. slice = part
  BY <1>2, <1>3, <1>4, SeqEqual DEF Text
<1> QED BY <1>1, <1>5 DEF slice

\* What stands in a part of a text stands in the text.
LEMMA StandingComposes ==
  ASSUME NEW text \in Text, NEW part \in Text, NEW word \in Text,
         NEW start \in Nat, NEW offset \in Nat,
         StandsIn(part, text, start), StandsIn(word, part, offset)
  PROVE  StandsIn(word, text, start + offset)
<1>1. Len(text) \in Nat /\ Len(part) \in Nat /\ Len(word) \in Nat
  BY DEF Text
<1>2. start + offset \in Nat /\ start + offset + Len(word) <= Len(text)
  BY <1>1 DEF StandsIn
<1>3. ASSUME NEW i \in 1..Len(word)
      PROVE  word[i] = text[start + offset + i]
  <2>1. offset + i \in 1..Len(part) /\ word[i] = part[offset + i]
    BY <1>1 DEF StandsIn
  <2>2. part[offset + i] = text[start + (offset + i)]
    BY <2>1 DEF StandsIn
  <2>3. start + (offset + i) = start + offset + i
    BY <1>1
  <2> QED BY <2>1, <2>2, <2>3
<1> QED BY <1>2, <1>3 DEF StandsIn

\* Stripping a slice leaves what is between its first and its last visible character.
LEMMA StripKeepsVisible ==
  ASSUME NEW text \in Text, NEW from \in Nat, NEW to \in from..Len(text),
         Visible(text, from, to) # {}
  PROVE  \E first, last \in (from + 1)..to :
           /\ first <= last /\ IsVisible(text[first]) /\ IsVisible(text[last])
           /\ \A i \in (from + 1)..to : IsVisible(text[i]) => i \in first..last
           /\ Lead(text, from, to) = first - 1 - from
           /\ Stripped(text, from, to) = Slice(text, first - 1, last)
<1> DEFINE visible == Visible(text, from, to)
           first == Min(visible)
           last == Max(visible)
<1>1. visible \in SUBSET Nat /\ visible # {} /\ to \in Nat /\ \A y \in visible : y <= to
  BY DEF Visible, Text
<1>2. /\ first \in visible /\ \A y \in visible : first <= y
      /\ last \in visible /\ \A y \in visible : last >= y
  BY <1>1, MinIsLeast, MaxIsGreatest
<1>3. Lead(text, from, to) = first - 1 - from
  BY DEF Lead
<1>4. Stripped(text, from, to) = SubSeq(text, first, last)
  BY DEF Stripped
<1> HIDE DEF first, last
<1>5. first \in (from + 1)..to /\ last \in (from + 1)..to /\ first <= last
  BY <1>2 DEF Visible
<1>6. Stripped(text, from, to) = Slice(text, first - 1, last)
  <2>1. first - 1 + 1 = first
    BY <1>5
  <2> QED BY <1>4, <2>1 DEF Slice
<1>7. IsVisible(text[first]) /\ IsVisible(text[last])
  BY <1>2 DEF Visible
<1>8. \A i \in (from + 1)..to : IsVisible(text[i]) => i \in first..last
  BY <1>2, <1>5 DEF Visible
<1> QED BY <1>3, <1>5, <1>6, <1>7, <1>8

\* ... which is a trimmed text, and stands in the text behind the whitespace.
LEMMA StrippedStands ==
  ASSUME NEW text \in Text, NEW from \in Nat, NEW to \in from..Len(text),
         Visible(text, from, to) # {}
  PROVE  LET part == Stripped(text, from, to)
             start == from + Lead(text, from, to)
         IN /\ Trimmed(part) /\ StandsIn(part, text, start)
            /\ start \in from..(to - 1) /\ start + Len(part) \in (start + 1)..to
            /\ \A i \in (from + 1)..to :
                 IsVisible(text[i]) => start < i /\ i <= start + Len(part)
<1>1. PICK first, last \in (from + 1)..to :
        /\ first <= last /\ IsVisible(text[first]) /\ IsVisible(text[last])
        /\ \A i \in (from + 1)..to : IsVisible(text[i]) => i \in first..last
        /\ Lead(text, from, to) = first - 1 - from
        /\ Stripped(text, from, to) = Slice(text, first - 1, last)
  BY StripKeepsVisible
<1> DEFINE part == Stripped(text, from, to)
           start == from + Lead(text, from, to)
<1>2. Len(text) \in Nat /\ from \in Nat /\ to \in Nat /\ to <= Len(text)
  BY DEF Text
<1>3. first \in Nat /\ last \in Nat /\ from + 1 <= first /\ first <= last /\ last <= to
  BY <1>1, <1>2
<1>4. start = first - 1
  BY <1>1, <1>2, <1>3
<1>5. first - 1 \in Nat /\ last \in (first - 1)..Len(text)
  BY <1>2, <1>3
<1>6. part \in Text /\ Len(part) = last - (first - 1) /\ StandsIn(part, text, first - 1)
  BY <1>1, <1>5, SliceStands
<1> HIDE DEF part, start
<1>7. Trimmed(part)
  <2>1. 1 \in 1..Len(part) /\ Len(part) \in 1..Len(part) /\ Len(part) # 0
    BY <1>3, <1>6
  <2>2. part[1] = text[first - 1 + 1] /\ part[Len(part)] = text[first - 1 + Len(part)]
    BY <1>6, <2>1 DEF StandsIn
  <2>3. first - 1 + 1 = first /\ first - 1 + Len(part) = last
    BY <1>3, <1>6
  <2> QED BY <1>1, <1>6, <2>1, <2>2, <2>3 DEF Trimmed
<1>8. start \in from..(to - 1) /\ start + Len(part) \in (start + 1)..to
  BY <1>2, <1>3, <1>4, <1>6
<1>9. ASSUME NEW i \in (from + 1)..to, IsVisible(text[i])
      PROVE  start < i /\ i <= start + Len(part)
  <2>1. i \in first..last
    BY <1>1, <1>9
  <2> QED BY <2>1, <1>3, <1>4, <1>6
<1> QED BY <1>4, <1>6, <1>7, <1>8, <1>9 DEF part, start

\* Nothing is stripped from a trimmed text.
LEMMA TrimmedIsStripped ==
  ASSUME NEW text, Trimmed(text)
  PROVE  Strip(text) = text
<1>1. text \in Text /\ Len(text) \in Nat /\ Len(text) # 0
  BY DEF Trimmed, Text
<1>2. 1 \in Visible(text, 0, Len(text)) /\ Len(text) \in Visible(text, 0, Len(text))
  BY <1>1 DEF Trimmed, Visible
<1>3. Visible(text, 0, Len(text)) # {} /\ Len(text) \in 0..Len(text) /\ 0 \in Nat
  BY <1>1, <1>2
<1>4. PICK zero \in Nat : zero = 0
  OBVIOUS
<1>5. PICK first, last \in (zero + 1)..Len(text) :
        /\ first <= last
        /\ \A i \in (zero + 1)..Len(text) : IsVisible(text[i]) => i \in first..last
        /\ Stripped(text, zero, Len(text)) = Slice(text, first - 1, last)
  BY <1>1, <1>3, <1>4, StripKeepsVisible
<1>6. 1 \in first..last /\ Len(text) \in first..last
  BY <1>1, <1>4, <1>5 DEF Trimmed
<1>7. first = 1 /\ last = Len(text)
  BY <1>1, <1>4, <1>5, <1>6
<1>8. Strip(text) = SubSeq(text, 1, Len(text))
  BY <1>4, <1>5, <1>7 DEF Strip, Slice
<1> QED BY <1>1, <1>8 DEF Text

\* What is not blank is trimmed by stripping, and what is blank is gone.
LEMMA StripTrims ==
  ASSUME NEW text \in Text
  PROVE  \/ Strip(text) = <<>> /\ \A i \in DOMAIN text : ~IsVisible(text[i])
         \/ /\ Trimmed(Strip(text))
            /\ \E start \in Nat :
                 /\ StandsIn(Strip(text), text, start)
                 /\ \A i \in DOMAIN text :
                      IsVisible(text[i]) => start < i /\ i <= start + Len(Strip(text))
<1>1. DOMAIN text = 1..Len(text) /\ Len(text) \in Nat
  BY DEF Text
<1>2. PICK zero \in Nat : zero = 0
  OBVIOUS
<1>3. Len(text) \in zero..Len(text) /\ (zero + 1)..Len(text) = DOMAIN text
  BY <1>1, <1>2
<1>4. Strip(text) = Stripped(text, zero, Len(text))
  BY <1>2 DEF Strip
<1>5. CASE Visible(text, zero, Len(text)) = {}
  <2>1. Strip(text) = <<>>
    BY <1>4, <1>5 DEF Stripped
  <2>2. \A i \in DOMAIN text : ~IsVisible(text[i])
    BY <1>3, <1>5 DEF Visible
  <2> QED BY <2>1, <2>2
<1>6. CASE Visible(text, zero, Len(text)) # {}
  <2> DEFINE start == zero + Lead(text, zero, Len(text))
  <2>1. /\ Trimmed(Strip(text)) /\ StandsIn(Strip(text), text, start)
        /\ start \in zero..(Len(text) - 1)
        /\ \A i \in (zero + 1)..Len(text) :
             IsVisible(text[i]) => start < i /\ i <= start + Len(Strip(text))
    BY <1>3, <1>4, <1>6, StrippedStands
  <2> HIDE DEF start
  <2>2. start \in Nat
    BY <2>1, <1>1, <1>2
  <2> QED BY <2>1, <2>2, <1>3
<1> QED BY <1>5, <1>6

\* The empty text and the one between two pages.
LEMMA ShortTexts ==
  /\ <<>> \in Text /\ Len(<<>>) = 0
  /\ <<"\n">> \in Text /\ Len(<<"\n">>) = 1 /\ <<"\n">>[1] = "\n"
<1>1. "\n" \in Character
  BY DEF Character
<1>2. <<"\n">> \in [1..1 -> Character]
  BY <1>1
<1>3. <<"\n">> \in Text
  BY <1>2, SeqDef DEF Text
<1> QED BY <1>1, <1>3 DEF Text

\* Two texts put together.
LEMMA TextsJoin ==
  ASSUME NEW one \in Text, NEW two \in Text
  PROVE  /\ one \o two \in Text /\ Len(one \o two) = Len(one) + Len(two)
         /\ \A i \in 1..Len(one) : (one \o two)[i] = one[i]
         /\ \A i \in 1..Len(two) : (one \o two)[Len(one) + i] = two[i]
<1>1. Len(one) \in Nat /\ Len(two) \in Nat
  BY DEF Text
<1>2. /\ one \o two \in Text /\ Len(one \o two) = Len(one) + Len(two)
      /\ \A i \in 1..(Len(one) + Len(two)) :
           (one \o two)[i] = IF i <= Len(one) THEN one[i] ELSE two[i - Len(one)]
  BY ConcatProperties DEF Text
<1>3. ASSUME NEW i \in 1..Len(two)
      PROVE  (one \o two)[Len(one) + i] = two[i]
  <2>1. PICK k \in 1..(Len(one) + Len(two)) : k = Len(one) + i
    BY <1>1
  <2>2. ~ (k <= Len(one)) /\ k - Len(one) = i
    BY <1>1, <2>1
  <2> QED BY <1>2, <2>1, <2>2
<1>4. \A i \in 1..Len(one) : (one \o two)[i] = one[i]
  BY <1>1, <1>2
<1> QED BY <1>2, <1>3, <1>4
-----------------------------------------------------------------------------
(* The inductive invariant of parsing and chunking.                        *)

Span == [text : Text, start : Nat, page : Nat]

TextTypes ==
  /\ document \in Documents /\ settings \in Settings
  /\ stage \in {"parsing", "unreadable", "chunking", "chunked"}
  /\ next \in Nat \ {0} /\ cursor \in Nat /\ unread \in Nat \cup {Finished}
  /\ blocks \in Seq(Span) /\ chunks \in Seq(Span)

\* What has been read of the source.
SoFar ==
  IF document.mime = "text" THEN document.pages[1]
  ELSE Joined(document.pages)[IF stage = "parsing" THEN next - 1 ELSE Len(document.pages)]

\* Where the parser is: behind the cursor, only whitespace was passed over.
ReadingInv ==
  /\ stage \in {"parsing", "unreadable"} => chunks = <<>>
  /\ stage = "parsing" /\ document.mime = "text" =>
       /\ next = 1
       /\ unread # Finished =>
            /\ unread <= Len(SoFar) /\ cursor <= unread
            /\ \A i \in (cursor + 1)..unread : ~IsVisible(SoFar[i])
  /\ stage = "parsing" /\ document.mime = "pdf" =>
       /\ next <= Len(document.pages) + 1
       /\ cursor = IF SoFar = <<>> THEN 0 ELSE Len(SoFar) + 1

\* A block is trimmed text of the source, and a page's block is all the page holds.
IsBlock(block, page, pages, source) ==
  /\ Trimmed(block.text) /\ StandsIn(block.text, source, block.start)
  /\ IF page = 0 THEN block.page = 0
     ELSE block.page \in DOMAIN pages /\ block.text = Strip(pages[block.page])

\* Of what was read, everything visible is in a block.
IsRead(i) ==
  stage = "parsing" /\ document.mime = "text" /\ unread # Finished => i <= unread

BlocksInv ==
  stage # "unreadable" =>
    /\ \A b \in DOMAIN blocks :
         IsBlock(blocks[b], IF document.mime = "text" THEN 0 ELSE 1, document.pages, SoFar)
    /\ \A b \in 1..(Len(blocks) - 1) : EndOf(blocks[b]) <= blocks[b + 1].start
    /\ stage = "parsing" /\ blocks # <<>> => EndOf(blocks[Len(blocks)]) <= cursor
    /\ \A i \in DOMAIN SoFar :
         IsVisible(SoFar[i]) /\ IsRead(i) =>
           \E b \in DOMAIN blocks : blocks[b].start < i /\ i <= EndOf(blocks[b])

\* A chunk is trimmed text of a block, and no longer than a chunk may be.
IsChunk(chunk) ==
  /\ Trimmed(chunk.text) /\ Len(chunk.text) <= settings.size
  /\ \E b \in DOMAIN blocks :
       /\ chunk.page = blocks[b].page /\ chunk.start >= blocks[b].start
       /\ StandsIn(chunk.text, blocks[b].text, chunk.start - blocks[b].start)

\* The cursor is behind this character of a block.
IsCut(b, i) == b < next \/ (b = next /\ i <= cursor)

\* Where ChunksReachFurther holds, the next chunk will reach further than this one.
IsBehind(chunk) ==
  next <= Len(blocks) =>
    /\ chunk.start < blocks[next].start + cursor
    /\ EndOf(chunk) <= blocks[next].start + cursor + settings.overlap
    /\ EndOf(chunk) < EndOf(blocks[next])

ChunksInv ==
  stage \in {"chunking", "chunked"} =>
    /\ next <= Len(blocks) + 1 /\ (stage = "chunked" => next = Len(blocks) + 1)
    /\ next <= Len(blocks) => cursor < Len(blocks[next].text)
    /\ \A i \in DOMAIN chunks : IsChunk(chunks[i])
    /\ \A b \in DOMAIN blocks : \A i \in DOMAIN blocks[b].text :
         IsVisible(blocks[b].text[i]) /\ IsCut(b, i) =>
           \E j \in DOMAIN chunks :
             chunks[j].start < blocks[b].start + i /\ blocks[b].start + i <= EndOf(chunks[j])
    /\ ChunksReachFurther
    /\ settings.overlap <= settings.size \div 4 /\ IsSingleSpaced /\ chunks # <<>> =>
         IsBehind(chunks[Len(chunks)])

TextInv == TextTypes /\ ReadingInv /\ BlocksInv /\ ChunksInv

\* Where the embedding is.
CallInv ==
  /\ call \in {"idle", "posted", "pausing", "raised"} /\ attempt \in Nat
  /\ vectors \in Seq(Nat) /\ Len(vectors) <= Len(chunks)
  /\ stage # "chunked" => call = "idle" /\ vectors = <<>>
  /\ call = "idle" => attempt = 0
  /\ call \in {"posted", "pausing"} => attempt > 0 /\ Len(vectors) < Len(chunks)
  /\ call = "pausing" => attempt < MAX_RETRIES
  /\ RetriesAreSpent
  /\ VectorsAreAligned
-----------------------------------------------------------------------------
(* What a step of the parser does.                                         *)

\* The joined pages are what their definition says.
LEMMA JoinedIsDefined ==
  ASSUME NEW pages \in Seq(Text)
  PROVE  /\ Joined(pages)[0] = <<>>
         /\ \A n \in DOMAIN pages :
              LET page == Strip(pages[n])
                  before == Joined(pages)[n - 1]
              IN Joined(pages)[n] =
                   before \o (IF <<>> \in {before, page} THEN page ELSE <<"\n">> \o page)
<1> DEFINE N == Len(pages)
           Longer(before, page) ==
             before \o (IF <<>> \in {before, page} THEN page ELSE <<"\n">> \o page)
           Step(f, n) == IF n = 0 THEN <<>> ELSE Longer(f[n - 1], Strip(pages[n]))
           IsUpTo(f, m) == f = [n \in 0..m |-> Step(f, n)]
           bad == {m \in 0..N : ~ \E f : IsUpTo(f, m)}
<1> HIDE DEF Longer
<1>1. N \in Nat /\ DOMAIN pages = 1..N
  OBVIOUS
<1>2. bad = {}
  <2> SUFFICES ASSUME bad # {} PROVE FALSE
    OBVIOUS
  <2>1. bad \in SUBSET Nat
    BY <1>1
  <2>2. PICK m \in bad : \A y \in bad : m <= y
    BY <2>1, MinIsLeast
  <2>0. m \in 0..N /\ ~ \E f : IsUpTo(f, m)
    BY <2>2
  <2>3. m # 0
    <3>1. IsUpTo([n \in 0..0 |-> <<>>], 0)
      OBVIOUS
    <3> QED BY <3>1, <2>2
  <2>4. m \in 1..N /\ m - 1 \in 0..N /\ m - 1 \notin bad
    <3>1. m \in Nat /\ m \in 1..N /\ m - 1 \in 0..N /\ ~ (m <= m - 1)
      BY <2>0, <2>3, <1>1
    <3> QED BY <3>1, <2>2
  <2>5. PICK f : IsUpTo(f, m - 1)
    BY <2>4
  <2> DEFINE g == [n \in 0..m |-> IF n = m THEN Longer(f[m - 1], Strip(pages[m])) ELSE f[n]]
  <2>6. ASSUME NEW n \in 0..m PROVE g[n] = Step(g, n)
    <3>1. CASE n = m
      <4>1. g[m - 1] = f[m - 1]
        BY <2>4
      <4> QED BY <3>1, <4>1, <2>4
    <3>2. CASE n # m
      <4>1. n \in 0..(m - 1) /\ f[n] = Step(f, n)
        BY <3>2, <2>4, <2>5
      <4>2. n # 0 => n - 1 \in 0..m /\ n - 1 # m /\ g[n - 1] = f[n - 1]
        BY <4>1, <2>4
      <4> QED BY <3>2, <4>1, <4>2
    <3> QED BY <3>1, <3>2
  <2>7. IsUpTo(g, m)
    BY <2>6
  <2> QED BY <2>7, <2>2
<1>3. \E f : IsUpTo(f, N)
  BY <1>1, <1>2
<1>4. Joined(pages) = CHOOSE f : IsUpTo(f, N)
  BY DEF Joined, Longer
<1>5. IsUpTo(Joined(pages), N)
  BY <1>3, <1>4
<1> HIDE DEF IsUpTo
<1>6. \A n \in 0..N : Joined(pages)[n] = Step(Joined(pages), n)
  BY <1>5 DEF IsUpTo
<1>7. Joined(pages)[0] = <<>>
  BY <1>1, <1>6
<1>8. ASSUME NEW n \in DOMAIN pages
      PROVE  Joined(pages)[n] = Longer(Joined(pages)[n - 1], Strip(pages[n]))
  <2>1. n \in 0..N /\ n # 0
    BY <1>1
  <2> QED BY <2>1, <1>6
<1> QED BY <1>7, <1>8, Zenon DEF Longer

\* A stripped text is a text.
LEMMA StripIsText ==
  ASSUME NEW text \in Text
  PROVE  Strip(text) \in Text
<1>1. CASE Strip(text) = <<>>
  BY <1>1, ShortTexts
<1>2. CASE Trimmed(Strip(text))
  BY <1>2 DEF Trimmed
<1> QED BY <1>1, <1>2, StripTrims

\* A piece is one span, a slice without the whitespace around it, which begins at `offset`.
IsSpanAt(piece, part, offset, text, from, to, start, page) ==
  /\ Visible(text, from, to) # {} /\ piece = <<part>>
  /\ part.page = page /\ part.start = start + (offset - from)
  /\ Trimmed(part.text) /\ StandsIn(part.text, text, offset)
  /\ offset + Len(part.text) \in (offset + 1)..to
  /\ \A i \in (from + 1)..to :
       IsVisible(text[i]) => offset < i /\ i <= offset + Len(part.text)

\* A piece is nothing, of a blank slice, or a slice without the whitespace around it.
IsPiece(piece, text, from, to, start, page) ==
  \/ piece = <<>> /\ \A i \in (from + 1)..to : ~IsVisible(text[i])
  \/ \E part \in Span : \E offset \in from..(to - 1) :
       IsSpanAt(piece, part, offset, text, from, to, start, page)

\* What Piece makes of a slice is nothing or one span, and either way it is all that is visible.
LEMMA PieceHolds ==
  ASSUME NEW text \in Text, NEW from \in Nat, NEW to \in from..Len(text),
         NEW start \in Nat, NEW page \in Nat
  PROVE  IsPiece(Piece(text, from, to, start, page), text, from, to, start, page)
<1>1. CASE Visible(text, from, to) = {}
  BY <1>1 DEF Piece, Visible, IsPiece
<1>2. CASE Visible(text, from, to) # {}
  <2> DEFINE stripped == Stripped(text, from, to)
             offset == from + Lead(text, from, to)
             part == Block(stripped, start + Lead(text, from, to), page)
  <2>1. /\ Trimmed(stripped) /\ StandsIn(stripped, text, offset)
        /\ offset \in from..(to - 1) /\ offset + Len(stripped) \in (offset + 1)..to
        /\ \A i \in (from + 1)..to :
             IsVisible(text[i]) => offset < i /\ i <= offset + Len(stripped)
    BY <1>2, StrippedStands
  <2>2. Lead(text, from, to) \in Nat /\ offset - from = Lead(text, from, to)
    <3>1. PICK first, last \in (from + 1)..to : Lead(text, from, to) = first - 1 - from
      BY <1>2, StripKeepsVisible
    <3> QED BY <3>1 DEF Text
  <2>3. Piece(text, from, to, start, page) = <<part>>
    BY <1>2 DEF Piece
  <2>4. part.text = stripped /\ part.page = page /\ part.start = start + Lead(text, from, to)
    BY DEF Block
  <2> HIDE DEF stripped, offset
  <2>5. stripped \in Text
    BY ONLY <2>1 DEF Trimmed
  <2>6. start + Lead(text, from, to) \in Nat
    BY ONLY <2>2, start \in Nat
  <2>7. part \in Span
    BY ONLY <2>5, <2>6, page \in Nat DEF Span, Block
  <2> HIDE DEF part
  <2> QED BY ONLY <1>2, <2>1, <2>2, <2>3, <2>4, <2>7 DEF IsPiece, IsSpanAt
<1> QED BY <1>1, <1>2

\* A text that follows whitespace is found where it was cut, if it is not blank itself.
LEMMA FindsTheCut ==
  ASSUME NEW text \in Text, NEW at \in Nat, NEW from \in at..Len(text),
         NEW to \in from..Len(text), \A i \in (at + 1)..from : ~IsVisible(text[i])
  PROVE  LET start == Find(text, Slice(text, from, to), at)
         IN start \in at..from /\ (Visible(text, from, to) # {} => start = from)
<1> DEFINE slice == Slice(text, from, to)
           places == Occurrences(text, slice, at, Len(text))
           start == Find(text, slice, at)
<1>1. Len(text) \in Nat /\ from \in Nat /\ to \in Nat
  BY DEF Text
<1>2. slice \in Text /\ Len(slice) = to - from /\ StandsIn(slice, text, from)
  BY <1>1, SliceStands
<1> HIDE DEF slice
<1>3. DOMAIN slice = 1..(to - from)
  BY <1>2 DEF Text
<1>4. from \in places /\ places \in SUBSET Nat
  BY <1>1, <1>2, <1>3 DEF Occurrences, StandsIn
<1>5. start \in places /\ start <= from
  BY <1>4, MinIsLeast DEF Find
<1> HIDE DEF start
<1>6. /\ start \in Nat /\ at <= start /\ start + (to - from) <= Len(text)
      /\ \A k \in 1..(to - from) : text[start + k] = slice[k]
  <2>1. /\ start \in at..(Len(text) - Len(slice))
        /\ \A k \in DOMAIN slice : text[start + k] = slice[k]
    BY ONLY <1>5 DEF Occurrences
  <2>2. start \in Nat /\ at <= start /\ start + (to - from) <= Len(text)
    BY ONLY <1>1, <1>2, <2>1, at \in Nat
  <2> QED BY ONLY <1>3, <2>1, <2>2
<1>7. ASSUME Visible(text, from, to) # {} PROVE start = from
  <2>1. PICK first, last \in (from + 1)..to :
          /\ first <= last /\ IsVisible(text[first]) /\ IsVisible(text[last])
          /\ \A i \in (from + 1)..to : IsVisible(text[i]) => i \in first..last
          /\ Lead(text, from, to) = first - 1 - from
          /\ Stripped(text, from, to) = Slice(text, first - 1, last)
    BY <1>1, <1>7, StripKeepsVisible
  <2>2. PICK k \in 1..(to - from) : first = from + k
    BY <1>1
  <2>3. text[start + k] = text[first]
    BY <1>2, <1>6, <2>2 DEF StandsIn
  <2>4. k \in Nat \ {0} /\ k <= to - from
    BY ONLY <1>1, <2>2
  <2>5. ~(start + k <= from)
    <3>1. SUFFICES ASSUME start + k <= from PROVE FALSE
      OBVIOUS
    <3>2. start + k \in (at + 1)..from
      BY ONLY <1>1, <1>6, <2>4, <3>1, at \in Nat
    <3>3. ~IsVisible(text[start + k])
      BY ONLY <3>2, \A i \in (at + 1)..from : ~IsVisible(text[i])
    <3> QED BY ONLY <2>1, <2>3, <3>3
  <2>6. start + k \in (from + 1)..to
    BY ONLY <1>1, <1>5, <1>6, <2>4, <2>5
  <2>7. first <= start + k
    <3>1. IsVisible(text[start + k])
      BY ONLY <2>1, <2>3
    <3>2. start + k \in first..last
      BY ONLY <2>1, <2>6, <3>1
    <3> QED BY ONLY <2>6, <3>2, <1>1
  <2> QED BY ONLY <1>1, <1>5, <1>6, <2>2, <2>4, <2>7
<1>8. start \in at..from
  BY <1>1, <1>5, <1>6
<1> QED BY <1>7, <1>8 DEF start, slice

\* The first blank line is behind where the parser is, and holds only whitespace.
LEMMA GapIsBlank ==
  ASSUME NEW text \in Text, NEW from \in Nat, BlankLines(text, from) # {}
  PROVE  LET gap == CHOOSE g \in BlankLines(text, from) :
                      \A h \in BlankLines(text, from) : g[1] <= h[1]
         IN /\ gap[1] \in from..Len(text) /\ gap[2] \in (gap[1] + 2)..Len(text)
            /\ \A i \in (gap[1] + 1)..gap[2] : ~IsVisible(text[i])
<1> DEFINE gaps == BlankLines(text, from)
           gap == CHOOSE g \in gaps : \A h \in gaps : g[1] <= h[1]
           firsts == {g[1] : g \in gaps}
<1>1. \A g \in gaps : /\ g[1] \in from..Len(text) /\ g[2] \in from..Len(text)
                      /\ IsBlankLine(text, g[1], g[2])
  BY DEF BlankLines
<1>2. Len(text) \in Nat
  BY DEF Text
<1>3. firsts \in SUBSET Nat /\ firsts # {}
  BY <1>1, <1>2
<1>4. PICK g \in gaps : g[1] = Min(firsts)
  BY <1>3, MinIsLeast
<1>5. \A h \in gaps : g[1] <= h[1]
  BY <1>3, <1>4, MinIsLeast
<1>6. gap \in gaps
  BY <1>5
<1> HIDE DEF gap
<1>7. gap[1] \in from..Len(text) /\ gap[2] \in from..Len(text) /\ IsBlankLine(text, gap[1], gap[2])
  BY <1>1, <1>6
<1>8. gap[2] \in (gap[1] + 2)..Len(text)
  <2>1. gap[2] - gap[1] >= 2
    BY <1>7 DEF IsBlankLine
  <2> QED BY <1>2, <1>7, <2>1
<1>9. ASSUME NEW i \in (gap[1] + 1)..gap[2]
      PROVE  ~IsVisible(text[i])
  <2>1. i = gap[1] + 1 \/ i = gap[2] \/ i \in (gap[1] + 2)..(gap[2] - 1)
    BY <1>2, <1>7
  <2>2. text[i] \in {" ", "\n"}
    BY <2>1, <1>7 DEF IsBlankLine
  <2> QED BY <2>2 DEF IsVisible
<1> QED BY <1>7, <1>8, <1>9 DEF gap

\* The joined pages are texts, by induction: there is no least count of pages for which they are not.
LEMMA JoinedIsText ==
  ASSUME NEW pages \in Seq(Text), NEW n \in 0..Len(pages)
  PROVE  Joined(pages)[n] \in Text
<1> DEFINE bad == {m \in 0..Len(pages) : Joined(pages)[m] \notin Text}
<1>1. Len(pages) \in Nat /\ DOMAIN pages = 1..Len(pages)
  OBVIOUS
<1>2. bad \in SUBSET Nat
  BY <1>1
<1>3. ASSUME bad # {} PROVE FALSE
  <2>1. PICK m \in bad : \A y \in bad : m <= y
    BY <1>2, <1>3, MinIsLeast
  <2>2. m \in 0..Len(pages) /\ Joined(pages)[m] \notin Text
    BY <2>1
  <2>3. m # 0
    BY <2>2, JoinedIsDefined, ShortTexts
  <2>4. m \in DOMAIN pages /\ m - 1 \in 0..Len(pages) /\ ~ (m <= m - 1)
    BY <1>1, <2>2, <2>3
  <2>5. Joined(pages)[m - 1] \in Text
    BY <2>1, <2>4
  <2>6. Strip(pages[m]) \in Text /\ <<"\n">> \in Text
    BY <2>4, StripIsText, ShortTexts
  <2> DEFINE before == Joined(pages)[m - 1]
             page == Strip(pages[m])
  <2>7. Joined(pages)[m] =
          before \o (IF <<>> \in {before, page} THEN page ELSE <<"\n">> \o page)
    BY <1>1, <2>4, JoinedIsDefined
  <2> HIDE DEF before, page
  <2>8. before \in Text /\ page \in Text
    BY <2>5, <2>6 DEF before, page
  <2>9. <<"\n">> \o page \in Text
    BY <2>6, <2>8, TextsJoin
  <2>10. Joined(pages)[m] \in Text
    BY <2>7, <2>8, <2>9, TextsJoin
  <2> QED BY <2>2, <2>10
<1> QED BY <1>3

\* A page without text adds nothing; any other stands behind what was there, and one character.
LEMMA NextPage ==
  ASSUME NEW pages \in Seq(Text), NEW n \in DOMAIN pages
  PROVE  LET before == Joined(pages)[n - 1]
             after == Joined(pages)[n]
             page == Strip(pages[n])
             start == IF before = <<>> THEN 0 ELSE Len(before) + 1
         IN /\ page = <<>> => after = before
            /\ page # <<>> =>
                 /\ StandsIn(page, after, start) /\ Len(after) = start + Len(page)
                 /\ StandsIn(before, after, 0)
                 /\ \A i \in (Len(before) + 1)..start : ~IsVisible(after[i])
<1>1. pages[n] \in Text /\ n - 1 \in 0..Len(pages)
  OBVIOUS
<1> DEFINE before == Joined(pages)[n - 1]
           after == Joined(pages)[n]
           page == Strip(pages[n])
           start == IF before = <<>> THEN 0 ELSE Len(before) + 1
<1>2. before \in Text /\ page \in Text
  BY <1>1, JoinedIsText, StripIsText
<1>3. after = before \o (IF <<>> \in {before, page} THEN page ELSE <<"\n">> \o page)
  BY <1>1, JoinedIsDefined
<1> HIDE DEF before, after, page
<1>4. ASSUME page = <<>> PROVE after = before
  BY <1>2, <1>3, <1>4 DEF Text
<1>5. ASSUME page # <<>>, before = <<>>
      PROVE  /\ StandsIn(page, after, start) /\ Len(after) = start + Len(page)
             /\ StandsIn(before, after, 0)
             /\ \A i \in (Len(before) + 1)..start : ~IsVisible(after[i])
  <2>1. after = page
    BY <1>2, <1>3, <1>5 DEF Text
  <2>2. start = 0 /\ Len(before) = 0 /\ Len(page) \in Nat
    BY <1>2, <1>5 DEF Text
  <2> QED BY <2>1, <2>2 DEF StandsIn
<1>6. ASSUME page # <<>>, before # <<>>
      PROVE  /\ StandsIn(page, after, start) /\ Len(after) = start + Len(page)
             /\ StandsIn(before, after, 0)
             /\ \A i \in (Len(before) + 1)..start : ~IsVisible(after[i])
  <2> DEFINE newline == <<"\n">>
             rest == newline \o page
  <2>1. after = before \o rest
    <3>1. <<>> \notin {before, page}
      BY <1>6
    <3> QED BY <1>3, <3>1
  <2>2. newline \in Text /\ Len(newline) = 1 /\ newline[1] = "\n"
    BY ShortTexts
  <2> HIDE DEF newline
  <2>3. Len(before) \in Nat /\ Len(page) \in Nat
    BY <1>2 DEF Text
  <2>4. /\ rest \in Text /\ Len(rest) = 1 + Len(page) /\ rest[1] = "\n"
        /\ \A i \in 1..Len(page) : rest[1 + i] = page[i]
    <3>1. 1 \in 1..Len(newline)
      BY <2>2
    <3>2. /\ rest \in Text /\ Len(rest) = Len(newline) + Len(page)
          /\ \A i \in 1..Len(newline) : rest[i] = newline[i]
          /\ \A i \in 1..Len(page) : rest[Len(newline) + i] = page[i]
      BY <1>2, <2>2, TextsJoin
    <3> HIDE DEF rest
    <3> QED BY <2>2, <3>1, <3>2
  <2> HIDE DEF rest
  <2>5. /\ after \in Text /\ Len(after) = Len(before) + Len(rest)
        /\ \A i \in 1..Len(before) : after[i] = before[i]
        /\ \A i \in 1..Len(rest) : after[Len(before) + i] = rest[i]
    BY <1>2, <2>1, <2>4, TextsJoin
  <2>6. start = Len(before) + 1 /\ Len(after) = start + Len(page)
    BY <1>6, <2>3, <2>4, <2>5
  <2>7. StandsIn(before, after, 0)
    BY <2>3, <2>4, <2>5 DEF StandsIn
  <2>8. ASSUME NEW i \in 1..Len(page) PROVE page[i] = after[start + i]
    <3>1. 1 + i \in 1..Len(rest) /\ start + i = Len(before) + (1 + i)
      BY <2>3, <2>4, <2>6
    <3> QED BY <2>4, <2>5, <3>1
  <2>9. StandsIn(page, after, start)
    BY <2>3, <2>6, <2>8 DEF StandsIn
  <2>10. after[start] = "\n"
    <3>1. 1 \in 1..Len(rest)
      BY <2>3, <2>4
    <3> QED BY <2>4, <2>5, <2>6, <3>1
  <2>11. \A i \in (Len(before) + 1)..start : ~IsVisible(after[i])
    <3>1. ~IsVisible(after[start])
      BY <2>10 DEF IsVisible
    <3> QED BY <2>3, <2>6, <3>1
  <2> QED BY <2>6, <2>7, <2>9, <2>11
<1> QED BY <1>4, <1>5, <1>6 DEF before, after, page

\* The documents are made of texts.
LEMMA DocumentTypes ==
  ASSUME TextTypes
  PROVE  /\ document.mime \in {"text", "pdf"} /\ document.pages \in Seq(Text)
         /\ document.mime = "text" => 1 \in DOMAIN document.pages /\ document.pages[1] \in Text
         /\ settings.size \in Nat \ {0} /\ settings.overlap \in Nat
         /\ settings.overlap < settings.size
<1>1. /\ document.mime \in {"text", "pdf"} /\ document.pages \in Seq(Seq(STRING))
      /\ document.mime = "text" => Len(document.pages) = 1
  BY DocumentsAssumption DEF TextTypes
<1>2. ASSUME NEW S, NEW T, S \subseteq T, NEW s \in Seq(S)
      PROVE  s \in Seq(T)
  <2>1. s \in [1..Len(s) -> S] /\ Len(s) \in Nat
    BY <1>2
  <2>2. s \in [1..Len(s) -> T]
    BY <1>2, <2>1
  <2> QED BY <2>1, <2>2, SeqDef
<1>3. Seq(STRING) \subseteq Text
  BY <1>2 DEF Text, Character
<1>4. document.pages \in Seq(Text)
  BY <1>1, <1>2, <1>3
<1>5. document.mime = "text" => 1 \in DOMAIN document.pages /\ document.pages[1] \in Text
  BY <1>1, <1>4
<1>6. /\ settings.size \in Nat \ {0} /\ settings.overlap \in Nat
      /\ settings.overlap < settings.size
  BY SettingsAssumption DEF TextTypes
<1> QED BY <1>1, <1>4, <1>5, <1>6

\* What was read is a text.
LEMMA SoFarIsText ==
  ASSUME TextTypes, ReadingInv
  PROVE  SoFar \in Text
<1>1. CASE document.mime = "text"
  BY <1>1, DocumentTypes DEF SoFar
<1>2. CASE document.mime = "pdf"
  <2> DEFINE n == IF stage = "parsing" THEN next - 1 ELSE Len(document.pages)
  <2>1. n \in 0..Len(document.pages)
    BY <1>2, DocumentTypes DEF TextTypes, ReadingInv
  <2> HIDE DEF n
  <2>2. Joined(document.pages)[n] \in Text
    BY <2>1, DocumentTypes, JoinedIsText
  <2>3. SoFar = Joined(document.pages)[n]
    BY <1>2 DEF SoFar, n
  <2> QED BY <2>2, <2>3
<1> QED BY <1>1, <1>2, DocumentTypes

\* One more span at the end of others.
LEMMA SpansAppend ==
  ASSUME NEW spans \in Seq(Span), NEW part \in Span
  PROVE  /\ spans \o <<part>> \in Seq(Span)
         /\ Len(spans \o <<part>>) = Len(spans) + 1
         /\ \A i \in DOMAIN spans :
              i \in DOMAIN (spans \o <<part>>) /\ (spans \o <<part>>)[i] = spans[i]
         /\ Len(spans) + 1 \in DOMAIN (spans \o <<part>>)
         /\ (spans \o <<part>>)[Len(spans) + 1] = part
         /\ \A i \in DOMAIN (spans \o <<part>>) : i \in DOMAIN spans \/ i = Len(spans) + 1
<1> DEFINE one == <<part>>
<1>1. one \in Seq(Span) /\ Len(one) = 1 /\ one[1] = part
  OBVIOUS
<1> HIDE DEF one
<1>2. /\ spans \o one \in Seq(Span) /\ Len(spans \o one) = Len(spans) + 1
      /\ \A i \in 1..(Len(spans) + 1) :
           (spans \o one)[i] = IF i <= Len(spans) THEN spans[i] ELSE one[i - Len(spans)]
  <2>1. /\ spans \o one \in Seq(Span) /\ Len(spans \o one) = Len(spans) + Len(one)
        /\ \A i \in 1..(Len(spans) + Len(one)) :
             (spans \o one)[i] = IF i <= Len(spans) THEN spans[i] ELSE one[i - Len(spans)]
    BY ONLY <1>1, spans \in Seq(Span), ConcatProperties
  <2> QED BY ONLY <1>1, <2>1
<1>3. Len(spans) \in Nat /\ DOMAIN spans = 1..Len(spans)
  OBVIOUS
<1>4. (spans \o one)[Len(spans) + 1] = part
  <2>1. PICK n \in Nat : n = Len(spans) + 1
    BY <1>3
  <2>2. n \in 1..(Len(spans) + 1) /\ ~ (n <= Len(spans)) /\ n - Len(spans) = 1
    BY <1>3, <2>1
  <2> QED BY <1>1, <1>2, <2>1, <2>2
<1>5. \A i \in DOMAIN spans : (spans \o one)[i] = spans[i]
  BY <1>2, <1>3
<1>6. DOMAIN (spans \o one) = 1..(Len(spans) + 1)
  BY <1>2
<1>7. /\ \A i \in DOMAIN spans : i \in DOMAIN (spans \o one)
      /\ Len(spans) + 1 \in DOMAIN (spans \o one)
      /\ \A i \in DOMAIN (spans \o one) : i \in DOMAIN spans \/ i = Len(spans) + 1
  BY <1>3, <1>6
<1> QED BY <1>2, <1>4, <1>5, <1>7 DEF one

\* Nothing is parsed yet.
LEMMA TextStarts ==
  ASSUME TextInit
  PROVE  TextInv
<1>1. TextTypes
  BY DEF TextInit, TextTypes, Finished
<1>2. document.mime \in {"text", "pdf"} /\ document.pages \in Seq(Text)
  BY <1>1, DocumentTypes
<1>3. document.mime = "pdf" => SoFar = <<>>
  <2>1. Joined(document.pages)[0] = <<>>
    BY <1>2, JoinedIsDefined
  <2> QED BY <2>1 DEF TextInit, SoFar
<1>4. document.mime = "text" => SoFar \in Text
  BY <1>1, DocumentTypes DEF SoFar
<1>5. Len(document.pages) \in Nat
  BY <1>2
<1>6. ReadingInv
  BY <1>2, <1>3, <1>4, <1>5 DEF TextInit, ReadingInv, Finished, Text
<1>7. BlocksInv
  <2>1. ASSUME NEW i \in DOMAIN SoFar PROVE ~IsRead(i)
    <3>1. document.mime = "text"
      BY <1>2, <1>3, <2>1
    <3>2. DOMAIN SoFar = 1..Len(SoFar)
      BY <1>4, <3>1 DEF Text
    <3> QED BY <2>1, <3>1, <3>2 DEF TextInit, IsRead, Finished
  <2> QED BY <2>1 DEF TextInit, BlocksInv
<1>8. ChunksInv
  BY DEF TextInit, ChunksInv
<1> QED BY <1>1, <1>6, <1>7, <1>8 DEF TextInv

\* What a round of the paragraph loop reads: the next paragraph, and the gap behind it.
ReadsTo(text, end) ==
  /\ end \in unread..Len(text) /\ cursor' \in cursor..end
  /\ \/ unread' = Finished /\ end = Len(text)
     \/ /\ unread' \in (end + 1)..Len(text)
        /\ \A i \in (end + 1)..unread' : ~IsVisible(text[i])
  /\ \/ blocks' = blocks /\ \A i \in (unread + 1)..end : ~IsVisible(text[i])
     \/ \E part \in Span :
          /\ blocks' = blocks \o <<part>> /\ cursor' = end
          /\ part.page = 0 /\ part.start \in unread..(end - 1)
          /\ Trimmed(part.text) /\ StandsIn(part.text, text, part.start)
          /\ EndOf(part) <= end
          /\ \A i \in (unread + 1)..end : IsVisible(text[i]) => part.start < i /\ i <= EndOf(part)

\* A round of the paragraph loop reads to the next blank line or to the end (text.py).
LEMMA ParseBlockReads ==
  ASSUME TextInv, ParseBlock
  PROVE  \E end \in Nat : ReadsTo(SoFar, end)
<1> DEFINE text == document.pages[1]
           gaps == BlankLines(text, unread)
           gap == CHOOSE g \in gaps : \A h \in gaps : g[1] <= h[1]
           end == IF gaps = {} THEN Len(text) ELSE gap[1]
           start == Find(text, Slice(text, unread, end), cursor)
<1>1. TextTypes /\ ReadingInv /\ stage = "parsing" /\ document.mime = "text" /\ unread # Finished
  BY DEF TextInv, ParseBlock
<1>2. text = SoFar /\ text \in Text /\ unread \in Nat /\ cursor \in Nat
  BY <1>1, DocumentTypes DEF SoFar, TextTypes
<1>3. /\ unread <= Len(text) /\ cursor <= unread /\ Len(text) \in Nat
      /\ \A i \in (cursor + 1)..unread : ~IsVisible(text[i])
  <2>1. /\ unread <= Len(SoFar) /\ cursor <= unread
        /\ \A i \in (cursor + 1)..unread : ~IsVisible(SoFar[i])
    <3>1. stage = "parsing" /\ document.mime = "text" =>
            /\ next = 1
            /\ unread # Finished =>
                 /\ unread <= Len(SoFar) /\ cursor <= unread
                 /\ \A i \in (cursor + 1)..unread : ~IsVisible(SoFar[i])
      BY ONLY <1>1 DEF ReadingInv
    <3> QED BY ONLY <1>1, <3>1
  <2>2. Len(text) \in Nat
    BY ONLY <1>2 DEF Text
  <2> QED BY ONLY <1>2, <2>1, <2>2
<1>4. /\ blocks' = blocks \o Piece(text, unread, end, start, 0)
      /\ cursor' = start + (end - unread)
      /\ unread' = IF gaps = {} THEN Finished ELSE gap[2]
  BY DEF ParseBlock
<1> HIDE DEF text
<1>5. gaps # {} => /\ gap[1] \in unread..Len(text) /\ gap[2] \in (gap[1] + 2)..Len(text)
                   /\ \A i \in (gap[1] + 1)..gap[2] : ~IsVisible(text[i])
  BY <1>2, GapIsBlank
<1> HIDE DEF gap, gaps
<1>6. /\ end \in unread..Len(text)
      /\ \/ unread' = Finished /\ end = Len(text)
         \/ /\ unread' \in (end + 1)..Len(text)
            /\ \A i \in (end + 1)..unread' : ~IsVisible(text[i])
  <2>1. CASE gaps = {}
    BY ONLY <1>2, <1>3, <1>4, <2>1
  <2>2. CASE gaps # {}
    <3>1. end = gap[1] /\ unread' = gap[2]
      BY ONLY <1>4, <2>2
    <3>2. gap[1] \in Nat /\ unread' \in (gap[1] + 1)..Len(text)
      BY ONLY <1>2, <1>3, <1>5, <2>2, <3>1
    <3> HIDE DEF end
    <3> QED BY ONLY <1>5, <2>2, <3>1, <3>2
  <2> QED BY ONLY <2>1, <2>2
<1>7. unread \in cursor..Len(text)
  BY <1>2, <1>3
<1> HIDE DEF end
<1>8. start \in cursor..unread /\ (Visible(text, unread, end) # {} => start = unread)
  BY <1>2, <1>3, <1>6, <1>7, FindsTheCut
<1> HIDE DEF start
<1>9. cursor' \in cursor..end /\ start \in Nat /\ end \in Nat
  BY <1>2, <1>3, <1>4, <1>6, <1>8
<1> DEFINE piece == Piece(text, unread, end, start, 0)
<1>10. IsPiece(piece, text, unread, end, start, 0)
  <2>1. \A page \in Nat :
          IsPiece(Piece(text, unread, end, start, page), text, unread, end, start, page)
    BY <1>2, <1>6, <1>9, PieceHolds
  <2> QED BY <2>1
<1>11. blocks' = blocks \o piece
  BY <1>4
<1> HIDE DEF piece
<1>12. CASE piece = <<>> /\ \A i \in (unread + 1)..end : ~IsVisible(text[i])
  <2>1. blocks' = blocks
    BY <1>1, <1>11, <1>12 DEF TextTypes
  <2> QED BY <1>2, <1>6, <1>9, <1>12, <2>1 DEF ReadsTo
<1>13. CASE \E part \in Span : \E offset \in unread..(end - 1) :
              IsSpanAt(piece, part, offset, text, unread, end, start, 0)
  <2>0. PICK part \in Span, offset \in unread..(end - 1) :
          IsSpanAt(piece, part, offset, text, unread, end, start, 0)
    BY <1>13
  <2>1. /\ Visible(text, unread, end) # {} /\ piece = <<part>>
        /\ part.page = 0 /\ part.start = start + (offset - unread)
        /\ Trimmed(part.text) /\ StandsIn(part.text, text, offset)
        /\ offset + Len(part.text) \in (offset + 1)..end
        /\ \A i \in (unread + 1)..end :
             IsVisible(text[i]) => offset < i /\ i <= offset + Len(part.text)
    BY ONLY <2>0 DEF IsSpanAt
  <2>2. start = unread /\ part.start = offset /\ cursor' = end
    BY <1>2, <1>4, <1>8, <1>9, <2>1
  <2>3. EndOf(part) = offset + Len(part.text) /\ EndOf(part) <= end
    BY <1>9, <2>1, <2>2 DEF EndOf
  <2>4. blocks' = blocks \o <<part>>
    BY <1>11, <2>1
  <2>5. \A i \in (unread + 1)..end : IsVisible(text[i]) => part.start < i /\ i <= EndOf(part)
    BY <2>1, <2>2, <2>3
  <2>6. part.start \in unread..(end - 1) /\ StandsIn(part.text, text, part.start)
    BY ONLY <2>1, <2>2, offset \in unread..(end - 1)
  <2>7. part \in Span /\ part.page = 0 /\ Trimmed(part.text)
    BY <2>1
  <2>8. ReadsTo(text, end)
    BY ONLY <1>6, <1>9, <2>2, <2>3, <2>4, <2>5, <2>6, <2>7 DEF ReadsTo
  <2> QED BY ONLY <1>2, <1>9, <2>8
<1> QED BY ONLY <1>10, <1>12, <1>13 DEF IsPiece

\* Nothing visible is passed over between two paragraphs.
LEMMA ParseBlockInv ==
  ASSUME TextInv, ParseBlock
  PROVE  TextInv'
<1>1. PICK end \in Nat : ReadsTo(SoFar, end)
  BY ParseBlockReads
<1>2. /\ TextTypes /\ ReadingInv /\ BlocksInv /\ stage = "parsing" /\ document.mime = "text"
      /\ unread # Finished /\ unread \in Nat /\ cursor \in Nat /\ chunks = <<>>
      /\ blocks \in Seq(Span) /\ next = 1
  BY DEF TextInv, ParseBlock, TextTypes, ReadingInv
<1>3. UNCHANGED <<document, settings, stage, next, chunks>>
  BY DEF ParseBlock
<1>4. SoFar' = SoFar
  BY <1>2, <1>3 DEF SoFar
<1>14. SoFar \in Text /\ Len(SoFar) \in Nat /\ \A i : i \in DOMAIN SoFar <=> i \in 1..Len(SoFar)
  BY <1>2, SoFarIsText DEF Text
<1>15. cursor \in Nat /\ unread \in Nat
  BY <1>2
<1>16. end \in unread..Len(SoFar) /\ cursor' \in cursor..end
  BY <1>1 DEF ReadsTo
<1>5. /\ \/ unread' = Finished /\ end = Len(SoFar)
         \/ /\ unread' \in end..Len(SoFar)
            /\ \A i \in (end + 1)..unread' : ~IsVisible(SoFar[i])
  BY <1>1 DEF ReadsTo
<1>6. /\ unread <= Len(SoFar) /\ cursor <= unread
      /\ \A i \in (cursor + 1)..unread : ~IsVisible(SoFar[i])
  BY <1>2 DEF ReadingInv
<1>7. /\ \A b \in DOMAIN blocks : IsBlock(blocks[b], 0, document.pages, SoFar)
      /\ \A b \in 1..(Len(blocks) - 1) : EndOf(blocks[b]) <= blocks[b + 1].start
      /\ blocks # <<>> => EndOf(blocks[Len(blocks)]) <= cursor
      /\ \A i \in 1..unread : IsVisible(SoFar[i]) =>
           \E b \in DOMAIN blocks : blocks[b].start < i /\ i <= EndOf(blocks[b])
  BY <1>2, <1>4, <1>14, <1>6 DEF BlocksInv, IsRead
<1>8. /\ end \in Nat /\ cursor' \in Nat /\ cursor' <= end /\ cursor <= cursor'
      /\ unread <= end /\ end <= Len(SoFar)
      /\ unread' # Finished =>
           /\ unread' \in Nat /\ end <= unread' /\ unread' <= Len(SoFar)
           /\ \A i \in (end + 1)..unread' : ~IsVisible(SoFar[i])
  <2>1. /\ end \in Nat /\ cursor' \in Nat /\ cursor' <= end /\ cursor <= cursor'
        /\ unread <= end /\ end <= Len(SoFar)
    BY <1>15, <1>14, <1>16
  <2>2. ASSUME unread' # Finished
        PROVE  /\ unread' \in end..Len(SoFar)
               /\ \A i \in (end + 1)..unread' : ~IsVisible(SoFar[i])
    BY <1>5, <2>2
  <2>3. unread' # Finished => unread' \in Nat /\ end <= unread' /\ unread' <= Len(SoFar)
    BY <1>14, <2>1, <2>2
  <2> QED BY <2>1, <2>2, <2>3
<1>9. /\ unread' \in Nat \cup {Finished}
      /\ \A i \in DOMAIN SoFar : IsRead(i)' /\ i > end => ~IsVisible(SoFar[i])
  <2>1. unread' = Finished => end = Len(SoFar)
    <3>1. ASSUME unread' = Finished, unread' \in end..Len(SoFar) PROVE FALSE
      BY <1>14, <1>8, <3>1 DEF Finished
    <3> QED BY <1>5, <3>1
  <2>2. ASSUME NEW i \in DOMAIN SoFar, IsRead(i)', i > end
        PROVE  ~IsVisible(SoFar[i])
    <3>1. unread' # Finished /\ i <= unread'
      <4>1. unread' # Finished
        BY <1>14, <1>8, <2>1, <2>2
      <4>2. stage' = "parsing" /\ document'.mime = "text"
        BY <1>2, <1>3
      <4> QED BY <2>2, <4>1, <4>2 DEF IsRead
    <3> QED BY <1>14, <1>8, <2>2, <3>1
  <2> QED BY <1>8, <2>2
<1>10. CASE /\ blocks' = blocks
            /\ \A i \in (unread + 1)..end : ~IsVisible(SoFar[i])
  <2>1. TextTypes'
    BY <1>2, <1>3, <1>8, <1>9, <1>10 DEF TextTypes
  <2>2. unread' # Finished => /\ unread' <= Len(SoFar) /\ cursor' <= unread'
                              /\ \A i \in (cursor' + 1)..unread' : ~IsVisible(SoFar[i])
    <3>1. ASSUME unread' # Finished, NEW i \in Nat, i > cursor', i <= unread'
          PROVE  ~IsVisible(SoFar[i])
      <4>1. unread' \in Nat /\ cursor' \in Nat
        BY <1>8, <3>1
      <4>2. i \in (cursor + 1)..unread \/ i \in (unread + 1)..end \/ i \in (end + 1)..unread'
        <5>1. end \in Nat /\ cursor' \in Nat /\ cursor <= cursor' /\ unread <= end
          BY <1>8
        <5> QED BY <1>15, <3>1, <4>1, <5>1
      <4> QED BY <1>6, <1>8, <1>10, <3>1, <4>2
    <3>2. unread' # Finished => unread' <= Len(SoFar) /\ cursor' <= unread'
      <4>1. ASSUME unread' # Finished PROVE unread' \in Nat /\ end <= unread' /\ unread' <= Len(SoFar)
        BY <1>8, <4>1
      <4>2. end \in Nat /\ cursor' \in Nat /\ cursor' <= end
        BY <1>8
      <4> QED BY <4>1, <4>2
    <3>3. ASSUME unread' # Finished
          PROVE  \A i \in (cursor' + 1)..unread' : ~IsVisible(SoFar[i])
      <4>1. unread' \in Nat /\ cursor' \in Nat
        BY <1>8, <3>3
      <4>2. PICK at \in Nat, stop \in Nat : at = cursor' /\ stop = unread'
        BY <4>1
      <4>3. \A i \in (at + 1)..stop : ~IsVisible(SoFar[i])
        <5> TAKE i \in (at + 1)..stop
        <5>1. i \in Nat /\ i > at /\ i <= stop
          OBVIOUS
        <5> QED BY <3>1, <3>3, <4>2, <5>1
      <4> QED BY <4>2, <4>3
    <3> QED BY <3>2, <3>3
  <2>3. ReadingInv'
    BY <1>2, <1>3, <1>4, <1>14, <2>2 DEF ReadingInv
  <2>4. \A i \in DOMAIN SoFar : IsVisible(SoFar[i]) /\ IsRead(i)' => i <= unread
    <3> SUFFICES ASSUME NEW i \in DOMAIN SoFar, IsVisible(SoFar[i]), IsRead(i)'
                 PROVE  i <= unread
      OBVIOUS
    <3>1. i <= end
      BY <1>4, <1>14, <1>8, <1>9
    <3>2. i \notin (unread + 1)..end
      BY <1>10
    <3> QED BY <1>15, <1>14, <1>8, <3>1, <3>2
  <2>5. \A i \in DOMAIN SoFar : IsVisible(SoFar[i]) /\ IsRead(i)' =>
           \E b \in DOMAIN blocks : blocks[b].start < i /\ i <= EndOf(blocks[b])
    BY <1>15, <1>14, <1>7, <2>4
  <2>6. blocks # <<>> => EndOf(blocks[Len(blocks)]) <= cursor'
    <3>1. ASSUME blocks # <<>> PROVE Len(blocks) \in DOMAIN blocks /\ EndOf(blocks[Len(blocks)]) \in Nat
      <4>1. Len(blocks) \in DOMAIN blocks
        BY <1>2, <3>1
      <4>2. blocks[Len(blocks)] \in Span
        BY <1>2, <4>1
      <4> QED BY <4>1, <4>2 DEF Span, Text, EndOf
    <3> QED BY <1>15, <1>7, <1>8, <3>1
  <2>7. BlocksInv'
    BY <1>2, <1>3, <1>4, <1>14, <1>7, <1>10, <2>5, <2>6 DEF BlocksInv, EndOf
  <2>8. ChunksInv'
    BY <1>2, <1>3 DEF ChunksInv
  <2> QED BY <2>1, <2>3, <2>7, <2>8 DEF TextInv
<1>11. CASE \E part \in Span :
              /\ blocks' = blocks \o <<part>> /\ cursor' = end
              /\ part.page = 0 /\ part.start \in unread..(end - 1)
              /\ Trimmed(part.text) /\ StandsIn(part.text, SoFar, part.start)
              /\ EndOf(part) <= end
              /\ \A i \in (unread + 1)..end :
                   IsVisible(SoFar[i]) => part.start < i /\ i <= EndOf(part)
  <2>1. PICK part \in Span :
              /\ blocks' = blocks \o <<part>> /\ cursor' = end
              /\ part.page = 0 /\ part.start \in unread..(end - 1)
              /\ Trimmed(part.text) /\ StandsIn(part.text, SoFar, part.start)
              /\ EndOf(part) <= end
              /\ \A i \in (unread + 1)..end :
                   IsVisible(SoFar[i]) => part.start < i /\ i <= EndOf(part)
    BY <1>11
  <2>2. /\ blocks' \in Seq(Span) /\ Len(blocks') = Len(blocks) + 1
        /\ \A b \in DOMAIN blocks : b \in DOMAIN blocks' /\ blocks'[b] = blocks[b]
        /\ Len(blocks) + 1 \in DOMAIN blocks' /\ blocks'[Len(blocks) + 1] = part
        /\ \A b \in DOMAIN blocks' : b \in DOMAIN blocks \/ b = Len(blocks) + 1
    BY <1>2, <2>1, SpansAppend
  <2>3. TextTypes'
    BY <1>2, <1>3, <1>8, <1>9, <2>2 DEF TextTypes
  <2>4. unread' # Finished => /\ unread' <= Len(SoFar) /\ cursor' <= unread'
                              /\ \A i \in (cursor' + 1)..unread' : ~IsVisible(SoFar[i])
    BY <1>8, <2>1
  <2>5. ReadingInv'
    BY <1>2, <1>3, <1>4, <1>14, <2>4 DEF ReadingInv
  <2>6. IsBlock(part, 0, document.pages, SoFar)
    BY <2>1 DEF IsBlock
  <2>7. \A b \in DOMAIN blocks' : IsBlock(blocks'[b], 0, document.pages, SoFar)
    BY <1>7, <2>2, <2>6
  <2>8. ASSUME NEW b \in 1..(Len(blocks') - 1)
        PROVE  EndOf(blocks'[b]) <= blocks'[b + 1].start
    <3>1. CASE b = Len(blocks)
      <4>1. blocks # <<>> /\ b \in DOMAIN blocks /\ blocks[b] \in Span
        BY <1>2, <2>8, <3>1
      <4>2. EndOf(blocks[b]) <= cursor /\ EndOf(blocks[b]) \in Nat
        BY <1>7, <3>1, <4>1 DEF EndOf, Span, Text
      <4>3. cursor <= part.start /\ part.start \in Nat /\ cursor \in Nat
        BY <1>2, <1>6, <2>1
      <4>4. EndOf(blocks[b]) <= part.start
        BY <4>2, <4>3
      <4>5. blocks'[b] = blocks[b] /\ blocks'[b + 1] = part
        BY <2>2, <3>1, <4>1
      <4>6. EndOf(blocks'[b]) = EndOf(blocks[b])
        BY <4>5 DEF EndOf
      <4> QED BY <4>4, <4>5, <4>6, Zenon
    <3>2. CASE b # Len(blocks)
      <4>1. b \in 1..(Len(blocks) - 1) /\ b \in DOMAIN blocks /\ b + 1 \in DOMAIN blocks
        <5>1. Len(blocks') = Len(blocks) + 1 /\ Len(blocks) \in Nat
          BY <1>2, <2>2
        <5>2. b \in 1..(Len(blocks) - 1)
          BY <2>8, <3>2, <5>1
        <5> QED BY <1>2, <5>1, <5>2
      <4> QED BY <1>7, <2>2, <4>1
    <3> QED BY <3>1, <3>2
  <2>9. EndOf(blocks'[Len(blocks')]) <= cursor'
    BY <2>1, <2>2
  <2>10. ASSUME NEW i \in DOMAIN SoFar, IsVisible(SoFar[i]), IsRead(i)'
         PROVE  \E b \in DOMAIN blocks' : blocks'[b].start < i /\ i <= EndOf(blocks'[b])
    <3>1. CASE i <= unread
      <4>1. i \in 1..unread
        BY <1>2, <1>4, <1>14, <2>10, <3>1
      <4>2. PICK b \in DOMAIN blocks : blocks[b].start < i /\ i <= EndOf(blocks[b])
        BY <1>7, <2>10, <4>1
      <4> QED BY <2>2, <4>2
    <3>2. CASE i > unread
      <4>1. i <= end
        BY <1>4, <1>14, <1>9, <2>10
      <4>2. part.start < i /\ i <= EndOf(part)
        BY <1>2, <1>4, <1>14, <2>1, <2>10, <3>2, <4>1
      <4>3. Len(blocks) + 1 \in DOMAIN blocks'
        BY <2>2
      <4> QED BY <2>2, <4>2, <4>3
    <3> QED BY <1>2, <1>4, <1>14, <3>1, <3>2
  <2>11. BlocksInv'
    BY <1>2, <1>3, <1>4, <1>14, <2>7, <2>8, <2>9, <2>10 DEF BlocksInv, EndOf
  <2>12. ChunksInv'
    BY <1>2, <1>3 DEF ChunksInv
  <2> QED BY <2>3, <2>5, <2>11, <2>12 DEF TextInv
<1> QED BY <1>1, <1>10, <1>11 DEF ReadsTo

\* What stood in the pages read so far stands in them after the next page.
LEMMA ParsePageInv ==
  ASSUME TextInv, ParsePage
  PROVE  TextInv'
<1> DEFINE before == Joined(document.pages)[next - 1]
           after == Joined(document.pages)[next]
           page == Strip(document.pages[next])
<1>1. /\ TextTypes /\ ReadingInv /\ BlocksInv /\ stage = "parsing" /\ document.mime = "pdf"
      /\ next \in Nat \ {0} /\ next <= Len(document.pages) /\ chunks = <<>>
      /\ document.pages \in Seq(Text) /\ Len(document.pages) \in Nat
  BY DocumentTypes DEF TextInv, ParsePage, TextTypes, ReadingInv
<1>2. blocks \in Seq(Span) /\ cursor \in Nat /\ document.mime # "text"
  BY <1>1 DEF TextTypes
<1>3. /\ UNCHANGED <<document, settings, stage, unread, chunks>>
      /\ next' = next + 1
  BY DEF ParsePage
<1>4. next \in DOMAIN document.pages /\ next - 1 \in 0..Len(document.pages)
      /\ next \in 0..Len(document.pages) /\ next' - 1 = next
  BY <1>1, <1>3
<1>5. before \in Text /\ after \in Text /\ page \in Text /\ document.pages[next] \in Text
  BY <1>1, <1>4, JoinedIsText, StripIsText
<1>6. SoFar = before
  BY <1>1, <1>2 DEF SoFar
<1>7. SoFar' = after
  <2>1. stage' = "parsing" /\ document' = document
    BY <1>1, <1>3
  <2> QED BY <1>2, <1>4, <2>1 DEF SoFar
<1>8. cursor = IF before = <<>> THEN 0 ELSE Len(before) + 1
  BY <1>1, <1>6 DEF ReadingInv
<1>9. /\ page = <<>> => after = before
      /\ page # <<>> =>
           /\ StandsIn(page, after, cursor) /\ Len(after) = cursor + Len(page)
           /\ StandsIn(before, after, 0)
           /\ \A i \in (Len(before) + 1)..cursor : ~IsVisible(after[i])
  BY <1>1, <1>4, <1>8, NextPage
<1>10. /\ page = <<>> => blocks' = blocks /\ cursor' = cursor
       /\ page # <<>> => /\ blocks' = Append(blocks, Block(page, cursor, next))
                         /\ cursor' = cursor + Len(page) + 1
  BY DEF ParsePage
<1>11. page = <<>> \/ Trimmed(page)
  BY <1>5, StripTrims
<1> HIDE DEF before, after, page
<1>12. /\ \A b \in DOMAIN blocks : IsBlock(blocks[b], 1, document.pages, before)
       /\ \A b \in 1..(Len(blocks) - 1) : EndOf(blocks[b]) <= blocks[b + 1].start
       /\ blocks # <<>> => EndOf(blocks[Len(blocks)]) <= cursor
       /\ \A i \in DOMAIN before : IsVisible(before[i]) =>
            \E b \in DOMAIN blocks : blocks[b].start < i /\ i <= EndOf(blocks[b])
  BY <1>1, <1>2, <1>6 DEF BlocksInv, IsRead
<1>13. \A i : IsRead(i)' = TRUE
  BY <1>2, <1>3 DEF IsRead
<1>14. CASE page = <<>>
  <2>1. after = before /\ blocks' = blocks /\ cursor' = cursor
    BY <1>9, <1>10, <1>14
  <2>2. next' \in Nat \ {0} /\ next' <= Len(document.pages) + 1
    BY <1>1, <1>3
  <2>3. TextTypes'
    BY <1>1, <1>3, <2>1, <2>2 DEF TextTypes
  <2>4. ReadingInv'
    BY <1>1, <1>2, <1>3, <1>7, <1>8, <2>1, <2>2 DEF ReadingInv
  <2>5. BlocksInv'
    BY <1>1, <1>2, <1>3, <1>7, <1>12, <1>13, <2>1 DEF BlocksInv, EndOf
  <2>6. ChunksInv'
    BY <1>1, <1>3 DEF ChunksInv
  <2> QED BY <2>3, <2>4, <2>5, <2>6 DEF TextInv
<1>15. CASE page # <<>>
  <2> DEFINE part == Block(page, cursor, next)
  <2>1. /\ StandsIn(page, after, cursor) /\ Len(after) = cursor + Len(page)
        /\ StandsIn(before, after, 0)
        /\ \A i \in (Len(before) + 1)..cursor : ~IsVisible(after[i])
        /\ cursor' = cursor + Len(page) + 1 /\ Trimmed(page)
    BY <1>9, <1>10, <1>11, <1>15
  <2>2. part \in Span /\ part.text = page /\ part.start = cursor /\ part.page = next
    BY <1>1, <1>2, <1>5 DEF Block, Span
  <2>3. blocks' = blocks \o <<part>>
    <3>1. blocks' = Append(blocks, part)
      BY <1>10, <1>15
    <3> QED BY <1>2, <2>2, <3>1, AppendIsConcat
  <2> HIDE DEF part
  <2>4. /\ blocks' \in Seq(Span) /\ Len(blocks') = Len(blocks) + 1
        /\ \A b \in DOMAIN blocks : b \in DOMAIN blocks' /\ blocks'[b] = blocks[b]
        /\ Len(blocks) + 1 \in DOMAIN blocks' /\ blocks'[Len(blocks) + 1] = part
        /\ \A b \in DOMAIN blocks' : b \in DOMAIN blocks \/ b = Len(blocks) + 1
    BY <1>2, <2>2, <2>3, SpansAppend
  <2>5. Len(before) \in Nat /\ Len(page) \in Nat /\ Len(after) \in Nat
        /\ DOMAIN before = 1..Len(before) /\ DOMAIN after = 1..Len(after)
    BY <1>5 DEF Text
  <2>6. next' \in Nat \ {0} /\ next' <= Len(document.pages) + 1 /\ cursor' \in Nat
    BY <1>1, <1>2, <1>3, <2>1, <2>5
  <2>7. TextTypes'
    BY <1>1, <1>3, <2>4, <2>6 DEF TextTypes
  <2>8. after # <<>> /\ cursor' = Len(after) + 1
    <3>1. Len(page) # 0
      BY <2>1 DEF Trimmed
    <3>2. Len(after) # 0
      BY <1>2, <2>1, <2>5, <3>1
    <3> QED BY <1>2, <2>1, <2>5, <3>2, ShortTexts
  <2>9. ReadingInv'
    BY <1>1, <1>2, <1>3, <1>7, <2>6, <2>8 DEF ReadingInv
  <2>10. ASSUME NEW b \in DOMAIN blocks
         PROVE  IsBlock(blocks[b], 1, document.pages, after)
    <3>1. IsBlock(blocks[b], 1, document.pages, before) /\ blocks[b] \in Span
      BY <1>2, <1>12
    <3>2. blocks[b].text \in Text /\ blocks[b].start \in Nat
      BY <3>1 DEF Span
    <3>3. StandsIn(blocks[b].text, before, blocks[b].start)
      BY <3>1 DEF IsBlock
    <3>4. PICK zero \in Nat : zero = 0
      OBVIOUS
    <3>5. StandsIn(blocks[b].text, after, zero + blocks[b].start)
      BY <1>5, <2>1, <3>2, <3>3, <3>4, StandingComposes
    <3>6. zero + blocks[b].start = blocks[b].start
      BY <3>2, <3>4
    <3> QED BY <3>1, <3>5, <3>6 DEF IsBlock
  <2>11. IsBlock(part, 1, document.pages, after)
    BY <1>4, <2>1, <2>2 DEF IsBlock, page
  <2>12. \A b \in DOMAIN blocks' : IsBlock(blocks'[b], 1, document.pages, after)
    BY <2>4, <2>10, <2>11
  <2>13. ASSUME NEW b \in 1..(Len(blocks') - 1)
         PROVE  EndOf(blocks'[b]) <= blocks'[b + 1].start
    <3>0. Len(blocks') = Len(blocks) + 1 /\ Len(blocks) \in Nat
      BY <1>2, <2>4
    <3>1. CASE b = Len(blocks)
      <4>1. blocks # <<>> /\ b \in DOMAIN blocks
        BY <1>2, <2>13, <3>0, <3>1
      <4>2. EndOf(blocks[b]) <= part.start
        BY <1>12, <2>2, <3>1, <4>1
      <4>3. blocks'[b] = blocks[b] /\ blocks'[b + 1] = part
        BY <2>4, <3>1, <4>1
      <4>4. EndOf(blocks'[b]) = EndOf(blocks[b])
        BY <4>3 DEF EndOf
      <4> QED BY <4>2, <4>3, <4>4, Zenon
    <3>2. CASE b # Len(blocks)
      <4>1. b \in 1..(Len(blocks) - 1)
        BY <2>13, <3>0, <3>2
      <4>2. b \in DOMAIN blocks /\ b + 1 \in DOMAIN blocks
        BY <1>2, <3>0, <4>1
      <4> QED BY <1>12, <2>4, <4>1, <4>2
    <3> QED BY <3>1, <3>2
  <2>14. EndOf(blocks'[Len(blocks')]) <= cursor'
    <3>1. EndOf(part) <= cursor'
      BY <1>2, <2>1, <2>2, <2>5 DEF EndOf
    <3> QED BY <2>4, <3>1
  <2>15. ASSUME NEW i \in DOMAIN after, IsVisible(after[i])
         PROVE  \E b \in DOMAIN blocks' : blocks'[b].start < i /\ i <= EndOf(blocks'[b])
    <3>1. i \in Nat /\ 1 <= i /\ i <= cursor + Len(page)
      BY <2>1, <2>5
    <3>2. CASE i <= Len(before)
      <4>1. i \in DOMAIN before
        BY <2>5, <3>1, <3>2
      <4>2. before[i] = after[i]
        BY <2>1, <2>5, <3>1, <3>2 DEF StandsIn
      <4>3. PICK b \in DOMAIN blocks : blocks[b].start < i /\ i <= EndOf(blocks[b])
        BY <1>12, <2>15, <4>1, <4>2
      <4> QED BY <2>4, <4>3
    <3>3. CASE i > Len(before)
      <4>1. i > cursor
        BY <1>2, <2>1, <2>5, <2>15, <3>1, <3>3
      <4>2. part.start < i /\ i <= EndOf(part)
        BY <2>2, <3>1, <4>1 DEF EndOf
      <4> QED BY <2>4, <4>2
    <3> QED BY <2>5, <3>1, <3>2, <3>3
  <2>16. BlocksInv'
    BY <1>1, <1>2, <1>3, <1>7, <1>13, <2>12, <2>13, <2>14, <2>15 DEF BlocksInv, EndOf
  <2>17. ChunksInv'
    BY <1>1, <1>3 DEF ChunksInv
  <2> QED BY <2>7, <2>9, <2>16, <2>17 DEF TextInv
<1> QED BY <1>14, <1>15

\* A document that cannot be read has no chunks.
LEMMA RejectPageInv ==
  ASSUME TextInv, RejectPage
  PROVE  TextInv'
<1>1. stage' = "unreadable" /\ UNCHANGED <<document, settings, unread, blocks, next, cursor, chunks>>
  BY DEF RejectPage, parsing
<1>2. TextTypes'
  BY <1>1 DEF TextInv, TextTypes
<1>3. chunks = <<>>
  BY DEF TextInv, RejectPage, ReadingInv
<1>4. ReadingInv' /\ BlocksInv' /\ ChunksInv'
  BY <1>1, <1>3 DEF ReadingInv, BlocksInv, ChunksInv
<1> QED BY <1>2, <1>4 DEF TextInv

\* What was read is the whole source when parsing ends.
LEMMA StartChunkingInv ==
  ASSUME TextInv, StartChunking
  PROVE  TextInv'
<1>1. /\ TextTypes /\ ReadingInv /\ BlocksInv /\ stage = "parsing" /\ chunks = <<>>
      /\ document.mime = "text" => unread = Finished
      /\ document.mime = "pdf" => next = Len(document.pages) + 1
      /\ document.mime \in {"text", "pdf"} /\ blocks \in Seq(Span)
  <2>1. document.pages \in Seq(Text) /\ document.mime \in {"text", "pdf"}
    BY DocumentTypes DEF TextInv
  <2> QED BY <2>1 DEF TextInv, StartChunking, TextTypes, ReadingInv
<1>2. /\ stage' = "chunking" /\ next' = 1 /\ cursor' = 0
      /\ UNCHANGED <<document, settings, unread, blocks, chunks>>
  BY DEF StartChunking, parsing
<1>3. TextTypes'
  BY <1>1, <1>2 DEF TextTypes
<1>4. SoFar' = SoFar
  <2>1. CASE document.mime = "text"
    BY <1>2, <2>1 DEF SoFar
  <2>2. CASE document.mime = "pdf"
    <3>1. next - 1 = Len(document.pages)
      <4>1. Len(document.pages) \in Nat
        BY <1>1, DocumentTypes
      <4> QED BY <1>1, <2>2, <4>1
    <3> QED BY <1>1, <1>2, <2>2, <3>1 DEF SoFar
  <2> QED BY <1>1, <2>1, <2>2
<1>5. \A i : IsRead(i)
  BY <1>1 DEF IsRead
<1>6. BlocksInv'
  BY <1>1, <1>2, <1>4, <1>5 DEF BlocksInv, EndOf
<1>7. ASSUME NEW b \in DOMAIN blocks
      PROVE  /\ Len(blocks[b].text) \in Nat /\ 0 < Len(blocks[b].text)
             /\ \A i \in DOMAIN blocks[b].text : ~IsCut(b, i)'
  <2>1. Trimmed(blocks[b].text)
    BY <1>1 DEF BlocksInv, IsBlock
  <2>2. Len(blocks[b].text) \in Nat /\ 0 < Len(blocks[b].text)
    BY <2>1 DEF Trimmed, Text
  <2>3. b \in Nat /\ b >= 1
    BY <1>1
  <2>4. ASSUME NEW i \in DOMAIN blocks[b].text PROVE i \in Nat /\ i >= 1
    BY <2>1, <2>4 DEF Trimmed, Text
  <2> QED BY <1>2, <2>2, <2>3, <2>4 DEF IsCut
<1>8. ChunksInv'
  <2>1. Len(blocks) \in Nat /\ (1 <= Len(blocks) => 1 \in DOMAIN blocks)
    BY <1>1
  <2>2. next' <= Len(blocks') + 1 /\ (next' <= Len(blocks') => cursor' < Len(blocks'[next'].text))
    BY <1>2, <1>7, <2>1
  <2>3. chunks' = <<>> /\ stage' # "chunked"
    BY <1>1, <1>2
  <2>4. ChunksReachFurther'
    BY <2>3 DEF ChunksReachFurther
  <2>5. \A b \in DOMAIN blocks' : \A i \in DOMAIN blocks'[b].text : ~IsCut(b, i)'
    BY <1>2, <1>7
  <2> QED BY <2>2, <2>3, <2>4, <2>5 DEF ChunksInv
<1>9. ReadingInv'
  BY <1>2 DEF ReadingInv
<1> QED BY <1>3, <1>6, <1>8, <1>9 DEF TextInv

\* Chunking ends behind the last block.
LEMMA EndChunkingInv ==
  ASSUME TextInv, EndChunking
  PROVE  TextInv'
<1>1. /\ TextTypes /\ BlocksInv /\ ChunksInv /\ stage = "chunking" /\ next > Len(blocks)
      /\ next \in Nat /\ Len(blocks) \in Nat
  BY DEF TextInv, EndChunking, TextTypes
<1>2. /\ stage' = "chunked" /\ UNCHANGED <<document, settings, unread, blocks, next, cursor, chunks>>
  BY DEF EndChunking, parsing
<1>3. TextTypes'
  BY <1>1, <1>2 DEF TextTypes
<1>4. SoFar' = SoFar /\ \A i : IsRead(i)
  BY <1>1, <1>2 DEF SoFar, IsRead
<1>5. BlocksInv'
  BY <1>1, <1>2, <1>4 DEF BlocksInv, EndOf
<1>6. next = Len(blocks) + 1
  BY <1>1 DEF ChunksInv
<1>7. ChunksInv'
  BY <1>1, <1>2, <1>6
  DEF ChunksInv, IsChunk, IsCut, IsBehind, ChunksReachFurther, IsSingleSpaced, EndOf
<1>8. ReadingInv'
  BY <1>2 DEF ReadingInv
<1> QED BY <1>3, <1>5, <1>7, <1>8 DEF TextInv
-----------------------------------------------------------------------------
(* What a step of the chunker does.                                        *)

\* A separator has characters.
LEMMA SeparatorTypes ==
  ASSUME NEW s \in DOMAIN _SEPARATORS
  PROVE  s \in Nat /\ Len(_SEPARATORS[s]) \in Nat /\ Len(_SEPARATORS[s]) >= 1
<1>1. s \in {1, 2, 3, 4}
  BY DEF _SEPARATORS
<1>2. Len(<<"\n", "\n">>) = 2 /\ Len(<<"\n">>) = 1 /\ Len(<<".", " ">>) = 2 /\ Len(<<" ">>) = 1
  OBVIOUS
<1>3. /\ _SEPARATORS[1] = <<"\n", "\n">> /\ _SEPARATORS[2] = <<"\n">>
      /\ _SEPARATORS[3] = <<".", " ">> /\ _SEPARATORS[4] = <<" ">>
  BY DEF _SEPARATORS
<1>4. Len(_SEPARATORS[1]) = 2
  BY ONLY <1>2, <1>3, Zenon
<1>5. Len(_SEPARATORS[2]) = 1
  BY ONLY <1>2, <1>3, Zenon
<1>6. Len(_SEPARATORS[3]) = 2
  BY ONLY <1>2, <1>3, Zenon
<1>7. Len(_SEPARATORS[4]) = 1
  BY ONLY <1>2, <1>3, Zenon
<1>8. CASE s = 1
  <2>1. Len(_SEPARATORS[s]) = 2
    BY ONLY <1>4, <1>8, Zenon
  <2> QED BY ONLY <1>8, <2>1
<1>9. CASE s = 2
  <2>1. Len(_SEPARATORS[s]) = 1
    BY ONLY <1>5, <1>9, Zenon
  <2> QED BY ONLY <1>9, <2>1
<1>10. CASE s = 3
  <2>1. Len(_SEPARATORS[s]) = 2
    BY ONLY <1>6, <1>10, Zenon
  <2> QED BY ONLY <1>10, <2>1
<1>11. CASE s = 4
  <2>1. Len(_SEPARATORS[s]) = 1
    BY ONLY <1>7, <1>11, Zenon
  <2> QED BY ONLY <1>11, <2>1
<1> QED BY ONLY <1>1, <1>8, <1>9, <1>10, <1>11

\* A window that a separator ends is longer than a quarter of the size, and not too long.
LEMMA CutsAreWithin ==
  ASSUME NEW text \in Text, NEW start \in Nat, NEW end \in Nat, settings.size \in Nat,
         NEW s \in DOMAIN _SEPARATORS,
         Cuts(text, _SEPARATORS[s], start, end) # {}
  PROVE  /\ Max(Cuts(text, _SEPARATORS[s], start, end)) \in (start + 2)..end
         /\ Max(Cuts(text, _SEPARATORS[s], start, end)) >= start + settings.size \div 4 + 2
<1> DEFINE separator == _SEPARATORS[s]
           cuts == Cuts(text, separator, start, end)
<1>1. Len(separator) \in Nat /\ Len(separator) >= 1
  BY SeparatorTypes
<1> HIDE DEF separator
<1>2. settings.size \div 4 \in Nat
  OBVIOUS
<1>3. ASSUME NEW e \in cuts
      PROVE  e \in Nat /\ e \in (start + 2)..end /\ e >= start + settings.size \div 4 + 2 /\ e <= end
  <2>1. PICK i \in start..(end - Len(separator)) :
          e = i + Len(separator) /\ i - start > settings.size \div 4
    BY DEF Cuts, Occurrences
  <2>2. PICK quarter \in Nat : quarter = settings.size \div 4
    BY ONLY <1>2
  <2>3. PICK size \in Nat : size = Len(separator) /\ size >= 1
    BY ONLY <1>1
  <2>4. i \in Nat /\ start <= i /\ i + size <= end /\ e = i + size /\ i - start > quarter
    BY ONLY <2>1, <2>2, <2>3, start \in Nat, end \in Nat, size \in Nat
  <2>5. e \in Nat /\ e >= start + 2 /\ e >= start + quarter + 2 /\ e <= end
    BY ONLY <2>3, <2>4, size \in Nat, quarter \in Nat, start \in Nat, end \in Nat
  <2> QED BY ONLY <2>2, <2>5, start \in Nat, end \in Nat
<1>4. cuts \in SUBSET Nat /\ cuts # {} /\ \A e \in cuts : e <= end
  BY <1>3 DEF separator
<1>5. Max(cuts) \in cuts
  BY <1>4, MaxIsGreatest
<1> QED BY <1>3, <1>5 DEF separator

\* A window ends behind its start, within the size, and not just behind it where a separator ended it.
LEMMA WindowEnds ==
  ASSUME NEW text \in Text, cursor \in Nat, cursor < Len(text),
         settings.size \in Nat \ {0}
  PROVE  LET end == WindowEnd(text) IN
         /\ end \in (cursor + 1)..Len(text) /\ end <= cursor + settings.size
         /\ end < Len(text) =>
              end = cursor + settings.size \/ end >= cursor + settings.size \div 4 + 2
<1> DEFINE limit == Min({cursor + settings.size, Len(text)})
           end == WindowEnd(text)
<1>1. Len(text) \in Nat
  BY DEF Text
<1>2. /\ limit \in {cursor + settings.size, Len(text)}
      /\ limit <= cursor + settings.size /\ limit <= Len(text)
  <2>1. {cursor + settings.size, Len(text)} \in SUBSET Nat
    BY <1>1
  <2> QED BY <2>1, MinIsLeast
<1>3. end = IF limit < Len(text) THEN Boundary(text, cursor, limit) ELSE limit
  BY DEF WindowEnd
<1> HIDE DEF limit, end
<1>4. limit \in Nat /\ limit > cursor
  BY <1>1, <1>2
<1>5. CASE ~ (limit < Len(text))
  <2>1. end = Len(text)
    BY <1>1, <1>2, <1>3, <1>4, <1>5
  <2> QED BY <1>1, <1>2, <1>4, <1>5, <2>1 DEF end
<1>6. CASE limit < Len(text)
  <2> DEFINE usable == {s \in DOMAIN _SEPARATORS : Cuts(text, _SEPARATORS[s], cursor, limit) # {}}
  <2>1. limit = cursor + settings.size
    BY <1>1, <1>2, <1>6
  <2>2. end = IF usable = {} THEN limit ELSE Max(Cuts(text, _SEPARATORS[Min(usable)], cursor, limit))
    BY <1>3, <1>6 DEF Boundary
  <2>3. CASE usable = {}
    BY <1>1, <1>4, <1>6, <2>1, <2>2, <2>3 DEF end
  <2>4. CASE usable # {}
    <3>1. usable \in SUBSET Nat
      BY SeparatorTypes
    <3>2. Min(usable) \in usable
      BY <2>4, <3>1, MinIsLeast
    <3>3. PICK s \in DOMAIN _SEPARATORS :
            s = Min(usable) /\ Cuts(text, _SEPARATORS[s], cursor, limit) # {}
      BY <3>2
    <3>4. PICK at \in Nat : at = cursor
      OBVIOUS
    <3>5. Cuts(text, _SEPARATORS[s], at, limit) # {}
      BY <3>3, <3>4
    <3>6. /\ Max(Cuts(text, _SEPARATORS[s], at, limit)) \in (at + 2)..limit
          /\ Max(Cuts(text, _SEPARATORS[s], at, limit)) >= at + settings.size \div 4 + 2
      BY <1>4, <3>5, CutsAreWithin
    <3>7. end = Max(Cuts(text, _SEPARATORS[s], at, limit))
      BY <2>2, <2>4, <3>3, <3>4
    <3> HIDE DEF usable
    <3>8. end \in (cursor + 2)..limit /\ end >= cursor + settings.size \div 4 + 2
      BY <3>4, <3>6, <3>7
    <3> QED BY <1>1, <1>2, <1>4, <1>6, <2>1, <3>8 DEF end
  <2> QED BY <2>3, <2>4
<1> QED BY <1>5, <1>6

\* The next window starts behind this one, by the overlap or by one character.
LEMMA NextWindowAdvances ==
  ASSUME cursor \in Nat, settings.overlap \in Nat, NEW end \in Nat, end > cursor
  PROVE  /\ NextWindow(end) \in (cursor + 1)..end
         /\ NextWindow(end) >= end - settings.overlap
         /\ NextWindow(end) = cursor + 1 \/ NextWindow(end) = end - settings.overlap
<1> DEFINE S == {cursor + 1, end - settings.overlap}
<1>1. CASE cursor + 1 >= end - settings.overlap
  <2>1. cursor + 1 \in S /\ \A y \in S : cursor + 1 >= y
    BY <1>1
  <2>2. \A x \in S : (\A y \in S : x >= y) => x = cursor + 1
    BY <1>1
  <2>3. Max(S) = cursor + 1
    BY <2>1, <2>2 DEF Max
  <2> QED BY <1>1, <2>3 DEF NextWindow
<1>2. CASE cursor + 1 < end - settings.overlap
  <2>1. end - settings.overlap \in S /\ \A y \in S : end - settings.overlap >= y
    BY <1>2
  <2>2. \A x \in S : (\A y \in S : x >= y) => x = end - settings.overlap
    BY <1>2
  <2>3. Max(S) = end - settings.overlap
    BY <2>1, <2>2 DEF Max
  <2> QED BY <1>2, <2>3 DEF NextWindow
<1> QED BY <1>1, <1>2

\* What a window does: a chunk of what it holds, if that is not blank, and a step forward.
CutsTo(block, end) ==
  /\ end \in (cursor + 1)..Len(block.text) /\ end <= cursor + settings.size
  /\ end < Len(block.text) =>
       end = cursor + settings.size \/ end >= cursor + settings.size \div 4 + 2
  /\ \/ end = Len(block.text) /\ next' = next + 1 /\ cursor' = 0
     \/ /\ end < Len(block.text) /\ next' = next
        /\ cursor' \in (cursor + 1)..end /\ cursor' >= end - settings.overlap
  /\ \/ chunks' = chunks /\ \A i \in (cursor + 1)..end : ~IsVisible(block.text[i])
     \/ \E part \in Span :
          /\ chunks' = chunks \o <<part>>
          /\ part.page = block.page /\ part.start >= block.start + cursor
          /\ Trimmed(part.text) /\ StandsIn(part.text, block.text, part.start - block.start)
          /\ EndOf(part) <= block.start + end
          /\ \A i \in (cursor + 1)..end :
               IsVisible(block.text[i]) => part.start < block.start + i /\ block.start + i <= EndOf(part)

\* A round of the window loop cuts what its window holds and moves on (recursive.py).
LEMMA CutWindowCuts ==
  ASSUME TextInv, CutWindow
  PROVE  /\ next \in DOMAIN blocks /\ blocks[next] \in Span
         /\ \E end \in Nat : CutsTo(blocks[next], end)
<1> DEFINE block == blocks[next]
           text == block.text
           end == WindowEnd(text)
           piece == Piece(text, cursor, end, block.start + cursor, block.page)
<1>1. /\ TextTypes /\ ChunksInv /\ stage = "chunking" /\ next <= Len(blocks)
      /\ next \in Nat \ {0} /\ cursor \in Nat /\ blocks \in Seq(Span) /\ chunks \in Seq(Span)
  BY DEF TextInv, CutWindow, TextTypes
<1>2. settings.size \in Nat \ {0} /\ settings.overlap \in Nat
  BY <1>1, DocumentTypes
<1>3. next \in DOMAIN blocks /\ block \in Span
  BY <1>1
<1>4. text \in Text /\ block.start \in Nat /\ block.page \in Nat /\ cursor < Len(text)
      /\ Len(text) \in Nat
  BY <1>1, <1>3 DEF ChunksInv, Span, Text
<1>5. /\ chunks' = chunks \o piece
      /\ IF IsLastWindow(text, end) THEN next' = next + 1 /\ cursor' = 0
         ELSE cursor' = NextWindow(end) /\ UNCHANGED next
  BY DEF CutWindow
<1> HIDE DEF block, text
<1>6. /\ end \in (cursor + 1)..Len(text) /\ end <= cursor + settings.size
      /\ end < Len(text) =>
           end = cursor + settings.size \/ end >= cursor + settings.size \div 4 + 2
  BY <1>1, <1>2, <1>4, WindowEnds
<1> HIDE DEF end
<1>7. end \in Nat /\ end \in cursor..Len(text) /\ end > cursor /\ end <= Len(text)
  BY <1>1, <1>4, <1>6
<1>8. \/ end = Len(text) /\ next' = next + 1 /\ cursor' = 0
      \/ /\ end < Len(text) /\ next' = next
         /\ cursor' \in (cursor + 1)..end /\ cursor' >= end - settings.overlap
  <2>1. CASE end >= Len(text)
    BY <1>4, <1>5, <1>7, <2>1 DEF IsLastWindow
  <2>2. CASE ~ (end >= Len(text))
    <3>1. cursor' = NextWindow(end) /\ next' = next
      BY <1>5, <2>2 DEF IsLastWindow
    <3>2. NextWindow(end) \in (cursor + 1)..end /\ NextWindow(end) >= end - settings.overlap
      BY <1>1, <1>2, <1>7, NextWindowAdvances
    <3> QED BY <1>4, <1>7, <2>2, <3>1, <3>2
  <2> QED BY <2>1, <2>2
<1>9. block.start + cursor \in Nat
  BY <1>1, <1>4
<1>10. IsPiece(piece, text, cursor, end, block.start + cursor, block.page)
  BY <1>1, <1>4, <1>7, <1>9, PieceHolds
<1> HIDE DEF piece
<1>11. \/ chunks' = chunks /\ \A i \in (cursor + 1)..end : ~IsVisible(text[i])
       \/ \E part \in Span :
            /\ chunks' = chunks \o <<part>>
            /\ part.page = block.page /\ part.start >= block.start + cursor
            /\ Trimmed(part.text) /\ StandsIn(part.text, text, part.start - block.start)
            /\ EndOf(part) <= block.start + end
            /\ \A i \in (cursor + 1)..end :
                 IsVisible(text[i]) => part.start < block.start + i /\ block.start + i <= EndOf(part)
  <2>1. CASE piece = <<>> /\ \A i \in (cursor + 1)..end : ~IsVisible(text[i])
    BY <1>1, <1>5, <2>1
  <2>2. CASE \E part \in Span : \E offset \in cursor..(end - 1) :
               IsSpanAt(piece, part, offset, text, cursor, end, block.start + cursor, block.page)
    <3>0. PICK part \in Span, offset \in cursor..(end - 1) :
            IsSpanAt(piece, part, offset, text, cursor, end, block.start + cursor, block.page)
      BY <2>2
    <3>1. /\ Visible(text, cursor, end) # {} /\ piece = <<part>>
          /\ part.page = block.page /\ part.start = block.start + cursor + (offset - cursor)
          /\ Trimmed(part.text) /\ StandsIn(part.text, text, offset)
          /\ offset + Len(part.text) \in (offset + 1)..end
          /\ \A i \in (cursor + 1)..end :
               IsVisible(text[i]) => offset < i /\ i <= offset + Len(part.text)
      BY ONLY <3>0 DEF IsSpanAt
    <3>2. offset \in Nat /\ offset >= cursor /\ Len(part.text) \in Nat
      <4>1. part.text \in Text
        BY ONLY <3>1 DEF Trimmed
      <4>2. Len(part.text) \in Nat
        BY ONLY <4>1 DEF Text
      <4> QED BY ONLY <1>1, <1>7, <4>2, offset \in cursor..(end - 1)
    <3>3. part.start = block.start + offset
      BY <1>1, <1>4, <3>1, <3>2
    <3>4. part.start - block.start = offset /\ part.start >= block.start + cursor
      BY <1>1, <1>4, <3>2, <3>3
    <3>5. EndOf(part) = block.start + offset + Len(part.text)
      BY <3>3 DEF EndOf
    <3>6. EndOf(part) <= block.start + end
      BY <1>4, <1>7, <3>1, <3>2, <3>5
    <3>7. ASSUME NEW i \in (cursor + 1)..end, IsVisible(text[i])
          PROVE  part.start < block.start + i /\ block.start + i <= EndOf(part)
      <4>1. offset < i /\ i <= offset + Len(part.text) /\ i \in Nat
        BY <1>1, <1>7, <3>1, <3>7
      <4> QED BY <1>4, <3>2, <3>3, <3>5, <4>1
    <3>8. chunks' = chunks \o <<part>>
      BY <1>5, <3>1
    <3> QED BY <3>1, <3>4, <3>6, <3>7, <3>8
  <2> QED BY ONLY <1>10, <2>1, <2>2 DEF IsPiece
<1>12. CutsTo(block, end)
  BY <1>6, <1>8, <1>11 DEF CutsTo, text
<1> QED BY <1>3, <1>7, <1>12 DEF block

\* What is less than something is less than what that is at most.
LEMMA LessThanAtMost ==
  ASSUME NEW a \in Int, NEW b \in Int, NEW c \in Int, a < b, b <= c
  PROVE  a < c
OBVIOUS

\* What lies within a window is no longer than the window, and not before its block.
LEMMA FitsInWindow ==
  ASSUME NEW base \in Nat, NEW from \in Nat, NEW end \in Nat, NEW size \in Nat,
         NEW start \in Nat, NEW length \in Nat,
         end <= from + size, start >= base + from, start + length <= base + end
  PROVE  length <= size /\ start >= base
OBVIOUS

\* What is behind a window is behind every later one.
LEMMA BehindLater ==
  ASSUME NEW base \in Nat, NEW from \in Nat, NEW later \in Nat, NEW overlap \in Nat,
         NEW start \in Nat, NEW reach \in Nat, from <= later,
         start < base + from, reach <= base + from + overlap
  PROVE  start < base + later /\ reach <= base + later + overlap
OBVIOUS

\* What ends before a text that is not empty begins is behind its first window.
LEMMA BehindNext ==
  ASSUME NEW base \in Nat, NEW length \in Nat, NEW overlap \in Nat,
         NEW start \in Nat, NEW reach \in Nat, length # 0, start < reach, reach <= base
  PROVE  start < base + 0 /\ reach <= base + 0 + overlap /\ reach < base + length
OBVIOUS

\* The character behind an overlap has a neighbour in a window that reaches two further.
LEMMA RoomForTwo ==
  ASSUME NEW from \in Nat, NEW overlap \in Nat, NEW end \in Nat, NEW length \in Nat,
         NEW i \in Nat, i = from + overlap + 1, end >= from + overlap + 2, end < length
  PROVE  i >= 1 /\ i > from /\ i + 1 <= end /\ i < length
OBVIOUS

\* In a trimmed, single-spaced text, one of two neighbours is visible, and so is the last.
LEMMA NeighbourIsVisible ==
  ASSUME TextTypes, IsSingleSpaced, NEW b \in DOMAIN blocks,
         NEW i \in Nat, i >= 1, i < Len(blocks[b].text)
  PROVE  IsVisible(blocks[b].text[i]) \/ IsVisible(blocks[b].text[i + 1])
<1>1. blocks[b] \in Span
  BY DEF TextTypes
<1>2. Len(blocks[b].text) \in Nat
  BY <1>1 DEF Span, Text
<1>3. i \in 1..(Len(blocks[b].text) - 1)
  BY <1>2
<1> QED BY <1>3 DEF IsSingleSpaced

\* With a small overlap, a window that is not the last leaves two characters and more behind.
LEMMA WindowIsLong ==
  ASSUME NEW block \in Span, NEW end \in Nat, CutsTo(block, end), end < Len(block.text),
         settings.size \in Nat, settings.overlap \in Nat, cursor \in Nat,
         settings.overlap <= settings.size \div 4, settings.overlap # 0
  PROVE  end >= cursor + settings.overlap + 2
<1>1. end = cursor + settings.size \/ end >= cursor + settings.size \div 4 + 2
  BY DEF CutsTo
<1>2. settings.size \div 4 \in Nat /\ 4 * (settings.size \div 4) <= settings.size
  OBVIOUS
<1>3. PICK quarter \in Nat : quarter = settings.size \div 4
  BY ONLY <1>2
<1>4. quarter >= settings.overlap /\ quarter >= 1 /\ 4 * quarter <= settings.size
  BY ONLY <1>2, <1>3, settings.overlap <= settings.size \div 4, settings.overlap # 0,
     settings.overlap \in Nat, quarter \in Nat
<1>5. settings.size >= settings.overlap + 2
  BY ONLY <1>4, settings.size \in Nat, settings.overlap \in Nat, quarter \in Nat
<1>6. end >= cursor + settings.size \/ end >= cursor + quarter + 2
  BY ONLY <1>1, <1>3, end \in Nat, cursor \in Nat, settings.size \in Nat
<1> QED BY ONLY <1>4, <1>5, <1>6, end \in Nat, cursor \in Nat, settings.size \in Nat,
        settings.overlap \in Nat, quarter \in Nat

\* Nothing visible is between two windows, and a chunk reaches further than the one before.
LEMMA CutWindowInv ==
  ASSUME TextInv, CutWindow
  PROVE  TextInv'
<1> DEFINE block == blocks[next]
<1>1. PICK end \in Nat : CutsTo(block, end)
  BY CutWindowCuts
<1>2. next \in DOMAIN blocks /\ block \in Span
  BY CutWindowCuts
<1>3. /\ TextTypes /\ BlocksInv /\ ChunksInv /\ stage = "chunking" /\ next <= Len(blocks)
      /\ next \in Nat \ {0} /\ cursor \in Nat /\ blocks \in Seq(Span) /\ chunks \in Seq(Span)
  BY DEF TextInv, CutWindow, TextTypes
<1>4. UNCHANGED <<document, settings, unread, blocks, stage>>
  BY DEF CutWindow, parsing
<1>5. settings.size \in Nat \ {0} /\ settings.overlap \in Nat /\ Len(blocks) \in Nat
  BY <1>3, DocumentTypes
<1>6. block.text \in Text /\ block.start \in Nat /\ block.page \in Nat /\ Len(block.text) \in Nat
  BY <1>2 DEF Span, Text
<1>7. /\ end \in (cursor + 1)..Len(block.text) /\ end <= cursor + settings.size
      /\ cursor < end /\ end <= Len(block.text)
  BY <1>1, <1>3, <1>6 DEF CutsTo
<1>8. \/ end = Len(block.text) /\ next' = next + 1 /\ cursor' = 0
      \/ /\ end < Len(block.text) /\ next' = next /\ cursor' \in Nat
         /\ cursor < cursor' /\ cursor' <= end /\ cursor' >= end - settings.overlap
  <2>1. CASE end = Len(block.text) /\ next' = next + 1 /\ cursor' = 0
    BY <2>1
  <2>2. CASE /\ end < Len(block.text) /\ next' = next
             /\ cursor' \in (cursor + 1)..end /\ cursor' >= end - settings.overlap
    <3>1. PICK at \in (cursor + 1)..end : at = cursor'
      BY <2>2
    <3>2. at \in Nat /\ cursor < at /\ at <= end
      BY <1>3, <3>1
    <3> QED BY <2>2, <3>1, <3>2
  <2> QED BY <1>1, <2>1, <2>2 DEF CutsTo
<1>9. /\ IsBlock(block, IF document.mime = "text" THEN 0 ELSE 1, document.pages, SoFar)
      /\ Trimmed(block.text) /\ IsVisible(block.text[Len(block.text)]) /\ 0 < Len(block.text)
  <2>1. IsBlock(block, IF document.mime = "text" THEN 0 ELSE 1, document.pages, SoFar)
    BY <1>2, <1>3 DEF BlocksInv
  <2> QED BY <1>6, <2>1 DEF IsBlock, Trimmed
<1>10. /\ next <= Len(blocks) + 1 /\ cursor < Len(block.text)
       /\ \A i \in DOMAIN chunks : IsChunk(chunks[i])
       /\ \A b \in DOMAIN blocks : \A i \in DOMAIN blocks[b].text :
            IsVisible(blocks[b].text[i]) /\ IsCut(b, i) =>
              \E j \in DOMAIN chunks :
                chunks[j].start < blocks[b].start + i /\ blocks[b].start + i <= EndOf(chunks[j])
  BY <1>2, <1>3 DEF ChunksInv
<1> DEFINE Small == settings.overlap <= settings.size \div 4 /\ IsSingleSpaced
<1>11. Small => /\ \A i \in 1..(Len(chunks) - 1) :
                     /\ chunks[i].start < chunks[i + 1].start
                     /\ EndOf(chunks[i]) < EndOf(chunks[i + 1])
                /\ chunks # <<>> =>
                     LET last == chunks[Len(chunks)] IN
                     /\ last.start < block.start + cursor
                     /\ EndOf(last) <= block.start + cursor + settings.overlap
                     /\ EndOf(last) < EndOf(block)
  BY <1>3 DEF ChunksInv, ChunksReachFurther, IsBehind
<1> HIDE DEF block
<1>22. /\ cursor \in Nat /\ block.start \in Nat /\ Len(block.text) \in Nat
       /\ settings.size \in Nat /\ settings.overlap \in Nat
       /\ cursor < end /\ end <= Len(block.text) /\ end <= cursor + settings.size
       /\ end \in Nat
  BY <1>3, <1>5, <1>6, <1>7
<1>23. EndOf(block) = block.start + Len(block.text)
  BY DEF EndOf
<1>12. next' \in Nat \ {0} /\ next' <= Len(blocks) + 1 /\ cursor' \in Nat
  BY <1>3, <1>5, <1>8
<1>24. PICK at \in Nat : at = cursor'
  BY <1>12
<1>25. end < Len(block.text) => cursor < at /\ at <= end /\ at >= end - settings.overlap
  BY <1>8, <1>22, <1>24
<1>13. BlocksInv'
  <2>1. SoFar' = SoFar /\ \A i : IsRead(i)
    BY <1>3, <1>4 DEF SoFar, IsRead
  <2> QED BY <1>3, <1>4, <2>1 DEF BlocksInv, EndOf
<1>14. ReadingInv'
  BY <1>3, <1>4 DEF ReadingInv
<1>15. \A chunk : IsChunk(chunk)' <=> IsChunk(chunk)
  BY <1>4 DEF IsChunk
<1>16. next' <= Len(blocks) => cursor' < Len(blocks[next'].text)
  <2>1. CASE next' = next + 1 /\ cursor' = 0
    <3>1. ASSUME next' <= Len(blocks) PROVE cursor' < Len(blocks[next'].text)
      <4>1. PICK b \in DOMAIN blocks : b = next'
        BY <1>3, <1>12, <3>1
      <4>2. Trimmed(blocks[b].text)
        BY <1>3 DEF BlocksInv, IsBlock
      <4> QED BY <2>1, <4>1, <4>2 DEF Trimmed, Text
    <3> QED BY <3>1
  <2>2. CASE next' = next /\ cursor' <= end /\ end < Len(block.text)
    BY <1>6, <1>12, <2>2 DEF block
  <2> QED BY <1>8, <2>1, <2>2

\* What is cut by now was cut before or is in the window.
<1>17. ASSUME NEW b \in DOMAIN blocks, NEW i \in DOMAIN blocks[b].text,
              IsCut(b, i)', ~IsCut(b, i)
       PROVE  b = next /\ i \in (cursor + 1)..end
  <2>1. i \in Nat /\ 1 <= i /\ i <= Len(blocks[b].text) /\ b \in Nat
    <3>1. blocks[b] \in Span
      BY <1>3
    <3>2. blocks[b].text \in Text
      BY <3>1 DEF Span
    <3> QED BY <1>3, <1>17, <3>2 DEF Text
  <2>2. ~ (b < next) /\ (b = next => i > cursor)
    BY <1>3, <1>17, <2>1 DEF IsCut
  <2>3. CASE end = Len(block.text) /\ next' = next + 1 /\ cursor' = 0
    <3>1. b = next
      BY <1>3, <1>17, <2>1, <2>2, <2>3 DEF IsCut
    <3> QED BY <1>3, <1>6, <1>7, <2>1, <2>2, <2>3, <3>1 DEF block
  <2>4. CASE next' = next /\ cursor' \in Nat /\ cursor' <= end
    <3>1. b = next /\ i <= cursor'
      BY <1>3, <1>17, <2>1, <2>2, <2>4 DEF IsCut
    <3> QED BY <1>3, <1>7, <2>1, <2>2, <2>4, <3>1
  <2> QED BY <1>8, <2>3, <2>4

\* Where the last chunk is, as seen from the next window.
<1>18. ASSUME NEW last \in Span, Small, last.start < block.start + at,
              EndOf(last) <= block.start + end, next' = next, end < Len(block.text)
       PROVE  IsBehind(last)'
  <2>1. PICK reach \in Nat : reach = EndOf(last)
    BY DEF EndOf, Span, Text
  <2>2. reach <= block.start + at + settings.overlap
    BY <1>22, <1>25, <1>18, <2>1
  <2>3. reach < block.start + Len(block.text)
    BY <1>22, <1>18, <2>1
  <2> QED BY <1>4, <1>18, <1>23, <1>24, <2>1, <2>2, <2>3 DEF IsBehind, block, EndOf
<1>19. ASSUME NEW last \in Span, Small, next' = next + 1, cursor' = 0,
              Trimmed(last.text), EndOf(last) <= EndOf(block)
       PROVE  IsBehind(last)'
  <2> SUFFICES ASSUME next' <= Len(blocks)
               PROVE  /\ last.start < blocks[next'].start + cursor'
                      /\ EndOf(last) <= blocks[next'].start + cursor' + settings.overlap
                      /\ EndOf(last) < EndOf(blocks[next'])
    BY <1>4 DEF IsBehind, EndOf
  <2>1. next \in 1..(Len(blocks) - 1) /\ next' \in DOMAIN blocks
    BY <1>3, <1>5, <1>12, <1>19
  <2>2. EndOf(block) <= blocks[next'].start
    BY <1>3, <1>19, <2>1 DEF BlocksInv, block
  <2>3. PICK following \in Span : following = blocks[next'] /\ Trimmed(following.text)
    BY <1>3, <2>1 DEF BlocksInv, IsBlock
  <2>4. following.start \in Nat /\ Len(following.text) \in Nat /\ Len(following.text) # 0
    BY <2>3 DEF Span, Trimmed, Text
  <2>5. last.start \in Nat /\ Len(last.text) \in Nat /\ Len(last.text) # 0
    BY <1>19 DEF Span, Trimmed, Text
  <2>6. EndOf(last) = last.start + Len(last.text) /\ EndOf(block) = block.start + Len(block.text)
        /\ EndOf(following) = following.start + Len(following.text)
    BY DEF EndOf
  <2>7. EndOf(block) <= following.start
    BY <2>2, <2>3
  <2>8. PICK reach \in Nat : reach = EndOf(last) /\ last.start < reach
    BY <2>5, <2>6
  <2>9. reach <= following.start
    <3>1. PICK a \in Int, b \in Int : a = EndOf(last) /\ b = EndOf(block)
      BY ONLY <1>22, <1>23, <2>5, <2>6
    <3>2. a <= b /\ b <= following.start
      BY ONLY <1>19, <2>7, <3>1
    <3> QED BY ONLY <2>4, <2>8, <3>1, <3>2, a \in Int, b \in Int, reach \in Nat
  <2>10. /\ last.start < following.start + 0
         /\ reach <= following.start + 0 + settings.overlap
         /\ reach < following.start + Len(following.text)
    BY ONLY <1>22, <2>4, <2>5, <2>8, <2>9, reach \in Nat, BehindNext
  <2> QED BY ONLY <1>19, <2>3, <2>6, <2>8, <2>10
<1>20. CASE chunks' = chunks /\ \A i \in (cursor + 1)..end : ~IsVisible(block.text[i])
  <2>1. TextTypes'
    BY <1>3, <1>4, <1>12, <1>20 DEF TextTypes
  <2>2. /\ end < Len(block.text) /\ next' = next
        /\ cursor < cursor' /\ cursor' <= end /\ cursor' >= end - settings.overlap
    BY <1>6, <1>7, <1>8, <1>9, <1>20
  <2>3. ASSUME Small, chunks # <<>> PROVE IsBehind(chunks[Len(chunks)])'
    <3>1. PICK last \in Span : last = chunks[Len(chunks)]
      BY <1>3, <2>3
    <3>2. /\ last.start < block.start + cursor
          /\ EndOf(last) <= block.start + cursor + settings.overlap
          /\ EndOf(last) < EndOf(block)
      BY <1>11, <2>3, <3>1
    <3>3. PICK reach \in Nat : reach = EndOf(last)
      BY DEF EndOf, Span, Text
    <3>4. last.start \in Nat
      BY DEF Span
    <3>6. IsBehind(last)'
      <4>1. reach <= block.start + at + settings.overlap /\ last.start < block.start + at
        <5>1. reach <= block.start + cursor + settings.overlap
          BY ONLY <3>2, <3>3
        <5>2. cursor <= at
          BY ONLY <1>22, <1>25, <2>2, at \in Nat
        <5> QED BY ONLY <1>22, <3>2, <3>4, <5>1, <5>2, at \in Nat, reach \in Nat, BehindLater
      <4> QED BY <1>4, <1>24, <2>2, <3>2, <3>3, <4>1 DEF IsBehind, block, EndOf
    <3> QED BY <1>20, <3>1, <3>6 DEF IsBehind, EndOf
  <2>4. ChunksReachFurther'
    BY <1>4, <1>11, <1>20 DEF ChunksReachFurther, IsSingleSpaced, EndOf
  <2>5. ASSUME NEW b \in DOMAIN blocks, NEW i \in DOMAIN blocks[b].text,
               IsVisible(blocks[b].text[i]), IsCut(b, i)'
        PROVE  \E j \in DOMAIN chunks :
                 chunks[j].start < blocks[b].start + i /\ blocks[b].start + i <= EndOf(chunks[j])
    BY <1>10, <1>17, <1>20, <2>5 DEF block
  <2>6. ChunksInv'
    <3>1. stage' # "chunked" /\ next' <= Len(blocks) + 1
      BY <1>3, <1>4, <1>12
    <3>2. settings.overlap <= settings.size \div 4 /\ IsSingleSpaced' => Small
      BY <1>4 DEF IsSingleSpaced
    <3>3. \A i \in DOMAIN chunks' : IsChunk(chunks[i])'
      <4>1. \A i \in DOMAIN chunks' : IsChunk(chunks'[i])
        BY <1>10, <1>20
      <4> QED BY <1>4, <4>1 DEF IsChunk
    <3>4. chunks' # <<>> /\ Small => IsBehind(chunks[Len(chunks)])'
      BY <1>20, <2>3
    <3> QED BY <1>4, <1>16, <1>20, <2>4, <2>5, <3>1, <3>2, <3>3, <3>4 DEF ChunksInv, EndOf
  <2> QED BY <1>13, <1>14, <2>1, <2>6 DEF TextInv
<1>21. CASE \E part \in Span :
          /\ chunks' = chunks \o <<part>>
          /\ part.page = block.page /\ part.start >= block.start + cursor
          /\ Trimmed(part.text) /\ StandsIn(part.text, block.text, part.start - block.start)
          /\ EndOf(part) <= block.start + end
          /\ \A i \in (cursor + 1)..end :
               IsVisible(block.text[i]) => part.start < block.start + i /\ block.start + i <= EndOf(part)
  <2>1. PICK part \in Span :
          /\ chunks' = chunks \o <<part>>
          /\ part.page = block.page /\ part.start >= block.start + cursor
          /\ Trimmed(part.text) /\ StandsIn(part.text, block.text, part.start - block.start)
          /\ EndOf(part) <= block.start + end
          /\ \A i \in (cursor + 1)..end :
               IsVisible(block.text[i]) => part.start < block.start + i /\ block.start + i <= EndOf(part)
    BY <1>21
  <2>2. /\ chunks' \in Seq(Span) /\ Len(chunks') = Len(chunks) + 1
        /\ \A j \in DOMAIN chunks : j \in DOMAIN chunks' /\ chunks'[j] = chunks[j]
        /\ Len(chunks) + 1 \in DOMAIN chunks' /\ chunks'[Len(chunks) + 1] = part
        /\ \A j \in DOMAIN chunks' : j \in DOMAIN chunks \/ j = Len(chunks) + 1
    BY <1>3, <2>1, SpansAppend
  <2>3. TextTypes'
    BY <1>3, <1>4, <1>12, <2>2 DEF TextTypes
  <2>4. /\ part.start \in Nat /\ Len(part.text) \in Nat /\ Len(part.text) # 0
        /\ EndOf(part) = part.start + Len(part.text) /\ EndOf(part) \in Nat
    BY <2>1 DEF Trimmed, Span, Text, EndOf
  <2>13. part.start >= block.start + cursor /\ EndOf(part) <= block.start + end
    BY ONLY <2>1
  <2>5. IsChunk(part)
    <3>1. Len(part.text) <= settings.size /\ part.start >= block.start
      <4>1. part.start + Len(part.text) <= block.start + end
        BY ONLY <2>4, <2>13
      <4> QED BY ONLY <1>22, <2>4, <2>13, <4>1, FitsInWindow
    <3> QED BY <1>2, <2>1, <3>1 DEF IsChunk, block
  <2>6. \A j \in DOMAIN chunks' : IsChunk(chunks[j])'
    <3>1. \A j \in DOMAIN chunks' : IsChunk(chunks'[j])
      BY <1>10, <2>2, <2>5
    <3> QED BY <1>4, <3>1 DEF IsChunk
  <2>7. ASSUME NEW b \in DOMAIN blocks, NEW i \in DOMAIN blocks[b].text,
               IsVisible(blocks[b].text[i]), IsCut(b, i)'
        PROVE  \E j \in DOMAIN chunks' :
                 chunks'[j].start < blocks[b].start + i /\ blocks[b].start + i <= EndOf(chunks'[j])
    <3>1. CASE IsCut(b, i)
      <4>1. PICK j \in DOMAIN chunks :
              chunks[j].start < blocks[b].start + i /\ blocks[b].start + i <= EndOf(chunks[j])
        BY <1>10, <2>7, <3>1
      <4> QED BY <2>2, <4>1
    <3>2. CASE ~IsCut(b, i)
      <4>1. b = next /\ i \in (cursor + 1)..end
        BY <1>17, <2>7, <3>2
      <4>2. part.start < blocks[b].start + i /\ blocks[b].start + i <= EndOf(part)
        BY <2>1, <2>7, <4>1 DEF block
      <4> QED BY <2>2, <4>2
    <3> QED BY <3>1, <3>2
  <2>8. ASSUME Small
        PROVE  /\ IsBehind(part)'
               /\ chunks # <<>> => /\ chunks[Len(chunks)].start < part.start
                                   /\ EndOf(chunks[Len(chunks)]) < EndOf(part)
    <3> DEFINE T == block.text
    <3>1. \A i \in Nat : i >= 1 /\ i < Len(T) => IsVisible(T[i]) \/ IsVisible(T[i + 1])
      BY <1>2, <1>3, <2>8, NeighbourIsVisible DEF block
    <3>2. end < Len(T) /\ settings.overlap # 0 => end >= cursor + settings.overlap + 2
      BY <1>1, <1>2, <1>3, <1>5, <2>8, WindowIsLong
    <3>3. \A i \in Nat : i > cursor /\ i <= end /\ IsVisible(T[i]) =>
            part.start < block.start + i /\ block.start + i <= EndOf(part)
      BY <1>3, <2>1
    <3> HIDE DEF T
    <3>4. Len(T) \in Nat /\ T = block.text
      BY <1>6 DEF T
    <3>5. ASSUME NEW last \in Span, last = chunks[Len(chunks)], chunks # <<>>
          PROVE  last.start < part.start /\ EndOf(last) < EndOf(part)
      <4>0. PICK reach \in Nat : reach = EndOf(last)
        BY DEF EndOf, Span, Text
      <4>1. /\ last.start < block.start + cursor /\ last.start \in Nat
            /\ reach <= block.start + cursor + settings.overlap
            /\ reach < EndOf(block)
        BY <1>11, <2>8, <3>5, <4>0 DEF Span
      <4>2. last.start < part.start
        <5>1. PICK here \in Int : here = block.start + cursor
          BY ONLY <1>22
        <5>2. last.start < here /\ here <= part.start
          BY ONLY <2>4, <2>13, <4>1, <5>1, here \in Int
        <5> QED BY ONLY <2>4, <4>1, <5>2, here \in Int, LessThanAtMost
      <4>3. CASE end = Len(T)
        <5>1. block.start + end <= EndOf(part)
          BY <1>7, <1>9, <3>3, <3>4, <4>3
        <5>2. block.start + Len(block.text) <= EndOf(part)
          BY <3>4, <4>3, <5>1
        <5>3. PICK bound \in Int : bound = block.start + Len(block.text)
          BY ONLY <1>22
        <5>4. reach < bound /\ bound <= EndOf(part)
          BY ONLY <1>23, <4>1, <5>2, <5>3
        <5>5. reach < EndOf(part)
          BY ONLY <2>4, <5>4, bound \in Int, reach \in Nat, LessThanAtMost
        <5> QED BY ONLY <4>0, <4>2, <5>5
      <4>4. CASE settings.overlap = 0
        <5>1. reach <= block.start + cursor /\ part.start < EndOf(part)
          BY ONLY <1>22, <2>4, <4>1, <4>4, reach \in Nat
        <5> QED BY ONLY <1>22, <2>4, <2>13, <4>0, <4>2, <5>1, reach \in Nat
      <4>5. CASE end < Len(T) /\ settings.overlap # 0
        <5>1. PICK i \in Nat : i = cursor + settings.overlap + 1
          BY <1>3, <1>5
        <5>7. end >= cursor + settings.overlap + 2 /\ end < Len(T)
          BY ONLY <3>2, <4>5
        <5>8. cursor \in Nat /\ settings.overlap \in Nat /\ end \in Nat /\ Len(T) \in Nat
          BY ONLY <1>22, <3>4
        <5>2. i >= 1 /\ i > cursor /\ i + 1 <= end /\ i < Len(T)
          BY ONLY <5>1, <5>7, <5>8, i \in Nat, RoomForTwo
        <5>3. IsVisible(T[i]) \/ IsVisible(T[i + 1])
          BY <3>1, <3>4, <5>2 DEF T
        <5>4. block.start + i <= EndOf(part)
          <6>1. CASE IsVisible(T[i])
            BY <3>3, <5>2, <6>1 DEF T
          <6>2. CASE IsVisible(T[i + 1])
            <7>1. PICK k \in Nat : k = i + 1
              OBVIOUS
            <7>2. block.start + k <= EndOf(part)
              BY <1>22, <3>3, <5>2, <6>2, <7>1
            <7> QED BY ONLY <1>22, <2>4, <7>1, <7>2, i \in Nat, k \in Nat
          <6> QED BY <5>3, <6>1, <6>2
        <5>5. reach < block.start + i
          BY ONLY <1>22, <4>0, <4>1, <5>1, reach \in Nat, i \in Nat
        <5> QED BY ONLY <1>22, <2>4, <4>0, <4>2, <5>4, <5>5, reach \in Nat, i \in Nat
      <4> QED BY <1>7, <3>4, <4>2, <4>3, <4>4, <4>5
    <3>6. IsBehind(part)'
      <4>1. CASE end = Len(block.text) /\ next' = next + 1 /\ cursor' = 0
        <5>1. EndOf(part) <= EndOf(block)
          BY <2>1, <4>1 DEF EndOf
        <5> QED BY <1>19, <2>1, <2>8, <4>1, <5>1
      <4>2. CASE /\ end < Len(block.text) /\ next' = next /\ cursor' \in Nat
                 /\ cursor < cursor' /\ cursor' <= end /\ cursor' >= end - settings.overlap
        <5>1. part.start < block.start + at
          <6>1. CASE settings.overlap = 0
            <7>1. at = end
              BY ONLY <1>22, <1>25, <4>2, <6>1, at \in Nat
            <7>2. part.start < EndOf(part)
              BY <2>4
            <7>3. PICK bound \in Int : bound = block.start + at
              BY ONLY <1>22, at \in Nat
            <7>4. EndOf(part) <= bound
              BY ONLY <2>13, <7>1, <7>3
            <7>5. part.start < bound
              BY ONLY <2>4, <7>2, <7>4, bound \in Int, LessThanAtMost
            <7> QED BY ONLY <7>3, <7>5
          <6>2. CASE settings.overlap # 0
            <7>1. at >= cursor + 2
              BY ONLY <1>22, <1>25, <3>2, <3>4, <4>2, <6>2, at \in Nat
            <7>2. PICK i \in Nat, k \in Nat : i = cursor + 1 /\ k = i + 1
              BY <1>22
            <7>3. i >= 1 /\ i < Len(T) /\ i > cursor /\ i <= end /\ k > cursor /\ k <= end /\ k <= at
              BY ONLY <1>22, <1>25, <3>4, <4>2, <7>1, <7>2, at \in Nat, i \in Nat, k \in Nat
            <7>4. IsVisible(T[i]) \/ IsVisible(T[k])
              BY <3>1, <7>2, <7>3
            <7>5. part.start < block.start + i \/ part.start < block.start + k
              BY <3>3, <7>3, <7>4
            <7>6. PICK bound \in Int : bound = block.start + at
              BY ONLY <1>22, at \in Nat
            <7>7. block.start + i <= bound /\ block.start + k <= bound
              BY ONLY <1>22, <7>2, <7>3, <7>6, at \in Nat, i \in Nat, k \in Nat
            <7>9. block.start + i \in Int /\ block.start + k \in Int /\ part.start \in Int
              <8>1. block.start \in Nat /\ part.start \in Nat
                BY ONLY <1>22, <2>4
              <8> QED BY ONLY <8>1, i \in Nat, k \in Nat
            <7>8. part.start < bound
              BY ONLY <7>5, <7>7, <7>9, bound \in Int, LessThanAtMost
            <7> QED BY ONLY <7>6, <7>8
          <6> QED BY <6>1, <6>2
        <5> QED BY <1>18, <2>1, <2>8, <4>2, <5>1
      <4> QED BY <1>8, <4>1, <4>2
    <3>7. chunks # <<>> => chunks[Len(chunks)] \in Span
      BY <1>3
    <3> QED BY <3>5, <3>6, <3>7
  <2>9. ASSUME Small, NEW j \in 1..(Len(chunks') - 1)
        PROVE  /\ chunks'[j].start < chunks'[j + 1].start
               /\ EndOf(chunks'[j]) < EndOf(chunks'[j + 1])
    <3>0. Len(chunks') = Len(chunks) + 1 /\ Len(chunks) \in Nat
      BY <1>3, <2>2
    <3>1. CASE j = Len(chunks)
      <4>1. chunks # <<>> /\ j \in DOMAIN chunks
        BY <1>3, <2>9, <3>0, <3>1
      <4>2. chunks'[j] = chunks[j] /\ chunks'[j + 1] = part
        BY <2>2, <3>1, <4>1
      <4>3. chunks[j].start < part.start /\ EndOf(chunks[j]) < EndOf(part)
        BY <2>8, <2>9, <3>1, <4>1
      <4> QED BY <4>2, <4>3, Zenon
    <3>2. CASE j # Len(chunks)
      <4>1. j \in 1..(Len(chunks) - 1)
        BY <2>9, <3>0, <3>2
      <4>2. j \in DOMAIN chunks /\ j + 1 \in DOMAIN chunks
        BY <1>3, <3>0, <4>1
      <4>3. chunks'[j] = chunks[j] /\ chunks'[j + 1] = chunks[j + 1]
        BY <2>2, <4>2
      <4> QED BY <1>11, <2>9, <4>1, <4>3, Zenon
    <3> QED BY <3>1, <3>2
  <2>10. settings.overlap <= settings.size \div 4 /\ IsSingleSpaced' => Small
    BY <1>4 DEF IsSingleSpaced
  <2>11. ChunksReachFurther'
    BY <1>4, <2>9, <2>10 DEF ChunksReachFurther, EndOf
  <2>12. ChunksInv'
    <3>1. stage' # "chunked" /\ next' <= Len(blocks) + 1
      BY <1>3, <1>4, <1>12
    <3>2. Small => IsBehind(chunks[Len(chunks)])'
      <4>1. chunks'[Len(chunks')] = part
        BY <2>2
      <4> QED BY <2>8, <4>1 DEF IsBehind, EndOf
    <3> QED BY <1>4, <1>16, <2>6, <2>7, <2>10, <2>11, <3>1, <3>2 DEF ChunksInv, EndOf
  <2> QED BY <1>13, <1>14, <2>3, <2>12 DEF TextInv
<1> QED BY <1>1, <1>20, <1>21 DEF CutsTo
-----------------------------------------------------------------------------
(* What follows for the text.                                              *)

\* Every step of the parser and the chunker preserves the invariant.
LEMMA TextNextInv ==
  ASSUME TextInv, [TextNext]_text_vars
  PROVE  TextInv'
<1>1. CASE TextNext
  BY <1>1, ParseBlockInv, ParsePageInv, RejectPageInv, StartChunkingInv, CutWindowInv,
     EndChunkingInv DEF TextNext
<1>2. CASE UNCHANGED text_vars
  BY <1>2 DEF text_vars, TextInv, TextTypes, ReadingInv, SoFar, BlocksInv, IsRead, IsBlock,
     ChunksInv, IsChunk, IsCut, IsBehind, ChunksReachFurther, IsSingleSpaced, EndOf
<1> QED BY <1>1, <1>2

\* A chunk stands in the source where it says, and in the page it names.
LEMMA ChunkStands ==
  ASSUME TextInv, stage \in {"chunking", "chunked"}, NEW i \in DOMAIN chunks
  PROVE  /\ chunks[i] \in Span /\ Trimmed(chunks[i].text) /\ Source \in Text
         /\ Len(chunks[i].text) <= settings.size
         /\ StandsIn(chunks[i].text, Source, chunks[i].start)
         /\ chunks[i].page > 0 =>
              /\ document.pages[chunks[i].page] \in Text
              /\ \E start \in Nat : StandsIn(chunks[i].text, document.pages[chunks[i].page], start)
<1> DEFINE chunk == chunks[i]
<1>1. TextTypes /\ ReadingInv /\ BlocksInv /\ ChunksInv
  BY DEF TextInv
<1>2. chunk \in Span /\ IsChunk(chunk)
  BY <1>1 DEF TextTypes, ChunksInv
<1> HIDE DEF chunk
<1>3. SoFar = Source /\ SoFar \in Text
  <2>1. SoFar = Source
    BY DEF SoFar, Source
  <2> QED BY <1>1, <2>1, SoFarIsText
<1>4. PICK b \in DOMAIN blocks :
        /\ chunk.page = blocks[b].page /\ chunk.start >= blocks[b].start
        /\ StandsIn(chunk.text, blocks[b].text, chunk.start - blocks[b].start)
  BY <1>2 DEF IsChunk
<1>5. PICK block \in Span : block = blocks[b]
  BY <1>1, <1>4 DEF TextTypes
<1>6. IsBlock(block, IF document.mime = "text" THEN 0 ELSE 1, document.pages, Source)
  BY <1>1, <1>3, <1>4, <1>5 DEF BlocksInv
<1>7. /\ block.text \in Text /\ block.start \in Nat /\ chunk.text \in Text /\ chunk.start \in Nat
      /\ chunk.page \in Nat
  BY <1>2 DEF Span
<1>8. PICK offset \in Nat : offset = chunk.start - block.start
  BY <1>4, <1>5, <1>7
<1>9. StandsIn(chunk.text, block.text, offset)
  BY <1>4, <1>5, <1>8
<1>10. StandsIn(chunk.text, Source, chunk.start)
  <2>1. StandsIn(block.text, Source, block.start)
    BY <1>6 DEF IsBlock
  <2>2. StandsIn(chunk.text, Source, block.start + offset)
    BY <1>3, <1>7, <1>9, <2>1, StandingComposes
  <2>3. block.start + offset = chunk.start
    BY <1>7, <1>8
  <2> QED BY <2>2, <2>3
<1>11. ASSUME chunk.page > 0
       PROVE  /\ document.pages[chunk.page] \in Text
              /\ \E start \in Nat : StandsIn(chunk.text, document.pages[chunk.page], start)
  <2>1. chunk.page \in DOMAIN document.pages /\ block.text = Strip(document.pages[chunk.page])
        /\ Trimmed(block.text)
    BY <1>4, <1>5, <1>6, <1>7, <1>11 DEF IsBlock
  <2>2. document.pages[chunk.page] \in Text
    BY <1>1, <2>1, DocumentTypes
  <2>3. block.text # <<>>
    BY <2>1, ShortTexts DEF Trimmed
  <2>4. PICK start \in Nat : StandsIn(block.text, document.pages[chunk.page], start)
    BY <2>1, <2>2, <2>3, StripTrims
  <2>5. StandsIn(chunk.text, document.pages[chunk.page], start + offset)
    BY <1>7, <1>9, <2>2, <2>4, StandingComposes
  <2> QED BY <2>2, <2>5
<1>12. Trimmed(chunk.text) /\ Len(chunk.text) <= settings.size
  BY <1>2 DEF IsChunk
<1> QED BY <1>2, <1>3, <1>10, <1>11, <1>12 DEF chunk

\* Every chunk stands where it says.
LEMMA TextInvResolves ==
  ASSUME TextInv
  PROVE  OffsetsResolve
<1>1. TextTypes /\ ReadingInv
  BY DEF TextInv
<1>2. CASE stage \in {"parsing", "unreadable"}
  BY <1>1, <1>2 DEF ReadingInv, OffsetsResolve
<1>3. CASE stage \in {"chunking", "chunked"}
  <2>1. ASSUME NEW i \in DOMAIN chunks
        PROVE  LET chunk == chunks[i] IN
               /\ Slice(Source, chunk.start, EndOf(chunk)) = chunk.text
               /\ chunk.text = Strip(chunk.text) /\ Len(chunk.text) \in 1..settings.size
               /\ chunk.page > 0 =>
                    LET page == document.pages[chunk.page]
                    IN Occurrences(page, chunk.text, 0, Len(page)) # {}
    <3> DEFINE chunk == chunks[i]
    <3>1. /\ chunk \in Span /\ Trimmed(chunk.text) /\ Source \in Text
          /\ Len(chunk.text) <= settings.size /\ StandsIn(chunk.text, Source, chunk.start)
          /\ chunk.page > 0 =>
               /\ document.pages[chunk.page] \in Text
               /\ \E start \in Nat : StandsIn(chunk.text, document.pages[chunk.page], start)
      BY <1>3, ChunkStands
    <3> HIDE DEF chunk
    <3>2. chunk.text \in Text /\ chunk.start \in Nat /\ Len(chunk.text) \in Nat
          /\ Len(chunk.text) # 0 /\ DOMAIN chunk.text = 1..Len(chunk.text)
      BY <3>1 DEF Span, Text, Trimmed
    <3>3. Slice(Source, chunk.start, EndOf(chunk)) = chunk.text
      BY <3>1, <3>2, StandingIsSlice DEF EndOf
    <3>4. chunk.text = Strip(chunk.text)
      BY <3>1, TrimmedIsStripped
    <3>5. Len(chunk.text) \in 1..settings.size
      <4>1. settings.size \in Nat
        BY <1>1, DocumentTypes
      <4> QED BY <3>1, <3>2, <4>1
    <3>6. ASSUME chunk.page > 0
          PROVE  Occurrences(document.pages[chunk.page], chunk.text, 0,
                             Len(document.pages[chunk.page])) # {}
      <4> DEFINE page == document.pages[chunk.page]
      <4>1. PICK start \in Nat : StandsIn(chunk.text, page, start)
        BY <3>1, <3>6
      <4>2. page \in Text /\ Len(page) \in Nat
        BY <3>1, <3>6 DEF Text
      <4> HIDE DEF page
      <4>3. start \in 0..(Len(page) - Len(chunk.text))
            /\ \A k \in DOMAIN chunk.text : page[start + k] = chunk.text[k]
        BY <3>2, <4>1, <4>2 DEF StandsIn
      <4>4. start \in Occurrences(page, chunk.text, 0, Len(page))
        BY <4>3 DEF Occurrences
      <4> QED BY <4>4 DEF page
    <3> QED BY <3>3, <3>4, <3>5, <3>6 DEF chunk
  <2> QED BY <2>1 DEF OffsetsResolve
<1> QED BY <1>1, <1>2, <1>3 DEF TextTypes

\* Behind the last block, everything visible was cut.
LEMMA TextInvLosesNothing ==
  ASSUME TextInv
  PROVE  NothingIsLost
<1> SUFFICES ASSUME stage = "chunked", NEW i \in DOMAIN Source, IsVisible(Source[i])
             PROVE  \E j \in DOMAIN chunks : chunks[j].start < i /\ i <= EndOf(chunks[j])
  BY DEF NothingIsLost
<1>1. TextTypes /\ ReadingInv /\ BlocksInv /\ ChunksInv
  BY DEF TextInv
<1>2. SoFar = Source /\ Source \in Text
  <2>1. SoFar = Source
    BY DEF SoFar, Source
  <2> QED BY <1>1, <2>1, SoFarIsText
<1>3. i \in Nat
  BY <1>2 DEF Text
<1>4. PICK b \in DOMAIN blocks : blocks[b].start < i /\ i <= EndOf(blocks[b])
  BY <1>1, <1>2 DEF BlocksInv, IsRead
<1>5. IsBlock(blocks[b], IF document.mime = "text" THEN 0 ELSE 1, document.pages, Source)
  BY <1>1, <1>2, <1>4 DEF BlocksInv
<1>6. PICK block \in Span : block = blocks[b]
  BY <1>1, <1>4 DEF TextTypes
<1>7. block.start \in Nat /\ block.text \in Text /\ Len(block.text) \in Nat
      /\ DOMAIN block.text = 1..Len(block.text) /\ StandsIn(block.text, Source, block.start)
  BY <1>5, <1>6 DEF Span, Text, IsBlock
<1>8. PICK k \in 1..Len(block.text) : i = block.start + k
  <2>1. i - block.start \in 1..Len(block.text) /\ i = block.start + (i - block.start)
    BY <1>3, <1>4, <1>6, <1>7 DEF EndOf
  <2> QED BY <2>1
<1>9. IsVisible(block.text[k])
  BY <1>7, <1>8 DEF StandsIn
<1>10. IsCut(b, k)
  <2>1. blocks \in Seq(Span) /\ next = Len(blocks) + 1
    BY <1>1 DEF TextTypes, ChunksInv
  <2>2. b < next
    BY <1>4, <2>1
  <2> QED BY <2>2 DEF IsCut
<1>11. PICK j \in DOMAIN chunks :
         chunks[j].start < blocks[b].start + k /\ blocks[b].start + k <= EndOf(chunks[j])
  BY <1>1, <1>4, <1>6, <1>7, <1>8, <1>9, <1>10 DEF ChunksInv
<1> QED BY <1>6, <1>8, <1>11

\* Ordinals follow the text as far as it was cut.
LEMMA TextInvReachesFurther ==
  ASSUME TextInv
  PROVE  ChunksReachFurther
<1>1. CASE stage \in {"parsing", "unreadable"}
  <2>1. chunks = <<>>
    BY <1>1 DEF TextInv, ReadingInv
  <2> QED BY <2>1 DEF ChunksReachFurther
<1>2. CASE stage \in {"chunking", "chunked"}
  BY <1>2 DEF TextInv, ChunksInv
<1> QED BY <1>1, <1>2 DEF TextInv, TextTypes
-----------------------------------------------------------------------------
(* Batches and what is answered for them.                                  *)

\* While texts are left, the batch that is due is not empty, and the provider accepts it.
LEMMA BatchHolds ==
  ASSUME TextTypes, CallInv, Len(vectors) < Len(chunks)
  PROVE  \E m \in Nat \ {0} :
           /\ m <= MAX_BATCH_SIZE /\ Len(vectors) + m <= Len(chunks)
           /\ Batch = (Len(vectors) + 1)..(Len(vectors) + m)
           /\ IsFiniteSet(Batch) /\ Cardinality(Batch) = m
<1>1. PICK done, all \in Nat : done = Len(vectors) /\ all = Len(chunks) /\ done < all
  BY DEF TextTypes, CallInv
<1>2. BatchSize \in Nat \ {0} /\ BatchSize <= MAX_BATCH_SIZE
  <2> DEFINE S == {EMBEDDING_BATCH_SIZE, MAX_BATCH_SIZE}
  <2>1. S \in SUBSET Nat /\ S # {}
    BY BatchAssumption
  <2>2. Min(S) \in S /\ \A y \in S : Min(S) <= y
    BY <2>1, MinIsLeast
  <2>3. Min(S) \in Nat \ {0} /\ Min(S) <= MAX_BATCH_SIZE
    BY <2>2, BatchAssumption
  <2> QED BY <2>3 DEF BatchSize
<1>3. PICK to \in Nat : /\ to = Min({done + BatchSize, all})
                        /\ done < to /\ to <= all /\ to <= done + BatchSize
  <2> DEFINE S == {done + BatchSize, all}
  <2>1. S \in SUBSET Nat /\ S # {}
    BY <1>2
  <2>2. Min(S) \in S /\ \A y \in S : Min(S) <= y
    BY <2>1, MinIsLeast
  <2> QED BY <1>1, <1>2, <2>2
<1>4. Batch = (done + 1)..to
  BY <1>1, <1>3 DEF Batch
<1>5. IsFiniteSet((done + 1)..to) /\ Cardinality((done + 1)..to) = to - done
  <2>1. PICK from \in Int : to \in Int /\ from = done + 1 /\ ~(from > to) /\ to - from + 1 = to - done
    BY <1>3
  <2>2. IsFiniteSet(from..to) /\ Cardinality(from..to) = IF from > to THEN 0 ELSE to - from + 1
    BY <2>1, FS_Interval, Zenon
  <2> QED BY <2>1, <2>2
<1>6. PICK m \in Nat \ {0} : m = to - done
  BY <1>3
<1>7. to = done + m /\ m <= MAX_BATCH_SIZE
  BY <1>2, <1>3, <1>6, BatchAssumption
<1> QED BY <1>1, <1>3, <1>4, <1>5, <1>6, <1>7

\* So many of a permutation of an interval are below a member of it.
LEMMA CountBelow ==
  ASSUME NEW done \in Nat, NEW m \in Nat,
         NEW order \in Bijection(1..m, (done + 1)..(done + m)),
         NEW t \in (done + 1)..(done + m)
  PROVE  Cardinality({i \in 1..m : order[i] < t}) = t - done - 1
<1> DEFINE S == {i \in 1..m : order[i] < t}
           T == (done + 1)..(t - 1)
           f == [i \in S |-> order[i]]
<1>1. /\ order \in [1..m -> (done + 1)..(done + m)]
      /\ \A i, j \in 1..m : order[i] = order[j] => i = j
      /\ \A u \in (done + 1)..(done + m) : \E i \in 1..m : order[i] = u
  BY DEF Bijection, Injection, Surjection, IsInjective
<1>2. IsFiniteSet(S)
  <2>1. IsFiniteSet(1..m)
    BY FS_Interval
  <2> QED BY <2>1, FS_Subset
<1>3. f \in [S -> T]
  BY <1>1
<1>4. \A i, j \in S : f[i] = f[j] => i = j
  BY <1>1
<1>5. ASSUME NEW u \in T
      PROVE  \E i \in S : f[i] = u
  <2>1. u \in (done + 1)..(done + m) /\ u < t
    OBVIOUS
  <2>2. PICK i \in 1..m : order[i] = u
    BY <1>1, <2>1
  <2>3. i \in S
    BY <2>1, <2>2
  <2> QED BY <2>2, <2>3
<1>6. f \in Bijection(S, T)
  BY <1>3, <1>4, <1>5 DEF Bijection, Injection, Surjection, IsInjective
<1>7. ExistsBijection(S, T)
  BY <1>6 DEF ExistsBijection
<1>8. Cardinality(T) = Cardinality(S)
  BY <1>2, <1>7, FS_Bijection
<1>9. Cardinality(T) = IF done + 1 > t - 1 THEN 0 ELSE (t - 1) - (done + 1) + 1
  BY FS_Interval
<1>10. Cardinality(T) = t - done - 1
  BY <1>9
<1> QED BY <1>8, <1>10

\* An answer for a whole batch is in the order of the batch once it is put in that of the indices.
LEMMA OrderedIsAligned ==
  ASSUME TextTypes, CallInv, Len(vectors) < Len(chunks),
         NEW items \in Replies, Len(items) = Cardinality(Batch)
  PROVE  \E m \in Nat \ {0} :
           /\ Len(vectors) + m <= Len(chunks)
           /\ Ordered(items) \in Seq(Nat) /\ Len(Ordered(items)) = m
           /\ \A n \in 1..m : Ordered(items)[n] = Len(vectors) + n
<1>1. PICK done \in Nat : done = Len(vectors)
  BY DEF CallInv
<1>2. PICK m \in Nat \ {0} :
        /\ done + m <= Len(chunks) /\ Batch = (done + 1)..(done + m)
        /\ IsFiniteSet(Batch) /\ Cardinality(Batch) = m
  <2>1. \E m \in Nat \ {0} :
          /\ Len(vectors) + m <= Len(chunks)
          /\ Batch = (Len(vectors) + 1)..(Len(vectors) + m)
          /\ IsFiniteSet(Batch) /\ Cardinality(Batch) = m
    BY BatchHolds
  <2> QED BY ONLY <1>1, <2>1
<1> DEFINE item(text) == [index |-> text - Len(vectors) - 1, text |-> text]
<1>3. PICK missing, order :
        /\ order \in SetToSeqs(Batch \ missing)
        /\ items = [i \in DOMAIN order |-> item(order[i])]
  <2> DEFINE Reply(one) == [i \in DOMAIN one |-> item(one[i])]
             Orders == UNION {SetToSeqs(Batch \ missing) : missing \in {{}} \cup {{t} : t \in Batch}}
  <2>1. Replies = {Reply(one) : one \in Orders}
    BY DEF Replies
  <2> HIDE DEF Orders
  <2>2. PICK order \in Orders : items = Reply(order)
    <3> HIDE DEF Reply
    <3> QED BY ONLY <2>1, items \in Replies
  <2>3. PICK missing : order \in SetToSeqs(Batch \ missing)
    BY ONLY order \in Orders DEF Orders
  <2> QED BY ONLY <2>2, <2>3
<1>4. order \in Bijection(1..m, Batch)
  <2> DEFINE R == Batch \ missing
  <2>1. IsFiniteSet(R) /\ Cardinality(R) \in Nat /\ (Cardinality(Batch) = Cardinality(R) => Batch = R)
    BY <1>2, FS_Subset, FS_CardinalityType
  <2>2. order \in [1..Cardinality(R) -> R] /\ \A i, j \in 1..Cardinality(R) : i # j => order[i] # order[j]
    BY <1>3 DEF SetToSeqs
  <2>3. Cardinality(R) = m
    <3> HIDE DEF R, item
    <3>1. DOMAIN items = 1..Cardinality(R)
      BY <1>3, <2>2
    <3>2. items \in Seq({items[i] : i \in DOMAIN items})
      BY <1>3, <2>1, <2>2
    <3>3. Len(items) = Cardinality(R)
      BY <2>1, <3>1, <3>2
    <3> QED BY <1>2, <3>3
  <2>4. R = Batch
    BY <1>2, <2>1, <2>3
  <2>5. order \in Injection(1..m, Batch)
    BY <2>2, <2>3, <2>4 DEF Injection, IsInjective
  <2>6. Cardinality(1..m) = m
    BY FS_Interval
  <2>7. order \in Surjection(1..m, Batch)
    BY <1>2, <2>5, <2>6, FS_Injection
  <2> QED BY <2>5, <2>7 DEF Bijection
<1>5. /\ order \in [1..m -> Batch]
      /\ \A u \in Batch : \E i \in 1..m : order[i] = u
  BY <1>4 DEF Bijection, Injection, Surjection
<1>6. DOMAIN items = 1..m
      /\ \A i \in 1..m : items[i].text = order[i] /\ items[i].index = order[i] - done - 1
  BY <1>1, <1>3, <1>5
<1>7. ASSUME NEW n \in 1..m
      PROVE  Ordered(items)[n] = done + n
  <2> DEFINE Fits(it) == Cardinality({i \in DOMAIN items : items[i].index < it.index}) = n - 1
  <2>1. ASSUME NEW k \in 1..m
        PROVE  Fits(items[k]) <=> order[k] = done + n
    <3>1. order[k] \in (done + 1)..(done + m)
      BY <1>2, <1>5
    <3>2. Cardinality({i \in 1..m : order[i] < order[k]}) = order[k] - done - 1
      <4>1. order \in Bijection(1..m, (done + 1)..(done + m)) /\ m \in Nat
        BY ONLY <1>2, <1>4
      <4> QED BY ONLY <3>1, <4>1, done \in Nat, CountBelow
    <3>3. ASSUME NEW i \in 1..m
          PROVE  items[i].index < items[k].index <=> order[i] < order[k]
      <4>1. order[i] \in Nat /\ order[k] \in Nat
        <5>1. order[i] \in (done + 1)..(done + m) /\ order[k] \in (done + 1)..(done + m)
          BY ONLY <1>2, <1>5, i \in 1..m, k \in 1..m
        <5> QED BY ONLY <5>1, done \in Nat
      <4>2. items[i].index = order[i] - done - 1 /\ items[k].index = order[k] - done - 1
        BY <1>6, Zenon
      <4> QED BY ONLY <4>1, <4>2, done \in Nat
    <3>4. {i \in DOMAIN items : items[i].index < items[k].index} = {i \in 1..m : order[i] < order[k]}
      BY <1>6, <3>3
    <3>5. Fits(items[k]) <=> order[k] - done - 1 = n - 1
      BY <3>2, <3>4
    <3>6. order[k] - done - 1 = n - 1 <=> order[k] = done + n
      <4>1. order[k] \in Nat /\ n \in Nat
        BY ONLY <3>1, done \in Nat, n \in 1..m
      <4> QED BY ONLY <4>1, done \in Nat
    <3> QED BY ONLY <3>5, <3>6
  <2>2. PICK k \in 1..m : order[k] = done + n
    <3>1. done + n \in Batch
      BY <1>2
    <3> QED BY <1>5, <3>1
  <2>3. items[k] \in ToSet(items) /\ Fits(items[k])
    BY <1>6, <2>1, <2>2 DEF ToSet
  <2> DEFINE chosen == CHOOSE it \in ToSet(items) : Fits(it)
  <2> HIDE DEF Fits
  <2>4. chosen \in ToSet(items) /\ Fits(chosen)
    BY <2>3
  <2>5. PICK j \in 1..m : chosen = items[j]
    BY <1>6, <2>4 DEF ToSet
  <2>6. order[j] = done + n
    BY <2>1, <2>4, <2>5
  <2>7. chosen.text = done + n
    <3>1. items[j].text = order[j]
      BY <1>6, Zenon
    <3> QED BY <2>5, <2>6, <3>1, Zenon
  <2>8. Ordered(items)[n] = chosen.text
    BY <1>6 DEF Ordered, Fits
  <2> QED BY <2>7, <2>8
<1>8. DOMAIN Ordered(items) = 1..m /\ Ordered(items) = [n \in 1..m |-> Ordered(items)[n]]
  BY <1>6 DEF Ordered
<1>9. Ordered(items) \in Seq(Nat) /\ Len(Ordered(items)) = m
  <2>1. \A n \in 1..m : Ordered(items)[n] \in Nat
    BY <1>7
  <2> PICK result : result = Ordered(items)
    OBVIOUS
  <2>2. result = [n \in 1..m |-> result[n]] /\ \A n \in 1..m : result[n] \in Nat
    BY <1>8, <2>1
  <2>3. result \in [1..m -> Nat]
    BY <2>2
  <2>4. result \in Seq(Nat) /\ Len(result) = m
    BY <2>3
  <2> QED BY <2>4
<1> QED BY <1>1, <1>2, <1>7, <1>9
-----------------------------------------------------------------------------
(* The calls preserve their invariant.                                     *)

\* What is raised without being worth a retry, in an attempt that was made.
LEMMA RaiseInv ==
  ASSUME CallInv, attempt > 0, NEW e, e.retryable => attempt = MAX_RETRIES, Raise(e),
         stage = "chunked", UNCHANGED <<stage, chunks, vectors>>
  PROVE  CallInv'
<1>1. call' = "raised" /\ error' = e /\ attempt' = attempt
  BY DEF Raise
<1>2. /\ attempt \in Nat /\ attempt <= MAX_RETRIES /\ vectors \in Seq(Nat)
      /\ Len(vectors) <= Len(chunks) /\ VectorsAreAligned
  BY DEF CallInv, RetriesAreSpent
<1>3. RetriesAreSpent'
  BY <1>1, <1>2 DEF RetriesAreSpent
<1>4. VectorsAreAligned'
  BY <1>2 DEF VectorsAreAligned
<1> QED BY <1>1, <1>2, <1>3, <1>4 DEF CallInv

\* Nothing is called before the text is chunked.
LEMMA ReadTextKeepsCalls ==
  ASSUME TextInv, CallInv, ReadText
  PROVE  CallInv'
<1>1. UNCHANGED <<call, attempt, error, vectors>>
  BY DEF ReadText, call_vars
<1>2. stage # "chunked"
  BY DEF ReadText, TextNext, ParseBlock, ParsePage, RejectPage, StartChunking, CutWindow, EndChunking
<1>3. TextInv'
  BY TextNextInv DEF ReadText
<1>4. call = "idle" /\ vectors = <<>> /\ attempt = 0 /\ RetriesAreSpent /\ VectorsAreAligned
  BY <1>2 DEF CallInv
<1>5. Len(vectors') <= Len(chunks')
  <2>1. Len(vectors') = 0
    BY <1>1, <1>4
  <2>2. chunks' \in Seq(Span)
    BY <1>3 DEF TextInv, TextTypes
  <2>3. Len(chunks') \in Nat
    BY <2>2
  <2> QED BY <2>1, <2>3
<1>6. vectors' \in Seq(Nat)
  BY <1>1, <1>4
<1>7. RetriesAreSpent' /\ VectorsAreAligned'
  BY <1>1, <1>4 DEF RetriesAreSpent, VectorsAreAligned
<1> QED BY <1>1, <1>4, <1>5, <1>6, <1>7 DEF CallInv

\* The client never refuses its own batch.
LEMMA SendBatchInv ==
  ASSUME TextInv, CallInv, SendBatch
  PROVE  CallInv' /\ call = "idle" /\ Post
<1>1. stage = "chunked" /\ Len(vectors) < Len(chunks) /\ UNCHANGED <<text_vars, vectors>>
  BY DEF SendBatch
<1>2. PICK m \in Nat : m <= MAX_BATCH_SIZE /\ Cardinality(Batch) = m
  BY <1>1, BatchHolds DEF TextInv
<1>3. Post
  <2>1. ~(Cardinality(Batch) > MAX_BATCH_SIZE)
    BY <1>2, BatchAssumption
  <2> QED BY <2>1, Zenon DEF SendBatch
<1>4. call = "idle" /\ call' = "posted" /\ attempt' = 1 /\ UNCHANGED <<stage, chunks, vectors>>
  BY <1>1, <1>3 DEF Post, text_vars
<1>5. vectors \in Seq(Nat) /\ VectorsAreAligned
  BY DEF CallInv
<1>6. RetriesAreSpent' /\ VectorsAreAligned'
  BY <1>4, <1>5, CallAssumption DEF RetriesAreSpent, VectorsAreAligned
<1>7. CallInv'
  BY <1>1, <1>4, <1>5, <1>6 DEF CallInv
<1> QED BY <1>3, <1>4, <1>7

\* Vectors are added for a whole batch, in its order, or none are.
LEMMA ReceiveVectorsInv ==
  ASSUME TextInv, CallInv, NEW items \in Replies, ReceiveVectors(items)
  PROVE  /\ CallInv'
         /\ (call' = "raised" /\ UNCHANGED vectors) \/ Len(vectors') > Len(vectors)
<1>1. /\ call = "posted" /\ stage = "chunked" /\ attempt > 0 /\ attempt \in Nat
      /\ UNCHANGED <<stage, chunks>> /\ Len(vectors) < Len(chunks)
  BY DEF ReceiveVectors, CallInv, text_vars
<1>2. CASE Len(items) = Cardinality(Batch)
  <2>1. Answered /\ vectors' = vectors \o Ordered(items)
    BY <1>2 DEF ReceiveVectors
  <2>2. PICK m \in Nat \ {0} :
          /\ Len(vectors) + m <= Len(chunks)
          /\ Ordered(items) \in Seq(Nat) /\ Len(Ordered(items)) = m
          /\ \A n \in 1..m : Ordered(items)[n] = Len(vectors) + n
    BY <1>1, <1>2, OrderedIsAligned DEF TextInv
  <2>3. vectors \in Seq(Nat) /\ VectorsAreAligned
    BY DEF CallInv
  <2>4. call' = "idle" /\ attempt' = 0 /\ error' = error
    BY <2>1 DEF Answered
  <2>5. PICK old, more \in Seq(Nat) :
          /\ old = vectors /\ more = Ordered(items) /\ vectors' = old \o more
          /\ Len(more) = m /\ \A n \in 1..m : more[n] = Len(old) + n
    BY <2>1, <2>2, <2>3
  <2>6. PICK new \in Seq(Nat) : new = vectors' /\ new = old \o more
    <3>1. old \o more \in Seq(Nat)
      OBVIOUS
    <3> QED BY <2>5, <3>1, Zenon
  <2>7. PICK done \in Nat : done = Len(old)
    OBVIOUS
  <2>8. Len(new) = done + m
    <3>1. Len(old \o more) = Len(old) + Len(more)
      OBVIOUS
    <3> QED BY <2>5, <2>6, <2>7, <3>1, Zenon
  <2>9. ASSUME NEW n \in 1..(done + m)
        PROVE  new[n] = n
    <3>1. CASE n <= done
      <4>1. new[n] = old[n] /\ n \in DOMAIN old
        BY <2>6, <2>7, <3>1
      <4> QED BY <2>3, <2>5, <4>1 DEF VectorsAreAligned
    <3>2. CASE n > done
      <4>1. new[n] = more[n - done] /\ n - done \in 1..m
        <5>1. /\ Len(old) = done /\ Len(more) = m /\ new = old \o more
              /\ n \in Nat /\ n <= done + m
          BY <2>5, <2>6, <2>7
        <5>2. n \in 1..(Len(old) + Len(more)) /\ ~ (n <= Len(old))
          BY ONLY <3>2, <5>1, done \in Nat, m \in Nat \ {0}
        <5>3. (old \o more)[n] = more[n - Len(old)]
          BY ONLY <5>2, ConcatProperties, old \in Seq(Nat), more \in Seq(Nat)
        <5>4. n - done \in 1..m
          BY ONLY <3>2, <5>1, done \in Nat, m \in Nat \ {0}
        <5> QED BY ONLY <5>1, <5>3, <5>4
      <4>2. more[n - done] = done + (n - done)
        BY ONLY <2>5, <2>7, <4>1
      <4> QED BY ONLY <4>1, <4>2, <2>7, done \in Nat, n \in 1..(done + m), m \in Nat \ {0}
    <3> QED BY <2>7, <3>1, <3>2
  <2>10. VectorsAreAligned'
    <3>1. \A n \in DOMAIN new : new[n] = n
      BY <2>6, <2>8, <2>9
    <3>2. \A n \in DOMAIN vectors' : vectors'[n] = n
      BY <2>6, <3>1, Zenon
    <3> QED BY <3>2 DEF VectorsAreAligned
  <2>11. RetriesAreSpent'
    BY <2>4, CallAssumption DEF RetriesAreSpent
  <2>12. /\ vectors' \in Seq(Nat) /\ Len(vectors') <= Len(chunks) /\ Len(vectors') > Len(vectors)
    BY <2>2, <2>5, <2>6, <2>7, <2>8
  <2>13. CallInv'
    BY <1>1, <2>4, <2>10, <2>11, <2>12 DEF CallInv
  <2> QED BY <2>12, <2>13
<1>3. CASE Len(items) # Cardinality(Batch)
  <2>1. Raise(Error(DEFAULT_CODE, FALSE)) /\ UNCHANGED vectors
    BY <1>3 DEF ReceiveVectors
  <2>2. ~Error(DEFAULT_CODE, FALSE).retryable
    BY DEF Error
  <2>3. CallInv'
    BY <1>1, <2>1, <2>2, RaiseInv
  <2> QED BY <2>1, <2>3 DEF Raise
<1> QED BY <1>2, <1>3

\* What cannot be read is raised at once.
LEMMA ReceiveNonsenseInv ==
  ASSUME TextInv, CallInv, ReceiveNonsense
  PROVE  CallInv'
<1>1. /\ Raise(Error(DEFAULT_CODE, FALSE)) /\ UNCHANGED <<stage, chunks, vectors>>
      /\ stage = "chunked" /\ attempt > 0
  BY DEF ReceiveNonsense, CallInv, text_vars
<1>2. ~Error(DEFAULT_CODE, FALSE).retryable
  BY DEF Error
<1> QED BY <1>1, <1>2, RaiseInv

\* A retry is one more attempt, and none is made after the last.
LEMMA CallStepInv ==
  ASSUME TextInv, CallInv, CallStep
  PROVE  CallInv'
<1>1. UNCHANGED <<stage, chunks, vectors>>
  BY DEF CallStep, text_vars
<1>2. /\ attempt \in Nat /\ vectors \in Seq(Nat) /\ Len(vectors) <= Len(chunks)
      /\ attempt <= MAX_RETRIES /\ VectorsAreAligned /\ RetriesAreSpent
  BY DEF CallInv, RetriesAreSpent
<1>3. VectorsAreAligned'
  BY <1>1, <1>2 DEF VectorsAreAligned
<1>4. ASSUME NEW e \in RequestErrors, RequestFails(e)
      PROVE  CallInv'
  <2>1. call = "posted" /\ stage = "chunked" /\ attempt > 0 /\ Len(vectors) < Len(chunks)
    BY <1>4 DEF RequestFails, CallInv
  <2>2. CASE MayRetry(e)
    <3>1. call' = "pausing" /\ attempt' = attempt /\ error' = error /\ attempt < MAX_RETRIES
      BY <1>4, <2>2 DEF RequestFails, MayRetry
    <3>2. RetriesAreSpent'
      BY <1>2, <3>1 DEF RetriesAreSpent
    <3> QED BY <1>1, <1>2, <1>3, <2>1, <3>1, <3>2 DEF CallInv
  <2>3. CASE ~MayRetry(e)
    <3>1. Raise(e)
      BY <1>4, <2>3 DEF RequestFails
    <3>2. e.retryable => ~(attempt < MAX_RETRIES)
      BY <2>3 DEF MayRetry
    <3>3. ~(attempt < MAX_RETRIES) => attempt = MAX_RETRIES
      BY <1>2, CallAssumption
    <3>4. e.retryable => attempt = MAX_RETRIES
      BY <3>2, <3>3, Zenon
    <3> QED BY <1>1, <2>1, <3>1, <3>4, RaiseInv
  <2> QED BY <2>2, <2>3
<1>5. ASSUME BodyIsNoJson
      PROVE  CallInv'
  <2>1. Raise(Surprise) /\ stage = "chunked" /\ attempt > 0
    BY <1>5 DEF BodyIsNoJson, CallInv
  <2>2. ~Surprise.retryable
    BY DEF Surprise, Error
  <2> QED BY <1>1, <2>1, <2>2, RaiseInv
<1>6. ASSUME Retry
      PROVE  CallInv'
  <2>1. /\ call = "pausing" /\ call' = "posted" /\ attempt' = attempt + 1 /\ error' = error
        /\ attempt < MAX_RETRIES /\ stage = "chunked" /\ Len(vectors) < Len(chunks)
    BY <1>6 DEF Retry, CallInv
  <2>2. RetriesAreSpent'
    BY <1>2, <2>1, CallAssumption DEF RetriesAreSpent
  <2> QED BY <1>1, <1>2, <1>3, <2>1, <2>2 DEF CallInv
<1> QED BY <1>4, <1>5, <1>6 DEF CallStep
-----------------------------------------------------------------------------
(* The invariant holds.                                                    *)

Inv == TextInv /\ CallInv

\* Nothing is parsed yet, and no call is made.
LEMMA InitInv ==
  ASSUME Init
  PROVE  Inv
<1>1. TextInv
  BY TextStarts DEF Init
<1>2. chunks = <<>> /\ stage = "parsing" /\ call = "idle" /\ attempt = 0 /\ vectors = <<>>
  BY DEF Init, TextInit, CallInit
<1>3. CallInv
  BY <1>2, CallAssumption DEF CallInv, RetriesAreSpent, VectorsAreAligned
<1> QED BY <1>1, <1>3 DEF Inv

\* Every step preserves both halves.
LEMMA NextInv ==
  ASSUME Inv, [Next]_vars
  PROVE  Inv'
<1>1. TextInv /\ CallInv
  BY DEF Inv
<1>2. CASE ReadText
  <2>1. TextInv'
    BY <1>1, <1>2, TextNextInv DEF ReadText
  <2> QED BY <1>1, <1>2, <2>1, ReadTextKeepsCalls DEF Inv
<1>3. ASSUME UNCHANGED text_vars
      PROVE  TextInv'
  BY <1>1, <1>3, TextNextInv
<1>4. CASE SendBatch
  BY <1>1, <1>3, <1>4, SendBatchInv DEF Inv, SendBatch
<1>5. ASSUME NEW items \in Replies, ReceiveVectors(items)
      PROVE  Inv'
  BY <1>1, <1>3, <1>5, ReceiveVectorsInv DEF Inv, ReceiveVectors
<1>6. CASE ReceiveNonsense
  BY <1>1, <1>3, <1>6, ReceiveNonsenseInv DEF Inv, ReceiveNonsense
<1>7. CASE CallStep
  BY <1>1, <1>3, <1>7, CallStepInv DEF Inv, CallStep
<1>8. CASE UNCHANGED vars
  <2>1. UNCHANGED text_vars /\ UNCHANGED <<call, attempt, error, vectors, stage, chunks>>
    BY <1>8 DEF vars, call_vars, text_vars
  <2>2. CallInv'
    BY <1>1, <2>1 DEF CallInv, RetriesAreSpent, VectorsAreAligned
  <2> QED BY <1>3, <2>1, <2>2 DEF Inv
<1> QED BY <1>2, <1>4, <1>5, <1>6, <1>7, <1>8 DEF Next, StayOver

\* The invariant of the proofs below: where the parser, the chunker and the calls are.
THEOREM InvHolds == Spec => []Inv
<1> USE DEF Inv
<1>1. Init => Inv
  BY InitInv
<1>2. Inv /\ [Next]_vars => Inv'
  BY NextInv
<1> QED BY <1>1, <1>2, PTL DEF Spec
-----------------------------------------------------------------------------
(* Every step leaves less to do.                                           *)

\* The parts of WorkLeft.
LoopsLeft == CASE stage = "parsing" -> 2 [] stage = "chunking" -> 1 [] OTHER -> 0
RoundsLeft ==
  CASE stage = "chunking" -> Len(blocks) - next + 1
    [] stage = "parsing" /\ document.mime = "pdf" -> Len(document.pages) - next + 1
    [] stage = "parsing" /\ document.mime = "text" /\ unread # Finished -> Len(document.pages[1]) - unread + 1
    [] OTHER -> 0
TextLeft == IF stage = "chunking" /\ next <= Len(blocks) THEN Len(blocks[next].text) - cursor ELSE 0
VectorsLeft == Len(chunks) - Len(vectors)
OutcomesLeft == IF call = "raised" THEN 0 ELSE 1
AttemptsLeft == MAX_RETRIES - attempt
AnswersLeft == IF call = "posted" THEN 1 ELSE 0

\* What the text loops leave alone, and what they and the calls do.
LoopsStand == LoopsLeft' = LoopsLeft /\ RoundsLeft' = RoundsLeft /\ TextLeft' = TextLeft
LoopsDescend ==
  \/ LoopsLeft' < LoopsLeft
  \/ LoopsLeft' = LoopsLeft /\ RoundsLeft' < RoundsLeft
  \/ LoopsLeft' = LoopsLeft /\ RoundsLeft' = RoundsLeft /\ TextLeft' < TextLeft
CallsDescend ==
  \/ VectorsLeft' < VectorsLeft
  \/ VectorsLeft' = VectorsLeft /\ OutcomesLeft' < OutcomesLeft
  \/ VectorsLeft' = VectorsLeft /\ OutcomesLeft' = OutcomesLeft /\ AttemptsLeft' < AttemptsLeft
  \/ /\ VectorsLeft' = VectorsLeft /\ OutcomesLeft' = OutcomesLeft /\ AttemptsLeft' = AttemptsLeft
     /\ AnswersLeft' < AnswersLeft

\* Nothing is owed.
WorkIsLeft == \A k \in 1..7 : WorkLeft[k] >= 0
Descends ==
  \E k \in 1..7 : /\ WorkLeft'[k] < WorkLeft[k]
                  /\ \A j \in 1..(k - 1) : WorkLeft'[j] = WorkLeft[j]

\* The loops of the text come before those of the calls.
LEMMA LoopsComeFirst ==
  ASSUME LoopsDescend \/ (LoopsStand /\ CallsDescend)
  PROVE  Descends
<1>1. /\ WorkLeft[1] = LoopsLeft /\ WorkLeft[2] = RoundsLeft /\ WorkLeft[3] = TextLeft
      /\ WorkLeft[4] = VectorsLeft /\ WorkLeft[5] = OutcomesLeft /\ WorkLeft[6] = AttemptsLeft
      /\ WorkLeft[7] = AnswersLeft
  BY DEF WorkLeft, LoopsLeft, RoundsLeft, TextLeft, VectorsLeft, OutcomesLeft, AttemptsLeft,
         AnswersLeft
<1>2. /\ WorkLeft'[1] = LoopsLeft' /\ WorkLeft'[2] = RoundsLeft' /\ WorkLeft'[3] = TextLeft'
      /\ WorkLeft'[4] = VectorsLeft' /\ WorkLeft'[5] = OutcomesLeft' /\ WorkLeft'[6] = AttemptsLeft'
      /\ WorkLeft'[7] = AnswersLeft'
  BY DEF WorkLeft, LoopsLeft, RoundsLeft, TextLeft, VectorsLeft, OutcomesLeft, AttemptsLeft,
         AnswersLeft
<1> DEFINE Same(j) == WorkLeft'[j] = WorkLeft[j]
           Less(k) == WorkLeft'[k] < WorkLeft[k]
<1>3. ASSUME NEW k \in 1..7, Less(k), \A j \in 1..(k - 1) : Same(j)
      PROVE  Descends
  BY <1>3 DEF Descends
<1> HIDE DEF Same, Less
<1>4. \/ Less(1) \/ (Same(1) /\ Less(2)) \/ (Same(1) /\ Same(2) /\ Less(3))
      \/ /\ Same(1) /\ Same(2) /\ Same(3)
         /\ \/ Less(4) \/ (Same(4) /\ Less(5)) \/ (Same(4) /\ Same(5) /\ Less(6))
            \/ (Same(4) /\ Same(5) /\ Same(6) /\ Less(7))
  BY <1>1, <1>2, Zenon DEF LoopsDescend, LoopsStand, CallsDescend, Same, Less
<1>5. CASE Less(1)
  BY <1>3, <1>5
<1>6. CASE Same(1) /\ Less(2)
  <2>1. \A j \in 1..(2 - 1) : j = 1
    OBVIOUS
  <2> QED BY <1>3, <1>6, <2>1
<1>7. CASE Same(1) /\ Same(2) /\ Less(3)
  <2>1. \A j \in 1..(3 - 1) : j = 1 \/ j = 2
    OBVIOUS
  <2> QED BY <1>3, <1>7, <2>1
<1>8. CASE Same(1) /\ Same(2) /\ Same(3) /\ Less(4)
  <2>1. \A j \in 1..(4 - 1) : j = 1 \/ j = 2 \/ j = 3
    OBVIOUS
  <2> QED BY <1>3, <1>8, <2>1
<1>9. CASE Same(1) /\ Same(2) /\ Same(3) /\ Same(4) /\ Less(5)
  <2>1. \A j \in 1..(5 - 1) : j = 1 \/ j = 2 \/ j = 3 \/ j = 4
    OBVIOUS
  <2> QED BY <1>3, <1>9, <2>1
<1>10. CASE Same(1) /\ Same(2) /\ Same(3) /\ Same(4) /\ Same(5) /\ Less(6)
  <2>1. \A j \in 1..(6 - 1) : j = 1 \/ j = 2 \/ j = 3 \/ j = 4 \/ j = 5
    OBVIOUS
  <2> QED BY <1>3, <1>10, <2>1
<1>11. CASE Same(1) /\ Same(2) /\ Same(3) /\ Same(4) /\ Same(5) /\ Same(6) /\ Less(7)
  <2>1. \A j \in 1..(7 - 1) : j = 1 \/ j = 2 \/ j = 3 \/ j = 4 \/ j = 5 \/ j = 6
    OBVIOUS
  <2> QED BY <1>3, <1>11, <2>1
<1> QED BY <1>4, <1>5, <1>6, <1>7, <1>8, <1>9, <1>10, <1>11, Zenon

\* No loop runs past its end.
LEMMA InvLeavesWork ==
  ASSUME Inv
  PROVE  WorkIsLeft
<1>1. TextTypes /\ ReadingInv /\ ChunksInv /\ CallInv
  BY DEF Inv, TextInv
<1>2. LoopsLeft >= 0 /\ OutcomesLeft >= 0 /\ AnswersLeft >= 0
  BY DEF LoopsLeft, OutcomesLeft, AnswersLeft
<1>3. AttemptsLeft >= 0
  BY <1>1, CallAssumption DEF CallInv, RetriesAreSpent, AttemptsLeft
<1>4. VectorsLeft >= 0
  BY <1>1 DEF CallInv, TextTypes, VectorsLeft
<1>5. next \in Nat /\ cursor \in Nat /\ Len(blocks) \in Nat
  BY <1>1 DEF TextTypes
<1>6. TextLeft >= 0
  <2>1. CASE stage = "chunking" /\ next <= Len(blocks)
    <3>1. PICK left \in Nat : left = Len(blocks[next].text)
      <4>1. blocks[next] \in Span
        BY <1>1, <2>1 DEF TextTypes
      <4>2. Len(blocks[next].text) \in Nat
        BY <4>1 DEF Span, Text
      <4> QED BY <4>2
    <3>2. cursor < left
      BY <1>1, <2>1, <3>1 DEF ChunksInv
    <3> QED BY <1>5, <2>1, <3>1, <3>2 DEF TextLeft
  <2>2. CASE ~(stage = "chunking" /\ next <= Len(blocks))
    BY <2>2 DEF TextLeft
  <2> QED BY <2>1, <2>2
<1>7. RoundsLeft >= 0
  <2>1. CASE stage = "chunking"
    BY <1>1, <1>5, <2>1 DEF ChunksInv, RoundsLeft
  <2>2. CASE stage = "parsing" /\ document.mime = "pdf"
    <3>1. PICK all \in Nat : all = Len(document.pages) /\ next <= all + 1
      BY <1>1, <2>2, DocumentTypes DEF ReadingInv
    <3>2. RoundsLeft = all - next + 1
      BY <1>5, <2>2, <3>1 DEF RoundsLeft
    <3> QED BY <1>5, <3>1, <3>2
  <2>3. CASE stage = "parsing" /\ document.mime = "text" /\ unread # Finished
    <3>1. document.mime = "text" /\ unread \in Nat
      BY <1>1, <2>3, DocumentTypes DEF TextTypes
    <3>2. unread <= Len(SoFar) /\ SoFar = document.pages[1]
      BY <1>1, <2>3, <3>1 DEF ReadingInv, SoFar
    <3>3. PICK all \in Nat : all = Len(document.pages[1])
      BY <1>1, <3>1, DocumentTypes DEF Text
    <3>4. unread <= all
      BY <3>2, <3>3
    <3> QED BY <2>3, <3>1, <3>3, <3>4 DEF RoundsLeft
  <2>4. CASE stage # "chunking" /\ ~(stage = "parsing" /\ (document.mime = "pdf" \/ unread # Finished))
    BY <2>4 DEF RoundsLeft
  <2> QED BY <1>1, <2>1, <2>2, <2>3, <2>4, DocumentTypes
<1>8. /\ WorkLeft[1] = LoopsLeft /\ WorkLeft[2] = RoundsLeft /\ WorkLeft[3] = TextLeft
      /\ WorkLeft[4] = VectorsLeft /\ WorkLeft[5] = OutcomesLeft /\ WorkLeft[6] = AttemptsLeft
      /\ WorkLeft[7] = AnswersLeft
  BY DEF WorkLeft, LoopsLeft, RoundsLeft, TextLeft, VectorsLeft, OutcomesLeft, AttemptsLeft,
         AnswersLeft
<1>9. \A k \in 1..7 : k = 1 \/ k = 2 \/ k = 3 \/ k = 4 \/ k = 5 \/ k = 6 \/ k = 7
  OBVIOUS
<1> QED BY <1>2, <1>3, <1>4, <1>6, <1>7, <1>8, <1>9 DEF WorkIsLeft

\* Every round of the parser and the chunker reads on, opens the next block, or ends its loop.
LEMMA TextDescends ==
  ASSUME TextInv, TextNext
  PROVE  LoopsDescend
<1>1. TextTypes /\ ReadingInv /\ ChunksInv
  BY DEF TextInv
<1>2. next \in Nat /\ cursor \in Nat /\ Len(blocks) \in Nat
  BY <1>1 DEF TextTypes
<1>3. CASE ParseBlock
  <2>1. /\ stage = "parsing" /\ stage' = "parsing" /\ document' = document /\ document.mime = "text"
        /\ unread # Finished /\ unread \in Nat
    BY <1>1, <1>3 DEF ParseBlock, TextTypes
  <2>2. PICK text \in Text : text = document.pages[1] /\ SoFar = text
    BY <1>1, <2>1, DocumentTypes DEF SoFar
  <2>3. PICK end \in Nat : ReadsTo(text, end)
    BY <1>3, <2>2, ParseBlockReads
  <2>4. PICK all \in Nat : all = Len(text)
    BY DEF Text
  <2>5. end \in unread..all /\ (unread' = Finished \/ unread' \in (end + 1)..all)
    BY <2>3, <2>4 DEF ReadsTo
  <2>6. unread' = Finished \/ (unread' \in Nat /\ unread' > unread /\ unread' # Finished)
    BY <2>1, <2>5 DEF Finished
  <2>7. RoundsLeft = all - unread + 1
    BY <2>1, <2>2, <2>4 DEF RoundsLeft
  <2>8. RoundsLeft' = IF unread' = Finished THEN 0 ELSE all - unread' + 1
    BY <2>1, <2>2, <2>4 DEF RoundsLeft
  <2>9. RoundsLeft' < RoundsLeft
    <3>1. CASE unread' = Finished
      <4>1. unread \in Nat /\ unread <= all
        BY ONLY <2>1, <2>5, all \in Nat, end \in Nat
      <4>2. RoundsLeft' = 0
        BY ONLY <2>8, <3>1
      <4> QED BY ONLY <2>7, <4>1, <4>2, all \in Nat
    <3>2. CASE unread' # Finished
      <4>1. PICK before \in Nat, after \in Nat :
              before = unread /\ after = unread' /\ before < after
        BY ONLY <2>1, <2>6, <3>2
      <4>2. RoundsLeft' = all - after + 1 /\ RoundsLeft = all - before + 1
        BY ONLY <2>7, <2>8, <3>2, <4>1
      <4>3. all - after + 1 < all - before + 1
        <5>1. before < after
          BY ONLY <4>1
        <5> QED BY ONLY <5>1, all \in Nat, before \in Nat, after \in Nat
      <4> QED BY ONLY <4>2, <4>3
    <3> QED BY ONLY <3>1, <3>2
  <2>10. LoopsLeft' = LoopsLeft
    BY <2>1 DEF LoopsLeft
  <2> QED BY <2>9, <2>10 DEF LoopsDescend
<1>4. CASE ParsePage
  <2>1. /\ stage = "parsing" /\ stage' = "parsing" /\ document' = document /\ document.mime = "pdf"
        /\ next' = next + 1
    BY <1>4 DEF ParsePage
  <2>2. PICK all \in Nat : all = Len(document.pages)
    BY <1>1, DocumentTypes
  <2> PICK at \in Nat : at = next' /\ at = next + 1
    BY <1>2, <2>1
  <2>3. RoundsLeft = all - next + 1
    BY <1>2, <2>1, <2>2 DEF RoundsLeft
  <2>4. RoundsLeft' = all - at + 1
    BY <1>2, <2>1, <2>2 DEF RoundsLeft
  <2>5. RoundsLeft' < RoundsLeft
    BY <1>2, <2>3, <2>4
  <2>6. LoopsLeft' = LoopsLeft
    BY <2>1 DEF LoopsLeft
  <2> QED BY <2>5, <2>6 DEF LoopsDescend
<1>5. CASE RejectPage \/ StartChunking
  <2>1. stage = "parsing" /\ stage' \in {"unreadable", "chunking"}
    BY <1>5 DEF RejectPage, StartChunking
  <2> QED BY <2>1 DEF LoopsDescend, LoopsLeft
<1>6. CASE CutWindow
  <2>1. stage = "chunking" /\ stage' = "chunking" /\ blocks' = blocks /\ next <= Len(blocks)
    BY <1>6 DEF CutWindow, parsing
  <2>2. LoopsLeft' = LoopsLeft
    BY <2>1 DEF LoopsLeft
  <2>3. PICK block \in Span : block = blocks[next]
    BY <1>6, CutWindowCuts
  <2>4. PICK end \in Nat : CutsTo(block, end)
    BY <1>6, <2>3, CutWindowCuts
  <2>5. RoundsLeft = Len(blocks) - next + 1 /\ RoundsLeft' = Len(blocks) - next' + 1
    BY <2>1 DEF RoundsLeft
  <2>6. CASE next' = next + 1
    BY <1>2, <2>2, <2>5, <2>6 DEF LoopsDescend
  <2>7. CASE next' = next /\ cursor' \in (cursor + 1)..end
    <3>1. PICK all \in Nat : all = Len(block.text)
      BY DEF Span, Text
    <3>2. TextLeft = all - cursor
      BY <2>1, <2>3, <3>1 DEF TextLeft
    <3>3. TextLeft' = all - cursor'
      BY <2>1, <2>3, <2>7, <3>1 DEF TextLeft
    <3>4. PICK at \in Nat : at = cursor' /\ cursor < at
      BY <1>2, <2>7
    <3>5. TextLeft' < TextLeft
      BY <1>2, <3>1, <3>2, <3>3, <3>4
    <3> QED BY <2>2, <2>5, <2>7, <3>5 DEF LoopsDescend
  <2> QED BY <2>4, <2>6, <2>7 DEF CutsTo
<1>7. CASE EndChunking
  BY <1>7 DEF EndChunking, LoopsDescend, LoopsLeft
<1> QED BY <1>3, <1>4, <1>5, <1>6, <1>7 DEF TextNext

\* Every step of a call brings vectors, the answer, the end, or uses an attempt up.
LEMMA CallDescends ==
  ASSUME Inv, UNCHANGED text_vars,
         \/ SendBatch \/ \E items \in Replies : ReceiveVectors(items)
         \/ ReceiveNonsense \/ CallStep
  PROVE  CallsDescend
<1>1. TextInv /\ CallInv /\ TextTypes /\ chunks' = chunks /\ Len(chunks) \in Nat /\ attempt \in Nat
      /\ vectors \in Seq(Nat)
  BY DEF Inv, TextInv, TextTypes, text_vars, CallInv
<1>2. vectors' = vectors => VectorsLeft' = VectorsLeft
  BY <1>1 DEF VectorsLeft
<1>3. ASSUME vectors' = vectors, call # "raised", call' = "raised"
      PROVE  CallsDescend
  BY <1>2, <1>3 DEF CallsDescend, OutcomesLeft
<1>4. CASE SendBatch
  <2>1. call = "idle" /\ call' = "posted" /\ attempt' = 1 /\ attempt = 0 /\ vectors' = vectors
    BY <1>1, <1>4, SendBatchInv DEF Post, CallInv, SendBatch
  <2>2. OutcomesLeft' = OutcomesLeft /\ AttemptsLeft' < AttemptsLeft
    BY <2>1, CallAssumption DEF OutcomesLeft, AttemptsLeft
  <2> QED BY <1>2, <2>1, <2>2 DEF CallsDescend
<1>5. ASSUME NEW items \in Replies, ReceiveVectors(items)
      PROVE  CallsDescend
  <2>1. call = "posted" /\ CallInv' /\ ((call' = "raised" /\ vectors' = vectors) \/ Len(vectors') > Len(vectors))
    BY <1>1, <1>5, ReceiveVectorsInv DEF ReceiveVectors
  <2>2. CASE call' = "raised" /\ vectors' = vectors
    BY <1>3, <2>1, <2>2
  <2>3. CASE Len(vectors') > Len(vectors)
    <3>1. PICK all, before, after \in Nat :
            all = Len(chunks) /\ before = Len(vectors) /\ after = Len(vectors') /\ after > before
      <4>1. Len(vectors) \in Nat /\ Len(vectors') \in Nat
        BY <1>1, <2>1 DEF CallInv
      <4> QED BY <1>1, <2>3, <4>1
    <3>2. VectorsLeft = all - before /\ VectorsLeft' = all - after
      BY <1>1, <3>1 DEF VectorsLeft
    <3> QED BY <3>1, <3>2 DEF CallsDescend
  <2> QED BY <2>1, <2>2, <2>3
<1>6. CASE ReceiveNonsense
  BY <1>3, <1>6 DEF ReceiveNonsense, Raise
<1>7. CASE CallStep
  <2>1. vectors' = vectors
    BY <1>7 DEF CallStep
  <2>2. ASSUME NEW e \in RequestErrors, RequestFails(e)
        PROVE  CallsDescend
    <3>1. CASE MayRetry(e)
      <4>1. call = "posted" /\ call' = "pausing" /\ attempt' = attempt
        BY <2>2, <3>1 DEF RequestFails
      <4> QED BY <1>2, <2>1, <4>1
              DEF CallsDescend, OutcomesLeft, AttemptsLeft, AnswersLeft
    <3>2. CASE ~MayRetry(e)
      BY <1>3, <2>1, <2>2, <3>2 DEF RequestFails, Raise
    <3> QED BY <3>1, <3>2
  <2>3. ASSUME BodyIsNoJson
        PROVE  CallsDescend
    BY <1>3, <2>1, <2>3 DEF BodyIsNoJson, Raise
  <2>4. ASSUME Retry
        PROVE  CallsDescend
    <3>1. call = "pausing" /\ call' = "posted" /\ attempt' = attempt + 1
      BY <2>4 DEF Retry
    <3>2. OutcomesLeft' = OutcomesLeft /\ AttemptsLeft' < AttemptsLeft
      BY <1>1, <3>1, CallAssumption DEF OutcomesLeft, AttemptsLeft
    <3> QED BY <1>2, <2>1, <3>2 DEF CallsDescend
  <2> QED BY <1>7, <2>2, <2>3, <2>4 DEF CallStep
<1> QED BY <1>4, <1>5, <1>6, <1>7

\* Whatever happens next, less is left to do.
LEMMA NextDescends ==
  ASSUME Inv, Next
  PROVE  Descends \/ UNCHANGED vars
<1>1. CASE ReadText
  <2>1. LoopsDescend
    BY <1>1, TextDescends DEF Inv, ReadText
  <2> QED BY <2>1, LoopsComeFirst
<1>2. CASE SendBatch \/ (\E items \in Replies : ReceiveVectors(items)) \/ ReceiveNonsense \/ CallStep
  <2>1. UNCHANGED text_vars
    BY <1>2 DEF SendBatch, ReceiveVectors, ReceiveNonsense, CallStep
  <2>2. LoopsStand
    BY <2>1 DEF text_vars, LoopsStand, LoopsLeft, RoundsLeft, TextLeft
  <2>3. CallsDescend
    BY <1>2, <2>1, CallDescends
  <2> QED BY <2>2, <2>3, LoopsComeFirst
<1> QED BY <1>1, <1>2 DEF Next, StayOver
-----------------------------------------------------------------------------
(* What follows.                                                           *)

(* A citation resolves: a chunk is the very stretch of the source its      *)
(* offsets say (recursive.py:9-10, text.py:39-41).                         *)
THEOREM ChunksResolve == Spec => []OffsetsResolve
<1>1. Inv => OffsetsResolve
  BY TextInvResolves DEF Inv
<1> QED BY InvHolds, <1>1, PTL

(* Every visible character of the source is in a chunk, whatever is cut at *)
(* paragraphs, windows, boundaries and overlaps (recursive.py:79-104).     *)
THEOREM TextIsKept == Spec => []NothingIsLost
<1>1. Inv => NothingIsLost
  BY TextInvLosesNothing DEF Inv
<1> QED BY InvHolds, <1>1, PTL

(* No chunk lies within another, where the overlap is at most a quarter of *)
(* the size and no two whitespace characters follow each other             *)
(* (recursive.py:89-102).                                                  *)
THEOREM OrdinalsFollowTheText == Spec => []ChunksReachFurther
<1>1. Inv => ChunksReachFurther
  BY TextInvReachesFurther DEF Inv
<1> QED BY InvHolds, <1>1, PTL

(* The n-th vector is that of the n-th text, through batching and whatever *)
(* order the provider answers in (pipeline.py:4-5, mistral.py:225-231).    *)
THEOREM VectorsStayAligned == Spec => []VectorsAreAligned
<1>1. Inv => VectorsAreAligned
  BY DEF Inv, CallInv
<1> QED BY InvHolds, <1>1, PTL

(* A failure that may pass is raised only when every attempt was used, and *)
(* the client never refuses its own batch (mistral.py:94-105,              *)
(* pipeline.py:23-24).                                                     *)
THEOREM AttemptsAreUsed == Spec => []RetriesAreSpent
<1>1. Inv => RetriesAreSpent
  BY DEF Inv, CallInv
<1> QED BY InvHolds, <1>1, PTL

(* Every step leaves less to do, in the order of the loops: the chunker    *)
(* never stands still, no batch is empty and no call is repeated for ever  *)
(* (recursive.py:89-91, mistral.py:94-99).                                 *)
THEOREM LoopsAdvance == Spec => EveryStepAdvances
<1> DEFINE Step == /\ \A k \in DOMAIN WorkLeft : WorkLeft[k] >= 0 /\ WorkLeft'[k] >= 0
                   /\ \E k \in DOMAIN WorkLeft : /\ WorkLeft'[k] < WorkLeft[k]
                                                  /\ \A j \in 1..(k - 1) : WorkLeft'[j] = WorkLeft[j]
<1>1. DOMAIN WorkLeft = 1..7
  BY DEF WorkLeft
<1>2. Inv => WorkIsLeft
  BY InvLeavesWork
<1>3. Inv /\ WorkIsLeft /\ WorkIsLeft' /\ [Next]_vars => [Step]_vars
  BY <1>1, NextDescends DEF WorkIsLeft, Descends
<1> QED BY InvHolds, <1>2, <1>3, PTL DEF Spec, EveryStepAdvances
=============================================================================
