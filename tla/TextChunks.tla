----------------------------- MODULE TextChunks -----------------------------
(***************************************************************************)
(* From the bytes of a document to its chunks: a parser cuts the text into *)
(* stripped blocks, each with its offset in the source, and the chunker    *)
(* cuts every block into overlapping pieces, each with its own.  A step is *)
(* one round of a loop.                                                    *)
(*                                                                         *)
(*   document  what is parsed: a media type, and the text of each page     *)
(*   settings  chunk size and overlap                                      *)
(*   stage     which loop is running                                       *)
(*   next      the page or the block the loop is at                        *)
(*   unread    where the split of a plain text goes on, or Finished        *)
(*   cursor    the loop's own position                                     *)
(*   blocks, chunks  what was produced, with offset and page               *)
(*                                                                         *)
(* The text of a PDF has no other source than its pages: offsets count the *)
(* stripped pages that hold any text, put together with one character in   *)
(* between.  Token counts and Markdown headings are left out.              *)
(***************************************************************************)
EXTENDS PythonStr

CONSTANTS
  Documents,  \* what may be parsed
  Settings    \* CHUNK_SIZE_CHARS and CHUNK_OVERLAP_CHARS

\* A plain text has no pages; it is taken for one.
ASSUME DocumentsAssumption ==
  /\ Documents \subseteq [mime : {"text", "pdf"}, pages : Seq(Seq(STRING))]
  /\ \A d \in Documents : d.mime = "text" => Len(d.pages) = 1

VARIABLES document, settings, stage, next, unread, cursor, blocks, chunks

parsing == <<document, settings, unread, blocks>>
text_vars == <<document, settings, stage, next, unread, cursor, blocks, chunks>>

\* The constructor refuses other settings.
ASSUME SettingsAssumption ==
  /\ Settings \subseteq [size : Nat \ {0}, overlap : Nat]
  /\ \A s \in Settings : s.overlap < s.size

_SEPARATORS == << <<"\n", "\n">>, <<"\n">>, <<".", " ">>, <<" ">> >>

Finished == -1

TextInit ==
  /\ document \in Documents /\ settings \in Settings
  /\ stage = "parsing" /\ next = 1 /\ unread = 0 /\ cursor = 0
  /\ blocks = <<>> /\ chunks = <<>>
-----------------------------------------------------------------------------
(* Parsing.                                                                *)

Block(text, start, page) == [text |-> text, start |-> start, page |-> page]

\* Variant: the offset of a block forgets the whitespace in front of it.
UnstrippedPiece(text, from, to, start, page) ==
  IF Visible(text, from, to) = {} THEN <<>> ELSE <<Block(Stripped(text, from, to), start, page)>>

\* What a slice of a text that starts at `start` of the source holds, if it holds any text.
Piece(text, from, to, start, page) ==
  IF Visible(text, from, to) = {} THEN <<>>
  ELSE <<Block(Stripped(text, from, to), start + Lead(text, from, to), page)>>

\* A blank line, perhaps with spaces on it: \n[ \t]*\n from one position to another.
IsBlankLine(text, from, to) ==
  /\ to - from >= 2 /\ text[from + 1] = "\n" /\ text[to] = "\n"
  /\ \A i \in (from + 2)..(to - 1) : text[i] = " "

BlankLines(text, from) ==
  {span \in (from..Len(text)) \X (from..Len(text)) : IsBlankLine(text, span[1], span[2])}

\* The text is split at blank lines, the first one first, none inside another.
ParseBlock ==
  /\ stage = "parsing" /\ document.mime = "text" /\ unread # Finished
  /\ LET text == document.pages[1]
         gaps == BlankLines(text, unread)
         gap == CHOOSE g \in gaps : \A h \in gaps : g[1] <= h[1]
         end == IF gaps = {} THEN Len(text) ELSE gap[1]
         start == Find(text, Slice(text, unread, end), cursor)
     IN /\ blocks' = blocks \o Piece(text, unread, end, start, 0)
        /\ cursor' = start + (end - unread)
        /\ unread' = IF gaps = {} THEN Finished ELSE gap[2]
  /\ UNCHANGED <<document, settings, stage, next, chunks>>

\* A page without text is skipped and takes no room.
ParsePage ==
  /\ stage = "parsing" /\ document.mime = "pdf" /\ next <= Len(document.pages)
  /\ LET text == Strip(document.pages[next])
     IN IF text = <<>>
        THEN UNCHANGED <<blocks, cursor>>
        ELSE /\ blocks' = Append(blocks, Block(text, cursor, next))
             /\ cursor' = cursor + Len(text) + 1
  /\ next' = next + 1
  /\ UNCHANGED <<document, settings, stage, unread, chunks>>

\* A page cannot be extracted: PARSING_FAILED.
RejectPage ==
  /\ stage = "parsing" /\ document.mime = "pdf" /\ next <= Len(document.pages)
  /\ stage' = "unreadable"
  /\ UNCHANGED <<parsing, next, cursor, chunks>>

StartChunking ==
  /\ stage = "parsing"
  /\ IF document.mime = "pdf" THEN next > Len(document.pages) ELSE unread = Finished
  /\ stage' = "chunking" /\ next' = 1 /\ cursor' = 0
  /\ UNCHANGED <<parsing, chunks>>
-----------------------------------------------------------------------------
(* Chunking.                                                               *)

\* Variant: a separator ends the window however early it comes.
EarlyCuts(text, separator, start, end) ==
  {i + Len(separator) : i \in {j \in Occurrences(text, separator, start, end) :
                                 \A k \in Occurrences(text, separator, start, end) : k <= j}}

\* Where a separator ends the window of a block: its last occurrence, not too early.
Cuts(text, separator, start, end) ==
  {i + Len(separator) : i \in {j \in Occurrences(text, separator, start, end) :
                                 /\ j - start > settings.size \div 4
                                 /\ \A k \in Occurrences(text, separator, start, end) : k <= j}}

\* Of the separators that end the window, the widest does.
Boundary(text, start, end) ==
  LET usable == {s \in DOMAIN _SEPARATORS : Cuts(text, _SEPARATORS[s], start, end) # {}}
  IN IF usable = {} THEN end ELSE Max(Cuts(text, _SEPARATORS[Min(usable)], start, end))

\* Where the window at the cursor ends.
WindowEnd(text) ==
  LET end == Min({cursor + settings.size, Len(text)})
  IN IF end < Len(text) THEN Boundary(text, cursor, end) ELSE end

\* Variant: the step back by the overlap may undo the whole step.
CarelessStep(end) == end - settings.overlap

\* Steps back by the overlap, but always advances.
NextWindow(end) == Max({cursor + 1, end - settings.overlap})

\* Variant: what is no longer than the overlap is taken to be in the last window.
StopsInOverlap(text, end) == end + settings.overlap >= Len(text)

IsLastWindow(text, end) == end >= Len(text)

CutWindow ==
  /\ stage = "chunking" /\ next <= Len(blocks)
  /\ LET block == blocks[next]
         end == WindowEnd(block.text)
     IN /\ chunks' = chunks \o Piece(block.text, cursor, end, block.start + cursor, block.page)
        /\ IF IsLastWindow(block.text, end)
           THEN next' = next + 1 /\ cursor' = 0
           ELSE cursor' = NextWindow(end) /\ UNCHANGED next
  /\ UNCHANGED <<parsing, stage>>

EndChunking ==
  /\ stage = "chunking" /\ next > Len(blocks)
  /\ stage' = "chunked"
  /\ UNCHANGED <<parsing, next, cursor, chunks>>

TextNext ==
  ParseBlock \/ ParsePage \/ RejectPage \/ StartChunking \/ CutWindow \/ EndChunking
-----------------------------------------------------------------------------
\* The stripped pages that hold any text, of the first n, put together.
Joined(pages) ==
  LET upTo[n \in 0..Len(pages)] ==
        IF n = 0 THEN <<>>
        ELSE LET page == Strip(pages[n])
                 before == upTo[n - 1]
             IN before \o (IF <<>> \in {before, page} THEN page ELSE <<"\n">> \o page)
  IN upTo

\* What offsets refer to.
Source ==
  IF document.mime = "text" THEN document.pages[1]
  ELSE Joined(document.pages)[Len(document.pages)]

EndOf(chunk) == chunk.start + Len(chunk.text)

(* A citation resolves: every chunk is the very stretch of the source its  *)
(* offsets say, without whitespace around it, no longer than a chunk may   *)
(* be, and text of the page it names (recursive.py:9-10, text.py:39-41).   *)
OffsetsResolve ==
  stage # "unreadable" =>
    \A i \in DOMAIN chunks :
      LET chunk == chunks[i] IN
      /\ Slice(Source, chunk.start, EndOf(chunk)) = chunk.text
      /\ chunk.text = Strip(chunk.text) /\ Len(chunk.text) \in 1..settings.size
      /\ chunk.page > 0 =>
           LET page == document.pages[chunk.page]
           IN Occurrences(page, chunk.text, 0, Len(page)) # {}

(* Nothing is lost: every visible character of the source is in a chunk,   *)
(* whatever is cut at paragraphs, windows, boundaries and overlaps.        *)
NothingIsLost ==
  stage = "chunked" =>
    \A i \in DOMAIN Source :
      IsVisible(Source[i]) =>
        \E j \in DOMAIN chunks : chunks[j].start < i /\ i <= EndOf(chunks[j])

\* No two whitespace characters in a row, in any block.
IsSingleSpaced ==
  \A b \in DOMAIN blocks : \A i \in 1..(Len(blocks[b].text) - 1) :
    IsVisible(blocks[b].text[i]) \/ IsVisible(blocks[b].text[i + 1])

(* Ordinals follow the text: each chunk starts and ends later than the one *)
(* before, so none lies within another.  It takes an overlap of at most a  *)
(* quarter of the size, and no run of whitespace at a window's end: a      *)
(* window may be cut just behind a quarter, or its text end even earlier   *)
(* (recursive.py:89-102).                                                  *)
ChunksReachFurther ==
  (settings.overlap <= settings.size \div 4 /\ IsSingleSpaced) =>
    \A i \in 1..(Len(chunks) - 1) :
      /\ chunks[i].start < chunks[i + 1].start
      /\ EndOf(chunks[i]) < EndOf(chunks[i + 1])
=============================================================================
