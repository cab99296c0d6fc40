------------------------------ MODULE PythonStr ------------------------------
(***************************************************************************)
(* Python's str methods as the text code uses them.  A text is a sequence  *)
(* of characters; positions count from 0 as in Python, and the slice from  *)
(* `from` to `to` leaves the character at `to` out.                        *)
(***************************************************************************)
EXTENDS Integers, SequencesExt

IsVisible(c) == c \notin {" ", "\n"}

Slice(text, from, to) == SubSeq(text, from + 1, to)

\* The characters a slice keeps of itself when it is stripped end here and there.
Visible(text, from, to) == {i \in (from + 1)..to : IsVisible(text[i])}

\* text[from:to].strip(), and len(s) - len(s.lstrip()) of that slice, if it is not blank
Stripped(text, from, to) ==
  IF Visible(text, from, to) = {} THEN <<>>
  ELSE SubSeq(text, Min(Visible(text, from, to)), Max(Visible(text, from, to)))
Lead(text, from, to) == Min(Visible(text, from, to)) - 1 - from

Strip(text) == Stripped(text, 0, Len(text))

\* The positions at which part occurs in the slice of a text.
Occurrences(text, part, from, to) ==
  {i \in from..(to - Len(part)) : \A k \in DOMAIN part : text[i + k] = part[k]}

\* text.find(part, from), of a part known to be there
Find(text, part, from) == Min(Occurrences(text, part, from, Len(text)))
=============================================================================
