------------------------------ MODULE Chunker -------------------------------
(***************************************************************************)
(* StructuralChunker (packages/retrieval/chunking.py): the sections of a   *)
(* document are cut into parts of bounded size that overlap.               *)
(*                                                                         *)
(* A document is given as what _sections and the paragraph split make of   *)
(* it: sections of non-empty paragraphs.  A character is its number in the *)
(* document, a character of a separator is 0; blanks inside a paragraph    *)
(* are left out, so strip() removes characters of separators only.  The    *)
(* steps are the rounds of the loops of _bounded_parts.  Of the chunks     *)
(* made so far the model keeps the last one and how much they cover.       *)
(***************************************************************************)
EXTENDS Integers, Sequences

CONSTANTS
    MaxChars,        \* max_chars
    OverlapChars,    \* overlap_chars
    MaxSections,     \* bound: sections of a document
    MaxParagraphs,   \* bound: paragraphs of a section
    MaxLength        \* bound: characters of a paragraph

(* What __init__ accepts, but for the lower bound of 200 on max_chars.     *)
ASSUME ChunkerAssumption ==
    /\ MaxChars \in Nat \ {0}
    /\ OverlapChars \in 0..(MaxChars - 1)
    /\ MaxSections \in Nat /\ MaxParagraphs \in Nat /\ MaxLength \in Nat

VARIABLES
    sections,        \* sections still to be cut, each a sequence of lengths
    paragraphs,      \* lengths of the section's paragraphs still to be read
    read,            \* characters of the document read so far
    remaining,       \* rest of the paragraph, a sequence of characters
    current,         \* the part being filled
    chunk,           \* the content of the last chunk
    covered,         \* the last character in a chunk
    pc               \* "section", "paragraph", "take" or "done"

vars == <<sections, paragraphs, read, remaining, current, chunk, covered, pc>>

-----------------------------------------------------------------------------

Separator == <<0, 0>>

(* There is nothing but separators in the part.                            *)
Blank(part) == \A i \in 1..Len(part) : part[i] = 0

(* text.strip(): parts end with a character of the text.                   *)
Strip(part) ==
    LET first == CHOOSE i \in 1..Len(part) :
                    part[i] # 0 /\ \A j \in 1..(i - 1) : part[j] = 0
    IN  SubSeq(part, first, Len(part))

(* The part becomes a chunk, unless there is nothing in it.                *)
Emit(part) ==
    IF Blank(part) THEN UNCHANGED <<chunk, covered>>
    ELSE /\ chunk' = Strip(part)
         /\ covered' = part[Len(part)]

(* Fault seeded in available: the separator is not counted.                *)
AvailableUnseparated == MaxChars - Len(current)

(* What fits into the current part, after a separator.                     *)
Available == MaxChars - Len(current) - (IF current = <<>> THEN 0 ELSE Len(Separator))

(* Fault seeded in the overlap: the whole part is kept.                    *)
OverlapWhole(part) == part

(* current[-overlap_chars:], or nothing.                                   *)
Overlap(part) ==
    IF Len(part) <= OverlapChars THEN part
    ELSE SubSeq(part, Len(part) - OverlapChars + 1, Len(part))

Init ==
    /\ \E n \in 0..MaxSections :
          sections \in [1..n -> UNION {[1..k -> 1..MaxLength] : k \in 1..MaxParagraphs}]
    /\ paragraphs = <<>>
    /\ read = 0
    /\ remaining = <<>>
    /\ current = <<>>
    /\ chunk = <<>>
    /\ covered = 0
    /\ pc = "section"

(* chunk takes the next section, or is done.                               *)
NextSection ==
    /\ pc = "section"
    /\ IF sections = <<>>
       THEN pc' = "done" /\ UNCHANGED <<sections, paragraphs>>
       ELSE /\ paragraphs' = Head(sections)
            /\ sections' = Tail(sections)
            /\ pc' = "paragraph"
    /\ UNCHANGED <<read, remaining, current, chunk, covered>>

(* The next paragraph is split off.                                        *)
NextParagraph ==
    /\ pc = "paragraph" /\ paragraphs # <<>>
    /\ remaining' = [i \in 1..Head(paragraphs) |-> read + i]
    /\ read' = read + Head(paragraphs)
    /\ paragraphs' = Tail(paragraphs)
    /\ pc' = "take"
    /\ UNCHANGED <<sections, current, chunk, covered>>

(* Not even the separator fits: the part is complete.                      *)
Flush ==
    /\ pc = "take" /\ remaining # <<>>
    /\ Available <= 0
    /\ Emit(current)
    /\ current' = Overlap(current)
    /\ UNCHANGED <<sections, paragraphs, read, remaining, pc>>

(* A piece of the paragraph is added; a part that is full is complete.     *)
Take ==
    LET n      == IF Len(remaining) < Available THEN Len(remaining) ELSE Available
        piece  == SubSeq(remaining, 1, n)
        filled == IF current = <<>> THEN piece ELSE current \o Separator \o piece
    IN
    /\ pc = "take" /\ remaining # <<>>
    /\ Available > 0
    /\ remaining' = SubSeq(remaining, n + 1, Len(remaining))
    /\ IF Len(filled) >= MaxChars
       THEN Emit(filled) /\ current' = Overlap(filled)
       ELSE current' = filled /\ UNCHANGED <<chunk, covered>>
    /\ UNCHANGED <<sections, paragraphs, read, pc>>

(* The while loop ends with its paragraph.                                 *)
EndParagraph ==
    /\ pc = "take" /\ remaining = <<>>
    /\ pc' = "paragraph"
    /\ UNCHANGED <<sections, paragraphs, read, remaining, current, chunk, covered>>

(* Fault seeded in _bounded_parts: a rest that is no more than an overlap  *)
(* is dropped.                                                             *)
LastPartLong ==
    /\ pc = "paragraph" /\ paragraphs = <<>>
    /\ IF Len(current) <= OverlapChars THEN UNCHANGED <<chunk, covered>> ELSE Emit(current)
    /\ current' = <<>>
    /\ pc' = "section"
    /\ UNCHANGED <<sections, paragraphs, read, remaining>>

(* What is left of the section is its last part.                           *)
LastPart ==
    /\ pc = "paragraph" /\ paragraphs = <<>>
    /\ IF current = <<>> THEN UNCHANGED <<chunk, covered>> ELSE Emit(current)
    /\ current' = <<>>
    /\ pc' = "section"
    /\ UNCHANGED <<sections, paragraphs, read, remaining>>

Next == NextSection \/ NextParagraph \/ Flush \/ Take \/ EndParagraph \/ LastPart

Spec == Init /\ [][Next]_vars /\ WF_vars(Next)

-----------------------------------------------------------------------------
(* Properties.                                                             *)

(* The text between its separators is consecutive characters of the        *)
(* document, in order.                                                     *)
Consecutive(part) ==
    \A i, j \in 1..Len(part) :
        i < j /\ part[i] # 0 /\ part[j] # 0 /\ (\A k \in (i + 1)..(j - 1) : part[k] = 0)
            => part[j] = part[i] + 1

(* No chunk is longer than max_chars, separators and overlap included, and *)
(* a chunk is one stretch of the document (_bounded_parts).                *)
ChunksBounded == Len(chunk) <= MaxChars /\ Consecutive(chunk)

(* No text is lost: a chunk begins at or before the first character that   *)
(* no chunk has yet, and when chunk returns the document is covered.       *)
TextCovered ==
    [][/\ chunk' # chunk => chunk'[1] \in 1..(covered + 1) /\ covered' >= covered
       /\ pc' = "done" => covered' = read']_vars

(* chunk returns: each round takes a character or makes room for one, for  *)
(* every document and an overlap that leaves room for a separator.         *)
ChunkReturns == <>(pc = "done")

=============================================================================
