--------------------------- MODULE ChunkerProofs ----------------------------
(***************************************************************************)
(* Proofs about module Chunker, for every document and all sizes.  The     *)
(* inductive invariant IInv says what the part being filled holds: a       *)
(* stretch of the document that ends with the last character taken and     *)
(* begins no later than the first one that is in no chunk.                 *)
(***************************************************************************)
EXTENDS Chunker, SequenceTheorems, WellFoundedInduction, TLAPS

(* The characters of a part increase and none between two is missing.      *)
Stretch(part) ==
    /\ \A i, j \in 1..Len(part) : i < j /\ part[i] # 0 /\ part[j] # 0 => part[i] < part[j]
    /\ \A i, j \in 1..Len(part) : i < j /\ part[i] # 0 /\ part[j] # 0 =>
          \A v \in part[i]..part[j] : \E k \in 1..Len(part) : part[k] = v

(* A part that can become a chunk, or nothing.                             *)
PartOK(part) ==
    /\ part \in Seq(Nat)
    /\ Len(part) <= MaxChars
    /\ Stretch(part)
    /\ part # <<>> => part[Len(part)] # 0

(* The part reaches back to the text that no chunk has yet.                *)
Reaches(part, last) == \E i \in 1..Len(part) : part[i] # 0 /\ part[i] <= last + 1

(* The characters of the document that are in a part or a chunk.           *)
Taken == read - Len(remaining)

TypeOK ==
    /\ sections \in Seq(Seq(Nat \ {0}))
    /\ paragraphs \in Seq(Nat \ {0})
    /\ read \in Nat
    /\ remaining \in Seq(Nat)
    /\ covered \in Nat
    /\ pc \in {"section", "paragraph", "take", "done"}

(* What is left of the paragraph follows what is taken.                    *)
RemainingOK ==
    /\ Len(remaining) <= read
    /\ \A i \in 1..Len(remaining) : remaining[i] = Taken + i
    /\ pc # "take" => remaining = <<>>

CurrentOK ==
    /\ PartOK(current)
    /\ Len(current) < MaxChars
    /\ current # <<>> => current[Len(current)] = Taken /\ Reaches(current, covered)
    /\ current = <<>> => covered = Taken
    /\ covered <= Taken
    /\ pc \in {"section", "done"} => current = <<>>

IInv == TypeOK /\ RemainingOK /\ CurrentOK /\ PartOK(chunk)

-----------------------------------------------------------------------------
(* Facts about parts.                                                      *)

(* A non-empty set of natural numbers has a least element.                 *)
LEMMA LeastNat ==
    ASSUME NEW S \in SUBSET Nat, S # {}
    PROVE  \E n \in S : \A m \in S : n <= m
<1>1. PICK Less : Less = {p \in Nat \X Nat : p[1] < p[2]}
  OBVIOUS
<1>2. IsWellFoundedOn(Less, Nat)
  BY <1>1, NatLessThanWellFounded DEF OpToRel
<1>3. PICK n \in S : \A m \in S : ~(<<m, n>> \in Less)
  <2>1. S \subseteq Nat
    OBVIOUS
  <2> QED
    BY <1>2, <2>1, WFMin
<1>4. \A m \in S : <<m, n>> \in Less <=> m < n
  BY <1>1
<1>5. \A m \in S : ~(m < n)
  BY <1>3, <1>4
<1> QED
  BY <1>5

(* A piece of a sequence of characters.                                    *)
LEMMA PieceType ==
    ASSUME NEW q \in Seq(Nat), NEW a \in 1..(Len(q) + 1), NEW b \in 0..Len(q), a <= b + 1
    PROVE  /\ SubSeq(q, a, b) \in Seq(Nat)
           /\ Len(SubSeq(q, a, b)) = b - a + 1
           /\ \A i \in 1..(b - a + 1) : SubSeq(q, a, b)[i] = q[a + i - 1]
<1>1. Len(q) \in Nat /\ \A i \in a..b : q[i] \in Nat
  OBVIOUS
<1>2. SubSeq(q, a, b) \in Seq(Nat)
  BY <1>1
<1>3. Len(SubSeq(q, a, b)) = b - a + 1
  BY <1>1
<1>4. \A i \in 1..(b - a + 1) : SubSeq(q, a, b)[i] = q[a + i - 1]
  BY <1>1
<1> QED
  BY <1>2, <1>3, <1>4

(* The end of a part is a part.                                            *)
LEMMA SuffixOK ==
    ASSUME NEW part, PartOK(part), NEW k \in 1..Len(part)
    PROVE  /\ PartOK(SubSeq(part, k, Len(part)))
           /\ Len(SubSeq(part, k, Len(part))) = Len(part) - k + 1
           /\ \A i \in 1..(Len(part) - k + 1) : SubSeq(part, k, Len(part))[i] = part[k + i - 1]
<1>1. part \in Seq(Nat) /\ Len(part) \in Nat /\ Len(part) <= MaxChars /\ MaxChars \in Nat
      /\ part # <<>> /\ part[Len(part)] # 0 /\ Stretch(part)
  BY ChunkerAssumption DEF PartOK
<1>2. PICK s : s = SubSeq(part, k, Len(part))
  OBVIOUS
<1>3. /\ s \in Seq(Nat) /\ Len(s) = Len(part) - k + 1
      /\ \A i \in 1..Len(s) : s[i] = part[k + i - 1]
  BY <1>1, <1>2, PieceType
<1>4. Len(s) \in Nat /\ Len(s) <= MaxChars /\ s[Len(s)] # 0
  <2>1. Len(s) \in 1..Len(s) /\ k + Len(s) - 1 = Len(part) /\ Len(s) <= MaxChars
    BY <1>1, <1>3
  <2>2. s[Len(s)] = part[k + Len(s) - 1]
    BY <1>3, <2>1
  <2>3. s[Len(s)] = part[Len(part)]
    BY <2>1, <2>2
  <2> QED
    BY <1>1, <1>3, <2>1, <2>3
<1>5. \A i \in 1..Len(s) : k + i - 1 \in 1..Len(part)
  BY <1>1, <1>3
<1>6. \A i, j \in 1..Len(s) : i < j /\ s[i] # 0 /\ s[j] # 0 => s[i] < s[j]
  <2> SUFFICES ASSUME NEW i \in 1..Len(s), NEW j \in 1..Len(s), i < j, s[i] # 0, s[j] # 0
               PROVE  s[i] < s[j]
    OBVIOUS
  <2>1. k + i - 1 \in 1..Len(part) /\ k + j - 1 \in 1..Len(part) /\ k + i - 1 < k + j - 1
    BY <1>1, <1>3, <1>5
  <2> QED
    BY <1>1, <1>3, <2>1 DEF Stretch
<1>7. ASSUME NEW i \in 1..Len(s), NEW j \in 1..Len(s), i < j, s[i] # 0, s[j] # 0,
             NEW v \in s[i]..s[j]
      PROVE  \E l \in 1..Len(s) : s[l] = v
  <2>1. PICK a \in 1..Len(part), b \in 1..Len(part) : a = k + i - 1 /\ b = k + j - 1
    BY <1>5
  <2>2. a < b /\ part[a] = s[i] /\ part[b] = s[j] /\ part[a] \in Nat /\ part[b] \in Nat
    <3>1. a < b
      BY <1>1, <1>3, <1>7, <2>1
    <3>2. part[a] = s[i] /\ part[b] = s[j]
      BY <1>3, <2>1
    <3>3. part[a] \in Nat /\ part[b] \in Nat
      BY <1>1
    <3> QED
      BY <3>1, <3>2, <3>3
  <2>3. PICK l \in 1..Len(part) : part[l] = v
    <3>1. part[a] # 0 /\ part[b] # 0 /\ v \in part[a]..part[b]
      BY <1>7, <2>2
    <3> QED
      BY <1>1, <2>2, <3>1 DEF Stretch
  <2>4. v # 0 /\ v \in Nat /\ v >= part[a] /\ part[a] # 0
    BY <1>7, <2>2
  <2>5. ~(l < a)
    <3> SUFFICES ASSUME l < a PROVE FALSE
      OBVIOUS
    <3>1. part[l] < part[a]
      BY <1>1, <2>3, <2>4 DEF Stretch
    <3> QED
      BY <2>2, <2>3, <2>4, <3>1
  <2>6. l - k + 1 \in 1..Len(s) /\ k + (l - k + 1) - 1 = l
    BY <1>1, <1>3, <2>1, <2>5
  <2> QED
    BY <1>3, <2>3, <2>6
<1>8. PartOK(s)
  BY <1>3, <1>4, <1>6, <1>7 DEF PartOK, Stretch
<1> QED
  BY <1>2, <1>3, <1>8

(* Stripping a part leaves its text.                                       *)
LEMMA StripOK ==
    ASSUME NEW part, PartOK(part), part # <<>>
    PROVE  /\ PartOK(Strip(part)) /\ Strip(part) # <<>>
           /\ Strip(part)[1] # 0 /\ Strip(part)[1] \in Nat
           /\ \A i \in 1..Len(part) : part[i] # 0 => Strip(part)[1] <= part[i]
<1>1. /\ part \in Seq(Nat) /\ Len(part) \in Nat /\ Len(part) > 0 /\ part[Len(part)] # 0
      /\ Stretch(part)
  BY DEF PartOK
<1> DEFINE S == {i \in 1..Len(part) : part[i] # 0}
<1>2. S \in SUBSET Nat /\ Len(part) \in S
  BY <1>1
<1>3. PICK n \in S : \A m \in S : n <= m
  BY <1>2, LeastNat
<1>4. \E i \in 1..Len(part) : part[i] # 0 /\ \A j \in 1..(i - 1) : part[j] = 0
  <2>1. \A j \in 1..(n - 1) : j \in 1..Len(part) /\ ~(n <= j)
    BY <1>1
  <2>2. \A j \in 1..(n - 1) : part[j] = 0
    BY <1>3, <2>1
  <2> QED
    BY <2>2
<1>5. PICK f : /\ f = (CHOOSE i \in 1..Len(part) : part[i] # 0 /\ \A j \in 1..(i - 1) : part[j] = 0)
  OBVIOUS
<1>6. f \in 1..Len(part) /\ part[f] # 0 /\ \A j \in 1..(f - 1) : part[j] = 0
  BY <1>4, <1>5
<1>7. Strip(part) = SubSeq(part, f, Len(part))
  BY <1>5 DEF Strip
<1>8. /\ PartOK(Strip(part)) /\ Len(Strip(part)) = Len(part) - f + 1
      /\ Strip(part)[1] = part[f]
  <2>1. 1 \in 1..(Len(part) - f + 1) /\ f + 1 - 1 = f
    BY <1>1, <1>6
  <2> QED
    BY <1>6, <1>7, <2>1, SuffixOK
<1>9. Strip(part) # <<>>
  BY <1>1, <1>6, <1>8 DEF PartOK
<1>10. \A i \in 1..Len(part) : part[i] # 0 => part[f] <= part[i]
  <2> SUFFICES ASSUME NEW i \in 1..Len(part), part[i] # 0
               PROVE  part[f] <= part[i]
    OBVIOUS
  <2>1. ~(i < f)
    BY <1>1, <1>6
  <2>2. part[i] \in Nat /\ part[f] \in Nat
    BY <1>1, <1>6
  <2>3. i = f \/ f < i
    BY <1>1, <1>6, <2>1
  <2> QED
    BY <1>1, <1>6, <2>2, <2>3 DEF Stretch
<1> QED
  BY <1>1, <1>6, <1>8, <1>9, <1>10

(* What is kept of a part for the next one.                                *)
LEMMA OverlapOK ==
    ASSUME NEW part, PartOK(part)
    PROVE  /\ PartOK(Overlap(part)) /\ Len(Overlap(part)) < MaxChars
           /\ Overlap(part) # <<>> => Overlap(part)[Len(Overlap(part))] = part[Len(part)]
<1>1. /\ part \in Seq(Nat) /\ Len(part) \in Nat /\ MaxChars \in Nat /\ OverlapChars \in Nat
      /\ OverlapChars < MaxChars
  BY ChunkerAssumption DEF PartOK
<1>2. CASE Len(part) <= OverlapChars
  BY <1>1, <1>2 DEF Overlap
<1>3. CASE ~(Len(part) <= OverlapChars)
  <2>1. PICK k : k = Len(part) - OverlapChars + 1 /\ k \in Nat
    <3>1. Len(part) - OverlapChars + 1 \in Nat
      BY <1>1, <1>3
    <3> QED
      BY <3>1
  <2>2. Overlap(part) = SubSeq(part, k, Len(part))
    BY <1>3, <2>1 DEF Overlap
  <2>3. CASE OverlapChars = 0
    <3>1. Overlap(part) = <<>>
      BY <1>1, <2>1, <2>2, <2>3
    <3>2. PartOK(<<>>) /\ Len(<<>>) = 0
      BY <1>1 DEF PartOK, Stretch
    <3> QED
      BY <1>1, <2>3, <3>1, <3>2
  <2>4. CASE OverlapChars # 0
    <3>1. k \in 1..Len(part)
      BY <1>1, <1>3, <2>1, <2>4
    <3>2. /\ PartOK(Overlap(part)) /\ Len(Overlap(part)) = Len(part) - k + 1
          /\ \A i \in 1..(Len(part) - k + 1) : Overlap(part)[i] = part[k + i - 1]
      BY <2>2, <3>1, SuffixOK
    <3>3. /\ Len(Overlap(part)) < MaxChars
          /\ Len(part) - k + 1 \in 1..(Len(part) - k + 1)
          /\ k + (Len(part) - k + 1) - 1 = Len(part)
      BY <1>1, <2>1, <3>1, <3>2
    <3> QED
      BY <3>2, <3>3
  <2> QED
    BY <2>3, <2>4
<1> QED
  BY <1>2, <1>3

(* A part that goes on with the next characters after a separator is one.  *)
LEMMA JoinOK ==
    ASSUME NEW part, PartOK(part), part # <<>>, NEW piece \in Seq(Nat), piece # <<>>,
           \A i \in 1..Len(piece) : piece[i] = part[Len(part)] + i,
           Len(part) + 2 + Len(piece) <= MaxChars
    PROVE  LET whole == part \o Separator \o piece IN
           /\ PartOK(whole) /\ Len(whole) = Len(part) + 2 + Len(piece)
           /\ whole[Len(whole)] = part[Len(part)] + Len(piece)
           /\ \A i \in 1..Len(part) : whole[i] = part[i]
<1>1. /\ part \in Seq(Nat) /\ Stretch(part) /\ part[Len(part)] # 0
      /\ \A i \in 1..Len(part) : part[i] \in Nat
  BY DEF PartOK
<1>2. PICK n \in Nat, l \in Nat, t \in Nat :
          n = Len(part) /\ l = Len(piece) /\ t = part[Len(part)] /\ n > 0 /\ l > 0 /\ t > 0
  BY <1>1
<1>3. PICK w : w = part \o Separator \o piece
  OBVIOUS
<1>4. w \in Seq(Nat) /\ Len(w) = n + 2 + l
  BY <1>1, <1>2, <1>3 DEF Separator
<1>5. /\ \A i \in 1..n : w[i] = part[i]
      /\ w[n + 1] = 0 /\ w[n + 2] = 0
      /\ \A i \in (n + 3)..(n + 2 + l) : w[i] = t + (i - n - 2)
  <2>1. \A i \in 1..n : w[i] = part[i]
    BY <1>1, <1>2, <1>3 DEF Separator
  <2>2. w[n + 1] = 0 /\ w[n + 2] = 0
    BY <1>1, <1>2, <1>3 DEF Separator
  <2>3. \A i \in (n + 3)..(n + 2 + l) : w[i] = piece[i - n - 2] /\ i - n - 2 \in 1..l
    BY <1>1, <1>2, <1>3 DEF Separator
  <2>4. \A i \in (n + 3)..(n + 2 + l) : w[i] = t + (i - n - 2)
    BY <1>2, <2>3
  <2> QED
    BY <2>1, <2>2, <2>4
<1>6. \A i \in 1..(n + 2 + l) :
        w[i] # 0 =>
          \/ i \in 1..n /\ w[i] = part[i] /\ w[i] \in 1..t
          \/ i \in (n + 3)..(n + 2 + l) /\ w[i] = t + (i - n - 2)
  <2> SUFFICES ASSUME NEW i \in 1..(n + 2 + l), w[i] # 0
               PROVE  \/ i \in 1..n /\ w[i] = part[i] /\ w[i] \in 1..t
                      \/ i \in (n + 3)..(n + 2 + l) /\ w[i] = t + (i - n - 2)
    OBVIOUS
  <2>1. i \in 1..n \/ i \in (n + 3)..(n + 2 + l)
    BY <1>5
  <2>2. CASE i \in 1..n
    <3>1. part[i] # 0 /\ part[i] \in Nat /\ w[i] = part[i]
      BY <1>1, <1>2, <1>5, <2>2
    <3>2. i = n \/ part[i] < part[n]
      BY <1>1, <1>2, <2>2, <3>1 DEF Stretch
    <3> QED
      BY <1>2, <2>2, <3>1, <3>2
  <2> QED
    BY <1>5, <2>1, <2>2
<1>7. \A i, j \in 1..Len(w) : i < j /\ w[i] # 0 /\ w[j] # 0 => w[i] < w[j]
  <2> SUFFICES ASSUME NEW i \in 1..(n + 2 + l), NEW j \in 1..(n + 2 + l),
                      i < j, w[i] # 0, w[j] # 0
               PROVE  w[i] < w[j]
    BY <1>4
  <2>1. CASE j \in 1..n
    <3>1. i \in 1..n
      BY <2>1
    <3> QED
      BY <1>1, <1>2, <1>5, <2>1, <3>1 DEF Stretch
  <2>2. CASE j \in (n + 3)..(n + 2 + l)
    BY <1>6, <2>2
  <2> QED
    BY <1>6, <2>1, <2>2
<1>8. ASSUME NEW i \in 1..Len(w), NEW j \in 1..Len(w), i < j, w[i] # 0, w[j] # 0,
             NEW v \in w[i]..w[j]
      PROVE  \E k \in 1..Len(w) : w[k] = v
  <2>0. i \in 1..(n + 2 + l) /\ j \in 1..(n + 2 + l) /\ w[i] \in Nat /\ w[j] \in Nat /\ v \in Nat
    BY <1>4, <1>8
  <2>1. CASE v > t
    <3>1. j \in (n + 3)..(n + 2 + l) /\ w[j] = t + (j - n - 2)
      BY <1>6, <1>8, <2>0, <2>1
    <3>2. v - t + n + 2 \in (n + 3)..(n + 2 + l)
      BY <1>8, <2>0, <2>1, <3>1
    <3>3. w[v - t + n + 2] = t + ((v - t + n + 2) - n - 2)
      BY <1>5, <3>2
    <3>4. w[v - t + n + 2] = v /\ v - t + n + 2 \in 1..Len(w)
      BY <1>4, <2>0, <3>2, <3>3
    <3> QED
      BY <3>4
  <2>2. CASE v <= t
    <3>1. i \in 1..n /\ w[i] = part[i] /\ part[i] <= v
      BY <1>6, <1>8, <2>0, <2>2
    <3>2. \E k \in 1..n : part[k] = v
      <4>1. CASE i = n
        BY <1>2, <2>0, <2>2, <3>1, <4>1
      <4>2. CASE i # n
        <5>1. i < n /\ n \in 1..Len(part) /\ part[i] # 0 /\ part[n] # 0 /\ v \in part[i]..part[n]
          BY <1>2, <1>8, <2>0, <2>2, <3>1, <4>2
        <5> QED
          BY <1>1, <1>2, <3>1, <5>1 DEF Stretch
      <4> QED
        BY <4>1, <4>2
    <3> QED
      BY <1>4, <1>5, <3>2
  <2> QED
    BY <2>0, <2>1, <2>2
<1>9. Stretch(w)
  BY <1>7, <1>8 DEF Stretch
<1>10. w[n + 2 + l] = t + l
  <2>1. n + 2 + l \in (n + 3)..(n + 2 + l)
    BY <1>2
  <2>2. w[n + 2 + l] = t + ((n + 2 + l) - n - 2)
    BY <1>5, <2>1
  <2> QED
    BY <2>2
<1>11. PartOK(w)
  <2>1. Len(w) <= MaxChars /\ w[Len(w)] # 0
    BY <1>2, <1>4, <1>10
  <2> QED
    BY <1>4, <1>9, <2>1 DEF PartOK
<1> QED
  BY <1>2, <1>3, <1>4, <1>5, <1>10, <1>11

(* The next characters alone are a part.                                   *)
LEMMA FreshOK ==
    ASSUME NEW t \in Nat, NEW piece \in Seq(Nat), \A i \in 1..Len(piece) : piece[i] = t + i,
           Len(piece) <= MaxChars
    PROVE  PartOK(piece)
<1>1. Len(piece) \in Nat
  OBVIOUS
<1>2. \A i, j \in 1..Len(piece) : i < j => piece[i] < piece[j]
  OBVIOUS
<1>3. ASSUME NEW i \in 1..Len(piece), NEW j \in 1..Len(piece), NEW v \in piece[i]..piece[j]
      PROVE  \E k \in 1..Len(piece) : piece[k] = v
  <2>1. piece[i] = t + i /\ piece[j] = t + j
    OBVIOUS
  <2>2. v \in (t + i)..(t + j)
    BY <2>1
  <2>3. v - t \in 1..Len(piece) /\ t + (v - t) = v
    BY <1>1, <2>2
  <2> QED
    BY <2>3
<1>4. piece # <<>> => piece[Len(piece)] # 0
  <2>1. piece # <<>> => Len(piece) \in 1..Len(piece)
    BY <1>1
  <2>2. \A i \in 1..Len(piece) : t + i # 0
    BY <1>1
  <2> QED
    BY <2>1, <2>2
<1> QED
  BY <1>2, <1>3, <1>4 DEF PartOK, Stretch

(* What increases without gaps is consecutive between its separators.      *)
LEMMA StretchConsecutive ==
    ASSUME NEW part, PartOK(part)
    PROVE  Consecutive(part)
<1> SUFFICES ASSUME NEW i \in 1..Len(part), NEW j \in 1..Len(part), i < j,
                    part[i] # 0, part[j] # 0, \A k \in (i + 1)..(j - 1) : part[k] = 0
             PROVE  part[j] = part[i] + 1
  BY DEF Consecutive
<1>1. /\ Stretch(part) /\ Len(part) \in Nat
      /\ \A k \in 1..Len(part) : part[k] \in Nat
  BY DEF PartOK
<1>2. part[i] < part[j]
  BY <1>1 DEF Stretch
<1>3. part[i] + 1 \in part[i]..part[j]
  BY <1>1, <1>2
<1>4. PICK k \in 1..Len(part) : part[k] = part[i] + 1
  BY <1>1, <1>3 DEF Stretch
<1>5. part[k] # 0
  BY <1>1, <1>4
<1>6. ~(k < i) /\ k # i
  <2>1. k < i => part[k] < part[i]
    BY <1>1, <1>5 DEF Stretch
  <2> QED
    BY <1>1, <1>4, <2>1
<1>7. ~(j < k)
  <2>1. j < k => part[j] < part[k]
    BY <1>1, <1>5 DEF Stretch
  <2> QED
    BY <1>1, <1>2, <1>4, <2>1
<1>8. k = j
  BY <1>1, <1>5, <1>6, <1>7
<1> QED
  BY <1>4, <1>8

-----------------------------------------------------------------------------
(* The steps.                                                              *)

(* What TextCovered says of a step.                                        *)
Covers ==
    /\ chunk' # chunk => chunk'[1] \in 1..(covered + 1) /\ covered' >= covered
    /\ pc' = "done" => covered' = read'

(* A part that becomes a chunk covers all its text.                        *)
LEMMA EmitStep ==
    ASSUME NEW part, PartOK(part), part # <<>>, covered \in Nat, Reaches(part, covered), Emit(part)
    PROVE  PartOK(chunk') /\ covered' = part[Len(part)] /\ chunk'[1] \in 1..(covered + 1)
<1>1. part \in Seq(Nat) /\ Len(part) \in 1..Len(part) /\ part[Len(part)] # 0
  BY DEF PartOK
<1>2. ~Blank(part)
  BY <1>1 DEF Blank
<1>3. chunk' = Strip(part) /\ covered' = part[Len(part)]
  BY <1>2 DEF Emit
<1>4. PICK i \in 1..Len(part) : part[i] # 0 /\ part[i] <= covered + 1
  BY DEF Reaches
<1>5. /\ PartOK(chunk') /\ chunk'[1] # 0 /\ chunk'[1] \in Nat
      /\ chunk'[1] <= part[i]
  BY <1>3, <1>4, StripOK
<1>6. part[i] \in Nat
  BY <1>1, <1>4
<1> QED
  BY <1>3, <1>4, <1>5, <1>6

(* A complete part is emitted and its end is kept.                         *)
LEMMA CompleteStep ==
    ASSUME NEW part, PartOK(part), part # <<>>, covered \in Nat, Reaches(part, covered),
           Emit(part), current' = Overlap(part), NEW t \in Nat, part[Len(part)] = t, covered <= t
    PROVE  /\ PartOK(chunk') /\ chunk'[1] \in 1..(covered + 1) /\ covered' = t
           /\ PartOK(current') /\ Len(current') < MaxChars
           /\ current' # <<>> => current'[Len(current')] = t /\ Reaches(current', t)
<1>1. PartOK(chunk') /\ chunk'[1] \in 1..(covered + 1) /\ covered' = t
  BY EmitStep
<1>2. /\ PartOK(current') /\ Len(current') < MaxChars
      /\ current' # <<>> => current'[Len(current')] = t
  BY OverlapOK
<1>3. ASSUME current' # <<>>
      PROVE  Reaches(current', t)
  <2>1. Len(current') \in 1..Len(current') /\ current'[Len(current')] # 0
    BY <1>2, <1>3 DEF PartOK
  <2>2. current'[Len(current')] <= t + 1
    BY <1>2, <1>3
  <2> QED
    BY <2>1, <2>2 DEF Reaches
<1> QED
  BY <1>1, <1>2, <1>3

(* The next section begins when nothing is left of the last one.           *)
LEMMA NextSectionStep ==
    ASSUME IInv, NextSection
    PROVE  IInv' /\ Covers
<1>1. /\ UNCHANGED <<read, remaining, current, chunk, covered>>
      /\ pc = "section" /\ pc' \in {"done", "paragraph"}
      /\ current = <<>> /\ remaining = <<>>
  BY DEF NextSection, IInv, RemainingOK, CurrentOK
<1>2. TypeOK'
  <2>1. CASE sections = <<>>
    BY <1>1, <2>1 DEF NextSection, IInv, TypeOK
  <2>2. CASE sections # <<>>
    <3>1. Head(sections) \in Seq(Nat \ {0}) /\ Tail(sections) \in Seq(Seq(Nat \ {0}))
      BY <2>2 DEF IInv, TypeOK
    <3> QED
      BY <1>1, <2>2, <3>1 DEF NextSection, IInv, TypeOK
  <2> QED
    BY <2>1, <2>2
<1>3. RemainingOK' /\ CurrentOK' /\ PartOK(chunk')
  BY <1>1 DEF IInv, RemainingOK, CurrentOK, Taken
<1>4. covered = read
  BY <1>1 DEF IInv, CurrentOK, Taken, TypeOK
<1> QED
  BY <1>1, <1>2, <1>3, <1>4 DEF IInv, Covers

(* The next paragraph follows on the characters read so far.               *)
LEMMA NextParagraphStep ==
    ASSUME IInv, NextParagraph
    PROVE  IInv' /\ Covers
<1>1. /\ UNCHANGED <<sections, current, chunk, covered>>
      /\ pc = "paragraph" /\ pc' = "take" /\ remaining = <<>> /\ paragraphs # <<>>
      /\ paragraphs' = Tail(paragraphs)
  BY DEF NextParagraph, IInv, RemainingOK
<1>2. PICK n \in Nat \ {0} : n = Head(paragraphs)
  BY <1>1 DEF IInv, TypeOK
<1>3. read \in Nat /\ read' = read + n /\ remaining' = [i \in 1..n |-> read + i]
  BY <1>2 DEF NextParagraph, IInv, TypeOK
<1>4. remaining' \in Seq(Nat) /\ Len(remaining') = n
  BY <1>2, <1>3
<1>5. Taken = read /\ Taken' = read
  BY <1>1, <1>3, <1>4 DEF Taken
<1>6. TypeOK'
  BY <1>1, <1>2, <1>3, <1>4 DEF IInv, TypeOK
<1>7. RemainingOK'
  BY <1>1, <1>3, <1>4, <1>5 DEF RemainingOK
<1>8. CurrentOK' /\ PartOK(chunk')
  BY <1>1, <1>5 DEF IInv, CurrentOK
<1> QED
  BY <1>1, <1>6, <1>7, <1>8 DEF IInv, Covers

(* A paragraph that is used up leaves its end in the current part.         *)
LEMMA EndParagraphStep ==
    ASSUME IInv, EndParagraph
    PROVE  IInv' /\ Covers
<1>1. /\ UNCHANGED <<sections, paragraphs, read, remaining, current, chunk, covered>>
      /\ pc = "take" /\ pc' = "paragraph" /\ remaining = <<>>
  BY DEF EndParagraph
<1>2. TypeOK'
  BY <1>1 DEF IInv, TypeOK
<1>3. RemainingOK' /\ CurrentOK' /\ PartOK(chunk')
  BY <1>1 DEF IInv, RemainingOK, CurrentOK, Taken
<1> QED
  BY <1>1, <1>2, <1>3 DEF IInv, Covers

(* The last part of a section is emitted, with all that was read.          *)
LEMMA LastPartStep ==
    ASSUME IInv, LastPart
    PROVE  IInv' /\ Covers
<1>1. /\ UNCHANGED <<sections, paragraphs, read, remaining>>
      /\ pc = "paragraph" /\ pc' = "section" /\ current' = <<>> /\ remaining = <<>>
  BY DEF LastPart, IInv, RemainingOK
<1>2. /\ Taken' = Taken /\ Taken \in Nat /\ covered \in Nat /\ covered <= Taken
      /\ PartOK(current) /\ PartOK(chunk)
  BY <1>1 DEF Taken, IInv, TypeOK, CurrentOK
<1>3. /\ PartOK(chunk') /\ covered' = Taken
      /\ chunk' # chunk => chunk'[1] \in 1..(covered + 1)
  <2>1. CASE current = <<>>
    BY <1>2, <2>1 DEF LastPart, IInv, CurrentOK
  <2>2. CASE current # <<>>
    <3>1. Emit(current) /\ Reaches(current, covered) /\ current[Len(current)] = Taken
      BY <2>2 DEF LastPart, IInv, CurrentOK
    <3> QED
      BY <1>2, <2>2, <3>1, EmitStep
  <2> QED
    BY <2>1, <2>2
<1>4. TypeOK'
  BY <1>1, <1>2, <1>3 DEF IInv, TypeOK
<1>5. RemainingOK'
  BY <1>1, <1>2 DEF IInv, RemainingOK
<1>6. CurrentOK'
  <2>1. PartOK(<<>>) /\ Len(<<>>) < MaxChars
    BY ChunkerAssumption DEF PartOK, Stretch
  <2> QED
    BY <1>1, <1>2, <1>3, <2>1 DEF CurrentOK
<1> QED
  BY <1>1, <1>2, <1>3, <1>4, <1>5, <1>6 DEF IInv, Covers

(* A full part is emitted and its overlap begins the next one.             *)
LEMMA FlushStep ==
    ASSUME IInv, Flush
    PROVE  IInv' /\ Covers
<1>1. /\ UNCHANGED <<sections, paragraphs, read, remaining, pc>>
      /\ pc = "take" /\ current' = Overlap(current) /\ Emit(current)
  BY DEF Flush
<1>2. /\ Taken' = Taken /\ Taken \in Nat /\ covered \in Nat /\ covered <= Taken
      /\ PartOK(current) /\ PartOK(chunk)
  BY <1>1 DEF Taken, IInv, TypeOK, CurrentOK, RemainingOK
<1>3. current # <<>>
  BY ChunkerAssumption DEF Flush, Available
<1>4. Reaches(current, covered) /\ current[Len(current)] = Taken
  BY <1>3 DEF IInv, CurrentOK
<1>5. PICK t \in Nat : t = Taken
  BY <1>2
<1>6. /\ PartOK(chunk') /\ chunk'[1] \in 1..(covered + 1) /\ covered' = t
      /\ PartOK(current') /\ Len(current') < MaxChars
      /\ current' # <<>> => current'[Len(current')] = t /\ Reaches(current', t)
  BY <1>1, <1>2, <1>3, <1>4, <1>5, CompleteStep
<1>7. TypeOK'
  BY <1>1, <1>6 DEF IInv, TypeOK
<1>8. RemainingOK'
  BY <1>1, <1>2 DEF IInv, RemainingOK
<1>9. CurrentOK'
  BY <1>1, <1>2, <1>5, <1>6 DEF CurrentOK, Reaches
<1> QED
  BY <1>1, <1>2, <1>5, <1>6, <1>7, <1>8, <1>9 DEF IInv, Covers

(* The part with the next piece of the paragraph in it is a part again.    *)
LEMMA TakeStep ==
    ASSUME IInv, Take
    PROVE  IInv' /\ Covers
<1>1. /\ UNCHANGED <<sections, paragraphs, read, pc>>
      /\ pc = "take" /\ remaining # <<>>
  BY DEF Take
<1>2. PICK m \in Nat, t \in Nat, a \in Nat :
          m = Len(remaining) /\ t = Taken /\ a = Available /\ m > 0 /\ a > 0
  <2>1. /\ Len(remaining) \in Nat /\ Len(remaining) > 0 /\ Taken \in Nat
    BY <1>1 DEF IInv, TypeOK, RemainingOK, Taken
  <2>2. Len(current) \in Nat /\ MaxChars \in Nat /\ Available > 0
    BY ChunkerAssumption DEF IInv, CurrentOK, PartOK, Take
  <2>3. Available \in Nat
    BY <2>2 DEF Available, Separator
  <2> QED
    BY <2>1, <2>2, <2>3
<1>3. PICK n \in Nat : n = (IF m < a THEN m ELSE a) /\ n > 0 /\ n <= m /\ n <= a
  BY <1>2
<1>4. PICK piece : piece = SubSeq(remaining, 1, n)
  OBVIOUS
<1>5. PICK filled : filled = IF current = <<>> THEN piece ELSE current \o Separator \o piece
  OBVIOUS
<1>6. /\ remaining' = SubSeq(remaining, n + 1, Len(remaining))
      /\ IF Len(filled) >= MaxChars
         THEN Emit(filled) /\ current' = Overlap(filled)
         ELSE current' = filled /\ UNCHANGED <<chunk, covered>>
  BY <1>2, <1>3, <1>4, <1>5 DEF Take
<1>7. /\ remaining \in Seq(Nat) /\ \A i \in 1..m : remaining[i] = t + i
      /\ read \in Nat /\ m <= read /\ t = read - m
  BY <1>2 DEF IInv, TypeOK, RemainingOK, Taken
<1>8. /\ piece \in Seq(Nat) /\ Len(piece) = n /\ piece # <<>>
      /\ \A i \in 1..n : piece[i] = t + i
  <2>1. /\ SubSeq(remaining, 1, n) \in Seq(Nat) /\ Len(SubSeq(remaining, 1, n)) = n - 1 + 1
        /\ \A i \in 1..(n - 1 + 1) : SubSeq(remaining, 1, n)[i] = remaining[1 + i - 1]
    BY <1>2, <1>3, <1>7, PieceType
  <2>2. piece \in Seq(Nat) /\ Len(piece) = n /\ \A i \in 1..n : piece[i] = remaining[i]
    BY <1>3, <1>4, <2>1
  <2>3. \A i \in 1..n : i \in 1..m
    BY <1>3
  <2> QED
    BY <1>3, <1>7, <2>2, <2>3
<1>9. /\ remaining' \in Seq(Nat) /\ Len(remaining') = m - n
      /\ \A i \in 1..(m - n) : remaining'[i] = t + n + i
  <2>1. /\ SubSeq(remaining, n + 1, m) \in Seq(Nat)
        /\ Len(SubSeq(remaining, n + 1, m)) = m - (n + 1) + 1
        /\ \A i \in 1..(m - (n + 1) + 1) :
              SubSeq(remaining, n + 1, m)[i] = remaining[(n + 1) + i - 1]
    <3>1. n + 1 \in 1..(Len(remaining) + 1) /\ m \in 0..Len(remaining) /\ n + 1 <= m + 1
      BY <1>2, <1>3
    <3> QED
      BY <1>7, <3>1, PieceType
  <2>2. \A i \in 1..(m - n) : /\ i \in 1..(m - (n + 1) + 1)
                              /\ (n + 1) + i - 1 = n + i /\ n + i \in 1..m
    BY <1>3
  <2>3. \A i \in 1..(m - n) : SubSeq(remaining, n + 1, m)[i] = t + (n + i)
    BY <1>7, <2>1, <2>2
  <2>4. remaining' = SubSeq(remaining, n + 1, m) /\ m - (n + 1) + 1 = m - n
    BY <1>2, <1>3, <1>6
  <2>5. \A i \in 1..(m - n) : t + (n + i) = t + n + i
    OBVIOUS
  <2> QED
    BY <2>1, <2>3, <2>4, <2>5
<1>10. Taken' = t + n /\ Len(remaining') <= read'
  BY <1>1, <1>3, <1>7, <1>9 DEF Taken
<1>11. /\ PartOK(current) /\ Len(current) \in Nat /\ MaxChars \in Nat /\ PartOK(chunk)
       /\ covered \in Nat /\ covered <= t
       /\ current # <<>> => current[Len(current)] = t /\ Reaches(current, covered)
       /\ current = <<>> => covered = t
  BY <1>2, ChunkerAssumption DEF IInv, CurrentOK, PartOK, TypeOK
<1>12. /\ PartOK(filled) /\ filled # <<>> /\ Len(filled) \in Nat
       /\ filled[Len(filled)] = t + n /\ Reaches(filled, covered)
  <2>1. CASE current = <<>>
    <3>1. filled = piece /\ n <= MaxChars
      BY <1>2, <1>3, <1>5, <1>11, <2>1 DEF Available
    <3>2. PartOK(piece)
      BY <1>8, <3>1, FreshOK
    <3>3. 1 \in 1..n /\ n \in 1..n
      BY <1>3
    <3>4. piece[1] = t + 1 /\ piece[n] = t + n
      BY <1>8, <3>3
    <3>5. piece[1] # 0 /\ piece[1] <= covered + 1
      BY <1>11, <2>1, <3>4
    <3>6. Reaches(piece, covered)
      BY <1>8, <3>3, <3>5 DEF Reaches
    <3> QED
      BY <1>8, <3>1, <3>2, <3>4, <3>6
  <2>2. CASE current # <<>>
    <3>1. filled = current \o Separator \o piece
      BY <1>5, <2>2
    <3>2. Len(current) + 2 + Len(piece) <= MaxChars
      <4>1. Available = MaxChars - Len(current) - 2
        BY <2>2 DEF Available, Separator
      <4> QED
        <5>1. PICK c \in Nat, x \in Nat : c = Len(current) /\ x = MaxChars
          BY <1>11
        <5>2. a = x - c - 2 /\ n <= a
          BY <1>2, <1>3, <4>1, <5>1
        <5>3. c + 2 + n <= x
          BY <5>2
        <5> QED
          BY <1>8, <5>1, <5>3
    <3>3. \A i \in 1..Len(piece) : piece[i] = current[Len(current)] + i
      BY <1>8, <1>11, <2>2
    <3>4. /\ PartOK(filled) /\ Len(filled) = Len(current) + 2 + Len(piece)
          /\ filled[Len(filled)] = current[Len(current)] + Len(piece)
          /\ \A i \in 1..Len(current) : filled[i] = current[i]
      BY <1>8, <1>11, <2>2, <3>1, <3>2, <3>3, JoinOK
    <3>5. PICK i \in 1..Len(current) : current[i] # 0 /\ current[i] <= covered + 1
      BY <1>11, <2>2 DEF Reaches
    <3>6. i \in 1..Len(filled) /\ filled[i] = current[i]
      BY <1>8, <1>11, <3>4, <3>5
    <3>7. Reaches(filled, covered)
      BY <3>5, <3>6 DEF Reaches
    <3>8. Len(filled) \in Nat /\ Len(filled) > 0
      BY <1>8, <1>11, <3>4
    <3>9. filled # <<>>
      BY <3>8
    <3> QED
      BY <1>8, <1>11, <2>2, <3>4, <3>7, <3>8, <3>9
  <2> QED
    BY <2>1, <2>2
<1>13. RemainingOK'
  BY <1>1, <1>9, <1>10 DEF RemainingOK
<1>14. CASE Len(filled) >= MaxChars
  <2>1. Emit(filled) /\ current' = Overlap(filled)
    BY <1>6, <1>14
  <2>2. PICK u \in Nat : u = t + n
    OBVIOUS
  <2>3. covered <= u
    BY <1>3, <1>11, <2>2
  <2>4. /\ PartOK(chunk') /\ chunk'[1] \in 1..(covered + 1) /\ covered' = u
        /\ PartOK(current') /\ Len(current') < MaxChars
        /\ current' # <<>> => current'[Len(current')] = u /\ Reaches(current', u)
    BY <1>11, <1>12, <2>1, <2>2, <2>3, CompleteStep
  <2>5. TypeOK'
    BY <1>1, <1>9, <2>4 DEF IInv, TypeOK
  <2>6. CurrentOK'
    BY <1>1, <1>10, <2>2, <2>4 DEF CurrentOK, Reaches
  <2> QED
    BY <1>1, <1>13, <2>3, <2>4, <2>5, <2>6 DEF IInv, Covers
<1>15. CASE ~(Len(filled) >= MaxChars)
  <2>1. current' = filled /\ UNCHANGED <<chunk, covered>>
    BY <1>6, <1>15
  <2>2. TypeOK'
    BY <1>1, <1>9, <2>1 DEF IInv, TypeOK
  <2>3. Len(filled) < MaxChars /\ covered <= t + n
    BY <1>3, <1>11, <1>12, <1>15
  <2>4. CurrentOK'
    BY <1>1, <1>10, <1>12, <2>1, <2>3 DEF CurrentOK, Reaches
  <2> QED
    BY <1>1, <1>11, <1>13, <2>1, <2>2, <2>4 DEF IInv, Covers
<1> QED
  BY <1>14, <1>15

-----------------------------------------------------------------------------
(* The theorems.                                                           *)

(* Nothing has been read at first.                                         *)
LEMMA InitIInv == Init => IInv
<1> SUFFICES ASSUME Init
             PROVE  IInv
  OBVIOUS
<1>1. sections \in Seq(Seq(Nat \ {0}))
  <2>1. PICK n \in 0..MaxSections :
            sections \in [1..n -> UNION {[1..k -> 1..MaxLength] : k \in 1..MaxParagraphs}]
    BY DEF Init
  <2>2. \A k \in 1..MaxParagraphs : [1..k -> 1..MaxLength] \subseteq Seq(Nat \ {0})
    <3> SUFFICES ASSUME NEW k \in 1..MaxParagraphs, NEW f \in [1..k -> 1..MaxLength]
                 PROVE  f \in Seq(Nat \ {0})
      OBVIOUS
    <3>1. k \in Nat /\ 1..MaxLength \subseteq Nat \ {0}
      BY ChunkerAssumption
    <3>2. \A i \in 1..k : f[i] \in Nat \ {0}
      BY <3>1
    <3> QED
      BY <3>1, <3>2
  <2>3. n \in Nat /\ \A i \in 1..n : sections[i] \in Seq(Nat \ {0})
    <3>1. n \in Nat
      BY <2>1, ChunkerAssumption
    <3>2. \A i \in 1..n : sections[i] \in UNION {[1..k -> 1..MaxLength] : k \in 1..MaxParagraphs}
      BY <2>1
    <3>3. \A i \in 1..n : \E k \in 1..MaxParagraphs : sections[i] \in [1..k -> 1..MaxLength]
      BY <3>2
    <3> QED
      BY <2>2, <3>1, <3>3
  <2> QED
    BY <2>1, <2>3
<1>2. PartOK(<<>>) /\ Len(<<>>) < MaxChars
  BY ChunkerAssumption DEF PartOK, Stretch
<1>3. Taken = 0
  <2>1. read = 0 /\ Len(remaining) = 0
    BY DEF Init
  <2> QED
    BY <2>1 DEF Taken
<1> QED
  BY <1>1, <1>2, <1>3 DEF Init, IInv, TypeOK, RemainingOK, CurrentOK

(* Every step of the loops keeps the invariant.                            *)
LEMMA NextIInv == IInv /\ [Next]_vars => IInv'
<1>1. IInv /\ UNCHANGED vars => IInv'
  BY DEF vars, IInv, TypeOK, RemainingOK, CurrentOK, Taken
<1> QED
  BY <1>1, NextSectionStep, NextParagraphStep, FlushStep, TakeStep, EndParagraphStep,
     LastPartStep DEF Next

(* The inductive invariant holds throughout.                               *)
THEOREM Invariance == Spec => []IInv
BY InitIInv, NextIInv, PTL DEF Spec

(* No chunk is longer than max_chars and every chunk is one stretch of the *)
(* document, for every document, max_chars and overlap_chars that __init__ *)
(* accepts (_bounded_parts).                                               *)
THEOREM Bounded == Spec => []ChunksBounded
<1>1. IInv => ChunksBounded
  BY StretchConsecutive DEF IInv, PartOK, ChunksBounded
<1> QED
  BY <1>1, Invariance, PTL

(* No text is lost between two chunks, at the end of a section or at the   *)
(* end of the document (_bounded_parts, chunk).                            *)
THEOREM Covered == Spec => TextCovered
<1>1. IInv /\ [Next]_vars => [Covers]_vars
  BY NextSectionStep, NextParagraphStep, FlushStep, TakeStep, EndParagraphStep, LastPartStep
     DEF Next
<1>2. IInv /\ [Next]_vars =>
        [/\ chunk' # chunk => chunk'[1] \in 1..(covered + 1) /\ covered' >= covered
         /\ pc' = "done" => covered' = read']_vars
  BY <1>1 DEF Covers
<1> QED
  BY <1>2, Invariance, PTL DEF Spec, TextCovered

=============================================================================
