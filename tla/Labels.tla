------------------------------- MODULE Labels -------------------------------
(* Package records/labels: how a name is made into a DNS label.  A name is a *)
(* sequence of characters.  trimCut works on slices of one array, so a slice *)
(* is a range of positions of the array here, and the array is as long as    *)
(* the one bytes.Map allocates: as the name before characters are dropped.   *)
EXTENDS Naturals, Sequences, SeqFilter

CONSTANTS
  Lower, Digits,         \* the characters that are kept
  ToLower,               \* upper-case letter -> lower-case letter
  Other,                 \* the characters that are dropped
  MaxRFC952, MaxRFC1123, \* 24 and 63 in the code
  Panic                  \* the outcome of a slice beyond the array

NUL == "NUL"             \* what the array holds behind the mapped name
Dashes == {"-", ".", "_"}
Kept == Lower \cup Digits \cup DOMAIN ToLower \cup Dashes
Chars == Kept \cup Other

ASSUME LabelsAssumption ==
  /\ ToLower \in [DOMAIN ToLower -> Lower]
  /\ NUL \notin Chars /\ Other \cap Kept = {}
  /\ (Lower \cup Digits \cup DOMAIN ToLower) \cap Dashes = {}
  /\ MaxRFC952 \in Nat \ {0} /\ MaxRFC1123 \in Nat \ {0}
  /\ Chars \subseteq STRING /\ Panic \notin STRING \cup Seq(STRING)

mapping(c) ==
  CASE c \in DOMAIN ToLower    -> ToLower[c]
    [] c \in Lower \cup Digits -> c
    [] c \in Dashes            -> "-"

\* bytes.Map(mapping, name), without the unused rest of its array.
Map(name) ==
  LET M[i \in 0..Len(name)] ==
        IF i = 0 THEN << >>
        ELSE IF name[i] \in Kept THEN Append(M[i-1], mapping(name[i])) ELSE M[i-1]
  IN M[Len(name)]

\* bytes.TrimLeft and bytes.TrimRight of b[i..j]: where what is left of it
\* begins, j + 1 if nothing is, and where it ends, i - 1 if nothing is.
TrimLeft(b, i, j, cutset) ==
  LET P == {k \in i..j : b[k] \notin cutset}
  IN IF P = {} THEN j + 1 ELSE CHOOSE k \in P : \A l \in P : k <= l

TrimRight(b, i, j, cutset) ==
  LET P == {k \in i..j : b[k] \notin cutset}
  IN IF P = {} THEN i - 1 ELSE CHOOSE k \in P : \A l \in P : k >= l

min(a, b) == IF a < b THEN a ELSE b

\* (variants: the head is not trimmed; it is filled up even if nothing follows)
trimCut_untrimmed(b, n, maxlen, left, right) ==
  LET trim == TrimLeft(b, 1, n, left)
      size == min(n + 1 - trim, maxlen)
  IN SubSeq(b, trim, trim + size - 1)

trimCut_filled(b, n, maxlen, left, right) ==
  LET trim == TrimLeft(b, 1, n, left)
      end  == trim + min(n + 1 - trim, maxlen) - 1
      last == TrimRight(b, trim, end, right)
      tail == TrimLeft(b, end + 1, n, right)
  IN IF tail + end - last - 1 > Len(b) THEN Panic
     ELSE SubSeq(b, trim, last) \o SubSeq(b, tail, tail + end - last - 1)

\* The label is b[1..n].  The head is filled up to size with what follows the
\* dashes at the cut, whether or not so much follows.
trimCut(b, n, maxlen, left, right) ==
  LET trim == TrimLeft(b, 1, n, left)
      size == min(n + 1 - trim, maxlen)
      end  == trim + size - 1
      last == TrimRight(b, trim, end, right)      \* of head
      head == SubSeq(b, trim, last)
      tail == TrimLeft(b, end + 1, n, right)
      fill == end - last                          \* size - len(head)
  IN IF fill = 0 \/ tail > n           THEN head
     ELSE IF tail + fill - 1 <= Len(b) THEN head \o SubSeq(b, tail, tail + fill - 1)
     ELSE Panic

label(name, maxlen, left, right) ==
  LET m == Map(name)
      b == [i \in 1..Len(name) |-> IF i <= Len(m) THEN m[i] ELSE NUL]
  IN trimCut(b, Len(m), maxlen, left, right)

RFC952(name) == label(name, MaxRFC952, Digits \cup {"-"}, {"-"})

RFC1123(name) == label(name, MaxRFC1123, {"-"}, {"-"})

\* strings.Split
Split(s, sep) ==
  LET P[i \in 0..Len(s)] ==
        IF i = 0 THEN << << >> >>
        ELSE IF s[i] = sep THEN Append(P[i-1], << >>)
        ELSE [P[i-1] EXCEPT ![Len(P[i-1])] = Append(@, s[i])]
  IN P[Len(s)]

\* The label function ParseState picks.
hostSpecOf(rfc952, name) == IF rfc952 THEN RFC952(name) ELSE RFC1123(name)

String(chars) == IF chars = << >> THEN "" ELSE Concat(chars)
LabelString(lab) == IF lab = Panic THEN Panic ELSE String(lab)

\* The labels of the parts of a name that are not empty.
DomainFragOf(rfc952, name) ==
  LET parts == Split(name, ".")
      labs == [k \in DOMAIN parts |-> hostSpecOf(rfc952, parts[k])]
      range == {labs[k] : k \in DOMAIN labs}
      kept == Filter(labs, range \ {<< >>})
  IN IF Panic \in range THEN Panic ELSE [k \in DOMAIN kept |-> String(kept[k])]

slaveIDTailOf(id) ==
  LET fields == Split(id, "-")
      tail == fields[Len(fields)]
  IN String([k \in DOMAIN tail |->
               IF tail[k] \in DOMAIN ToLower THEN ToLower[tail[k]] ELSE tail[k]])

-----------------------------------------------------------------------------
(* What a label should be, for the properties *)

\* The longest stretch of the mapped name that begins at its first character
\* outside the left cutset, has at most maxlen characters and ends in no dash.
BestLabel(name, maxlen, left) ==
  LET m == Map(name)
      C == {r \in (1..Len(m)) \X (1..Len(m)) :
              /\ \A k \in 1..(r[1] - 1) : m[k] \in left
              /\ m[r[1]] \notin left
              /\ r[1] <= r[2] /\ r[2] - r[1] < maxlen /\ m[r[2]] # "-"}
  IN IF C = {} THEN << >>
     ELSE LET r == CHOOSE x \in C : \A y \in C : y[2] <= x[2] IN SubSeq(m, r[1], r[2])

\* The cut falls on a dash, and more than dashes is cut off.
CutOnDash(name, maxlen, left) ==
  LET m == Map(name)
      trim == TrimLeft(m, 1, Len(m), left)
      end == trim + maxlen - 1
  IN /\ end < Len(m) /\ m[end] = "-"
     /\ \E k \in end + 1..Len(m) : m[k] # "-"

\* A name whose cut does not fall on a dash becomes the best label there is of
\* it.  Wherever the cut falls, the label is not too long and does not begin
\* with a character of the left cutset.
CleanLabel(name, maxlen, left) ==
  LET l == label(name, maxlen, left, {"-"})
  IN /\ ~CutOnDash(name, maxlen, left) => l = BestLabel(name, maxlen, left)
     /\ l # Panic => Len(l) <= maxlen /\ (l # << >> => l[1] \notin left)
=============================================================================
