------------------------------- MODULE Evidence -------------------------------
(***************************************************************************)
(* Whether what a model quotes stands in the window it was shown           *)
(* (src/dge/l3/evidence.py check_evidence), and which characters of the    *)
(* window are stored for it.  Texts are sequences of characters.  A        *)
(* missing span is rejected like an empty one.                             *)
(***************************************************************************)
EXTENDS Naturals, Sequences, FiniteSets, SequencesExt, FiniteSetsExt

CONSTANTS
  Char,
  Space,      \* WHITESPACE, the Unicode spaces included
  Blank,      \* what a run of them becomes
  Stripped,   \* those of them str.strip() removes: not the zero-width ones
  Folded,     \* character -> what casefold makes of it
  MinChars    \* MIN_EVIDENCE_CHARS

ASSUME EvidenceAssumption ==
  /\ Blank \in Stripped /\ Stripped \subseteq Space /\ Space \subseteq Char
  /\ Folded \in [Char -> Char]
  /\ \A c \in Char : c \in Space => Folded[c] = c
  /\ \A c \in Char : c \notin Space => Folded[c] \notin Space
  /\ MinChars \in Nat \ {0}

Indices(t) == [i \in DOMAIN t |-> i]

-----------------------------------------------------------------------------
(* _normalize *)

\* Mutant: a leading space is kept.
IndexMapLeading(t) ==
  FoldLeft(LAMBDA done, i :
             IF t[i] \in Space
             THEN IF done.pending # 0 THEN done ELSE [done EXCEPT !.pending = i]
             ELSE [map |-> IF done.pending = 0 THEN Append(done.map, i)
                           ELSE done.map \o <<done.pending, i>>,
                   pending |-> 0],
           [map |-> <<>>, pending |-> 0], Indices(t)).map

\* Where each character of the collapsed text stood: all but white space, and
\* the first of each run of white space between them.
IndexMap(t) ==
  FoldLeft(LAMBDA done, i :
             IF t[i] \in Space
             THEN IF done.map = <<>> \/ done.pending # 0 THEN done
                  ELSE [done EXCEPT !.pending = i]
             ELSE [map |-> IF done.pending = 0 THEN Append(done.map, i)
                           ELSE done.map \o <<done.pending, i>>,
                   pending |-> 0],
           [map |-> <<>>, pending |-> 0], Indices(t)).map

Collapsed(t) ==
  LET map == IndexMap(t)
  IN  [k \in DOMAIN map |-> IF t[map[k]] \in Space THEN Blank ELSE t[map[k]]]

-----------------------------------------------------------------------------
(* check_evidence *)

Trim(t) ==
  LET kept == {i \in DOMAIN t : t[i] \notin Stripped}
  IN  IF kept = {} THEN <<>> ELSE SubSeq(t, Min(kept), Max(kept))

\* The first occurrence of s in t, 0 for none.
Find(t, s) ==
  LET found == {i \in 1 .. Len(t) + 1 - Len(s) : SubSeq(t, i, i + Len(s) - 1) = s}
  IN  IF found = {} THEN 0 ELSE Min(found)

Fold(t) == [i \in DOMAIN t |-> Folded[t[i]]]

Slice(verdict, window, first, last) ==
  [verdict |-> verdict, reason |-> "none", first |-> first, last |-> last,
   span |-> SubSeq(window, first, last)]

Rejected(reason) ==
  [verdict |-> "rejected", reason |-> reason, first |-> 0, last |-> 0, span |-> <<>>]

CheckEvidence(span, window) ==
  LET quote == Collapsed(span)
      trimmed == Trim(span)
      exact == Find(window, trimmed)
      map == IndexMap(window)
      reflowed == Find(Collapsed(window), quote)
  IN  IF quote = <<>> THEN Rejected("empty")
      ELSE IF Len(quote) < MinChars THEN Rejected("too_short")
      ELSE IF exact # 0 THEN Slice("exact", window, exact, exact + Len(trimmed) - 1)
      ELSE IF reflowed # 0
           THEN Slice("reflowed", window, map[reflowed], map[reflowed + Len(quote) - 1])
      ELSE IF Find(Fold(Collapsed(window)), Fold(quote)) # 0
           THEN Rejected("case_mismatch_only")
      ELSE Rejected("not_in_window")

-----------------------------------------------------------------------------
(* What the check should decide, without collapsing anything *)

Visible(t) ==
  FoldLeft(LAMBDA seen, i : IF t[i] \in Space THEN seen ELSE Append(seen, i),
           <<>>, Indices(t))

\* Equal but for white space: the same characters, apart in the same places.
SameButForSpace(a, b) ==
  LET x == Visible(a)  y == Visible(b) IN
  /\ Len(x) = Len(y)
  /\ \A k \in DOMAIN x : a[x[k]] = b[y[k]]
  /\ \A k \in 2..Len(x) : x[k] = x[k - 1] + 1 <=> y[k] = y[k - 1] + 1

LongEnough(t) ==
  LET x == Visible(t)
  IN  Len(x) + Cardinality({k \in 2..Len(x) : x[k] # x[k - 1] + 1}) >= MinChars

QuotedAt(span, window) ==
  {p \in (DOMAIN window) \X (DOMAIN window) :
     p[1] <= p[2] /\ SameButForSpace(SubSeq(window, p[1], p[2]), span)}

\* A span is evidence exactly if it is long enough and some slice of the window
\* says the same but for white space; what is stored is such a slice, in the
\* window's own characters; and a wrong case is told from a wrong text.
MeetsReference(span, window) ==
  LET check == CheckEvidence(span, window)
      proper == LongEnough(span) /\ Visible(span) # <<>>
  IN  /\ check.verdict # "rejected" <=> proper /\ QuotedAt(span, window) # {}
      /\ check.verdict # "rejected" => /\ <<check.first, check.last>> \in QuotedAt(span, window)
                                       /\ check.span = SubSeq(window, check.first, check.last)
      /\ check.reason = "case_mismatch_only" <=>
           /\ proper /\ QuotedAt(span, window) = {}
           /\ QuotedAt(Fold(span), Fold(window)) # {}
=============================================================================
