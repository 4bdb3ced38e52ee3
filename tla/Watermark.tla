------------------------------- MODULE Watermark -------------------------------
(***************************************************************************)
(* The mark of a delivered copy and the attribution of a leaked one.  A    *)
(* copy carries the bits of its mark over and over, as a zero-width space  *)
(* (or none) behind each significant code point.  A leaked copy comes back *)
(* changed: mark characters lost or added, code points changed, pieces of  *)
(* two copies put together.  The widths of the mark's fields are           *)
(* parameters; a code point is the class the code tells apart.             *)
(***************************************************************************)
EXTENDS Integers, Sequences, SequencesExt, FiniteSets

CONSTANTS
  Pubs,           \* publications
  Draft,          \* the text each author sent
  Contexts,       \* identifiers of purchases (and of publications, for the author's copy)
  PubOf,          \* the publication of each context
  Code,           \* external: the first bits of HMAC(mark key, version, id, identity)
  VersionBits,    \* k_version_bit_count
  IdBits,         \* k_id_bit_count
  CodeBits,       \* bits of the code
  CrcBits,        \* k_legacy_checksum_bit_count
  CrcPolynomial,  \* k_crc_polynomial, as bits
  MaxCandidates,  \* k_max_candidates
  Threshold,      \* k_mark_confidence_threshold
  MaxEdits,       \* bound: changes to a leaked copy
  None            \* no context

Letters    == {"a", "b"}              \* is_ascii_alphanumeric
CodePoints == Letters \cup {
  "o",     \* any other code point
  "u",     \* a byte that is no part of one (k_unknown_code_point)
  "v",     \* a variation selector
  "z"}     \* k_mark_code_point

\* is_channel_domain: valid UTF-8.  publish refuses any other text.
IsChannelDomain(text) == \A i \in DOMAIN text : text[i] # "u"

BitCount      == VersionBits + IdBits + CodeBits    \* k_mark_bit_count
Version       == 2                                  \* k_mark_version
LegacyVersion == 1
Bits(n)       == [1 .. n -> {0, 1}]
Marks         == [version: Nat, id: Nat, code: Nat]

\* A number shifted to the right by so many bits; nothing is left of one that has no more.
Shifted(value, bits) ==
  LET shifted[n \in 0 .. bits] == IF n = 0 THEN value ELSE shifted[n - 1] \div 2
  IN shifted[bits]

ASSUME WidthsAssumption ==
  {VersionBits, IdBits, CodeBits, CrcBits} \subseteq Nat /\ VersionBits >= 2 /\ CrcBits <= CodeBits
ASSUME ContextsAssumption ==
  /\ Contexts \subseteq Nat /\ \A c \in Contexts : Shifted(c, IdBits) = 0
  /\ PubOf \in [Contexts -> Pubs]
  /\ Code \in [Contexts -> Nat] /\ \A c \in Contexts : Shifted(Code[c], CodeBits) = 0
  /\ None \notin Contexts
ASSUME DraftAssumption == \A p \in Pubs : Draft[p] \in Seq(CodePoints) /\ IsChannelDomain(Draft[p])
ASSUME LimitsAssumption == Threshold \in Nat \ {0} /\ MaxCandidates \in Nat \ {0} /\ MaxEdits \in Nat
ASSUME CrcAssumption == CrcPolynomial \in Bits(CrcBits)

VARIABLES
  pc,           \* "delivered": a copy is out; "judge": its marks are looked at; "done": answered
  leak,         \* the leaked text
  sources,      \* history: the contexts whose copies it was made from
  edits,        \* history: how often it was changed
  whole,        \* history: how many whole marks it had
  marks,        \* the marks read_marks returned that are still to be looked at
  matched,      \* the context found
  resolved,     \* resolved_any
  mismatched,   \* an authentic mark is on another text
  error,        \* resolution_error
  broken,       \* history: a record could not be read
  answer        \* what attribute answers

copy     == <<leak, sources, edits, whole>>
judgment == <<marks, matched, resolved, mismatched, error, broken>>
vars == <<pc, leak, sources, edits, whole, marks, matched, resolved, mismatched, error, broken, answer>>

Errors == {"mark_version_unsupported", "mark_not_found", "mark_not_confident", "purchase_not_found",
           "content_mismatch", "mark_authentication_failed", "storage_failed"}

TypeOK ==
  /\ pc \in {"idle", "delivered", "judge", "done"}
  /\ leak \in Seq(CodePoints)
  /\ sources \subseteq Contexts
  /\ edits \in 0 .. MaxEdits
  /\ whole \in Nat
  /\ marks \in Seq(Marks)
  /\ matched \in Contexts \cup {None}
  /\ resolved \in BOOLEAN /\ mismatched \in BOOLEAN /\ broken \in BOOLEAN
  /\ error \in Errors
  /\ answer \in Errors \cup {"attributed", "none"}

--------------------------------------------------------------------------------
\* The elements of a sequence at the places K, in their order.
Pick(q, K) ==
  LET picked[n \in 0 .. Len(q)] ==
        IF n = 0 THEN <<>>
        ELSE LET p == picked[n - 1] IN IF n \in K THEN Append(p, q[n]) ELSE p
  IN picked[Len(q)]

--------------------------------------------------------------------------------
(***************************************************************************)
(* The canonical form: the text without what carries marks.                *)
(***************************************************************************)
\* is_mark_channel: a mark, or a variation selector that follows a letter or digit.
IsMarkChannel(c, previous) == c = "z" \/ (c = "v" /\ previous \in Letters)

\* Mutant: previous is also moved over what is dropped.
KeepForgetting(r, c) ==
  IF IsMarkChannel(c, r.previous) THEN [r EXCEPT !.previous = c]
  ELSE [form |-> Append(r.form, c), previous |-> c]

\* canonical_form on the next code point: previous is the last one that was kept.
Keep(r, c) ==
  IF IsMarkChannel(c, r.previous) THEN r ELSE [form |-> Append(r.form, c), previous |-> c]

CanonicalForm(text) ==
  LET read[n \in 0 .. Len(text)] ==
        IF n = 0 THEN [form |-> <<>>, previous |-> "o"] ELSE Keep(read[n - 1], text[n])
  IN read[Len(text)].form

\* What a publication keeps of its draft; its identity is the digest of this.
Text(p) == CanonicalForm(Draft[p])

--------------------------------------------------------------------------------
(***************************************************************************)
(* The bits of a mark.                                                     *)
(***************************************************************************)
\* write_bits and read_bits, the most significant bit first.
WriteBits(value, width) == [i \in 1 .. width |-> Shifted(value, width - i) % 2]
ReadBits(bits) ==
  LET value[n \in 0 .. Len(bits)] == IF n = 0 THEN 0 ELSE 2 * value[n - 1] + bits[n]
  IN value[Len(bits)]

EncodeMark(m) == WriteBits(m.version, VersionBits) \o WriteBits(m.id, IdBits) \o WriteBits(m.code, CodeBits)

DecodeMark(bits) ==
  [version |-> ReadBits(SubSeq(bits, 1, VersionBits)),
   id      |-> ReadBits(SubSeq(bits, VersionBits + 1, VersionBits + IdBits)),
   code    |-> ReadBits(SubSeq(bits, VersionBits + IdBits + 1, BitCount))]

\* crc16, one bit at a time.
Crc(payload) ==
  FoldLeft(LAMBDA crc, b :
             LET shifted == Append(Tail(crc), 0)
             IN IF crc[1] = b THEN shifted ELSE [i \in 1 .. CrcBits |-> (shifted[i] + CrcPolynomial[i]) % 2],
           [i \in 1 .. CrcBits |-> 1], payload)

\* A mark of the first version: no code, but a checksum behind the identifier.
IsLegacyMark(bits) ==
  /\ ReadBits(SubSeq(bits, 1, VersionBits)) = LegacyVersion
  /\ SubSeq(bits, VersionBits + IdBits + 1, VersionBits + IdBits + CrcBits) = Crc(SubSeq(bits, 1, VersionBits + IdBits))

--------------------------------------------------------------------------------
(***************************************************************************)
(* The mark channel.                                                       *)
(***************************************************************************)
\* Positions of the significant code points of a text, in order.
Significant(text) == Pick([i \in 1 .. Len(text) |-> i], {i \in DOMAIN text : text[i] # "z"})

HasMarkChannel(text) == IsChannelDomain(text) /\ Len(Significant(text)) >= BitCount

\* embed_mark on the next code point: the bits over and over, one behind each significant
\* code point.
PutBit(bits, r, c) ==
  IF c = "z" THEN [r EXCEPT !.text = Append(@, c)]
  ELSE [text |-> r.text \o (IF bits[(r.significant % BitCount) + 1] = 1 THEN <<c, "z">> ELSE <<c>>),
        significant |-> r.significant + 1]

\* embed_mark, on a text with a mark channel.
EmbedMark(text, m) ==
  LET bits == EncodeMark(m)
      marked[n \in 0 .. Len(text)] ==
        IF n = 0 THEN [text |-> <<>>, significant |-> 0] ELSE PutBit(bits, marked[n - 1], text[n])
  IN marked[Len(text)].text

\* Mutant: the first whole window is taken for an incomplete one.
WindowsLate(text) ==
  LET s == Significant(text)
      bits == [k \in 1 .. Len(s) |-> IF s[k] < Len(text) /\ text[s[k] + 1] = "z" THEN 1 ELSE 0]
      count == IF Len(s) <= BitCount THEN 0 ELSE Len(s) - BitCount
  IN [k \in 1 .. count |-> SubSeq(bits, k + 1, k + BitCount)]

\* The windows read_marks looks at: BitCount successive bits of the significant code points.
Windows(text) ==
  LET s == Significant(text)
      bits == [k \in 1 .. Len(s) |-> IF s[k] < Len(text) /\ text[s[k] + 1] = "z" THEN 1 ELSE 0]
      count == IF Len(s) < BitCount THEN 0 ELSE Len(s) - BitCount + 1
  IN [k \in 1 .. count |-> SubSeq(bits, k, k + BitCount - 1)]

\* count_occurrence: a table that is full takes no new mark.
CountOccurrence(candidates, m) ==
  IF \E i \in DOMAIN candidates : candidates[i].mark = m
    THEN [i \in DOMAIN candidates |->
            IF candidates[i].mark = m THEN [candidates[i] EXCEPT !.count = @ + 1] ELSE candidates[i]]
    ELSE IF Len(candidates) < MaxCandidates THEN Append(candidates, [mark |-> m, count |-> 1])
                                            ELSE candidates

\* The table of candidates after each of the windows: marks of this version are counted.
Table(windows) ==
  LET table[n \in 0 .. Len(windows)] ==
        IF n = 0 THEN <<>>
        ELSE LET w == windows[n]
             IN IF IsLegacyMark(w) \/ DecodeMark(w).version # Version THEN table[n - 1]
                ELSE CountOccurrence(table[n - 1], DecodeMark(w))
  IN table[Len(windows)]

\* The marks read_marks returns, in the order they first occur, or its error.
ReadMarks(text) ==
  LET windows == Windows(text)
      table == Table(windows)
      confident == Pick(table, {i \in DOMAIN table : table[i].count >= Threshold})
      failed == IF \E k \in DOMAIN windows : IsLegacyMark(windows[k]) THEN "mark_version_unsupported"
                ELSE IF confident # <<>> THEN "none"
                ELSE IF \A i \in DOMAIN text : text[i] # "z" THEN "mark_not_found"
                ELSE "mark_not_confident"
  IN [marks |-> [i \in DOMAIN confident |-> confident[i].mark], failed |-> failed]

--------------------------------------------------------------------------------
(***************************************************************************)
(* Delivery, and what becomes of a copy.                                   *)
(***************************************************************************)
\* seal_mark
MarkOf(c) == [version |-> Version, id |-> c, code |-> Code[c]]

\* seal_marked: a text too short for a mark is delivered as it is.
CopyFor(c) ==
  LET text == Text(PubOf[c])
  IN IF HasMarkChannel(text) THEN EmbedMark(text, MarkOf(c)) ELSE text

\* How many whole marks a text carries.
WholeMarks(text) == Len(text) \div BitCount

Init ==
  /\ pc = "idle"
  /\ leak = <<>>
  /\ sources = {}
  /\ edits = 0
  /\ whole = 0
  /\ marks = <<>>
  /\ matched = None
  /\ resolved = FALSE /\ mismatched = FALSE /\ broken = FALSE
  /\ error = "purchase_not_found"
  /\ answer = "none"

Deliver ==
  /\ pc = "idle"
  /\ \E c \in Contexts : leak' = CopyFor(c) /\ sources' = {c} /\ whole' = WholeMarks(Text(PubOf[c]))
  /\ pc' = "delivered"
  /\ UNCHANGED <<edits, judgment, answer>>

\* A copy changes in one place while it is out.
Change ==
  /\ pc = "delivered"
  /\ edits < MaxEdits
  /\ edits' = edits + 1
  /\ UNCHANGED <<pc, judgment, answer>>

\* A mark character or another code point is lost.
Lose ==
  /\ Change
  /\ \E i \in DOMAIN leak : leak' = RemoveAt(leak, i)
  /\ UNCHANGED <<sources, whole>>

\* A mark character, a variation selector or a stray byte gets in.
Gain ==
  /\ Change
  /\ \E i \in 1 .. Len(leak) + 1, c \in {"z", "v", "u"} : leak' = InsertAt(leak, i, c)
  /\ UNCHANGED <<sources, whole>>

\* How many significant code points come before place i.
Before(text, i) == Cardinality({j \in 1 .. (i - 1) : text[j] # "z"})

\* From some code point on the text is taken from the copy of another context of the publication.
Splice ==
  /\ Change
  /\ edits = 0
  /\ \E c \in Contexts \ sources, d \in sources :
       /\ PubOf[c] = PubOf[d]
       /\ LET copy_c == CopyFor(c)
          IN \E i \in 2 .. Len(leak), j \in 2 .. Len(copy_c) :
               /\ leak[i] # "z" /\ copy_c[j] # "z" /\ Before(leak, i) = Before(copy_c, j)
               /\ leak' = SubSeq(leak, 1, i - 1) \o SubSeq(copy_c, j, Len(copy_c))
       /\ sources' = sources \cup {c}
  /\ UNCHANGED whole

\* The marks of a copy are put on the text of another publication.
Transplant ==
  /\ Change
  /\ edits = 0
  /\ \E c \in sources, p \in Pubs :
       /\ p # PubOf[c]
       /\ HasMarkChannel(Text(p))
       /\ leak' = EmbedMark(Text(p), MarkOf(c))
       /\ whole' = WholeMarks(Text(p))
  /\ UNCHANGED sources

--------------------------------------------------------------------------------
(***************************************************************************)
(* attribute                                                               *)
(***************************************************************************)
Answer(what) == pc' = "done" /\ answer' = what

Attribute ==
  /\ pc = "delivered"
  /\ LET read == ReadMarks(leak)
     IN IF read.failed # "none"
          THEN Answer(read.failed) /\ UNCHANGED marks
          ELSE pc' = "judge" /\ marks' = read.marks /\ UNCHANGED answer
  /\ UNCHANGED <<copy, matched, resolved, mismatched, error, broken>>

\* resolve_context finds no context, or cannot read a record: the mark is passed over.
Unresolved ==
  /\ pc = "judge"
  /\ marks # <<>>
  /\ \/ /\ Head(marks).id \notin Contexts
        /\ error' = "purchase_not_found"
        /\ UNCHANGED broken
     \/ error' = "storage_failed" /\ broken' = TRUE
  /\ marks' = Tail(marks)
  /\ UNCHANGED <<pc, copy, matched, resolved, mismatched, answer>>

\* verify_mark
VerifyMark(m) == m.code = Code[m.id]

\* Mutant: a second match is not noticed.
SecondUnseen == FALSE

\* Another mark has matched already.
Second == matched # None

\* The next mark names a context that exists: it counts if its code is right and the
\* leaked text is the publication's; a second one makes the answer uncertain.
Judge ==
  /\ pc = "judge"
  /\ marks # <<>>
  /\ Head(marks).id \in Contexts
  /\ resolved' = TRUE
  /\ marks' = Tail(marks)
  /\ LET m == Head(marks)
         same == CanonicalForm(leak) = Text(PubOf[m.id])
     IN CASE ~VerifyMark(m) -> UNCHANGED <<pc, answer, matched, mismatched>>
          [] VerifyMark(m) /\ ~same -> mismatched' = TRUE /\ UNCHANGED <<pc, answer, matched>>
          [] VerifyMark(m) /\ same /\ Second ->
               Answer("mark_not_confident") /\ UNCHANGED <<matched, mismatched>>
          [] OTHER -> matched' = m.id /\ UNCHANGED <<pc, answer, mismatched>>
  /\ UNCHANGED <<copy, error, broken>>

\* The mark key, the content's digest or the user's record cannot be had.
Fail ==
  /\ pc = "judge"
  /\ Answer("storage_failed")
  /\ broken' = TRUE
  /\ UNCHANGED <<copy, marks, matched, resolved, mismatched, error>>

\* Mutant: a mark on another text is forgotten over any mark whose context was found.
ConcludeForgetting ==
  /\ pc = "judge"
  /\ marks = <<>>
  /\ Answer(CASE matched # None -> "attributed"
              [] matched = None /\ resolved -> "mark_authentication_failed"
              [] OTHER -> error)
  /\ UNCHANGED <<copy, judgment>>

\* All marks have been looked at.
Conclude ==
  /\ pc = "judge"
  /\ marks = <<>>
  /\ Answer(CASE matched # None -> "attributed"
              [] matched = None /\ mismatched -> "content_mismatch"
              [] matched = None /\ ~mismatched /\ resolved -> "mark_authentication_failed"
              [] OTHER -> error)
  /\ UNCHANGED <<copy, judgment>>

\* The answer is out; another copy may leak.
Leave ==
  /\ pc = "done"
  /\ pc' = "idle" /\ answer' = "none"
  /\ leak' = <<>> /\ sources' = {} /\ edits' = 0 /\ whole' = 0
  /\ marks' = <<>> /\ matched' = None
  /\ resolved' = FALSE /\ mismatched' = FALSE /\ broken' = FALSE
  /\ error' = "purchase_not_found"

Next ==
  \/ Deliver \/ Lose \/ Gain \/ Splice \/ Transplant
  \/ Attribute \/ Unresolved \/ Judge \/ Fail \/ Conclude \/ Leave

Spec == Init /\ [][Next]_vars

--------------------------------------------------------------------------------
\* A run of bits that happens to be a mark of the first version.
LegacyLooking(text) == LET ws == Windows(text) IN \E k \in DOMAIN ws : IsLegacyMark(ws[k])

\* How many windows of the text read as the mark of context c, and whether these are enough.
Carried(text, c) == LET ws == Windows(text) IN Cardinality({k \in DOMAIN ws : DecodeMark(ws[k]) = MarkOf(c)})
Often(text, c) == Carried(text, c) >= Threshold

\* So many other windows look like marks that c's may find the table of candidates full.
Crowded(text, c) ==
  LET ws == Windows(text)
      others == {m \in {DecodeMark(ws[k]) : k \in DOMAIN ws} : m.version = Version /\ m # MarkOf(c)}
  IN Cardinality(others) >= MaxCandidates

\* Reference: the text without marks and without the variation selectors that follow a
\* letter with nothing but marks and selectors in between.
Bare(text) ==
  LET carrier(i) ==
        \/ text[i] = "z"
        \/ text[i] = "v" /\ \E j \in 1 .. (i - 1) :
                              text[j] \in Letters /\ \A k \in (j + 1) .. (i - 1) : text[k] \in {"v", "z"}
  IN Pick(text, {i \in DOMAIN text : ~carrier(i)})

\* Each change costs a copy at most one of its marks.
MarksSurvive ==
  \A c \in Contexts : sources = {c} => Carried(leak, c) >= whole - edits

\* With enough marks left a copy is attributed to its context as long as the text is still
\* the publication's, and recognised as changed otherwise; unless its bits look like an old
\* mark or like too many marks.
CopyTraced ==
  \A c \in Contexts :
    /\ pc = "done" /\ sources = {c} /\ ~broken
    /\ whole - edits >= Threshold
    /\ ~LegacyLooking(leak) /\ ~Crowded(leak, c)
    => IF Bare(leak) = Bare(Draft[PubOf[c]]) THEN answer = "attributed" /\ matched = c
                                            ELSE answer = "content_mismatch"

\* Nobody is named whose copy the leaked text was not made from, nor for a text that is
\* not the publication's; a text with the marks of two contexts names neither, as long
\* as their records can be read.
NeverFramed ==
  answer = "attributed" =>
    /\ matched \in sources
    /\ Bare(leak) = Bare(Draft[PubOf[matched]])
    /\ Often(leak, matched)
    /\ ~broken => \A c \in sources \ {matched} : Often(leak, c) => Crowded(leak, c)

\* The marks that speak for a context: the code is right; and of these the ones of the
\* publication the text is of.
Genuine(ms) == {m \in ms : m.id \in Contexts /\ VerifyMark(m)}
Fitting(ms) == {m \in Genuine(ms) : CanonicalForm(leak) = Text(PubOf[m.id])}

\* What attribute answers depends on which marks are read and not on their order: the one
\* mark that fits, nothing if two do, else the best reason the others give.
VerdictExact ==
  LET read == ReadMarks(leak)
      ms == {read.marks[i] : i \in DOMAIN read.marks}
  IN pc = "done" /\ ~broken =>
       /\ answer = CASE read.failed # "none" -> read.failed
                     [] read.failed = "none" /\ Cardinality(Fitting(ms)) > 1 -> "mark_not_confident"
                     [] read.failed = "none" /\ Cardinality(Fitting(ms)) = 1 -> "attributed"
                     [] read.failed = "none" /\ Fitting(ms) = {} /\ Genuine(ms) # {} -> "content_mismatch"
                     [] read.failed = "none" /\ Genuine(ms) = {} /\ \E m \in ms : m.id \in Contexts ->
                          "mark_authentication_failed"
                     [] OTHER -> "purchase_not_found"
       /\ answer = "attributed" => \E m \in Fitting(ms) : m.id = matched
================================================================================
