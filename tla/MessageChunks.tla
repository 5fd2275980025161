---------------------------- MODULE MessageChunks ----------------------------
(***************************************************************************)
(* How a long message is cut for Telegram                                  *)
(* (src/integrations/telegram/chunker.py) and what is displayed of it      *)
(* (client.py, send_message): a chunk whose tags do not match is rejected  *)
(* and sent again as plain text, one whose text is too long is rejected    *)
(* both times.                                                             *)
(*                                                                         *)
(* A message is written first, then cut.  It is a sequence of tokens:      *)
(* letters (each has the number of the place where it was written),        *)
(* blanks, blank lines, opening and closing tags.  A                       *)
(* blank line counts as one character and sentences are not told from      *)
(* words: they are a better place for a cut of the same kind.  Calls that  *)
(* fail otherwise are in Egress.                                           *)
(***************************************************************************)
EXTENDS Naturals, Sequences, FiniteSets, SequencesExt, FiniteSetsExt

CONSTANTS
    MaxLength,  \* characters of a chunk, tags included
    Limit,      \* characters Telegram accepts, tags not included
    TagWidth,   \* characters of a tag
    Words,      \* lengths of the words written
    TagNames,   \* b, pre and a: a tag that is reopened, code, a link
    MaxPieces,  \* bound: words, blanks and tags written
    MaxChunks   \* bound: cuts

ASSUME ChunksAssumption ==
    /\ MaxLength \in Nat /\ Limit \in Nat /\ MaxLength <= Limit
    /\ TagWidth \in Nat \ {0} /\ TagWidth < MaxLength
    /\ Words \subseteq Nat \ {0} /\ TagNames \subseteq {"b", "pre", "a"}
    /\ MaxPieces \in Nat /\ MaxChunks \in Nat

VARIABLES
    pieces,     \* words, blanks and tags written
    open,       \* tags that are open where the message is written
    html,       \* the message, with the tags that were reopened
    start,      \* where the next chunk starts
    cuts,       \* the cuts made: what was open at each
    displayed,  \* the chunks that were displayed
    rejected,   \* letters in chunks that were rejected both times
    unformatted, \* chunks displayed as plain text
    progress    \* writing, cutting or done

chunkVars == <<pieces, open, html, start, cuts, displayed, rejected, unformatted,
               progress>>

Letter(n) == <<"letter", n>>
Blank == <<"blank">>
Line == <<"line">>
Open(t) == <<"open", t>>
Close(t) == <<"close", t>>

IsTag(k) == k[1] \in {"open", "close"}
Size(s) == Len(s) + (TagWidth - 1) * Cardinality({i \in DOMAIN s : IsTag(s[i])})
Letters(s) == {s[i] : i \in {j \in DOMAIN s : s[j][1] = "letter"}}
Text(s) == {i \in DOMAIN s : ~IsTag(s[i])}

-----------------------------------------------------------------------------
(* The message.                                                            *)

Add(s) ==
    /\ html' = html \o s
    /\ pieces' = pieces + 1
    /\ UNCHANGED <<start, cuts, displayed, rejected, unformatted, progress>>

Writing == progress = "writing" /\ pieces < MaxPieces
InPre == open # <<>> /\ Last(open) = "pre"

WriteWord(w) ==
    /\ Writing
    /\ Add([i \in 1 .. w |-> Letter(Len(html) + i)])
    /\ UNCHANGED open

WriteBreak(k) ==
    /\ Writing /\ html # <<>> /\ Last(html)[1] = "letter"
    /\ Add(<<k>>)
    /\ UNCHANGED open

\* The formatter writes code between other tags and no tag in it; the two tags
\* of a block with a language are taken as one.
OpenTag(t) ==
    /\ Writing /\ t \notin ToSet(open) /\ ~InPre
    /\ t = "pre" => open = <<>>
    /\ Add(<<Open(t)>>)
    /\ open' = Append(open, t)

CloseTag ==
    /\ Writing /\ open # <<>> /\ Last(html) # Open(Last(open))
    /\ Add(<<Close(Last(open))>>)
    /\ open' = Front(open)

StartCutting ==
    /\ progress = "writing" /\ open = <<>> /\ html # <<>>
    /\ progress' = "cutting"
    /\ UNCHANGED <<pieces, open, html, start, cuts, displayed, rejected, unformatted>>

-----------------------------------------------------------------------------
(* Where it is cut.                                                        *)

Upto(i) == SubSeq(html, start, i)

\* The last token that ends before start + max_length.
LastWhole ==
    LET ends == start .. Min({Len(html), start + MaxLength - 1})
    IN  Max({i \in ends : Size(Upto(i)) <= MaxLength})

Indices(k, from, to) == {i \in from .. to : html[i] = k}
LastOf(k, from, to) == Max({0} \cup Indices(k, from, to))

\* The end of the code that is open there, if it starts within a fifth more.
CodeEnds(last, insideTag) ==
    LET next == Indices(Close("pre"), last + (IF insideTag THEN 2 ELSE 1), Len(html))
    IN  {i \in next : i = Min(next) /\ 10 * Size(Upto(i - 1)) < 12 * MaxLength}

\* The last token of the chunk: the end of the code, or what is before it; what
\* is before a tag; a blank line; a blank; or any.
Cut ==
    LET last == LastWhole
        insideTag == Size(Upto(last)) < MaxLength
        insideCode == LastOf(Open("pre"), 1, last) > LastOf(Close("pre"), 1, last)
        ends == CodeEnds(last, insideTag)
        code == LastOf(Open("pre"), start, last)
        line == LastOf(Line, start + 1, last)
        blank == LastOf(Blank, start + 1, last)
    IN  CASE insideCode /\ ends # {} -> Max(ends)
          [] insideCode /\ ends = {} /\ code > start -> code - 1
          [] OTHER -> IF insideTag \/ (line = 0 /\ blank = 0) THEN last
                      ELSE IF line > 0 THEN line ELSE blank

\* A closing tag takes the last open one off, if that is its own.
After(st, k) ==
    CASE k[1] = "open" -> Append(st, k[2])
      [] k[1] = "close" -> IF st # <<>> /\ Last(st) = k[2] THEN Front(st) ELSE st
      [] OTHER -> st

\* The tags that are open after each token, in the order they were opened.
Stacks(s) ==
    LET st[i \in 0 .. Len(s)] == IF i = 0 THEN <<>> ELSE After(st[i - 1], s[i])
    IN  st

\* All of the message up to the cut is read, with the tags that were reopened
\* and without those that were closed at earlier cuts.
OpenAt(i) == Stacks(html)[i]

\* Mutated Closing: the tags are closed in the order they were opened.
ClosingInOrder(ts) == [i \in DOMAIN ts |-> Close(ts[i])]

Closing(ts) == [i \in DOMAIN ts |-> Close(ts[Len(ts) + 1 - i])]

\* A link cannot be reopened without its target.
Reopening(ts) ==
    LET again[i \in 0 .. Len(ts)] ==
            IF i = 0 THEN <<>>
            ELSE IF ts[i] = "a" THEN again[i - 1] ELSE Append(again[i - 1], Open(ts[i]))
    IN  again[Len(ts)]

-----------------------------------------------------------------------------
(* Chunks are sent as they are cut.                                        *)

\* The tags of a chunk match: what Telegram's parser asks for.
Matches(s) ==
    LET st == Stacks(s) IN
    /\ st[Len(s)] = <<>>
    /\ \A i \in DOMAIN s : s[i][1] = "close" => st[i - 1] # <<>> /\ Last(st[i - 1]) = s[i][2]

Send(chunk) ==
    IF Text(chunk) # {} /\ Cardinality(Text(chunk)) <= Limit
      THEN /\ displayed' = Append(displayed, chunk)
           /\ unformatted' = IF Matches(chunk) THEN unformatted ELSE unformatted \cup {Len(cuts) + 1}
           /\ UNCHANGED rejected
      ELSE /\ rejected' = rejected \cup Letters(chunk)
           /\ UNCHANGED <<displayed, unformatted>>

SendChunk ==
    /\ progress = "cutting" /\ Len(cuts) < MaxChunks
    /\ Size(Upto(Len(html))) > MaxLength
    /\ LET cut == Cut
           tags == OpenAt(cut) IN
       /\ Send(Upto(cut) \o Closing(tags))
       /\ cuts' = Append(cuts, [tags |-> tags, code |-> html[cut] = Close("pre")])
       /\ start' = cut + 1
       /\ html' = IF cut < Len(html)
                    THEN SubSeq(html, 1, cut) \o Reopening(tags) \o SubSeq(html, cut + 1, Len(html))
                    ELSE html
       /\ progress' = IF cut < Len(html) THEN "cutting" ELSE "done"
    /\ UNCHANGED <<pieces, open>>

SendLastChunk ==
    /\ progress = "cutting"
    /\ Size(Upto(Len(html))) <= MaxLength
    /\ Send(Upto(Len(html)))
    /\ progress' = "done"
    /\ UNCHANGED <<pieces, open, html, start, cuts>>

-----------------------------------------------------------------------------

ChunksInit ==
    /\ pieces = 0 /\ open = <<>> /\ html = <<>> /\ start = 1
    /\ cuts = <<>> /\ displayed = <<>> /\ rejected = {} /\ unformatted = {} /\ progress = "writing"

ChunksNext ==
    \/ \E w \in Words : WriteWord(w)
    \/ WriteBreak(Blank) \/ WriteBreak(Line)
    \/ \E t \in TagNames : OpenTag(t)
    \/ CloseTag \/ StartCutting
    \/ SendChunk \/ SendLastChunk

ChunksSpec == ChunksInit /\ [][ChunksNext]_chunkVars

-----------------------------------------------------------------------------
(* Properties.                                                             *)

InOrder(s) ==
    \A i, j \in DOMAIN s :
        i < j /\ s[i][1] = "letter" /\ s[j][1] = "letter" => s[i][2] < s[j][2]

ShownLetters == UNION {Letters(displayed[c]) : c \in DOMAIN displayed}

ShownInOrder ==
    /\ \A c \in DOMAIN displayed : InOrder(displayed[c])
    /\ \A c, d \in DOMAIN displayed : c < d =>
          \A k \in Letters(displayed[c]), l \in Letters(displayed[d]) : k[2] < l[2]

\* A long message is displayed whole, in order and with its format ("Tracks open
\* tags and closes them at chunk end", chunker.py:12), except: a chunk that
\* takes in the end of a code block may be longer than Telegram accepts, and
\* after a cut inside a tag the later chunks may come as plain text.
MessageIsShown ==
    /\ ShownInOrder
    /\ progress = "done" => ShownLetters = Letters(html) \ rejected
    /\ rejected # {} => \E i \in DOMAIN cuts : cuts[i].code
    /\ \A i \in unformatted : \E j \in 1 .. i - 1 : cuts[j].tags # <<>>
=============================================================================
