------------------------------- MODULE Chunker -------------------------------
(***************************************************************************)
(* _split_message of src/bot/price_notice_bot.py, one step per iteration   *)
(* of its while loop.  A text is a sequence of characters from a two-      *)
(* letter alphabet: a newline and one other character, which is all the    *)
(* algorithm tells apart.  Python's index rules are kept: rfind's end and  *)
(* a slice bound count from the end when negative and are clamped to the   *)
(* text, which matters when max_message_length <= 100.                     *)
(***************************************************************************)
EXTENDS Integers, Sequences, SequencesExt

CONSTANTS
    MaxMessageLength,  \* config.max_message_length
    Margin,            \* the literal 100 subtracted before searching
    MaxTextLen         \* longest input text checked

ASSUME MaxMessageLength \in Nat \ {0} /\ Margin \in Nat /\ MaxTextLen \in Nat

NL == "\n"
Alphabet == {"x", NL}

VARIABLES
    input,     \* the argument text (never changes)
    text,      \* the local `text` of the loop
    messages,  \* the local `messages`
    done       \* the function has returned

vars == <<input, text, messages, done>>

\* A Python slice or search bound k on a sequence of length len.
SliceIndex(k, len) ==
    IF k < 0 THEN IF k + len < 0 THEN 0 ELSE k + len
    ELSE IF k > len THEN len ELSE k

\* s[:k] and s[k:].
Before(s, k) == SubSeq(s, 1, SliceIndex(k, Len(s)))

\* Mutant: the remainder starts one past the cut (text[split_pos + 1:]).
FromSkipCut(s, k) == SubSeq(s, SliceIndex(k, Len(s)) + 2, Len(s))

From(s, k) == SubSeq(s, SliceIndex(k, Len(s)) + 1, Len(s))

\* Mutant: the search is not bounded by end (text.rfind('\n')).
RFindNLUnbounded(s, end) == SelectLastInSeq(s, LAMBDA c : c = NL) - 1

\* s.rfind('\n', 0, end): the 0-based index of the last newline of
\* s[0:end], or -1.
RFindNL(s, end) ==
    SelectLastInSubSeq(s, 1, SliceIndex(end, Len(s)), LAMBDA c : c = NL) - 1

\* s.lstrip('\n').
RECURSIVE LStripNL(_)
LStripNL(s) == IF s # <<>> /\ Head(s) = NL THEN LStripNL(Tail(s)) ELSE s

\* split_pos: the last newline before max_message_length - 100, else that
\* position itself.
SplitPos(s) ==
    LET p == RFindNL(s, MaxMessageLength - Margin)
    IN  IF p = -1 THEN MaxMessageLength - Margin ELSE p

Init ==
    /\ input \in SeqOf(Alphabet, MaxTextLen)
    /\ text = input
    /\ messages = <<>>
    /\ done = FALSE

\* One iteration: emit text[:split_pos], continue with the rest stripped
\* of its leading newlines.
SplitOnce ==
    /\ ~done
    /\ Len(text) > MaxMessageLength
    /\ messages' = Append(messages, Before(text, SplitPos(text)))
    /\ text' = LStripNL(From(text, SplitPos(text)))
    /\ UNCHANGED <<input, done>>

\* The loop exits: a non-empty remainder is the last chunk.
Finish ==
    /\ ~done
    /\ Len(text) <= MaxMessageLength
    /\ messages' = IF text # <<>> THEN Append(messages, text) ELSE messages
    /\ done' = TRUE
    /\ UNCHANGED <<input, text>>

\* The result has been returned.
Returned == done /\ UNCHANGED vars

Next == SplitOnce \/ Finish \/ Returned

Spec == Init /\ [][Next]_vars /\ WF_vars(SplitOnce \/ Finish)

-----------------------------------------------------------------------------
(* Properties.                                                             *)

\* Chunks after the first never start with a newline (lstrip), so the
\* input is recovered from the chunks iff it is each chunk in turn, each
\* followed by some run of newlines (at most MaxGap of them).
RECURSIVE Recovers(_, _, _)
Recovers(msgs, s, MaxGap) ==
    IF msgs = <<>>
    THEN Len(s) <= MaxGap /\ \A i \in 1..Len(s) : s[i] = NL
    ELSE LET c    == Head(msgs)
             rest == SubSeq(s, Len(c) + 1, Len(s))
             gap  == Len(rest) - Len(LStripNL(rest))
         IN  /\ Len(c) <= Len(s)
             /\ SubSeq(s, 1, Len(c)) = c
             /\ gap <= MaxGap
             /\ Recovers(Tail(msgs), LStripNL(rest), MaxGap)

\* Every chunk handed to send_message fits the transport limit.
ChunkWithinLimit == \A i \in 1..Len(messages) : Len(messages[i]) <= MaxMessageLength

\* Splitting loses nothing but newlines at the cut points: the returned
\* chunks, each followed by the newlines lstrip removed after it, are
\* the input.
OnlyCutNewlinesLost == done => Recovers(messages, input, MaxTextLen)

\* Spec 8 round trip: re-inserting the single newline the algorithm drops
\* between chunks gives back the input.
RoundTripSingleNewline == done => Recovers(messages, input, 1)

=============================================================================
