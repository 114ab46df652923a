---------------------------- MODULE ReportPipeline ----------------------------
(***************************************************************************)
(* The report path of src/bot/price_notice_bot.py: _format_data_message    *)
(* renders the payload into an HTML report, and send_to_channel hands it   *)
(* to _split_message (modelled by Chunker) when it is longer than          *)
(* max_message_length; every chunk is then sent with parse_mode=HTML.     *)
(*                                                                         *)
(* A report is a sequence of tokens: "x" stands for any ordinary           *)
(* character, NL for a newline, OpenPre for the whole opening markup       *)
(* `<pre><code class="language-json">` (or `<pre>`), ClosePre for the     *)
(* closing `</code></pre>` (or `</pre>`), and RawLt for a '<' of the       *)
(* payload, which is inserted without escaping.  The short inline tags of  *)
(* the header and footer lines (<b>, <code>, <i>) open and close on their  *)
(* own line and are abstracted into "x".                                   *)
(***************************************************************************)
EXTENDS Integers, Sequences, SequencesExt

CONSTANTS
    MaxMessageLength,  \* config.max_message_length
    Margin,            \* the literal 100 of _split_message
    MaxTextLen,        \* longest report (Chunker's bound)
    DataAlphabet,      \* the tokens a payload is made of
    MaxDataLen         \* longest payload checked

VARIABLES input, text, messages, done

vars == <<input, text, messages, done>>

C == INSTANCE Chunker

OpenPre == "<pre>"
ClosePre == "</pre>"
RawLt == "<"

\* Title line, time line, blank line, "Data Content:" line, then the
\* opening markup immediately followed by the payload.
Header == <<"x", C!NL, "x", C!NL, C!NL, "x", C!NL, OpenPre>>

\* The closing markup, a blank line and the "Data Source:" line.
Footer == <<ClosePre, C!NL, C!NL, "x">>

\* _format_data_message: both the JSON branch (the payload re-serialised
\* by json.dumps(indent=2), which escapes no '<') and the JSONDecodeError
\* branch (the raw payload) put the payload between the markup unchanged.
FormatDataMessage(data) == Header \o data \o Footer

\* A cycle formats a payload and send_to_channel splits the report.
Init ==
    /\ \E data \in SeqOf(DataAlphabet, MaxDataLen) :
          input = FormatDataMessage(data)
    /\ text = input
    /\ messages = <<>>
    /\ done = FALSE

Next == C!Next

Spec == Init /\ [][Next]_vars /\ WF_vars(C!SplitOnce \/ C!Finish)

-----------------------------------------------------------------------------
(* Properties.                                                             *)

\* Open <pre> markup minus closing markup in s.
PreDepth(s) ==
    Len(SelectSeq(s, LAMBDA c : c = OpenPre)) - Len(SelectSeq(s, LAMBDA c : c = ClosePre))

\* Telegram parses a message with parse_mode=HTML only if every tag it
\* opens is closed in the same message, no tag is closed before it is
\* opened, and a '<' that is not part of a tag is escaped.
ParsesAsHtml(s) ==
    /\ \A k \in 1..Len(s) : PreDepth(SubSeq(s, 1, k)) >= 0
    /\ PreDepth(s) = 0
    /\ \A i \in 1..Len(s) : s[i] # RawLt

\* Every chunk send_to_channel hands to send_message with
\* parse_mode=HTML is a well-formed HTML message: a report that is split
\* must not be split inside its <pre> block, and payload text must not be
\* taken for markup.
ChunksParseAsHtml == done => \A i \in 1..Len(messages) : ParsesAsHtml(messages[i])
=============================================================================
